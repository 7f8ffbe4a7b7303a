\* Lengths with which a node with two children is deleted.  Callers may store
\* data in their blocks: kfree leaves it in the links of the new node, so the
\* walks can leave the tree.
CONSTANTS
  HDR = 1
  Root = 1
  Base = 2
  Limit = 21
  Word = 64
  Sizes = {2, 6, 7}
  Junk <- AnyJunk
  Leftovers <- AnyLeftovers
SPECIFICATION Spec
CHECK_DEADLOCK FALSE
INVARIANTS
  ListsWellFormed
  TreeShaped
  NoZombieFound
PROPERTIES
  ArenaSpec
  UndefinedOnlyThen
