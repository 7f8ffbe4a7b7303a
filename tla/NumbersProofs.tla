----------------------------- MODULE NumbersProofs -----------------------------
(***************************************************************************)
(* Proofs about the conversions of module Numbers, for every width of the  *)
(* integers, and about the loops the models write as recursive functions.  *)
(*                                                                         *)
(* The induction theorems of the library take a predicate, which no prover *)
(* can instantiate.  Here a set takes its place: the set of the            *)
(* counterexamples has a least element (Least), and a step that is a       *)
(* function has a function that follows it (Recursion).                    *)
(***************************************************************************)
EXTENDS Numbers, SequenceTheorems, WellFoundedInduction, TLAPS

-----------------------------------------------------------------------------
(* Recursion over data.                                                    *)

(* A set of numbers has a least one: the induction of what follows. *)
LEMMA Least ==
  ASSUME NEW T, T \subseteq Nat, T # {}
  PROVE  \E x \in T : \A y \in T : x <= y
<1>1. PICK x \in T : \A y \in T : <<y, x>> \notin OpToRel(<, Nat)
  BY WFMin, NatLessThanWellFounded, Zenon
<1>2. ASSUME NEW y \in T
      PROVE  ~(y < x)
  <2>1. <<y, x>> \notin {pair \in Nat \X Nat : pair[1] < pair[2]}
    BY <1>1, Zenon DEF OpToRel
  <2> QED
    BY <2>1
<1> QED
  BY <1>2

(* What f says of the numbers below u. *)
Before(f, u) == [i \in 0 .. (u - 1) |-> f[i]]

(* The value at u is computed from the values below it. *)
Follows(f, u, step) == f[u] = step[<<u, Before(f, u)>>]

(* The functions that follow step up to N. *)
Partial(N, S, step) == {g \in [0 .. N -> S] : \A u \in 0 .. N : Follows(g, u, step)}

(* Two of them agree where both are defined. *)
LEMMA PartialAgree ==
  ASSUME NEW S, NEW step, NEW N \in Nat, NEW m \in Nat,
         NEW g \in Partial(N, S, step), NEW h \in Partial(m, S, step),
         NEW u \in Nat, u <= N, u <= m
  PROVE  g[u] = h[u]
<1> DEFINE T == {v \in Nat : v <= N /\ v <= m /\ g[v] # h[v]}
<1> SUFFICES ASSUME T # {}
             PROVE  FALSE
  OBVIOUS
<1>1. PICK v \in T : \A w \in T : v <= w
  BY Least
<1>2. \A i \in 0 .. (v - 1) : g[i] = h[i]
  BY <1>1
<1>3. Before(g, v) = Before(h, v)
  BY <1>2 DEF Before
<1>4. v \in 0 .. N /\ v \in 0 .. m
  BY <1>1
<1>5. Follows(g, v, step) /\ Follows(h, v, step)
  BY <1>4 DEF Partial
<1> QED
  BY <1>1, <1>3, <1>5 DEF Follows

Diagonal(u, S, step) == (CHOOSE g \in Partial(u, S, step) : TRUE)[u]

(* The values they end with follow the step themselves. *)
LEMMA DiagonalFollows ==
  ASSUME NEW S, NEW step, NEW N \in Nat, NEW D,
         \A u \in 0 .. N : Partial(u, S, step) # {} /\ D[u] = Diagonal(u, S, step)
  PROVE  \A u \in 0 .. N : D[u] \in S /\ Follows(D, u, step)
<1> DEFINE G(u) == CHOOSE g \in Partial(u, S, step) : TRUE
<1>1. \A u \in 0 .. N : G(u) \in Partial(u, S, step) /\ D[u] = G(u)[u]
  BY DEF Diagonal
<1> HIDE DEF G
<1> TAKE u \in 0 .. N
<1>2. G(u) \in [0 .. u -> S] /\ Follows(G(u), u, step)
  BY <1>1 DEF Partial
<1>3. \A i \in 0 .. (u - 1) : G(u)[i] = G(i)[i]
  BY <1>1, PartialAgree
<1>4. Before(G(u), u) = Before(D, u)
  BY <1>1, <1>3 DEF Before
<1> QED
  BY <1>1, <1>2, <1>4 DEF Follows

(* There is one for each N. *)
LEMMA PartialExists ==
  ASSUME NEW S, NEW step, NEW N \in Nat,
         \A u \in Nat : \A g \in [0 .. (u - 1) -> S] : step[<<u, g>>] \in S
  PROVE  Partial(N, S, step) # {}
<1> DEFINE T == {u \in Nat : Partial(u, S, step) = {}}
<1> SUFFICES ASSUME T # {}
             PROVE  FALSE
  OBVIOUS
<1>1. PICK u \in T : \A w \in T : u <= w
  BY Least
<1>2. \A w \in 0 .. (u - 1) : Partial(w, S, step) # {}
  BY <1>1
<1> DEFINE e == [w \in 0 .. (u - 1) |-> Diagonal(w, S, step)]
           f == [w \in 0 .. u |-> IF w < u THEN e[w] ELSE step[<<u, e>>]]
<1>3. \A w \in 0 .. (u - 1) : e[w] \in S /\ Follows(e, w, step)
  <2>1. CASE u = 0
    BY <2>1
  <2>2. CASE u # 0
    <3>1. u - 1 \in Nat
      BY <2>2
    <3>2. \A w \in 0 .. (u - 1) : Partial(w, S, step) # {} /\ e[w] = Diagonal(w, S, step)
      BY <1>2
    <3> HIDE DEF e
    <3> QED
      BY <3>1, <3>2, DiagonalFollows
  <2> QED
    BY <2>1, <2>2
<1>4. e \in [0 .. (u - 1) -> S]
  BY <1>3
<1>5. step[<<u, e>>] \in S
  BY <1>4
<1>6. f \in [0 .. u -> S]
  <2>1. \A w \in 0 .. u : w < u => e[w] \in S
    BY <1>3
  <2> HIDE DEF e
  <2> QED
    BY <2>1, <1>5
<1>7. \A w \in 0 .. u : Before(f, w) = Before(e, w)
  BY DEF Before
<1>8. Before(e, u) = e
  BY DEF Before
<1>9. \A w \in 0 .. u : Follows(f, w, step)
  <2> TAKE w \in 0 .. u
  <2>1. CASE w < u
    <3>1. Follows(e, w, step) /\ f[w] = e[w]
      BY <1>3, <2>1
    <3>2. Before(f, w) = Before(e, w)
      BY <1>7
    <3> QED
      BY <3>1, <3>2 DEF Follows
  <2>2. CASE w = u
    <3>1. f[w] = step[<<u, e>>]
      BY <2>2
    <3> QED
      BY <3>1, <1>7, <1>8, <2>2 DEF Follows
  <2>3. w < u \/ w = u
    <3>1. u \in Nat
      BY <1>1
    <3> QED
      BY <3>1
  <2> HIDE DEF f
  <2> QED
    BY <2>1, <2>2, <2>3
<1>10. f \in Partial(u, S, step)
  BY <1>6, <1>9 DEF Partial
<1> QED
  BY <1>10

(***************************************************************************)
(* A function of the numbers may be defined by its values below: what a    *)
(* recursive function of the models computes is what its definition says.  *)
(***************************************************************************)
LEMMA Recursion ==
  ASSUME NEW S, NEW step,
         \A u \in Nat : \A g \in [0 .. (u - 1) -> S] : step[<<u, g>>] \in S
  PROVE  \E f \in [Nat -> S] : \A u \in Nat : Follows(f, u, step)
<1> DEFINE f == [u \in Nat |-> Diagonal(u, S, step)]
<1>1. ASSUME NEW N \in Nat
      PROVE  f[N] \in S /\ Follows(f, N, step)
  <2>1. \A u \in 0 .. N : Partial(u, S, step) # {} /\ f[u] = Diagonal(u, S, step)
    BY PartialExists
  <2> HIDE DEF f
  <2>2. \A u \in 0 .. N : f[u] \in S /\ Follows(f, u, step)
    BY <2>1, DiagonalFollows
  <2> QED
    BY <2>2
<1>2. f \in [Nat -> S]
  BY <1>1
<1> QED
  BY <1>1, <1>2

(* What Recursion's step is given. *)
Histories(S) == UNION {{<<u, g>> : g \in [0 .. (u - 1) -> S]} : u \in Nat}

(* Induction, with a set in the place of a predicate. *)
LEMMA Induction ==
  ASSUME NEW N \in Nat, NEW I, 0 \in I, \A i \in 1 .. N : i - 1 \in I => i \in I
  PROVE  \A i \in 0 .. N : i \in I
<1> DEFINE T == {i \in 0 .. N : i \notin I}
<1> SUFFICES ASSUME T # {}
             PROVE  FALSE
  OBVIOUS
<1>1. T \subseteq Nat
  OBVIOUS
<1>2. PICK i \in T : \A j \in T : i <= j
  BY <1>1, Least
<1>3. i \in 1 .. N /\ i - 1 \in 0 .. N /\ ~(i <= i - 1)
  BY <1>2
<1>4. i - 1 \in I
  BY <1>2, <1>3
<1> QED
  BY <1>2, <1>3, <1>4

(* A loop of N passes: next says what a pass makes of what it finds. *)
Passes(N, S, first, next) ==
  {f \in [0 .. N -> S] : f[0] = first /\ \A i \in 1 .. N : f[i] = next[<<i, f[i - 1]>>]}

(* A loop of N passes runs: there is a record of what each of them leaves. *)
LEMMA Iteration ==
  ASSUME NEW N \in Nat, NEW S, NEW first \in S, NEW next \in [(1 .. N) \X S -> S]
  PROVE  Passes(N, S, first, next) # {}
<1>0. \A i \in 1 .. N, s \in S : next[<<i, s>>] \in S
  OBVIOUS
<1> DEFINE step == [p \in Histories(S) |->
                      IF p[1] \in 1 .. N THEN next[<<p[1], p[2][p[1] - 1]>>] ELSE first]
<1>1. ASSUME NEW u \in Nat, NEW g \in [0 .. (u - 1) -> S]
      PROVE  /\ step[<<u, g>>] \in S
             /\ step[<<u, g>>] = IF u \in 1 .. N THEN next[<<u, g[u - 1]>>] ELSE first
  <2>1. <<u, g>> \in Histories(S)
    BY DEF Histories
  <2>2. step[<<u, g>>] = IF u \in 1 .. N THEN next[<<u, g[u - 1]>>] ELSE first
    BY <2>1
  <2>3. u \in 1 .. N => g[u - 1] \in S
    OBVIOUS
  <2> HIDE DEF step
  <2> QED
    BY <1>0, <2>2, <2>3
<1> HIDE DEF step
<1>2. PICK f \in [Nat -> S] : \A u \in Nat : Follows(f, u, step)
  BY <1>1, Recursion
<1>3. ASSUME NEW u \in Nat
      PROVE  f[u] = IF u \in 1 .. N THEN next[<<u, f[u - 1]>>] ELSE first
  <2>1. Before(f, u) \in [0 .. (u - 1) -> S]
    BY <1>2 DEF Before
  <2>2. f[u] = step[<<u, Before(f, u)>>]
    BY <1>2 DEF Follows
  <2>3. f[u] = IF u \in 1 .. N THEN next[<<u, Before(f, u)[u - 1]>>] ELSE first
    BY <1>1, <2>1, <2>2
  <2>4. u \in 1 .. N => Before(f, u)[u - 1] = f[u - 1]
    BY DEF Before
  <2> QED
    BY <2>3, <2>4
<1> DEFINE g == [i \in 0 .. N |-> f[i]]
<1>4. g \in [0 .. N -> S] /\ g[0] = first
  <2>1. g \in [0 .. N -> S]
    BY <1>2
  <2>2. f[0] = first
    <3>1. 0 \in Nat /\ 0 \notin 1 .. N
      OBVIOUS
    <3> QED
      BY <1>3, <3>1
  <2>3. g[0] = f[0]
    OBVIOUS
  <2> QED
    BY <2>1, <2>2, <2>3
<1>5. \A i \in 1 .. N : g[i] = next[<<i, g[i - 1]>>]
  BY <1>3
<1> HIDE DEF g
<1>6. g \in Passes(N, S, first, next)
  BY <1>4, <1>5 DEF Passes
<1> QED
  BY <1>6

-----------------------------------------------------------------------------
(* The numbers that are typed.                                             *)

Digits == Zero .. Zero + 9

(* Congruence modulo Word. *)
Same(x, y) == \E k \in Int : x = y + k * Word

(* Congruence is transitive, *)
LEMMA SameTransitive ==
  ASSUME NEW x \in Int, NEW y \in Int, NEW z \in Int, Same(x, y), Same(y, z)
  PROVE  Same(x, z)
<1>1. PICK k \in Int : x = y + k * Word
  BY DEF Same
<1>2. PICK m \in Int : y = z + m * Word
  BY DEF Same
<1>3. x = z + (k + m) * Word /\ k + m \in Int
  BY <1>1, <1>2, NumbersAssumption
<1> QED
  BY <1>3 DEF Same

(* goes well with sums *)
LEMMA SameSum ==
  ASSUME NEW x \in Int, NEW y \in Int, NEW a \in Int, NEW b \in Int, Same(x, y), Same(a, b)
  PROVE  Same(x + a, y + b)
<1>1. PICK k \in Int : x = y + k * Word
  BY DEF Same
<1>2. PICK m \in Int : a = b + m * Word
  BY DEF Same
<1>3. x + a = y + b + (k + m) * Word /\ k + m \in Int
  BY <1>1, <1>2, NumbersAssumption
<1> QED
  BY <1>3 DEF Same

(* and with products, *)
LEMMA SameProduct ==
  ASSUME NEW x \in Int, NEW y \in Int, NEW a \in Int, Same(x, y)
  PROVE  Same(a * x, a * y)
<1>1. PICK k \in Int : x = y + k * Word
  BY DEF Same
<1>3. a * x = a * y + (a * k) * Word /\ a * k \in Int
  BY <1>1, NumbersAssumption
<1> QED
  BY <1>3 DEF Same

(* is reflexive, *)
LEMMA SameSelf ==
  ASSUME NEW x \in Int
  PROVE  Same(x, x)
<1>1. x = x + 0 * Word
  BY NumbersAssumption
<1> QED
  BY <1>1 DEF Same

(* holds of a number and what is left of it in a word, *)
LEMMA SameRemainder ==
  ASSUME NEW x \in Int
  PROVE  x % Word \in 0 .. Word - 1 /\ Same(x % Word, x) /\ Same(x, x % Word)
<1>1. x = Word * (x \div Word) + (x % Word) /\ x \div Word \in Int /\ x % Word \in 0 .. Word - 1
  BY NumbersAssumption
<1>2. x = (x % Word) + (x \div Word) * Word /\ x % Word = x + (0 - (x \div Word)) * Word
  BY <1>1, NumbersAssumption
<1> QED
  BY <1>1, <1>2 DEF Same

(* and of words only when they are equal. *)
LEMMA SameWord ==
  ASSUME NEW x \in 0 .. Word - 1, NEW y \in 0 .. Word - 1, Same(x, y)
  PROVE  x = y
<1>1. PICK k \in Int : x = y + k * Word
  BY DEF Same
<1>2. CASE k >= 1
  <2>1. k * Word >= Word
    BY <1>2, NumbersAssumption
  <2> QED
    BY <1>1, <2>1, NumbersAssumption
<1>3. CASE k <= -1
  <2>1. k * Word <= -Word
    BY <1>3, NumbersAssumption
  <2> QED
    BY <1>1, <2>1, NumbersAssumption
<1>4. CASE k = 0
  BY <1>1, <1>4, NumbersAssumption
<1> QED
  BY <1>2, <1>3, <1>4

(* The loop of atoi. *)
SumStep(text, i, s) ==
  [num  |-> (s.num + s.base * (text[Len(text) + 1 - i] - Zero)) % Word,
   base |-> (s.base * 10) % Word]

Sum(text) ==
  CHOOSE sum : sum =
    [i \in 0 .. Leading(text) |->
       IF i = 0 THEN [num |-> 0, base |-> 1]
       ELSE [num  |-> (sum[i - 1].num
                       + sum[i - 1].base * (text[Leading(text) + 1 - i] - Zero)) % Word,
             base |-> (sum[i - 1].base * 10) % Word]]

(* atoi is the last of these sums, *)
LEMMA AtoiSum ==
  ASSUME NEW text
  PROVE  atoi(text) = Sum(text)[Leading(text)].num
BY DEF atoi, Sum

(* over the whole text if all of it is digits. *)
LEMMA LeadingDigits ==
  ASSUME NEW text \in Seq(Digits)
  PROVE  Leading(text) = Len(text)
<1> DEFINE n == Len(text)
<1>1. n \in Nat /\ \A i \in 1 .. n : IsDigit(text[i])
  BY DEF Digits, IsDigit, Zero
<1> DEFINE Is(m) == (\A i \in 1 .. m : IsDigit(text[i])) /\ (m < n => ~IsDigit(text[m + 1]))
<1>2. n \in 0 .. n /\ Is(n)
  BY <1>1
<1>3. ASSUME NEW m \in 0 .. n, Is(m)
      PROVE  m = n
  BY <1>1, <1>3
<1>4. Leading(text) = CHOOSE m \in 0 .. n : Is(m)
  BY DEF Leading
<1> HIDE DEF Is, n
<1>5. Leading(text) \in 0 .. n /\ Is(Leading(text))
  BY <1>2, <1>4
<1> QED
  BY <1>3, <1>5 DEF n

Sums == [num : Int, base : Int]

(* The sums are those of the loop. *)
LEMMA SumIs ==
  ASSUME NEW text \in Seq(Digits)
  PROVE  /\ Sum(text) \in [0 .. Len(text) -> Sums]
         /\ Sum(text)[0] = [num |-> 0, base |-> 1]
         /\ \A i \in 1 .. Len(text) : Sum(text)[i] = SumStep(text, i, Sum(text)[i - 1])
<1> DEFINE n == Len(text)
           first == [num |-> 0, base |-> 1]
           step == [p \in Histories(Sums) |->
                      IF p[1] \in 1 .. n THEN SumStep(text, p[1], p[2][p[1] - 1]) ELSE first]
<1>1. n \in Nat /\ first \in Sums
  BY DEF Sums
<1>2. \A i \in 1 .. n, s \in Sums : SumStep(text, i, s) \in Sums
  <2> TAKE i \in 1 .. n, s \in Sums
  <2>1. text[Len(text) + 1 - i] \in Int
    BY <1>1 DEF Digits, Zero
  <2> DEFINE x == s.num + s.base * (text[Len(text) + 1 - i] - Zero)
             y == s.base * 10
  <2>2. x \in Int /\ y \in Int
    BY <2>1 DEF Sums, Zero
  <2> HIDE DEF x, y
  <2>3. x % Word \in Int /\ y % Word \in Int
    BY <2>2, SameRemainder, NumbersAssumption
  <2> QED
    BY <2>3 DEF SumStep, Sums, x, y
<1>3. ASSUME NEW u \in Nat, NEW g \in [0 .. (u - 1) -> Sums]
      PROVE  /\ step[<<u, g>>] \in Sums
             /\ step[<<u, g>>] = IF u \in 1 .. n THEN SumStep(text, u, g[u - 1]) ELSE first
  <2>1. <<u, g>> \in Histories(Sums)
    BY DEF Histories
  <2>2. step[<<u, g>>] = IF u \in 1 .. n THEN SumStep(text, u, g[u - 1]) ELSE first
    BY <2>1
  <2> QED
    BY <1>1, <1>2, <2>2
<1> HIDE DEF step
<1>4. PICK f \in [Nat -> Sums] : \A u \in Nat : Follows(f, u, step)
  BY <1>3, Recursion
<1>5. \A u \in Nat : f[u] = IF u \in 1 .. n THEN SumStep(text, u, f[u - 1]) ELSE first
  <2> TAKE u \in Nat
  <2>1. Before(f, u) \in [0 .. (u - 1) -> Sums]
    BY <1>4 DEF Before
  <2>3. f[u] = step[<<u, Before(f, u)>>]
    BY <1>4 DEF Follows
  <2>2. f[u] = IF u \in 1 .. n THEN SumStep(text, u, Before(f, u)[u - 1]) ELSE first
    BY <1>3, <2>1, <2>3
  <2> QED
    BY <2>2 DEF Before
<1> DEFINE Body(sum) ==
      [i \in 0 .. n |->
        IF i = 0 THEN first
        ELSE [num  |-> (sum[i - 1].num + sum[i - 1].base * (text[n + 1 - i] - Zero)) % Word,
              base |-> (sum[i - 1].base * 10) % Word]]
           g == [i \in 0 .. n |-> f[i]]
<1>6. g = Body(g)
  BY <1>1, <1>5 DEF SumStep
<1>7. Sum(text) = CHOOSE sum : sum = Body(sum)
  BY LeadingDigits DEF Sum
<1> HIDE DEF Body
<1>8. Sum(text) = Body(Sum(text))
  BY <1>6, <1>7
<1> USE DEF Body
<1>9. /\ DOMAIN Sum(text) = 0 .. n /\ Sum(text)[0] = first
      /\ \A i \in 1 .. n : Sum(text)[i] = SumStep(text, i, Sum(text)[i - 1])
  <2> DEFINE sum == Sum(text)
  <2> HIDE DEF sum
  <2>1. sum = Body(sum)
    BY <1>8 DEF sum
  <2>2. DOMAIN sum = 0 .. n /\ sum[0] = first
    BY <1>1, <2>1
  <2>3. \A i \in 1 .. n : sum[i] = SumStep(text, i, sum[i - 1])
    <3> TAKE i \in 1 .. n
    <3>1. i \in 0 .. n /\ i # 0
      BY <1>1
    <3>2. sum[i] = Body(sum)[i]
      BY <2>1
    <3> HIDE DEF sum
    <3> QED
      BY <3>1, <3>2 DEF SumStep
  <2> QED
    BY <2>2, <2>3 DEF sum
<1> HIDE DEF Body
<1> DEFINE T == {i \in 0 .. n : Sum(text)[i] \notin Sums}
<1>10. ASSUME T # {}
       PROVE  FALSE
  <2>0. T \subseteq Nat
    BY <1>1
  <2>1. PICK i \in T : \A j \in T : i <= j
    BY <1>10, <2>0, Least
  <2>2. i \in 1 .. n /\ i - 1 \in 0 .. n
    BY <1>1, <1>9, <2>1
  <2>3. Sum(text)[i - 1] \in Sums
    BY <2>1, <2>2
  <2> QED
    BY <1>2, <1>9, <2>1, <2>2, <2>3
<1>11. Sum(text) \in [0 .. n -> Sums]
  <2>1. Sum(text) = [i \in 0 .. n |-> Sum(text)[i]]
    BY <1>8 DEF Body
  <2> QED
    BY <1>10, <2>1
<1> QED
  BY <1>9, <1>11

(* What atoi makes of a text of digits. *)
LEMMA AtoiOf ==
  ASSUME NEW text \in Seq(Digits)
  PROVE  atoi(text) = Sum(text)[Len(text)].num
BY AtoiSum, LeadingDigits

(* One more digit behind makes ten times the number, and the digit. *)
LEMMA AtoiAppend ==
  ASSUME NEW text \in Seq(Digits), NEW d \in Digits
  PROVE  atoi(Append(text, d)) \in 0 .. Word - 1 /\ Same(atoi(Append(text, d)), 10 * atoi(text) + (d - Zero))
<1> DEFINE n == Len(text)
           longer == Append(text, d)
           old == Sum(text)
           new == Sum(longer)
           Shifted(i) == /\ Same(new[i + 1].num, 10 * old[i].num + (d - Zero))
                         /\ Same(new[i + 1].base, 10 * old[i].base)
           T == {i \in 0 .. n : ~Shifted(i)}
<1>1. n \in Nat /\ longer \in Seq(Digits) /\ Len(longer) = n + 1 /\ longer[n + 1] = d
  OBVIOUS
<1>2. \A i \in 1 .. n : longer[i] = text[i] /\ text[i] - Zero \in Int
  BY DEF Digits, Zero
<1>3. /\ old \in [0 .. n -> Sums] /\ new \in [0 .. (n + 1) -> Sums]
      /\ old[0] = [num |-> 0, base |-> 1] /\ new[0] = [num |-> 0, base |-> 1]
      /\ \A i \in 1 .. n : old[i] = SumStep(text, i, old[i - 1])
      /\ \A i \in 1 .. (n + 1) : new[i] = SumStep(longer, i, new[i - 1])
  BY <1>1, SumIs
<1>4. d - Zero \in Int
  BY DEF Digits, Zero
<1>5. Shifted(0)
  <2>1. new[1] = SumStep(longer, 1, [num |-> 0, base |-> 1])
    BY <1>1, <1>3
  <2>2. new[1] = [num |-> (d - Zero) % Word, base |-> 10 % Word]
    BY <1>1, <1>4, <2>1 DEF SumStep
  <2>3. new[0 + 1] = new[1] /\ 10 * old[0].num + (d - Zero) = d - Zero /\ 10 * old[0].base = 10
    BY <1>3, <1>4
  <2>4. new[1].num = (d - Zero) % Word /\ new[1].base = 10 % Word
    BY <2>2
  <2>5. Same((d - Zero) % Word, d - Zero) /\ Same(10 % Word, 10)
    BY <1>4, SameRemainder
  <2> HIDE DEF new, old
  <2> QED
    BY <2>3, <2>4, <2>5
<1>6. ASSUME NEW i \in 1 .. n, Shifted(i - 1)
      PROVE  Shifted(i)
  <2> DEFINE c == text[n + 1 - i] - Zero
             p == new[i].num
             q == new[i].base
             r == old[i - 1].num
             s == old[i - 1].base
  <2>1. /\ c \in Int /\ p \in Int /\ q \in Int /\ r \in Int /\ s \in Int
        /\ longer[Len(longer) + 1 - (i + 1)] - Zero = c
    <3>1. n + 1 - i \in 1 .. n /\ Len(longer) + 1 - (i + 1) = n + 1 - i
      BY <1>1
    <3>2. old[i - 1] \in Sums /\ new[i] \in Sums
      <4>1. i - 1 \in 0 .. n /\ i \in 0 .. (n + 1)
        BY <1>1
      <4> HIDE DEF old, new, n
      <4> QED
        BY <1>3, <4>1
    <3>3. p \in Int /\ q \in Int /\ r \in Int /\ s \in Int
      BY <3>2 DEF Sums
    <3>4. longer[n + 1 - i] = text[n + 1 - i] /\ c \in Int
      BY <1>2, <3>1
    <3> QED
      BY <3>1, <3>3, <3>4
  <2>2. new[i + 1] = [num |-> (p + q * c) % Word, base |-> (q * 10) % Word]
    <3>1. i + 1 \in 1 .. (n + 1) /\ i + 1 - 1 = i
      BY <1>1
    <3>2. new[i + 1] = SumStep(longer, i + 1, new[i])
      BY <1>3, <3>1
    <3> QED
      BY <2>1, <3>2 DEF SumStep
  <2>3. old[i] = [num |-> (r + s * c) % Word, base |-> (s * 10) % Word]
    BY <1>3 DEF SumStep
  <2>4. Same(p, 10 * r + (d - Zero)) /\ Same(q, 10 * s)
    BY <1>6
  <2> HIDE DEF c, p, q, r, s
  <2>5. Same((p + q * c) % Word, 10 * ((r + s * c) % Word) + (d - Zero))
    <3>1. Same(q * c, 10 * s * c)
      <4>1. 10 * s \in Int
        BY <2>1
      <4>2. Same(c * q, c * (10 * s))
        BY <2>1, <2>4, <4>1, SameProduct
      <4>3. c * q = q * c /\ c * (10 * s) = 10 * s * c
        BY <2>1
      <4> QED
        BY <4>2, <4>3
    <3>2. Same(p + q * c, 10 * r + (d - Zero) + 10 * s * c)
      <4>1. q * c \in Int /\ 10 * s * c \in Int /\ 10 * r + (d - Zero) \in Int
        BY <1>4, <2>1
      <4> QED
        BY <2>1, <2>4, <3>1, <4>1, SameSum
    <3> DEFINE e == r + s * c
    <3>3. e \in Int /\ 10 * r + (d - Zero) + 10 * s * c = 10 * e + (d - Zero)
      BY <1>4, <2>1
    <3>4. p + q * c \in Int
      BY <2>1
    <3> HIDE DEF e
    <3>5. e % Word \in Int /\ (p + q * c) % Word \in Int
      BY <3>3, <3>4, SameRemainder, NumbersAssumption
    <3>6. Same(10 * e, 10 * (e % Word))
      BY <3>3, <3>5, SameRemainder, SameProduct
    <3>7. 10 * e \in Int /\ 10 * (e % Word) \in Int
      BY <3>3, <3>5
    <3>8. Same(10 * e + (d - Zero), 10 * (e % Word) + (d - Zero))
      BY <1>4, <3>6, <3>7, SameSum, SameSelf
    <3>9. 10 * e + (d - Zero) \in Int /\ 10 * (e % Word) + (d - Zero) \in Int
      BY <1>4, <3>7
    <3>10. Same((p + q * c) % Word, 10 * e + (d - Zero))
      BY <3>2, <3>3, <3>4, <3>5, <3>9, SameRemainder, SameTransitive
    <3> QED
      BY <3>5, <3>8, <3>9, <3>10, SameTransitive DEF e
  <2>6. Same((q * 10) % Word, 10 * ((s * 10) % Word))
    <3>1. /\ q * 10 \in Int /\ s * 10 \in Int
          /\ (q * 10) % Word \in Int /\ (s * 10) % Word \in Int
      <4>1. q * 10 \in Int /\ s * 10 \in Int
        BY <2>1
      <4> QED
        <5> DEFINE x == q * 10
                   y == s * 10
        <5> HIDE DEF x, y
        <5>1. x \in Int /\ y \in Int
          BY <4>1 DEF x, y
        <5>2. x % Word \in Int /\ y % Word \in Int
          BY <5>1, SameRemainder, NumbersAssumption
        <5> QED
          BY <5>1, <5>2 DEF x, y
    <3>2. 10 * s \in Int /\ 10 * (s * 10) \in Int /\ 10 * ((s * 10) % Word) \in Int
      BY <2>1, <3>1
    <3>3. Same(10 * q, 10 * (10 * s)) 
      <4>1. 10 \in Int
        OBVIOUS
      <4> QED
        BY <2>1, <2>4, <3>2, <4>1, SameProduct
    <3>6. 10 * q = q * 10 /\ 10 * (10 * s) = 10 * (s * 10)
      BY <2>1
    <3>4. Same(10 * (s * 10), 10 * ((s * 10) % Word))
      BY <3>1, SameProduct, SameRemainder
    <3>5. Same(q * 10, 10 * ((s * 10) % Word))
      BY <3>1, <3>2, <3>3, <3>4, <3>6, SameTransitive
    <3> QED
      BY <3>1, <3>2, <3>5, SameRemainder, SameTransitive
  <2> QED
    BY <2>2, <2>3, <2>5, <2>6 DEF c, p, q, r, s
<1>7. Shifted(n)
  <2> SUFFICES ASSUME T # {}
               PROVE  FALSE
    BY <1>1
  <2>1. T \subseteq Nat
    BY <1>1
  <2> HIDE DEF Shifted
  <2>2. PICK i \in T : \A j \in T : i <= j
    BY <2>1, Least
  <2>3. i \in 1 .. n /\ i - 1 \in 0 .. n
    BY <1>1, <1>5, <2>2
  <2>4. Shifted(i - 1)
    BY <2>2, <2>3
  <2> QED
    BY <1>6, <2>2, <2>3, <2>4
<1>8. atoi(text) = old[n].num /\ atoi(longer) = new[n + 1].num
  BY <1>1, AtoiOf
<1>9. new[n + 1].num \in 0 .. Word - 1
  <2> DEFINE c == longer[Len(longer) + 1 - (n + 1)] - Zero
             x == new[n].num + new[n].base * c
  <2>1. n + 1 \in 1 .. (n + 1) /\ n + 1 - 1 = n /\ n \in 0 .. (n + 1)
    BY <1>1
  <2>2. new[n + 1] = SumStep(longer, n + 1, new[n])
    BY <1>3, <2>1
  <2>3. Len(longer) + 1 - (n + 1) \in 1 .. Len(longer)
    BY <1>1
  <2>4. c \in Int
    <3> DEFINE m == Len(longer) + 1 - (n + 1)
    <3> HIDE DEF m, longer
    <3>1. m \in 1 .. Len(longer) => longer[m] \in Digits
      BY <1>1
    <3> QED
      BY <2>3, <3>1 DEF m, Digits, Zero
  <2>5. new[n] \in Sums
    BY <1>3, <2>1
  <2> HIDE DEF c
  <2>6. x \in Int
    BY <2>4, <2>5 DEF Sums
  <2> HIDE DEF x
  <2>7. new[n + 1].num = x % Word
    BY <2>2 DEF SumStep, x, c
  <2> QED
    BY <2>6, <2>7, SameRemainder
<1> QED
  BY <1>7, <1>8, <1>9

(* Numbers written with the digits char, up to N. *)
NumeralFrom(f, divisor, char, N) ==
  [u \in 0 .. N |-> IF u < divisor THEN <<char[u]>>
                    ELSE Append(f[u \div divisor], char[u % divisor])]

Numeral(divisor, char, N) == CHOOSE f : f = NumeralFrom(f, divisor, char, N)

(* Quotient and remainder. *)
LEMMA Division ==
  ASSUME NEW u \in Nat, NEW divisor \in {10, 16}
  PROVE  /\ u \div divisor \in Nat /\ u % divisor \in 0 .. (divisor - 1)
         /\ u = divisor * (u \div divisor) + (u % divisor)
         /\ u >= divisor => u \div divisor \in 1 .. (u - 1)
<1>1. CASE divisor = 10
  BY <1>1
<1>2. CASE divisor = 16
  BY <1>2
<1> QED
  BY <1>1, <1>2

(* What a table of them must be. *)
IsNumeral(w, divisor, char, N) ==
  \A u \in 0 .. N : w[u] = IF u < divisor THEN <<char[u]>>
                          ELSE Append(w[u \div divisor], char[u % divisor])

(* They are what their recursion says. *)
LEMMA NumeralIs ==
  ASSUME NEW divisor \in {10, 16}, NEW C, NEW char \in [0 .. (divisor - 1) -> C], NEW N \in Nat
  PROVE  /\ Numeral(divisor, char, N) \in [0 .. N -> Seq(C)]
         /\ IsNumeral(Numeral(divisor, char, N), divisor, char, N)
<1> DEFINE S == Seq(C)
           Wr(u, g) == IF u < divisor THEN <<char[u]>> ELSE Append(g[u \div divisor], char[u % divisor])
           step == [p \in Histories(S) |-> Wr(p[1], p[2])]
<1>1. ASSUME NEW u \in Nat, NEW g \in [0 .. (u - 1) -> S]
      PROVE  step[<<u, g>>] \in S /\ step[<<u, g>>] = Wr(u, g)
  <2>1. <<u, g>> \in Histories(S)
    BY DEF Histories
  <2>2. step[<<u, g>>] = Wr(u, g)
    BY <2>1
  <2>3. CASE u < divisor
    <3>1. <<char[u]>> \in S
      <4>1. char[u] \in C
        BY <2>3
      <4> QED
        BY <4>1
    <3>2. Wr(u, g) = <<char[u]>>
      BY <2>3
    <3> HIDE DEF Wr, S
    <3> QED
      BY <2>2, <3>1, <3>2
  <2>4. CASE u >= divisor
    <3>1. u \div divisor \in 0 .. (u - 1) /\ u % divisor \in 0 .. (divisor - 1)
      BY <2>4, Division
    <3>2. g[u \div divisor] \in S /\ char[u % divisor] \in C
      BY <3>1
    <3>3. ~(u < divisor)
      BY <2>4
    <3>4. Append(g[u \div divisor], char[u % divisor]) \in S
      BY <3>2
    <3>5. Wr(u, g) = Append(g[u \div divisor], char[u % divisor])
      BY <3>3
    <3> HIDE DEF Wr, S
    <3> QED
      BY <2>2, <3>4, <3>5
  <2> HIDE DEF Wr, S
  <2> QED
    BY <2>2, <2>3, <2>4
<1> HIDE DEF step
<1>2. PICK f \in [Nat -> S] : \A u \in Nat : Follows(f, u, step)
  BY <1>1, Recursion
<1>3. ASSUME NEW u \in Nat
      PROVE  f[u] = Wr(u, f)
  <2>1. Before(f, u) \in [0 .. (u - 1) -> S]
    BY <1>2 DEF Before
  <2>2. f[u] = step[<<u, Before(f, u)>>]
    BY <1>2 DEF Follows
  <2>3. f[u] = Wr(u, Before(f, u))
    BY <1>1, <2>1, <2>2
  <2>4. u >= divisor => Before(f, u)[u \div divisor] = f[u \div divisor]
    <3>1. u >= divisor => u \div divisor \in 0 .. (u - 1)
      BY Division
    <3> QED
      BY <3>1 DEF Before
  <2> QED
    BY <2>3, <2>4
<1> DEFINE g == [u \in 0 .. N |-> f[u]]
           w == Numeral(divisor, char, N)
<1>4. g = NumeralFrom(g, divisor, char, N)
  <2>1. ASSUME NEW u \in 0 .. N, ~(u < divisor)
        PROVE  g[u \div divisor] = f[u \div divisor]
    <3>1. u \div divisor \in 0 .. N
      BY <2>1, Division
    <3> QED
      BY <3>1
  <2>2. ASSUME NEW u \in 0 .. N
        PROVE  g[u] = IF u < divisor THEN <<char[u]>>
                      ELSE Append(g[u \div divisor], char[u % divisor])
    <3>1. g[u] = f[u] /\ f[u] = Wr(u, f)
      <4>1. u \in Nat /\ g[u] = f[u]
        OBVIOUS
      <4> HIDE DEF g, Wr
      <4> QED
        BY <1>3, <4>1
    <3>2. CASE u < divisor
      BY <3>1, <3>2
    <3>3. CASE ~(u < divisor)
      <4> HIDE DEF g
      <4> QED
        BY <2>1, <3>1, <3>3
    <3> HIDE DEF g
    <3> QED
      BY <3>2, <3>3
  <2> QED
    BY <2>2 DEF NumeralFrom
<1>5. w = NumeralFrom(w, divisor, char, N)
  BY <1>4 DEF Numeral
<1> HIDE DEF w
<1>6. /\ w = [u \in 0 .. N |-> w[u]]
      /\ \A u \in 0 .. N : w[u] = Wr(u, w)
  BY <1>5 DEF NumeralFrom
<1> DEFINE T == {u \in 0 .. N : w[u] \notin S}
<1>7. ASSUME T # {}
      PROVE  FALSE
  <2>1. T \subseteq Nat
    OBVIOUS
  <2>2. PICK u \in T : \A v \in T : u <= v
    BY <1>7, <2>1, Least
  <2>5. u \in 0 .. N /\ u \in Nat /\ w[u] \notin S
    BY <2>2
  <2>6. w[u] = Wr(u, w)
    BY <1>6, <2>5
  <2>3. CASE u < divisor
    <3>1. char[u] \in C
      BY <2>3, <2>5
    <3>2. w[u] = <<char[u]>>
      BY <2>3, <2>6
    <3>3. <<char[u]>> \in S
      BY <3>1
    <3> HIDE DEF S
    <3> QED
      BY <2>5, <3>2, <3>3
  <2>4. CASE ~(u < divisor)
    <3>1. u \div divisor \in 0 .. (u - 1) /\ u % divisor \in 0 .. (divisor - 1)
      <4>1. u >= divisor
        BY <2>4, <2>5
      <4>2. divisor \in Nat
        OBVIOUS
      <4>3. u \div divisor \in 1 .. (u - 1) /\ u % divisor \in 0 .. (divisor - 1)
        BY <2>5, <4>1, Division
      <4> HIDE DEF T
      <4> QED
        BY <4>3, <2>5
    <3>2. u \div divisor \in 0 .. N /\ ~(u <= u \div divisor)
      BY <2>5, <3>1
    <3>3. w[u \div divisor] \in S
      BY <2>2, <3>2
    <3>4. char[u % divisor] \in C
      BY <3>1
    <3>5. w[u] = Append(w[u \div divisor], char[u % divisor])
      BY <2>4, <2>6
    <3>6. Append(w[u \div divisor], char[u % divisor]) \in S
      BY <3>3, <3>4
    <3> HIDE DEF S
    <3> QED
      BY <2>5, <3>5, <3>6
  <2> QED
    BY <2>3, <2>4
<1>8. w \in [0 .. N -> S]
  BY <1>6, <1>7
<1> QED
  BY <1>6, <1>8 DEF w, IsNumeral

(* The decimal digits. *)
Chars10 == [d \in 0 .. 9 |-> Zero + d]

(* Every number that is written with them is read back, modulo the width. *)
LEMMA AtoiReadsNumeral ==
  ASSUME NEW n \in Nat, NEW m \in 0 .. n
  PROVE  atoi(Numeral(10, Chars10, n)[m]) = m % Word
<1> DEFINE char == Chars10
           text == Numeral(10, char, n)
<1>1. char \in [0 .. (10 - 1) -> Digits]
  BY DEF Digits, Zero, Chars10
<1>2. \A d \in 0 .. 9 : char[d] = Zero + d
  BY DEF Chars10
<1>3. /\ text \in [0 .. n -> Seq(Digits)]
      /\ \A u \in 0 .. n : text[u] = IF u < 10 THEN <<char[u]>>
                                     ELSE Append(text[u \div 10], char[u % 10])
  <2>1. 10 \in {10, 16}
    OBVIOUS
  <2> HIDE DEF char
  <2>2. text \in [0 .. n -> Seq(Digits)] /\ IsNumeral(text, 10, char, n)
    BY <1>1, <2>1, NumeralIs
  <2> QED
    BY <2>2 DEF IsNumeral
<1> DEFINE T == {u \in 0 .. n : atoi(text[u]) # u % Word}
<1> SUFFICES ASSUME T # {}
             PROVE  FALSE
  OBVIOUS
<1>4. T \subseteq Nat
  OBVIOUS
<1> HIDE DEF text
<1>5. PICK u \in T : \A v \in T : u <= v
  BY <1>4, Least
<1>6. u \in Nat /\ u \in 0 .. n
  BY <1>4
<1>7. CASE u < 10
  <2>1. text[u] = Append(<<>>, Zero + u) /\ Zero + u \in Digits /\ Zero + u - Zero = u
    <3>1. text[u] = <<char[u]>>
      BY <1>3, <1>6, <1>7
    <3>2. char[u] = Zero + u
      BY <1>2, <1>6, <1>7
    <3>3. <<Zero + u>> = Append(<<>>, Zero + u)
      OBVIOUS
    <3>4. Zero + u \in Digits /\ Zero + u - Zero = u
      BY <1>6, <1>7 DEF Digits, Zero
    <3> HIDE DEF char
    <3> QED
      BY <3>1, <3>2, <3>3, <3>4
  <2>2. <<>> \in Seq(Digits) /\ Len(<<>>) = 0
    OBVIOUS
  <2>3. atoi(<<>>) = 0
    <3>1. Sum(<<>>)[0].num = 0
      <4>1. Sum(<<>>)[0] = [num |-> 0, base |-> 1]
        BY <2>2, SumIs
      <4> QED
        BY <4>1
    <3> QED
      BY <2>2, <3>1, AtoiOf
  <2>4. atoi(text[u]) \in 0 .. Word - 1 /\ Same(atoi(text[u]), u)
    <3>1. /\ atoi(Append(<<>>, Zero + u)) \in 0 .. Word - 1
          /\ Same(atoi(Append(<<>>, Zero + u)), 10 * atoi(<<>>) + ((Zero + u) - Zero))
      BY <2>1, <2>2, AtoiAppend
    <3>2. 10 * 0 + ((Zero + u) - Zero) = u
      BY <1>6 DEF Zero
    <3> QED
      BY <2>1, <2>3, <3>1, <3>2
  <2>5. atoi(text[u]) = u % Word
    <3>1. u \in Int /\ atoi(text[u]) \in Int
      BY <1>6, <2>4, NumbersAssumption
    <3>2. u % Word \in 0 .. Word - 1 /\ u % Word \in Int /\ Same(u, u % Word)
      BY <3>1, SameRemainder, NumbersAssumption
    <3>3. Same(atoi(text[u]), u % Word)
      BY <2>4, <3>1, <3>2, SameTransitive
    <3> QED
      BY <2>4, <3>2, <3>3, SameWord
  <2> QED
    BY <1>5, <2>5
<1>8. CASE ~(u < 10)
  <2> DEFINE q == u \div 10
             d == u % 10
  <2>1. q \in 0 .. (u - 1) /\ d \in 0 .. 9 /\ u = 10 * q + d
    BY <1>6, <1>8
  <2> HIDE DEF q, d
  <2>2. text[u] = Append(text[q], Zero + d) /\ Zero + d \in Digits /\ (Zero + d) - Zero = d
    <3>1. text[u] = Append(text[q], char[d])
      BY <1>3, <1>6, <1>8 DEF q, d
    <3>2. char[d] = Zero + d
      BY <1>2, <2>1
    <3>3. Zero + d \in Digits /\ (Zero + d) - Zero = d
      BY <2>1 DEF Digits, Zero
    <3> HIDE DEF char
    <3> QED
      BY <3>1, <3>2, <3>3
  <2>3. q \in 0 .. n /\ text[q] \in Seq(Digits) /\ q \in Int
    BY <1>3, <1>6, <2>1
  <2>4. atoi(text[q]) = q % Word
    BY <1>5, <2>1, <2>3
  <2>5. atoi(text[u]) \in 0 .. Word - 1 /\ Same(atoi(text[u]), 10 * (q % Word) + d)
    BY <2>2, <2>3, <2>4, AtoiAppend
  <2>6. q % Word \in Int /\ Same(q % Word, q)
    BY <2>3, SameRemainder, NumbersAssumption
  <2>7. Same(10 * (q % Word), 10 * q)
    <3>1. 10 \in Int
      OBVIOUS
    <3> QED
      BY <2>3, <2>6, <3>1, SameProduct
  <2>8. 10 * (q % Word) \in Int /\ 10 * q \in Int /\ d \in Int
    BY <2>1, <2>3, <2>6
  <2>9. Same(10 * (q % Word) + d, u)
    BY <2>1, <2>7, <2>8, SameSum, SameSelf
  <2>10. 10 * (q % Word) + d \in Int
    BY <2>8
  <2>11. atoi(text[u]) = u % Word
    <3>1. u \in Int /\ atoi(text[u]) \in Int
      BY <1>6, <2>5, NumbersAssumption
    <3>2. u % Word \in 0 .. Word - 1 /\ u % Word \in Int /\ Same(u, u % Word)
      BY <3>1, SameRemainder, NumbersAssumption
    <3>3. Same(atoi(text[u]), u)
      BY <2>5, <2>9, <2>10, <3>1, SameTransitive
    <3>4. Same(atoi(text[u]), u % Word)
      BY <3>1, <3>2, <3>3, SameTransitive
    <3> QED
      BY <2>5, <3>2, <3>4, SameWord
  <2> QED
    BY <1>5, <2>11
<1> QED
  BY <1>7, <1>8

(***************************************************************************)
(* What is typed for a number is read back as that number, modulo the      *)
(* width of uint32_t: for every number and every width.                    *)
(***************************************************************************)
LEMMA AtoiReadsDecimal ==
  ASSUME NEW n \in Nat
  PROVE  atoi(Decimal(n)) = n % Word
<1> DEFINE From(f) == [m \in 0 .. n |-> IF m < 10 THEN <<Zero + m>>
                                        ELSE Append(f[m \div 10], Zero + (m % 10))]
<1>1. ASSUME NEW f
      PROVE  From(f) = NumeralFrom(f, 10, Chars10, n)
  <2>1. \A m \in 0 .. n : m < 10 => Chars10[m] = Zero + m
    BY DEF Chars10
  <2>2. \A m \in 0 .. n : Chars10[m % 10] = Zero + (m % 10)
    BY DEF Chars10
  <2> QED
    BY <2>1, <2>2 DEF NumeralFrom
<1>2. Decimal(n) = (CHOOSE f : f = From(f))[n]
  BY DEF Decimal
<1> HIDE DEF From
<1>3. Decimal(n) = Numeral(10, Chars10, n)[n]
  BY <1>1, <1>2 DEF Numeral
<1>4. n \in 0 .. n
  OBVIOUS
<1> QED
  BY <1>3, <1>4, AtoiReadsNumeral

-----------------------------------------------------------------------------
(* The numbers that are shown.                                             *)

(* The loop of Spelled. *)
Spelling(base, text) ==
  CHOOSE sum : sum =
    [i \in 0 .. Len(text) |-> IF i = 0 THEN 0 ELSE base * sum[i - 1] + DigitOf(text[i])]

(* The number a text spells is the last of its sums. *)
LEMMA SpelledIs ==
  ASSUME NEW base, NEW text
  PROVE  Spelled(base, text) = Spelling(base, text)[Len(text)]
BY DEF Spelled, Spelling

(* A character is worth a number. *)
LEMMA DigitIsNumber ==
  ASSUME NEW c \in Nat
  PROVE  DigitOf(c) \in Int
BY DEF DigitOf, Zero

(* Its sums are what their recursion says. *)
LEMMA SpellingIs ==
  ASSUME NEW base \in Nat, NEW text \in Seq(Nat)
  PROVE  /\ Spelling(base, text)[0] = 0
         /\ \A i \in 0 .. Len(text) : Spelling(base, text)[i] \in Int
         /\ \A i \in 1 .. Len(text) :
              Spelling(base, text)[i] = base * Spelling(base, text)[i - 1] + DigitOf(text[i])
<1> DEFINE n == Len(text)
           next == [p \in (1 .. n) \X Int |-> base * p[2] + DigitOf(text[p[1]])]
           Body(sum) == [i \in 0 .. n |->
                           IF i = 0 THEN 0 ELSE base * sum[i - 1] + DigitOf(text[i])]
           s == Spelling(base, text)
<1>1. n \in Nat /\ \A i \in 1 .. n : DigitOf(text[i]) \in Int
  <2>1. n \in Nat /\ \A i \in 1 .. n : text[i] \in Nat
    OBVIOUS
  <2> QED
    BY <2>1, DigitIsNumber
<1>2. next \in [(1 .. n) \X Int -> Int]
  <2>1. \A i \in 1 .. n, x \in Int : base * x + DigitOf(text[i]) \in Int
    BY <1>1
  <2> HIDE DEF n
  <2> QED
    BY <2>1
<1>3. PICK f \in [0 .. n -> Int] : f[0] = 0 /\ \A i \in 1 .. n : f[i] = next[<<i, f[i - 1]>>]
  <2>1. Passes(n, Int, 0, next) # {}
    <3>1. 0 \in Int
      OBVIOUS
    <3> HIDE DEF n, next
    <3> QED
      BY <1>1, <1>2, <3>1, Iteration
  <2> HIDE DEF n, next
  <2> QED
    BY <2>1 DEF Passes
<1>4. \A i \in 1 .. n : f[i] = base * f[i - 1] + DigitOf(text[i])
  <2> TAKE i \in 1 .. n
  <2>1. i - 1 \in 0 .. n
    BY <1>1
  <2>2. f[i - 1] \in Int
    BY <2>1
  <2> QED
    BY <1>3, <2>2
<1>5. f = Body(f)
  <2>1. \A i \in 0 .. n : f[i] = IF i = 0 THEN 0 ELSE base * f[i - 1] + DigitOf(text[i])
    BY <1>1, <1>3, <1>4
  <2> HIDE DEF n
  <2> QED
    BY <2>1
<1>6. s = CHOOSE sum : sum = Body(sum)
  BY DEF Spelling
<1> HIDE DEF Body, s
<1>7. s = Body(s)
  BY <1>5, <1>6
<1>8. s[0] = 0 /\ \A i \in 1 .. n : s[i] = base * s[i - 1] + DigitOf(text[i])
  <2>1. 0 \in 0 .. n /\ \A i \in 1 .. n : i \in 0 .. n /\ i # 0
    BY <1>1
  <2>2. \A i \in 0 .. n : s[i] = IF i = 0 THEN 0 ELSE base * s[i - 1] + DigitOf(text[i])
    <3>1. s = [i \in 0 .. n |-> IF i = 0 THEN 0 ELSE base * s[i - 1] + DigitOf(text[i])]
      BY <1>7 DEF Body
    <3> HIDE DEF n
    <3> QED
      BY <3>1
  <2> HIDE DEF n
  <2> QED
    BY <2>1, <2>2
<1>9. \A i \in 0 .. n : s[i] \in Int
  <2> DEFINE I == {i \in 0 .. n : s[i] \in Int}
  <2>1. 0 \in I
    BY <1>1, <1>8
  <2>2. \A i \in 1 .. n : i - 1 \in I => i \in I
    BY <1>1, <1>8
  <2>3. \A i \in 0 .. n : i \in I
    <3> HIDE DEF I, n
    <3> QED
      BY <1>1, <2>1, <2>2, Induction
  <2> QED
    BY <2>3
<1> QED
  BY <1>8, <1>9 DEF s

(* One more digit behind makes base times the number, and the digit. *)
LEMMA SpelledAppend ==
  ASSUME NEW base \in Nat, NEW text \in Seq(Nat), NEW c \in Nat
  PROVE  /\ Spelled(base, text) \in Int
         /\ Spelled(base, Append(text, c)) = base * Spelled(base, text) + DigitOf(c)
<1> DEFINE n == Len(text)
           longer == Append(text, c)
           old == Spelling(base, text)
           new == Spelling(base, longer)
           I == {i \in 0 .. n : new[i] = old[i]}
<1>1. /\ n \in Nat /\ longer \in Seq(Nat) /\ Len(longer) = n + 1 /\ longer[n + 1] = c
      /\ \A i \in 1 .. n : longer[i] = text[i]
  OBVIOUS
<1>2. /\ old[0] = 0 /\ new[0] = 0
      /\ \A i \in 0 .. n : old[i] \in Int
      /\ \A i \in 1 .. n : old[i] = base * old[i - 1] + DigitOf(text[i])
      /\ \A i \in 1 .. (n + 1) : new[i] = base * new[i - 1] + DigitOf(longer[i])
  BY <1>1, SpellingIs
<1> HIDE DEF old, new, longer, n
<1>3. 0 \in I
  BY <1>1, <1>2
<1>4. \A i \in 1 .. n : i - 1 \in I => i \in I
  BY <1>1, <1>2
<1>5. \A i \in 0 .. n : i \in I
  <2> HIDE DEF I
  <2> QED
    BY <1>1, <1>3, <1>4, Induction
<1>6. new[n] = old[n] /\ old[n] \in Int
  BY <1>1, <1>2, <1>5
<1>7. new[n + 1] = base * new[n] + DigitOf(c)
  <2>1. n + 1 \in 1 .. (n + 1) /\ n + 1 - 1 = n
    BY <1>1
  <2> QED
    BY <1>1, <1>2, <2>1
<1>8. Spelled(base, text) = old[n] /\ Spelled(base, longer) = new[n + 1]
  BY <1>1, SpelledIs DEF old, new, n
<1> QED
  BY <1>6, <1>7, <1>8 DEF longer

(* A digit alone spells itself. *)
LEMMA SpelledOne ==
  ASSUME NEW base \in Nat, NEW c \in Nat
  PROVE  Spelled(base, <<c>>) = DigitOf(c)
<1>1. <<>> \in Seq(Nat) /\ Len(<<>>) = 0 /\ <<c>> = Append(<<>>, c)
  OBVIOUS
<1>2. Spelled(base, <<>>) = 0
  BY <1>1, SpelledIs, SpellingIs
<1>3. Spelled(base, <<c>>) = base * 0 + DigitOf(c)
  BY <1>1, <1>2, SpelledAppend
<1> QED
  BY <1>3, DigitIsNumber

(* The digits of itoa. *)
Chars(divisor) == [d \in 0 .. (divisor - 1) |-> Char(d)]

(* Each is worth its number. *)
LEMMA CharIs ==
  ASSUME NEW d \in 0 .. 15
  PROVE  Char(d) \in Nat /\ Char(d) >= Zero /\ DigitOf(Char(d)) = d /\ (Char(d) = Zero => d = 0)
<1>1. CASE d < 10
  BY <1>1 DEF Char, DigitOf, Zero
<1>2. CASE ~(d < 10)
  BY <1>2 DEF Char, DigitOf, Zero
<1> QED
  BY <1>1, <1>2

(* The characters of the digits. *)
LEMMA CharsAre ==
  ASSUME NEW divisor \in {10, 16}
  PROVE  /\ Chars(divisor) \in [0 .. (divisor - 1) -> Nat]
         /\ \A d \in 0 .. (divisor - 1) : Chars(divisor)[d] = Char(d) /\ d \in 0 .. 15
<1>1. \A d \in 0 .. (divisor - 1) : d \in 0 .. 15
  OBVIOUS
<1>2. \A d \in 0 .. (divisor - 1) : Char(d) \in Nat
  BY <1>1, CharIs
<1> QED
  BY <1>1, <1>2 DEF Chars

(* Base 10 uses the first ten of them. *)
LEMMA DecimalChars == Chars(10) = Chars10
<1>1. \A d \in 0 .. 9 : Char(d) = Zero + d
  BY DEF Char
<1>2. Chars(10) = [d \in 0 .. 9 |-> Char(d)]
  BY DEF Chars
<1> QED
  BY <1>1, <1>2 DEF Chars10

(* A number as it should be written: it spells u and has no leading zero. *)
Reads(divisor, text, u) ==
  /\ text \in Seq(Nat) /\ Len(text) >= 1
  /\ text[1] >= Zero
  /\ text[1] = Zero => u = 0
  /\ u = 0 => Len(text) = 1
  /\ Spelled(divisor, text) = u

(* The first digit, and every further one, keep it so. *)
LEMMA FirstDigitReads ==
  ASSUME NEW divisor \in {10, 16}, NEW d \in 0 .. 15
  PROVE  Reads(divisor, <<Char(d)>>, d)
<1>1. divisor \in Nat
  OBVIOUS
<1>2. Char(d) \in Nat /\ Char(d) >= Zero /\ DigitOf(Char(d)) = d /\ (Char(d) = Zero => d = 0)
  BY CharIs
<1>3. Spelled(divisor, <<Char(d)>>) = d
  BY <1>1, <1>2, SpelledOne
<1>4. \A c \in Nat : <<c>> \in Seq(Nat) /\ Len(<<c>>) = 1 /\ <<c>>[1] = c
  OBVIOUS
<1> QED
  BY <1>2, <1>3, <1>4 DEF Reads

(* Reading one more digit. *)
LEMMA NextDigitReads ==
  ASSUME NEW divisor \in {10, 16}, NEW text, NEW q \in Nat \ {0}, NEW d \in 0 .. 15,
         Reads(divisor, text, q)
  PROVE  Reads(divisor, Append(text, Char(d)), divisor * q + d)
<1>1. divisor \in Nat
  OBVIOUS
<1>2. Char(d) \in Nat /\ DigitOf(Char(d)) = d
  BY CharIs
<1>3. text \in Seq(Nat) /\ Len(text) >= 1 /\ text[1] >= Zero /\ text[1] # Zero /\ Spelled(divisor, text) = q
  BY DEF Reads
<1>4. ASSUME NEW c \in Nat, NEW t \in Seq(Nat), Len(t) >= 1
      PROVE  Append(t, c) \in Seq(Nat) /\ Len(Append(t, c)) >= 1 /\ Append(t, c)[1] = t[1]
  BY <1>4
<1>5. Spelled(divisor, Append(text, Char(d))) = divisor * q + d
  BY <1>1, <1>2, <1>3, SpelledAppend
<1>6. divisor * q + d # 0
  <2>1. CASE divisor = 10
    BY <2>1
  <2>2. CASE divisor = 16
    BY <2>2
  <2> QED
    BY <2>1, <2>2
<1> QED
  BY <1>2, <1>3, <1>4, <1>5, <1>6 DEF Reads

(* So every number is written as it should be. *)
LEMMA NumeralReads ==
  ASSUME NEW divisor \in {10, 16}, NEW N \in Nat, NEW m \in 0 .. N
  PROVE  Reads(divisor, Numeral(divisor, Chars(divisor), N)[m], m)
<1> DEFINE w == Numeral(divisor, Chars(divisor), N)
           T == {u \in 0 .. N : ~Reads(divisor, w[u], u)}
<1>1. \A u \in 0 .. N : w[u] = IF u < divisor THEN <<Chars(divisor)[u]>>
                               ELSE Append(w[u \div divisor], Chars(divisor)[u % divisor])
  <2>1. Chars(divisor) \in [0 .. (divisor - 1) -> Nat]
    BY CharsAre
  <2>2. IsNumeral(Numeral(divisor, Chars(divisor), N), divisor, Chars(divisor), N)
    BY <2>1, NumeralIs
  <2> QED
    BY <2>2 DEF IsNumeral
<1> HIDE DEF w
<1> SUFFICES ASSUME T # {}
             PROVE  FALSE
  BY DEF w
<1>2. T \subseteq Nat
  OBVIOUS
<1>3. PICK u \in T : \A v \in T : u <= v
  BY <1>2, Least
<1>4. u \in Nat /\ u \in 0 .. N /\ ~Reads(divisor, w[u], u)
  BY <1>3
<1>5. CASE u < divisor
  <2>1. u \in 0 .. (divisor - 1)
    BY <1>4, <1>5
  <2>2. u \in 0 .. 15 /\ w[u] = <<Char(u)>>
    BY <1>1, <1>4, <1>5, <2>1, CharsAre
  <2> QED
    BY <1>4, <2>2, FirstDigitReads
<1>6. CASE ~(u < divisor)
  <2> DEFINE q == u \div divisor
             d == u % divisor
  <2>1. u >= divisor
    BY <1>4, <1>6
  <2>2. q \in 1 .. (u - 1) /\ d \in 0 .. (divisor - 1) /\ u = divisor * q + d
    BY <1>4, <2>1, Division
  <2>3. w[u] = Append(w[q], Chars(divisor)[d])
    BY <1>1, <1>4, <1>6
  <2> HIDE DEF q, d
  <2>4. d \in 0 .. 15 /\ w[u] = Append(w[q], Char(d))
    BY <2>2, <2>3, CharsAre
  <2>5. q \in 0 .. N /\ ~(u <= q) /\ q \in Nat \ {0}
    BY <1>4, <2>2
  <2>6. Reads(divisor, w[q], q)
    BY <1>3, <2>5
  <2>7. Reads(divisor, w[u], divisor * q + d)
    BY <2>4, <2>5, <2>6, NextDigitReads
  <2> QED
    BY <1>4, <2>2, <2>7
<1> QED
  BY <1>5, <1>6

(* itoa writes its digits, and a sign in base 10. *)
LEMMA ItoaIs ==
  ASSUME NEW base \in {8, 10, 16}, NEW d \in Int, NEW divisor \in {10, 16},
         divisor = IF base = 16 THEN 16 ELSE 10
  PROVE  itoa(base, d) = IF base = 10 /\ d < 0
                         THEN <<Minus>> \o Numeral(divisor, Chars(divisor), Word - 1)[-d]
                         ELSE Numeral(divisor, Chars(divisor), Word - 1)[d % Word]
<1> DEFINE From(f) == [u \in 0 .. Word - 1 |-> IF u < divisor THEN <<Char(u)>>
                                              ELSE Append(f[u \div divisor], Char(u % divisor))]
<1>1. ASSUME NEW f
      PROVE  From(f) = NumeralFrom(f, divisor, Chars(divisor), Word - 1)
  <2>1. \A u \in 0 .. Word - 1 : u < divisor => Chars(divisor)[u] = Char(u)
    <3> TAKE u \in 0 .. Word - 1
    <3>1. u < divisor => u \in 0 .. (divisor - 1)
      BY NumbersAssumption
    <3> QED
      BY <3>1, CharsAre
  <2>2. \A u \in 0 .. Word - 1 : Chars(divisor)[u % divisor] = Char(u % divisor)
    <3> TAKE u \in 0 .. Word - 1
    <3>1. u \in Nat
      BY NumbersAssumption
    <3>2. u % divisor \in 0 .. (divisor - 1)
      BY <3>1, Division
    <3> QED
      BY <3>2, CharsAre
  <2> QED
    BY <2>1, <2>2 DEF NumeralFrom
<1>2. itoa(base, d) = IF base = 10 /\ d < 0
                      THEN <<Minus>> \o (CHOOSE f : f = From(f))[-d]
                      ELSE (CHOOSE f : f = From(f))[d % Word]
  BY DEF itoa
<1> HIDE DEF From
<1>3. (CHOOSE f : f = From(f)) = Numeral(divisor, Chars(divisor), Word - 1)
  BY <1>1 DEF Numeral
<1> QED
  BY <1>2, <1>3

(* A number without a sign, in the base it is shown in, *)
LEMMA PositiveReadsBack ==
  ASSUME NEW conversion \in {"%d", "%u", "%o", "%x"}, NEW u \in 0 .. Word - 1,
         conversion \in {"%d", "%u"} => Signed(u) = u,
         NEW text, Reads(IF conversion = "%x" THEN 16 ELSE 10, text, u),
         conversion \in {"%d", "%u"} => atoi(text) = u
  PROVE  ReadsBack(conversion, u, text)
<1>1. text[1] # Minus
  BY DEF Reads, Zero, Minus
<1>2. text[1] = Zero => Len(text) = 1
  BY DEF Reads
<1>3. Spelled(IF conversion = "%x" THEN 16 ELSE 10, text) = u
  BY DEF Reads
<1>4. 1 * u = u
  BY NumbersAssumption
<1>5. CASE conversion = "%x"
  BY <1>1, <1>2, <1>3, <1>5 DEF ReadsBack
<1>6. CASE conversion = "%o"
  BY <1>1, <1>2, <1>3, <1>4, <1>6 DEF ReadsBack
<1>7. CASE conversion \in {"%d", "%u"}
  BY <1>1, <1>2, <1>3, <1>4, <1>7 DEF ReadsBack
<1> QED
  BY <1>5, <1>6, <1>7

(* and one with a sign. *)
LEMMA NegativeReadsBack ==
  ASSUME NEW conversion \in {"%d", "%u"}, NEW u, Signed(u) \in Int, Signed(u) < 0,
         NEW text, Reads(10, text, -Signed(u))
  PROVE  ReadsBack(conversion, u, <<Minus>> \o text)
<1>1. /\ (<<Minus>> \o text)[1] = Minus /\ Tail(<<Minus>> \o text) = text
      /\ Len(<<Minus>> \o text) = 1 + Len(text)
  <2>1. text \in Seq(Nat)
    BY DEF Reads
  <2>2. ASSUME NEW t \in Seq(Nat)
        PROVE  /\ (<<Minus>> \o t)[1] = Minus /\ Tail(<<Minus>> \o t) = t
               /\ Len(<<Minus>> \o t) = 1 + Len(t)
    <3>1. /\ (<<Minus>> \o t)[1] = Minus /\ Len(<<Minus>> \o t) = 1 + Len(t)
          /\ Minus \in Nat
      BY DEF Minus
    <3>2. Tail(<<Minus>> \o t) = t
      BY <3>1
    <3> QED
      BY <3>1, <3>2
  <2> QED
    BY <2>1, <2>2
<1>2. text[1] # Zero
  BY DEF Reads
<1>3. Spelled(10, text) = -Signed(u)
  BY DEF Reads
<1>4. -1 * (-Signed(u)) = Signed(u) /\ ~(Signed(u) >= 0)
  OBVIOUS
<1>5. conversion # "%x" /\ conversion # "%o"
  OBVIOUS
<1> DEFINE t == <<Minus>> \o text
           digits == IF t[1] = Minus THEN Tail(t) ELSE t
           value == (IF t[1] = Minus THEN -1 ELSE 1) * Spelled(10, digits)
<1>6. t[1] = Minus /\ digits = text
  BY <1>1
<1> HIDE DEF t, digits
<1>7. value = Signed(u)
  BY <1>3, <1>4, <1>6
<1> HIDE DEF value
<1>8. ReadsBack(conversion, u, t) <=>
        /\ digits[1] = Zero => Len(t) = 1
        /\ conversion = "%x" => Spelled(16, t) = u
        /\ conversion = "%d" => value = Signed(u)
        /\ conversion = "%u" /\ Signed(u) >= 0 => value = u
        /\ conversion \in {"%d", "%u"} /\ Signed(u) >= 0 => atoi(t) = u
  BY DEF ReadsBack, digits, value
<1>9. ReadsBack(conversion, u, t)
  BY <1>2, <1>4, <1>5, <1>6, <1>7, <1>8
<1> QED
  BY <1>9 DEF t

(***************************************************************************)
(* What printf shows for a number reads back as ReadsBack says, for every  *)
(* number and every width of the integers.                                 *)
(***************************************************************************)
LEMMA ConvertedReadsBack ==
  ASSUME NEW conversion \in {"%d", "%u", "%o", "%x"}, NEW u \in 0 .. Word - 1
  PROVE  ReadsBack(conversion, u, Converted(conversion, u))
<1> DEFINE n == Signed(u)
           divisor == IF conversion = "%x" THEN 16 ELSE 10
           base == IF conversion = "%x" THEN 16 ELSE IF conversion = "%o" THEN 8 ELSE 10
           w == Numeral(divisor, Chars(divisor), Word - 1)
<1>1. /\ Word - 1 \in Nat /\ u \in Nat /\ n \in Int
      /\ n >= 0 => n = u
      /\ n < 0 => -n \in 0 .. Word - 1
      /\ n % Word = u
  <2>1. Word \in Nat /\ Word > 2 /\ Word = 2 * (Word \div 2) /\ Word \div 2 \in Nat
    BY NumbersAssumption
  <2>2. n = u \/ (n = u - Word /\ u >= Word \div 2)
    BY <2>1 DEF Signed
  <2>3. u % Word = u /\ (u - Word) % Word = u
    BY <2>1
  <2> HIDE DEF n
  <2> QED
    BY <2>1, <2>2, <2>3
<1>2. divisor \in {10, 16} /\ base \in {8, 10, 16} /\ divisor = IF base = 16 THEN 16 ELSE 10
  OBVIOUS
<1>3. Converted(conversion, u) = itoa(base, n)
  BY DEF Converted
<1>4. Converted(conversion, u) = IF base = 10 /\ n < 0 THEN <<Minus>> \o w[-n] ELSE w[u]
  <2> HIDE DEF n, base, divisor
  <2> QED
    BY <1>1, <1>2, <1>3, ItoaIs
<1>5. \A m \in 0 .. Word - 1 : Reads(divisor, w[m], m)
  <2> HIDE DEF divisor
  <2> QED
    BY <1>1, <1>2, NumeralReads
<1>6. CASE base = 10 /\ n < 0
  <2>1. conversion \in {"%d", "%u"} /\ divisor = 10
    BY <1>6
  <2>2. Reads(10, w[-n], -n)
    BY <1>1, <1>5, <1>6, <2>1
  <2>3. Converted(conversion, u) = <<Minus>> \o w[-n]
    BY <1>4, <1>6
  <2> HIDE DEF w
  <2> QED
    BY <1>1, <1>6, <2>1, <2>2, <2>3, NegativeReadsBack
<1>7. CASE ~(base = 10 /\ n < 0)
  <2>1. Converted(conversion, u) = w[u]
    BY <1>4, <1>7
  <2>2. Reads(divisor, w[u], u)
    BY <1>5
  <2>3. conversion \in {"%d", "%u"} => n = u
    BY <1>1, <1>7
  <2>4. conversion \in {"%d", "%u"} => atoi(w[u]) = u
    <3> SUFFICES ASSUME conversion \in {"%d", "%u"}
                 PROVE  atoi(w[u]) = u
      OBVIOUS
    <3>1. w = Numeral(10, Chars10, Word - 1)
      BY DecimalChars
    <3>2. atoi(w[u]) = u % Word
      BY <1>1, <3>1, AtoiReadsNumeral
    <3>3. u % Word = u
      BY NumbersAssumption
    <3> QED
      BY <3>2, <3>3
  <2> HIDE DEF w
  <2> QED
    BY <2>1, <2>2, <2>3, <2>4, PositiveReadsBack
<1> QED
  BY <1>6, <1>7
=============================================================================
