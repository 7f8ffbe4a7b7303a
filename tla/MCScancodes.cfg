CONSTANT
  Keys <- SomeKeys
SPECIFICATION DecoderSpec
INVARIANTS
  ModifiersTrackKeys
  CharsMatchKeys
