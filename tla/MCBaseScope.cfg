\* Every base scope up to 5 rows, prompts that fit and prompts that do not.
CONSTANTS
  Vocab = {t1, eos}
  Eos = eos
  Padding = padding
  MaxSeq = 5
  MaxPrompt = 6
  Sizes <- MCSizes
  Prompts <- MCPrompts
SPECIFICATION Spec
INVARIANTS
  TypeOK
  RealRowsExact
  StopsAtEosOrFull
PROPERTIES
  ImplementsDecoder
CHECK_DEADLOCK FALSE
