\* Both mask modes, every size up to a ring of 6, entries of three cells.
CONSTANTS
  Vocab = {t1, t2}
  MaxSeq = 6
  MaxPrefill = 3
  MaxNewTokens = 4
  Modes = {"cache", "self"}
  Features = 3
  Args <- MCArgs
  Prompts <- MCPrompts
  Layers <- MCLayers
  Unwritten = Unwritten
SPECIFICATION LayoutSpec
INVARIANTS
  TypeOK
  AttentionExact
  CacheFollowsOutput
  EntriesReadWhole
PROPERTIES
  NoOverwrite
  ImplementsDecoder
CHECK_DEADLOCK FALSE
