CONSTANTS
  a1 = a1
  a2 = a2
  Addr <- MCAddr
  ZeroAddr = ZeroAddr
  Absent = Absent
  MaxTxs = 2
  ArchiveTop = 4
  U64Max = 7
  Ends = {3, 7}
  BatchSize = 2
  MaxStarts = 3
  BlockChoices <- MCBlockChoices
SPECIFICATION Spec
INVARIANT ReturnedHeightMatchesStore
CHECK_DEADLOCK FALSE
