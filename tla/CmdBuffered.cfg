SPECIFICATION Spec
CONSTANTS
  N = 2
  KeySeq <- MCKeySeq
  Hash <- MCHash
  Modes <- MCBuffered
  Calls = 3
  MaxFaults = 1
  CursorMod = 8
INVARIANTS NeverIdle
