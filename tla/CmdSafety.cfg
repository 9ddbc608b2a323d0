SPECIFICATION Spec
CONSTANTS
  N = 2
  KeySeq <- MCKeySeq
  Hash <- MCHash
  Modes <- MCModes
  Calls = 4
  MaxFaults = 1
  CursorMod = 8
INVARIANTS TypeOK OwnAnswer IncrementsOwn NeverIdle InStep ReadsCorrect NoSpuriousError
