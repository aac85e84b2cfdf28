SPECIFICATION FairSpec
CONSTANTS
  e1 = e1
  e2 = e2
  Entries = {e1, e2}
  Short = {e2}
  BufferSize = 2
  MaxLines = 2
  Contents <- MCContents
  NoFile = NoFile
INVARIANTS TypeOK SoundOutput CompleteOutput PrinterIsLast
PROPERTIES BufferIsChannel SearchEndsUnlessRaced
CHECK_DEADLOCK FALSE
