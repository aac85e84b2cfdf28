SPECIFICATION FairSpec
CONSTANTS
  e1 = e1
  Entries = {e1}
  Short = {e1}
  BufferSize = 1
  MaxLines = 1
  Contents <- MCContents
  NoFile = NoFile
PROPERTY SearchEnds
CHECK_DEADLOCK FALSE
