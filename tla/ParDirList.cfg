SPECIFICATION FairParSpec
CONSTANTS
  N = 4
  Kinds = {"dir", "file", "hidden", "unreadable", "dangling"}
  BuffSize = 3
  keyword <- MCKeyword
  Texts <- MCTexts
INVARIANTS Listing FrequenciesRight NoThreadOnFreedNode
PROPERTY ParListingEnds
CHECK_DEADLOCK FALSE
