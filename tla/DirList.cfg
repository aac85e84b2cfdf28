SPECIFICATION FairSpec
CONSTANTS
  N = 5
  Kinds = {"dir", "file", "hidden", "locked", "dangling"}
INVARIANTS TypeOK ListLinked OrderedByPath Listing
PROPERTY ListingEnds
CHECK_DEADLOCK FALSE
