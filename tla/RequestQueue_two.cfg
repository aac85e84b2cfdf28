SPECIFICATION FairSpec
CONSTANTS
  Clients = {c1, c2}
  QueueSize = 2
  LineSize = 3
  Lengths <- MCLengths
  Lines = 2
  MaxLines <- MCMaxLines
INVARIANTS MutualExclusion SlotsConserved
PROPERTY AllServed
CHECK_DEADLOCK FALSE
