SPECIFICATION FairLifeSpec
CONSTANTS
  c1 = c1
  c2 = c2
  Clients = {c1, c2}
  QueueSize = 1
  LineSize = 3
  Lengths <- MCLengths
  MaxLines <- MCMaxLines
  ExitLen = 1
  Killable = {c2}
INVARIANTS LifeTypeOK SlotsConserved NoOrphans ExitIsLast UpMeansUsable
PROPERTIES ClientsEnd ServerStops
CHECK_DEADLOCK FALSE
