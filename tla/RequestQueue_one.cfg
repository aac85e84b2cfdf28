SPECIFICATION FairSpec
CONSTANTS
  Clients = {c1}
  QueueSize = 2
  LineSize = 4
  Lengths <- MCLengths
  Lines = 5
  MaxLines <- MCMaxLines
INVARIANTS TypeOK InFlightIntact DeliveredUntilSplit RequestFits
PROPERTY AllServed
CHECK_DEADLOCK FALSE
