SPECIFICATION Spec
CONSTANTS
  Clients = {c1}
  QueueSize = 2
  LineSize = 4
  Lengths <- MCLengths
  Lines = 5
  MaxLines <- MCMaxLines
INVARIANT RequestsIntact
CHECK_DEADLOCK FALSE
