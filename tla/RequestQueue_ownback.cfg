SPECIFICATION Spec
CONSTANTS
  Clients = {c1, c2}
  QueueSize = 2
  LineSize = 3
  Lengths <- MCLengths
  Lines = 1
  MaxLines <- MCMaxLines
INVARIANT RequestsReal
CHECK_DEADLOCK FALSE
