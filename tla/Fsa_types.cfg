SPECIFICATION Spec
CONSTANTS
  Direct = 2
  BlockSize = 2
  Word = 64
  Disks <- MCDisks
  Arguments <- MCArguments
  MaxDepth = 3
  NUL = NUL
  Garbage = Garbage
  x = x
  y = y
INVARIANT OthersSkipped
CHECK_DEADLOCK FALSE
