CONSTANTS
  Buffers = {a, b}
  a = a
  b = b
  Bytes = {1, 2}
  InitSize = 1
  Extra = 2
  Word = 4
  MaxIndex = 3
SPECIFICATION Spec
PROPERTIES
  IsByteQueue
