SPECIFICATION Spec
CONSTANTS
  Values = {s1, s2}
  MaxSize = 3
  MaxRead = 3
  PushAtEnd = TRUE
PROPERTY ImplementsFifo

