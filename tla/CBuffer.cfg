SPECIFICATION Spec
CONSTANTS
  Values = {s1, s2}
  MaxSize = 3
  MaxRead = 3
  PushAtEnd = FALSE
INVARIANTS TypeOK IndicesAgree SliceHolds
PROPERTY ImplementsFifo

