SPECIFICATION Spec
CONSTANTS
  Values = {0, 1}
  Zero = 0
  Lengths = {1, 2, 3, 4}
  Burst = 2
  MaxBits = 3
  npfb = 2
  Grid = 4
  Deltas = {5, 8}
  MaxDelay = 2
PROPERTY RetainedAtBeginning
