SPECIFICATION Spec
CONSTANTS
  Preamble = 1
  M = 1
  HeaderLens = {2, 3}
  PayloadLens = {1, 4}
  NFFT = 16
  SLen = 6
  Window = 17
  ZeroIndex = TRUE
PROPERTY SamplesInOrder
