SPECIFICATION Spec
CONSTANTS
  K = 2
  M = 2
  Preamble = 2
  HeaderLens = {1, 2}
  PayloadLens = {1, 2}
  Buffers = {0, 1, 2, 3}
  MaxFrames = 3
  Abort = TRUE
INVARIANT ZerosWhenNotAssembled
