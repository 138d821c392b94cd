SPECIFICATION FairSpec
CONSTANTS
  M = 8
  cp_len = 3
  taper_len = 1
  M_data = 6
  header_bps = 1
  HeaderBytes = {1, 2}
  Payloads <- MCPayloads
  Weak = 5
  Strong = 6
  Tries = 5
  Alarms = TRUE
  SoftHeader = {FALSE, TRUE}
  SoftPayload = {FALSE, TRUE}
INVARIANTS TypeOK WindowInSymbol SameSymbol FrameAcquired DeliversOnTime BuffersFit FrameWhole
PROPERTIES FrameFinishes FrameCloses
