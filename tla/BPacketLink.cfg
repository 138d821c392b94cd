SPECIFICATION Spec
CONSTANTS
  GenPoly <- MCGenPoly
  pnsequence_len = 8
  MaxPayloadLen = 6
  LengthField = 8
  Configs <- MCConfigs
  Bursts = {6, 7}
  Pauses = {0, 64}
INVARIANTS
  TypeOK BuffersMatch
  NoEarlyAlarm PnFound DeliversOnTime ValidIsWhole
