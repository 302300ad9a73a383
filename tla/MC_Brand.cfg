SPECIFICATION Spec
CONSTANTS
  Linked <- MC_LinkedSmall
  LVP = 128
  HEADER = 32
  COPYRIGHT = 166
  TEXT_CRC_SIZE = 8192
  Uids <- MC_Uids
INVARIANTS TypeOK RegisteredIffGenuine
