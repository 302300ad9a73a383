SPECIFICATION Spec
CONSTANTS
  CHAT_MAX_LENGTH = 5
  CHAT_WIDTH = 6
  WinWidth = 4
  Keys <- MC_Keys
  Registered = TRUE
  MaxKeys = 6
INVARIANTS TypeOK WindowsMatchChat
