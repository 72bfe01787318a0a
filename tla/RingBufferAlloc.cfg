CONSTANTS
  a = a
  b = b
  Junk = Junk
  Byte <- MCByte
  Chunks <- MCChunks
  Size = 4
  Request = 3
  MaxPos = 11
  Width = 17
SPECIFICATION SizedSpec
INVARIANT HeldInAllocation
