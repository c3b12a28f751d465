CONSTANTS
  short = short
  long = long
  Packet <- PacketsUsed
  DataLen <- LenOf
  TagSize = 2
  BufferMin = 3
  BufferMax = 12
  IoSize = 6
  QueueSize = 1
  WireCap = 8
  None = none
  Error = error
  Garbled = garbled
SPECIFICATION FairSpec
INVARIANTS TypeOK BuffersSound
PROPERTIES ErrorHeals CarriesPackets Arrives
