CONSTANTS
  Main = main
  Apps = {a, b}
  AddsOverlap = FALSE
  button = button
  sensor = sensor
  Channels = {button, sensor}
  NoChannel = NoChannel
  Related <- ButtonOfSensor
  ChannelMaxCount = 4
  QueueSize = 1
SPECIFICATION Spec
SYMMETRY AppSymmetry
INVARIANTS TypeOK NoCircularWait RegisteredAsListed PacketsKeepTheirSide
