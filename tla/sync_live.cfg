CONSTANTS
  Order <- ButtonAndSensor
  Value = {0, 1}
  Zero = 0
  Beginning <- EveryByte
  Stock <- AnyValue
  OnChange = TRUE
  QueueSize = 1
  IdWrap = 3
  OtherGap = 3
  MaxBurst = 1
  LinkCap = 1
SPECIFICATION FairSpec
PROPERTIES ValuesConverge
