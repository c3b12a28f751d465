CONSTANTS
  Order <- SensorAndButton
  Value = {0, 1}
  Zero = 0
  Beginning <- EveryByte
  Stock <- AnyValue
  OnChange = TRUE
  QueueSize = 2
  IdWrap = 3
  OtherGap = 0
  MaxBurst = 1
  LinkCap = 2
SPECIFICATION Spec
PROPERTIES SentOnlyWhenSet
