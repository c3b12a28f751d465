CONSTANTS
  Order <- OneMeter
  Value = {0, 1, 2}
  Zero = 0
  Beginning <- LastIsAlike
  Stock <- AlikeAreExt
  OnChange = TRUE
  QueueSize = 2
  IdWrap = 3
  OtherGap = 0
  MaxBurst = 1
  LinkCap = 2
SPECIFICATION Spec
INVARIANTS TypeOK ValuesShown KeptUntilQueued
