CONSTANTS
  p1 = p1
  p2 = p2
  p3 = p3
  b1 = b1
  b2 = b2
  b3 = b3
  b4 = b4
  null = null
  Packet <- Packets
  Ids = {1, 2}
  RrId <- IdOf
  Size = 3
  MinAlloc = 2
  Block <- Blocks
  Null <- null
SPECIFICATION Spec
INVARIANTS TypeOK PointersSound NoLeak CountBounded KeepsFew
PROPERTIES ImplementsFifo
SYMMETRY BlockSymmetry
