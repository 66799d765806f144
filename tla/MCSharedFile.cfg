CONSTANTS
  p0 = p0
  p1 = p1
  p2 = p2
  p3 = p3
  Puts = {p0, p1, p2, p3}
  Gets = {g1}
  BodyLen <- Lengths
  OldLens = {0, 3}
  Old = Old
  Hole = Hole
  NoPut = NoPut
SPECIFICATION Spec
INVARIANTS
  TypeOK
  SoloPutStored
  LatestPutCovers
  BytesInPlace
  UntornRead
CHECK_DEADLOCK FALSE
