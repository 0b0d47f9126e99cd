CONSTANTS
  p1 = p1
  p2 = p2
  n1 = n1
  n2 = n2
  r1 = r1
  r2 = r2
  r3 = r3
  NoRow = NoRow
  Absent = Absent
  Idle = Idle
  Products <- OneProduct
  Names <- TwoNames
  Requests <- TwoRequests
  RmMayFail = TRUE
SPECIFICATION Spec
SYMMETRY SomeThread
INVARIANTS TypeOK AgreeWhenQuiet
PROPERTY NoLostUpdate
