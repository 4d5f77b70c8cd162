SPECIFICATION Spec
CONSTANTS
  A = A
  B = B
  H = H
  Plmns <- MCPlmns
  Home = H
  PlmnZero = PlmnZero
  FF = FF
  NoPlmn = NoPlmn
  RejectCauses = {0, 11}
  CardInit <- MCCardInit
  WriteFails = TRUE
  SelCardInit <- MCSelCardInit
  Talloc = "reliable"
  MaxOps = 4
  MaxInserts = 1
INVARIANTS
  TypeOK
  NoDuplicateEntries
  ImageIsLastFour
  RemovalReachesCard
CHECK_DEADLOCK FALSE
