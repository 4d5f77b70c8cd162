SPECIFICATION Spec
CONSTANTS
  A = A
  B = B
  H = H
  Plmns <- MCPlmns
  Home = H
  PlmnZero = PlmnZero
  FF = FF
  NoPlmn = NoPlmn
  RejectCauses = {0, 11}
  CardInit <- MCCardInit
  WriteFails = FALSE
  SelCardInit <- MCSelCardInit
  Talloc = "reliable"
  MaxOps = 4
  MaxInserts = 1
INVARIANTS
  HomeNeverPersisted
CHECK_DEADLOCK FALSE
