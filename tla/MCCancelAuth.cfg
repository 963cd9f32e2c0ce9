CONSTANTS
  Fragment = {"f1", "f2"}
  MayRead <- MCSteadyRead
  MayBoot <- MCSteadyBoot
  MaxRestarts = 1
  MaxPubs = 4
SPECIFICATION CancelSpec
INVARIANTS
  CancelTypeOK
  NoncesIncrease
  SignatureNamesOnePublication
