CONSTANTS
  Handler = {h1, h2, h3}
  Bucket = {b1, b2, b3, b4}
  NoBucket = none
  Capacity = 5
  Rate = 3
  Cost = 2
  Idle = 4
  MaxAge = 5
SPECIFICATION FairSpec
INVARIANTS
  TypeOK
  RateBound
PROPERTIES
  IdleIsEvicted
