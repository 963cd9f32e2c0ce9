CONSTANTS
  Handler = {h1, h2}
  IP = {"a"}
  Cookie = {}
  NoCookie = ""
  Day = 2
  DailyLimit = 1
  LogFails = TRUE
  MaxTime = 2
  MaxClaims = 3
SYMMETRY HandlerSymmetry
SPECIFICATION Spec
INVARIANTS
  LimitsAreKept
