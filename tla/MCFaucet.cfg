CONSTANTS
  Handler = {h1, h2}
  IP = {"a", "b"}
  Cookie = {"c1"}
  NoCookie = ""
  Day = 2
  DailyLimit = 1
  LogFails = TRUE
  MaxTime = 2
  MaxClaims = 3
SYMMETRY HandlerSymmetry
SPECIFICATION Spec
INVARIANTS
  TypeOK
  LoggedPerWindow
  DailyLimitSlack
