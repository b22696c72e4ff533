\* Two windows of two builds authorize purchases over one cursor store.
SPECIFICATION Spec
CONSTANTS
  w1 = w1  w2 = w2  old = old  new = new
  Witnesses = {w1, w2}
  Faulty = {w2}
  Windows = {old, new}
  Build <- MCBuild
  Until <- MCUntil
  Live <- MCLive
  Forks = {0, 1}
  Ttl = 2
  Request = 1
  ClockSkew = 2
  Skews = {0, 3}
  MaxHeight = 2
  MaxTime = 4
  MaxCalls = 1
\* Calls and blocks are bounded.
CHECK_DEADLOCK FALSE
INVARIANTS
  AuthorizedWhileVouched
  
