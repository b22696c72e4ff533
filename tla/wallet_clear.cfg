\* A refused write of "clear history" while a payment is approved; the run ends when the bound does.
SPECIFICATION Spec
CONSTANTS
  a1 = a1  a2 = a2  n1 = n1  n2 = n2
  Requests = {r1, r2}
  Pages = {page}
  NoPage = NoPage
  Calls = {w1}
  Accounts = {a1}
  Networks = {n1}
  NoNetwork = NoNetwork
  NoRequest = NoRequest
  First <- MCFirst
  Kinds = {"transaction"}
  Events = {"clear"}
  MaxEvents = 1
  MaxClearFailures = 1
CHECK_DEADLOCK FALSE
PROPERTIES
  UnresolvedStay
