SPECIFICATION FairSpec
CONSTANTS
  peer = peer
  r1 = r1
  r2 = r2
  Rows = {r1, r2}
  Domains = {peer}
  DomainOf <- MCDomainOf
  Local = {r1}
  Resource = {r2}
  Workers = {w1, w2}
  None = None
  MaxAttempts = 2
  Threshold = 2
  Scenarios <- MCScenarios
INVARIANT SendsBounded
PROPERTIES CancelSticks ImplementsCourier DeliverySettles
CHECK_DEADLOCK FALSE
