SPECIFICATION OffersSpec
CONSTANTS
  pool1 = pool1
  c1 = c1
  c2 = c2
  twin1 = twin1
  twin2 = twin2
  other = other
  click = click
  Pools = {pool1}
  Codes = {c1, c2}
  PoolOf <- OnePool
  Stocked = {c1}
  NoCode = NoCode
  Requests = {twin1, other}
  Target <- OneTarget
  Activation <- NoClicks
  NoActivation = NoActivation
  NoRequest = NoRequest
  MaxRetries = 1
INVARIANTS
  CountersMatch
PROPERTIES
  OffersFollowStock
