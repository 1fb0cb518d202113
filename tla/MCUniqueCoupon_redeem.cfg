SPECIFICATION Spec
CONSTANTS
  pool1 = pool1
  c1 = c1
  c2 = c2
  twin1 = twin1
  twin2 = twin2
  other = other
  click = click
  Pools = {pool1}
  Codes = {c1, c2}
  PoolOf <- OnePool
  Stocked = {c1, c2}
  NoCode = NoCode
  Requests = {twin1, twin2, other}
  Target <- OneTarget
  Activation <- Clicks
  NoActivation = NoActivation
  NoRequest = NoRequest
  MaxRetries = 2
INVARIANTS
  NeverIssuedTwice
  OneCodePerActivation
SYMMETRY Symmetry
PROPERTIES
  TwinsAreNotToldEmpty
  ImplementsDispenser
