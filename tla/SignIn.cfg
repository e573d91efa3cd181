CONSTANTS
  one = one
  two = two
  ann = ann
  bob = bob
  p1 = p1
  p2 = p2
  Attempt = {one, two}
  Person = {ann, bob}
  Nobody = Nobody
  Port = {p1, p2}
  NoPort = NoPort
  ta = ta
  tb = tb
  PageToken = {ta, tb}
  NoToken = NoToken
SPECIFICATION FairSpec
INVARIANTS
  SeenMeansAuthenticated
PROPERTIES
  ImplementsConsent
  Ends
CHECK_DEADLOCK FALSE
