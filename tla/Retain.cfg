SPECIFICATION Spec
CONSTANTS
  Users = {u1}
  Sends = {m1, m2}
  MaxTimer = 2
  MaxStops = 1
  NoUser = NoUser
INVARIANTS KeptAtLeast
PROPERTIES GoneWhenOn
CHECK_DEADLOCK FALSE
