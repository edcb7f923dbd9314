SPECIFICATION Spec
CONSTANTS
  k1 = k1  k2 = k2
  Users = {u1, u2}
  Keys = {k1, k2}
  MaxRequest = 3
  KeyLists <- MCKeyLists
  NoUser = NoUser
  Everyone = Everyone
  NoRow = NoRow
  Nothing = Nothing
INVARIANTS PatientWish ToldIsTrue
PROPERTIES AtOneMoment
CHECK_DEADLOCK FALSE
