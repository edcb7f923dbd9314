SPECIFICATION PollSpec
CONSTANTS
  ann = ann  bob = bob  cat = cat  q1 = q1  q2 = q2  q3 = q3  o1 = o1  o2 = o2
  Users = {ann, bob, cat}
  Creator = ann
  Members = {ann, bob}
  Requests = {q1, q2, q3}
  Options = {o1, o2}
  NoUser = NoUser
  NoOption = NoOption
INVARIANTS PatientHoldOneVote SerialResultIsShown
PROPERTY ClosedStopsNewRequests
SYMMETRY Symmetry
CHECK_DEADLOCK FALSE
