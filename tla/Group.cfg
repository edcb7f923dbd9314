SPECIFICATION Spec
CONSTANTS
  ann = ann  bob = bob  cat = cat  q1 = q1  q2 = q2  q3 = q3
  Users = {ann, bob, cat}
  Creator = ann
  Requests = {q1, q2, q3}
  MaxRows = 4
INVARIANTS OwnerHolds
PROPERTIES OnlyCheckedRowsGo StrangersAreLeftOut LastMemberDeletes
CHECK_DEADLOCK FALSE
SYMMETRY Symmetry
