SPECIFICATION Spec
CONSTANTS
  phone = phone  web = web  o1 = o1  o2 = o2  q1 = q1  q2 = q2
  NoDevice = NoDevice
  Devices = {phone, web}
  KeyIds = {0, 1}
  Owners = {o1}
  Requesters = {q1, q2}
  MaxRows = 3
  MaxGen = 2
INVARIANTS KeysFollowDevice UsedUpInOrder BundleInOrder
