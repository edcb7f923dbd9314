SPECIFICATION Spec
CONSTANTS
  ann = ann  bob = bob  cat = cat  q1 = q1  q2 = q2  q3 = q3
  Users = {ann, bob, cat}
  Requests = {q1, q2, q3}
  NoUser = NoUser
  FirstContacts <- MCContacts
  FirstBlocks <- MCBlocks
  OldList = OldList
  Owner = ann
  FirstRecipients <- MCRecipients
  NoId = NoId
  OldStory = OldStory
  Teller = ann
  MaxStops = 1
INVARIANTS BlockedThroughout OncePerSend AwayStaysAway CountIsViews ViewersWereContacts
SYMMETRY Symmetry
CHECK_DEADLOCK FALSE
