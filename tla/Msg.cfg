SPECIFICATION Spec
CONSTANTS
  m1 = m1  m2 = m2  bob = bob  cat = cat
  old = old  ws = ws  http = http
  NoMsg = NoMsg
  Msgs = {m1}
  Recipients = {bob, cat}
  WsPumps = {ws}
  HttpTasks = {http}
  Cap = 2
  MaxEdits = 1
INVARIANTS DeliveredWasAccepted NothingAfterDelete
PROPERTY SettledStatusIsMonotone
