SPECIFICATION Spec
CONSTANTS
  ann = ann  bob = bob  a1 = a1  a2 = a2  b1 = b1
  NoConn = NoConn  http = http  bot = bot
  Users = {ann, bob}
  Conns = {a1, a2, b1}
  Requests = {}
  Background = {}
  Cap = 1
  Handles <- MCTyping
  UserOf <- MCUserOf
  Watchers <- MCWatchers
SYMMETRY Symmetry
INVARIANTS RegisteredIsLive OneLiveSocketPerUser OwnSendStaysOpen
INVARIANTS NoGhostOnline OfflineOnlyWhenReplaced
PROPERTY SessionsSpec
CHECK_DEADLOCK FALSE
