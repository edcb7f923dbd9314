SPECIFICATION FairSpec
CONSTANTS
  ann = ann  bob = bob  a1 = a1  a2 = a2  b1 = b1
  NoConn = NoConn  http = http  bot = bot
  Users = {ann, bob}
  Conns = {a1, b1}
  Requests = {}
  Background = {bot}
  Cap = 1
  Handles <- MCMessage
  UserOf <- MCUserOf
  Watchers <- MCWatchers
PROPERTIES HubComesBack BrokenIsCleanedUp
CHECK_DEADLOCK FALSE
