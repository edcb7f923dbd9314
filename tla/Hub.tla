-------------------------------- MODULE Hub --------------------------------
(***************************************************************************)
(* The connection hub of the Go backend (internal/websocket/hub.go) with    *)
(* the two goroutines of every connection (ReadPump and WritePump of        *)
(* internal/websocket/client.go) and the goroutines that send through the   *)
(* hub without being a pump: HTTP handlers, the scheduler, the bot.         *)
(*                                                                          *)
(* A connection is an element of Conns; UserOf says whose it is.  A queued  *)
(* frame is counted, not named: what the properties tell apart is whether   *)
(* the buffer of Client.Send has room, and whether the channel is closed.   *)
(***************************************************************************)
EXTENDS Naturals

CONSTANTS
  Users,       \* accounts
  Conns,       \* WebSocket connections ever accepted (the bound of a run)
  NoConn,      \* "no entry" in the clients map
  UserOf,      \* the authenticated user of a connection
  Watchers,    \* who has a user as a contact and is not blocked either way
  Requests,    \* HTTP handler goroutines, under Fiber's recover middleware
  Background,  \* goroutines with no recover: scheduler, bot responder
  Cap,         \* buffer of Client.Send (256 in the code)
  Handles      \* what the handlers of client frames do: the users they send
               \* to, the frames they push onto their own Send

Tasks == Requests \cup Background

\* A handler's frames to others and, at most two, to its own client.
Jobs == [to : SUBSET Users, own : 0 .. 2]

ASSUME HubAssumption ==
  /\ NoConn \notin Conns
  /\ UserOf \in [Conns -> Users]
  /\ Watchers \in [Users -> SUBSET Users]
  /\ Conns \cap Tasks = {}
  /\ Requests \cap Background = {}
  /\ Cap \in Nat \ {0}
  /\ Handles \subseteq Jobs

VARIABLES
  clients,     \* Hub.clients: user -> connection, or NoConn
  sock,        \* the socket under Client.Conn
  queued,      \* frames in Client.Send
  sendClosed,  \* close(client.Send) has run
  reader,      \* where the ReadPump goroutine is
  job,         \* what the handler the ReadPump runs still has to send
  writer,      \* where the WritePump goroutine is
  hub,         \* where Hub.Run is
  target,      \* the *Client a SendToUser call looked up and still holds
  up,          \* the server process runs
  announced,   \* the last presence broadcast for a user (history)
  presence,    \* what the registered connection of one user was last told
               \* about another: accepted into its buffer, or lost (history)
  sendPanic    \* some goroutine has sent on a closed channel (history)

vars == <<clients, sock, queued, sendClosed, reader, job, writer, hub, target,
          up, announced, presence, sendPanic>>

ReaderStates == {"none", "registering", "reading", "handling", "found",
                 "replying", "leaving", "closing", "gone"}
Serving  == {"reading", "handling", "found", "replying"}
Idle     == [phase |-> "idle"]
NoJob    == [to |-> {}, own |-> 0]

\* Hub.Run has received a connection and not written the map yet.
Registering(c) == hub = [phase |-> "registering", conn |-> c]
Removing(c)    == hub = [phase |-> "removing", conn |-> c]
Announcing     == [phase : {"announcing"}, user : Users, online : BOOLEAN,
                   todo : SUBSET Users]

TypeOK ==
  /\ clients \in [Users -> Conns \cup {NoConn}]
  /\ sock \in [Conns -> {"unused", "open", "closed"}]
  /\ queued \in [Conns -> 0 .. Cap]
  /\ sendClosed \in [Conns -> BOOLEAN]
  /\ reader \in [Conns -> ReaderStates]
  /\ job \in [Conns -> Jobs]
  /\ writer \in [Conns -> {"none", "running", "done"}]
  /\ hub \in {Idle} \cup [phase : {"registering", "removing"}, conn : Conns]
             \cup Announcing
  /\ target \in [Conns \cup Tasks -> Conns \cup {NoConn}]
  /\ up \in BOOLEAN
  /\ announced \in [Users -> BOOLEAN]
  /\ presence \in [Users -> [Users -> {"off", "on", "lost"}]]
  /\ sendPanic \in BOOLEAN

Init ==
  /\ clients = [u \in Users |-> NoConn]
  /\ sock = [c \in Conns |-> "unused"]
  /\ queued = [c \in Conns |-> 0]
  /\ sendClosed = [c \in Conns |-> FALSE]
  /\ reader = [c \in Conns |-> "none"]
  /\ job = [c \in Conns |-> NoJob]
  /\ writer = [c \in Conns |-> "none"]
  /\ hub = Idle
  /\ target = [g \in Conns \cup Tasks |-> NoConn]
  /\ up = TRUE
  /\ announced = [u \in Users |-> FALSE]
  /\ presence = [v \in Users |-> [u \in Users |-> "off"]]
  /\ sendPanic = FALSE

----------------------------------------------------------------------------
(* The network: a client dials /ws with a valid token; a socket breaks.     *)

Dial(c) ==
  /\ up /\ reader[c] = "none"
  /\ sock' = [sock EXCEPT ![c] = "open"]
  /\ reader' = [reader EXCEPT ![c] = "registering"]
  /\ UNCHANGED <<clients, queued, sendClosed, job, writer, hub, target, up,
                 announced, presence, sendPanic>>

\* The peer goes away, misses its pong deadline or exceeds the read limit.
Break(c) ==
  /\ up /\ sock[c] = "open"
  /\ sock' = [sock EXCEPT ![c] = "closed"]
  /\ UNCHANGED <<clients, queued, sendClosed, reader, job, writer, hub, target,
                 up, announced, presence, sendPanic>>

----------------------------------------------------------------------------
(* Hub.Run: one goroutine, serving the unbuffered register and unregister   *)
(* channels; broadcastPresence runs in it before the next request.          *)

\* Mutant: the replaced connection is left open.
ClosedWith_Forgets(old) == sock

ClosedWith(old) == IF old = NoConn THEN sock ELSE [sock EXCEPT ![old] = "closed"]

\* The receive from the register channel.  Register returns, and the caller
\* starts the pumps, while Hub.Run is still before the map write: until then
\* the new connection and the one it replaces are both served.
HubRegister(c) ==
  /\ up /\ hub = Idle /\ reader[c] = "registering"
  /\ hub' = [phase |-> "registering", conn |-> c]
  /\ reader' = [reader EXCEPT ![c] = "reading"]
  /\ writer' = [writer EXCEPT ![c] = "running"]
  /\ UNCHANGED <<clients, sock, queued, sendClosed, job, target, up, announced,
                 presence, sendPanic>>

\* Contacts are about to be told that u came or went.
Announce(u, is) ==
  /\ hub' = [phase |-> "announcing", user |-> u, online |-> is,
             todo |-> Watchers[u]]
  /\ announced' = [announced EXCEPT ![u] = is]

\* A connection that has just taken the slot has been told nothing.
ToldNothing(v) == [presence EXCEPT ![v] = [u \in Users |-> "off"]]

\* Mutant: the first login wins, the newcomer is served without an entry.
HubEnter_KeepsFirst(c) ==
  LET u == UserOf[c] IN
  /\ up /\ Registering(c)
  /\ clients' = [clients EXCEPT ![u] = IF @ = NoConn THEN c ELSE @]
  /\ presence' = ToldNothing(u)
  /\ Announce(u, TRUE)
  /\ UNCHANGED <<sock, queued, sendClosed, reader, job, writer, target, up,
                 sendPanic>>

\* Mutant: replacing a connection also closes its Send channel.
HubEnter_ClosesSend(c) ==
  LET u == UserOf[c] IN
  /\ up /\ Registering(c)
  /\ sock' = ClosedWith(clients[u])
  /\ sendClosed' = [d \in Conns |-> sendClosed[d] \/ d = clients[u]]
  /\ clients' = [clients EXCEPT ![u] = c]
  /\ presence' = ToldNothing(u)
  /\ Announce(u, TRUE)
  /\ UNCHANGED <<queued, reader, job, writer, target, up, sendPanic>>

\* Mutant: contacts are told of a replacement only, not of a first connection.
HubEnter_Silent(c) ==
  LET u == UserOf[c] IN
  /\ up /\ Registering(c)
  /\ sock' = ClosedWith(clients[u])
  /\ clients' = [clients EXCEPT ![u] = c]
  /\ presence' = ToldNothing(u)
  /\ IF clients[u] = NoConn THEN hub' = Idle /\ UNCHANGED announced
     ELSE Announce(u, TRUE)
  /\ UNCHANGED <<queued, sendClosed, reader, job, writer, target, up, sendPanic>>

\* Under the mutex: the replaced connection is closed, the new one entered.
HubEnter(c) ==
  LET u == UserOf[c] IN
  /\ up /\ Registering(c)
  /\ sock' = ClosedWith(clients[u])
  /\ clients' = [clients EXCEPT ![u] = c]
  /\ presence' = ToldNothing(u)
  /\ Announce(u, TRUE)
  /\ UNCHANGED <<queued, sendClosed, reader, job, writer, target, up, sendPanic>>

\* The receive from the unregister channel: the deferred function of ReadPump
\* goes on to close its socket.
HubUnregister(c) ==
  /\ up /\ hub = Idle /\ reader[c] = "leaving"
  /\ hub' = [phase |-> "removing", conn |-> c]
  /\ reader' = [reader EXCEPT ![c] = "closing"]
  /\ UNCHANGED <<clients, sock, queued, sendClosed, job, writer, target, up,
                 announced, presence, sendPanic>>

\* Mutant: Send is closed but the entry stays in the map.
Removal_KeepsEntry(c) ==
  /\ sendClosed' = [sendClosed EXCEPT ![c] = TRUE]
  /\ UNCHANGED <<clients, presence>>

\* Only the registered connection is removed, and only then is Send closed.
Removal(c) ==
  IF clients[UserOf[c]] = c
  THEN /\ clients' = [clients EXCEPT ![UserOf[c]] = NoConn]
       /\ sendClosed' = [sendClosed EXCEPT ![c] = TRUE]
       /\ presence' = ToldNothing(UserOf[c])
  ELSE UNCHANGED <<clients, sendClosed, presence>>

\* Mutant: a disconnect is not announced.
HubRemove_Silent(c) ==
  /\ up /\ Removing(c)
  /\ Removal(c)
  /\ hub' = Idle
  /\ UNCHANGED <<sock, queued, reader, job, writer, target, up, announced,
                 sendPanic>>

HubRemove(c) ==
  /\ up /\ Removing(c)
  /\ Removal(c)
  /\ Announce(UserOf[c], FALSE)
  /\ UNCHANGED <<sock, queued, reader, job, writer, target, up, sendPanic>>

\* The non-blocking send of SendToUser: dropped when the buffer is full.
Offered(c) ==
  IF queued[c] < Cap THEN [queued EXCEPT ![c] = @ + 1] ELSE queued

\* What v's connection knows of u after a presence frame: told when its buffer
\* takes the frame; a dropped one leaves what it was told, which is wrong from
\* then on when the frame said offline.
Heard(v, taken) ==
  [presence EXCEPT ![v][hub.user] =
     IF taken THEN (IF hub.online THEN "on" ELSE "off")
     ELSE IF @ = "on" /\ ~hub.online THEN "lost" ELSE @]

\* Mutant: presence waits for room in the contact's buffer.
HubAnnounce_Blocks(v) ==
  LET c == clients[v] IN
  /\ up /\ hub \in Announcing /\ v \in hub.todo
  /\ c # NoConn => queued[c] < Cap
  /\ hub' = [hub EXCEPT !.todo = @ \ {v}]
  /\ IF c = NoConn THEN UNCHANGED <<queued, presence>>
     ELSE queued' = Offered(c) /\ presence' = Heard(v, TRUE)
  /\ UNCHANGED <<clients, sock, sendClosed, reader, job, writer, target, up,
                 announced, sendPanic>>

\* A presence frame to one contact.  Hub.Run has no recover, so a send on a
\* closed channel here would end the process.
HubAnnounce(v) ==
  LET c == clients[v] IN
  /\ up /\ hub \in Announcing /\ v \in hub.todo
  /\ hub' = [hub EXCEPT !.todo = @ \ {v}]
  /\ IF c = NoConn THEN UNCHANGED <<queued, presence, up, sendPanic>>
     ELSE IF sendClosed[c]
          THEN up' = FALSE /\ sendPanic' = TRUE /\ UNCHANGED <<queued, presence>>
          ELSE /\ queued' = Offered(c)
               /\ presence' = Heard(v, queued[c] < Cap)
               /\ UNCHANGED <<up, sendPanic>>
  /\ UNCHANGED <<clients, sock, sendClosed, reader, job, writer, target,
                 announced>>

HubDone ==
  /\ up /\ hub \in Announcing /\ hub.todo = {}
  /\ hub' = Idle
  /\ UNCHANGED <<clients, sock, queued, sendClosed, reader, job, writer, target,
                 up, announced, presence, sendPanic>>

----------------------------------------------------------------------------
(* ReadPump: a frame is handled to the end before the next one is read.  A  *)
(* handler sends to other users through the hub and pushes up to two frames *)
(* (ack, echo, event or error) onto its own Send with a blocking send, the  *)
(* event handlers before, the message handlers after the others: any order  *)
(* is allowed here.                                                         *)

ReadFrame(c) ==
  /\ up /\ reader[c] = "reading" /\ sock[c] = "open"
  /\ \E todo \in Handles : job' = [job EXCEPT ![c] = todo]
  /\ reader' = [reader EXCEPT ![c] = "handling"]
  /\ UNCHANGED <<clients, sock, queued, sendClosed, writer, hub, target, up,
                 announced, presence, sendPanic>>

ReadError(c) ==
  /\ up /\ reader[c] = "reading" /\ sock[c] = "closed"
  /\ reader' = [reader EXCEPT ![c] = "leaving"]
  /\ UNCHANGED <<clients, sock, queued, sendClosed, job, writer, hub, target,
                 up, announced, presence, sendPanic>>

\* The read-locked half of SendToUser.
ReaderLookup(c) ==
  /\ up /\ reader[c] = "handling"
  /\ \E u \in job[c].to :
       /\ job' = [job EXCEPT ![c].to = @ \ {u}]
       /\ target' = [target EXCEPT ![c] = clients[u]]
       /\ reader' = [reader EXCEPT
                       ![c] = IF clients[u] = NoConn THEN @ ELSE "found"]
  /\ UNCHANGED <<clients, sock, queued, sendClosed, writer, hub, up, announced, presence,
                 sendPanic>>

\* The unlocked half.  A panic unwinds ReadPump, whose deferred function
\* unregisters the connection; the WebSocket middleware recovers.
ReaderSend(c) ==
  /\ up /\ reader[c] = "found"
  /\ target' = [target EXCEPT ![c] = NoConn]
  /\ IF sendClosed[target[c]]
     THEN /\ sendPanic' = TRUE
          /\ reader' = [reader EXCEPT ![c] = "leaving"]
          /\ job' = [job EXCEPT ![c] = NoJob]
          /\ UNCHANGED queued
     ELSE /\ queued' = Offered(target[c])
          /\ reader' = [reader EXCEPT ![c] = "handling"]
          /\ UNCHANGED <<job, sendPanic>>
  /\ UNCHANGED <<clients, sock, sendClosed, writer, hub, up, announced, presence>>

\* The handler comes to a c.Send <- frame of its own ...
ReplyBegin(c) ==
  /\ up /\ reader[c] = "handling" /\ job[c].own > 0
  /\ job' = [job EXCEPT ![c].own = @ - 1]
  /\ reader' = [reader EXCEPT ![c] = "replying"]
  /\ UNCHANGED <<clients, sock, queued, sendClosed, writer, hub, target, up,
                 announced, presence, sendPanic>>

\* ... and waits for room, with no way out.
Reply(c) ==
  /\ up /\ reader[c] = "replying"
  /\ IF sendClosed[c]
     THEN /\ sendPanic' = TRUE
          /\ reader' = [reader EXCEPT ![c] = "leaving"]
          /\ UNCHANGED queued
     ELSE /\ queued[c] < Cap
          /\ queued' = [queued EXCEPT ![c] = @ + 1]
          /\ reader' = [reader EXCEPT ![c] = "handling"]
          /\ UNCHANGED sendPanic
  /\ UNCHANGED <<clients, sock, sendClosed, job, writer, hub, target, up,
                 announced, presence>>

HandlerEnds(c) ==
  /\ up /\ reader[c] = "handling" /\ job[c] = NoJob
  /\ reader' = [reader EXCEPT ![c] = "reading"]
  /\ UNCHANGED <<clients, sock, queued, sendClosed, job, writer, hub, target,
                 up, announced, presence, sendPanic>>

\* The last statement of the deferred function, after the unregister.
ReaderClose(c) ==
  /\ up /\ reader[c] = "closing"
  /\ sock' = [sock EXCEPT ![c] = "closed"]
  /\ reader' = [reader EXCEPT ![c] = "gone"]
  /\ UNCHANGED <<clients, queued, sendClosed, job, writer, hub, target, up,
                 announced, presence, sendPanic>>

----------------------------------------------------------------------------
(* WritePump.                                                               *)

Write(c) ==
  /\ up /\ writer[c] = "running" /\ queued[c] > 0 /\ sock[c] = "open"
  /\ queued' = [queued EXCEPT ![c] = @ - 1]
  /\ UNCHANGED <<clients, sock, sendClosed, reader, job, writer, hub, target,
                 up, announced, presence, sendPanic>>

\* A data frame or the periodic ping fails on a broken socket.
WriteError(c) ==
  /\ up /\ writer[c] = "running" /\ sock[c] = "closed"
  /\ \/ queued[c] > 0 /\ queued' = [queued EXCEPT ![c] = @ - 1]
     \/ UNCHANGED queued
  /\ writer' = [writer EXCEPT ![c] = "done"]
  /\ UNCHANGED <<clients, sock, sendClosed, reader, job, hub, target, up,
                 announced, presence, sendPanic>>

\* The channel is closed and drained: close frame, then Conn.Close.
WriterSeesClose(c) ==
  /\ up /\ writer[c] = "running" /\ queued[c] = 0 /\ sendClosed[c]
  /\ writer' = [writer EXCEPT ![c] = "done"]
  /\ sock' = [sock EXCEPT ![c] = "closed"]
  /\ UNCHANGED <<clients, queued, sendClosed, reader, job, hub, target, up,
                 announced, presence, sendPanic>>

----------------------------------------------------------------------------
(* SendToUser from a goroutine that is not a pump.                          *)

TaskLookup(t) ==
  /\ up /\ target[t] = NoConn
  /\ \E u \in Users : target' = [target EXCEPT ![t] = clients[u]]
  /\ UNCHANGED <<clients, sock, queued, sendClosed, reader, job, writer, hub,
                 up, announced, presence, sendPanic>>

TaskSend(t) ==
  /\ up /\ target[t] # NoConn
  /\ target' = [target EXCEPT ![t] = NoConn]
  /\ IF sendClosed[target[t]]
     THEN /\ sendPanic' = TRUE
          /\ up' = (t \in Requests)
          /\ UNCHANGED queued
     ELSE queued' = Offered(target[t]) /\ UNCHANGED <<sendPanic, up>>
  /\ UNCHANGED <<clients, sock, sendClosed, reader, job, writer, hub, announced, presence>>

\* The process comes back (restart policy of the deployment): every socket is
\* gone and the hub is empty.
Restart ==
  /\ ~up
  /\ up' = TRUE
  /\ clients' = [u \in Users |-> NoConn]
  /\ sock' = [c \in Conns |-> IF sock[c] = "unused" THEN "unused" ELSE "closed"]
  /\ queued' = [c \in Conns |-> 0]
  /\ reader' = [c \in Conns |-> IF reader[c] = "none" THEN "none" ELSE "gone"]
  /\ job' = [c \in Conns |-> NoJob]
  /\ writer' = [c \in Conns |-> IF reader[c] = "none" THEN "none" ELSE "done"]
  /\ hub' = Idle
  /\ target' = [g \in Conns \cup Tasks |-> NoConn]
  /\ announced' = [u \in Users |-> FALSE]
  /\ presence' = [v \in Users |-> [u \in Users |-> "off"]]
  /\ UNCHANGED <<sendClosed, sendPanic>>

----------------------------------------------------------------------------
HubStep == \/ \E c \in Conns : \/ HubRegister(c) \/ HubEnter(c)
                              \/ HubUnregister(c) \/ HubRemove(c)
           \/ \E v \in Users : HubAnnounce(v)
           \/ HubDone

ReaderStep(c) == \/ ReadError(c) \/ ReaderLookup(c) \/ ReaderSend(c)
                 \/ ReplyBegin(c) \/ Reply(c) \/ HandlerEnds(c)
                 \/ ReaderClose(c)

WriterStep(c) == Write(c) \/ WriteError(c) \/ WriterSeesClose(c)

Next ==
  \/ HubStep
  \/ \E c \in Conns : Dial(c) \/ Break(c) \/ ReadFrame(c)
                      \/ ReaderStep(c) \/ WriterStep(c)
  \/ \E t \in Tasks : TaskLookup(t) \/ TaskSend(t)
  \/ Restart

Spec == Init /\ [][Next]_vars

(* A goroutine that can run eventually does: Hub.Run, the pumps, a task that *)
(* holds a looked-up client.  Clients owe the server nothing: no fairness on *)
(* Dial, Break or ReadFrame, nor on the operator who restarts the process.   *)
FairSpec ==
  /\ Spec
  /\ WF_vars(HubStep)
  /\ \A c \in Conns : WF_vars(ReaderStep(c)) /\ WF_vars(WriterStep(c))
  /\ \A t \in Tasks : WF_vars(TaskSend(t))

----------------------------------------------------------------------------
(* Properties.                                                              *)

\* The entry of a user in Hub.clients is one of that user's connections, its
\* Send channel is open and its ReadPump has not unregistered, unless Hub.Run
\* is just removing it: so the hub never closes a channel twice, and its own
\* presence frames never panic.
RegisteredIsLive ==
  \A u \in Users : clients[u] # NoConn =>
    /\ UserOf[clients[u]] = u
    /\ ~sendClosed[clients[u]]
    /\ \/ reader[clients[u]] \in Serving \cup {"leaving"}
       \/ Removing(clients[u])

\* A second login replaces the first: a connection that is still served over
\* an open socket is the one registered for its user, or the one Hub.Run is
\* registering.  So two sockets of a user are served together only between the
\* receive and the end of the critical section (hub.go:37-44), and both are
\* never in place once Hub.Run serves its next request.
OneLiveSocketPerUser ==
  \A c \in Conns : reader[c] \in Serving /\ sock[c] = "open" =>
    clients[UserOf[c]] = c \/ Registering(c)

\* close(Send) happens only after the ReadPump has left its loop, so a handler
\* never replies on its own closed channel.
OwnSendStaysOpen ==
  \A c \in Conns : sendClosed[c] => reader[c] \in {"closing", "gone"}

\* Between two requests of Hub.Run, a connection that was told over its
\* present registration that a user is online, and for which no later offline
\* frame was dropped, is right: that user has a connection.  A contact whose
\* buffer was full at the disconnect (hub.go:95-98) is "lost", not right: it
\* keeps the ghost until the next presence frame it has room for.
NoGhostOnline ==
  up /\ hub = Idle =>
    \A v, u \in Users : presence[v][u] = "on" => clients[u] # NoConn

\* A registered user was last announced as offline only when an older
\* connection of his unregistered after its successor had registered: the one
\* way a contact is shown a connected user as offline (hub.go:63).
OfflineOnlyWhenReplaced ==
  \A u \in Users : clients[u] # NoConn /\ ~announced[u] =>
    \E c \in Conns : /\ c # clients[u] /\ UserOf[c] = u
                     /\ reader[c] \in {"closing", "gone"}

\* Hub.Run always comes back to its select, whatever the state of the contacts
\* it announces to (unless the process dies): so registration and clean-up
\* never wait for a slow or dead client.
HubComesBack == (hub # Idle) ~> (hub = Idle \/ ~up)

\* A reader blocked on c.Send <- with the buffer full and nobody draining it.
Stuck(c) == reader[c] = "replying" /\ queued[c] = Cap /\ writer[c] = "done"

\* A connection whose socket is gone is cleaned up: both pumps end and, if it
\* was registered, the user goes offline; the only way out is a reader blocked
\* on its own full buffer after WritePump has exited.
BrokenIsCleanedUp ==
  \A c \in Conns :
    (sock[c] = "closed" /\ reader[c] \in Serving /\ up)
      ~> (\/ reader[c] = "gone" /\ writer[c] = "done" /\ clients[UserOf[c]] # c
          \/ Stuck(c) \/ ~up)

(* A statement of the sources that the code does not keep.                  *)

\* hub_test.go:146 "SendToUser should return false for non-existent user": a
\* send to a user the hub does not have returns, it does not panic.
SendToUserReturns == ~sendPanic

----------------------------------------------------------------------------
(* What the hub promises its callers: one session per user at a time, and   *)
(* a connection that lost its slot never gets it back.                      *)
Ended == {c \in Conns : /\ reader[c] \notin {"none", "registering"}
                        /\ clients[UserOf[c]] # c
                        /\ ~Registering(c)}

Sessions == INSTANCE Registry WITH session <- clients, ended <- Ended
SessionsSpec == Sessions!Spec
=============================================================================
