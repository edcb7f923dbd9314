----------------------------- MODULE HubProofs -----------------------------
(***************************************************************************)
(* Proofs about the connection hub, for any users, connections, tasks and   *)
(* buffer size: typing, the safety invariants of Hub, and that the hub      *)
(* implements the session registry its callers rely on.                     *)
(***************************************************************************)
EXTENDS Hub, TLAPS

\* A handler between the two halves of SendToUser holds a connection.
HeldIsConn ==
  /\ \A c \in Conns : reader[c] = "found" => target[c] \in Conns
  /\ \A t \in Tasks : target[t] # NoConn => target[t] \in Conns

\* The connection Hub.Run has received: its pumps run and it has no entry yet,
\* or its reader is past the unregister.
InHand ==
  \A c \in Conns :
    /\ Registering(c) => /\ reader[c] \in Serving \cup {"leaving"}
                         /\ clients[UserOf[c]] # c
    /\ Removing(c) => reader[c] \in {"closing", "gone"}

\* The presence frames Hub.Run is sending go to watchers of the user and, when
\* they say online, are about a user with an entry.
Announced ==
  hub \in Announcing => /\ hub.todo \subseteq Watchers[hub.user]
                        /\ hub.online => clients[hub.user] # NoConn

\* A contact told over its present connection that a user is online is right,
\* or the offline frame for him is on its way.
OnIsTrue ==
  \A v, u \in Users : presence[v][u] = "on" =>
    /\ v \in Watchers[u] /\ clients[v] # NoConn
    /\ \/ clients[u] # NoConn
       \/ hub \in Announcing /\ hub.user = u /\ ~hub.online /\ v \in hub.todo

IInv == /\ TypeOK
        /\ HeldIsConn
        /\ RegisteredIsLive
        /\ OneLiveSocketPerUser
        /\ OwnSendStaysOpen
        /\ InHand
        /\ Announced
        /\ OnIsTrue

USE HubAssumption

\* The state the server starts in satisfies the invariant.
LEMMA InitInv == Init => IInv
<1> SUFFICES ASSUME Init PROVE IInv
  OBVIOUS
<1>1. TypeOK
  <2>1. job \in [Conns -> Jobs]
    BY DEF Init, NoJob, Jobs
  <2>2. queued \in [Conns -> 0 .. Cap]
    BY DEF Init
  <2>3. target \in [Conns \cup Tasks -> Conns \cup {NoConn}]
    BY DEF Init
  <2>4. presence \in [Users -> [Users -> {"off", "on", "lost"}]]
    BY DEF Init
  <2> QED
    BY <2>1, <2>2, <2>3, <2>4 DEF Init, TypeOK, ReaderStates
<1>2. hub \notin Announcing /\ \A c \in Conns : ~Registering(c) /\ ~Removing(c)
  BY DEF Init, Idle, Announcing, Registering, Removing
<1>3. HeldIsConn /\ RegisteredIsLive /\ OnIsTrue
  BY DEF Init, HeldIsConn, RegisteredIsLive, OnIsTrue, Tasks
<1>4. OneLiveSocketPerUser /\ OwnSendStaysOpen
  BY DEF Init, OneLiveSocketPerUser, OwnSendStaysOpen, Serving
<1> QED
  BY <1>1, <1>2, <1>3, <1>4 DEF IInv, InHand, Announced

\* The non-blocking send keeps every buffer within its capacity.
LEMMA OfferedType ==
  ASSUME queued \in [Conns -> 0 .. Cap], NEW c \in Conns
  PROVE  Offered(c) \in [Conns -> 0 .. Cap]
  BY DEF Offered

\* A frame taken out of a buffer, a frame or a recipient less to go.
LEMMA DrainedType ==
  ASSUME queued \in [Conns -> 0 .. Cap], NEW c \in Conns, queued[c] > 0
  PROVE  [queued EXCEPT ![c] = @ - 1] \in [Conns -> 0 .. Cap]
<1>1. queued[c] - 1 \in 0 .. Cap
  OBVIOUS
<1> QED
  BY <1>1

LEMMA JobType ==
  ASSUME NEW j \in Jobs, NEW u
  PROVE  /\ j.own > 0 => [j EXCEPT !.own = @ - 1] \in Jobs
         /\ [j EXCEPT !.to = @ \ {u}] \in Jobs
  BY DEF Jobs

\* Every action keeps the types.
LEMMA TypeStep == IInv /\ [Next]_vars => TypeOK'
<1> SUFFICES ASSUME IInv, [Next]_vars PROVE TypeOK'
  OBVIOUS
<1> USE DEF IInv, TypeOK, ReaderStates, Tasks, Idle, Jobs
<1> DEFINE Views == [Users -> [Users -> {"off", "on", "lost"}]]
<1>0. ASSUME NEW v \in Users PROVE ToldNothing(v) \in Views
  BY DEF ToldNothing
<1>1. ASSUME NEW c \in Conns, Dial(c) PROVE TypeOK'
  BY <1>1 DEF Dial
<1>2. ASSUME NEW c \in Conns, Break(c) PROVE TypeOK'
  BY <1>2 DEF Break
<1>3. ASSUME NEW c \in Conns, HubRegister(c) PROVE TypeOK'
  BY <1>3 DEF HubRegister
<1>4. ASSUME NEW c \in Conns, HubUnregister(c) PROVE TypeOK'
  BY <1>4 DEF HubUnregister
<1>19. ASSUME NEW u \in Users, NEW b \in BOOLEAN, Announce(u, b)
       PROVE  hub' \in Announcing /\ announced' \in [Users -> BOOLEAN]
  <2>1. Watchers[u] \in SUBSET Users
    OBVIOUS
  <2> QED
    BY <1>19, <2>1 DEF Announce, Announcing
<1>20. ASSUME NEW c \in Conns, HubEnter(c) PROVE TypeOK'
  <2>1. UserOf[c] \in Users /\ presence' = ToldNothing(UserOf[c])
    BY <1>20 DEF HubEnter
  <2>2. presence' \in Views
    BY <2>1, <1>0
  <2>3. hub' \in Announcing /\ announced' \in [Users -> BOOLEAN]
    BY <1>19, <1>20, <2>1 DEF HubEnter
  <2>4. /\ clients' = [clients EXCEPT ![UserOf[c]] = c]
        /\ sock' = ClosedWith(clients[UserOf[c]])
        /\ UNCHANGED <<queued, sendClosed, reader, job, writer, target, up, sendPanic>>
    BY <1>20 DEF HubEnter
  <2> HIDE DEF Views
  <2> QED
    BY <2>1, <2>2, <2>3, <2>4 DEF ClosedWith, Views
<1>21. ASSUME NEW c \in Conns, HubRemove(c) PROVE TypeOK'
  <2>1. UserOf[c] \in Users
    OBVIOUS
  <2>2. presence' \in Views
    BY <1>0, <1>21, <2>1 DEF HubRemove, Removal
  <2>3. hub' \in Announcing /\ announced' \in [Users -> BOOLEAN]
    BY <1>19, <1>21, <2>1 DEF HubRemove
  <2>4. clients' \in [Users -> Conns \cup {NoConn}] /\ sendClosed' \in [Conns -> BOOLEAN]
    BY <1>21, <2>1 DEF HubRemove, Removal
  <2>5. UNCHANGED <<sock, queued, reader, job, writer, target, up, sendPanic>>
    BY <1>21 DEF HubRemove
  <2> HIDE DEF Views
  <2> QED
    BY <2>2, <2>3, <2>4, <2>5 DEF Views
<1>5. ASSUME NEW v \in Users, HubAnnounce(v) PROVE TypeOK'
  <2>1. hub \in Announcing /\ hub' \in Announcing /\ hub.user \in Users
    BY <1>5 DEF HubAnnounce, Announcing
  <2>2. queued' \in [Conns -> 0 .. Cap]
    <3>1. CASE clients[v] \in Conns /\ ~sendClosed[clients[v]]
      <4>1. queued' = Offered(clients[v])
        BY <1>5, <3>1 DEF HubAnnounce
      <4> QED
        BY <3>1, <4>1, OfferedType
    <3>2. CASE clients[v] = NoConn \/ sendClosed[clients[v]]
      BY <1>5, <3>2 DEF HubAnnounce
    <3> QED
      BY <3>1, <3>2
  <2>3. up' \in BOOLEAN /\ sendPanic' \in BOOLEAN
    BY <1>5 DEF HubAnnounce
  <2>4. ASSUME NEW b \in BOOLEAN PROVE Heard(v, b) \in Views
    BY <2>1 DEF Heard
  <2>5. presence' \in Views
    <3>1. (queued[clients[v]] < Cap) \in BOOLEAN
      OBVIOUS
    <3>2. presence' = presence \/ \E b \in BOOLEAN : presence' = Heard(v, b)
      <4>1. presence' = presence \/ presence' = Heard(v, queued[clients[v]] < Cap)
        BY <1>5 DEF HubAnnounce
      <4>2. CASE queued[clients[v]] < Cap
        <5>1. (queued[clients[v]] < Cap) = TRUE
          BY <4>2
        <5> QED
          BY <4>1, <5>1
      <4>3. CASE ~(queued[clients[v]] < Cap)
        <5>1. (queued[clients[v]] < Cap) = FALSE
          BY <4>3
        <5> QED
          BY <4>1, <5>1
      <4> QED
        BY <4>2, <4>3
    <3> QED
      BY <2>4, <3>2
  <2>6. UNCHANGED <<clients, sock, sendClosed, reader, job, writer, target, announced>>
    BY <1>5 DEF HubAnnounce
  <2> HIDE DEF Views
  <2> QED
    BY <2>1, <2>2, <2>3, <2>5, <2>6 DEF Views
<1>6. CASE HubDone
  BY <1>6 DEF HubDone
<1>7. ASSUME NEW c \in Conns, ReadFrame(c) PROVE TypeOK'
  BY <1>7 DEF ReadFrame
<1>8. ASSUME NEW c \in Conns, ReadError(c) PROVE TypeOK'
  BY <1>8 DEF ReadError
<1>22. ASSUME NEW c \in Conns, ReplyBegin(c) PROVE TypeOK'
  <2> HIDE DEF Jobs
  <2>1. job[c] \in Jobs /\ job[c].own > 0
    BY <1>22 DEF ReplyBegin
  <2>2. job' = [job EXCEPT ![c] = [job[c] EXCEPT !.own = @ - 1]]
    BY <1>22 DEF ReplyBegin
  <2>3. job' \in [Conns -> Jobs]
    BY <2>1, <2>2, JobType
  <2> QED
    BY <1>22, <2>3 DEF ReplyBegin
<1>9. ASSUME NEW c \in Conns, ReaderLookup(c) PROVE TypeOK'
  <2>1. PICK u \in job[c].to :
          /\ job' = [job EXCEPT ![c].to = @ \ {u}]
          /\ target' = [target EXCEPT ![c] = clients[u]]
          /\ reader' = [reader EXCEPT
                          ![c] = IF clients[u] = NoConn THEN @ ELSE "found"]
    BY <1>9 DEF ReaderLookup
  <2>2. job' = [job EXCEPT ![c] = [job[c] EXCEPT !.to = @ \ {u}]]
    BY <2>1
  <2>3. u \in Users /\ job[c] \in Jobs
    BY <2>1
  <2> HIDE DEF Jobs
  <2>4. job' \in [Conns -> Jobs]
    BY <2>2, <2>3, JobType
  <2>5. target' \in [Conns \cup Tasks -> Conns \cup {NoConn}]
    BY <2>1, <2>3
  <2>6. reader' \in [Conns -> ReaderStates]
    BY <2>1
  <2> QED
    BY <1>9, <2>4, <2>5, <2>6 DEF ReaderLookup
<1>10. ASSUME NEW c \in Conns, ReaderSend(c) PROVE TypeOK'
  <2>1. target[c] \in Conns
    BY <1>10 DEF ReaderSend, HeldIsConn
  <2>2. queued' \in [Conns -> 0 .. Cap]
    BY <1>10, <2>1, OfferedType DEF ReaderSend
  <2>3. sendPanic' \in BOOLEAN /\ reader' \in [Conns -> ReaderStates]
    BY <1>10 DEF ReaderSend
  <2>4. job' \in [Conns -> Jobs]
    <3>1. NoJob \in Jobs
      BY DEF NoJob
    <3>2. job' = [job EXCEPT ![c] = NoJob] \/ job' = job
      BY <1>10 DEF ReaderSend
    <3> HIDE DEF Jobs
    <3> QED
      BY <3>1, <3>2
  <2> QED
    BY <1>10, <2>2, <2>3, <2>4 DEF ReaderSend
<1>11. ASSUME NEW c \in Conns, HandlerEnds(c) PROVE TypeOK'
  BY <1>11 DEF HandlerEnds, NoJob
<1>12. ASSUME NEW c \in Conns, Reply(c) PROVE TypeOK'
  <2>1. queued' \in [Conns -> 0 .. Cap]
    <3>1. CASE sendClosed[c]
      BY <1>12, <3>1 DEF Reply
    <3>2. CASE ~sendClosed[c]
      <4>1. queued[c] + 1 \in 0 .. Cap
        BY <1>12, <3>2 DEF Reply
      <4> QED
        BY <1>12, <3>2, <4>1 DEF Reply
    <3> QED
      BY <3>1, <3>2
  <2>2. sendPanic' \in BOOLEAN /\ reader' \in [Conns -> ReaderStates]
    BY <1>12 DEF Reply
  <2> QED
    BY <1>12, <2>1, <2>2 DEF Reply
<1>13. ASSUME NEW c \in Conns, ReaderClose(c) PROVE TypeOK'
  BY <1>13 DEF ReaderClose
<1>14. ASSUME NEW c \in Conns, WriterStep(c) PROVE TypeOK'
  <2>1. queued' \in [Conns -> 0 .. Cap]
    <3>1. queued' = queued \/ (queued[c] > 0 /\ queued' = [queued EXCEPT ![c] = @ - 1])
      BY <1>14 DEF WriterStep, Write, WriteError, WriterSeesClose
    <3>2. queued \in [Conns -> 0 .. Cap]
      OBVIOUS
    <3> HIDE DEF IInv, TypeOK
    <3>3. queued[c] > 0 => [queued EXCEPT ![c] = @ - 1] \in [Conns -> 0 .. Cap]
      BY <3>2, DrainedType
    <3> QED
      BY <3>1, <3>2, <3>3
  <2> QED
    BY <1>14, <2>1 DEF WriterStep, Write, WriteError, WriterSeesClose
<1>15. ASSUME NEW t \in Tasks, TaskLookup(t) PROVE TypeOK'
  BY <1>15 DEF TaskLookup
<1>16. ASSUME NEW t \in Tasks, TaskSend(t) PROVE TypeOK'
  <2>1. target[t] \in Conns
    BY <1>16 DEF TaskSend, HeldIsConn
  <2>2. queued' \in [Conns -> 0 .. Cap]
    <3>1. CASE sendClosed[target[t]]
      BY <1>16, <3>1 DEF TaskSend
    <3>2. CASE ~sendClosed[target[t]]
      BY <1>16, <2>1, <3>2, OfferedType DEF TaskSend
    <3> QED
      BY <3>1, <3>2
  <2>3. sendPanic' \in BOOLEAN /\ up' \in BOOLEAN
    <3>1. CASE sendClosed[target[t]]
      <4>1. sendPanic' = TRUE /\ up' = (t \in Requests)
        BY <1>16, <3>1 DEF TaskSend
      <4>2. CASE t \in Requests
        BY <4>1, <4>2
      <4>3. CASE t \notin Requests
        BY <4>1, <4>3
      <4> QED
        BY <4>2, <4>3
    <3>2. CASE ~sendClosed[target[t]]
      BY <1>16, <3>2 DEF TaskSend
    <3> QED
      BY <3>1, <3>2
  <2> QED
    BY <1>16, <2>2, <2>3 DEF TaskSend
<1>17. CASE Restart
  BY <1>17 DEF Restart, NoJob
<1>18. CASE UNCHANGED vars
  BY <1>18 DEF vars
<1> QED
  BY <1>1, <1>2, <1>3, <1>4, <1>5, <1>6, <1>7, <1>8, <1>9, <1>10, <1>11, <1>12,
     <1>13, <1>14, <1>15, <1>16, <1>17, <1>18, <1>20, <1>21, <1>22
  DEF Next, HubStep, ReaderStep

Safe == /\ HeldIsConn
        /\ RegisteredIsLive
        /\ OneLiveSocketPerUser
        /\ OwnSendStaysOpen
        /\ InHand
        /\ Announced
        /\ OnIsTrue

\* Every action keeps the safety invariants.  The two that matter are the map
\* write, which closes the connection it displaces, and the removal, which
\* closes Send only for the connection it takes out of the map; both announce
\* the change in the same step, before Hub.Run does anything else.
LEMMA SafeStep == IInv /\ [Next]_vars => Safe'
<1> SUFFICES ASSUME IInv, [Next]_vars PROVE Safe'
  OBVIOUS
<1> USE DEF IInv, TypeOK, ReaderStates, Serving, HeldIsConn, RegisteredIsLive,
            OneLiveSocketPerUser, OwnSendStaysOpen, InHand, Announced, OnIsTrue,
            Registering, Removing
<1>1. ASSUME NEW c \in Conns, Dial(c) PROVE Safe'
  <2>1. HeldIsConn'
    BY <1>1 DEF Dial, Tasks
  <2>2. RegisteredIsLive'
    BY <1>1 DEF Dial, Tasks
  <2>3. OneLiveSocketPerUser'
    BY <1>1 DEF Dial, Tasks
  <2>4. OwnSendStaysOpen'
    BY <1>1 DEF Dial, Tasks
  <2>5. InHand'
    BY <1>1 DEF Dial, Tasks
  <2>6. Announced'
    BY <1>1 DEF Dial, Tasks
  <2>7. OnIsTrue'
    BY <1>1 DEF Dial, Tasks
  <2> QED
    BY <2>1, <2>2, <2>3, <2>4, <2>5, <2>6, <2>7 DEF Safe
<1>2. ASSUME NEW c \in Conns, Break(c) PROVE Safe'
  <2>1. HeldIsConn'
    BY <1>2 DEF Break
  <2>2. RegisteredIsLive'
    BY <1>2 DEF Break
  <2>3. OneLiveSocketPerUser'
    BY <1>2 DEF Break
  <2>4. OwnSendStaysOpen'
    BY <1>2 DEF Break
  <2>5. InHand'
    BY <1>2 DEF Break
  <2>6. Announced'
    BY <1>2 DEF Break
  <2>7. OnIsTrue'
    BY <1>2 DEF Break
  <2> QED
    BY <2>1, <2>2, <2>3, <2>4, <2>5, <2>6, <2>7 DEF Safe
<1>3. ASSUME NEW c \in Conns, HubRegister(c) PROVE Safe'
  <2>1. HeldIsConn'
    BY <1>3 DEF HubRegister, Idle, Announcing
  <2>2. RegisteredIsLive'
    BY <1>3 DEF HubRegister, Idle, Announcing
  <2>3. OneLiveSocketPerUser'
    BY <1>3 DEF HubRegister, Idle, Announcing
  <2>4. OwnSendStaysOpen'
    BY <1>3 DEF HubRegister, Idle, Announcing
  <2>5. InHand'
    <3>1. ASSUME NEW d \in Conns, Registering(d)' PROVE d = c
      BY <1>3, <3>1 DEF HubRegister
    <3>2. ASSUME NEW d \in Conns PROVE ~Removing(d)'
      BY <1>3 DEF HubRegister
    <3>3. ~Removing(c)
      BY <1>3 DEF HubRegister, Idle
    <3> HIDE DEF Registering, Removing
    <3>4. reader[c] = "registering" /\ reader'[c] = "reading" /\ clients' = clients
      BY <1>3 DEF HubRegister
    <3>5. UserOf[c] \in Users /\ c # NoConn
      OBVIOUS
    <3>6. clients[UserOf[c]] # c
      <4> SUFFICES ASSUME clients[UserOf[c]] = c PROVE FALSE
        OBVIOUS
      <4>1. reader[c] \in Serving \cup {"leaving"} \/ Removing(c)
        BY <3>5
      <4> QED
        BY <3>3, <3>4, <4>1
    <3> QED
      BY <3>1, <3>2, <3>4, <3>6
  <2>6. Announced'
    BY <1>3 DEF HubRegister, Idle, Announcing
  <2>7. OnIsTrue'
    BY <1>3 DEF HubRegister, Idle, Announcing
  <2> QED
    BY <2>1, <2>2, <2>3, <2>4, <2>5, <2>6, <2>7 DEF Safe
<1>4. ASSUME NEW c \in Conns, HubUnregister(c) PROVE Safe'
  <2>1. HeldIsConn'
    BY <1>4 DEF HubUnregister, Idle, Announcing
  <2>2. RegisteredIsLive'
    BY <1>4 DEF HubUnregister, Idle, Announcing
  <2>3. OneLiveSocketPerUser'
    BY <1>4 DEF HubUnregister, Idle, Announcing
  <2>4. OwnSendStaysOpen'
    BY <1>4 DEF HubUnregister, Idle, Announcing
  <2>5. InHand'
    <3>1. ASSUME NEW d \in Conns, Removing(d)' PROVE d = c
      BY <1>4, <3>1 DEF HubUnregister
    <3>2. ASSUME NEW d \in Conns PROVE ~Registering(d)'
      BY <1>4 DEF HubUnregister
    <3> HIDE DEF Registering, Removing
    <3>3. reader'[c] = "closing"
      BY <1>4 DEF HubUnregister
    <3> QED
      BY <3>1, <3>2, <3>3
  <2>6. Announced'
    BY <1>4 DEF HubUnregister, Idle, Announcing
  <2>7. OnIsTrue'
    BY <1>4 DEF HubUnregister, Idle, Announcing
  <2> QED
    BY <2>1, <2>2, <2>3, <2>4, <2>5, <2>6, <2>7 DEF Safe
<1>5. ASSUME NEW c \in Conns, HubEnter(c) PROVE Safe'
  <2>1. HeldIsConn'
    BY <1>5 DEF HubEnter, ClosedWith, Announce, ToldNothing, Announcing
  <2>2. RegisteredIsLive'
    <3>1. ASSUME NEW d \in Conns PROVE ~Removing(d)
      BY <1>5 DEF HubEnter
    <3>2. Registering(c)
      BY <1>5 DEF HubEnter
    <3> HIDE DEF Registering, Removing
    <3>3. reader[c] \in Serving \cup {"leaving"} /\ ~sendClosed[c]
      BY <3>2
    <3>4. /\ clients' = [clients EXCEPT ![UserOf[c]] = c]
          /\ reader' = reader /\ sendClosed' = sendClosed
      BY <1>5 DEF HubEnter
    <3> SUFFICES ASSUME NEW u \in Users, clients'[u] # NoConn
                 PROVE  /\ UserOf[clients'[u]] = u
                        /\ ~sendClosed[clients'[u]]
                        /\ reader[clients'[u]] \in Serving \cup {"leaving"}
      BY <3>4
    <3>5. CASE u = UserOf[c]
      BY <3>3, <3>4, <3>5
    <3>6. CASE u # UserOf[c]
      <4>1. clients'[u] = clients[u] /\ clients[u] \in Conns
        BY <3>4, <3>6
      <4> QED
        BY <3>1, <4>1
    <3> QED
      BY <3>5, <3>6
  <2>3. OneLiveSocketPerUser'
    BY <1>5 DEF HubEnter, ClosedWith, Announce, ToldNothing, Announcing
  <2>4. OwnSendStaysOpen'
    BY <1>5 DEF HubEnter, ClosedWith, Announce, ToldNothing, Announcing
  <2>5. InHand'
    BY <1>5 DEF HubEnter, ClosedWith, Announce, ToldNothing, Announcing
  <2>6. Announced'
    BY <1>5 DEF HubEnter, ClosedWith, Announce, ToldNothing, Announcing
  <2>7. OnIsTrue'
    BY <1>5 DEF HubEnter, ClosedWith, Announce, ToldNothing, Announcing
  <2> QED
    BY <2>1, <2>2, <2>3, <2>4, <2>5, <2>6, <2>7 DEF Safe
<1>6. ASSUME NEW c \in Conns, HubRemove(c) PROVE Safe'
  <2>1. HeldIsConn'
    BY <1>6 DEF HubRemove, Removal, Announce, ToldNothing, Announcing
  <2>2. RegisteredIsLive'
    <3> SUFFICES ASSUME NEW u \in Users, clients'[u] # NoConn
                 PROVE  /\ UserOf[clients'[u]] = u
                        /\ ~sendClosed'[clients'[u]]
                        /\ reader'[clients'[u]] \in Serving \cup {"leaving"}
      OBVIOUS
    <3>1. ASSUME NEW d \in Conns, d # c PROVE ~Removing(d)
      BY <1>6, <3>1 DEF HubRemove
    <3> HIDE DEF Registering, Removing
    <3>2. clients'[u] = clients[u] /\ clients[u] # c /\ clients[u] \in Conns
      <4>1. CASE clients[UserOf[c]] = c
        <5>1. clients' = [clients EXCEPT ![UserOf[c]] = NoConn]
          BY <1>6, <4>1 DEF HubRemove, Removal
        <5>2. u # UserOf[c] /\ clients'[u] = clients[u]
          BY <5>1
        <5> QED
          BY <5>2
      <4>2. CASE clients[UserOf[c]] # c
        <5>1. clients' = clients
          BY <1>6, <4>2 DEF HubRemove, Removal
        <5> QED
          BY <4>2, <5>1
      <4> QED
        BY <4>1, <4>2
    <3>3. sendClosed'[clients[u]] = sendClosed[clients[u]] /\ reader' = reader
      BY <1>6, <3>2 DEF HubRemove, Removal
    <3> QED
      BY <3>1, <3>2, <3>3
  <2>3. OneLiveSocketPerUser'
    <3> SUFFICES ASSUME NEW d \in Conns, reader'[d] \in Serving, sock'[d] = "open"
                 PROVE  clients'[UserOf[d]] = d
      OBVIOUS
    <3>1. reader' = reader /\ sock' = sock /\ ~Registering(d) /\ Removing(c)
      BY <1>6 DEF HubRemove
    <3> HIDE DEF Registering, Removing
    <3>2. d # c /\ clients[UserOf[d]] = d
      BY <3>1
    <3>3. \/ clients' = clients
          \/ /\ clients' = [clients EXCEPT ![UserOf[c]] = NoConn]
             /\ clients[UserOf[c]] = c
      BY <1>6 DEF HubRemove, Removal
    <3> QED
      BY <3>2, <3>3
  <2>4. OwnSendStaysOpen'
    <3>1. reader' = reader /\ Removing(c)
      BY <1>6 DEF HubRemove
    <3> HIDE DEF Registering, Removing
    <3>2. sendClosed' = sendClosed \/ sendClosed' = [sendClosed EXCEPT ![c] = TRUE]
      BY <1>6 DEF HubRemove, Removal
    <3>3. reader[c] \in {"closing", "gone"}
      BY <3>1
    <3> SUFFICES ASSUME NEW d \in Conns, sendClosed'[d]
                 PROVE  reader[d] \in {"closing", "gone"}
      BY <3>1
    <3>4. d = c \/ sendClosed[d]
      BY <3>2
    <3> QED
      BY <3>3, <3>4
  <2>5. InHand'
    BY <1>6 DEF HubRemove, Removal, Announce, ToldNothing, Announcing
  <2>6. Announced'
    BY <1>6 DEF HubRemove, Removal, Announce, ToldNothing, Announcing
  <2>7. OnIsTrue'
    <3> SUFFICES ASSUME NEW v \in Users, NEW u \in Users, presence'[v][u] = "on"
                 PROVE  /\ v \in Watchers[u] /\ clients'[v] # NoConn
                        /\ \/ clients'[u] # NoConn
                           \/ /\ hub' \in Announcing /\ hub'.user = u
                              /\ ~hub'.online /\ v \in hub'.todo
      OBVIOUS
    <3>1. hub \notin Announcing
      BY <1>6 DEF HubRemove, Announcing
    <3>2. hub' = [phase |-> "announcing", user |-> UserOf[c], online |-> FALSE,
                  todo |-> Watchers[UserOf[c]]]
      BY <1>6 DEF HubRemove, Announce
    <3>3. hub' \in Announcing /\ hub'.user = UserOf[c] /\ ~hub'.online
          /\ hub'.todo = Watchers[UserOf[c]]
      BY <3>2 DEF Announcing
    <3> HIDE DEF Registering, Removing
    <3>4. presence[v][u] = "on"
      <4>1. presence' = presence \/ presence' = ToldNothing(UserOf[c])
        BY <1>6 DEF HubRemove, Removal
      <4>2. CASE presence' = ToldNothing(UserOf[c])
        <5>1. presence' = [presence EXCEPT ![UserOf[c]] = [w \in Users |-> "off"]]
          BY <4>2 DEF ToldNothing
        <5>2. v # UserOf[c]
          BY <5>1
        <5> QED
          BY <5>1, <5>2
      <4> QED
        BY <4>1, <4>2
    <3>5. v \in Watchers[u] /\ clients[u] # NoConn /\ clients[v] # NoConn
      BY <3>1, <3>4
    <3>8. clients'[v] # NoConn
      <4>1. CASE clients[UserOf[c]] = c
        <5>1. presence' = ToldNothing(UserOf[c])
              /\ clients' = [clients EXCEPT ![UserOf[c]] = NoConn]
          BY <1>6, <4>1 DEF HubRemove, Removal
        <5>2. v # UserOf[c]
          BY <5>1 DEF ToldNothing
        <5> QED
          BY <3>5, <5>1, <5>2
      <4>2. CASE clients[UserOf[c]] # c
        BY <1>6, <3>5, <4>2 DEF HubRemove, Removal
      <4> QED
        BY <4>1, <4>2
    <3>6. CASE u = UserOf[c]
      BY <3>3, <3>5, <3>6, <3>8
    <3>7. CASE u # UserOf[c]
      <4>1. clients'[u] = clients[u]
        BY <1>6, <3>7 DEF HubRemove, Removal
      <4> QED
        BY <3>5, <3>8, <4>1
    <3> QED
      BY <3>6, <3>7
  <2> QED
    BY <2>1, <2>2, <2>3, <2>4, <2>5, <2>6, <2>7 DEF Safe
<1>7. ASSUME NEW v \in Users, HubAnnounce(v) PROVE Safe'
  <2>1. HeldIsConn'
    BY <1>7 DEF HubAnnounce, Heard, Announcing
  <2>2. RegisteredIsLive'
    BY <1>7 DEF HubAnnounce, Heard, Announcing
  <2>3. OneLiveSocketPerUser'
    BY <1>7 DEF HubAnnounce, Heard, Announcing
  <2>4. OwnSendStaysOpen'
    BY <1>7 DEF HubAnnounce, Heard, Announcing
  <2>5. InHand'
    <3>2. hub \in Announcing /\ hub' = [hub EXCEPT !.todo = @ \ {v}]
      BY <1>7 DEF HubAnnounce
    <3>3. hub'.phase = "announcing"
      BY <3>2 DEF Announcing
    <3>1. ASSUME NEW d \in Conns PROVE ~Registering(d)' /\ ~Removing(d)'
      <4>1. /\ [phase |-> "registering", conn |-> d].phase = "registering"
            /\ [phase |-> "removing", conn |-> d].phase = "removing"
        OBVIOUS
      <4> QED
        BY <3>3, <4>1
    <3> HIDE DEF Registering, Removing
    <3> QED
      BY <3>1
  <2>6. Announced'
    BY <1>7 DEF HubAnnounce, Heard, Announcing
  <2>7. OnIsTrue'
    <3> HIDE DEF Registering, Removing
    <3>1. /\ hub \in Announcing /\ hub' \in Announcing /\ v \in hub.todo
          /\ hub'.user = hub.user /\ hub'.online = hub.online
          /\ hub'.todo = hub.todo \ {v} /\ clients' = clients
      BY <1>7 DEF HubAnnounce, Announcing
    <3>2. hub.user \in Users /\ hub.online \in BOOLEAN
      BY <3>1 DEF Announcing
    <3>3. \/ clients[v] = NoConn /\ presence' = presence
          \/ clients[v] # NoConn /\ presence' = Heard(v, queued[clients[v]] < Cap)
      <4>1. clients[v] # NoConn => ~sendClosed[clients[v]]
        OBVIOUS
      <4> QED
        BY <1>7, <4>1 DEF HubAnnounce
    <3>4. ASSUME NEW w \in Users, NEW u \in Users, presence'[w][u] = "on",
                 w # v \/ u # hub.user
          PROVE  presence'[w][u] = presence[w][u]
      BY <3>2, <3>3, <3>4 DEF Heard
    <3>5. presence'[v][hub.user] = "on" =>
            v \in Watchers[hub.user] /\ clients[hub.user] # NoConn
            /\ clients[v] # NoConn
      <4>1. CASE hub.online
        <5>1. clients[hub.user] # NoConn /\ v \in Watchers[hub.user]
          BY <3>1, <4>1
        <5>2. presence'[v][hub.user] = "on" => clients[v] # NoConn
          BY <3>2, <3>3
        <5> QED
          BY <5>1, <5>2
      <4>2. CASE ~hub.online
        <5>1. CASE presence' = Heard(v, queued[clients[v]] < Cap)
          <6>1. presence'[v][hub.user] # "on"
            BY <3>2, <4>2, <5>1 DEF Heard
          <6> QED
            BY <6>1
        <5>2. CASE clients[v] = NoConn /\ presence' = presence
          BY <3>2, <5>2
        <5> QED
          BY <3>3, <5>1, <5>2
      <4> QED
        BY <4>1, <4>2
    <3> QED
      BY <3>1, <3>4, <3>5
  <2> QED
    BY <2>1, <2>2, <2>3, <2>4, <2>5, <2>6, <2>7 DEF Safe
<1>8. CASE HubDone
  <2>1. HeldIsConn'
    BY <1>8 DEF HubDone, Idle, Announcing
  <2>2. RegisteredIsLive'
    BY <1>8 DEF HubDone, Idle, Announcing
  <2>3. OneLiveSocketPerUser'
    BY <1>8 DEF HubDone, Idle, Announcing
  <2>4. OwnSendStaysOpen'
    BY <1>8 DEF HubDone, Idle, Announcing
  <2>5. InHand'
    BY <1>8 DEF HubDone, Idle, Announcing
  <2>6. Announced'
    BY <1>8 DEF HubDone, Idle, Announcing
  <2>7. OnIsTrue'
    BY <1>8 DEF HubDone, Idle, Announcing
  <2> QED
    BY <2>1, <2>2, <2>3, <2>4, <2>5, <2>6, <2>7 DEF Safe
<1>9. ASSUME NEW c \in Conns, ReadFrame(c) PROVE Safe'
  <2>1. HeldIsConn'
    BY <1>9 DEF ReadFrame
  <2>2. RegisteredIsLive'
    BY <1>9 DEF ReadFrame
  <2>3. OneLiveSocketPerUser'
    BY <1>9 DEF ReadFrame
  <2>4. OwnSendStaysOpen'
    BY <1>9 DEF ReadFrame
  <2>5. InHand'
    BY <1>9 DEF ReadFrame
  <2>6. Announced'
    BY <1>9 DEF ReadFrame
  <2>7. OnIsTrue'
    BY <1>9 DEF ReadFrame
  <2> QED
    BY <2>1, <2>2, <2>3, <2>4, <2>5, <2>6, <2>7 DEF Safe
<1>10. ASSUME NEW c \in Conns, ReadError(c) PROVE Safe'
  <2>1. HeldIsConn'
    BY <1>10 DEF ReadError
  <2>2. RegisteredIsLive'
    BY <1>10 DEF ReadError
  <2>3. OneLiveSocketPerUser'
    BY <1>10 DEF ReadError
  <2>4. OwnSendStaysOpen'
    BY <1>10 DEF ReadError
  <2>5. InHand'
    BY <1>10 DEF ReadError
  <2>6. Announced'
    BY <1>10 DEF ReadError
  <2>7. OnIsTrue'
    BY <1>10 DEF ReadError
  <2> QED
    BY <2>1, <2>2, <2>3, <2>4, <2>5, <2>6, <2>7 DEF Safe
<1>11. ASSUME NEW c \in Conns, ReaderLookup(c) PROVE Safe'
  <2>1. HeldIsConn'
    <3>1. PICK u \in job[c].to :
            /\ target' = [target EXCEPT ![c] = clients[u]]
            /\ reader' = [reader EXCEPT
                            ![c] = IF clients[u] = NoConn THEN @ ELSE "found"]
      BY <1>11 DEF ReaderLookup
    <3>2. u \in Users /\ c \notin Tasks /\ reader[c] = "handling"
      BY <1>11 DEF ReaderLookup, Jobs, Tasks
    <3> HIDE DEF Registering, Removing
    <3>3. clients[u] \in Conns \cup {NoConn}
      BY <3>2
    <3> QED
      BY <3>1, <3>2, <3>3 DEF Tasks
  <2>2. RegisteredIsLive'
    BY <1>11 DEF ReaderLookup, Tasks
  <2>3. OneLiveSocketPerUser'
    BY <1>11 DEF ReaderLookup, Tasks
  <2>4. OwnSendStaysOpen'
    BY <1>11 DEF ReaderLookup, Tasks
  <2>5. InHand'
    BY <1>11 DEF ReaderLookup, Tasks
  <2>6. Announced'
    BY <1>11 DEF ReaderLookup, Tasks
  <2>7. OnIsTrue'
    BY <1>11 DEF ReaderLookup, Tasks
  <2> QED
    BY <2>1, <2>2, <2>3, <2>4, <2>5, <2>6, <2>7 DEF Safe
<1>12. ASSUME NEW c \in Conns, ReaderSend(c) PROVE Safe'
  <2>1. HeldIsConn'
    BY <1>12 DEF ReaderSend, Tasks
  <2>2. RegisteredIsLive'
    BY <1>12 DEF ReaderSend, Tasks
  <2>3. OneLiveSocketPerUser'
    BY <1>12 DEF ReaderSend, Tasks
  <2>4. OwnSendStaysOpen'
    <3>1. reader[c] = "found" /\ sendClosed' = sendClosed
      BY <1>12 DEF ReaderSend
    <3>2. \A d \in Conns : d # c => reader'[d] = reader[d]
      BY <1>12 DEF ReaderSend
    <3> HIDE DEF Registering, Removing
    <3>3. ~sendClosed[c]
      BY <3>1
    <3> QED
      BY <3>1, <3>2, <3>3
  <2>5. InHand'
    <3>1. reader[c] = "found" /\ reader'[c] \in {"leaving", "handling"}
          /\ hub' = hub /\ clients' = clients
      BY <1>12 DEF ReaderSend
    <3>2. \A d \in Conns : d # c => reader'[d] = reader[d]
      BY <1>12 DEF ReaderSend
    <3> QED
      BY <3>1, <3>2
  <2>6. Announced'
    BY <1>12 DEF ReaderSend, Tasks
  <2>7. OnIsTrue'
    BY <1>12 DEF ReaderSend, Tasks
  <2> QED
    BY <2>1, <2>2, <2>3, <2>4, <2>5, <2>6, <2>7 DEF Safe
<1>13. ASSUME NEW c \in Conns, ReplyBegin(c) PROVE Safe'
  <2>1. HeldIsConn'
    BY <1>13 DEF ReplyBegin
  <2>2. RegisteredIsLive'
    BY <1>13 DEF ReplyBegin
  <2>3. OneLiveSocketPerUser'
    BY <1>13 DEF ReplyBegin
  <2>4. OwnSendStaysOpen'
    BY <1>13 DEF ReplyBegin
  <2>5. InHand'
    BY <1>13 DEF ReplyBegin
  <2>6. Announced'
    BY <1>13 DEF ReplyBegin
  <2>7. OnIsTrue'
    BY <1>13 DEF ReplyBegin
  <2> QED
    BY <2>1, <2>2, <2>3, <2>4, <2>5, <2>6, <2>7 DEF Safe
<1>14. ASSUME NEW c \in Conns, Reply(c) PROVE Safe'
  <2>1. HeldIsConn'
    BY <1>14 DEF Reply
  <2>2. RegisteredIsLive'
    <3>1. reader[c] = "replying" /\ reader'[c] \in {"leaving", "handling"}
          /\ hub' = hub /\ clients' = clients /\ sendClosed' = sendClosed
      BY <1>14 DEF Reply
    <3>2. \A d \in Conns : d # c => reader'[d] = reader[d]
      BY <1>14 DEF Reply
    <3>3. ASSUME NEW u \in Users, clients[u] # NoConn
          PROVE  \/ reader'[clients[u]] \in Serving \cup {"leaving"}
                 \/ Removing(clients[u])'
      <4>1. CASE clients[u] = c
        BY <3>1, <4>1
      <4>2. CASE clients[u] # c
        <5>1. reader'[clients[u]] = reader[clients[u]]
          BY <3>2, <3>3, <4>2
        <5> QED
          BY <3>1, <3>3, <5>1
      <4> QED
        BY <4>1, <4>2
    <3> QED
      BY <3>1, <3>3
  <2>3. OneLiveSocketPerUser'
    BY <1>14 DEF Reply
  <2>4. OwnSendStaysOpen'
    <3>1. ~sendClosed[c]
      BY <1>14 DEF Reply
    <3>2. sendClosed' = sendClosed /\ reader' = [reader EXCEPT ![c] = "handling"]
      BY <1>14, <3>1 DEF Reply
    <3> QED
      BY <3>1, <3>2
  <2>5. InHand'
    <3>1. reader[c] = "replying" /\ reader'[c] \in {"leaving", "handling"}
          /\ hub' = hub /\ clients' = clients
      BY <1>14 DEF Reply
    <3>2. \A d \in Conns : d # c => reader'[d] = reader[d]
      BY <1>14 DEF Reply
    <3> QED
      BY <3>1, <3>2
  <2>6. Announced'
    BY <1>14 DEF Reply
  <2>7. OnIsTrue'
    BY <1>14 DEF Reply
  <2> QED
    BY <2>1, <2>2, <2>3, <2>4, <2>5, <2>6, <2>7 DEF Safe
<1>15. ASSUME NEW c \in Conns, HandlerEnds(c) PROVE Safe'
  <2>1. HeldIsConn'
    BY <1>15 DEF HandlerEnds
  <2>2. RegisteredIsLive'
    BY <1>15 DEF HandlerEnds
  <2>3. OneLiveSocketPerUser'
    BY <1>15 DEF HandlerEnds
  <2>4. OwnSendStaysOpen'
    BY <1>15 DEF HandlerEnds
  <2>5. InHand'
    BY <1>15 DEF HandlerEnds
  <2>6. Announced'
    BY <1>15 DEF HandlerEnds
  <2>7. OnIsTrue'
    BY <1>15 DEF HandlerEnds
  <2> QED
    BY <2>1, <2>2, <2>3, <2>4, <2>5, <2>6, <2>7 DEF Safe
<1>16. ASSUME NEW c \in Conns, ReaderClose(c) PROVE Safe'
  <2>1. HeldIsConn'
    BY <1>16 DEF ReaderClose
  <2>2. RegisteredIsLive'
    BY <1>16 DEF ReaderClose
  <2>3. OneLiveSocketPerUser'
    BY <1>16 DEF ReaderClose
  <2>4. OwnSendStaysOpen'
    BY <1>16 DEF ReaderClose
  <2>5. InHand'
    BY <1>16 DEF ReaderClose
  <2>6. Announced'
    BY <1>16 DEF ReaderClose
  <2>7. OnIsTrue'
    BY <1>16 DEF ReaderClose
  <2> QED
    BY <2>1, <2>2, <2>3, <2>4, <2>5, <2>6, <2>7 DEF Safe
<1>17. ASSUME NEW c \in Conns, WriterStep(c) PROVE Safe'
  <2>1. HeldIsConn'
    BY <1>17 DEF WriterStep, Write, WriteError, WriterSeesClose
  <2>2. RegisteredIsLive'
    BY <1>17 DEF WriterStep, Write, WriteError, WriterSeesClose
  <2>3. OneLiveSocketPerUser'
    BY <1>17 DEF WriterStep, Write, WriteError, WriterSeesClose
  <2>4. OwnSendStaysOpen'
    BY <1>17 DEF WriterStep, Write, WriteError, WriterSeesClose
  <2>5. InHand'
    BY <1>17 DEF WriterStep, Write, WriteError, WriterSeesClose
  <2>6. Announced'
    BY <1>17 DEF WriterStep, Write, WriteError, WriterSeesClose
  <2>7. OnIsTrue'
    BY <1>17 DEF WriterStep, Write, WriteError, WriterSeesClose
  <2> QED
    BY <2>1, <2>2, <2>3, <2>4, <2>5, <2>6, <2>7 DEF Safe
<1>18. ASSUME NEW t \in Tasks, TaskLookup(t) PROVE Safe'
  <2>1. HeldIsConn'
    BY <1>18 DEF TaskLookup, Tasks
  <2>2. RegisteredIsLive'
    BY <1>18 DEF TaskLookup, Tasks
  <2>3. OneLiveSocketPerUser'
    BY <1>18 DEF TaskLookup, Tasks
  <2>4. OwnSendStaysOpen'
    BY <1>18 DEF TaskLookup, Tasks
  <2>5. InHand'
    BY <1>18 DEF TaskLookup, Tasks
  <2>6. Announced'
    BY <1>18 DEF TaskLookup, Tasks
  <2>7. OnIsTrue'
    BY <1>18 DEF TaskLookup, Tasks
  <2> QED
    BY <2>1, <2>2, <2>3, <2>4, <2>5, <2>6, <2>7 DEF Safe
<1>19. ASSUME NEW t \in Tasks, TaskSend(t) PROVE Safe'
  <2>1. HeldIsConn'
    BY <1>19 DEF TaskSend, Tasks
  <2>2. RegisteredIsLive'
    BY <1>19 DEF TaskSend, Tasks
  <2>3. OneLiveSocketPerUser'
    BY <1>19 DEF TaskSend, Tasks
  <2>4. OwnSendStaysOpen'
    BY <1>19 DEF TaskSend, Tasks
  <2>5. InHand'
    BY <1>19 DEF TaskSend, Tasks
  <2>6. Announced'
    BY <1>19 DEF TaskSend, Tasks
  <2>7. OnIsTrue'
    BY <1>19 DEF TaskSend, Tasks
  <2> QED
    BY <2>1, <2>2, <2>3, <2>4, <2>5, <2>6, <2>7 DEF Safe
<1>20. CASE Restart
  <2>1. HeldIsConn'
    BY <1>20 DEF Restart, Tasks, Idle, Announcing
  <2>2. RegisteredIsLive'
    BY <1>20 DEF Restart, Tasks, Idle, Announcing
  <2>3. OneLiveSocketPerUser'
    BY <1>20 DEF Restart, Tasks, Idle, Announcing
  <2>4. OwnSendStaysOpen'
    BY <1>20 DEF Restart, Tasks, Idle, Announcing
  <2>5. InHand'
    BY <1>20 DEF Restart, Tasks, Idle, Announcing
  <2>6. Announced'
    BY <1>20 DEF Restart, Tasks, Idle, Announcing
  <2>7. OnIsTrue'
    BY <1>20 DEF Restart, Tasks, Idle, Announcing
  <2> QED
    BY <2>1, <2>2, <2>3, <2>4, <2>5, <2>6, <2>7 DEF Safe
<1>21. CASE UNCHANGED vars
  <2>1. HeldIsConn'
    BY <1>21 DEF vars
  <2>2. RegisteredIsLive'
    BY <1>21 DEF vars
  <2>3. OneLiveSocketPerUser'
    BY <1>21 DEF vars
  <2>4. OwnSendStaysOpen'
    BY <1>21 DEF vars
  <2>5. InHand'
    BY <1>21 DEF vars
  <2>6. Announced'
    BY <1>21 DEF vars
  <2>7. OnIsTrue'
    BY <1>21 DEF vars
  <2> QED
    BY <2>1, <2>2, <2>3, <2>4, <2>5, <2>6, <2>7 DEF Safe
<1> QED
  BY <1>1, <1>2, <1>3, <1>4, <1>5, <1>6, <1>7, <1>8, <1>9, <1>10, <1>11, <1>12, <1>13, <1>14, <1>15, <1>16, <1>17, <1>18, <1>19, <1>20, <1>21
  DEF Next, HubStep, ReaderStep

\* The strengthened invariant is inductive.
THEOREM Inductive == Spec => []IInv
<1>1. IInv /\ [Next]_vars => IInv'
  BY TypeStep, SafeStep DEF IInv, Safe
<1> QED
  BY InitInv, <1>1, PTL DEF Spec

\* Every variable keeps its type; in particular no buffer ever holds more
\* frames than Client.Send was made for.
THEOREM Typing == Spec => []TypeOK
<1>1. IInv => TypeOK
  BY DEF IInv
<1> QED
  BY Inductive, <1>1, PTL

\* The hub's entries are live, of the right user, and with an open channel.
THEOREM RegisteredLive == Spec => []RegisteredIsLive
<1>1. IInv => RegisteredIsLive
  BY DEF IInv
<1> QED
  BY Inductive, <1>1, PTL

\* Whatever the number of logins, one open socket per user is being served,
\* save for the one Hub.Run is about to put in its place.
THEOREM OneSocket == Spec => []OneLiveSocketPerUser
<1>1. IInv => OneLiveSocketPerUser
  BY DEF IInv
<1> QED
  BY Inductive, <1>1, PTL

\* A handler never sends on its own closed channel.
THEOREM OwnSend == Spec => []OwnSendStaysOpen
<1>1. IInv => OwnSendStaysOpen
  BY DEF IInv
<1> QED
  BY Inductive, <1>1, PTL

\* A contact that was told a user is online, and was not refused a later frame
\* for want of room, is right whenever Hub.Run is back at its select.
THEOREM NoGhost == Spec => []NoGhostOnline
<1>1. IInv => NoGhostOnline
  BY DEF IInv, OnIsTrue, NoGhostOnline, Announcing, Idle
<1> QED
  BY Inductive, <1>1, PTL

----------------------------------------------------------------------------
(* A registered user is announced offline only by a replaced connection.    *)

Displaced(u) == \E c \in Conns : /\ c # clients[u] /\ UserOf[c] = u
                                 /\ reader[c] \in {"closing", "gone"}

\* A step that changes no entry and no announcement, and brings no reader back
\* that has left, keeps the property.
LEMMA DisplacedStays ==
  ASSUME OfflineOnlyWhenReplaced, clients' = clients, announced' = announced,
         \A c \in Conns : reader[c] \in {"closing", "gone"}
                           => reader'[c] \in {"closing", "gone"}
  PROVE  OfflineOnlyWhenReplaced'
  BY DEF OfflineOnlyWhenReplaced

\* Only the three actions that write the map or the announcements matter.
LEMMA ReplacedStep ==
  ASSUME IInv, OfflineOnlyWhenReplaced, [Next]_vars
  PROVE  OfflineOnlyWhenReplaced'
<1> USE DEF IInv, TypeOK, ReaderStates
<1>1. ASSUME NEW c \in Conns, HubEnter(c) PROVE OfflineOnlyWhenReplaced'
  <2> SUFFICES ASSUME NEW u \in Users, clients'[u] # NoConn, ~announced'[u]
               PROVE  Displaced(u)'
    BY DEF OfflineOnlyWhenReplaced, Displaced
  <2>1. u # UserOf[c] /\ clients'[u] = clients[u] /\ ~announced[u]
    BY <1>1 DEF HubEnter, Announce
  <2>2. PICK d \in Conns : /\ d # clients[u] /\ UserOf[d] = u
                           /\ reader[d] \in {"closing", "gone"}
    BY <2>1 DEF OfflineOnlyWhenReplaced
  <2>3. reader'[d] = reader[d]
    BY <1>1, <2>2 DEF HubEnter
  <2> QED
    BY <2>1, <2>2, <2>3 DEF Displaced
<1>2. ASSUME NEW c \in Conns, HubRemove(c) PROVE OfflineOnlyWhenReplaced'
  <2> SUFFICES ASSUME NEW u \in Users, clients'[u] # NoConn, ~announced'[u]
               PROVE  Displaced(u)'
    BY DEF OfflineOnlyWhenReplaced, Displaced
  <2>1. reader' = reader /\ reader[c] \in {"closing", "gone"}
    BY <1>2 DEF HubRemove, InHand
  <2>2. clients'[u] = clients[u] /\ clients[u] # c
    <3>1. CASE clients[UserOf[c]] = c
      <4>1. clients' = [clients EXCEPT ![UserOf[c]] = NoConn]
        BY <1>2, <3>1 DEF HubRemove, Removal
      <4>2. u # UserOf[c]
        BY <4>1
      <4>3. clients'[u] = clients[u]
        BY <4>1, <4>2
      <4> QED
        BY <4>2, <4>3 DEF RegisteredIsLive
    <3>2. CASE clients[UserOf[c]] # c
      <4>1. clients' = clients
        BY <1>2, <3>2 DEF HubRemove, Removal
      <4> QED
        BY <3>2, <4>1 DEF RegisteredIsLive
    <3> QED
      BY <3>1, <3>2
  <2>3. CASE u = UserOf[c]
    BY <2>1, <2>2, <2>3 DEF Displaced
  <2>4. CASE u # UserOf[c]
    <3>1. ~announced[u]
      BY <1>2, <2>4 DEF HubRemove, Announce
    <3> QED
      BY <2>1, <2>2, <2>4, <3>1 DEF OfflineOnlyWhenReplaced, Displaced
  <2> QED
    BY <2>3, <2>4
<1>3. CASE Restart
  BY <1>3 DEF Restart, OfflineOnlyWhenReplaced
<1>4. ASSUME NEW c \in Conns, \/ Dial(c) \/ Break(c) \/ ReadFrame(c) \/ WriterStep(c)
                              \/ HubRegister(c) \/ HubUnregister(c)
      PROVE  OfflineOnlyWhenReplaced'
  BY <1>4, DisplacedStays
  DEF HubRegister, HubUnregister, Dial, Break, ReadFrame, WriterStep, Write, WriteError, WriterSeesClose
<1>5. ASSUME NEW c \in Conns, ReaderStep(c) PROVE OfflineOnlyWhenReplaced'
  BY <1>5, DisplacedStays
  DEF ReaderStep, ReadError, ReaderLookup, ReaderSend, ReplyBegin, Reply,
      HandlerEnds, ReaderClose
<1>6. ASSUME NEW v \in Users, HubAnnounce(v) PROVE OfflineOnlyWhenReplaced'
  BY <1>6, DisplacedStays DEF HubAnnounce
<1>7. ASSUME NEW t \in Tasks, TaskLookup(t) \/ TaskSend(t)
      PROVE  OfflineOnlyWhenReplaced'
  BY <1>7, DisplacedStays DEF TaskLookup, TaskSend
<1>8. CASE HubDone \/ UNCHANGED vars
  BY <1>8, DisplacedStays DEF HubDone, vars
<1> QED
  BY <1>1, <1>2, <1>3, <1>4, <1>5, <1>6, <1>7, <1>8 DEF Next, HubStep

\* Contacts are shown a connected user as offline in one case only: an older
\* connection of his unregistered after the newer one had registered.
THEOREM OfflineReplaced == Spec => []OfflineOnlyWhenReplaced
<1>1. Init => OfflineOnlyWhenReplaced
  BY DEF Init, OfflineOnlyWhenReplaced
<1> QED
  BY <1>1, Inductive, ReplacedStep, PTL DEF Spec

----------------------------------------------------------------------------
(* What the panic of SendToUser can and cannot do.                          *)

\* Goroutine g holds a connection that was unregistered after it looked it up.
HoldsStale(g) == /\ target[g] \in Conns /\ sendClosed[target[g]]
                 /\ reader[target[g]] \in {"closing", "gone"}

\* A step that panics lets go of a stale connection; a step that ends the process is
\* such a step of a goroutine without recover.
PanicStep ==
  /\ ~sendPanic /\ sendPanic' =>
       \E g \in Conns \cup Tasks : HoldsStale(g) /\ target'[g] = NoConn
  /\ up /\ ~up' => \E g \in Background : HoldsStale(g) /\ target'[g] = NoConn

\* Hub.Run sends on registered connections only, whose channel is open, and a reader
\* replies on its own, which is open too: what is left is the second half of
\* SendToUser.
LEMMA PanicIsStale == IInv /\ [Next]_vars => PanicStep
<1> SUFFICES ASSUME IInv, [Next]_vars PROVE PanicStep
  OBVIOUS
<1> USE DEF IInv, TypeOK
<1>1. ASSUME NEW v \in Users, HubAnnounce(v) PROVE PanicStep
  <2>1. clients[v] # NoConn => ~sendClosed[clients[v]]
    BY DEF RegisteredIsLive
  <2>2. UNCHANGED <<up, sendPanic>>
    BY <1>1, <2>1 DEF HubAnnounce
  <2> QED
    BY <2>2 DEF PanicStep
<1>2. ASSUME NEW c \in Conns, Reply(c) PROVE PanicStep
  <2>1. ~sendClosed[c]
    BY <1>2 DEF Reply, OwnSendStaysOpen
  <2>2. UNCHANGED <<up, sendPanic>>
    BY <1>2, <2>1 DEF Reply
  <2> QED
    BY <2>2 DEF PanicStep
<1>3. ASSUME NEW c \in Conns, ReaderSend(c) PROVE PanicStep
  <2>1. target[c] \in Conns /\ target'[c] = NoConn /\ up' = up
    BY <1>3 DEF ReaderSend, HeldIsConn
  <2>2. CASE sendClosed[target[c]]
    BY <2>1, <2>2 DEF PanicStep, HoldsStale, OwnSendStaysOpen
  <2>3. CASE ~sendClosed[target[c]]
    BY <1>3, <2>1, <2>3 DEF PanicStep, ReaderSend
  <2> QED
    BY <2>2, <2>3
<1>4. ASSUME NEW t \in Tasks, TaskSend(t) PROVE PanicStep
  <2>1. target[t] \in Conns /\ target'[t] = NoConn
    BY <1>4 DEF TaskSend, HeldIsConn
  <2>2. CASE sendClosed[target[t]]
    <3>1. HoldsStale(t) /\ up' = (t \in Requests)
      BY <1>4, <2>1, <2>2 DEF HoldsStale, OwnSendStaysOpen, TaskSend
    <3>2. ~up' => t \in Background
      BY <3>1 DEF Tasks
    <3> QED
      BY <2>1, <3>1, <3>2 DEF PanicStep
  <2>3. CASE ~sendClosed[target[t]]
    BY <1>4, <2>3 DEF PanicStep, TaskSend
  <2> QED
    BY <2>2, <2>3
<1>5. ASSUME NEW c \in Conns,
             \/ Dial(c) \/ Break(c) \/ ReadFrame(c) \/ WriterStep(c) \/ ReadError(c)
             \/ ReaderLookup(c) \/ HandlerEnds(c) \/ ReaderClose(c)
             \/ ReplyBegin(c) \/ HubRegister(c) \/ HubEnter(c)
             \/ HubUnregister(c) \/ HubRemove(c)
      PROVE  PanicStep
  <2>1. UNCHANGED <<up, sendPanic>>
    BY <1>5 DEF Dial, Break, ReadFrame, WriterStep, Write, WriteError, WriterSeesClose,
                ReadError, ReaderLookup, ReplyBegin, HandlerEnds, ReaderClose,
                HubRegister, HubEnter, HubUnregister, HubRemove
  <2> QED
    BY <2>1 DEF PanicStep
<1>6. ASSUME NEW t \in Tasks, TaskLookup(t) PROVE PanicStep
  BY <1>6 DEF TaskLookup, PanicStep
<1>7. CASE HubDone \/ Restart \/ UNCHANGED vars
  BY <1>7 DEF HubDone, Restart, vars, PanicStep
<1> QED
  BY <1>1, <1>2, <1>3, <1>4, <1>5, <1>6, <1>7 DEF Next, HubStep, ReaderStep

\* SendToUser may panic (SendToUserReturns fails), but only when it still holds a
\* connection that Hub.Run has unregistered since the lookup; the presence frames of
\* Hub.Run and the replies of a handler never do; and the process ends only by such a
\* panic of a goroutine without recover, the scheduler or the bot.
THEOREM OnlyStalePanics == Spec => [][PanicStep]_vars
  BY Inductive, PanicIsStale, PTL DEF Spec

----------------------------------------------------------------------------
(* The hub implements the session registry.                                 *)

\* A connection Hub.Run has not entered in the map yet.
Waiting(c) == reader[c] \in {"none", "registering"} \/ Registering(c)

LEMMA EndedIs == Ended = {c \in Conns : ~Waiting(c) /\ clients[UserOf[c]] # c}
  BY DEF Ended, Waiting

\* The hub starts with no session and no ended connection.
LEMMA RegistryInit == Init => Sessions!Init
  BY DEF Init, Sessions!Init, Ended

\* A step that leaves the entries alone ends no connection, as long as no
\* connection starts or stops waiting for its entry.
LEMMA QuietStep ==
  ASSUME clients' = clients, \A c \in Conns : Waiting(c)' <=> Waiting(c)
  PROVE  UNCHANGED <<clients, Ended>>
<1>1. Ended' = {c \in Conns : ~Waiting(c)' /\ clients'[UserOf[c]] # c}
  BY DEF Ended, Waiting
<1> QED
  BY <1>1, EndedIs

\* The map write is Connect, the removal of an entry is Disconnect, a restart is
\* LoseAll, and every other step, the two receives among them, is a stutter of
\* the registry.
LEMMA RegistryStep == IInv /\ [Next]_vars => [Sessions!Next]_(Sessions!vars)
<1> SUFFICES ASSUME IInv, [Next]_vars PROVE [Sessions!Next]_(Sessions!vars)
  OBVIOUS
<1> USE DEF IInv, TypeOK, ReaderStates, Serving, RegisteredIsLive
<1>1. ASSUME NEW c \in Conns, HubEnter(c) PROVE Sessions!Connect(c)
  <2> DEFINE old == clients[UserOf[c]]
  <2>1. Registering(c) /\ Waiting(c) /\ UserOf[c] \in Users /\ c # NoConn
    BY <1>1 DEF HubEnter, Waiting
  <2>2. clients' = [clients EXCEPT ![UserOf[c]] = c] /\ reader' = reader
    BY <1>1 DEF HubEnter
  <2>3. /\ hub' \notin {[phase |-> "registering", conn |-> d] : d \in Conns}
        /\ \A d \in Conns : Registering(d) => d = c
    BY <1>1 DEF HubEnter, Announce, Registering
  <2>4. ASSUME NEW d \in Conns PROVE ~Registering(d)' /\ ~Removing(d)
    <3>1. ~Registering(d)'
      BY <2>3 DEF Registering
    <3>2. ~Removing(d)
      BY <2>1 DEF Registering, Removing
    <3> QED
      BY <3>1, <3>2
  <2>5. old # c
    BY <2>1 DEF InHand
  <2>6. old \in Conns => reader[old] \notin {"none", "registering"} /\ UserOf[old] = UserOf[c]
    <3> SUFFICES ASSUME old \in Conns
                 PROVE  reader[old] \in Serving \cup {"leaving"} /\ UserOf[old] = UserOf[c]
      OBVIOUS
    <3> QED
      BY <2>1, <2>4
  <2>7. reader[c] \notin {"none", "registering"}
    BY <2>1 DEF InHand
  <2>8. ASSUME NEW d \in Conns
        PROVE  d \in Ended' <=> d \in Ended \/ d = old
    <3>1. d \in Ended' <=> reader[d] \notin {"none", "registering"}
                           /\ clients'[UserOf[d]] # d
      BY <2>2, <2>4 DEF Ended
    <3>2. d \in Ended <=> reader[d] \notin {"none", "registering"}
                          /\ clients[UserOf[d]] # d /\ d # c
      BY <2>1, <2>3 DEF Ended
    <3>3. CASE d = c
      BY <2>1, <2>2, <2>5, <3>1, <3>2, <3>3
    <3>4. CASE d # c /\ UserOf[d] = UserOf[c]
      <4>1. clients'[UserOf[d]] # d
        BY <2>1, <2>2, <3>4
      <4>2. clients[UserOf[d]] = old
        BY <3>4
      <4> QED
        BY <2>6, <3>1, <3>2, <3>4, <4>1, <4>2
    <3>5. CASE d # c /\ UserOf[d] # UserOf[c]
      <4>1. clients'[UserOf[d]] = clients[UserOf[d]]
        BY <2>1, <2>2, <3>5
      <4>2. d # old
        BY <2>6, <3>5
      <4> QED
        BY <3>1, <3>2, <3>5, <4>1, <4>2
    <3> QED
      BY <3>3, <3>4, <3>5
  <2>9. Ended' = Ended \cup ({old} \ {NoConn})
    <3>1. old \in Conns \cup {NoConn} /\ Ended \subseteq Conns /\ Ended' \subseteq Conns
      BY <2>1 DEF Ended
    <3> HIDE DEF old
    <3> QED
      BY <2>8, <3>1
  <2>10. c \notin Ended
    BY <2>1 DEF Ended
  <2> QED
    BY <2>2, <2>5, <2>9, <2>10 DEF Sessions!Connect
<1>2. ASSUME NEW c \in Conns, HubRemove(c)
      PROVE  Sessions!Disconnect(c) \/ UNCHANGED <<clients, Ended>>
  <2>1. /\ \A d \in Conns : ~Registering(d) /\ ~Registering(d)'
        /\ Removing(c)
    <3>1. hub = [phase |-> "removing", conn |-> c] /\ hub'.phase = "announcing"
      BY <1>2 DEF HubRemove, Announce, Removing
    <3>2. \A d \in Conns : [phase |-> "registering", conn |-> d].phase = "registering"
      OBVIOUS
    <3> QED
      BY <3>1, <3>2 DEF Registering, Removing
  <2>2. reader' = reader /\ reader[c] \in {"closing", "gone"} /\ UserOf[c] \in Users
    BY <1>2, <2>1 DEF HubRemove, InHand
  <2>3. \A d \in Conns : Waiting(d)' <=> Waiting(d)
    BY <2>1, <2>2 DEF Waiting
  <2>4. CASE clients[UserOf[c]] = c
    <3>1. clients' = [clients EXCEPT ![UserOf[c]] = NoConn]
      BY <1>2, <2>4 DEF HubRemove, Removal
    <3>2. ASSUME NEW d \in Conns PROVE d \in Ended' <=> d \in Ended \/ d = c
      <4>1. d \in Ended' <=> reader[d] \notin {"none", "registering"}
                             /\ clients'[UserOf[d]] # d
        BY <2>1, <2>2 DEF Ended
      <4>2. d \in Ended <=> reader[d] \notin {"none", "registering"}
                            /\ clients[UserOf[d]] # d
        BY <2>1 DEF Ended
      <4>3. CASE d = c
        BY <2>2, <3>1, <4>1, <4>3
      <4>4. CASE d # c
        <5>1. clients'[UserOf[d]] # d <=> clients[UserOf[d]] # d
          BY <2>2, <2>4, <3>1, <4>4
        <5> QED
          BY <4>1, <4>2, <4>4, <5>1
      <4> QED
        BY <4>3, <4>4
    <3>3. Ended' = Ended \cup {c}
      <4>1. Ended \subseteq Conns /\ Ended' \subseteq Conns
        BY DEF Ended
      <4> QED
        BY <3>2, <4>1
    <3> QED
      BY <2>4, <3>1, <3>3 DEF Sessions!Disconnect
  <2>5. CASE clients[UserOf[c]] # c
    <3>1. clients' = clients
      BY <1>2, <2>5 DEF HubRemove, Removal
    <3> QED
      BY <2>3, <3>1, QuietStep
  <2> QED
    BY <2>4, <2>5
<1>3. ASSUME Restart PROVE Sessions!LoseAll
  <2>1. clients' = [u \in Users |-> NoConn] /\ hub' = Idle
        /\ reader' = [c \in Conns |-> IF reader[c] = "none" THEN "none" ELSE "gone"]
    BY <1>3 DEF Restart
  <2>2. Ended' \in SUBSET Conns
    BY DEF Ended
  <2>3. \A d \in Conns : ~Registering(d)'
    BY <2>1 DEF Registering, Idle
  <2>4. Ended \cup {c \in Conns : clients[UserOf[c]] = c} \subseteq Ended'
    <3> SUFFICES ASSUME NEW c \in Conns, c \in Ended \/ clients[UserOf[c]] = c
                 PROVE  c \in Ended'
      BY DEF Ended
    <3>1. UserOf[c] \in Users /\ c # NoConn
      OBVIOUS
    <3>2. reader[c] # "none"
      <4>1. CASE c \in Ended
        BY <4>1 DEF Ended
      <4>2. CASE clients[UserOf[c]] = c
        <5>1. \/ reader[c] \in Serving \cup {"leaving"}
              \/ Removing(c)
          BY <3>1, <4>2
        <5> QED
          BY <5>1 DEF InHand
      <4> QED
        BY <4>1, <4>2
    <3>3. clients'[UserOf[c]] # c /\ reader'[c] = "gone"
      BY <2>1, <3>1, <3>2
    <3> QED
      BY <2>3, <3>3 DEF Ended
  <2> QED
    BY <2>1, <2>2, <2>4 DEF Sessions!LoseAll
<1>4. ASSUME NEW c \in Conns, HubRegister(c) \/ HubUnregister(c)
      PROVE  UNCHANGED <<clients, Ended>>
  <2>1. hub = Idle /\ clients' = clients
    BY <1>4 DEF HubRegister, HubUnregister
  <2>2. \A d \in Conns : ~Registering(d)
    BY <2>1 DEF Registering, Idle
  <2>3. CASE HubRegister(c)
    <3>1. /\ reader[c] = "registering" /\ reader' = [reader EXCEPT ![c] = "reading"]
          /\ hub' = [phase |-> "registering", conn |-> c]
      BY <2>3 DEF HubRegister
    <3>2. \A d \in Conns : Registering(d)' <=> d = c
      BY <3>1 DEF Registering
    <3>3. \A d \in Conns : Waiting(d)' <=> Waiting(d)
      BY <2>2, <3>1, <3>2 DEF Waiting
    <3> QED
      BY <2>1, <3>3, QuietStep
  <2>4. CASE HubUnregister(c)
    <3>1. /\ reader[c] = "leaving" /\ reader' = [reader EXCEPT ![c] = "closing"]
          /\ hub' = [phase |-> "removing", conn |-> c]
      BY <2>4 DEF HubUnregister
    <3>2. \A d \in Conns : ~Registering(d)'
      BY <3>1 DEF Registering
    <3>3. \A d \in Conns : Waiting(d)' <=> Waiting(d)
      BY <2>2, <3>1, <3>2 DEF Waiting
    <3> QED
      BY <2>1, <3>3, QuietStep
  <2> QED
    BY <1>4, <2>3, <2>4
<1>5. ASSUME NEW c \in Conns,
             \/ Dial(c) \/ Break(c) \/ ReadFrame(c) \/ WriterStep(c) \/ ReaderStep(c)
      PROVE  UNCHANGED <<clients, Ended>>
  <2>1. hub' = hub /\ clients' = clients
    BY <1>5 DEF Dial, Break, ReadFrame, WriterStep, Write, WriteError, WriterSeesClose,
                ReaderStep, ReadError, ReaderLookup, ReaderSend, ReplyBegin, Reply,
                HandlerEnds, ReaderClose
  <2>2. \A d \in Conns : reader'[d] \in {"none", "registering"}
                          <=> reader[d] \in {"none", "registering"}
    <3>1. CASE Dial(c) \/ Break(c) \/ ReadFrame(c) \/ WriterStep(c)
      BY <3>1 DEF Dial, Break, ReadFrame, WriterStep, Write, WriteError, WriterSeesClose
    <3>2. CASE ReadError(c) \/ ReplyBegin(c) \/ HandlerEnds(c) \/ ReaderClose(c)
      BY <3>2 DEF ReadError, ReplyBegin, HandlerEnds, ReaderClose
    <3>3. CASE ReaderLookup(c)
      BY <3>3 DEF ReaderLookup
    <3>4. CASE ReaderSend(c) \/ Reply(c)
      BY <3>4 DEF ReaderSend, Reply
    <3> QED
      BY <1>5, <3>1, <3>2, <3>3, <3>4 DEF ReaderStep
  <2>3. \A d \in Conns : Waiting(d)' <=> Waiting(d)
    BY <2>1, <2>2 DEF Waiting, Registering
  <2> QED
    BY <2>1, <2>3, QuietStep
<1>6. ASSUME NEW v \in Users, HubAnnounce(v) \/ HubDone PROVE UNCHANGED <<clients, Ended>>
  <2>1. clients' = clients /\ reader' = reader /\ hub \in Announcing
        /\ (hub' = Idle \/ hub' = [hub EXCEPT !.todo = @ \ {v}])
    BY <1>6 DEF HubAnnounce, HubDone
  <2>2. hub.phase = "announcing" /\ hub'.phase \in {"idle", "announcing"}
    BY <2>1 DEF Announcing, Idle
  <2>3. \A d \in Conns : [phase |-> "registering", conn |-> d].phase = "registering"
    OBVIOUS
  <2>4. \A d \in Conns : ~Registering(d) /\ ~Registering(d)'
    BY <2>2, <2>3 DEF Registering
  <2>5. \A d \in Conns : Waiting(d)' <=> Waiting(d)
    BY <2>1, <2>4 DEF Waiting
  <2> QED
    BY <2>1, <2>5, QuietStep
<1>7. ASSUME NEW t \in Tasks, TaskLookup(t) \/ TaskSend(t)
      PROVE  UNCHANGED <<clients, Ended>>
  <2>1. UNCHANGED <<clients, reader, hub>>
    BY <1>7 DEF TaskLookup, TaskSend
  <2> QED
    BY <2>1, QuietStep DEF Waiting, Registering
<1> HIDE DEF IInv, TypeOK, ReaderStates, Serving, RegisteredIsLive
<1>8. ASSUME HubDone PROVE UNCHANGED <<clients, Ended>>
  <2>1. hub.user \in Users
    BY <1>8 DEF HubDone, Announcing
  <2> QED
    BY <1>6, <1>8, <2>1
<1>9. ASSUME UNCHANGED vars PROVE UNCHANGED <<clients, Ended>>
  <2>1. UNCHANGED <<clients, reader, hub>>
    BY <1>9 DEF vars
  <2> QED
    BY <2>1, QuietStep DEF Waiting, Registering
<1>10. CASE Next
  <2>1. CASE \E c \in Conns : \/ HubEnter(c) \/ HubRemove(c)
                              \/ HubRegister(c) \/ HubUnregister(c)
    BY <1>1, <1>2, <1>4, <2>1 DEF Sessions!Next, Sessions!vars
  <2>2. CASE \E c \in Conns : \/ Dial(c) \/ Break(c) \/ ReadFrame(c)
                              \/ WriterStep(c) \/ ReaderStep(c)
    BY <1>5, <2>2 DEF Sessions!vars
  <2>3. CASE Restart
    BY <1>3, <2>3 DEF Sessions!Next
  <2>4. CASE \/ \E v \in Users : HubAnnounce(v)
             \/ \E t \in Tasks : TaskLookup(t) \/ TaskSend(t)
    BY <1>6, <1>7, <2>4 DEF Sessions!vars
  <2>5. CASE HubDone
    BY <1>8, <2>5 DEF Sessions!vars
  <2> QED
    BY <1>10, <2>1, <2>2, <2>3, <2>4, <2>5 DEF Next, HubStep
<1> QED
  BY <1>9, <1>10 DEF Sessions!vars

\* The hub, its pumps and every task together implement the registry: one
\* session per user, and a session that ended never comes back.
THEOREM HubImplementsRegistry == Spec => SessionsSpec
  BY Inductive, RegistryInit, RegistryStep, PTL
  DEF Spec, SessionsSpec, Sessions!Spec
=============================================================================
