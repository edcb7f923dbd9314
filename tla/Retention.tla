------------------------------ MODULE Retention ------------------------------
(***************************************************************************)
(* Disappearing messages.  The handlers of the WebSocket connection give a  *)
(* text an expiry from the sender's timer for the conversation; texts that  *)
(* are scheduled or sent to a broadcast list, locations, encrypted messages, *)
(* questions to the bot and its answers, and forwarded copies are stored    *)
(* without one; MessageCleanupService soft-deletes what has expired         *)
(* (services/message_cleanup.go, started by cmd/server/main.go).            *)
(*                                                                          *)
(* Time is relative: a message knows how long it has left, and Pass lets a  *)
(* unit go by.  Nothing is assumed about how long a statement takes, nor    *)
(* about the interval of the cleanup.                                       *)
(***************************************************************************)
EXTENDS Integers

CONSTANTS Users,
          Sends,     \* bound: the messages of a behaviour
          MaxTimer,  \* bound: the longest timer
          MaxStops,  \* bound: how often the process stops
          NoUser

Never  == MaxTimer + 1   \* no expiry
Oldest == MaxTimer + 1   \* bound: ages are told apart up to here
Past   == -2             \* bound: and how long ago a message expired up to here

ASSUME RetentionAssumption ==
  MaxTimer \in Nat \ {0} /\ MaxStops \in Nat /\ NoUser \notin Users

VARIABLES
  timer,    \* disappearing_seconds of each user, 0 when it is off
  send,     \* each message, from its handler's first step on
  service,  \* the cleanup service: "down" with the process, waiting or at work
  due,      \* expired when the service read the time
  stops     \* how often the process stopped

vars == <<timer, send, service, due, stops>>

\* `left` until its expiry, `age` since the handler began, and the timers of the
\* sender that were `seen` until the row was stored (the last two are history).
Unsent == [step |-> "new", user |-> NoUser, secs |-> 0, left |-> Never, age |-> 0,
           seen |-> {}]

Init ==
  /\ timer = [u \in Users |-> 0]
  /\ send = [q \in Sends |-> Unsent]
  /\ service = "sweep" /\ due = {} /\ stops = 0

Up           == service # "down"
At(q, step)  == send[q].step = step
Moves(q, s)  == send' = [send EXCEPT ![q].step = s]
Stored       == {q \in Sends : send[q].step \in {"stored", "deleted"}}
Under(q)     == send[q].step \notin {"new", "lost"} /\ q \notin Stored

----------------------------------------------------------------------------
Older(m) ==
  [m EXCEPT !.left = IF @ = Never \/ @ = Past THEN @ ELSE @ - 1,
            !.age  = IF @ = Oldest \/ m.seen = {} THEN @ ELSE @ + 1]

\* A unit of time goes by.
Pass ==
  /\ send' = [q \in Sends |-> IF Under(q) \/ At(q, "stored") THEN Older(send[q])
                            ELSE send[q]]
  /\ send' # send
  /\ UNCHANGED <<timer, service, due, stops>>

SetDisappearingTimer(u, secs) ==
  /\ Up /\ timer' = [timer EXCEPT ![u] = secs]
  /\ send' = [q \in Sends |-> IF send[q].user = u /\ Under(q) /\ send[q].seen # {}
                              THEN [send[q] EXCEPT !.seen = @ \cup {secs}] ELSE send[q]]
  /\ UNCHANGED <<service, due, stops>>

----------------------------------------------------------------------------
(* A text sent over the connection: the timer is read, the expiry computed, *)
(* the row stored.                                                          *)

Begin(q, u, step, seen) ==
  /\ Up /\ At(q, "new")
  /\ send' = [send EXCEPT ![q] = [Unsent EXCEPT !.step = step, !.user = u, !.seen = seen]]
  /\ UNCHANGED <<timer, service, due, stops>>

SendText(q, u) == Begin(q, u, "timer", {timer[u]})

GetDisappearingTimer(q) ==
  /\ At(q, "timer")
  /\ send' = [send EXCEPT ![q].step = "stamp", ![q].secs = timer[send[q].user]]
  /\ UNCHANGED <<timer, service, due, stops>>

\* Mutant: the timer counts one unit less.
Stamp_Short(q) ==
  /\ At(q, "stamp")
  /\ send' = [send EXCEPT ![q].step = "store", ![q].secs = 0,
                          ![q].left = IF send[q].secs > 0 THEN send[q].secs - 1 ELSE Never]
  /\ UNCHANGED <<timer, service, due, stops>>

Stamp(q) ==
  /\ At(q, "stamp")
  /\ send' = [send EXCEPT ![q].step = "store", ![q].secs = 0,
                          ![q].left = IF send[q].secs > 0 THEN send[q].secs ELSE Never]
  /\ UNCHANGED <<timer, service, due, stops>>

Store(q) ==
  /\ At(q, "store") /\ Moves(q, "stored")
  /\ UNCHANGED <<timer, service, due, stops>>

\* Whatever the timer, a text that is scheduled or sent to a broadcast list has no
\* expiry, nor have a location, an encrypted message, what passes between a user and
\* the bot, and a forwarded copy.
ScheduleMessage(q, u)        == Begin(q, u, "store", {})
SendToList(q, u)             == Begin(q, u, "store", {})
SendLocation(q, u)           == Begin(q, u, "store", {})
handleEncryptedMessage(q, u) == Begin(q, u, "store", {})
handleBotMessage(q, u)       == Begin(q, u, "store", {})
Forward(q, p, u)             == At(p, "stored") /\ Begin(q, u, "store", {})

----------------------------------------------------------------------------
(* The service: a run at once, then one every interval.                     *)

\* Mutant: only what expired since the time was last read.
ReadNow_Recent ==
  /\ service = "wait"
  /\ service' = "sweep"
  /\ due' = {q \in Sends : send[q].left = -1}
  /\ UNCHANGED <<timer, send, stops>>

ReadNow ==
  /\ service = "wait"
  /\ service' = "sweep"
  /\ due' = {q \in Sends : send[q].left < 0 /\ ~At(q, "deleted")}
  /\ UNCHANGED <<timer, send, stops>>

\* One UPDATE, of the rows that are there by then.
cleanupExpiredMessages ==
  /\ service = "sweep"
  /\ service' = "wait" /\ due' = {}
  /\ send' = [q \in Sends |-> IF q \in due /\ At(q, "stored")
                              THEN [send[q] EXCEPT !.step = "deleted"] ELSE send[q]]
  /\ UNCHANGED <<timer, stops>>

\* The process stops, and the requests under way with it.
Stop ==
  /\ Up /\ stops < MaxStops
  /\ service' = "down" /\ due' = {} /\ stops' = stops + 1
  /\ send' = [q \in Sends |-> IF Under(q) THEN [Unsent EXCEPT !.step = "lost"] ELSE send[q]]
  /\ UNCHANGED timer

Start ==
  /\ service = "down"
  /\ service' = "sweep"
  /\ due' = {q \in Sends : send[q].left < 0 /\ ~At(q, "deleted")}
  /\ UNCHANGED <<timer, send, stops>>

----------------------------------------------------------------------------
Next ==
  \/ Pass \/ ReadNow \/ cleanupExpiredMessages \/ Stop \/ Start
  \/ \E u \in Users, secs \in 0..MaxTimer : SetDisappearingTimer(u, secs)
  \/ \E q \in Sends :
       \/ GetDisappearingTimer(q) \/ Stamp(q) \/ Store(q)
       \/ \E u \in Users :
            \/ SendText(q, u) \/ ScheduleMessage(q, u) \/ SendToList(q, u)
            \/ SendLocation(q, u)
            \/ handleEncryptedMessage(q, u) \/ handleBotMessage(q, u)
            \/ \E p \in Sends : Forward(q, p, u)

\* Time passes, the ticker ticks, the database answers, and whoever runs the
\* server starts it again.  Users need do nothing, nor their handlers finish.
Fairness == /\ WF_vars(Pass) /\ WF_vars(ReadNow) /\ WF_vars(cleanupExpiredMessages)
            /\ WF_vars(Start)

Spec == Init /\ [][Next]_vars /\ Fairness

----------------------------------------------------------------------------
\* What Search and Export find.
Found == {q \in Stored : ~At(q, "deleted")}

\* Types.
TypeOK ==
  /\ timer \in [Users -> 0..MaxTimer]
  /\ \A q \in Sends :
       /\ send[q].step \in {"new", "timer", "stamp", "store", "stored", "deleted", "lost"}
       /\ send[q].left \in Past..Never /\ send[q].age \in 0..Oldest
       /\ send[q].seen \subseteq 0..MaxTimer
  /\ service \in {"down", "wait", "sweep"} /\ due \subseteq Sends /\ stops \in 0..MaxStops

\* A text sent over the connection, and stored while its sender's timer was on from the
\* first step of its handler to the last, disappears for good, even if it expired before
\* it was stored, while the service was at work or while the process was down.  Nothing
\* of the kind holds of a text that was scheduled or sent to a broadcast list: neither
\* handler asks for the timer (scheduler.go:82, broadcast.go:333), and it stays.
GoneWhenOn ==
  \A q \in Sends :
    (q \in Stored /\ send[q].seen # {} /\ 0 \notin send[q].seen) ~> [](q \notin Found)

\* What disappeared is a text sent over the connection, and it is older than a timer
\* that was on when it was sent: no row is deleted that has no expiry, and none before
\* its time, although the service reads the time first and deletes later, and the timer
\* may be changed at any moment.
KeptAtLeast ==
  \A q \in Sends :
    At(q, "deleted") => \E s \in send[q].seen \ {0} : send[q].age > s
=============================================================================
