--------------------------- MODULE ServicesProofs ---------------------------
(***************************************************************************)
(* Theorems about the two services that wake up by themselves: the cleanup  *)
(* of disappearing messages (module Retention) and the delivery of          *)
(* scheduled ones (module Scheduler).  Both hold for any users, messages,   *)
(* times and number of stops of the process; the two parts are independent. *)
(***************************************************************************)
EXTENDS Retention, Scheduler, TLAPS

USE RetentionAssumption, SchedulerAssumption

(***************************************************************************)
(* Disappearing messages: nothing disappears that has no expiry, and        *)
(* nothing before the time of a timer that was on.                          *)
(***************************************************************************)

Steps   == {"new", "timer", "stamp", "store", "stored", "deleted", "lost"}
Message == [step : Steps, user : Users \cup {NoUser}, secs : 0..MaxTimer,
            left : Past..Never, age : 0..Oldest, seen : SUBSET (0..MaxTimer)]

\* Why a message is old enough when its time is up: what it has left and its age
\* together are never less than a timer that was on while it was sent.
Timed(m) ==
  m.left # Never => \E s \in m.seen \ {0} : m.age = Oldest \/ m.left + m.age >= s

\* What a handler has in hand comes from its user's timer, and the expiry is
\* computed once.
InHand(m, t) ==
  /\ m.step = "timer" => m.user \in Users /\ t[m.user] \in m.seen /\ m.left = Never
  /\ m.step = "stamp" => m.secs \in m.seen /\ m.left = Never
  /\ m.step \in {"new", "lost"} => m.left = Never
  /\ m.step = "deleted" => m.left < 0

Typed == /\ timer \in [Users -> 0..MaxTimer] /\ send \in [Sends -> Message]
         /\ service \in {"down", "wait", "sweep"} /\ due \subseteq Sends
         /\ stops \in 0..MaxStops

\* A row that was due when the service read the time still is.
DueIsOver == \A q \in due : send[q].left < 0

IInv == /\ Typed
        /\ \A q \in Sends : Timed(send[q]) /\ InHand(send[q], timer)
        /\ DueIsOver

----------------------------------------------------------------------------
\* A unit of time keeps what a message is and has left in step with its age.
LEMMA OlderIsTimed ==
  ASSUME NEW m \in Message, NEW t, Timed(m), InHand(m, t)
  PROVE  /\ Older(m) \in Message /\ Timed(Older(m)) /\ InHand(Older(m), t)
         /\ m.left < 0 => Older(m).left < 0
<1> DEFINE o == Older(m)
<1>1. /\ m.left \in Past..Never /\ m.age \in 0..Oldest
      /\ m.seen \in SUBSET (0..MaxTimer)
  BY DEF Message
<1>2. /\ o.step = m.step /\ o.user = m.user /\ o.secs = m.secs /\ o.seen = m.seen
      /\ o.left = IF m.left = Never \/ m.left = Past THEN m.left ELSE m.left - 1
      /\ o.age = IF m.age = Oldest \/ m.seen = {} THEN m.age ELSE m.age + 1
  BY DEF Older, Message
<1>3. o.left \in Past..Never /\ o.age \in 0..Oldest
  BY <1>1, <1>2 DEF Past, Never, Oldest
<1>4. o \in Message
  BY <1>3 DEF Older, Message
<1>5. Timed(o)
  <2> SUFFICES ASSUME o.left # Never
               PROVE  \E s \in o.seen \ {0} : o.age = Oldest \/ o.left + o.age >= s
    BY DEF Timed
  <2>1. m.left # Never
    BY <1>2
  <2>2. PICK s \in m.seen \ {0} : m.age = Oldest \/ m.left + m.age >= s
    BY <2>1 DEF Timed
  <2>3. s \in Nat /\ m.seen # {}
    BY <2>2, <1>1
  <2>4. CASE m.age = Oldest
    BY <2>4, <2>2, <1>2
  <2>5. CASE m.age # Oldest /\ m.left + m.age >= s
    <3>1. o.left + o.age >= s
      BY <2>5, <2>3, <2>1, <1>1, <1>2 DEF Past, Never, Oldest
    <3> QED
      BY <3>1, <2>2, <1>2
  <2> QED
    BY <2>2, <2>4, <2>5
<1>6. m.left < 0 => o.left < 0
  BY <1>1, <1>2 DEF Past, Never
<1>7. m.left = Never => o.left = Never
  BY <1>2
<1>8. InHand(o, t)
  BY <1>2, <1>6, <1>7 DEF InHand
<1> QED
  BY <1>4, <1>5, <1>6, <1>8

\* A message whose handler begins.
LEMMA Beginning ==
  ASSUME NEW step \in {"timer", "store"}, NEW u \in Users, NEW seen \in SUBSET (0..MaxTimer),
         NEW t, step = "timer" => t[u] \in seen
  PROVE  LET m == [Unsent EXCEPT !.step = step, !.user = u, !.seen = seen]
         IN m \in Message /\ Timed(m) /\ InHand(m, t) /\ m.left = Never
<1> DEFINE m == [Unsent EXCEPT !.step = step, !.user = u, !.seen = seen]
<1>1. 0 \in 0..MaxTimer /\ Never \in Past..Never /\ 0 \in 0..Oldest
  BY DEF Never, Past, Oldest
<1>2. Unsent \in Message
  BY <1>1 DEF Message, Steps, Unsent
<1>3. m \in Message
  BY <1>2 DEF Message, Steps
<1>4. m.left = Never /\ m.step = step /\ m.user = u /\ m.seen = seen
  BY DEF Unsent
<1> HIDE DEF m
<1>5. Timed(m) /\ InHand(m, t)
  BY <1>4 DEF Timed, InHand
<1> QED
  BY <1>3, <1>4, <1>5 DEF m

\* A message nothing has been done with, or that was lost with its process.
LEMMA UnsentIsKept ==
  ASSUME NEW step \in {"new", "lost"}, NEW t
  PROVE  LET m == [Unsent EXCEPT !.step = step]
         IN m \in Message /\ Timed(m) /\ InHand(m, t)
<1> DEFINE m == [Unsent EXCEPT !.step = step]
<1>1. m = [step |-> step, user |-> NoUser, secs |-> 0, left |-> Never, age |-> 0, seen |-> {}]
  BY DEF Unsent
<1>2. 0 \in 0..MaxTimer /\ Never \in Past..Never /\ 0 \in 0..Oldest
  BY DEF Never, Past, Oldest
<1>3. m \in Message
  BY <1>1, <1>2 DEF Message, Steps
<1>4. m.left = Never /\ m.step = step
  BY <1>1
<1> HIDE DEF m
<1>5. Timed(m) /\ InHand(m, t)
  BY <1>4 DEF Timed, InHand
<1> QED
  BY <1>3, <1>5 DEF m

----------------------------------------------------------------------------
\* With all timers off and nothing sent the invariant holds.
LEMMA InitInv == Init => IInv
<1> SUFFICES ASSUME Init PROVE IInv
  OBVIOUS
<1>1. Unsent = [Unsent EXCEPT !.step = "new"]
  BY DEF Unsent
<1>2. Unsent \in Message /\ Timed(Unsent) /\ InHand(Unsent, timer)
  BY <1>1, UnsentIsKept
<1>3. \A q \in Sends : send[q] = Unsent
  BY DEF Init
<1>4. Typed
  <2>1. timer \in [Users -> 0..MaxTimer] /\ stops \in 0..MaxStops
    BY DEF Init
  <2>2. send \in [Sends -> Message]
    BY <1>2 DEF Init
  <2> QED
    BY <2>1, <2>2 DEF Init, Typed
<1> QED
  BY <1>2, <1>3, <1>4 DEF Init, IInv, DueIsOver

\* A step that changes one message, or none of them, and leaves the timers alone.
LEMMA OneMessage ==
  ASSUME IInv, NEW q \in Sends, NEW m \in Message, Timed(m), InHand(m, timer),
         q \notin due, send' = [send EXCEPT ![q] = m],
         UNCHANGED <<timer, service, due, stops>>
  PROVE  IInv'
<1>1. Typed'
  BY DEF IInv, Typed
<1>2. \A p \in Sends : Timed(send'[p]) /\ InHand(send'[p], timer')
  BY DEF IInv, Typed
<1>3. DueIsOver'
  BY DEF IInv, Typed, DueIsOver
<1> QED
  BY <1>1, <1>2, <1>3 DEF IInv, Timed, InHand

\* A message without an expiry is not due.
LEMMA NotDue ==
  ASSUME IInv, NEW q \in Sends, send[q].left = Never PROVE q \notin due
  BY DEF IInv, DueIsOver, Never

\* Whoever begins keeps the invariant.
LEMMA BeginKeeps ==
  ASSUME IInv, NEW q \in Sends, NEW u \in Users, NEW step \in {"timer", "store"},
         NEW seen \in SUBSET (0..MaxTimer), step = "timer" => timer[u] \in seen,
         Begin(q, u, step, seen)
  PROVE  IInv'
<1> DEFINE m == [Unsent EXCEPT !.step = step, !.user = u, !.seen = seen]
<1>1. m \in Message /\ Timed(m) /\ InHand(m, timer)
  BY Beginning
<1>2. q \notin due
  BY NotDue DEF Begin, At, IInv, InHand
<1>3. send' = [send EXCEPT ![q] = m] /\ UNCHANGED <<timer, service, due, stops>>
  BY DEF Begin
<1> HIDE DEF m
<1> QED
  BY <1>1, <1>2, <1>3, OneMessage

----------------------------------------------------------------------------
\* Every step keeps the invariant: Pass by OlderIsTimed, the steps of a handler
\* because they follow one timer from where it is read to the expiry, and the
\* service because what is due when it reads the time can only get older.
LEMMA InvStep == IInv /\ [Next]_vars => IInv'
<1> SUFFICES ASSUME IInv, [Next]_vars PROVE IInv'
  OBVIOUS
<1>t. \A q \in Sends : send[q] \in Message
  BY DEF IInv, Typed
<1>1. CASE Pass
  <2>1. \A q \in Sends : /\ send'[q] \in Message /\ Timed(send'[q])
                          /\ InHand(send'[q], timer) /\ (send[q].left < 0 => send'[q].left < 0)
    <3> SUFFICES ASSUME NEW q \in Sends
                 PROVE  /\ send'[q] \in Message /\ Timed(send'[q])
                        /\ InHand(send'[q], timer) /\ (send[q].left < 0 => send'[q].left < 0)
      OBVIOUS
    <3>1. send'[q] = Older(send[q]) \/ send'[q] = send[q]
      BY <1>1 DEF Pass
    <3>2. send[q] \in Message /\ Timed(send[q]) /\ InHand(send[q], timer)
      BY <1>t DEF IInv
    <3> QED
      BY <3>1, <3>2, OlderIsTimed
  <2>2. UNCHANGED <<timer, service, due, stops>> /\ DOMAIN send' = Sends
        /\ send' = [q \in Sends |-> send'[q]]
    BY <1>1 DEF Pass
  <2>3. Typed'
    BY <2>1, <2>2 DEF IInv, Typed
  <2>4. DueIsOver'
    BY <2>1, <2>2 DEF IInv, DueIsOver, Typed
  <2> QED
    BY <2>1, <2>2, <2>3, <2>4 DEF IInv, Timed, InHand
<1>2. ASSUME NEW u \in Users, NEW secs \in 0..MaxTimer, SetDisappearingTimer(u, secs)
      PROVE  IInv'
  <2>1. \A q \in Sends : /\ send'[q] \in Message /\ Timed(send'[q])
                          /\ InHand(send'[q], timer') /\ send'[q].left = send[q].left
    <3> SUFFICES ASSUME NEW q \in Sends
                 PROVE  /\ send'[q] \in Message /\ Timed(send'[q])
                        /\ InHand(send'[q], timer') /\ send'[q].left = send[q].left
      OBVIOUS
    <3> DEFINE m == send[q]  n == [send[q] EXCEPT !.seen = @ \cup {secs}]
    <3>1. m \in Message /\ Timed(m) /\ InHand(m, timer)
      BY <1>t DEF IInv
    <3>2. timer \in [Users -> 0..MaxTimer] /\ timer' = [timer EXCEPT ![u] = secs]
      BY <1>2 DEF SetDisappearingTimer, IInv, Typed
    <3>3. CASE m.user = u /\ Under(q) /\ m.seen # {}
      <4>1. send'[q] = n
        BY <1>2, <3>3 DEF SetDisappearingTimer
      <4>2. n.seen = m.seen \cup {secs} /\ n.step = m.step /\ n.user = m.user
            /\ n.left = m.left /\ n.age = m.age /\ n.secs = m.secs
        BY <3>1 DEF Message
      <4>3. m.seen \cup {secs} \in SUBSET (0..MaxTimer)
        BY <3>1 DEF Message
      <4>4. n \in Message
        BY <3>1, <4>3 DEF Message
      <4>5. Timed(n)
        BY <3>1, <4>2 DEF Timed
      <4>6. InHand(n, timer')
        BY <3>1, <3>2, <4>2 DEF InHand
      <4> QED
        BY <4>1, <4>2, <4>4, <4>5, <4>6
    <3>4. CASE ~(m.user = u /\ Under(q) /\ m.seen # {})
      <4>1. send'[q] = m
        BY <1>2, <3>4 DEF SetDisappearingTimer
      <4>2. m.step = "timer" => m.user # u
        BY <3>4, <3>1 DEF InHand, Under, Stored
      <4>3. InHand(m, timer')
        BY <3>1, <3>2, <4>2 DEF InHand
      <4> QED
        BY <3>1, <4>1, <4>3
    <3> QED
      BY <3>3, <3>4
  <2>2. UNCHANGED <<service, due, stops>> /\ send' = [q \in Sends |-> send'[q]]
        /\ timer' \in [Users -> 0..MaxTimer]
    BY <1>2 DEF SetDisappearingTimer, IInv, Typed
  <2>3. Typed'
    BY <2>1, <2>2 DEF IInv, Typed
  <2>4. DueIsOver'
    BY <2>1, <2>2 DEF IInv, DueIsOver, Typed
  <2> QED
    BY <2>1, <2>3, <2>4 DEF IInv, Timed, InHand
<1>3. ASSUME NEW q \in Sends, NEW u \in Users,
             \/ SendText(q, u) \/ ScheduleMessage(q, u) \/ SendToList(q, u)
             \/ SendLocation(q, u) \/ handleEncryptedMessage(q, u)
             \/ handleBotMessage(q, u) \/ \E p \in Sends : Forward(q, p, u)
      PROVE  IInv'
  <2>1. {timer[u]} \in SUBSET (0..MaxTimer)
    BY DEF IInv, Typed
  <2>2. CASE SendText(q, u)
    BY <2>1, <2>2, BeginKeeps DEF SendText
  <2>3. CASE Begin(q, u, "store", {})
    BY <2>3, BeginKeeps
  <2> QED
    BY <1>3, <2>2, <2>3
    DEF ScheduleMessage, SendToList, SendLocation, handleEncryptedMessage, handleBotMessage,
        Forward
<1>4. ASSUME NEW q \in Sends, GetDisappearingTimer(q) PROVE IInv'
  <2> DEFINE m == send[q]
             n == [m EXCEPT !.step = "stamp", !.secs = timer[m.user]]
  <2>1. m \in Message /\ Timed(m) /\ InHand(m, timer) /\ m.step = "timer"
    BY <1>t, <1>4 DEF IInv, GetDisappearingTimer, At
  <2>2. timer[m.user] \in 0..MaxTimer
    BY <2>1 DEF IInv, Typed, InHand
  <2>3. n.step = "stamp" /\ n.secs = timer[m.user] /\ n.left = m.left /\ n.seen = m.seen
        /\ n.age = m.age
    BY <2>1 DEF Message
  <2>4. n \in Message
    BY <2>1, <2>2 DEF Message, Steps
  <2>5. Timed(n) /\ InHand(n, timer)
    BY <2>1, <2>3 DEF Timed, InHand
  <2>6. q \notin due
    BY <2>1, NotDue DEF InHand
  <2>7. send' = [send EXCEPT ![q] = n] /\ UNCHANGED <<timer, service, due, stops>>
    BY <1>4 DEF GetDisappearingTimer
  <2> HIDE DEF n
  <2> QED
    BY <2>4, <2>5, <2>6, <2>7, OneMessage
<1>5. ASSUME NEW q \in Sends, Stamp(q) PROVE IInv'
  <2> DEFINE m == send[q]
             l == IF m.secs > 0 THEN m.secs ELSE Never
             n == [m EXCEPT !.step = "store", !.secs = 0, !.left = l]
  <2>1. m \in Message /\ InHand(m, timer) /\ m.step = "stamp"
    BY <1>t, <1>5 DEF IInv, Stamp, At
  <2>2. m.secs \in 0..MaxTimer /\ m.age \in 0..Oldest /\ m.secs \in m.seen
    BY <2>1 DEF Message, InHand
  <2>3. l \in Past..Never /\ 0 \in 0..MaxTimer /\ (l # Never => l = m.secs /\ m.secs # 0)
    BY <2>2 DEF Past, Never
  <2>4. n.step = "store" /\ n.left = l /\ n.seen = m.seen /\ n.age = m.age
    BY <2>1 DEF Message
  <2>5. n \in Message
    BY <2>1, <2>3 DEF Message, Steps
  <2>6. Timed(n)
    <3> SUFFICES ASSUME l # Never PROVE m.secs \in m.seen \ {0} /\ l + m.age >= m.secs
      BY <2>4 DEF Timed
    <3> QED
      BY <2>2, <2>3 DEF Oldest
  <2>7. InHand(n, timer)
    BY <2>4 DEF InHand
  <2>8. q \notin due
    BY <2>1, NotDue DEF InHand
  <2>9. send' = [send EXCEPT ![q] = n] /\ UNCHANGED <<timer, service, due, stops>>
    BY <1>5 DEF Stamp
  <2> HIDE DEF n, l
  <2> QED
    BY <2>5, <2>6, <2>7, <2>8, <2>9, OneMessage
<1>6. ASSUME NEW q \in Sends, Store(q) PROVE IInv'
  <2> DEFINE m == send[q]
             n == [m EXCEPT !.step = "stored"]
  <2>1. m \in Message /\ Timed(m)
    BY <1>t DEF IInv
  <2>2. n.step = "stored" /\ n.left = m.left /\ n.seen = m.seen /\ n.age = m.age
    BY <2>1 DEF Message
  <2>3. n \in Message
    BY <2>1 DEF Message, Steps
  <2>4. \A p \in Sends : send'[p] \in Message /\ Timed(send'[p]) /\ InHand(send'[p], timer)
                         /\ send'[p].left = send[p].left
    BY <1>t, <1>6, <2>1, <2>2, <2>3 DEF Store, Moves, IInv, Typed, Timed, InHand
  <2>5. UNCHANGED <<timer, service, due, stops>> /\ send' = [send EXCEPT ![q] = n]
    BY <1>6 DEF Store, Moves
  <2>6. Typed'
    BY <2>3, <2>5 DEF IInv, Typed
  <2>7. DueIsOver'
    BY <2>4, <2>5 DEF IInv, DueIsOver, Typed
  <2> QED
    BY <2>4, <2>5, <2>6, <2>7 DEF IInv, Timed, InHand
<1>7. ASSUME service' \in {"down", "wait", "sweep"}, UNCHANGED <<timer, send, stops>>,
             due' \subseteq {q \in Sends : send[q].left < 0}
      PROVE  IInv'
  BY <1>7 DEF IInv, Typed, DueIsOver, Timed, InHand
<1>8. CASE ReadNow \/ Start
  BY <1>7, <1>8 DEF ReadNow, Start
<1>9. CASE cleanupExpiredMessages
  <2>1. \A q \in Sends : send'[q] \in Message /\ Timed(send'[q]) /\ InHand(send'[q], timer)
    <3> SUFFICES ASSUME NEW q \in Sends
                 PROVE  send'[q] \in Message /\ Timed(send'[q]) /\ InHand(send'[q], timer)
      OBVIOUS
    <3> DEFINE m == send[q]  n == [m EXCEPT !.step = "deleted"]
    <3>1. m \in Message /\ Timed(m) /\ InHand(m, timer)
      BY <1>t DEF IInv
    <3>2. CASE q \in due /\ At(q, "stored")
      <4>1. send'[q] = n /\ m.left < 0
        BY <1>9, <3>2 DEF cleanupExpiredMessages, IInv, DueIsOver
      <4>2. n.step = "deleted" /\ n.left = m.left /\ n.seen = m.seen /\ n.age = m.age
        BY <3>1 DEF Message
      <4>3. n \in Message
        BY <3>1 DEF Message, Steps
      <4> QED
        BY <3>1, <4>1, <4>2, <4>3 DEF Timed, InHand
    <3>3. CASE ~(q \in due /\ At(q, "stored"))
      BY <1>9, <3>1, <3>3 DEF cleanupExpiredMessages
    <3> QED
      BY <3>2, <3>3
  <2>2. /\ UNCHANGED <<timer, stops>> /\ service' = "wait" /\ due' = {}
        /\ send' = [q \in Sends |-> send'[q]]
    BY <1>9 DEF cleanupExpiredMessages
  <2> QED
    BY <2>1, <2>2 DEF IInv, Typed, DueIsOver, Timed, InHand
<1>10. CASE Stop
  <2>1. \A q \in Sends : send'[q] \in Message /\ Timed(send'[q]) /\ InHand(send'[q], timer)
    <3> SUFFICES ASSUME NEW q \in Sends
                 PROVE  send'[q] \in Message /\ Timed(send'[q]) /\ InHand(send'[q], timer)
      OBVIOUS
    <3>1. send'[q] = [Unsent EXCEPT !.step = "lost"] \/ send'[q] = send[q]
      BY <1>10 DEF Stop
    <3> QED
      BY <3>1, <1>t, UnsentIsKept DEF IInv
  <2>2. /\ UNCHANGED timer /\ service' = "down" /\ due' = {}
        /\ send' = [q \in Sends |-> send'[q]]
    BY <1>10 DEF Stop
  <2>3. stops' \in 0..MaxStops
    BY <1>10 DEF Stop, IInv, Typed
  <2> QED
    BY <2>1, <2>2, <2>3 DEF IInv, Typed, DueIsOver, Timed, InHand
<1>11. CASE UNCHANGED vars
  BY <1>11 DEF vars, IInv, Typed, DueIsOver, Timed, InHand
<1> QED
  BY <1>1, <1>2, <1>3, <1>4, <1>5, <1>6, <1>8, <1>9, <1>10, <1>11 DEF Next

\* Messages keep in step with their timers in every behaviour.
THEOREM Invariance == Spec => []IInv
<1> QED
  BY InitInv, InvStep, PTL DEF Spec

\* Timers, messages, the service and what it found due have their types.
THEOREM RetentionTyping == Spec => []TypeOK
<1>1. IInv => TypeOK
  <2> SUFFICES ASSUME IInv, NEW q \in Sends
               PROVE  /\ send[q].step \in Steps
                      /\ send[q].left \in Past..Never /\ send[q].age \in 0..Oldest
                      /\ send[q].seen \subseteq 0..MaxTimer
    BY DEF IInv, Typed, TypeOK, Steps
  <2>1. send[q] \in Message
    BY DEF IInv, Typed
  <2> QED
    BY <2>1 DEF Message
<1> QED
  BY Invariance, <1>1, PTL

\* The cleanup deletes no message that has no expiry and none before its time: what
\* disappeared is older than a timer that was on while it was sent.
THEOREM NothingGoesEarly == Spec => []KeptAtLeast
<1>1. IInv => KeptAtLeast
  <2> SUFFICES ASSUME IInv, NEW q \in Sends, At(q, "deleted")
               PROVE  \E s \in send[q].seen \ {0} : send[q].age > s
    BY DEF KeptAtLeast
  <2>1. send[q] \in Message /\ Timed(send[q]) /\ send[q].left < 0
    BY DEF IInv, Typed, InHand, At
  <2>2. /\ send[q].left \in Past..Never /\ send[q].age \in 0..Oldest
        /\ send[q].seen \in SUBSET (0..MaxTimer)
    BY <2>1 DEF Message
  <2>3. PICK s \in send[q].seen \ {0} : send[q].age = Oldest \/ send[q].left + send[q].age >= s
    BY <2>1, <2>2 DEF Timed, Never
  <2>4. send[q].age > s
    BY <2>1, <2>2, <2>3 DEF Oldest, Past, Never
  <2> QED
    BY <2>3, <2>4
<1> QED
  BY Invariance, <1>1, PTL

----------------------------------------------------------------------------
\* A text whose sender's timer was on throughout has an expiry, from the moment it
\* is computed.
Expires(m) ==
  m.step \in {"store", "stored", "deleted"} /\ m.seen # {} /\ 0 \notin m.seen
    => m.left # Never

ExpiresAll == \A q \in Sends : Expires(send[q])

\* Time, the timers and the service leave a message its expiry; the step that
\* computes it has in hand one of the timers that were seen.
LEMMA ExpiresStep == IInv /\ ExpiresAll /\ [Next]_vars => ExpiresAll'
<1> SUFFICES ASSUME IInv, ExpiresAll, [Next]_vars, NEW q \in Sends
             PROVE  Expires(send'[q])
  BY DEF ExpiresAll, Expires
<1> DEFINE m == send[q]
<1>t. m \in Message /\ Expires(m) /\ InHand(m, timer) /\ send \in [Sends -> Message]
  BY DEF IInv, Typed, ExpiresAll
<1>0. CASE send'[q] = m
  BY <1>0, <1>t
<1>1. CASE Pass
  <2>1. send'[q] = Older(m) \/ send'[q] = m
    BY <1>1 DEF Pass
  <2>2. CASE send'[q] = Older(m)
    <3> DEFINE o == Older(m)
    <3>1. m.left \in Past..Never
      BY <1>t DEF Message
    <3>2. /\ o.step = m.step /\ o.seen = m.seen
          /\ o.left = IF m.left = Never \/ m.left = Past THEN m.left ELSE m.left - 1
      BY <1>t DEF Older, Message
    <3>3. m.left # Never => o.left # Never
      BY <3>1, <3>2 DEF Past, Never
    <3> QED
      BY <2>2, <3>2, <3>3, <1>t DEF Expires
  <2> QED
    BY <2>1, <2>2, <1>0
<1>2. ASSUME NEW u \in Users, NEW secs \in 0..MaxTimer, SetDisappearingTimer(u, secs),
             send'[q] # m
      PROVE  Expires(send'[q])
  <2>1. send'[q] = [m EXCEPT !.seen = @ \cup {secs}] /\ m.seen # {}
    BY <1>2 DEF SetDisappearingTimer
  <2>2. /\ send'[q].step = m.step /\ send'[q].left = m.left
        /\ send'[q].seen = m.seen \cup {secs}
    BY <2>1, <1>t DEF Message
  <2> QED
    BY <2>1, <2>2, <1>t DEF Expires
<1>3. ASSUME NEW p \in Sends, NEW u \in Users, NEW step, NEW seen,
             Begin(p, u, step, seen), step = "timer" \/ seen = {}
      PROVE  Expires(send'[q])
  <2>1. CASE p = q
    <3> DEFINE n == [Unsent EXCEPT !.step = step, !.user = u, !.seen = seen]
    <3>1. send'[q] = n
      BY <1>3, <1>t, <2>1 DEF Begin
    <3>2. n.step = step /\ n.seen = seen
      BY DEF Unsent
    <3> QED
      BY <1>3, <3>1, <3>2 DEF Expires
  <2>2. CASE p # q
    BY <1>3, <1>t, <2>2, <1>0 DEF Begin
  <2> QED
    BY <2>1, <2>2
<1>4. ASSUME NEW p \in Sends, NEW u \in Users,
             \/ SendText(p, u) \/ ScheduleMessage(p, u) \/ SendToList(p, u)
             \/ SendLocation(p, u) \/ handleEncryptedMessage(p, u)
             \/ handleBotMessage(p, u) \/ \E r \in Sends : Forward(p, r, u)
      PROVE  Expires(send'[q])
  BY <1>3, <1>4
  DEF SendText, ScheduleMessage, SendToList, SendLocation, handleEncryptedMessage,
      handleBotMessage, Forward
<1>5. ASSUME NEW p \in Sends, GetDisappearingTimer(p) PROVE Expires(send'[q])
  <2>1. CASE p = q
    <3>1. send'[q] = [m EXCEPT !.step = "stamp", !.secs = timer[m.user]]
      BY <1>5, <1>t, <2>1 DEF GetDisappearingTimer
    <3>2. send'[q].step = "stamp"
      BY <3>1, <1>t DEF Message
    <3> QED
      BY <3>2 DEF Expires
  <2>2. CASE p # q
    BY <1>5, <1>t, <2>2, <1>0 DEF GetDisappearingTimer
  <2> QED
    BY <2>1, <2>2
<1>6. ASSUME NEW p \in Sends, Stamp(p) PROVE Expires(send'[q])
  <2>1. CASE p = q
    <3> DEFINE l == IF m.secs > 0 THEN m.secs ELSE Never
    <3>1. send'[q] = [m EXCEPT !.step = "store", !.secs = 0, !.left = l]
      BY <1>6, <1>t, <2>1 DEF Stamp
    <3>2. send'[q].left = l /\ send'[q].seen = m.seen
      BY <3>1, <1>t DEF Message
    <3>3. m.secs \in m.seen /\ m.secs \in 0..MaxTimer
      BY <1>6, <1>t, <2>1 DEF Stamp, At, InHand, Message
    <3>4. 0 \notin m.seen => l # Never
      BY <3>3 DEF Never
    <3> QED
      BY <3>2, <3>4 DEF Expires
  <2>2. CASE p # q
    BY <1>6, <1>t, <2>2, <1>0 DEF Stamp
  <2> QED
    BY <2>1, <2>2
<1>7. ASSUME NEW s, m.step \in {"store", "stored"}, send'[q] = [m EXCEPT !.step = s]
      PROVE  Expires(send'[q])
  <2>1. send'[q].left = m.left /\ send'[q].seen = m.seen
    BY <1>7, <1>t DEF Message
  <2> QED
    BY <1>7, <2>1, <1>t DEF Expires
<1>8. ASSUME NEW p \in Sends, Store(p) PROVE Expires(send'[q])
  <2>1. CASE p = q
    BY <1>8, <1>t, <2>1, <1>7 DEF Store, Moves, At
  <2>2. CASE p # q
    BY <1>8, <1>t, <2>2, <1>0 DEF Store, Moves
  <2> QED
    BY <2>1, <2>2
<1>9. CASE cleanupExpiredMessages
  <2>1. CASE q \in due /\ At(q, "stored")
    BY <1>9, <2>1, <1>7 DEF cleanupExpiredMessages, At
  <2>2. CASE ~(q \in due /\ At(q, "stored"))
    BY <1>9, <2>2, <1>0 DEF cleanupExpiredMessages
  <2> QED
    BY <2>1, <2>2
<1>10. CASE Stop
  <2>1. CASE send'[q] = [Unsent EXCEPT !.step = "lost"]
    <3>1. send'[q].step = "lost"
      BY <2>1 DEF Unsent
    <3> QED
      BY <3>1 DEF Expires
  <2> QED
    BY <1>10, <2>1, <1>0 DEF Stop
<1>11. CASE ReadNow \/ Start \/ UNCHANGED vars
  BY <1>11, <1>0 DEF ReadNow, Start, vars
<1> QED
  BY <1>0, <1>1, <1>2, <1>4, <1>5, <1>6, <1>8, <1>9, <1>10, <1>11 DEF Next

\* What GoneWhenOn rests on: a text sent over the connection, and stored while its
\* sender's timer was on from the first step of its handler to the last, has an expiry,
\* however often the timer was changed between the step that reads it and the one that
\* stores the row.  Every other message, scheduled texts and those of a broadcast list
\* included, has none, whatever the timer.
THEOREM OnMeansExpiry ==
  Spec => [](\A q \in Stored :
               /\ send[q].seen # {} /\ 0 \notin send[q].seen => send[q].left # Never
               /\ send[q].seen = {} => send[q].left = Never)
<1>1. Init => ExpiresAll
  BY DEF Init, Unsent, ExpiresAll, Expires
<1>2. IInv /\ ExpiresAll =>
        \A q \in Stored :
          /\ send[q].seen # {} /\ 0 \notin send[q].seen => send[q].left # Never
          /\ send[q].seen = {} => send[q].left = Never
  BY DEF IInv, Timed, ExpiresAll, Expires, Stored
<1> QED
  BY Invariance, ExpiresStep, <1>1, <1>2, PTL DEF Spec

(***************************************************************************)
(* Scheduled messages: a message is handed out at most once, never early,   *)
(* and never after its cancellation.                                        *)
(***************************************************************************)

\* Why a message is handed out once: a row still pending has not been, the
\* messages of a pass are all pending and due, and the one being handled has
\* had scheduled_at cleared but has not been handed out yet.
Fresh ==
  /\ \A m \in pending : attempts[m] = 0 /\ place[m] = "stored"
  /\ batch \subseteq ripe
  /\ \A m \in batch : attempts[m] = 0 /\ (m \in pending \/ m \in raced)
  /\ pc = "deliver" =>
       /\ attempts[cur] = 0 /\ cur \in ripe /\ cur \notin pending \cup batch
       /\ place[cur] = "stored" \/ cur \in raced
  /\ pc = "sleep" => batch = {}

\* A cancellation can only be in the way of a pass that began after it.
Overtaken == \A m \in cancels : /\ place[m] # "none"
                                /\ m \in batch => m \in raced

\* The text of a time comes with its instant, before it or after it, as the offsets say.
Zoned == \A m \in ripe : zone[m] # "behind" => m \in elapsed

\* What the scheduler holds and is deleted was deleted while it held it.
HeldWhenDeleted == /\ batch \cap deleted \subseteq late
                   /\ pc = "deliver" => cur \notin deleted \ late

\* A row that does not exist yet has no past.
Unborn == \A m \in Msgs : place[m] = "none" =>
            attempts[m] = 0 /\ m \notin pending /\ m \notin elapsed \cup ripe

SchedulerInv == /\ SchedulerTypeOK
        /\ Fresh
        /\ Overtaken
        /\ Zoned
        /\ HeldWhenDeleted
        /\ Unborn
        /\ AtMostOnce
        /\ NotEarly
        /\ RemovedIsNeverDelivered

\* The empty table satisfies the invariant.
LEMMA SchedulerInitInv == SchedulerInit => SchedulerInv
<1> SUFFICES ASSUME SchedulerInit PROVE SchedulerInv
  OBVIOUS
<1>1. SchedulerTypeOK
  <2>1. crashes \in 0 .. MaxCrashes
    BY DEF SchedulerInit
  <2>2. /\ place \in [Msgs -> {"none", "stored", "removed"}]
        /\ status \in [Msgs -> Status] /\ zone \in [Msgs -> Zones]
        /\ attempts \in [Msgs -> {0, 1, 2}]
    BY DEF SchedulerInit, Status, Zones
  <2> QED
    BY <2>1, <2>2 DEF SchedulerInit, SchedulerTypeOK
<1>2. Fresh /\ Overtaken /\ Zoned /\ HeldWhenDeleted /\ Unborn
  BY DEF SchedulerInit, Fresh, Overtaken, Zoned, HeldWhenDeleted, Unborn
<1>3. AtMostOnce /\ NotEarly /\ RemovedIsNeverDelivered
  BY DEF SchedulerInit, AtMostOnce, NotEarly, RemovedIsNeverDelivered
<1> QED
  BY <1>1, <1>2, <1>3 DEF SchedulerInv

\* Every statement of the scheduler, the handlers and the recipient keeps the
\* invariant; those that carry the argument are Clear, which takes a message out of
\* pending before it is delivered, and CancelNow, which finds a message not due and
\* so in no pass: a pass that holds the row when Cancel removes it has begun since.
LEMMA SchedulerInvStep == SchedulerInv /\ [SchedulerNext]_schedulerVars => SchedulerInv'
<1> SUFFICES ASSUME SchedulerInv, [SchedulerNext]_schedulerVars PROVE SchedulerInv'
  OBVIOUS
<1> USE DEF SchedulerInv, SchedulerTypeOK, Status, Zones, Scheduled, Fresh, Overtaken, Zoned,
            HeldWhenDeleted, Unborn, AtMostOnce, NotEarly, RemovedIsNeverDelivered,
            row, loop, clock, env, past
<1>1. ASSUME NEW m \in Msgs, Schedule(m) PROVE SchedulerInv'
  BY <1>1 DEF Schedule
<1>2. ASSUME NEW m \in Msgs, Cancel(m) PROVE SchedulerInv'
  BY <1>2 DEF Cancel
<1>15. ASSUME NEW m \in Msgs, CancelNow(m) PROVE SchedulerInv'
  BY <1>15 DEF CancelNow
<1>16. ASSUME NEW m \in Msgs, Ripen(m) PROVE SchedulerInv'
  BY <1>16 DEF Ripen
<1>3. ASSUME NEW m \in Msgs, DeleteForEveryone(m) PROVE SchedulerInv'
  BY <1>3 DEF DeleteForEveryone
<1>4. ASSUME NEW m \in Msgs, Elapse(m) PROVE SchedulerInv'
  BY <1>4 DEF Elapse
<1>5. CASE History
  BY <1>5 DEF History
<1>7. CASE Tick
  BY <1>7 DEF Tick, DueNow
<1>8. ASSUME NEW m \in Msgs, Clear(m) PROVE SchedulerInv'
  BY <1>8 DEF Clear, Cleared
<1>9. CASE Deliver
  BY <1>9 DEF Deliver
<1>10. CASE MarkDelivered
  BY <1>10 DEF MarkDelivered
<1>11. CASE PassDone
  BY <1>11 DEF PassDone
<1>12. CASE Crash
  <2>1. crashes' \in 0 .. MaxCrashes
    BY <1>12 DEF Crash
  <2>2. lost' \subseteq Msgs
    BY <1>12 DEF Crash
  <2> QED
    BY <1>12, <2>1, <2>2 DEF Crash
<1>13. CASE Restart
  BY <1>13 DEF Restart
<1>14. CASE UNCHANGED schedulerVars
  BY <1>14 DEF schedulerVars
<1> QED
  BY <1>1, <1>2, <1>3, <1>4, <1>5, <1>7, <1>8, <1>9, <1>10, <1>11, <1>12,
     <1>13, <1>14, <1>15, <1>16
  DEF SchedulerNext, SchedulerStep

\* The invariant holds in every reachable state.
THEOREM SchedulerInvariance == SchedulerSpec => []SchedulerInv
  BY SchedulerInitInv, SchedulerInvStep, PTL DEF SchedulerSpec

\* Every variable keeps its type.
THEOREM SchedulerTyping == SchedulerSpec => []SchedulerTypeOK
<1>1. SchedulerInv => SchedulerTypeOK
  BY DEF SchedulerInv
<1> QED
  BY SchedulerInvariance, <1>1, PTL

\* No pass, cancellation or crash makes the scheduler hand a message out twice.
THEOREM DeliveredAtMostOnce == SchedulerSpec => []AtMostOnce
<1>1. SchedulerInv => AtMostOnce
  BY DEF SchedulerInv
<1> QED
  BY SchedulerInvariance, <1>1, PTL

\* Nothing is handed out before its scheduled time, as the queries compare it: before
\* the instant only where the sender's offset is behind the server's.
THEOREM NeverEarly == SchedulerSpec => []NotEarly
<1>1. SchedulerInv => NotEarly
  BY DEF SchedulerInv
<1> QED
  BY SchedulerInvariance, <1>1, PTL

\* A cancellation that removed the message is final, unless a pass fetched the message
\* between the two steps of the cancellation.
THEOREM RemovalIsFinal == SchedulerSpec => []RemovedIsNeverDelivered
<1>1. SchedulerInv => RemovedIsNeverDelivered
  BY DEF SchedulerInv
<1> QED
  BY SchedulerInvariance, <1>1, PTL

\* A deleted message is handed out only by the pass that had it in its batch
\* when it was deleted.
THEOREM DeletionIsSeen == SchedulerSpec => DeletedIsNotDelivered
<1>1. SchedulerInv /\ [SchedulerNext]_schedulerVars
        => [\A m \in deleted \ late : attempts'[m] = attempts[m]]_schedulerVars
  <2> SUFFICES ASSUME SchedulerInv, [SchedulerNext]_schedulerVars, NEW m \in deleted \ late
               PROVE  attempts'[m] = attempts[m]
    OBVIOUS
  <2> USE DEF SchedulerInv, SchedulerTypeOK, HeldWhenDeleted, row, loop, clock, env, past
  <2>1. CASE Deliver
    <3>1. m # cur
      BY <2>1 DEF Deliver
    <3> QED
      BY <2>1, <3>1 DEF Deliver
  <2>2. ASSUME NEW n \in Msgs,
               \/ Schedule(n) \/ CancelNow(n) \/ Cancel(n) \/ DeleteForEveryone(n)
               \/ Elapse(n) \/ Ripen(n) \/ Clear(n)
        PROVE  attempts' = attempts
    BY <2>2 DEF Schedule, CancelNow, Cancel, DeleteForEveryone, Elapse, Ripen, Clear
  <2>3. CASE History \/ Tick \/ MarkDelivered \/ PassDone
             \/ Crash \/ Restart \/ UNCHANGED schedulerVars
    BY <2>3
    DEF History, Tick, MarkDelivered, PassDone, Crash, Restart, schedulerVars
  <2> QED
    BY <2>1, <2>2, <2>3 DEF SchedulerNext, SchedulerStep
<1> QED
  BY SchedulerInvariance, <1>1, PTL DEF SchedulerSpec, DeletedIsNotDelivered

----------------------------------------------------------------------------
\* What the scheduler still owes: a stored message that was neither handed out,
\* deleted, lost nor marked read has the status "sent", and is pending or about to be
\* handed out.
Owed(m) == /\ place[m] = "stored" /\ attempts[m] = 0
           /\ m \notin deleted \cup lost /\ status[m] # "read"

NoneForgotten ==
  /\ \A m \in Msgs : Owed(m) =>
       status[m] = "sent" /\ (m \in pending \/ (pc = "deliver" /\ cur = m))
  /\ \A m \in Msgs : place[m] = "none" => status[m] = "sent"
  /\ pc = "update" => attempts[cur] > 0

\* Only the recipient's history and a delivery change a status, only a delivery, a
\* cancellation or a crash ends what Clear began.
LEMMA NoneForgottenStep ==
  SchedulerInv /\ NoneForgotten /\ [SchedulerNext]_schedulerVars => NoneForgotten'
<1> SUFFICES ASSUME SchedulerInv, NoneForgotten, [SchedulerNext]_schedulerVars
             PROVE  NoneForgotten'
  OBVIOUS
<1> USE DEF SchedulerInv, SchedulerTypeOK, Status, Scheduled, Fresh, Unborn,
            row, loop, clock, env, past
<1>s. SchedulerNext \/ UNCHANGED schedulerVars
  OBVIOUS
<1>1. ASSUME NEW m \in Msgs, Owed(m)'
      PROVE  status'[m] = "sent" /\ (m \in pending' \/ (pc' = "deliver" /\ cur' = m))
  <2>a. place'[m] = "stored" /\ attempts'[m] = 0 /\ m \notin deleted' \cup lost'
      /\ status'[m] # "read"
    BY <1>1 DEF Owed
  <2>b. /\ place[m] = "stored" /\ attempts[m] = 0 /\ m \notin deleted \cup lost
          /\ status[m] # "read" => status[m] = "sent" /\ (m \in pending \/ (pc = "deliver" /\ cur = m))
        /\ place[m] = "none" => status[m] = "sent"
        /\ pc = "update" => attempts[cur] > 0
    BY DEF NoneForgotten, Owed
  <2> HIDE DEF Fresh, Unborn
  <2>1. ASSUME NEW n \in Msgs, Schedule(n) 
        PROVE  status'[m] = "sent" /\ (m \in pending' \/ (pc' = "deliver" /\ cur' = m))
    <3>1. place[n] = "none" /\ pending' = pending \cup {n} /\ status' = status
          /\ place' = [place EXCEPT ![n] = "stored"]
          /\ UNCHANGED <<pc, cur, attempts, deleted, lost>>
      BY <2>1 DEF Schedule
    <3>2. CASE m = n
      BY <3>1, <3>2, <2>b
    <3>3. CASE m # n
      BY <3>1, <3>3, <2>a, <2>b
    <3> QED
      BY <3>2, <3>3
  <2>2. ASSUME NEW n \in Msgs,
               \/ CancelNow(n) \/ Cancel(n) \/ DeleteForEveryone(n)
               \/ Elapse(n) \/ Ripen(n) \/ Clear(n)
        PROVE  status'[m] = "sent" /\ (m \in pending' \/ (pc' = "deliver" /\ cur' = m))
    BY <2>2, <2>a, <2>b
    DEF CancelNow, Cancel, DeleteForEveryone, Elapse, Ripen, Clear, Cleared
  <2>3. CASE History
    BY <2>3, <2>a, <2>b DEF History
  <2>4. CASE Tick \/ PassDone \/ Restart
    BY <2>4, <2>a, <2>b DEF Tick, PassDone, Restart
  <2>5. CASE Deliver
    BY <2>5, <2>a, <2>b DEF Deliver
  <2>6. CASE MarkDelivered
    BY <2>6, <2>a, <2>b DEF MarkDelivered
  <2>7. CASE Crash
    BY <2>7, <2>a, <2>b DEF Crash
  <2>8. CASE UNCHANGED schedulerVars
    BY <2>8, <2>a, <2>b DEF schedulerVars
  <2> QED
    BY <1>s, <2>1, <2>2, <2>3, <2>4, <2>5, <2>6, <2>7, <2>8 DEF SchedulerNext, SchedulerStep
<1>2. ASSUME NEW m \in Msgs, place'[m] = "none" PROVE status'[m] = "sent"
  <2>b. /\ place[m] = "none" => status[m] = "sent" /\ attempts[m] = 0
        /\ pc = "update" => attempts[cur] > 0
    BY DEF NoneForgotten
  <2> HIDE DEF Fresh, Unborn
  <2>1. ASSUME NEW n \in Msgs,
               \/ Schedule(n) \/ CancelNow(n) \/ Cancel(n) \/ DeleteForEveryone(n)
               \/ Elapse(n) \/ Ripen(n) \/ Clear(n)
        PROVE  status'[m] = "sent"
    BY <1>2, <2>1, <2>b
    DEF Schedule, CancelNow, Cancel, DeleteForEveryone, Elapse, Ripen, Clear
  <2>2. CASE History
    BY <1>2, <2>2, <2>b DEF History
  <2>3. CASE MarkDelivered
    BY <1>2, <2>3, <2>b DEF MarkDelivered
  <2>4. CASE Tick \/ PassDone \/ Restart \/ Deliver \/ Crash
             \/ UNCHANGED schedulerVars
    BY <1>2, <2>4, <2>b
    DEF Tick, PassDone, Restart, Deliver, Crash, schedulerVars
  <2> QED
    BY <1>s, <2>1, <2>2, <2>3, <2>4 DEF SchedulerNext, SchedulerStep
<1>3. ASSUME pc' = "update" PROVE attempts'[cur'] > 0
  <2>b. pc = "update" => attempts[cur] > 0
    BY DEF NoneForgotten
  <2> HIDE DEF Fresh, Unborn
  <2>1. CASE Deliver
    BY <1>3, <2>1 DEF Deliver
  <2>2. ASSUME NEW n \in Msgs,
               \/ Schedule(n) \/ CancelNow(n) \/ Cancel(n) \/ DeleteForEveryone(n)
               \/ Elapse(n) \/ Ripen(n) \/ Clear(n)
        PROVE  attempts'[cur'] > 0
    BY <1>3, <2>2, <2>b
    DEF Schedule, CancelNow, Cancel, DeleteForEveryone, Elapse, Ripen, Clear
  <2>3. CASE History \/ Tick \/ PassDone \/ Restart \/ MarkDelivered
             \/ Crash \/ UNCHANGED schedulerVars
    BY <1>3, <2>3, <2>b
    DEF History, Tick, PassDone, Restart, MarkDelivered, Crash, schedulerVars
  <2> QED
    BY <1>s, <2>1, <2>2, <2>3 DEF SchedulerNext, SchedulerStep
<1> QED
  BY <1>1, <1>2, <1>3 DEF NoneForgotten

\* What HandedOut rests on: between two passes a stored message whose time has come, as
\* the queries compare it, and that was not handed out, deleted, lost to a crash or
\* marked read by the history, is among those the next pass will find; so no
\* cancellation that failed, no other message's delivery and no restart makes the
\* scheduler forget it.
THEOREM NextPassFindsIt ==
  SchedulerSpec => [](pc = "sleep" => \A m \in ripe : Owed(m) => m \in DueNow)
<1>1. SchedulerInit => NoneForgotten
  BY DEF SchedulerInit, NoneForgotten, Owed
<1>2. SchedulerInv /\ NoneForgotten =>
        (pc = "sleep" => \A m \in ripe : Owed(m) => m \in DueNow)
  BY DEF SchedulerInv, SchedulerTypeOK, NoneForgotten, Owed, DueNow, Scheduled
<1> QED
  BY SchedulerInvariance, NoneForgottenStep, <1>1, <1>2, PTL DEF SchedulerSpec
=============================================================================
