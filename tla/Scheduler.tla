----------------------------- MODULE Scheduler -----------------------------
(***************************************************************************)
(* Scheduled direct messages: the scheduler goroutine                       *)
(* (internal/services/scheduler.go), its delivery callback                  *)
(* (cmd/server/main.go), the handlers that create, list and cancel them and *)
(* the recipient's GetHistory (internal/api/handlers/messages.go), and the  *)
(* process stopping between two statements.                                 *)
(*                                                                          *)
(* Time is two things here.  ScheduleMessage compares instants, and Elapse(m) *)
(* is the instant of m passing.  The queries compare texts: the driver writes *)
(* a time as local time with its offset, a stored one in the offset the       *)
(* client gave it and the clock in the server's; Ripen(m) is the server's     *)
(* clock passing the text of m.  They coincide only for an offset that is the *)
(* server's own; a client west of it is served early, one east of it late.    *)
(*                                                                          *)
(* Whether SendToUser finds a connection with room is the environment's      *)
(* choice; if not, the callback sends a push instead.                       *)
(*                                                                          *)
(* Its Init, Next, Spec and TypeOK have names of their own, so that its     *)
(* theorems can stand beside those of module Retention.                     *)
(***************************************************************************)
EXTENDS Naturals

CONSTANTS Msgs,       \* ids of scheduled messages (the bound of a run)
          NoMsg,
          MaxCrashes  \* bound on the stops of the process

ASSUME SchedulerAssumption == NoMsg \notin Msgs /\ MaxCrashes \in Nat

VARIABLES
  place,      \* "none", "stored", or "removed" by a cancellation
  pending,    \* rows whose scheduled_at is not null
  zone,       \* the offset of scheduled_at against the server's
  elapsed,    \* messages whose scheduled instant has come
  ripe,       \* messages whose scheduled_at is not after the clock, as texts
  cancels,    \* cancellations that have read the clock and found m not due
  status,     \* Message.Status
  deleted,    \* rows with deleted_at set ("delete for everyone")
  pc,         \* the scheduler goroutine
  batch,      \* messages of this pass not handled yet
  cur,        \* the message being handled
  attempts,   \* deliveries handed out: 0, 1, or 2 for "more than one"
  late,       \* messages deleted while the scheduler had them (history)
  raced,      \* messages fetched with a cancellation under way (history)
  lost,       \* messages being handled when the process stopped (history)
  up, crashes

schedulerVars == <<place, pending, zone, elapsed, ripe, cancels, status, deleted, pc,
                   batch, cur, attempts, late, raced, lost, up, crashes>>

Status == {"sent", "delivered", "read"}
Zones  == {"server", "behind", "ahead"}
Scheduled == {m \in Msgs : place[m] = "stored"}

SchedulerTypeOK ==
  /\ place \in [Msgs -> {"none", "stored", "removed"}]
  /\ zone \in [Msgs -> Zones]
  /\ pending \subseteq Msgs /\ elapsed \subseteq Msgs /\ ripe \subseteq Msgs
  /\ cancels \subseteq Msgs
  /\ status \in [Msgs -> Status]
  /\ deleted \subseteq Msgs
  /\ pc \in {"sleep", "loop", "deliver", "update"}
  /\ batch \subseteq Msgs
  /\ cur \in Msgs \cup {NoMsg}
  /\ pc \in {"deliver", "update"} => cur \in Msgs
  /\ pc = "sleep" => batch = {}
  /\ attempts \in [Msgs -> {0, 1, 2}]
  /\ raced \subseteq Msgs /\ late \subseteq Msgs /\ lost \subseteq Msgs
  /\ up \in BOOLEAN
  /\ crashes \in 0 .. MaxCrashes

SchedulerInit ==
  /\ place = [m \in Msgs |-> "none"]
  /\ zone = [m \in Msgs |-> "server"]
  /\ pending = {} /\ elapsed = {} /\ ripe = {} /\ cancels = {}
  /\ status = [m \in Msgs |-> "sent"]
  /\ deleted = {}
  /\ pc = "sleep" /\ batch = {} /\ cur = NoMsg
  /\ attempts = [m \in Msgs |-> 0]
  /\ raced = {} /\ late = {} /\ lost = {}
  /\ up = TRUE /\ crashes = 0

row   == <<place, pending, zone, status, deleted>>
loop  == <<pc, batch, cur>>
clock == <<elapsed, ripe>>
env   == <<up, crashes, lost>>
past  == <<attempts, late, raced>>

----------------------------------------------------------------------------
(* The sender's requests.                                                   *)

\* ScheduleMessage: the instant must be in the future.  Whether either user has
\* blocked the other is asked here and by nobody later; a refusal changes nothing.
Schedule(m) ==
  /\ up /\ place[m] = "none" /\ m \notin elapsed
  /\ place' = [place EXCEPT ![m] = "stored"]
  /\ pending' = pending \cup {m}
  /\ \E z \in Zones : zone' = [zone EXCEPT ![m] = z]
  /\ UNCHANGED <<status, deleted, cancels, loop, clock, env, past>>

\* Mutant: any message not delivered yet may be cancelled, due or not.
CancelNow_Due(m) ==
  /\ up /\ place[m] = "stored" /\ m \notin cancels
  /\ cancels' = cancels \cup {m}
  /\ UNCHANGED <<row, loop, clock, env, past>>

\* The clock a cancellation compares with is read before its DELETE runs; one that
\* finds the message due will remove nothing.
CancelNow(m) ==
  /\ up /\ place[m] = "stored" /\ m \notin ripe \cup cancels
  /\ cancels' = cancels \cup {m}
  /\ UNCHANGED <<row, loop, clock, env, past>>

\* The DELETE: only a row whose scheduled_at is not null; the handler answers
\* success whenever the statement ran, rows removed or not.
Cancel(m) ==
  /\ up /\ m \in cancels
  /\ cancels' = cancels \ {m}
  /\ IF place[m] = "stored" /\ m \in pending
     THEN place' = [place EXCEPT ![m] = "removed"] /\ pending' = pending \ {m}
     ELSE UNCHANGED <<place, pending>>
  /\ UNCHANGED <<zone, status, deleted, loop, clock, env, past>>

\* handleMessageDelete, "everyone", on a message that is only scheduled.
DeleteForEveryone(m) ==
  /\ up /\ place[m] = "stored"
  /\ deleted' = deleted \cup {m}
  /\ late' = IF m \in batch \cup {cur} THEN late \cup {m} ELSE late
  /\ UNCHANGED <<place, pending, zone, status, cancels, loop, clock, env, attempts, raced>>

----------------------------------------------------------------------------
(* The recipient.                                                           *)

\* GetHistory, the second statement: it does not look at scheduled_at and marks the
\* whole conversation read.  The first statement is a page of it, so a message
\* marked here may have been shown to the recipient or not.
History ==
  /\ up /\ Scheduled # {}
  /\ status' = [m \in Msgs |-> IF m \in Scheduled THEN "read" ELSE status[m]]
  /\ UNCHANGED <<place, pending, zone, deleted, cancels, loop, clock, env, past>>

----------------------------------------------------------------------------
(* Time.                                                                    *)

Elapse(m) ==
  /\ m \in Scheduled \ elapsed
  /\ zone[m] = "behind" => m \in ripe
  /\ elapsed' = elapsed \cup {m}
  /\ ripe' = IF zone[m] = "server" THEN ripe \cup {m} ELSE ripe
  /\ UNCHANGED <<row, cancels, loop, env, past>>

Ripen(m) ==
  /\ m \in Scheduled \ ripe /\ zone[m] # "server"
  /\ zone[m] = "ahead" => m \in elapsed
  /\ ripe' = ripe \cup {m}
  /\ UNCHANGED <<row, cancels, loop, elapsed, env, past>>

----------------------------------------------------------------------------
(* The scheduler goroutine, woken by its ticker.                            *)

\* Mutant: the query forgets deleted_at IS NULL.
DueNow_Deleted == {m \in Scheduled \cap pending \cap ripe : status[m] = "sent"}

\* Mutant: the query does not compare scheduled_at with the clock.
DueNow_AnyTime == {m \in Scheduled \cap pending : status[m] = "sent"} \ deleted

DueNow == {m \in Scheduled \cap pending \cap ripe : status[m] = "sent"} \ deleted

\* The pass reads the clock and then queries.  As one step nothing is lost: what
\* becomes due in between is as if it became due after the query.
Tick ==
  /\ up /\ pc = "sleep"
  /\ batch' = DueNow /\ pc' = "loop" /\ cur' = NoMsg
  /\ raced' = raced \cup (DueNow \cap cancels)
  /\ UNCHANGED <<row, cancels, clock, env, attempts, late>>

\* Mutant: scheduled_at is left as it is.
Cleared_None(m) == pending

\* Mutant: the update clears every row that is due.
Cleared_All(m) == pending \ ripe

\* Update("scheduled_at", nil) of one row, if it is still there.
Cleared(m) == pending \ {m}

Clear(m) ==
  /\ up /\ pc = "loop" /\ m \in batch
  /\ pending' = Cleared(m)
  /\ batch' = batch \ {m} /\ cur' = m /\ pc' = "deliver"
  /\ UNCHANGED <<place, zone, status, deleted, cancels, clock, env, past>>

\* deliverScheduledMessage: over the connection, or else by push.
Deliver ==
  /\ up /\ pc = "deliver"
  /\ attempts' = [attempts EXCEPT ![cur] = IF @ = 0 THEN 1 ELSE 2]
  /\ pc' \in {"update", "loop"}
  /\ UNCHANGED <<row, batch, cur, cancels, clock, env, late, raced>>

MarkDelivered ==
  /\ up /\ pc = "update"
  /\ status' = IF cur \in Scheduled THEN [status EXCEPT ![cur] = "delivered"] ELSE status
  /\ pc' = "loop"
  /\ UNCHANGED <<place, pending, zone, deleted, batch, cur, cancels, clock, env, past>>

PassDone ==
  /\ up /\ pc = "loop" /\ batch = {}
  /\ pc' = "sleep" /\ cur' = NoMsg
  /\ UNCHANGED <<row, batch, cancels, clock, env, past>>

----------------------------------------------------------------------------
(* The process stops, at any point, and is restarted; the table survives.   *)

Crash ==
  /\ up /\ crashes < MaxCrashes
  /\ up' = FALSE /\ crashes' = crashes + 1
  /\ lost' = IF pc = "deliver" THEN lost \cup {cur} ELSE lost
  /\ pc' = "sleep" /\ batch' = {} /\ cur' = NoMsg /\ cancels' = {}
  /\ UNCHANGED <<row, clock, past>>

Restart ==
  /\ ~up /\ up' = TRUE
  /\ UNCHANGED <<row, cancels, loop, clock, crashes, lost, past>>

----------------------------------------------------------------------------
SchedulerStep == Tick \/ (\E m \in Msgs : Clear(m)) \/ Deliver \/ MarkDelivered
                 \/ PassDone

SchedulerNext ==
  \/ \E m \in Msgs : \/ Schedule(m) \/ CancelNow(m) \/ Cancel(m)
                     \/ DeleteForEveryone(m) \/ Elapse(m) \/ Ripen(m)
  \/ History
  \/ SchedulerStep
  \/ Crash \/ Restart

SchedulerSpec == SchedulerInit /\ [][SchedulerNext]_schedulerVars

(* The clock goes on, the goroutine runs, a stopped process is restarted.   *)
FairSpec == /\ SchedulerSpec
            /\ \A m \in Msgs : WF_schedulerVars(Elapse(m)) /\ WF_schedulerVars(Ripen(m))
            /\ WF_schedulerVars(SchedulerStep)
            /\ WF_schedulerVars(Restart)

----------------------------------------------------------------------------
(* Properties.                                                              *)

\* A scheduled message is handed out at most once, whatever the passes of the
\* scheduler, the cancellations and the crashes: scheduled_at is cleared
\* before the delivery.
AtMostOnce == \A m \in Msgs : attempts[m] <= 1

\* The scheduler hands out nothing before its time, unless the sender's offset is
\* behind the server's: then it is the text of the time that has come, and nothing
\* is handed out before that.
NotEarly ==
  \A m \in Msgs : attempts[m] > 0 => /\ m \in ripe
                                     /\ zone[m] # "behind" => m \in elapsed

\* A message removed by a cancellation is never handed out, unless the pass that
\* hands it out fetched it between the cancellation's reading of the clock and its
\* DELETE (scheduler.go:112): the pass does not notice that the row has gone.
RemovedIsNeverDelivered ==
  \A m \in Msgs : place[m] = "removed" /\ m \notin raced => attempts[m] = 0

\* A message deleted for everyone is not handed out afterwards, unless the pass
\* that hands it out had it in its batch when it was deleted (scheduler.go:59).
DeletedIsNotDelivered ==
  [][\A m \in deleted \ late : attempts'[m] = attempts[m]]_schedulerVars

\* A scheduled message is eventually handed out, unless it is cancelled, deleted,
\* lost to a crash that falls between clearing scheduled_at and delivering, or
\* marked read by the recipient's history, which no later pass looks for.
HandedOut ==
  \A m \in Msgs :
    (place[m] = "stored")
      ~> (attempts[m] > 0 \/ place[m] = "removed" \/ m \in deleted \cup lost
          \/ status[m] = "read")
============================================================================
