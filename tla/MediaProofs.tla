---------------------------- MODULE MediaProofs ----------------------------
(***************************************************************************)
(* Proofs about moderated media, for any set of reviewers, with or without  *)
(* the mock, and any number of process stops.                               *)
(***************************************************************************)
EXTENDS Media, TLAPS

\* Nothing, or little, was found in the scan.
Low == scan # <<>> => scan[1] < POSSIBLE /\ scan[2] < POSSIBLE

\* Where the upload and its goroutine are is where the row says.
Phases ==
  /\ mod \in {"create", "scan"} => scan = <<>>
  /\ mod = "create" => status = "none"
  /\ mod \in {"scan", "update"} => status = "pending"
  /\ mod = "update" => verdict \in {"approved", "rejected", "review"}
  /\ mod = "rename" => verdict = "approved"
  /\ mod = "remove" => verdict = "rejected"
  /\ mod = "path" => verdict \in {"approved", "rejected"}
  /\ mod \in {"rename", "remove", "path"} => status = verdict
  /\ status = "none" => file # "approved" /\ path = "nowhere" /\ scan = <<>>

\* A review begins after the goroutine has written "review" and ended.
Reviews ==
  \A r \in Reviewers :
    /\ review[r] # "idle" => mod = "off" /\ status \notin {"none", "pending"}
    /\ review[r] \in {"rename", "approve"} => passed

\* What is approved without a reviewer was found harmless.
Harmless ==
  /\ mod = "update" /\ verdict = "approved" => Low
  /\ (file = "approved" \/ status = "approved") /\ ~passed => Low

IInv == TypeOK /\ Phases /\ Reviews /\ ScanAndReviewAreApart /\ Harmless

USE MediaAssumption

\* Nothing has been uploaded.
LEMMA InitInv == Init => IInv
<1> SUFFICES ASSUME Init PROVE IInv
  OBVIOUS
<1>1. TypeOK
  <2>1. crashes \in 0 .. MaxCrashes
    BY DEF Init
  <2>2. passed \in BOOLEAN /\ crowded \in BOOLEAN /\ botched \in BOOLEAN
    BY DEF Init
  <2> QED
    BY <2>1, <2>2 DEF Init, TypeOK, Statuses, Places
<1>2. Phases /\ Reviews /\ ScanAndReviewAreApart /\ Harmless
  BY DEF Init, Phases, Reviews, ScanAndReviewAreApart, Harmless
<1> QED
  BY <1>1, <1>2 DEF IInv

\* What makeDecision lets through is below POSSIBLE on both counts.
LEMMA DecisionIsStrict ==
  ASSUME NEW adult \in Likelihood, NEW violence \in Likelihood
  PROVE  /\ Decision(adult, violence) \in {"approved", "rejected", "review"}
         /\ Decision(adult, violence) = "approved" => adult < POSSIBLE /\ violence < POSSIBLE
  BY DEF Decision, Likelihood, POSSIBLE, LIKELY

\* An operation nobody checks leaves the file or does what it is for.
LEMMA FileMoves ==
  ASSUME NEW to, Unchecked(to), botched \in BOOLEAN
  PROVE  file' \in {file, to} /\ botched' \in BOOLEAN
  BY DEF Unchecked

\* Each step of the upload, of a review and of a process stop keeps the
\* invariant; the scan brings Low in, and only a review that was chosen to
\* approve goes around it.
LEMMA InvStep == IInv /\ [Next]_vars => IInv'
<1> SUFFICES ASSUME IInv, [Next]_vars PROVE IInv'
  OBVIOUS
<1> USE DEF IInv, TypeOK, Phases, Reviews, ScanAndReviewAreApart, Harmless, Low,
            Statuses, Places
<1>1. CASE SaveFile
  BY <1>1 DEF SaveFile
<1>2. CASE CreateRow
  BY <1>2 DEF CreateRow
<1>3. CASE CreateFails
  BY <1>3 DEF CreateFails, Unchecked
<1>4. CASE Scan
  <2>1. ASSUME NEW adult \in Likelihood, NEW violence \in Likelihood,
               scan' = <<adult, violence>>, verdict' = Decision(adult, violence)
        PROVE  IInv'
    <3>1. /\ verdict' \in {"approved", "rejected", "review"}
          /\ verdict' = "approved" => adult < POSSIBLE /\ violence < POSSIBLE
      BY <2>1, DecisionIsStrict
    <3>2. scan' \in Likelihood \X Likelihood /\ scan'[1] = adult /\ scan'[2] = violence
      BY <2>1
    <3> QED
      BY <1>4, <3>1, <3>2 DEF Scan
  <2>2. ASSUME verdict' \in {"review", "approved"}, UNCHANGED scan PROVE IInv'
    BY <1>4, <2>2 DEF Scan
  <2> QED
    BY <1>4, <2>1, <2>2 DEF Scan
<1>5. CASE UpdateStatus
  BY <1>5 DEF UpdateStatus
<1>6. CASE Rename
  BY <1>6 DEF Rename, Unchecked
<1>7. CASE Remove
  BY <1>7 DEF Remove, Unchecked
<1>8. CASE UpdatePath
  BY <1>8 DEF UpdatePath
<1>9. ASSUME NEW r \in Reviewers, NEW to \in {"rename", "remove"}, ReviewStart(r, to)
      PROVE  IInv'
  <2>1. TypeOK'
    BY <1>9 DEF ReviewStart
  <2>2. Phases' /\ Reviews' /\ ScanAndReviewAreApart' /\ Harmless'
    BY <1>9 DEF ReviewStart
  <2> QED
    BY <2>1, <2>2
<1>10. ASSUME NEW r \in Reviewers, ReviewRename(r) PROVE IInv'
  BY <1>10 DEF ReviewRename
<1>11. ASSUME NEW r \in Reviewers, ReviewApprove(r) PROVE IInv'
  BY <1>11 DEF ReviewApprove
<1>12. ASSUME NEW r \in Reviewers, ReviewRemove(r) PROVE IInv'
  <2>1. mod = "off" /\ botched \in BOOLEAN
    BY <1>12 DEF ReviewRemove
  <2>2. file' \in {file, "nowhere"} /\ botched' \in BOOLEAN
    BY <1>12, <2>1, FileMoves DEF ReviewRemove
  <2>3. Reviews' /\ ScanAndReviewAreApart'
    BY <1>12 DEF ReviewRemove
  <2>4. Phases' /\ Harmless'
    BY <1>12, <2>2 DEF ReviewRemove
  <2>5. TypeOK'
    BY <1>12, <2>1, <2>2 DEF ReviewRemove
  <2> QED
    BY <2>3, <2>4, <2>5
<1>13. ASSUME NEW r \in Reviewers, ReviewReject(r) PROVE IInv'
  BY <1>13 DEF ReviewReject
<1>14. CASE Crash
  BY <1>14 DEF Crash
<1>15. CASE UNCHANGED vars
  BY <1>15 DEF vars
<1> QED
  BY <1>1, <1>2, <1>3, <1>4, <1>5, <1>6, <1>7, <1>8, <1>9, <1>10, <1>11, <1>12,
     <1>13, <1>14, <1>15
     DEF Next, Moderation, Reviewing

\* The invariant holds in every state of every behaviour.
THEOREM Invariance == Spec => []IInv
<1> QED
  BY InitInv, InvStep, PTL DEF Spec

\* The media's row and file, and the requests on them, keep their types.
THEOREM MediaTyping == Spec => []TypeOK
<1>1. IInv => TypeOK
  BY DEF IInv
<1> QED
  BY <1>1, Invariance, PTL

\* Nothing the scan flagged is served or lies in the public directory without a
\* reviewer's choice.
THEOREM FlaggedStaysPrivate == Spec => []FlaggedIsNeverPublic
<1>1. IInv => FlaggedIsNeverPublic
  BY DEF IInv, Harmless, Low, FlaggedIsNeverPublic, Public, Served
<1> QED
  BY <1>1, Invariance, PTL

\* A review and the moderation goroutine never work on one file at once.
THEOREM Apart == Spec => []ScanAndReviewAreApart
<1>1. IInv => ScanAndReviewAreApart
  BY DEF IInv
<1> QED
  BY <1>1, Invariance, PTL

----------------------------------------------------------------------------
(* Where the file is, with no stop and no two reviews at one time.          *)

Calm == crashes = 0 /\ ~crowded

\* Status, path and file while the goroutine works.
ModerationOnCourse ==
  /\ mod = "create" => path = "nowhere" /\ file = "quarantine"
  /\ mod \in {"scan", "update", "rename", "remove"} =>
       path = "quarantine" /\ file = "quarantine"
  /\ mod = "path" => file = IF botched THEN "quarantine"
                            ELSE IF verdict = "approved" THEN "approved" ELSE "nowhere"
  /\ mod \notin {"off", "path"} => ~botched

\* Status, path and file while a review is under way.
ReviewOnCourse ==
  \A r \in Reviewers :
    /\ \A s \in Reviewers : review[r] # "idle" /\ review[s] # "idle" => r = s
    /\ review[r] # "idle" => status = "review" /\ path = "quarantine"
    /\ review[r] \in {"rename", "remove"} => file = "quarantine"
    /\ review[r] = "approve" => file = "approved"
    /\ review[r] = "reject" => file = IF botched THEN "quarantine" ELSE "nowhere"
    /\ review[r] \notin {"idle", "reject"} => ~botched

\* The same, and at rest the row is right.
OnCourse ==
  Calm => /\ ModerationOnCourse /\ ReviewOnCourse /\ SettledIsCoherent
          /\ AtRest /\ botched => status # "review"

\* While all is calm each step leaves the file where the next expects it.
LEMMA CourseStep == IInv /\ OnCourse /\ [Next]_vars => OnCourse'
<1> SUFFICES ASSUME IInv, OnCourse, [Next]_vars, Calm' PROVE OnCourse'
  BY DEF OnCourse
<1> USE DEF OnCourse, ModerationOnCourse, ReviewOnCourse, SettledIsCoherent, AtRest, Calm
<1>0. TypeOK /\ Phases /\ Reviews /\ ScanAndReviewAreApart
  BY DEF IInv
<1>1. CASE SaveFile
  BY <1>0, <1>1 DEF SaveFile, ScanAndReviewAreApart, Reviews
<1>2. CASE CreateRow
  BY <1>0, <1>2 DEF CreateRow, ScanAndReviewAreApart
<1>3. CASE CreateFails
  BY <1>0, <1>3 DEF CreateFails, Unchecked, ScanAndReviewAreApart, Phases
<1>4. CASE Scan
  BY <1>0, <1>4 DEF Scan, ScanAndReviewAreApart
<1>5. CASE UpdateStatus
  BY <1>0, <1>5 DEF UpdateStatus, ScanAndReviewAreApart, Phases
<1>6. CASE Rename
  BY <1>0, <1>6 DEF Rename, Unchecked, ScanAndReviewAreApart, Phases
<1>7. CASE Remove
  BY <1>0, <1>7 DEF Remove, Unchecked, ScanAndReviewAreApart, Phases
<1>8. CASE UpdatePath
  BY <1>0, <1>8 DEF UpdatePath, ScanAndReviewAreApart, Phases
<1>9. ASSUME NEW r \in Reviewers, NEW to \in {"rename", "remove"}, ReviewStart(r, to)
      PROVE  OnCourse'
  BY <1>0, <1>9 DEF ReviewStart, Phases, TypeOK
<1>10. ASSUME NEW r \in Reviewers, ReviewRename(r) PROVE OnCourse'
  BY <1>0, <1>10 DEF ReviewRename, Reviews, TypeOK
<1>11. ASSUME NEW r \in Reviewers, ReviewApprove(r) PROVE OnCourse'
  BY <1>0, <1>11 DEF ReviewApprove, Reviews, TypeOK
<1>12. ASSUME NEW r \in Reviewers, ReviewRemove(r) PROVE OnCourse'
  BY <1>0, <1>12 DEF ReviewRemove, Unchecked, Reviews, TypeOK
<1>13. ASSUME NEW r \in Reviewers, ReviewReject(r) PROVE OnCourse'
  BY <1>0, <1>13 DEF ReviewReject, Reviews, TypeOK
<1>14. CASE Crash
  BY <1>0, <1>14 DEF Crash, TypeOK
<1>15. CASE UNCHANGED vars
  BY <1>15 DEF vars
<1> QED
  BY <1>1, <1>2, <1>3, <1>4, <1>5, <1>6, <1>7, <1>8, <1>9, <1>10, <1>11, <1>12,
     <1>13, <1>14, <1>15
     DEF Next, Moderation, Reviewing

\* At rest, with no stop and no two reviews at one time, media is where its
\* path and its status say.
THEOREM Coherence == Spec => []SettledIsCoherent
<1>1. Init => OnCourse
  BY DEF Init, OnCourse, ModerationOnCourse, ReviewOnCourse, SettledIsCoherent
<1>2. OnCourse => SettledIsCoherent
  BY DEF OnCourse, SettledIsCoherent, Calm
<1> QED
  BY <1>1, <1>2, CourseStep, Invariance, PTL DEF Spec
----------------------------------------------------------------------------
\* With no process stop a pending row has its goroutine.
InGoodHands == status = "pending" /\ crashes = 0 => mod \in {"scan", "update"}

\* What PendingIsDecided rests on: the row is created with its goroutine, which goes
\* from the scan to the statement that writes the verdict, and the verdict is never
\* "pending"; no step of a reviewer comes between.
THEOREM NoPendingOrphan == Spec => []InGoodHands
<1>1. Init => InGoodHands
  BY DEF Init, InGoodHands
<1>2. IInv /\ InGoodHands /\ [Next]_vars => InGoodHands'
  <2> SUFFICES ASSUME IInv, InGoodHands, [Next]_vars PROVE InGoodHands'
    OBVIOUS
  <2> USE DEF IInv, TypeOK, Phases, Reviews, InGoodHands, Statuses
  <2>1. CASE SaveFile \/ CreateRow \/ CreateFails
    BY <2>1 DEF SaveFile, CreateRow, CreateFails
  <2>2. CASE Moderation
    BY <2>2 DEF Moderation, Scan, UpdateStatus, Rename, Remove, UpdatePath
  <2>3. ASSUME NEW r \in Reviewers, Reviewing(r) PROVE InGoodHands'
    BY <2>3 DEF Reviewing, ReviewStart, ReviewRename, ReviewApprove, ReviewRemove,
                ReviewReject
  <2>4. CASE Crash
    BY <2>4 DEF Crash
  <2>5. CASE UNCHANGED vars
    BY <2>5 DEF vars
  <2> QED
    BY <2>1, <2>2, <2>3, <2>4, <2>5 DEF Next
<1> QED
  BY Invariance, <1>1, <1>2, PTL DEF Spec
============================================================================
