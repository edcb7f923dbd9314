------------------------------- MODULE Media -------------------------------
(***************************************************************************)
(* One uploaded file on its way through moderation: the upload handler, the *)
(* background scan, the human reviewers, and what the process leaves behind *)
(* when it stops between two steps (internal/api/handlers/media.go,         *)
(* admin.go, internal/services/moderation.go).                              *)
(*                                                                          *)
(* Items share nothing: each has a file name (a uuid) and a row of its own. *)
(* Every file operation and every statement is an action.  Thumbnails and   *)
(* metadata are left out: they decide nothing here.                         *)
(***************************************************************************)
EXTENDS Naturals

CONSTANTS Reviewers,   \* concurrent review requests
          UseMock,     \* ModerationService.useMock
          MaxCrashes   \* bound on the process stops considered

ASSUME MediaAssumption == UseMock \in BOOLEAN /\ MaxCrashes \in Nat

VARIABLES
  kind,     \* the image or another media type
  status,   \* Media.Status, "none" without a row
  path,     \* Media.StoragePath
  file,     \* where the file really is; files in "approved" are served to all
  mod,      \* the upload request, then its moderation goroutine
  verdict,  \* what the scan decided
  review,   \* where each review request is
  scan,     \* adult and violence likelihoods found, <<>> without a scan (history)
  passed,   \* a reviewer has chosen to approve (history)
  crashes,  \* process stops so far
  crowded,  \* two reviews were under way at one time (history)
  botched   \* a file operation failed and nobody looked (history)

vars == <<kind, status, path, file, mod, verdict, review, scan, passed, crashes,
          crowded, botched>>

\* Likelihood: UNKNOWN, VERY_UNLIKELY, UNLIKELY, POSSIBLE, LIKELY, VERY_LIKELY.
Likelihood == 0 .. 5
POSSIBLE   == 3
LIKELY     == 4

Statuses == {"pending", "approved", "rejected", "review"}
Places   == {"nowhere", "quarantine", "approved"}

Init ==
  /\ kind \in {"image", "other"}
  /\ status = "none" /\ path = "nowhere" /\ file = "nowhere"
  /\ mod = "off" /\ verdict = "none"
  /\ review = [r \in Reviewers |-> "idle"]
  /\ scan = <<>> /\ passed = FALSE /\ crashes = 0 /\ crowded = FALSE /\ botched = FALSE

\* os.Rename or os.Remove of the file in quarantine, where nobody looks at whether
\* it failed.
Unchecked(to) ==
  \/ file = "quarantine" /\ file' = to /\ UNCHANGED botched
  \/ botched' = TRUE /\ UNCHANGED file

----------------------------------------------------------------------------
(* Upload: the file, then the row, then the goroutine.                      *)

SaveFile ==
  /\ mod = "off" /\ status = "none" /\ file = "nowhere"
  /\ mod' = "create" /\ file' = "quarantine"
  /\ UNCHANGED <<kind, status, path, verdict, review, scan, passed, crashes, crowded, botched>>

CreateRow ==
  /\ mod = "create"
  /\ status' = "pending" /\ path' = "quarantine" /\ mod' = "scan"
  /\ UNCHANGED <<kind, file, verdict, review, scan, passed, crashes, crowded, botched>>

\* The row cannot be created: the file is removed.
CreateFails ==
  /\ mod = "create"
  /\ Unchecked("nowhere") /\ mod' = "off"
  /\ UNCHANGED <<kind, status, path, verdict, review, scan, passed, crashes, crowded>>

----------------------------------------------------------------------------
(* processModeration.                                                       *)

\* Mutant: off by one, POSSIBLE is let through.
Decision_OffByOne(adult, violence) ==
  IF adult >= LIKELY \/ violence >= LIKELY THEN "rejected"
  ELSE IF adult > POSSIBLE \/ violence > POSSIBLE THEN "review"
  ELSE "approved"

\* makeDecision.
Decision(adult, violence) ==
  IF adult >= LIKELY \/ violence >= LIKELY THEN "rejected"
  ELSE IF adult >= POSSIBLE \/ violence >= POSSIBLE THEN "review"
  ELSE "approved"

\* The scan of an image answers or fails; the mock, and what is no image, is
\* approved unseen.
Scan ==
  /\ mod = "scan" /\ mod' = "update"
  /\ IF kind = "image" /\ ~UseMock
     THEN \/ \E adult, violence \in Likelihood :
               scan' = <<adult, violence>> /\ verdict' = Decision(adult, violence)
          \/ verdict' = "review" /\ UNCHANGED scan
     ELSE verdict' = "approved" /\ UNCHANGED scan
  /\ UNCHANGED <<kind, status, path, file, review, passed, crashes, crowded, botched>>

\* Mutant: a failed or doubtful scan leaves the status as it was.
UpdateStatus_NoReview ==
  /\ mod = "update"
  /\ status' = IF verdict = "review" THEN status ELSE verdict
  /\ mod' = CASE verdict = "approved" -> "rename" [] verdict = "rejected" -> "remove"
              [] OTHER -> "off"
  /\ UNCHANGED <<kind, path, file, verdict, review, scan, passed, crashes, crowded, botched>>

\* The status is written before the file is moved or removed.
UpdateStatus ==
  /\ mod = "update"
  /\ status' = verdict
  /\ mod' = CASE verdict = "approved" -> "rename" [] verdict = "rejected" -> "remove"
              [] OTHER -> "off"
  /\ UNCHANGED <<kind, path, file, verdict, review, scan, passed, crashes, crowded, botched>>

Rename ==
  /\ mod = "rename" /\ mod' = "path"
  /\ Unchecked("approved")
  /\ UNCHANGED <<kind, status, path, verdict, review, scan, passed, crashes, crowded>>

Remove ==
  /\ mod = "remove" /\ mod' = "path"
  /\ Unchecked("nowhere")
  /\ UNCHANGED <<kind, status, path, verdict, review, scan, passed, crashes, crowded>>

UpdatePath ==
  /\ mod = "path" /\ mod' = "off"
  /\ path' = IF verdict = "approved" THEN "approved" ELSE "nowhere"
  /\ UNCHANGED <<kind, status, file, verdict, review, scan, passed, crashes, crowded, botched>>

----------------------------------------------------------------------------
(* Review: here the file comes first and the row second.                    *)

\* Mutant: media that is still pending may be reviewed as well.
ReviewStart_Pending(r, to) ==
  /\ review[r] = "idle" /\ status \in {"pending", "review"}
  /\ review' = [review EXCEPT ![r] = to]
  /\ crowded' = (crowded \/ \E s \in Reviewers : review[s] # "idle")
  /\ passed' = (passed \/ to = "rename")
  /\ UNCHANGED <<kind, status, path, file, mod, verdict, scan, crashes, botched>>

\* The row is read; only media in review is reviewed.
ReviewStart(r, to) ==
  /\ review[r] = "idle" /\ status = "review"
  /\ review' = [review EXCEPT ![r] = to]
  /\ crowded' = (crowded \/ \E s \in Reviewers : review[s] # "idle")
  /\ passed' = (passed \/ to = "rename")
  /\ UNCHANGED <<kind, status, path, file, mod, verdict, scan, crashes, botched>>

\* Approve: a file that cannot be moved ends the request.
ReviewRename(r) ==
  /\ review[r] = "rename"
  /\ \/ /\ file = "quarantine" /\ file' = "approved"
        /\ review' = [review EXCEPT ![r] = "approve"]
     \/ UNCHANGED file /\ review' = [review EXCEPT ![r] = "idle"]
  /\ UNCHANGED <<kind, status, path, mod, verdict, scan, passed, crashes, crowded, botched>>

ReviewApprove(r) ==
  /\ review[r] = "approve"
  /\ review' = [review EXCEPT ![r] = "idle"]
  /\ status' = "approved" /\ path' = "approved"
  /\ UNCHANGED <<kind, file, mod, verdict, scan, passed, crashes, crowded, botched>>

\* Mutant: the row is marked, the file stays.
ReviewRemove_KeepsFile(r) ==
  /\ review[r] = "remove"
  /\ review' = [review EXCEPT ![r] = "reject"]
  /\ UNCHANGED <<kind, status, path, file, mod, verdict, scan, passed, crashes, crowded, botched>>

\* Reject: whether the file was removed is not looked at.
ReviewRemove(r) ==
  /\ review[r] = "remove"
  /\ review' = [review EXCEPT ![r] = "reject"]
  /\ Unchecked("nowhere")
  /\ UNCHANGED <<kind, status, path, mod, verdict, scan, passed, crashes, crowded>>

ReviewReject(r) ==
  /\ review[r] = "reject"
  /\ review' = [review EXCEPT ![r] = "idle"]
  /\ status' = "rejected" /\ path' = "nowhere"
  /\ UNCHANGED <<kind, file, mod, verdict, scan, passed, crashes, crowded, botched>>

----------------------------------------------------------------------------
\* The process stops and is started again: what was under way is lost, and
\* nothing is taken up again.
Crash ==
  /\ crashes < MaxCrashes /\ crashes' = crashes + 1
  /\ mod' = "off" /\ review' = [r \in Reviewers |-> "idle"]
  /\ UNCHANGED <<kind, status, path, file, verdict, scan, passed, crowded, botched>>

Moderation == Scan \/ UpdateStatus \/ Rename \/ Remove \/ UpdatePath

Reviewing(r) == \/ \E to \in {"rename", "remove"} : ReviewStart(r, to)
                \/ ReviewRename(r) \/ ReviewApprove(r)
                \/ ReviewRemove(r) \/ ReviewReject(r)

Next == \/ SaveFile \/ CreateRow \/ CreateFails
        \/ Moderation
        \/ \E r \in Reviewers : Reviewing(r)
        \/ Crash

Spec == Init /\ [][Next]_vars

\* A started goroutine runs on, and the Vision service answers or fails.
FairSpec == Spec /\ WF_vars(Moderation)

----------------------------------------------------------------------------
(* Properties.                                                              *)

\* Get: what a user who is not the uploader is given.
Served ==
  IF status # "approved" THEN "denied"
  ELSE IF file = path THEN "file" ELSE "missing"

TypeOK ==
  /\ kind \in {"image", "other"}
  /\ status \in Statuses \cup {"none"} /\ verdict \in Statuses \cup {"none"}
  /\ path \in Places /\ file \in Places
  /\ mod \in {"off", "create", "scan", "update", "rename", "remove", "path"}
  /\ review \in [Reviewers -> {"idle", "rename", "approve", "remove", "reject"}]
  /\ scan = <<>> \/ scan \in Likelihood \X Likelihood
  /\ passed \in BOOLEAN /\ crowded \in BOOLEAN /\ botched \in BOOLEAN
  /\ crashes \in 0 .. MaxCrashes
  /\ mod \in {"create", "scan", "update"} => path # "approved" /\ file = "quarantine"

Public == file = "approved" \/ Served # "denied"

\* A file the scan found possibly or likely explicit is never public, by its
\* place or by its status, unless a reviewer chose to approve it; whatever
\* crashes and however many reviewers act at once.
FlaggedIsNeverPublic ==
  Public /\ ~passed /\ scan # <<>> => scan[1] < POSSIBLE /\ scan[2] < POSSIBLE

\* Nobody reviews a file while its moderation goroutine still works on it.
ScanAndReviewAreApart == (\E r \in Reviewers : review[r] # "idle") => mod = "off"

AtRest == mod = "off" /\ \A r \in Reviewers : review[r] = "idle"

\* With no crash and no two reviews at one time: when nobody works on it, media
\* is where its row says, and where its status says; and if a file could not be
\* moved or removed, which nobody looks at, it is still in quarantine.
SettledIsCoherent ==
  AtRest /\ crashes = 0 /\ ~crowded =>
    IF botched THEN file = "quarantine"
    ELSE /\ file = path
         /\ file = CASE status = "approved" -> "approved"
                     [] status = "review" -> "quarantine"
                     [] OTHER -> "nowhere"

\* What is uploaded is decided on, unless the process stops before: the status
\* leaves "pending".
PendingIsDecided == status = "pending" ~> status # "pending" \/ crashes > 0
============================================================================
