------------------------------- MODULE Polls -------------------------------
(***************************************************************************)
(* One poll: voting, toggling a vote off, closing, and the results that are *)
(* broadcast (internal/api/handlers/poll.go, internal/models/poll.go).      *)
(*                                                                          *)
(* A request is an HTTP handler goroutine; its statements are separate      *)
(* transactions, so each is an action.  A vote row is its user and option:  *)
(* the unique index admits one row for each.  A broadcast reaches all its   *)
(* participants at once (the hub itself is in module Hub).                  *)
(*                                                                          *)
(* Its Init, Next, Spec and TypeOK have names of their own, so that its     *)
(* theorems can stand beside those of module Messages.                      *)
(***************************************************************************)
EXTENDS Naturals, FiniteSets

CONSTANTS Users,
          Creator,     \* Poll.CreatorID
          Members,     \* users with access: the poll's group, or everybody
          Requests,    \* vote and close requests (each runs once)
          Options,
          NoUser,
          NoOption

ASSUME PollsAssumption ==
  /\ Creator \in Members /\ Members \subseteq Users
  /\ NoUser \notin Users /\ NoOption \notin Options
  /\ IsFiniteSet(Users) /\ IsFiniteSet(Options)

VARIABLES
  multi,   \* Poll.MultiSelect, chosen when the poll is made
  closed,  \* Poll.Closed
  votes,   \* poll_votes rows
  req,     \* where a request is, who makes it, and the option it is for
  res,     \* the PollResponse a request is making
  left,    \* the options its response does not count yet
  last,    \* the PollResponse of the last broadcast (at first, of Create)
  late,    \* requests made when the poll was closed (history)
  met      \* pairs of requests that were under way at one time (history)

pollVars == <<multi, closed, votes, req, res, left, last, late, met>>

Vote     == [user : Users, option : Options]
Response == [closed : BOOLEAN, total : 0..Cardinality(Vote),
             mine : SUBSET Options, seen : SUBSET Vote]
Fresh    == [closed |-> FALSE, total |-> 0, mine |-> {}, seen |-> {}]
Steps    == {"new", "look", "toggle", "clear", "insert", "close", "total", "mine",
             "options", "done"}

PollInit ==
  /\ multi \in BOOLEAN /\ closed = FALSE /\ votes = {}
  /\ req = [q \in Requests |-> [step |-> "new", user |-> NoUser, option |-> NoOption]]
  /\ res = [q \in Requests |-> Fresh] /\ left = [q \in Requests |-> {}]
  /\ last = Fresh
  /\ late = {} /\ met = {}

VotesOf(u)  == {v \in votes : v.user = u}
MyVote(q)   == [user |-> req[q].user, option |-> req[q].option]
Goto(q, to) == req' = [req EXCEPT ![q].step = to]

UnderWay == {q \in Requests : req[q].step \notin {"new", "done"}}

\* History: a request meets those that are under way when it starts.
Started(q) ==
  /\ late' = IF closed THEN late \cup {q} ELSE late
  /\ met' = met \cup {{q, r} : r \in UnderWay}

----------------------------------------------------------------------------
(* Vote.                                                                    *)

\* Mutant: a closed poll is loaded as if it were open.
Load_Anyway(q, u, o) ==
  /\ req[q].step = "new" /\ Started(q)
  /\ req' = [req EXCEPT ![q] = [step |-> IF u \in Members THEN "look" ELSE "done",
                                user |-> u, option |-> o]]
  /\ UNCHANGED <<multi, closed, votes, res, left, last>>

\* The poll is loaded; a closed poll, or one of a group the user is not in, is
\* refused.
Load(q, u, o) ==
  /\ req[q].step = "new" /\ Started(q)
  /\ req' = [req EXCEPT ![q] =
               [step |-> IF ~closed /\ u \in Members THEN "look" ELSE "done",
                user |-> u, option |-> o]]
  /\ UNCHANGED <<multi, closed, votes, res, left, last>>

\* Is there a vote of this user on this option?
Look(q) ==
  /\ req[q].step = "look"
  /\ Goto(q, IF MyVote(q) \in votes THEN "toggle"
             ELSE IF multi THEN "insert" ELSE "clear")
  /\ UNCHANGED <<multi, closed, votes, res, left, last, late, met>>

\* Mutant: the handler returns after the vote is removed.
Toggle_Silent(q) ==
  /\ req[q].step = "toggle"
  /\ votes' = votes \ {MyVote(q)}
  /\ Goto(q, "done")
  /\ UNCHANGED <<multi, closed, res, left, last, late, met>>

\* There is: the row is deleted.
Toggle(q) ==
  /\ req[q].step = "toggle"
  /\ votes' = votes \ {MyVote(q)}
  /\ Goto(q, "total")
  /\ UNCHANGED <<multi, closed, res, left, last, late, met>>

\* Mutant: only the vote on this very option is dropped.
Dropped_Same(q) == {MyVote(q)}

\* What a single-select poll drops before the new vote.
Dropped(q) == VotesOf(req[q].user)

Clear(q) ==
  /\ req[q].step = "clear"
  /\ votes' = votes \ Dropped(q)
  /\ Goto(q, "insert")
  /\ UNCHANGED <<multi, closed, res, left, last, late, met>>

\* INSERT; a row that is there already makes the request fail.
Insert(q) ==
  /\ req[q].step = "insert"
  /\ votes' = votes \cup {MyVote(q)}
  /\ Goto(q, IF MyVote(q) \in votes THEN "done" ELSE "total")
  /\ UNCHANGED <<multi, closed, res, left, last, late, met>>

----------------------------------------------------------------------------
(* Close: only the creator; the handler sets Closed in its own copy too.    *)

CloseLoad(q, u) ==
  /\ req[q].step = "new" /\ Started(q)
  /\ req' = [req EXCEPT ![q] = [step |-> IF u = Creator THEN "close" ELSE "done",
                                user |-> u, option |-> NoOption]]
  /\ UNCHANGED <<multi, closed, votes, res, left, last>>

Close(q) ==
  /\ req[q].step = "close"
  /\ closed' = TRUE
  /\ res' = [res EXCEPT ![q].closed = TRUE]
  /\ Goto(q, "total")
  /\ UNCHANGED <<multi, votes, left, last, late, met>>

----------------------------------------------------------------------------
(* Both end with ToPollResponse, one statement each, and a broadcast.       *)

CountAll(q) ==
  /\ req[q].step = "total"
  /\ res' = [res EXCEPT ![q].total = Cardinality(votes)]
  /\ Goto(q, "mine")
  /\ UNCHANGED <<multi, closed, votes, left, last, late, met>>

UserVotes(q) ==
  /\ req[q].step = "mine"
  /\ res' = [res EXCEPT ![q].mine = {v.option : v \in VotesOf(req[q].user)}]
  /\ left' = [left EXCEPT ![q] = Options]
  /\ Goto(q, "options")
  /\ UNCHANGED <<multi, closed, votes, last, late, met>>

\* Mutant: the rows counted are not those of the option alone.
CountOption_All(q, o) ==
  /\ req[q].step = "options" /\ o \in left[q]
  /\ res' = [res EXCEPT ![q].seen = {v \in votes : v.option = o}]
  /\ left' = [left EXCEPT ![q] = @ \ {o}]
  /\ UNCHANGED <<multi, closed, votes, req, last, late, met>>

\* The rows of one option are counted.
CountOption(q, o) ==
  /\ req[q].step = "options" /\ o \in left[q]
  /\ res' = [res EXCEPT ![q].seen = @ \cup {v \in votes : v.option = o}]
  /\ left' = [left EXCEPT ![q] = @ \ {o}]
  /\ UNCHANGED <<multi, closed, votes, req, last, late, met>>

Broadcast(q) ==
  /\ req[q].step = "options" /\ left[q] = {}
  /\ last' = res[q]
  /\ Goto(q, "done")
  /\ UNCHANGED <<multi, closed, votes, res, left, late, met>>

----------------------------------------------------------------------------
Step(q) == \/ Look(q) \/ Toggle(q) \/ Clear(q) \/ Insert(q)
           \/ Close(q) \/ CountAll(q) \/ UserVotes(q) \/ Broadcast(q)

PollNext ==
  \E q \in Requests : \/ Step(q)
                      \/ \E o \in Options : CountOption(q, o)
                      \/ \E u \in Users : \/ CloseLoad(q, u)
                                         \/ \E o \in Options : Load(q, u, o)

PollSpec == PollInit /\ [][PollNext]_pollVars

----------------------------------------------------------------------------
(* Properties.                                                              *)

\* Types.  What a request writes is decided before it writes: it has an option
\* from the look-up to the insertion, and only the creator's requests close.
PollTypeOK ==
  /\ multi \in BOOLEAN /\ closed \in BOOLEAN /\ votes \subseteq Vote
  /\ req \in [Requests -> [step : Steps, user : Users \cup {NoUser},
                           option : Options \cup {NoOption}]]
  /\ res \in [Requests -> Response] /\ last \in Response
  /\ left \in [Requests -> SUBSET Options]
  /\ late \subseteq Requests /\ met \subseteq SUBSET Requests
  /\ \A q \in Requests :
       /\ req[q].step \in {"look", "toggle", "clear", "insert"}
            => req[q].option \in Options /\ req[q].user \in Members
       /\ req[q].step = "close" => req[q].user = Creator

\* Two requests of this user were under way at one time.
Hurried(u) == \E q, r \in Requests :
                q # r /\ req[q].user = u /\ req[r].user = u /\ {q, r} \in met

\* A user of a single-select poll who waits for each answer before his next
\* request never holds two votes, whatever the others do meanwhile.
PatientHoldOneVote ==
  ~multi => \A u \in Users : ~Hurried(u) => Cardinality(VotesOf(u)) <= 1

\* Closing stops every request made afterwards: once closed, only a user with a
\* request that was already under way can still change a vote, and only his own.
ClosedStopsNewRequests ==
  [][closed =>
       \A v \in (votes \ votes') \cup (votes' \ votes) :
         \E q \in UnderWay \ late : req[q].user = v.user]_pollVars

\* When the requests of a poll never overlap, what the participants were sent
\* last is the poll as it is: its rows option by option, their total, its state.
SerialResultIsShown ==
  met = {} /\ UnderWay = {} =>
    last.seen = votes /\ last.total = Cardinality(votes) /\ last.closed = closed
=============================================================================
