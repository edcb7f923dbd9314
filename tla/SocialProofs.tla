---------------------------- MODULE SocialProofs ----------------------------
(***************************************************************************)
(* Theorems about the broadcast lists and the stories.  The two parts share *)
(* the requests only: there is an invariant for each of them, and what each *)
(* says of the other is that nothing happens there.                         *)
(***************************************************************************)
EXTENDS Social, FiniteSetTheorems, TLAPS

ReqState == [step : ListSteps \cup StorySteps, user : Users \cup {NoUser},
             other : Users \cup {NoUser}, of : ListId \cup StoryId \cup {NoId},
             hand : SUBSET Users, rows : SUBSET Row, good : SUBSET Users,
             shield : SUBSET Users, touched : SUBSET Users]

Typed ==
  /\ contacts \subseteq Pair /\ blocks \subseteq Pair /\ contacts \subseteq known
  /\ req \in [Requests -> ReqState]
  /\ \A q \in Requests : req[q].step \notin {"new", "done"} => req[q].user \in Users
  /\ lists \subseteq List /\ recipients \subseteq Row /\ away \subseteq ListId \X Users
  /\ stories \subseteq Story /\ expired \subseteq StoryId
  /\ knows \subseteq Users \X StoryId /\ uncounted \subseteq StoryId \X Users
  /\ views \subseteq StoryId \X Users /\ viewCount \in [StoryId -> 0..Cardinality(Users)]

----------------------------------------------------------------------------
(* The invariant of the lists.                                              *)

\* One row for each user of a list, and one in what a request has loaded of it.
OneRowEach(rs) == \A x, y \in rs : x.list = y.list /\ x.user = y.user => x = y

\* What a request has in hand: a shield that the blocks still justify and nobody
\* under it vetted or written to (an update may have put back on a list a user it
\* had loaded), the rows of its one list, of a send none whose user has been
\* written to, of an update none whose user has been taken off.
Fit(r) ==
  /\ r.step \in ListSteps
  /\ r.shield \subseteq Apart(r.user)
  /\ r.good \cap r.shield = {}
  /\ IF r.step = "renamed" THEN \A u \in r.touched : \E x \in r.rows : x.user = u
     ELSE r.touched \cap r.shield = {}
  /\ r.step = "find" => r.shield \subseteq r.hand
  /\ r.step \in {"addBlock", "vetOne", "addRow", "takeOff", "store"} => r.other \in Users
  /\ r.step = "addBlock" => r.other # r.user
  /\ r.step \in {"addRow", "store"} => r.other \notin r.shield
  /\ r.step \in {"vetOne", "addRow", "takeOff", "drop", "loadToRename", "loadToSend"} => r.of \in ListId
  /\ r.step = "loadToSend" => r.good = {}
  /\ OneRowEach(r.rows) /\ \A x \in r.rows : x.list = r.of
  /\ r.step \in {"send", "store"} => \A x \in r.rows : x.user \notin r.good
  /\ r.step = "store" => \A x \in r.rows : x.user # r.other
  /\ r.step = "rename" => \A x \in r.rows : <<x.list, x.user>> \notin away

\* A list that its request has not made yet is in no table and in no other hand.
UnmadeList(q) ==
  req[q].step \in {"new", "vet"} =>
    /\ \A x \in lists : x.id # q
    /\ \A x \in recipients : x.list # q
    /\ \A a \in away : a[1] # q
    /\ \A r \in Requests : req[r].of = q => r = q

ListInv ==
  /\ OneRowEach(recipients) /\ AwayStaysAway
  /\ \A q \in Requests : Fit(req[q]) /\ UnmadeList(q)

----------------------------------------------------------------------------
(* The invariant of the stories.                                            *)

UnmadeStory(q) ==
  req[q].step = "new" =>
    /\ ~Exists(q) /\ viewCount[q] = 0
    /\ \A u \in Users : <<u, q>> \notin knows /\ <<q, u>> \notin views /\ <<q, u>> \notin uncounted
    /\ \A r \in Requests : req[r].of # q

\* A viewer has been shown the story, and its view is in the table before it is
\* counted; it is counted once.
Watching(q) ==
  LET v == <<req[q].of, req[q].user>> IN
  /\ At(q, "addContact") => req[q].other \in Users /\ req[q].other # req[q].user
  /\ At(q, "announce") => \A x \in stories : x.id = q => x.owner = req[q].user
  /\ req[q].step \in {"view", "count"} => req[q].of \in StoryId /\ <<req[q].user, req[q].of>> \in knows
  /\ At(q, "count") /\ Exists(req[q].of) =>
       /\ v \in views /\ v \notin uncounted
       /\ \A r \in Requests : At(r, "count") /\ <<req[r].of, req[r].user>> = v => r = q

\* Who knows of a story that is not for everyone.
Told ==
  \A x \in stories : x.privacy # "everyone" =>
    \A u \in Users : <<u, x.id>> \in knows =>
      u = x.owner \/ {<<u, x.owner>>, <<x.owner, u>>} \cap known # {}

\* The viewers whose view has been counted: those in the table but for the views
\* that a request is still about to count, or was stopped before it counted.
Counted(s) ==
  {u \in Users : /\ <<s, u>> \in views /\ <<s, u>> \notin uncounted
                 /\ \A r \in Requests : At(r, "count") => <<req[r].of, req[r].user>> # <<s, u>>}

StoryInv ==
  /\ \A x, y \in stories : x.id = y.id => x = y
  /\ \A v \in views : <<v[2], v[1]>> \in knows
  /\ \A v \in uncounted : Exists(v[1]) => v \in views
  /\ \A q \in Requests : /\ req[q].step \in StorySteps /\ req[q].touched = {}
                         /\ UnmadeStory(q) /\ Watching(q)
  /\ Told
  /\ \A x \in stories : viewCount[x.id] = Cardinality(Counted(x.id))

IInv ==
  /\ Typed
  /\ \/ part = "lists" /\ ListInv /\ views = {} /\ viewCount = [s \in StoryId |-> 0]
     \/ part = "stories" /\ StoryInv /\ away = {}

----------------------------------------------------------------------------
(* The lists: steps that leave the tables alone.                            *)

\* An idle request has a fit record, whatever the tables.
LEMMA IdleFits ==
  ASSUME NEW step \in {"new", "done"}
  PROVE  /\ Idle(step) \in ReqState /\ Idle(step).step = step /\ Idle(step).of = NoId
         /\ Idle(step).user = NoUser
         /\ Fit(Idle(step)) /\ Fit(Idle(step))'
<1>1. LET s == Idle(step) IN
        /\ s.step = step /\ s.user = NoUser /\ s.other = NoUser /\ s.of = NoId /\ s.hand = {}
        /\ s.rows = {} /\ s.good = {} /\ s.shield = {} /\ s.touched = {}
  BY DEF Idle
<1>2. Idle(step) \in ReqState
  BY DEF Idle, ReqState, ListSteps
<1>3. Fit(Idle(step)) /\ Fit(Idle(step))'
  BY <1>1 DEF Fit, ListSteps, OneRowEach
<1> QED
  BY <1>1, <1>2, <1>3

\* A request moves on with another fit record, and is about no list but its own
\* or one that exists.
LEMMA ListMove ==
  ASSUME Typed, ListInv, NEW q \in Requests, NEW s \in ReqState, Fit(s),
         s.step \notin {"new", "done"} => s.user \in Users,
         s.step \in {"new", "vet"} => req[q].step \in {"new", "vet"},
         \/ s.of \in {NoId, req[q].of}
         \/ s.of = q /\ req[q].step = "new"
         \/ \E x \in lists : x.id = s.of,
         req' = [req EXCEPT ![q] = s],
         UNCHANGED <<peopleVars, listVars, storyVars>>
  PROVE  Typed' /\ ListInv'
<1>1. Typed'
  BY DEF Typed, peopleVars, listVars, storyVars
<1>2. \A r \in Requests : req'[r] = IF r = q THEN s ELSE req[r]
  BY DEF Typed
<1>3. ASSUME NEW r \in Requests PROVE Fit(req[r])'
  BY <1>2, <1>3 DEF ListInv, Fit, Apart, peopleVars, listVars
<1>4. ASSUME NEW r \in Requests PROVE UnmadeList(r)'
  <2>1. NoId # r
    BY BroadcastsAssumption DEF ListId
  <2>2. SUFFICES ASSUME req'[r].step \in {"new", "vet"}
                 PROVE  /\ \A x \in lists : x.id # r
                        /\ \A x \in recipients : x.list # r
                        /\ \A a \in away : a[1] # r
                        /\ \A p \in Requests : req'[p].of = r => p = r
    BY DEF UnmadeList, listVars
  <2>3. req[r].step \in {"new", "vet"}
    BY <1>2, <2>2
  <2>4. /\ \A x \in lists : x.id # r
        /\ \A x \in recipients : x.list # r
        /\ \A a \in away : a[1] # r
        /\ \A p \in Requests : req[p].of = r => p = r
    BY <2>3 DEF ListInv, UnmadeList
  <2>5. s.of = r => q = r
    BY <2>1, <2>4
  <2> QED
    BY <1>2, <2>4, <2>5
<1> QED
  BY <1>1, <1>3, <1>4 DEF ListInv, AwayStaysAway, Listed, listVars, OneRowEach

\* A request ends.
LEMMA ListEnd ==
  ASSUME Typed, ListInv, NEW q \in Requests, End(q),
         UNCHANGED <<peopleVars, listVars, storyVars>>
  PROVE  Typed' /\ ListInv'
<1>1. /\ Idle("done") \in ReqState /\ Idle("done").step = "done"
      /\ Idle("done").of = NoId /\ Fit(Idle("done"))
  BY IdleFits
<1> QED
  BY <1>1, ListMove DEF End

\* A request begins, about a list that exists or none.
LEMMA ListBegin ==
  ASSUME Typed, ListInv, NEW q \in Requests, At(q, "new"),
         NEW u \in Users, NEW v \in Users \cup {NoUser},
         NEW i \in ListId \cup {NoId}, NEW us \in SUBSET Users,
         NEW step \in ListSteps \ {"new", "done", "addRow", "store"},
         step = "find" => us = Apart(u),
         step \in {"addBlock", "vetOne", "takeOff"} => v \in Users,
         step = "addBlock" => v # u,
         step \in {"vetOne", "takeOff", "drop", "loadToRename", "loadToSend"} => i \in ListId,
         i = NoId \/ i = q \/ \E x \in lists : x.id = i,
         Begin(q, u, v, i, us, step),
         UNCHANGED <<peopleVars, listVars, storyVars>>
  PROVE  Typed' /\ ListInv'
<1> DEFINE s == [Idle(step) EXCEPT !.user = u, !.other = v, !.of = i, !.hand = us,
                                   !.shield = Apart(u)]
<1>1. s \in ReqState /\ s.step = step /\ s.user = u /\ s.of = i /\ Fit(s)
  <2>1. /\ s.step = step /\ s.user = u /\ s.other = v /\ s.of = i /\ s.hand = us
        /\ s.rows = {} /\ s.good = {} /\ s.shield = Apart(u) /\ s.touched = {}
    BY DEF Idle
  <2>2. Apart(u) \in SUBSET Users
    BY DEF Apart
  <2>3. s \in ReqState
    BY <2>2 DEF Idle, ReqState
  <2>4. Fit(s)
    BY <2>1 DEF Fit, OneRowEach
  <2> QED
    BY <2>1, <2>3, <2>4
<1>2. req' = [req EXCEPT ![q] = s]
  BY DEF Begin
<1>3. req[q].step = "new"
  BY DEF At
<1> HIDE DEF s
<1> QED
  BY <1>1, <1>2, <1>3, ListMove

\* A list is opened by its user, or the request ends.
LEMMA ListOpen ==
  ASSUME Typed, ListInv, NEW q \in Requests, NEW u \in Users, NEW v \in Users \cup {NoUser},
         NEW l \in ListId,
         NEW step \in {"vetOne", "takeOff", "drop", "loadToRename", "loadToSend"},
         step \in {"vetOne", "takeOff"} => v \in Users,
         Open(q, u, v, l, step), UNCHANGED storyVars
  PROVE  Typed' /\ ListInv'
<1>1. CASE Owned(l, u)
  <2>1. \E x \in lists : x.id = l
    BY <1>1 DEF Owned
  <2>2. step \in ListSteps \ {"new", "done", "addRow", "store"} /\ step \notin {"find", "addBlock"}
    BY DEF ListSteps
  <2>3. At(q, "new") /\ Begin(q, u, v, l, {}, step) /\ UNCHANGED <<peopleVars, listVars, storyVars>>
    BY <1>1 DEF Open
  <2> QED
    BY <2>1, <2>2, <2>3, ListBegin
<1>2. CASE ~Owned(l, u)
  BY <1>2, ListEnd DEF Open
<1> QED
  BY <1>1, <1>2

\* Every step of the part of the lists that changes no table.
LEMMA ListQuiet ==
  ASSUME Typed, ListInv, NEW q \in Requests, UNCHANGED <<peopleVars, listVars, storyVars>>,
         NEW s \in ReqState, Fit(s), req' = [req EXCEPT ![q] = s], s.of = req[q].of,
         s.user = req[q].user, req[q].step \notin {"new", "done"},
         s.step \notin {"new", "vet", "done"} \/ (s.step = "vet" /\ req[q].step = "vet")
  PROVE  Typed' /\ ListInv'
<1>1. s.user \in Users
  BY DEF Typed
<1> QED
  BY <1>1, ListMove

\* What the invariant says of one request.
LEMMA OneRequest ==
  ASSUME Typed, ListInv, NEW q \in Requests
  PROVE  req[q] \in ReqState /\ Fit(req[q]) /\ UnmadeList(q)
  BY DEF Typed, ListInv

\* A search answers: nobody it found was among the blocked it had read.
LEMMA FindKeeps ==
  ASSUME Typed, ListInv, NEW q \in Requests, Find(q), UNCHANGED <<listVars, storyVars>>
  PROVE  Typed' /\ ListInv'
<1> DEFINE us == Users \ (req[q].hand \cup {req[q].user})
           s  == [req[q] EXCEPT !.step = "reply", !.touched = us]
<1>0. req[q] \in ReqState /\ Fit(req[q]) /\ At(q, "find")
  BY OneRequest DEF Find
<1>1. /\ s.step = "reply" /\ s.user = req[q].user /\ s.of = req[q].of /\ s.rows = req[q].rows
      /\ s.good = req[q].good /\ s.shield = req[q].shield /\ s.touched = us
  BY <1>0 DEF ReqState
<1>2. s \in ReqState
  BY <1>0 DEF ReqState, ListSteps
<1>3. us \cap req[q].shield = {}
  BY <1>0 DEF Fit, At
<1>4. Fit(s)
  BY <1>0, <1>1, <1>3 DEF Fit, ListSteps
<1>5. req' = [req EXCEPT ![q] = s] /\ UNCHANGED <<peopleVars, listVars, storyVars>>
  BY DEF Find
<1>6. req[q].step = "find"
  BY <1>0 DEF At
<1> HIDE DEF s
<1> QED
  BY <1>1, <1>2, <1>4, <1>5, <1>6, ListQuiet

\* The maker of a list looks at one user's blocks: a shielded one is not among the good.
LEMMA VetKeeps ==
  ASSUME Typed, ListInv, NEW q \in Requests, NEW v \in Users, Vet(q, v), UNCHANGED storyVars
  PROVE  Typed' /\ ListInv'
<1> DEFINE us == req[q].hand \ {v}
           gs == IF IsEitherBlocked(req[q].user, v) THEN req[q].good ELSE req[q].good \cup {v}
           s  == [req[q] EXCEPT !.hand = us, !.good = gs]
<1>0. req[q] \in ReqState /\ Fit(req[q]) /\ req[q].step = "vet"
  BY OneRequest DEF Vet, At
<1>1. /\ s.step = "vet" /\ s.user = req[q].user /\ s.of = req[q].of /\ s.rows = req[q].rows
      /\ s.good = gs /\ s.shield = req[q].shield /\ s.touched = req[q].touched
  BY <1>0 DEF ReqState
<1>2. us \in SUBSET Users /\ gs \in SUBSET Users
  BY <1>0 DEF ReqState
<1>3. s \in ReqState
  BY <1>0, <1>2 DEF ReqState
<1>4. gs \cap req[q].shield = {}
  BY <1>0 DEF Fit, Apart, IsEitherBlocked
<1>5. Fit(s)
  BY <1>0, <1>1, <1>4 DEF Fit
<1>6. req' = [req EXCEPT ![q] = s] /\ UNCHANGED <<peopleVars, listVars, storyVars>>
  BY DEF Vet
<1> HIDE DEF s
<1> QED
  BY <1>0, <1>1, <1>3, <1>5, <1>6, ListQuiet

\* Likewise the user who is to be added.
LEMMA VetOneKeeps ==
  ASSUME Typed, ListInv, NEW q \in Requests, VetOne(q), UNCHANGED storyVars
  PROVE  Typed' /\ ListInv'
<1>1. CASE IsEitherBlocked(req[q].user, req[q].other)
  BY <1>1, ListEnd DEF VetOne
<1>2. CASE ~IsEitherBlocked(req[q].user, req[q].other)
  <2> DEFINE s == [req[q] EXCEPT !.step = "addRow"]
  <2>0. req[q] \in ReqState /\ Fit(req[q]) /\ req[q].step = "vetOne"
    BY OneRequest DEF VetOne, At
  <2>1. /\ s.step = "addRow" /\ s.user = req[q].user /\ s.other = req[q].other
        /\ s.of = req[q].of /\ s.rows = req[q].rows
        /\ s.good = req[q].good /\ s.shield = req[q].shield /\ s.touched = req[q].touched
    BY <2>0 DEF ReqState
  <2>2. s \in ReqState
    BY <2>0 DEF ReqState, ListSteps
  <2>3. req[q].other \notin req[q].shield
    BY <1>2, <2>0 DEF Fit, Apart, IsEitherBlocked
  <2>4. Fit(s)
    BY <2>0, <2>1, <2>3 DEF Fit, ListSteps
  <2>5. req' = [req EXCEPT ![q] = s] /\ UNCHANGED <<peopleVars, listVars, storyVars>>
    BY <1>2 DEF VetOne, Goto
  <2> HIDE DEF s
  <2> QED
    BY <2>0, <2>1, <2>2, <2>4, <2>5, ListQuiet
<1> QED
  BY <1>1, <1>2

\* A request loads the rows of its list; none of them is of a user who is away.
LEMMA LoadKeeps ==
  ASSUME Typed, ListInv, NEW q \in Requests, LoadRecipients(q), UNCHANGED storyVars
  PROVE  Typed' /\ ListInv'
<1>0. req[q] \in ReqState /\ Fit(req[q])
  BY OneRequest
<1> DEFINE rs == RowsOf(req[q].of)
<1>1. /\ rs \in SUBSET Row /\ OneRowEach(rs) /\ \A x \in rs : x.list = req[q].of
      /\ \A x \in rs : <<x.list, x.user>> \notin away
  BY DEF Typed, ListInv, OneRowEach, RowsOf, AwayStaysAway, Listed
<1>2. ASSUME NEW step \in {"rename", "send"},
             req[q].step \in {"loadToRename", "loadToSend"},
             req' = [req EXCEPT ![q].step = step, ![q].rows = rs],
             step = "send" => req[q].good = {},
             UNCHANGED <<peopleVars, listVars>>
      PROVE  Typed' /\ ListInv'
  <2> DEFINE s == [req[q] EXCEPT !.step = step, !.rows = rs]
  <2>1. /\ s.step = step /\ s.user = req[q].user /\ s.of = req[q].of /\ s.rows = rs
        /\ s.good = req[q].good /\ s.shield = req[q].shield /\ s.touched = req[q].touched
    BY <1>0 DEF ReqState
  <2>2. s \in ReqState
    BY <1>0, <1>1 DEF ReqState, ListSteps
  <2>3. Fit(s)
    BY <1>0, <1>1, <1>2, <2>1 DEF Fit, ListSteps
  <2>4. req' = [req EXCEPT ![q] = s]
    BY <1>2
  <2> HIDE DEF s
  <2> QED
    BY <1>2, <2>1, <2>2, <2>3, <2>4, ListQuiet
<1>3. CASE At(q, "loadToSend") /\ End(q)
  BY <1>3, ListEnd DEF LoadRecipients
<1> QED
  <2>1. At(q, "loadToSend") => req[q].good = {}
    BY <1>0 DEF Fit, At
  <2> QED
    BY <1>2, <1>3, <2>1 DEF LoadRecipients, At

\* A send takes its next row; a shielded user is skipped.
LEMMA NextRecipientKeeps ==
  ASSUME Typed, ListInv, NEW q \in Requests, NEW r \in req[q].rows, NextRecipient(q, r),
         UNCHANGED storyVars
  PROVE  Typed' /\ ListInv'
<1>0. req[q] \in ReqState /\ Fit(req[q]) /\ req[q].step = "send" /\ r.user \in Users
  BY OneRequest DEF NextRecipient, At, ReqState, Row
<1> DEFINE rs == req[q].rows \ {r}
<1>1. /\ rs \in SUBSET Row /\ OneRowEach(rs)
      /\ \A x \in rs : x.list = req[q].of /\ x.user \notin req[q].good /\ x.user # r.user
  BY <1>0 DEF Fit, ReqState, OneRowEach
<1>2. CASE IsEitherBlocked(req[q].user, r.user)
  <2> DEFINE s == [req[q] EXCEPT !.rows = rs]
  <2>1. /\ s.step = "send" /\ s.user = req[q].user /\ s.of = req[q].of /\ s.rows = rs
        /\ s.good = req[q].good /\ s.shield = req[q].shield /\ s.touched = req[q].touched
    BY <1>0 DEF ReqState
  <2>2. s \in ReqState
    BY <1>0, <1>1 DEF ReqState
  <2>3. Fit(s)
    BY <1>0, <1>1, <2>1 DEF Fit
  <2>4. req' = [req EXCEPT ![q] = s] /\ UNCHANGED <<peopleVars, listVars, storyVars>>
    BY <1>2 DEF NextRecipient
  <2> HIDE DEF s
  <2> QED
    BY <1>0, <2>1, <2>2, <2>3, <2>4, ListQuiet
<1>3. CASE ~IsEitherBlocked(req[q].user, r.user)
  <2> DEFINE s == [req[q] EXCEPT !.rows = rs, !.step = "store", !.other = r.user]
  <2>1. /\ s.step = "store" /\ s.user = req[q].user /\ s.of = req[q].of /\ s.rows = rs
        /\ s.good = req[q].good /\ s.shield = req[q].shield /\ s.touched = req[q].touched
        /\ s.other = r.user
    BY <1>0 DEF ReqState
  <2>2. s \in ReqState
    BY <1>0, <1>1 DEF ReqState, ListSteps
  <2>3. r.user \notin req[q].shield
    BY <1>0, <1>3 DEF Fit, Apart, IsEitherBlocked
  <2>4. Fit(s)
    BY <1>0, <1>1, <2>1, <2>3 DEF Fit, ListSteps
  <2>5. req' = [req EXCEPT ![q] = s] /\ UNCHANGED <<peopleVars, listVars, storyVars>>
    BY <1>3 DEF NextRecipient
  <2> HIDE DEF s
  <2> QED
    BY <1>0, <2>1, <2>2, <2>4, <2>5, ListQuiet
<1> QED
  BY <1>2, <1>3

\* A send has written to a user, of whom it has no other row.
LEMMA StoreKeeps ==
  ASSUME Typed, ListInv, NEW q \in Requests, StoreMessage(q), UNCHANGED storyVars
  PROVE  Typed' /\ ListInv'
<1>0. req[q] \in ReqState /\ Fit(req[q]) /\ req[q].step = "store"
  BY OneRequest DEF StoreMessage, At
<1> DEFINE v  == req[q].other
           gs == req[q].good \cup {v}  ts == req[q].touched \cup {v}
           s  == [req[q] EXCEPT !.step = "send", !.good = gs, !.touched = ts]
<1>1. /\ v \in Users /\ v \notin req[q].shield /\ \A x \in req[q].rows : x.user # v
      /\ gs \in SUBSET Users /\ ts \in SUBSET Users
      /\ gs \cap req[q].shield = {} /\ ts \cap req[q].shield = {}
  BY <1>0 DEF Fit, ReqState
<1>2. /\ s.step = "send" /\ s.user = req[q].user /\ s.of = req[q].of /\ s.rows = req[q].rows
      /\ s.good = gs /\ s.shield = req[q].shield /\ s.touched = ts
  BY <1>0 DEF ReqState
<1>3. s \in ReqState
  BY <1>0, <1>1 DEF ReqState, ListSteps
<1>4. Fit(s)
  BY <1>0, <1>1, <1>2 DEF Fit, ListSteps
<1>5. req' = [req EXCEPT ![q] = s] /\ UNCHANGED <<peopleVars, listVars, storyVars>>
  BY DEF StoreMessage
<1> HIDE DEF s
<1> QED
  BY <1>0, <1>2, <1>3, <1>4, <1>5, ListQuiet

----------------------------------------------------------------------------
(* The lists: steps that change a table.                                    *)

\* A list that is in a table, or that a request which has got past the vetting
\* is about.
Named(l) == \/ \E x \in lists : x.id = l
            \/ \E x \in recipients : x.list = l
            \/ \E a \in away : a[1] = l
            \/ \E r \in Requests : req[r].of = l /\ req[r].step \notin {"new", "vet"}

\* Lists that are not made yet stay out of every table if a step only names those
\* that are, and the one its request is making.
LEMMA UnmadeStays ==
  ASSUME Typed, ListInv, NEW q \in Requests, NEW s,
         s.step \notin {"new", "vet"}, s.of \in {NoId, req[q].of},
         req' = [req EXCEPT ![q] = s],
         \A x \in lists' : x.id = q \/ Named(x.id),
         \A x \in recipients' : x.list = q \/ Named(x.list),
         \A a \in away' : a[1] = q \/ Named(a[1])
  PROVE  \A r \in Requests : UnmadeList(r)'
<1> SUFFICES ASSUME NEW r \in Requests, req'[r].step \in {"new", "vet"}
             PROVE  /\ \A x \in lists' : x.id # r
                    /\ \A x \in recipients' : x.list # r
                    /\ \A a \in away' : a[1] # r
                    /\ \A p \in Requests : req'[p].of = r => p = r
  BY DEF UnmadeList
<1>1. NoId # r
  BY BroadcastsAssumption DEF ListId
<1>2. \A p \in Requests : req'[p] = IF p = q THEN s ELSE req[p]
  BY DEF Typed
<1>3. r # q /\ req[r].step \in {"new", "vet"}
  BY <1>2
<1>4. /\ \A x \in lists : x.id # r
      /\ \A x \in recipients : x.list # r
      /\ \A a \in away : a[1] # r
      /\ \A p \in Requests : req[p].of = r => p = r
  BY <1>3 DEF ListInv, UnmadeList
<1>5. ~Named(r)
  BY <1>3, <1>4 DEF Named
<1> QED
  BY <1>1, <1>2, <1>3, <1>4, <1>5

\* Everything in a table is named.
LEMMA InTable ==
  /\ \A x \in lists : Named(x.id)
  /\ \A x \in recipients : Named(x.list)
  /\ \A a \in away : Named(a[1])
  BY DEF Named

\* Where only one request moves, and the blocks and those taken off stay within
\* what the records of the others allow, the records stay fit.
LEMMA FitStays ==
  ASSUME Typed, ListInv, NEW q \in Requests, NEW s, Fit(s)',
         req' = [req EXCEPT ![q] = s],
         blocks \subseteq blocks',
         \A r \in Requests : r # q /\ req[r].step = "rename" =>
           \A x \in req[r].rows : <<x.list, x.user>> \notin away'
  PROVE  \A r \in Requests : Fit(req[r])'
<1> SUFFICES ASSUME NEW r \in Requests PROVE Fit(req[r])'
  OBVIOUS
<1>1. \A p \in Requests : req'[p] = IF p = q THEN s ELSE req[p]
  BY DEF Typed
<1>2. CASE r = q
  BY <1>1, <1>2 DEF Fit
<1>3. CASE r # q
  <2>1. req'[r] = req[r] /\ Fit(req[r])
    BY <1>1, <1>3 DEF ListInv
  <2>2. Apart(req[r].user) \subseteq Apart(req[r].user)'
    BY <2>1 DEF Apart
  <2> QED
    BY <1>3, <2>1, <2>2 DEF Fit
<1> QED
  BY <1>2, <1>3

\* A block can only extend what a shield may contain.
LEMMA AddBlockKeeps ==
  ASSUME Typed, ListInv, NEW q \in Requests, AddBlock(q), UNCHANGED <<listVars, storyVars>>
  PROVE  Typed' /\ ListInv'
<1> DEFINE s == Idle("done")
<1>0. /\ req[q] \in ReqState /\ Fit(req[q]) /\ req[q].step = "addBlock"
      /\ req[q].user \in Users /\ req[q].other \in Users /\ req[q].other # req[q].user
  BY OneRequest DEF AddBlock, At, Typed, Fit
<1>1. s \in ReqState /\ s.step = "done" /\ s.of = NoId /\ Fit(s)'
  BY IdleFits
<1>2. /\ req' = [req EXCEPT ![q] = s] /\ blocks' = blocks \cup {<<req[q].user, req[q].other>>}
      /\ UNCHANGED <<contacts, known, listVars, storyVars>>
  BY DEF AddBlock, End
<1> HIDE DEF s
<1>3. Typed'
  <2>1. blocks' \subseteq Pair
    BY <1>0, <1>2 DEF Typed, Pair
  <2>2. /\ req' \in [Requests -> ReqState]
        /\ \A p \in Requests : req'[p] = IF p = q THEN s ELSE req[p]
    BY <1>1, <1>2 DEF Typed
  <2> QED
    BY <1>1, <1>2, <2>1, <2>2 DEF Typed, listVars, storyVars
<1>4. \A r \in Requests : Fit(req[r])'
  <2>1. \A r \in Requests : req[r].step = "rename" =>
          \A x \in req[r].rows : <<x.list, x.user>> \notin away'
    BY <1>2 DEF ListInv, Fit, listVars
  <2> QED
    BY <1>1, <1>2, <2>1, FitStays
<1>5. \A r \in Requests : UnmadeList(r)'
  BY <1>1, <1>2, InTable, UnmadeStays DEF listVars
<1> QED
  BY <1>2, <1>3, <1>4, <1>5 DEF ListInv, AwayStaysAway, Listed, listVars, OneRowEach

\* An unblock takes the user off the shields it no longer justifies.
LEMMA UnblockKeeps ==
  ASSUME Typed, ListInv, NEW q \in Requests, NEW u \in Users, NEW v \in Users,
         Unblock(q, u, v), UNCHANGED <<listVars, storyVars>>
  PROVE  Typed' /\ ListInv'
<1> DEFINE still(w) == {x \in Users : {<<w, x>>, <<x, w>>} \cap (blocks \ {<<u, v>>}) # {}}
           s == Idle("done")
<1>1. /\ req[q].step = "new" /\ blocks' = blocks \ {<<u, v>>}
      /\ req' = [r \in Requests |-> IF r = q THEN s
                 ELSE [req[r] EXCEPT !.shield = req[r].shield \cap still(req[r].user)]]
      /\ UNCHANGED <<contacts, known, listVars, storyVars>>
  BY DEF Unblock, At
<1>2. s \in ReqState /\ s.step = "done" /\ s.of = NoId /\ Fit(s)' /\ s.user = NoUser
  BY IdleFits
<1>3. \A w : still(w) = {x \in Users : <<w, x>> \in blocks' \/ <<x, w>> \in blocks'}
  BY <1>1
<1> HIDE DEF s, still
<1>4. ASSUME NEW r \in Requests, r # q
      PROVE  LET o == req[r]  n == req'[r] IN
             /\ n \in ReqState /\ n.step = o.step /\ n.user = o.user /\ n.of = o.of
             /\ n.other = o.other /\ n.rows = o.rows /\ n.good = o.good /\ n.touched = o.touched
             /\ n.hand = o.hand /\ n.shield = o.shield \cap still(o.user)
  <2>1. req[r] \in ReqState /\ req'[r] = [req[r] EXCEPT !.shield = req[r].shield \cap still(req[r].user)]
    BY <1>1, <1>4 DEF Typed
  <2>2. req[r].shield \cap still(req[r].user) \in SUBSET Users
    BY <2>1 DEF ReqState
  <2> QED
    BY <2>1, <2>2 DEF ReqState
<1>5. req'[q] = s
  BY <1>1
<1>6. Typed'
  <2>1. req' \in [Requests -> ReqState]
    BY <1>1, <1>2, <1>4, <1>5
  <2>2. \A r \in Requests : req'[r].step \notin {"new", "done"} => req'[r].user \in Users
    BY <1>2, <1>4, <1>5 DEF Typed
  <2> QED
    BY <1>1, <2>1, <2>2 DEF Typed, listVars, storyVars
<1>7. ASSUME NEW r \in Requests PROVE Fit(req[r])'
  <2>1. CASE r = q
    BY <1>2, <1>5, <2>1 DEF Fit
  <2>2. CASE r # q
    <3>1. Fit(req[r]) /\ away' = away
      BY <1>1 DEF ListInv, listVars
    <3>2. /\ req'[r].shield \subseteq req[r].shield
          /\ req'[r].shield \subseteq {x \in Users : \/ <<req'[r].user, x>> \in blocks'
                                                    \/ <<x, req'[r].user>> \in blocks'}
      BY <1>3, <1>4, <2>2
    <3> QED
      BY <1>4, <2>2, <3>1, <3>2 DEF Fit, Apart
  <2> QED
    BY <2>1, <2>2
<1>8. ASSUME NEW r \in Requests PROVE UnmadeList(r)'
  <2>1. NoId # r
    BY BroadcastsAssumption DEF ListId
  <2>2. UnmadeList(r)
    BY DEF ListInv
  <2> QED
    BY <1>1, <1>2, <1>4, <1>5, <2>1, <2>2 DEF UnmadeList, listVars
<1> QED
  BY <1>1, <1>6, <1>7, <1>8 DEF ListInv, AwayStaysAway, Listed, listVars, OneRowEach

\* A new list has rows that no other list and no request has.
LEMMA CreateListKeeps ==
  ASSUME Typed, ListInv, NEW q \in Requests, CreateList(q), UNCHANGED storyVars
  PROVE  Typed' /\ ListInv'
<1>0. req[q] \in ReqState /\ Fit(req[q]) /\ req[q].step = "vet" /\ req[q].user \in Users
  BY OneRequest DEF CreateList, At, Typed
<1> DEFINE good == req[q].good
           new  == {[list |-> q, user |-> v, by |-> q] : v \in good}
<1>1. CASE good = {}
  BY <1>1, ListEnd DEF CreateList, listVars
<1>2. CASE good # {}
  <2>0. PICK s : s = [req[q] EXCEPT !.step = "reply", !.touched = good]
    OBVIOUS
  <2>1. /\ req' = [req EXCEPT ![q] = s]
        /\ lists' = lists \cup {[id |-> q, owner |-> req[q].user]}
        /\ recipients' = recipients \cup new
        /\ UNCHANGED <<peopleVars, away, storyVars>>
    BY <1>2, <2>0 DEF CreateList
  <2>2. /\ s.step = "reply" /\ s.user = req[q].user /\ s.of = req[q].of /\ s.rows = req[q].rows
        /\ s.good = good /\ s.shield = req[q].shield /\ s.touched = good
    BY <1>0, <2>0 DEF ReqState
  <2>3. s \in ReqState
    BY <1>0, <2>0 DEF ReqState, ListSteps
  <2>4. Fit(s)'
    BY <1>0, <2>1, <2>2 DEF Fit, ListSteps, Apart, peopleVars
  <2>5. \A x \in new : x \in Row /\ x.list = q /\ \A y \in new : y.user = x.user => y = x
    <3>1. good \subseteq Users /\ q \in ListId
      BY <1>0 DEF ReqState, ListId
    <3> QED
      BY <3>1 DEF Row
  <2>6. /\ \A x \in recipients : x.list # q
        /\ \A a \in away : a[1] # q
    BY <1>0 DEF ListInv, UnmadeList
  <2> HIDE DEF new
  <2>7. Typed'
    <3>1. [id |-> q, owner |-> req[q].user] \in List
      BY <1>0 DEF List, ListId
    <3>2. /\ req' \in [Requests -> ReqState]
          /\ \A p \in Requests : req'[p] = IF p = q THEN s ELSE req[p]
      BY <2>1, <2>3 DEF Typed
    <3> QED
      BY <1>0, <2>1, <2>2, <2>5, <3>1, <3>2 DEF Typed, peopleVars, storyVars
  <2>8. \A r \in Requests : Fit(req[r])'
    <3>1. \A r \in Requests : req[r].step = "rename" =>
            \A x \in req[r].rows : <<x.list, x.user>> \notin away'
      BY <2>1 DEF ListInv, Fit
    <3> QED
      <4>1. blocks \subseteq blocks'
        BY <2>1 DEF peopleVars
      <4> QED
        BY <2>1, <2>4, <3>1, <4>1, FitStays
  <2>9. \A r \in Requests : UnmadeList(r)'
    <3>1. /\ \A x \in lists' : x.id = q \/ Named(x.id)
          /\ \A x \in recipients' : x.list = q \/ Named(x.list)
          /\ \A a \in away' : a[1] = q \/ Named(a[1])
      BY <2>1, <2>5, InTable
    <3> QED
      BY <2>1, <2>2, <3>1, UnmadeStays
  <2>10. OneRowEach(recipients')
    BY <2>1, <2>5, <2>6 DEF ListInv, OneRowEach
  <2>11. AwayStaysAway'
    BY <2>1, <2>5, <2>6 DEF ListInv, AwayStaysAway, Listed
  <2> QED
    BY <2>7, <2>8, <2>9, <2>10, <2>11 DEF ListInv, OneRowEach
<1> QED
  BY <1>1, <1>2

\* A user who is not listed gets a row, and is not away any more.
LEMMA AddRowKeeps ==
  ASSUME Typed, ListInv, NEW q \in Requests, AddRow(q), UNCHANGED storyVars
  PROVE  Typed' /\ ListInv'
<1>0. /\ req[q] \in ReqState /\ Fit(req[q]) /\ req[q].step = "addRow" /\ req[q].user \in Users
      /\ req[q].other \in Users /\ req[q].of \in ListId /\ req[q].other \notin req[q].shield
  BY OneRequest DEF AddRow, At, Typed, Fit
<1> DEFINE v == req[q].other  l == req[q].of
<1>1. CASE Listed(l, v)
  BY <1>1, ListEnd DEF AddRow, listVars
<1>2. CASE ~Listed(l, v)
  <2>0. PICK s : s = [req[q] EXCEPT !.step = "reply", !.touched = {v}]
    OBVIOUS
  <2>1. /\ req' = [req EXCEPT ![q] = s]
        /\ recipients' = recipients \cup {NewRow(q)}
        /\ away' = away \ {<<l, v>>}
        /\ UNCHANGED <<peopleVars, lists, storyVars>>
    BY <1>2, <2>0 DEF AddRow
  <2>2. /\ s.step = "reply" /\ s.user = req[q].user /\ s.of = l /\ s.rows = req[q].rows
        /\ s.good = req[q].good /\ s.shield = req[q].shield /\ s.touched = {v}
    BY <1>0, <2>0 DEF ReqState
  <2>3. s \in ReqState
    BY <1>0, <2>0 DEF ReqState, ListSteps
  <2>4. Fit(s)'
    BY <1>0, <2>1, <2>2 DEF Fit, ListSteps, Apart, peopleVars
  <2>5. NewRow(q) \in Row /\ NewRow(q).list = l /\ NewRow(q).user = v
    BY <1>0 DEF NewRow, Row, ListId
  <2>6. Named(l)
    BY <1>0 DEF Named
  <2>7. Typed'
    <3>1. /\ req' \in [Requests -> ReqState]
          /\ \A p \in Requests : req'[p] = IF p = q THEN s ELSE req[p]
      BY <2>1, <2>3 DEF Typed
    <3> QED
      BY <1>0, <2>1, <2>2, <2>5, <3>1 DEF Typed, peopleVars, storyVars
  <2>8. \A r \in Requests : Fit(req[r])'
    <3>1. \A r \in Requests : req[r].step = "rename" =>
            \A x \in req[r].rows : <<x.list, x.user>> \notin away'
      BY <2>1 DEF ListInv, Fit
    <3> QED
      <4>1. blocks \subseteq blocks'
        BY <2>1 DEF peopleVars
      <4> QED
        BY <2>1, <2>4, <3>1, <4>1, FitStays
  <2>9. \A r \in Requests : UnmadeList(r)'
    <3>1. /\ \A x \in lists' : x.id = q \/ Named(x.id)
          /\ \A x \in recipients' : x.list = q \/ Named(x.list)
          /\ \A a \in away' : a[1] = q \/ Named(a[1])
      BY <2>1, <2>5, <2>6, InTable
    <3> QED
      BY <2>1, <2>2, <3>1, UnmadeStays
  <2>10. OneRowEach(recipients')
    BY <1>2, <2>1, <2>5 DEF ListInv, OneRowEach, Listed
  <2>11. AwayStaysAway'
    <3> SUFFICES ASSUME NEW a \in away', NEW x \in recipients', x.list = a[1], x.user = a[2]
                 PROVE  FALSE
      BY DEF AwayStaysAway, Listed
    <3>1. a \in away /\ a # <<l, v>> /\ x = NewRow(q)
      BY <2>1 DEF ListInv, AwayStaysAway, Listed
    <3>2. a = <<a[1], a[2]>>
      BY <3>1 DEF Typed
    <3> QED
      BY <2>5, <3>1, <3>2
  <2> QED
    BY <2>7, <2>8, <2>9, <2>10, <2>11 DEF ListInv, OneRowEach
<1> QED
  BY <1>1, <1>2

\* Those whom a step takes off a list are on no row of it that an update still has
\* in hand, and the request that takes them off has ended.
LEMMA TakenOffFits ==
  ASSUME Typed, ListInv, NEW q \in Requests, End(q), req[q].step # "rename",
         NEW l \in ListId, NEW us \in SUBSET Users, TakenOff(l, us), UNCHANGED blocks
  PROVE  /\ \A r \in Requests : Fit(req[r])'
         /\ away' \subseteq ListId \X Users
         /\ \A a \in away' : a \in away \/ (a[1] = l /\ a[2] \in us)
<1> DEFINE s == Idle("done")
<1>1. Fit(s)' /\ req' = [req EXCEPT ![q] = s]
  BY IdleFits DEF End
<1>2. \A a \in away' : \/ a \in away
                       \/ a[1] = l /\ a[2] \in us /\ a \in ListId \X Users /\ ~Loaded(l, a[2])
  BY DEF TakenOff
<1>3. ASSUME NEW r \in Requests, req[r].step = "rename", NEW x \in req[r].rows,
             <<x.list, x.user>> \in away'
      PROVE  FALSE
  <2>1. <<x.list, x.user>> \notin away
    BY <1>3 DEF ListInv, Fit
  <2>2. x.list = l /\ ~Loaded(l, x.user)
    BY <1>2, <1>3, <2>1
  <2> QED
    BY <1>3, <2>2 DEF Loaded, At
<1> HIDE DEF s
<1>4. blocks \subseteq blocks'
  OBVIOUS
<1>5. \A r \in Requests : Fit(req[r])'
  BY <1>1, <1>3, <1>4, FitStays
<1> QED
  BY <1>2, <1>5 DEF Typed

\* A user whose row is taken off is away, unless an update has it loaded.
LEMMA TakeOffKeeps ==
  ASSUME Typed, ListInv, NEW q \in Requests, TakeOff(q), UNCHANGED storyVars
  PROVE  Typed' /\ ListInv'
<1> DEFINE l == req[q].of  v == req[q].other  s == Idle("done")
<1>0. /\ req[q].step = "takeOff" /\ l \in ListId /\ v \in Users
  BY OneRequest DEF TakeOff, At, Fit
<1>1. /\ End(q) /\ recipients' = {r \in recipients : ~(r.list = l /\ r.user = v)}
      /\ TakenOff(l, {v}) /\ UNCHANGED <<peopleVars, lists, storyVars>>
  BY DEF TakeOff
<1>2. s \in ReqState /\ s.step = "done" /\ s.of = NoId
  BY IdleFits
<1>3. /\ \A r \in Requests : Fit(req[r])'
      /\ away' \subseteq ListId \X Users
      /\ \A a \in away' : a \in away \/ (a[1] = l /\ a[2] = v)
  <2>1. {v} \in SUBSET Users /\ UNCHANGED blocks /\ req[q].step # "rename"
    BY <1>0, <1>1 DEF peopleVars
  <2> QED
    BY <1>0, <1>1, <2>1, TakenOffFits
<1>4. req' = [req EXCEPT ![q] = s]
  BY <1>1 DEF End
<1> HIDE DEF s
<1>5. Typed'
  <2>1. /\ req' \in [Requests -> ReqState]
        /\ \A p \in Requests : req'[p] = IF p = q THEN s ELSE req[p]
    BY <1>2, <1>4 DEF Typed
  <2> QED
    BY <1>1, <1>2, <1>3, <2>1 DEF Typed, peopleVars, storyVars
<1>6. \A r \in Requests : UnmadeList(r)'
  <2>1. Named(l)
    BY <1>0 DEF Named
  <2>2. /\ \A x \in lists' : x.id = q \/ Named(x.id)
        /\ \A x \in recipients' : x.list = q \/ Named(x.list)
        /\ \A a \in away' : a[1] = q \/ Named(a[1])
    BY <1>1, <1>3, <2>1, InTable
  <2> QED
    BY <1>2, <1>4, <2>2, UnmadeStays
<1>7. OneRowEach(recipients') /\ AwayStaysAway'
  BY <1>1, <1>3 DEF ListInv, OneRowEach, AwayStaysAway, Listed
<1> QED
  BY <1>3, <1>5, <1>6, <1>7 DEF ListInv, OneRowEach

\* So is every user of a list that is deleted.
LEMMA DropListKeeps ==
  ASSUME Typed, ListInv, NEW q \in Requests, DropList(q), UNCHANGED storyVars
  PROVE  Typed' /\ ListInv'
<1> DEFINE l == req[q].of  us == {r.user : r \in RowsOf(l)}  s == Idle("done")
<1>0. /\ req[q].step = "drop" /\ l \in ListId /\ us \in SUBSET Users
  BY OneRequest DEF DropList, At, Fit, Typed, RowsOf, Row
<1>1. /\ End(q) /\ recipients' = recipients \ RowsOf(l)
      /\ lists' = {x \in lists : x.id # l}
      /\ TakenOff(l, us) /\ UNCHANGED <<peopleVars, storyVars>>
  BY DEF DropList
<1>2. s \in ReqState /\ s.step = "done" /\ s.of = NoId
  BY IdleFits
<1> HIDE DEF us
<1>3. /\ \A r \in Requests : Fit(req[r])'
      /\ away' \subseteq ListId \X Users
      /\ \A a \in away' : a \in away \/ a[1] = l
  <2>1. UNCHANGED blocks /\ req[q].step # "rename"
    BY <1>0, <1>1 DEF peopleVars
  <2> QED
    BY <1>0, <1>1, <2>1, TakenOffFits
<1>4. req' = [req EXCEPT ![q] = s]
  BY <1>1 DEF End
<1> HIDE DEF s
<1>5. Typed'
  <2>1. /\ req' \in [Requests -> ReqState]
        /\ \A p \in Requests : req'[p] = IF p = q THEN s ELSE req[p]
    BY <1>2, <1>4 DEF Typed
  <2> QED
    BY <1>1, <1>2, <1>3, <2>1 DEF Typed, peopleVars, storyVars
<1>6. \A r \in Requests : UnmadeList(r)'
  <2>1. Named(l)
    BY <1>0 DEF Named
  <2>2. /\ \A x \in lists' : x.id = q \/ Named(x.id)
        /\ \A x \in recipients' : x.list = q \/ Named(x.list)
        /\ \A a \in away' : a[1] = q \/ Named(a[1])
    BY <1>1, <1>3, <2>1, InTable
  <2> QED
    BY <1>2, <1>4, <2>2, UnmadeStays
<1>7. OneRowEach(recipients') /\ AwayStaysAway'
  BY <1>1, <1>3 DEF ListInv, OneRowEach, AwayStaysAway, Listed, RowsOf
<1> QED
  BY <1>3, <1>5, <1>6, <1>7 DEF ListInv, OneRowEach

\* An update writes back rows of users who are not away, one for each.
LEMMA WriteBackKeeps ==
  ASSUME Typed, ListInv, NEW q \in Requests, WriteBack(q), UNCHANGED storyVars
  PROVE  Typed' /\ ListInv'
<1> DEFINE refused == \E r \in req[q].rows, x \in recipients :
                        r # x /\ r.list = x.list /\ r.user = x.user
<1>0. req[q] \in ReqState /\ Fit(req[q]) /\ req[q].step = "rename"
  BY OneRequest DEF WriteBack, At
<1>1. CASE refused
  BY <1>1, ListEnd DEF WriteBack, listVars
<1>2. CASE ~refused
  <2>0. PICK rs, s :
          /\ rs = req[q].rows
          /\ s = [req[q] EXCEPT !.step = "renamed", !.touched = {x.user : x \in rs \ recipients}]
    OBVIOUS
  <2>1. /\ req' = [req EXCEPT ![q] = s] /\ recipients' = recipients \cup rs
        /\ UNCHANGED <<peopleVars, lists, away, storyVars>>
    BY <1>2, <2>0 DEF WriteBack
  <2>2. /\ s \in ReqState /\ s.step = "renamed" /\ s.of = req[q].of /\ Fit(s)'
        /\ s.user = req[q].user /\ req[q].user \in Users
    <3>1. /\ {x.user : x \in rs \ recipients} \in SUBSET Users /\ "renamed" \in ListSteps
          /\ req[q].user \in Users
      BY <1>0, <2>0 DEF ReqState, Row, ListSteps, Typed
    <3>2. /\ s \in ReqState /\ s.step = "renamed" /\ s.user = req[q].user /\ s.of = req[q].of
          /\ s.rows = rs /\ s.good = req[q].good /\ s.shield = req[q].shield
          /\ \A u \in s.touched : \E x \in rs : x.user = u
      BY <1>0, <2>0, <3>1 DEF ReqState
    <3>3. Apart(s.user)' = Apart(req[q].user)
      BY <2>1, <3>2 DEF Apart, peopleVars
    <3> QED
      BY <1>0, <2>0, <3>1, <3>2, <3>3 DEF Fit, OneRowEach, ListSteps
  <2>3. /\ rs \subseteq Row /\ OneRowEach(rs)
        /\ \A x \in rs : x.list = req[q].of /\ <<x.list, x.user>> \notin away
    BY <1>0, <2>0 DEF Fit, ReqState
  <2>4. Named(req[q].of)
    BY <1>0 DEF Named
  <2>5. Typed'
    <3>1. /\ req' \in [Requests -> ReqState]
          /\ \A p \in Requests : req'[p] = IF p = q THEN s ELSE req[p]
      BY <2>1, <2>2 DEF Typed
    <3> QED
      BY <2>1, <2>2, <2>3, <3>1 DEF Typed, peopleVars, storyVars
  <2>6. \A r \in Requests : Fit(req[r])'
    <3>1. \A r \in Requests : req[r].step = "rename" =>
            \A x \in req[r].rows : <<x.list, x.user>> \notin away'
      BY <2>1 DEF ListInv, Fit
    <3>2. blocks \subseteq blocks'
      BY <2>1 DEF peopleVars
    <3> QED
      BY <2>1, <2>2, <3>1, <3>2, FitStays
  <2>7. \A r \in Requests : UnmadeList(r)'
    <3>1. /\ \A x \in lists' : x.id = q \/ Named(x.id)
          /\ \A x \in recipients' : x.list = q \/ Named(x.list)
          /\ \A a \in away' : a[1] = q \/ Named(a[1])
      BY <2>1, <2>3, <2>4, InTable
    <3> QED
      BY <2>1, <2>2, <3>1, UnmadeStays
  <2>8. OneRowEach(recipients')
    BY <1>2, <2>0, <2>1, <2>3 DEF ListInv, OneRowEach
  <2>9. AwayStaysAway'
    <3> SUFFICES ASSUME NEW a \in away, NEW x \in recipients', x.list = a[1], x.user = a[2]
                 PROVE  FALSE
      BY <2>1 DEF AwayStaysAway, Listed
    <3>1. x \in rs /\ a = <<a[1], a[2]>>
      BY <2>1 DEF ListInv, AwayStaysAway, Listed, Typed
    <3> QED
      BY <2>3, <3>1
  <2> QED
    BY <2>5, <2>6, <2>7, <2>8, <2>9 DEF ListInv, OneRowEach
<1> QED
  BY <1>1, <1>2

\* Blocks and searches keep the invariant of the lists,
LEMMA BlocksKeep ==
  ASSUME Typed, ListInv, BlocksNext, UNCHANGED <<listVars, storyVars>>
  PROVE  Typed' /\ ListInv'
<1> SUFFICES ASSUME NEW q \in Requests,
                    \/ Reply(q) \/ AddBlock(q) \/ Find(q)
                    \/ \E u \in Users : SearchUsers(q, u)
                    \/ \E u, v \in Users : Block(q, u, v) \/ Unblock(q, u, v)
             PROVE  Typed' /\ ListInv'
  BY DEF BlocksNext
<1>1. CASE Reply(q)
  BY <1>1, ListEnd DEF Reply
<1>2. CASE AddBlock(q)
  BY <1>2, AddBlockKeeps
<1>3. CASE Find(q)
  BY <1>3, FindKeeps
<1>4. ASSUME NEW u \in Users, SearchUsers(q, u) PROVE Typed' /\ ListInv'
  <2>1. BlockedIDs(u) = Apart(u) /\ Apart(u) \in SUBSET Users
    BY DEF BlockedIDs, Apart
  <2>2. /\ At(q, "new") /\ Begin(q, u, NoUser, NoId, Apart(u), "find")
        /\ UNCHANGED <<peopleVars, listVars, storyVars>>
    BY <1>4, <2>1 DEF SearchUsers
  <2>3. /\ "find" \in ListSteps \ {"new", "done", "addRow", "store"}
        /\ NoUser \in Users \cup {NoUser} /\ NoId \in ListId \cup {NoId}
    BY DEF ListSteps
  <2> QED
    BY <2>1, <2>2, <2>3, ListBegin
<1>5. ASSUME NEW u \in Users, NEW v \in Users, Block(q, u, v) PROVE Typed' /\ ListInv'
  <2>1. CASE u # v /\ <<u, v>> \notin blocks
    <3>1. /\ At(q, "new") /\ Begin(q, u, v, NoId, {}, "addBlock")
          /\ UNCHANGED <<peopleVars, listVars, storyVars>>
      BY <1>5, <2>1 DEF Block
    <3>2. /\ "addBlock" \in ListSteps \ {"new", "done", "addRow", "store"}
          /\ v \in Users \cup {NoUser} /\ NoId \in ListId \cup {NoId} /\ {} \in SUBSET Users
      BY DEF ListSteps
    <3> QED
      BY <2>1, <3>1, <3>2, ListBegin
  <2>2. CASE ~(u # v /\ <<u, v>> \notin blocks)
    BY <1>5, <2>2, ListEnd DEF Block
  <2> QED
    BY <2>1, <2>2
<1>6. ASSUME NEW u \in Users, NEW v \in Users, Unblock(q, u, v) PROVE Typed' /\ ListInv'
  BY <1>6, UnblockKeeps
<1> QED
  BY <1>1, <1>2, <1>3, <1>4, <1>5, <1>6

\* and so does every request about a list.
LEMMA BroadcastsKeep ==
  ASSUME Typed, ListInv, BroadcastsNext, UNCHANGED storyVars
  PROVE  Typed' /\ ListInv'
<1> SUFFICES ASSUME NEW q \in Requests,
                    \/ CreateList(q) \/ VetOne(q) \/ AddRow(q) \/ TakeOff(q) \/ DropList(q)
                    \/ LoadRecipients(q) \/ WriteBack(q) \/ StoreMessage(q) \/ SendDone(q)
                    \/ \E v \in Users : Vet(q, v)
                    \/ \E r \in req[q].rows : NextRecipient(q, r)
                    \/ \E u \in Users : \/ \E to \in SUBSET Users : Create(q, u, to)
                                        \/ \E l \in ListId :
                                             \/ Delete(q, u, l) \/ Update(q, u, l) \/ Send(q, u, l)
                                             \/ \E v \in Users : \/ AddRecipient(q, u, v, l)
                                                                 \/ RemoveRecipient(q, u, v, l)
             PROVE  Typed' /\ ListInv'
  BY DEF BroadcastsNext
<1>1. CASE CreateList(q) \/ VetOne(q) \/ AddRow(q) \/ TakeOff(q) \/ DropList(q)
  BY <1>1, CreateListKeeps, VetOneKeeps, AddRowKeeps, TakeOffKeeps, DropListKeeps
<1>2. CASE LoadRecipients(q) \/ WriteBack(q) \/ StoreMessage(q)
  BY <1>2, LoadKeeps, WriteBackKeeps, StoreKeeps
<1>3. CASE SendDone(q)
  BY <1>3, ListEnd DEF SendDone
<1>4. ASSUME NEW v \in Users, Vet(q, v) PROVE Typed' /\ ListInv'
  BY <1>4, VetKeeps
<1>5. ASSUME NEW r \in req[q].rows, NextRecipient(q, r) PROVE Typed' /\ ListInv'
  BY <1>5, NextRecipientKeeps
<1>6. ASSUME NEW u \in Users, NEW to \in SUBSET Users, Create(q, u, to) PROVE Typed' /\ ListInv'
  <2>1. /\ At(q, "new") /\ Begin(q, u, NoUser, q, to \ {u}, "vet")
        /\ UNCHANGED <<peopleVars, listVars, storyVars>>
    BY <1>6 DEF Create
  <2>2. /\ "vet" \in ListSteps \ {"new", "done", "addRow", "store"}
        /\ NoUser \in Users \cup {NoUser} /\ q \in ListId \cup {NoId}
        /\ to \ {u} \in SUBSET Users
    BY DEF ListSteps, ListId
  <2> QED
    BY <2>1, <2>2, ListBegin
<1>7. ASSUME NEW u \in Users, NEW l \in ListId, Delete(q, u, l) \/ Update(q, u, l) \/ Send(q, u, l)
      PROVE  Typed' /\ ListInv'
  <2>1. PICK step \in {"drop", "loadToRename", "loadToSend"} : Open(q, u, NoUser, l, step)
    BY <1>7 DEF Delete, Update, Send
  <2>2. /\ step \in {"vetOne", "takeOff", "drop", "loadToRename", "loadToSend"}
        /\ step \notin {"vetOne", "takeOff"} /\ NoUser \in Users \cup {NoUser}
    OBVIOUS
  <2> QED
    BY <2>1, <2>2, ListOpen
<1>8. ASSUME NEW u \in Users, NEW l \in ListId, NEW v \in Users,
             AddRecipient(q, u, v, l) \/ RemoveRecipient(q, u, v, l)
      PROVE  Typed' /\ ListInv'
  <2>1. PICK step \in {"vetOne", "takeOff"} : Open(q, u, v, l, step)
    BY <1>8 DEF AddRecipient, RemoveRecipient
  <2>2. /\ step \in {"vetOne", "takeOff", "drop", "loadToRename", "loadToSend"}
        /\ v \in Users \cup {NoUser}
    OBVIOUS
  <2> QED
    BY <2>1, <2>2, ListOpen
<1> QED
  BY <1>1, <1>2, <1>3, <1>4, <1>5, <1>6, <1>7, <1>8

----------------------------------------------------------------------------
(* The stories.                                                             *)

\* A record that a request about stories may have while no view is to be counted.
Plain(s) ==
  /\ s \in ReqState /\ s.touched = {} /\ s.step \in {"done", "addContact", "view"}
  /\ s.step # "done" => s.user \in Users
  /\ s.step = "addContact" => s.other \in Users /\ s.other # s.user
  /\ s.step = "view" => s.of \in StoryId /\ <<s.user, s.of>> \in knows
  /\ s.of = NoId \/ Exists(s.of)

\* A request moves on, contacts may change and users may come to know of stories:
\* the rows of the stories, their views and counters stay.
LEMMA StoryMove ==
  ASSUME Typed, StoryInv, NEW q \in Requests, NEW s, Plain(s), req[q].step # "count",
         req' = [req EXCEPT ![q] = s],
         contacts' \subseteq Pair, contacts' \subseteq known', known \subseteq known',
         knows \subseteq knows', knows' \subseteq Users \X StoryId,
         \A u \in Users, i \in StoryId : <<u, i>> \in knows' \ knows =>
           /\ i = q \/ Exists(i)
           /\ i = q => req[q].step # "new"
           /\ \A x \in stories : x.id = i /\ x.privacy # "everyone" =>
                u = x.owner \/ {<<u, x.owner>>, <<x.owner, u>>} \cap known' # {},
         UNCHANGED <<blocks, listVars, stories, expired, views, viewCount, uncounted>>
  PROVE  Typed' /\ StoryInv'
<1>1. \A r \in Requests : req'[r] = IF r = q THEN s ELSE req[r]
  BY DEF Typed
<1>2. Typed'
  <2>1. req' \in [Requests -> ReqState]
    BY DEF Typed, Plain
  <2>2. \A r \in Requests : req'[r].step \notin {"new", "done"} => req'[r].user \in Users
    BY <1>1 DEF Typed, Plain
  <2> QED
    BY <2>1, <2>2 DEF Typed, listVars
<1>3. ASSUME NEW r \in Requests PROVE UnmadeStory(r)'
  <2> SUFFICES ASSUME req'[r].step = "new"
               PROVE  /\ ~Exists(r) /\ viewCount[r] = 0
                      /\ \A u \in Users : /\ <<u, r>> \notin knows' /\ <<r, u>> \notin views
                                          /\ <<r, u>> \notin uncounted
                      /\ \A p \in Requests : req'[p].of # r
    BY DEF UnmadeStory, Exists
  <2>1. r # q /\ req[r].step = "new" /\ r # NoId /\ r \in StoryId
    BY <1>1, BroadcastsAssumption DEF Plain, ListId, StoryId
  <2>2. /\ ~Exists(r) /\ viewCount[r] = 0
        /\ \A u \in Users : /\ <<u, r>> \notin knows /\ <<r, u>> \notin views
                            /\ <<r, u>> \notin uncounted
        /\ \A p \in Requests : req[p].of # r
    BY <2>1 DEF StoryInv, UnmadeStory
  <2>3. \A u \in Users : <<u, r>> \notin knows'
    BY <2>1, <2>2
  <2> QED
    BY <1>1, <2>1, <2>2, <2>3 DEF Plain
<1>4. ASSUME NEW r \in Requests PROVE Watching(r)'
  <2>1. CASE r = q
    BY <1>1, <2>1 DEF Watching, At, Plain
  <2>2. CASE r # q
    <3>1. Watching(r) /\ req'[r] = req[r]
      BY <1>1, <2>2 DEF StoryInv
    <3>2. \A p \in Requests : At(p, "count")' => At(p, "count") /\ req'[p] = req[p]
      BY <1>1 DEF At, Plain
    <3> QED
      BY <3>1, <3>2 DEF Watching, At, Exists
  <2> QED
    BY <2>1, <2>2
<1>5. \A r \in Requests : req'[r].step \in StorySteps /\ req'[r].touched = {}
  BY <1>1 DEF StoryInv, Plain, StorySteps
<1>6. Told'
  <2> SUFFICES ASSUME NEW x \in stories, x.privacy # "everyone", NEW u \in Users,
                      <<u, x.id>> \in knows'
               PROVE  u = x.owner \/ {<<u, x.owner>>, <<x.owner, u>>} \cap known' # {}
    BY DEF Told
  <2>1. CASE <<u, x.id>> \in knows
    BY <2>1 DEF StoryInv, Told
  <2>2. CASE <<u, x.id>> \notin knows
    <3>1. x.id \in StoryId
      BY DEF Typed, Story
    <3> QED
      BY <2>2, <3>1
  <2> QED
    BY <2>1, <2>2
<1>7. \A i : Counted(i)' = Counted(i)
  <2>1. \A p \in Requests : /\ At(p, "count")' <=> At(p, "count")
                            /\ At(p, "count") => req'[p] = req[p]
    BY <1>1 DEF At, Plain
  <2> QED
    BY <2>1 DEF Counted
<1> QED
  BY <1>2, <1>3, <1>4, <1>5, <1>6, <1>7 DEF StoryInv, Exists

\* A request that is done has a plain record.
LEMMA DoneIsPlain == Plain(Idle("done"))
<1>1. Idle("done").touched = {}
  BY DEF Idle
<1> QED
  BY <1>1, IdleFits DEF Plain

\* A request ends without a view to count; contacts may change.
LEMMA StoryEnd ==
  ASSUME Typed, StoryInv, NEW q \in Requests, End(q), req[q].step # "count",
         contacts' \subseteq Pair, contacts' \subseteq known', known \subseteq known',
         UNCHANGED <<blocks, listVars, storyVars>>
  PROVE  Typed' /\ StoryInv'
<1>1. PICK s : s = Idle("done")
  OBVIOUS
<1>2. Plain(s) /\ req' = [req EXCEPT ![q] = s]
  BY <1>1, DoneIsPlain DEF End
<1>3. knows' = knows /\ UNCHANGED <<stories, expired, views, viewCount, uncounted>>
  BY DEF storyVars
<1>4. knows \subseteq Users \X StoryId
  BY DEF Typed
<1> QED
  BY <1>2, <1>3, <1>4, StoryMove

\* Contacts come and go, and the stories follow.
LEMMA ContactsKeep ==
  ASSUME Typed, StoryInv, ContactsNext, UNCHANGED <<listVars, storyVars>>
  PROVE  Typed' /\ StoryInv'
<1> SUFFICES ASSUME NEW q \in Requests,
                    \/ AddContact(q)
                    \/ \E u, v \in Users : Add(q, u, v) \/ Remove(q, u, v)
             PROVE  Typed' /\ StoryInv'
  BY DEF ContactsNext
<1>0. req[q] \in ReqState /\ Watching(q) /\ contacts \subseteq Pair /\ contacts \subseteq known
  BY DEF Typed, StoryInv
<1>1. CASE AddContact(q)
  <2>1. /\ req[q].step = "addContact" /\ End(q) /\ UNCHANGED blocks
        /\ contacts' = contacts \cup {<<req[q].user, req[q].other>>}
        /\ known' = known \cup contacts'
    BY <1>1 DEF AddContact, At
  <2>2. <<req[q].user, req[q].other>> \in Pair
    BY <1>0, <2>1 DEF Watching, At, Typed, Pair
  <2> QED
    BY <1>0, <2>1, <2>2, StoryEnd
<1>2. ASSUME NEW u \in Users, NEW v \in Users, Add(q, u, v) PROVE Typed' /\ StoryInv'
  <2>1. req[q].step = "new" /\ UNCHANGED <<contacts, known, blocks>>
    BY <1>2 DEF Add, At, peopleVars
  <2>2. CASE End(q)
    BY <1>0, <2>1, <2>2, StoryEnd
  <2>3. CASE ~End(q)
    <3>1. u # v /\ Begin(q, u, v, NoId, {}, "addContact")
      BY <1>2, <2>3 DEF Add
    <3>2. PICK s : s = [Idle("addContact") EXCEPT !.user = u, !.other = v, !.of = NoId,
                                                  !.hand = {}, !.shield = Apart(u)]
      OBVIOUS
    <3>3. /\ s.step = "addContact" /\ s.user = u /\ s.other = v /\ s.of = NoId /\ s.touched = {}
          /\ s \in ReqState
      <4>1. Apart(u) \in SUBSET Users
        BY DEF Apart
      <4> QED
        BY <3>2, <4>1 DEF Idle, ReqState, StorySteps
    <3>4. Plain(s)
      BY <3>1, <3>3 DEF Plain
    <3>5. req' = [req EXCEPT ![q] = s]
      BY <3>1, <3>2 DEF Begin
    <3>6. /\ knows' = knows /\ UNCHANGED <<stories, expired, views, viewCount, uncounted>>
          /\ knows \subseteq Users \X StoryId
      BY DEF storyVars, Typed
    <3> QED
      BY <1>0, <2>1, <3>4, <3>5, <3>6, StoryMove
  <2> QED
    BY <2>2, <2>3
<1>3. ASSUME NEW u \in Users, NEW v \in Users, Remove(q, u, v) PROVE Typed' /\ StoryInv'
  <2>1. /\ req[q].step = "new" /\ End(q) /\ contacts' \subseteq contacts
        /\ UNCHANGED <<known, blocks>>
    BY <1>3 DEF Remove, At
  <2> QED
    BY <1>0, <2>1, StoryEnd
<1> QED
  BY <1>1, <1>2, <1>3

\* A new story has no view, and only its owner knows of it.
LEMMA CreateStoryKeeps ==
  ASSUME Typed, StoryInv, NEW q \in Requests, NEW u \in Users, NEW p \in Privacies,
         CreateStory(q, u, p), UNCHANGED listVars
  PROVE  Typed' /\ StoryInv'
<1>1. PICK s : s = [Idle("announce") EXCEPT !.user = u, !.other = NoUser, !.of = q,
                                            !.hand = {}, !.shield = Apart(u)]
  OBVIOUS
<1>2. /\ s.step = "announce" /\ s.user = u /\ s.of = q /\ s.touched = {} /\ s \in ReqState
  <2>1. Apart(u) \in SUBSET Users
    BY DEF Apart
  <2> QED
    BY <1>1, <2>1 DEF Idle, ReqState, StorySteps, ListId
<1>3. PICK new : new = [id |-> q, owner |-> u, privacy |-> p]
  OBVIOUS
<1>4. /\ req[q].step = "new" /\ req' = [req EXCEPT ![q] = s]
      /\ stories' = stories \cup {new} /\ knows' = knows \cup {<<u, q>>}
      /\ UNCHANGED <<peopleVars, expired, views, viewCount, uncounted, listVars>>
  BY <1>1, <1>3 DEF CreateStory, Begin, At
<1>5. new \in Story /\ new.id = q /\ new.owner = u /\ q \in StoryId
  BY <1>3 DEF Story, StoryId
<1>6. /\ \A x \in stories : x.id # q
      /\ viewCount[q] = 0
      /\ \A w \in Users : <<w, q>> \notin knows /\ <<q, w>> \notin views /\ <<q, w>> \notin uncounted
      /\ \A r \in Requests : req[r].of # q
  BY <1>4 DEF StoryInv, UnmadeStory, Exists
<1>7. \A r \in Requests : req'[r] = IF r = q THEN s ELSE req[r]
  BY <1>4 DEF Typed
<1>8. Typed'
  <2>1. req' \in [Requests -> ReqState]
    BY <1>2, <1>4 DEF Typed
  <2> QED
    BY <1>2, <1>4, <1>5, <1>7, <2>1 DEF Typed, listVars, peopleVars
<1>9. ASSUME NEW r \in Requests PROVE UnmadeStory(r)'
  <2>1. r # q => UnmadeStory(r)
    BY DEF StoryInv
  <2> QED
    BY <1>2, <1>4, <1>5, <1>7, <2>1 DEF UnmadeStory, Exists
<1>10. ASSUME NEW r \in Requests PROVE Watching(r)'
  <2>1. CASE r = q
    BY <1>2, <1>4, <1>5, <1>6, <1>7, <2>1 DEF Watching, At
  <2>2. CASE r # q
    <3>1. Watching(r) /\ req'[r] = req[r] /\ req[r].of # q
      BY <1>6, <1>7, <2>2 DEF StoryInv
    <3>2. \A e \in Requests : At(e, "count")' => At(e, "count") /\ req'[e] = req[e]
      BY <1>2, <1>7 DEF At
    <3>3. Exists(req[r].of)' => Exists(req[r].of)
      <4> QED
        BY <1>4, <1>5, <1>7, <2>2, <3>1 DEF Exists
    <3> QED
      BY <1>4, <1>5, <2>2, <3>1, <3>2, <3>3 DEF Watching, At
  <2> QED
    BY <2>1, <2>2
<1>11. Told'
  <2>1. \A x \in stories, w \in Users : <<w, x.id>> \in knows' => <<w, x.id>> \in knows
    BY <1>4, <1>6
  <2>2. \A w \in Users : <<w, q>> \in knows' => w = u
    BY <1>4, <1>6
  <2> QED
    BY <1>4, <1>5, <2>1, <2>2 DEF StoryInv, Told, peopleVars
<1>12. \A x \in stories' : viewCount'[x.id] = Cardinality(Counted(x.id)')
  <2>1. \A i : Counted(i)' = Counted(i)
    <3>1. \A e \in Requests : /\ At(e, "count")' <=> At(e, "count")
                              /\ At(e, "count") => req'[e] = req[e]
      BY <1>2, <1>4, <1>7 DEF At
    <3> QED
      BY <1>4, <3>1 DEF Counted
  <2>2. Counted(q) = {}
    BY <1>6 DEF Counted
  <2> QED
    BY <1>4, <1>5, <1>6, <2>1, <2>2, FS_EmptySet DEF StoryInv
<1>13. /\ \A x, y \in stories' : x.id = y.id => x = y
       /\ \A v \in views' : <<v[2], v[1]>> \in knows'
       /\ \A r \in Requests : req'[r].step \in StorySteps /\ req'[r].touched = {}
  BY <1>2, <1>4, <1>5, <1>6, <1>7 DEF StoryInv, StorySteps
<1>14. \A v \in uncounted' : Exists(v[1])' => v \in views'
  <2>1. \A v \in uncounted : v[1] # q
    <3> SUFFICES ASSUME NEW v \in uncounted, v[1] = q PROVE FALSE
      OBVIOUS
    <3>1. v = <<q, v[2]>> /\ v[2] \in Users
      BY DEF Typed
    <3> QED
      BY <1>6, <3>1
  <2> QED
    BY <1>4, <1>5, <2>1 DEF StoryInv, Exists
<1> QED
  BY <1>8, <1>9, <1>10, <1>11, <1>12, <1>13, <1>14 DEF StoryInv

\* The contacts of the owner are told of a new story,
LEMMA BroadcastNewStoryKeeps ==
  ASSUME Typed, StoryInv, NEW q \in Requests, BroadcastNewStory(q), UNCHANGED listVars
  PROVE  Typed' /\ StoryInv'
<1>1. PICK s : s = Idle("done")
  OBVIOUS
<1>2. /\ Plain(s) /\ req' = [req EXCEPT ![q] = s] /\ req[q].step = "announce"
      /\ knows' = knows \cup {<<v, q>> : v \in {w \in Users : <<req[q].user, w>> \in contacts}}
      /\ UNCHANGED <<peopleVars, stories, expired, views, viewCount, uncounted, listVars>>
  BY <1>1, DoneIsPlain DEF BroadcastNewStory, End, At
<1>3. \A x \in stories : x.id = q => x.owner = req[q].user
  BY <1>2 DEF StoryInv, Watching, At
<1>4. knows' \subseteq Users \X StoryId /\ knows \subseteq knows'
  <2>1. q \in StoryId /\ knows \subseteq Users \X StoryId
    BY DEF Typed, StoryId
  <2>2. PICK told : told = {w \in Users : <<req[q].user, w>> \in contacts}
    OBVIOUS
  <2>3. told \subseteq Users /\ knows' = knows \cup {<<v, q>> : v \in told}
    BY <1>2, <2>2
  <2>4. \A v \in told : <<v, q>> \in Users \X StoryId
    BY <2>1, <2>3
  <2> QED
    BY <2>1, <2>3, <2>4
<1>5. ASSUME NEW u \in Users, NEW i \in StoryId, <<u, i>> \in knows' \ knows
      PROVE  /\ i = q
             /\ \A x \in stories : x.id = i => {<<u, x.owner>>, <<x.owner, u>>} \cap known' # {}
  <2>1. i = q /\ <<req[q].user, u>> \in contacts
    BY <1>2, <1>5
  <2>2. <<req[q].user, u>> \in known'
    BY <1>2, <2>1 DEF Typed, peopleVars
  <2> QED
    BY <1>3, <2>1, <2>2
<1>6. /\ contacts' \subseteq Pair /\ contacts' \subseteq known' /\ known \subseteq known'
      /\ UNCHANGED <<blocks, listVars, stories, expired, views, viewCount, uncounted>>
      /\ req[q].step \notin {"new", "count"}
  BY <1>2 DEF Typed, peopleVars
<1>7. \A u \in Users, i \in StoryId : <<u, i>> \in knows' \ knows =>
        /\ i = q \/ Exists(i)
        /\ i = q => req[q].step # "new"
        /\ \A x \in stories : x.id = i /\ x.privacy # "everyone" =>
             u = x.owner \/ {<<u, x.owner>>, <<x.owner, u>>} \cap known' # {}
  BY <1>5, <1>6
<1> QED
  BY <1>2, <1>4, <1>6, <1>7, StoryMove

\* and others when they list the stories they may see.
LEMMA ListStoriesKeeps ==
  ASSUME Typed, StoryInv, NEW q \in Requests, NEW u \in Users, ListStories(q, u),
         UNCHANGED listVars
  PROVE  Typed' /\ StoryInv'
<1>1. PICK s : s = Idle("done")
  OBVIOUS
<1>2. /\ Plain(s) /\ req' = [req EXCEPT ![q] = s] /\ req[q].step = "new"
      /\ knows' = knows \cup {<<u, x.id>> : x \in ActiveStories(u)}
      /\ UNCHANGED <<peopleVars, stories, expired, views, viewCount, uncounted, listVars>>
  BY <1>1, DoneIsPlain DEF ListStories, End, At
<1>3. ActiveStories(u) \subseteq stories
  BY DEF ActiveStories, Active
<1>4. knows' \subseteq Users \X StoryId /\ knows \subseteq knows'
  BY <1>2, <1>3 DEF Typed, Story
<1>5. ASSUME NEW v \in Users, NEW i \in StoryId, <<v, i>> \in knows' \ knows
      PROVE  /\ Exists(i) /\ i # q
             /\ \A x \in stories : x.id = i /\ x.privacy # "everyone" =>
                  v = x.owner \/ {<<v, x.owner>>, <<x.owner, v>>} \cap known' # {}
  <2>1. PICK y \in ActiveStories(u) : v = u /\ i = y.id
    BY <1>2, <1>5
  <2>2. Exists(i) /\ i # q
    BY <1>2, <1>3, <2>1 DEF StoryInv, UnmadeStory, Exists
  <2>3. \A x \in stories : x.id = i => x = y
    BY <1>3, <2>1 DEF StoryInv
  <2>4. y.privacy # "everyone" => v = y.owner \/ <<v, y.owner>> \in known'
    BY <1>2, <2>1 DEF ActiveStories, Typed, peopleVars
  <2> QED
    BY <2>2, <2>3, <2>4
<1>6. /\ contacts' \subseteq Pair /\ contacts' \subseteq known' /\ known \subseteq known'
      /\ UNCHANGED <<blocks, listVars, stories, expired, views, viewCount, uncounted>>
      /\ req[q].step # "count"
  BY <1>2 DEF Typed, peopleVars
<1> QED
  BY <1>2, <1>4, <1>5, <1>6, StoryMove

\* A request that views a story was shown it.
LEMMA ViewKeeps ==
  ASSUME Typed, StoryInv, NEW q \in Requests, NEW u \in Users, NEW i \in StoryId,
         View(q, u, i), UNCHANGED listVars
  PROVE  Typed' /\ StoryInv'
<1>0. /\ req[q].step = "new" /\ <<u, i>> \in knows
      /\ UNCHANGED <<peopleVars, listVars, storyVars>>
      /\ contacts' \subseteq Pair /\ contacts' \subseteq known' /\ known \subseteq known'
      /\ UNCHANGED blocks
  BY DEF View, At, Typed, peopleVars, storyVars
<1>1. CASE i \notin {x.id : x \in Active}
  BY <1>0, <1>1, StoryEnd DEF View
<1>2. CASE i \in {x.id : x \in Active}
  <2>1. Exists(i)
    BY <1>2 DEF Active, Exists
  <2>2. PICK s : s = [Idle("view") EXCEPT !.user = u, !.other = NoUser, !.of = i,
                                          !.hand = {}, !.shield = Apart(u)]
    OBVIOUS
  <2>3. s.step = "view" /\ s.user = u /\ s.of = i /\ s.touched = {} /\ s \in ReqState
    <3>1. Apart(u) \in SUBSET Users
      BY DEF Apart
    <3> QED
      BY <2>2, <3>1 DEF Idle, ReqState, StorySteps
  <2>4. Plain(s)
    BY <1>0, <2>1, <2>3 DEF Plain
  <2>5. req' = [req EXCEPT ![q] = s]
    BY <1>2, <2>2 DEF View, Begin
  <2>6. /\ knows' = knows /\ knows \subseteq Users \X StoryId
        /\ UNCHANGED <<stories, expired, views, viewCount, uncounted>>
    BY <1>0 DEF storyVars, Typed
  <2> QED
    BY <1>0, <2>4, <2>5, <2>6, StoryMove
<1> QED
  BY <1>1, <1>2

\* A view is inserted; its request will count it.
LEMMA AddViewKeeps ==
  ASSUME Typed, StoryInv, NEW q \in Requests, AddView(q), UNCHANGED listVars
  PROVE  Typed' /\ StoryInv'
<1> DEFINE v == <<req[q].of, req[q].user>>
<1>0. /\ req[q] \in ReqState /\ req[q].step = "view" /\ req[q].of \in StoryId
      /\ req[q].user \in Users /\ <<req[q].user, req[q].of>> \in knows /\ req[q].touched = {}
      /\ UNCHANGED <<peopleVars, stories, expired, viewCount, knows, uncounted, stops, listVars>>
      /\ views' = views \cup {v}
  BY DEF AddView, At, Typed, StoryInv, Watching
<1>1. CASE v \in views
  <2>1. /\ End(q) /\ UNCHANGED <<blocks, listVars, storyVars>>
        /\ contacts' \subseteq Pair /\ contacts' \subseteq known' /\ known \subseteq known'
    BY <1>0, <1>1 DEF AddView, Typed, peopleVars, storyVars
  <2> QED
    BY <1>0, <2>1, StoryEnd
<1>2. CASE v \notin views
  <2>1. PICK s : s = [req[q] EXCEPT !.step = "count"]
    OBVIOUS
  <2>2. /\ req' = [req EXCEPT ![q] = s] /\ s \in ReqState /\ s.step = "count"
        /\ s.of = req[q].of /\ s.user = req[q].user /\ s.touched = {}
    BY <1>0, <1>2, <2>1 DEF AddView, Goto, ReqState, StorySteps
  <2>3. \A r \in Requests : req'[r] = IF r = q THEN s ELSE req[r]
    BY <2>2 DEF Typed
  <2>4. Typed'
    <3>1. req' \in [Requests -> ReqState]
      BY <2>2 DEF Typed
    <3> QED
      BY <1>0, <2>2, <2>3, <3>1 DEF Typed, listVars, peopleVars
  <2>5. ASSUME NEW r \in Requests PROVE UnmadeStory(r)'
    <3>1. UnmadeStory(r) /\ (req[r].step = "new" => req[q].of # r)
      BY DEF StoryInv, UnmadeStory
    <3> QED
      BY <1>0, <2>2, <2>3, <3>1 DEF UnmadeStory, Exists
  <2>6. \A r \in Requests : At(r, "count") /\ Exists(req[r].of) => <<req[r].of, req[r].user>> # v
    BY <1>2 DEF StoryInv, Watching
  <2>7. ASSUME NEW r \in Requests PROVE Watching(r)'
    <3>1. CASE r = q
      <4>1. Exists(req[q].of) => v \notin uncounted
        BY <1>2 DEF StoryInv
      <4>2. \A p \in Requests : At(p, "count")' => p = q \/ (At(p, "count") /\ req'[p] = req[p])
        BY <2>3 DEF At
      <4> QED
        BY <1>0, <2>2, <2>3, <2>6, <3>1, <4>1, <4>2 DEF Watching, At, Exists
    <3>2. CASE r # q
      <4>1. Watching(r) /\ req'[r] = req[r]
        BY <2>3, <3>2 DEF StoryInv
      <4>2. \A p \in Requests : At(p, "count")' => p = q \/ (At(p, "count") /\ req'[p] = req[p])
        BY <2>3 DEF At
      <4> QED
        BY <1>0, <2>2, <2>3, <2>6, <3>2, <4>1, <4>2 DEF Watching, At, Exists
    <3> QED
      BY <3>1, <3>2
  <2>8. \A i : Counted(i)' = Counted(i)
    <3>1. \A p \in Requests : /\ At(p, "count")' <=> At(p, "count") \/ p = q
                              /\ At(p, "count") => req'[p] = req[p]
      BY <1>0, <2>2, <2>3 DEF At
    <3>2. <<req'[q].of, req'[q].user>> = v
      BY <2>2, <2>3
    <3> QED
      BY <1>0, <1>2, <3>1, <3>2 DEF Counted
  <2>9. Told' /\ (\A x, y \in stories' : x.id = y.id => x = y)
    BY <1>0 DEF StoryInv, Told, peopleVars
  <2>10. /\ \A w \in views' : <<w[2], w[1]>> \in knows'
         /\ \A w \in uncounted' : Exists(w[1])' => w \in views'
         /\ \A r \in Requests : req'[r].step \in StorySteps /\ req'[r].touched = {}
    BY <1>0, <2>2, <2>3 DEF StoryInv, Exists, StorySteps
  <2>11. \A x \in stories' : viewCount'[x.id] = Cardinality(Counted(x.id)')
    BY <1>0, <2>8 DEF StoryInv
  <2> QED
    BY <2>4, <2>5, <2>7, <2>9, <2>10, <2>11 DEF StoryInv
<1> QED
  BY <1>1, <1>2

\* The view is counted, once.
LEMMA CountViewKeeps ==
  ASSUME Typed, StoryInv, NEW q \in Requests, CountView(q), UNCHANGED listVars
  PROVE  Typed' /\ StoryInv'
<1>u. PICK u : u = req[q].user
  OBVIOUS
<1>i. PICK i : i = req[q].of
  OBVIOUS
<1>0. /\ req[q] \in ReqState /\ req[q].step = "count" /\ i \in StoryId /\ u \in Users
      /\ UNCHANGED <<peopleVars, stories, expired, views, knows, uncounted, listVars>>
      /\ viewCount' = IF Exists(i) THEN [viewCount EXCEPT ![i] = @ + 1] ELSE viewCount
  BY <1>u, <1>i DEF CountView, At, Typed, StoryInv, Watching
<1>1. PICK s : s = Idle("done")
  OBVIOUS
<1>2. /\ s \in ReqState /\ s.step = "done" /\ s.of = NoId /\ s.touched = {}
      /\ req' = [req EXCEPT ![q] = s]
  BY <1>1, IdleFits DEF CountView, End, Idle
<1>3. \A r \in Requests : req'[r] = IF r = q THEN s ELSE req[r]
  BY <1>2 DEF Typed
<1>4. /\ \A j : j # i => Counted(j)' = Counted(j)
      /\ Exists(i) => Counted(i)' = Counted(i) \cup {u} /\ u \notin Counted(i)
  <2>1. \A r \in Requests : /\ At(r, "count")' <=> At(r, "count") /\ r # q
                            /\ r # q => req'[r] = req[r]
    BY <1>2, <1>3 DEF At
  <2>2. Exists(i) => /\ <<i, u>> \in views /\ <<i, u>> \notin uncounted
                     /\ \A r \in Requests : At(r, "count") /\ <<req[r].of, req[r].user>> = <<i, u>> => r = q
    BY <1>u, <1>i, <1>0 DEF StoryInv, Watching, At
  <2>3. At(q, "count")
    BY <1>0 DEF At
  <2>4. \A j : j # i => Counted(j)' = Counted(j)
    BY <1>i, <1>0, <2>1 DEF Counted
  <2>5. CASE Exists(i)
    <3>1. u \notin Counted(i)
      BY <1>u, <1>i, <2>3 DEF Counted
    <3>2. ASSUME NEW w \in Users PROVE w \in Counted(i)' <=> w \in Counted(i) \/ w = u
      <4>1. w \in Counted(i)' <=>
              /\ <<i, w>> \in views /\ <<i, w>> \notin uncounted
              /\ \A r \in Requests : At(r, "count") /\ r # q => <<req[r].of, req[r].user>> # <<i, w>>
        BY <1>0, <2>1 DEF Counted
      <4>2. w \in Counted(i) <=>
              /\ <<i, w>> \in views /\ <<i, w>> \notin uncounted
              /\ \A r \in Requests : At(r, "count") => <<req[r].of, req[r].user>> # <<i, w>>
        BY DEF Counted
      <4>3. w # u => <<req[q].of, req[q].user>> # <<i, w>>
        BY <1>u
      <4> QED
        BY <2>2, <2>5, <4>1, <4>2, <4>3
    <3>3. Counted(i)' \subseteq Users /\ Counted(i) \subseteq Users
      BY DEF Counted
    <3> QED
      BY <1>0, <2>4, <3>1, <3>2, <3>3
  <2> QED
    BY <2>4, <2>5
<1>5. /\ viewCount' \in [StoryId -> 0..Cardinality(Users)]
      /\ \A x \in stories' : viewCount'[x.id] = Cardinality(Counted(x.id)')
  <2>1. CASE ~Exists(i)
    BY <1>0, <1>4, <2>1 DEF Typed, StoryInv, Exists
  <2>2. CASE Exists(i)
    <3>1. /\ IsFiniteSet(Users) /\ Cardinality(Users) \in Nat
          /\ IsFiniteSet(Counted(i)) /\ Cardinality(Counted(i)) \in Nat
          /\ Counted(i) \cup {u} \subseteq Users
      <4>1. Counted(i) \subseteq Users
        BY DEF Counted
      <4> QED
        BY <1>0, <4>1, ContactsAssumption, FS_Subset, FS_CardinalityType
    <3>2. Cardinality(Counted(i) \cup {u}) = Cardinality(Counted(i)) + 1
      BY <1>4, <2>2, <3>1, FS_AddElement
    <3>3. Cardinality(Counted(i) \cup {u}) <= Cardinality(Users)
      BY <3>1, FS_Subset
    <3>4. viewCount[i] = Cardinality(Counted(i))
      BY <2>2 DEF Exists, StoryInv
    <3>5. viewCount' = [viewCount EXCEPT ![i] = Cardinality(Counted(i)) + 1]
      BY <1>0, <2>2, <3>4
    <3>6. Cardinality(Counted(i)) + 1 \in 0..Cardinality(Users)
      BY <3>1, <3>2, <3>3
    <3>7. viewCount' \in [StoryId -> 0..Cardinality(Users)]
      BY <3>5, <3>6 DEF Typed
    <3>8. ASSUME NEW x \in stories PROVE viewCount'[x.id] = Cardinality(Counted(x.id)')
      <4>1. x.id \in StoryId /\ viewCount[x.id] = Cardinality(Counted(x.id))
        BY DEF Typed, Story, StoryInv
      <4>2. CASE x.id = i
        <5>1. viewCount'[i] = Cardinality(Counted(i)) + 1
          BY <1>0, <3>5 DEF Typed
        <5>2. Counted(i)' = Counted(i) \cup {u}
          BY <1>4, <2>2
        <5> QED
          BY <3>2, <4>2, <5>1, <5>2
      <4>3. CASE x.id # i
        BY <1>4, <3>5, <4>1, <4>3 DEF Typed
      <4> QED
        BY <4>2, <4>3
    <3> QED
      BY <1>0, <3>7, <3>8
  <2> QED
    BY <2>1, <2>2
<1>6. Typed'
  <2>1. req' \in [Requests -> ReqState]
    BY <1>2 DEF Typed
  <2> QED
    BY <1>0, <1>2, <1>3, <1>5, <2>1 DEF Typed, listVars, peopleVars
<1>7. ASSUME NEW r \in Requests PROVE UnmadeStory(r)'
  <2>1. UnmadeStory(r) /\ (req[r].step = "new" => i # r) /\ r # NoId /\ r \in StoryId
    BY <1>i, BroadcastsAssumption DEF StoryInv, UnmadeStory, ListId, StoryId
  <2> QED
    BY <1>0, <1>2, <1>3, <2>1 DEF UnmadeStory, Exists, Typed
<1>8. ASSUME NEW r \in Requests PROVE Watching(r)'
  <2>1. Watching(r) /\ (r # q => req'[r] = req[r])
    BY <1>3 DEF StoryInv
  <2>2. \A p \in Requests : At(p, "count")' => At(p, "count") /\ req'[p] = req[p]
    BY <1>2, <1>3 DEF At
  <2>3. r = q => req'[r].step = "done"
    BY <1>2, <1>3
  <2> QED
    BY <1>0, <2>1, <2>2, <2>3 DEF Watching, At, Exists
<1>9. /\ \A x, y \in stories' : x.id = y.id => x = y
      /\ \A w \in views' : <<w[2], w[1]>> \in knows'
      /\ \A w \in uncounted' : Exists(w[1])' => w \in views'
      /\ \A r \in Requests : req'[r].step \in StorySteps /\ req'[r].touched = {}
      /\ Told'
  BY <1>0, <1>2, <1>3 DEF StoryInv, Exists, StorySteps, Told, peopleVars
<1> QED
  BY <1>5, <1>6, <1>7, <1>8, <1>9 DEF StoryInv

\* A story goes with its views; the others keep theirs.
LEMMA DeleteStoryKeeps ==
  ASSUME Typed, StoryInv, NEW q \in Requests, NEW u \in Users, NEW i \in StoryId,
         DeleteStory(q, u, i), UNCHANGED listVars
  PROVE  Typed' /\ StoryInv'
<1>0. /\ req[q].step = "new" /\ End(q)
      /\ UNCHANGED <<peopleVars, expired, viewCount, knows, uncounted, stops, listVars>>
      /\ contacts' \subseteq Pair /\ contacts' \subseteq known' /\ known \subseteq known'
      /\ UNCHANGED blocks
  BY DEF DeleteStory, At, Typed, peopleVars
<1>1. CASE ~OwnerIs(i, u)
  <2>1. UNCHANGED storyVars
    BY <1>0, <1>1 DEF DeleteStory, storyVars
  <2> QED
    BY <1>0, <2>1, StoryEnd
<1>2. CASE OwnerIs(i, u)
  <2>1. stories' = {x \in stories : x.id # i} /\ views' = {v \in views : v[1] # i}
    BY <1>2 DEF DeleteStory
  <2>2. PICK s : s = Idle("done")
    OBVIOUS
  <2>3. /\ s \in ReqState /\ s.step = "done" /\ s.of = NoId /\ s.touched = {}
        /\ req' = [req EXCEPT ![q] = s]
    BY <1>0, <2>2, IdleFits DEF End, Idle
  <2>4. \A r \in Requests : req'[r] = IF r = q THEN s ELSE req[r]
    BY <2>3 DEF Typed
  <2>5. Typed'
    <3>1. req' \in [Requests -> ReqState]
      BY <2>3 DEF Typed
    <3> QED
      BY <1>0, <2>1, <2>3, <2>4, <3>1 DEF Typed, listVars, peopleVars
  <2>6. ASSUME NEW r \in Requests PROVE UnmadeStory(r)'
    <3>1. UnmadeStory(r) /\ r # NoId
      BY BroadcastsAssumption DEF StoryInv, ListId
    <3> QED
      BY <1>0, <2>1, <2>3, <2>4, <3>1 DEF UnmadeStory, Exists
  <2>7. \A j : Exists(j)' => Exists(j) /\ j # i
    BY <2>1 DEF Exists
  <2>8. ASSUME NEW r \in Requests PROVE Watching(r)'
    <3>1. Watching(r) /\ (r # q => req'[r] = req[r])
      BY <2>4 DEF StoryInv
    <3>2. \A p \in Requests : At(p, "count")' => At(p, "count") /\ req'[p] = req[p]
      BY <2>3, <2>4 DEF At
    <3>3. r = q => req'[r].step = "done"
      BY <2>3, <2>4
    <3> QED
      BY <1>0, <2>1, <2>7, <3>1, <3>2, <3>3 DEF Watching, At
  <2>9. \A x \in stories' : viewCount'[x.id] = Cardinality(Counted(x.id)')
    <3>1. \A r \in Requests : /\ At(r, "count")' <=> At(r, "count")
                              /\ At(r, "count") => req'[r] = req[r]
      BY <1>0, <2>3, <2>4 DEF At
    <3>2. \A j : j # i => Counted(j)' = Counted(j)
      BY <1>0, <2>1, <3>1 DEF Counted
    <3> QED
      BY <1>0, <2>1, <3>2 DEF StoryInv
  <2>10. /\ \A x, y \in stories' : x.id = y.id => x = y
         /\ \A w \in views' : <<w[2], w[1]>> \in knows'
         /\ \A r \in Requests : req'[r].step \in StorySteps /\ req'[r].touched = {}
         /\ Told'
    BY <1>0, <2>1, <2>3, <2>4 DEF StoryInv, StorySteps, Told, peopleVars
  <2>11. \A w \in uncounted' : Exists(w[1])' => w \in views'
    BY <1>0, <2>1, <2>7 DEF StoryInv
  <2> QED
    BY <2>5, <2>6, <2>8, <2>9, <2>10, <2>11 DEF StoryInv
<1> QED
  BY <1>1, <1>2

\* A story passes its time.
LEMMA ExpireKeeps ==
  ASSUME Typed, StoryInv, NEW i \in StoryId, Expire(i), UNCHANGED listVars
  PROVE  Typed' /\ StoryInv'
<1>1. /\ expired' = expired \cup {i}
      /\ UNCHANGED <<peopleVars, req, stories, views, viewCount, knows, uncounted, listVars>>
  BY DEF Expire
<1>2. Typed'
  BY <1>1 DEF Typed, peopleVars, listVars
<1>3. ASSUME NEW r \in Requests PROVE UnmadeStory(r)' /\ Watching(r)'
  <2>1. UnmadeStory(r) /\ Watching(r)
    BY DEF StoryInv
  <2> QED
    BY <1>1, <2>1 DEF UnmadeStory, Watching, Exists, At
<1>4. \A j : Counted(j)' = Counted(j)
  BY <1>1 DEF Counted, At
<1> QED
  BY <1>1, <1>2, <1>3, <1>4 DEF StoryInv, Told, Exists, peopleVars

\* The process stops: the views that were about to be counted are not any more.
LEMMA StopKeeps ==
  ASSUME Typed, StoryInv, Stop, UNCHANGED listVars
  PROVE  Typed' /\ StoryInv'
<1>1. PICK s : s = Idle("done")
  OBVIOUS
<1>2. PICK lost : lost = {<<req[r].of, req[r].user>> : r \in {p \in Requests : At(p, "count")}}
  OBVIOUS
<1>3. /\ s \in ReqState /\ s.step = "done" /\ s.of = NoId /\ s.touched = {}
      /\ req' = [r \in Requests |-> IF At(r, "new") THEN req[r] ELSE s]
      /\ uncounted' = uncounted \cup lost
      /\ UNCHANGED <<peopleVars, stories, expired, views, viewCount, knows, listVars>>
  BY <1>1, <1>2, IdleFits DEF Stop, Idle
<1>4. \A r \in Requests : req'[r] = IF req[r].step = "new" THEN req[r] ELSE s
  BY <1>3 DEF At
<1>5. ASSUME NEW v \in lost
      PROVE  \E r \in Requests : At(r, "count") /\ v = <<req[r].of, req[r].user>>
  BY <1>2
<1>6. lost \subseteq StoryId \X Users
  <2> SUFFICES ASSUME NEW v \in lost PROVE v \in StoryId \X Users
    OBVIOUS
  <2>1. PICK r \in Requests : At(r, "count") /\ v = <<req[r].of, req[r].user>>
    BY <1>5
  <2>2. Watching(r)
    BY DEF StoryInv
  <2>3. req[r].of \in StoryId /\ req[r].user \in Users
    BY <2>1, <2>2 DEF Watching, At, Typed
  <2> QED
    BY <2>1, <2>3
<1>7. Typed'
  <2>1. req' \in [Requests -> ReqState]
    BY <1>3 DEF Typed
  <2>2. \A r \in Requests : req'[r].step \notin {"new", "done"} => req'[r].user \in Users
    BY <1>3, <1>4 DEF Typed
  <2> QED
    BY <1>3, <1>6, <2>1, <2>2 DEF Typed, peopleVars, listVars
<1>8. ASSUME NEW r \in Requests PROVE UnmadeStory(r)' /\ Watching(r)'
  <2>1. req'[r].step \in {"new", "done"}
    BY <1>3, <1>4
  <2>2. Watching(r)'
    BY <2>1 DEF Watching, At
  <2>3. CASE req'[r].step = "new"
    <3>1. req[r].step = "new" /\ r # NoId
      BY <1>3, <1>4, <2>3, BroadcastsAssumption DEF ListId
    <3>2. /\ ~Exists(r) /\ viewCount[r] = 0
          /\ \A w \in Users : <<w, r>> \notin knows /\ <<r, w>> \notin views /\ <<r, w>> \notin uncounted
          /\ \A p \in Requests : req[p].of # r
      BY <3>1 DEF StoryInv, UnmadeStory
    <3>3. \A w \in Users : <<r, w>> \notin lost
      BY <1>5, <3>2
    <3>4. \A p \in Requests : req'[p].of # r
      BY <1>3, <1>4, <3>1, <3>2
    <3> QED
      BY <1>3, <2>2, <3>2, <3>3, <3>4 DEF UnmadeStory, Exists
  <2> QED
    BY <2>2, <2>3 DEF UnmadeStory
<1>9. ASSUME NEW v \in uncounted', Exists(v[1])' PROVE v \in views'
  <2>1. Exists(v[1])
    BY <1>3, <1>9 DEF Exists
  <2>2. CASE v \in uncounted
    BY <1>3, <2>1, <2>2 DEF StoryInv
  <2>3. CASE v \in lost
    <3>1. PICK r \in Requests : At(r, "count") /\ v = <<req[r].of, req[r].user>>
      BY <1>5, <2>3
    <3>2. Watching(r) /\ Exists(req[r].of)
      BY <2>1, <3>1 DEF StoryInv
    <3> QED
      BY <1>3, <3>1, <3>2 DEF Watching
  <2> QED
    BY <1>3, <2>2, <2>3
<1>10. ASSUME NEW j PROVE Counted(j)' = Counted(j)
  <2>1. \A r \in Requests : ~At(r, "count")'
    BY <1>3, <1>4 DEF At
  <2>2. \A w \in Users : <<j, w>> \in lost <=>
          \E r \in Requests : At(r, "count") /\ <<req[r].of, req[r].user>> = <<j, w>>
    BY <1>2, <1>5
  <2> QED
    BY <1>3, <2>1, <2>2 DEF Counted
<1>11. /\ \A r \in Requests : req'[r].step \in StorySteps /\ req'[r].touched = {}
       /\ Told'
  BY <1>3, <1>4 DEF StoryInv, StorySteps, Told, peopleVars
<1>12. \A x \in stories' : viewCount'[x.id] = Cardinality(Counted(x.id)')
  BY <1>3, <1>10 DEF StoryInv
<1> QED
  BY <1>3, <1>7, <1>8, <1>9, <1>11, <1>12 DEF StoryInv

\* Every step about stories.
LEMMA StoriesKeep ==
  ASSUME Typed, StoryInv, StoriesNext, UNCHANGED listVars
  PROVE  Typed' /\ StoryInv'
<1>1. CASE Stop
  BY <1>1, StopKeeps
<1>2. ASSUME NEW i \in StoryId, Expire(i) PROVE Typed' /\ StoryInv'
  BY <1>2, ExpireKeeps
<1>3. ASSUME NEW q \in Requests, BroadcastNewStory(q) \/ AddView(q) \/ CountView(q)
      PROVE  Typed' /\ StoryInv'
  BY <1>3, BroadcastNewStoryKeeps, AddViewKeeps, CountViewKeeps
<1>4. ASSUME NEW q \in Requests, NEW u \in Users, NEW p \in Privacies, CreateStory(q, u, p)
      PROVE  Typed' /\ StoryInv'
  BY <1>4, CreateStoryKeeps
<1>5. ASSUME NEW q \in Requests, NEW u \in Users, ListStories(q, u) PROVE Typed' /\ StoryInv'
  BY <1>5, ListStoriesKeeps
<1>6. ASSUME NEW q \in Requests, NEW u \in Users, NEW i \in StoryId,
             View(q, u, i) \/ DeleteStory(q, u, i)
      PROVE  Typed' /\ StoryInv'
  BY <1>6, ViewKeeps, DeleteStoryKeeps
<1> QED
  BY <1>1, <1>2, <1>3, <1>4, <1>5, <1>6 DEF StoriesNext

----------------------------------------------------------------------------
(* The invariant.                                                           *)

\* It holds at first,
LEMMA Start == Init => IInv
<1> SUFFICES ASSUME Init PROVE IInv
  OBVIOUS
<1>1. /\ contacts \in FirstContacts /\ known = contacts /\ blocks \in FirstBlocks
      /\ req = [q \in Requests |-> Idle("new")]
  BY DEF Init, ContactsInit
<1>2. PICK us \in FirstRecipients :
        recipients = {[list |-> OldList, user |-> w, by |-> OldList] : w \in us}
  BY DEF Init, BroadcastsInit
<1>3. lists = {[id |-> OldList, owner |-> Owner]} /\ away = {}
  BY DEF Init, BroadcastsInit
<1>4. PICK p \in Privacies : stories = {[id |-> OldStory, owner |-> Teller, privacy |-> p]}
  BY DEF Init, StoriesInit
<1>5. /\ knows = {<<v, OldStory>> : v \in {w \in Users : w = Teller \/ <<Teller, w>> \in contacts}}
      /\ expired = {} /\ views = {} /\ viewCount = [i \in StoryId |-> 0] /\ uncounted = {}
  BY DEF Init, StoriesInit
<1>6. PICK s : s = Idle("new")
  OBVIOUS
<1>7. /\ s \in ReqState /\ s.step = "new" /\ s.of = NoId /\ s.touched = {} /\ Fit(s)
      /\ \A q \in Requests : req[q] = s
  BY <1>1, <1>6, IdleFits DEF Idle
<1>8. us \subseteq Users /\ contacts \subseteq Pair /\ blocks \subseteq Pair
  BY <1>1, BroadcastsAssumption, ContactsAssumption
<1>9. /\ \A x \in recipients : x.list = OldList /\ x.by = OldList
      /\ recipients \subseteq Row /\ OneRowEach(recipients)
  <2>1. \A x \in recipients : \E w \in us : x = [list |-> OldList, user |-> w, by |-> OldList]
    BY <1>2
  <2>2. OldList \in ListId
    BY DEF ListId
  <2> QED
    BY <1>8, <2>1, <2>2 DEF Row, OneRowEach
<1>10. ASSUME NEW k \in knows
       PROVE  \E w \in Users : k = <<w, OldStory>> /\ (w = Teller \/ <<Teller, w>> \in contacts)
  BY <1>5
<1>11. Typed
  <2>1. req \in [Requests -> ReqState]
    BY <1>1, <1>6, <1>7
  <2>2. lists \subseteq List /\ stories \subseteq Story
    BY <1>3, <1>4, BroadcastsAssumption, StoriesAssumption DEF List, Story, ListId, StoryId
  <2>3. knows \subseteq Users \X StoryId
    <3>1. \A k \in knows : \E w \in Users : k = <<w, OldStory>>
      BY <1>10
    <3>2. \A w \in Users : <<w, OldStory>> \in Users \X StoryId
      BY DEF StoryId
    <3> QED
      BY <3>1, <3>2
  <2>4. viewCount \in [StoryId -> 0..Cardinality(Users)]
    <3>1. Cardinality(Users) \in Nat
      BY ContactsAssumption, FS_CardinalityType
    <3> QED
      BY <1>5, <3>1
  <2> QED
    BY <1>1, <1>3, <1>5, <1>7, <1>8, <1>9, <2>1, <2>2, <2>3, <2>4 DEF Typed
<1>12. ListInv
  <2>1. ASSUME NEW q \in Requests PROVE Fit(req[q]) /\ UnmadeList(q)
    <3>1. q # OldList /\ q # NoId
      BY BroadcastsAssumption DEF ListId
    <3> QED
      BY <1>3, <1>7, <1>9, <3>1 DEF UnmadeList
  <2> QED
    BY <1>3, <1>9, <2>1 DEF ListInv, AwayStaysAway
<1>13. StoryInv
  <2>1. ASSUME NEW q \in Requests
        PROVE  /\ req[q].step \in StorySteps /\ req[q].touched = {}
               /\ UnmadeStory(q) /\ Watching(q)
    <3>1. q # OldStory /\ q # NoId /\ q \in StoryId
      BY BroadcastsAssumption, StoriesAssumption DEF ListId, StoryId
    <3>2. \A w \in Users : <<w, q>> \notin knows
      BY <1>10, <3>1
    <3>3. req[q].step = "new" /\ req[q].touched = {} /\ \A r \in Requests : req[r].of = NoId
      BY <1>7
    <3>4. ~Exists(q)
      BY <1>4, <3>1 DEF Exists
    <3>5. viewCount[q] = 0
      BY <1>5, <3>1
    <3>6. UnmadeStory(q)
      BY <1>5, <3>1, <3>2, <3>3, <3>4, <3>5 DEF UnmadeStory
    <3>7. Watching(q)
      BY <3>3 DEF Watching, At
    <3> QED
      BY <3>3, <3>6, <3>7 DEF StorySteps
  <2>2. Told
    <3> SUFFICES ASSUME NEW x \in stories, NEW w \in Users, <<w, x.id>> \in knows
                 PROVE  w = x.owner \/ <<x.owner, w>> \in known
      BY DEF Told
    <3>1. x.owner = Teller
      BY <1>4
    <3>2. w = Teller \/ <<Teller, w>> \in contacts
      BY <1>10
    <3> QED
      BY <1>1, <3>1, <3>2
  <2>3. \A x \in stories : viewCount[x.id] = Cardinality(Counted(x.id))
    <3>1. \A i : Counted(i) = {}
      BY <1>5 DEF Counted
    <3> QED
      <4>1. Cardinality({}) = 0
        BY FS_EmptySet
      <4>2. \A x \in stories : x.id = OldStory
        BY <1>4
      <4>3. viewCount[OldStory] = 0
        BY <1>5 DEF StoryId
      <4> QED
        BY <3>1, <4>1, <4>2, <4>3
  <2> QED
    BY <1>4, <1>5, <2>1, <2>2, <2>3 DEF StoryInv
<1> QED
  BY <1>3, <1>5, <1>11, <1>12, <1>13 DEF IInv, Init

\* and every step keeps it: a step about one part leaves the tables of the other alone.
LEMMA Step == IInv /\ [Next]_vars => IInv'
<1> SUFFICES ASSUME IInv, [Next]_vars PROVE IInv'
  OBVIOUS
<1>0. Typed
  BY DEF IInv
<1>1. CASE part = "lists" /\ Next
  <2>1. /\ ListInv /\ views = {} /\ viewCount = [i \in StoryId |-> 0]
        /\ part' = part /\ UNCHANGED storyVars
        /\ (BlocksNext /\ UNCHANGED listVars) \/ BroadcastsNext
    BY <1>1 DEF IInv, Next
  <2>2. Typed' /\ ListInv'
    BY <1>0, <2>1, BlocksKeep, BroadcastsKeep
  <2> QED
    BY <1>1, <2>1, <2>2 DEF IInv, storyVars
<1>2. CASE part = "stories" /\ Next
  <2>1. /\ StoryInv /\ away = {} /\ part' = part /\ UNCHANGED listVars
        /\ (ContactsNext /\ UNCHANGED storyVars) \/ StoriesNext
    BY <1>2 DEF IInv, Next
  <2>2. Typed' /\ StoryInv'
    BY <1>0, <2>1, ContactsKeep, StoriesKeep
  <2> QED
    BY <1>2, <2>1, <2>2 DEF IInv, listVars
<1>3. CASE UNCHANGED vars
  <2>1. UNCHANGED <<req, contacts, blocks, known, lists, recipients, away, stories, expired,
                    views, viewCount, knows, uncounted, part>>
    BY <1>3 DEF vars, peopleVars, listVars, storyVars
  <2>2. Typed'
    BY <1>0, <2>1 DEF Typed
  <2>3. ListInv => ListInv'
    <3>1. \A q \in Requests : Fit(req[q]) => Fit(req[q])'
      BY <2>1 DEF Fit, Apart
    <3>2. \A q \in Requests : UnmadeList(q) => UnmadeList(q)'
      BY <2>1 DEF UnmadeList
    <3> QED
      BY <2>1, <3>1, <3>2 DEF ListInv, AwayStaysAway, Listed
  <2>4. StoryInv => StoryInv'
    <3>1. \A i : Counted(i)' = Counted(i)
      BY <2>1 DEF Counted, At
    <3>2. \A q \in Requests : /\ UnmadeStory(q) => UnmadeStory(q)'
                              /\ Watching(q) => Watching(q)'
      BY <2>1 DEF UnmadeStory, Watching, At, Exists
    <3> QED
      BY <2>1, <3>1, <3>2 DEF StoryInv, Told, Exists
  <2> QED
    BY <2>1, <2>2, <2>3, <2>4 DEF IInv
<1> QED
  BY <1>1, <1>2, <1>3 DEF IInv, Next

\* so it always holds.
THEOREM SocialInvariance == Spec => []IInv
BY Start, Step, PTL DEF Spec

\* The counted viewers are the viewers without those the property takes away.
LEMMA CountedAreViewers ==
  ASSUME Typed, NEW i \in StoryId
  PROVE  Counted(i) = Viewers(i) \ ({req[q].user : q \in {r \in Requests : At(r, "count") /\ req[r].of = i}}
                                    \cup {v[2] : v \in {w \in uncounted : w[1] = i}})
<1>1. PICK counting : counting = {req[q].user : q \in {r \in Requests : At(r, "count") /\ req[r].of = i}}
  OBVIOUS
<1>2. PICK missed : missed = {v[2] : v \in {w \in uncounted : w[1] = i}}
  OBVIOUS
<1>3. \A w : w \in Viewers(i) <=> w \in Users /\ <<i, w>> \in views
  <2>1. \A v \in views : v = <<v[1], v[2]>> /\ v[2] \in Users
    BY DEF Typed
  <2> QED
    BY <2>1 DEF Viewers
<1>4. \A w : w \in missed <=> w \in Users /\ <<i, w>> \in uncounted
  <2>1. \A v \in uncounted : v = <<v[1], v[2]>> /\ v[2] \in Users
    BY DEF Typed
  <2> QED
    BY <1>2, <2>1
<1>5. \A w : w \in counting <=> \E r \in Requests : At(r, "count") /\ <<req[r].of, req[r].user>> = <<i, w>>
  BY <1>1
<1>6. \A w : w \in Counted(i) <=> w \in Viewers(i) /\ w \notin counting /\ w \notin missed
  BY <1>3, <1>4, <1>5 DEF Counted
<1> QED
  BY <1>1, <1>2, <1>6

----------------------------------------------------------------------------
(* What follows from it.                                                    *)

\* Tables and requests have their types, and a counter is never more than the
\* number of users (contacts.go, broadcast.go, stories.go).
THEOREM SocialTyping == Spec => []TypeOK
<1>1. IInv => TypeOK
  BY DEF IInv, Typed, TypeOK, ReqState
<1> QED
  BY <1>1, SocialInvariance, PTL

\* Whom a block separates from a user for the whole of one of his requests, that
\* request does not find, list or write to, but for an update that puts back on the
\* list whom it had loaded (contacts.go, broadcast.go).
THEOREM BlocksHold == Spec => []BlockedThroughout
<1>1. IInv => BlockedThroughout
  BY DEF IInv, ListInv, StoryInv, Fit, BlockedThroughout, At
<1> QED
  BY <1>1, SocialInvariance, PTL

\* A broadcast writes to nobody twice, whatever happens to its list (broadcast.go).
THEOREM NobodyTwice == Spec => []OncePerSend
<1>1. IInv => OncePerSend
  BY DEF IInv, ListInv, StoryInv, Fit, OncePerSend, At, StorySteps
<1> QED
  BY <1>1, SocialInvariance, PTL

\* Whoever was taken off a list is off it, unless he was added again or an update
\* had loaded him (broadcast.go).
THEOREM TakenOffIsOff == Spec => []AwayStaysAway
<1>1. IInv => AwayStaysAway
  BY DEF IInv, ListInv, AwayStaysAway
<1> QED
  BY <1>1, SocialInvariance, PTL

\* A story's counter is the number of its viewers but for those whose view is not
\* counted yet or was lost with the process (stories.go).
THEOREM CounterIsRight == Spec => []CountIsViews
<1>1. ASSUME IInv PROVE CountIsViews
  <2> SUFFICES ASSUME NEW x \in stories
               PROVE  viewCount[x.id] = Cardinality(Viewers(x.id)
                        \ ({req[q].user : q \in {r \in Requests : At(r, "count") /\ req[r].of = x.id}}
                           \cup {v[2] : v \in {w \in uncounted : w[1] = x.id}}))
    BY DEF CountIsViews, MyCount
  <2>1. Typed /\ x.id \in StoryId
    BY <1>1 DEF IInv, Typed, Story
  <2>2. viewCount[x.id] = Cardinality(Counted(x.id))
    <3>1. CASE part = "lists"
      <4>1. Counted(x.id) = {}
        BY <1>1, <3>1 DEF IInv, Counted
      <4> QED
        BY <1>1, <2>1, <3>1, <4>1, FS_EmptySet DEF IInv
    <3>2. CASE part # "lists"
      BY <1>1, <3>2 DEF IInv, StoryInv
    <3> QED
      BY <3>1, <3>2
  <2> QED
    BY <2>1, <2>2, CountedAreViewers
<1> QED
  BY <1>1, SocialInvariance, PTL

\* Nobody views a story that is not for everyone without having been a contact of
\* its owner or the owner's, although nothing looks at its privacy (stories.go).
THEOREM OnlyContactsView == Spec => []ViewersWereContacts
<1>1. ASSUME IInv PROVE ViewersWereContacts
  <2> SUFFICES ASSUME NEW x \in stories, x.privacy # "everyone",
                      NEW w \in Viewers(x.id), w # x.owner
               PROVE  {<<w, x.owner>>, <<x.owner, w>>} \cap known # {}
    BY DEF ViewersWereContacts
  <2>1. PICK v \in views : v[1] = x.id /\ v[2] = w
    BY DEF Viewers
  <2>2. part # "lists"
    BY <1>1, <2>1 DEF IInv
  <2>3. StoryInv /\ w \in Users
    BY <1>1, <2>1, <2>2 DEF IInv, Typed
  <2> QED
    BY <2>1, <2>3 DEF StoryInv, Told
<1> QED
  BY <1>1, SocialInvariance, PTL
=============================================================================
