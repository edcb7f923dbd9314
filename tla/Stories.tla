------------------------------ MODULE Stories ------------------------------
(***************************************************************************)
(* Stories (internal/api/handlers/stories.go, internal/models/story.go):    *)
(* creation and its announcement, the lists, views and their counter,       *)
(* deletion, expiry, and a process that stops in between.                   *)
(*                                                                          *)
(* A story is named by the request that made it; nobody can name one he was *)
(* not shown (ids are random): knows says which ids a user has seen.  The   *)
(* clean-up of expired stories exists but nothing calls it.                 *)
(***************************************************************************)
EXTENDS Contacts

CONSTANTS OldStory,    \* a story of Teller that is there at first
          Teller,
          MaxStops     \* bound on the stops of the process

Privacies == {"everyone", "contacts", "close_friends"}
StoryId   == Requests \cup {OldStory}
Story     == [id : StoryId, owner : Users, privacy : Privacies]

ASSUME StoriesAssumption ==
  Teller \in Users /\ OldStory \notin Requests /\ MaxStops \in Nat

VARIABLES
  stories,    \* stories rows
  expired,    \* ids of those past their time
  views,      \* story_views rows: <<StoryID, ViewerID>>
  viewCount,  \* Story.ViewCount
  knows,      \* <<user, story>>: the user has seen the id
  uncounted,  \* views whose request was stopped before it counted them (history)
  stops       \* stops of the process so far

storyVars == <<stories, expired, views, viewCount, knows, uncounted, stops>>

StoriesInit ==
  /\ \E p \in Privacies : stories = {[id |-> OldStory, owner |-> Teller, privacy |-> p]}
  /\ knows = {<<v, OldStory>> : v \in {w \in Users : w = Teller \/ <<Teller, w>> \in contacts}}
  /\ expired = {} /\ views = {} /\ viewCount = [s \in StoryId |-> 0]
  /\ uncounted = {} /\ stops = 0

Exists(s)   == \E x \in stories : x.id = s
OwnerIs(s, u) == \E x \in stories : x.id = s /\ x.owner = u
Active      == {x \in stories : x.id \notin expired}

----------------------------------------------------------------------------
(* Create, with the announcement to the owner's contacts, and the lists.    *)

\* The media, if any, is approved (module Media); only the contacts are told.
CreateStory(q, u, p) ==
  /\ At(q, "new") /\ Begin(q, u, NoUser, q, {}, "announce")
  /\ stories' = stories \cup {[id |-> q, owner |-> u, privacy |-> p]}
  /\ knows' = knows \cup {<<u, q>>}
  /\ UNCHANGED <<peopleVars, expired, views, viewCount, uncounted, stops>>

\* Mutant: everybody is told.
BroadcastNewStory_All(q) ==
  /\ At(q, "announce") /\ End(q)
  /\ knows' = knows \cup {<<v, q>> : v \in Users}
  /\ UNCHANGED <<peopleVars, stories, expired, views, viewCount, uncounted, stops>>

BroadcastNewStory(q) ==
  /\ At(q, "announce") /\ End(q)
  /\ knows' = knows \cup {<<v, q>> : v \in {w \in Users : <<req[q].user, w>> \in contacts}}
  /\ UNCHANGED <<peopleVars, stories, expired, views, viewCount, uncounted, stops>>

\* GetActiveStories: one query.
ActiveStories(u) ==
  {x \in Active : \/ x.owner = u
                  \/ x.privacy = "everyone"
                  \/ x.privacy = "contacts" /\ <<u, x.owner>> \in contacts}

\* List; the query and, per story, HasViewedStory for a flag.
ListStories(q, u) ==
  /\ At(q, "new") /\ End(q)
  /\ knows' = knows \cup {<<u, x.id>> : x \in ActiveStories(u)}
  /\ UNCHANGED <<peopleVars, stories, expired, views, viewCount, uncounted, stops>>

----------------------------------------------------------------------------
(* View: the story is loaded; the view is inserted; the counter is updated. *)
(* No statement looks at the privacy.                                       *)

View(q, u, s) ==
  /\ <<u, s>> \in knows
  /\ At(q, "new")
  /\ IF s \in {x.id : x \in Active} THEN Begin(q, u, NoUser, s, {}, "view") ELSE End(q)
  /\ UNCHANGED <<peopleVars, stories, expired, views, viewCount, knows, uncounted, stops>>

\* Mutant: a view that the index refuses is counted all the same.
AddView_Always(q) ==
  /\ At(q, "view") /\ Goto(q, "count")
  /\ views' = views \cup {<<req[q].of, req[q].user>>}
  /\ UNCHANGED <<peopleVars, stories, expired, viewCount, knows, uncounted, stops>>

\* INSERT; the unique index refuses a second view of the same user.
AddView(q) ==
  LET v == <<req[q].of, req[q].user>> IN
  /\ At(q, "view")
  /\ views' = views \cup {v}
  /\ IF v \in views THEN End(q) ELSE Goto(q, "count")
  /\ UNCHANGED <<peopleVars, stories, expired, viewCount, knows, uncounted, stops>>

\* view_count + 1, in the database; a story that is gone has no counter.  The
\* owner is told.
CountView(q) ==
  /\ At(q, "count") /\ End(q)
  /\ viewCount' = IF Exists(req[q].of) THEN [viewCount EXCEPT ![req[q].of] = @ + 1]
                  ELSE viewCount
  /\ UNCHANGED <<peopleVars, stories, expired, views, knows, uncounted, stops>>

----------------------------------------------------------------------------
\* Delete: one transaction, undone unless the story is there and the user's.
DeleteStory(q, u, s) ==
  /\ At(q, "new") /\ End(q)
  /\ IF OwnerIs(s, u)
     THEN /\ stories' = {x \in stories : x.id # s}
          /\ views' = {v \in views : v[1] # s}
     ELSE UNCHANGED <<stories, views>>
  /\ UNCHANGED <<peopleVars, expired, viewCount, knows, uncounted, stops>>

\* 24 hours pass.
Expire(s) ==
  /\ Exists(s) /\ s \notin expired
  /\ expired' = expired \cup {s}
  /\ UNCHANGED <<peopleVars, req, stories, views, viewCount, knows, uncounted, stops>>

\* The process stops: every request under way is lost, the tables stay.
Stop ==
  /\ stops < MaxStops /\ Working # {}
  /\ stops' = stops + 1
  /\ req' = [q \in Requests |-> IF At(q, "new") THEN req[q] ELSE Idle("done")]
  /\ uncounted' = uncounted \cup {<<req[q].of, req[q].user>> : q \in {r \in Requests : At(r, "count")}}
  /\ UNCHANGED <<peopleVars, stories, expired, views, viewCount, knows>>

----------------------------------------------------------------------------
StoriesNext ==
  \/ Stop
  \/ \E s \in StoryId : Expire(s)
  \/ \E q \in Requests :
       \/ BroadcastNewStory(q) \/ AddView(q) \/ CountView(q)
       \/ \E u \in Users : \/ \E p \in Privacies : CreateStory(q, u, p)
                           \/ ListStories(q, u)
                           \/ \E s \in StoryId : View(q, u, s) \/ DeleteStory(q, u, s)

----------------------------------------------------------------------------
(* What the owner is shown.                                                 *)

\* GetMyStories gives the counter,
MyCount(s) == viewCount[s]

\* GetViews the viewers.
Viewers(s) == {v[2] : v \in {w \in views : w[1] = s}}

(* Properties.                                                              *)

\* The two numbers the owner is shown agree but for the views whose request has
\* not counted them yet, or was stopped in between: nobody is counted twice and
\* nobody is lost otherwise, however views, deletions and stops interleave.
CountIsViews ==
  \A x \in stories :
    MyCount(x.id) = Cardinality(Viewers(x.id)
                       \ ({req[q].user : q \in {r \in Requests : At(r, "count") /\ req[r].of = x.id}}
                          \cup {v[2] : v \in {w \in uncounted : w[1] = x.id}}))

\* Whoever viewed a story that is not for everyone was a contact of its owner, or
\* had the owner as a contact, at some time: the missing check of the privacy is
\* made up for by who gets to know the id.
ViewersWereContacts ==
  \A x \in stories : x.privacy # "everyone" =>
    \A u \in Viewers(x.id) \ {x.owner} : {<<u, x.owner>>, <<x.owner, u>>} \cap known # {}

=============================================================================
