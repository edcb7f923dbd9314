------------------------------- MODULE Social -------------------------------
(***************************************************************************)
(* The part of the server about who knows whom: the broadcast lists, which   *)
(* obey the blocks, and the stories, which follow the contacts.  The two     *)
(* share no table: a behaviour is about one of them.                         *)
(***************************************************************************)
EXTENDS Broadcasts, Stories

VARIABLE part

vars == <<req, peopleVars, listVars, storyVars, part>>

\* What the tables of the other part hold does not matter.
Init ==
  /\ ContactsInit /\ BroadcastsInit /\ StoriesInit
  /\ \/ part = "lists" /\ \A x \in stories : x.privacy = "everyone"
     \/ part = "stories" /\ blocks = {}

Next ==
  /\ UNCHANGED part
  /\ \/ /\ part = "lists" /\ UNCHANGED storyVars
        /\ (BlocksNext /\ UNCHANGED listVars) \/ BroadcastsNext
     \/ /\ part = "stories" /\ UNCHANGED listVars
        /\ (ContactsNext /\ UNCHANGED storyVars) \/ StoriesNext

Spec == Init /\ [][Next]_vars

----------------------------------------------------------------------------
\* The steps of the requests of each part.
ListSteps  == {"new", "done", "reply", "renamed", "addBlock", "find", "vet", "vetOne", "addRow", "takeOff",
               "drop", "loadToRename", "loadToSend", "rename", "send", "store"}
StorySteps == {"new", "done", "addContact", "announce", "view", "count"}

\* Types.  The users a request works for and about are fixed before it acts.
TypeOK ==
  /\ contacts \subseteq Pair /\ blocks \subseteq Pair /\ contacts \subseteq known
  /\ req \in [Requests -> [step : ListSteps \cup StorySteps, user : Users \cup {NoUser},
                           other : Users \cup {NoUser}, of : ListId \cup StoryId \cup {NoId},
                           hand : SUBSET Users, rows : SUBSET Row, good : SUBSET Users,
                           shield : SUBSET Users, touched : SUBSET Users]]
  /\ \A q \in Requests : req[q].step \notin {"new", "done"} => req[q].user \in Users
  /\ lists \subseteq List /\ recipients \subseteq Row
  /\ stories \subseteq Story /\ expired \subseteq StoryId
  /\ views \subseteq StoryId \X Users /\ viewCount \in [StoryId -> 0..Cardinality(Users)]
=============================================================================
