---------------------------- MODULE MarksProofs ----------------------------
(***************************************************************************)
(* Theorems about the tables of marks, for any users, keys and requests.    *)
(* First the invariant that every step of a request keeps; then, each with  *)
(* its own on top, that others are told what there is, that users who wait  *)
(* for their answers are shown what they asked, and that the tables with an *)
(* index implement Registers.                                               *)
(***************************************************************************)
EXTENDS Marks, WellFoundedInduction, TLAPS

USE DEF Requests

----------------------------------------------------------------------------
(* What a table is, the first of some rows, and lists of keys.              *)

\* The tables, by what they differ in.
LEMMA Kinds ==
  ASSUME NEW t \in Tables
  PROVE  /\ Kind(t).whose \in {"user", "all"} /\ (Kind(t).whose = "all" <=> t \in {"pin", "token"})
         /\ Kind(t).index \in {"none", "key", "userAndKey"}
         /\ Kind(t).index = "none" <=> t \in {"theme", "settings", "pin"}
         /\ Kind(t).index = "key" <=> t \in {"groupArchive", "token"}
         /\ Kind(t).found \in {"keep", "save", "update", "replace"}
         /\ Kind(t).found = "keep" <=> t \in {"star", "dmArchive", "groupArchive", "receipt"}
         /\ Kind(t).found = "save" <=> t \in {"reaction", "theme", "token", "senderKey"}
         /\ Kind(t).found = "update" <=> t = "settings"
         /\ Kind(t).found = "replace" <=> t = "pin"
<1> USE DEF Kind, Table, Reaction, StarredMessage, DMArchive, GroupArchive, ChatTheme,
            ConversationSettings, MessageReadReceipt, PinnedMessage, DeviceToken, SenderKey
<1>1. CASE t = "reaction"
  BY <1>1
<1>2. CASE t = "star"
  BY <1>2
<1>3. CASE t = "dmArchive"
  BY <1>3
<1>4. CASE t = "groupArchive"
  BY <1>4
<1>5. CASE t = "theme"
  BY <1>5
<1>6. CASE t = "settings"
  BY <1>6
<1>7. CASE t = "receipt"
  BY <1>7
<1>8. CASE t = "pin"
  BY <1>8
<1>9. CASE t = "token"
  BY <1>9
<1>10. CASE t = "senderKey"
  BY <1>10
<1> QED
  BY <1>1, <1>2, <1>3, <1>4, <1>5, <1>6, <1>7, <1>8, <1>9, <1>10 DEF Tables

\* Of some rows one has the lowest id.
LEMMA FirstIsOne ==
  ASSUME NEW rs, rs \subseteq Row, rs # {}
  PROVE  First(rs) \in rs
<1>1. PICK S : S = {r.id : r \in rs}
  OBVIOUS
<1>2. S \subseteq Nat /\ S # {} /\ \A r \in rs : r.id \in S
  BY <1>1 DEF Row
<1>3. PICK R : R = OpToRel(<, Nat)
  OBVIOUS
<1>4. IsWellFoundedOn(R, Nat)
  BY <1>3, NatLessThanWellFounded
<1>5. \A x, y \in Nat : x < y => <<x, y>> \in R
  BY <1>3 DEF OpToRel
<1>6. PICK n \in S : \A m \in S : ~(<<m, n>> \in R)
  BY <1>2, <1>4, WFMin
<1>7. \A m \in S : ~(m < n)
  BY <1>2, <1>5, <1>6
<1>8. \A m \in S : n <= m
  <2>1. ASSUME NEW m \in S PROVE n <= m
    <3>1. m \in Nat /\ n \in Nat /\ ~(m < n)
      BY <1>2, <1>7
    <3> QED
      BY <3>1
  <2> QED
    BY <2>1
<1>9. \E r \in rs : \A x \in rs : r.id <= x.id
  BY <1>1, <1>2, <1>8
<1> QED
  BY <1>9 DEF First

Of(list) == {list[i] : i \in DOMAIN list}

Different(list) == \A i, j \in DOMAIN list : list[i] = list[j] => i = j

\* What is left of a list of different keys when the first one has been dealt with.
LEMMA TailOf ==
  ASSUME NEW list \in Seq(Keys), list # <<>>, Different(list)
  PROVE  /\ Tail(list) \in Seq(Keys) /\ Different(Tail(list)) /\ Len(Tail(list)) = Len(list) - 1
         /\ Len(list) \in Nat \ {0}
         /\ Of(Tail(list)) = Of(list) \ {Head(list)}
         /\ Head(list) \in Of(list) /\ Head(list) \in Keys
<1>1. /\ Tail(list) \in Seq(Keys) /\ Len(Tail(list)) = Len(list) - 1 /\ Len(list) \in Nat \ {0}
      /\ DOMAIN list = 1 .. Len(list) /\ DOMAIN Tail(list) = 1 .. Len(list) - 1
      /\ Head(list) = list[1] /\ list[1] \in Keys
      /\ \A i \in 1 .. Len(list) - 1 : Tail(list)[i] = list[i + 1]
  OBVIOUS
<1>2. PICK n \in Nat \ {0} : n = Len(list)
  BY <1>1
<1>3. Different(Tail(list))
  <2>1. ASSUME NEW i \in 1 .. n - 1, NEW j \in 1 .. n - 1, Tail(list)[i] = Tail(list)[j] PROVE i = j
    <3>1. i + 1 \in DOMAIN list /\ j + 1 \in DOMAIN list /\ list[i + 1] = list[j + 1]
      BY <1>1, <1>2, <2>1
    <3>2. i + 1 = j + 1
      BY <3>1 DEF Different
    <3> QED
      BY <3>2
  <2> QED
    BY <1>1, <1>2, <2>1 DEF Different
<1>4. Of(Tail(list)) \subseteq Of(list) \ {Head(list)}
  <2>1. ASSUME NEW i \in 1 .. n - 1 PROVE Tail(list)[i] \in Of(list) \ {Head(list)}
    <3>1. i + 1 \in DOMAIN list /\ 1 \in DOMAIN list /\ Tail(list)[i] = list[i + 1]
      BY <1>1, <1>2
    <3>2. i + 1 # 1
      OBVIOUS
    <3>3. list[i + 1] # list[1]
      BY <3>1, <3>2 DEF Different
    <3> QED
      BY <1>1, <3>1, <3>3 DEF Of
  <2> QED
    BY <1>1, <1>2, <2>1 DEF Of
<1>5. Of(list) \ {Head(list)} \subseteq Of(Tail(list))
  <2>1. ASSUME NEW i \in 1 .. n, list[i] # list[1] PROVE list[i] \in Of(Tail(list))
    <3>1. i - 1 \in 1 .. n - 1 /\ (i - 1) + 1 = i
      BY <2>1
    <3>2. Tail(list)[i - 1] = list[i]
      BY <1>1, <1>2, <3>1
    <3> QED
      BY <1>1, <1>2, <3>1, <3>2 DEF Of
  <2> QED
    BY <1>1, <1>2, <2>1 DEF Of
<1>6. Head(list) \in Of(list)
  BY <1>1 DEF Of
<1> QED
  BY <1>1, <1>3, <1>4, <1>5, <1>6

\* The default and a value with a column set are values.
LEMMA Values ==
  /\ Default \in Value /\ Default[1] = 0 /\ Default[2] = 0
  /\ \A v \in Value, c \in 1 .. 2, x \in 0 .. 2 : [v EXCEPT ![c] = x] \in Value
<1>1. Default \in Value /\ Default[1] = 0 /\ Default[2] = 0
  BY DEF Default, Value
<1>2. \A v \in Value, c \in 1 .. 2, x \in 0 .. 2 : [v EXCEPT ![c] = x] \in Value
  BY DEF Value
<1> QED
  BY <1>1, <1>2

----------------------------------------------------------------------------
(* The invariant.                                                           *)

Steps  == {"new", "look", "insert", "write", "clear", "remove", "gather", "tell", "announce",
           "ok", "failed"}
JobSet == [step : Steps, user : Users \cup {NoUser}, op : {"put", "take", "show"}, col : 1..2,
           val : 0..2, todo : Seq(Keys), keys : SUBSET Keys, row : Row \cup {NoRow},
           seen : SUBSET Row]

ToldSet == [Keys -> SUBSET (Row \cup Users)]

Typed ==
  /\ table \in Tables /\ rows \subseteq Row /\ req \in [Requests -> JobSet]
  /\ wish \in [Users -> [Keys -> Value \cup {Nothing}]]
  /\ told \in ToldSet /\ rushed \subseteq Users \X Keys /\ crowded \subseteq Keys

Kept == {"star", "dmArchive", "groupArchive", "receipt"}

\* What a request has in hand: what it came for, the keys it has not dealt with, and a
\* row of the first of them.
Shape(q) ==
  /\ IF req[q].step \in {"new", "ok", "failed"} THEN req[q] = Idle(req[q].step)
     ELSE req[q].user \in Users
  /\ Different(req[q].todo) /\ Of(req[q].todo) \subseteq req[q].keys
  /\ Len(req[q].todo) > 1 => table = "receipt"
  /\ req[q].step \in {"look", "insert", "write", "clear", "remove"} => req[q].todo # <<>>
  /\ req[q].step \in {"gather", "announce"} => req[q].todo = <<>>
  /\ req[q].step = "gather" => table = "reaction"
  /\ req[q].step = "announce" => table = "receipt"
  /\ req[q].step = "clear" => table = "pin"
  /\ req[q].step = "look" => table # "pin"
  /\ req[q].step = "tell" =>
       table \in {"reaction", "pin"} /\ (table = "reaction" => req[q].todo = <<>>)
  /\ req[q].step = "remove" => req[q].op = "take" /\ table \notin {"receipt", "settings"}
  /\ req[q].step \in {"look", "insert", "write", "clear"} => req[q].op # "take"
  /\ req[q].op = "show" => table = "settings"
  /\ req[q].col = 2 => table \in {"theme", "settings"}
  /\ req[q].step \in {"look", "insert"} /\ table \in Kept => req[q].val = 1
  /\ req[q].step = "write" =>
       /\ table \in {"reaction", "theme", "token", "senderKey", "settings"}
       /\ req[q].row \in Row /\ req[q].row.key = Head(req[q].todo)
       /\ Kind(table).whose = "user" => req[q].row.user = req[q].user

\* The keys a request may still insert a row for.
Open(q) == CASE req[q].step = "new" -> Keys
             [] req[q].step \in {"look", "insert", "clear"} -> Of(req[q].todo)
             [] req[q].step = "write" -> Of(Tail(req[q].todo))
             [] OTHER -> {}

\* The rows of the table and those that requests have loaded to write them.
Copies == rows \cup {req[q].row : q \in {r \in Requests : req[r].step = "write"}}

\* A row is known by the request that made it and its key; who it is of does not change
\* where rows are looked for by user; and what has one column leaves the other alone.
Sound ==
  /\ \A x, y \in rows : x.id = y.id /\ x.key = y.key => x = y
  /\ \A x \in Copies : x.key \notin Open(x.id)
  /\ \A x, y \in Copies :
       Kind(table).whose = "user" /\ x.id = y.id /\ x.key = y.key => x.user = y.user
  /\ \A x \in Copies : /\ table \notin {"theme", "settings"} => x.val[2] = 0
                       /\ table \in Kept => x.val[1] = 1

\* No two rows have what the index covers.
Unique ==
  \A x, y \in rows :
    /\ Kind(table).index = "key" /\ x.key = y.key => x = y
    /\ Kind(table).index = "userAndKey" /\ x.key = y.key /\ x.user = y.user => x = y

IInv == Typed /\ (\A q \in Requests : Shape(q)) /\ Sound /\ Unique

----------------------------------------------------------------------------
(* How requests move.                                                       *)

Ended == {"new", "ok", "failed"}

\* A request that is not under way has nothing in hand.
LEMMA IdleIs ==
  ASSUME NEW s \in Steps
  PROVE  /\ Idle(s) \in JobSet /\ Idle(s).step = s /\ Idle(s).user = NoUser /\ Idle(s).op = "put"
         /\ Idle(s).col = 1 /\ Idle(s).val = 0 /\ Idle(s).todo = <<>> /\ Idle(s).keys = {}
         /\ Idle(s).row = NoRow /\ Idle(s).seen = {}
<1>1. <<>> \in Seq(Keys)
  OBVIOUS
<1> QED
  BY <1>1 DEF Idle, JobSet

\* One request takes a step.
Goes(q) ==
  /\ req' \in [Requests -> JobSet]
  /\ \A r \in Requests : r # q => req'[r] = req[r]

\* It goes on with what it came for,
Carries(q) ==
  /\ Goes(q) /\ wish' = wish
  /\ req'[q].user = req[q].user /\ req'[q].op = req[q].op /\ req'[q].col = req[q].col
  /\ req'[q].val = req[q].val /\ req'[q].keys = req[q].keys

\* or it is answered, and what it asked for is noted.
Answered(q, state) ==
  /\ Goes(q) /\ req'[q] = Idle(state)
  /\ wish' \in [Users -> [Keys -> Value \cup {Nothing}]]
  /\ \A u \in Users, k \in Keys :
       wish'[u][k] = IF state # "failed" /\ u = req[q].user /\ k \in req[q].keys
                     THEN Asked(q, wish[u][k]) ELSE wish[u][k]

\* What a request asks for is a value, or none.
LEMMA AskedIs ==
  ASSUME Typed, NEW q \in Requests, NEW v \in Value \cup {Nothing}
  PROVE  Asked(q, v) \in Value \cup {Nothing}
<1>1. req[q] \in JobSet
  BY DEF Typed
<1>2. req[q].col \in 1 .. 2 /\ req[q].val \in 0 .. 2
  BY <1>1 DEF JobSet
<1>3. PICK w \in Value : w = IF v = Nothing THEN Default ELSE v
  BY Values
<1>4. Set(q, w) \in Value
  BY <1>2, Values DEF Set
<1> QED
  BY <1>3, <1>4 DEF Asked

\* Such is the answer.
LEMMA AnswerMoves ==
  ASSUME Typed, NEW q \in Requests, NEW state \in {"ok", "failed"}, Answer(q, state),
         req[q].user \in Users
  PROVE  Answered(q, state)
<1>1. Goes(q) /\ req'[q] = Idle(state)
  <2>1. Idle(state) \in JobSet
    BY IdleIs DEF Steps
  <2>2. req' = [req EXCEPT ![q] = Idle(state)]
    BY DEF Answer
  <2> QED
    BY <2>1, <2>2 DEF Typed, Goes
<1>2. CASE state = "failed"
  BY <1>1, <1>2 DEF Answer, Answered, Typed
<1>3. CASE state # "failed"
  <2>1. PICK u \in Users : u = req[q].user
    OBVIOUS
  <2>2. PICK f : f = [k \in Keys |-> IF k \in req[q].keys THEN Asked(q, wish[u][k]) ELSE wish[u][k]]
    OBVIOUS
  <2>3. wish' = [wish EXCEPT ![u] = f]
    BY <1>3, <2>1, <2>2 DEF Answer
  <2>4. wish[u] \in [Keys -> Value \cup {Nothing}] /\ wish \in [Users -> [Keys -> Value \cup {Nothing}]]
    BY DEF Typed
  <2>5. \A k \in Keys : Asked(q, wish[u][k]) \in Value \cup {Nothing}
    BY <2>4, AskedIs
  <2>6. f \in [Keys -> Value \cup {Nothing}]
    BY <2>2, <2>4, <2>5
  <2>7. /\ wish' \in [Users -> [Keys -> Value \cup {Nothing}]] /\ wish'[u] = f
        /\ \A x \in Users : x # u => wish'[x] = wish[x]
    BY <2>3, <2>4, <2>6
  <2> QED
    BY <1>1, <1>3, <2>1, <2>2, <2>7 DEF Answered
<1> QED
  BY <1>2, <1>3

\* The first key has been dealt with.
Deals(q) ==
  \/ /\ Carries(q) /\ req'[q].todo = Tail(req[q].todo) /\ req'[q].row = NoRow
     /\ req'[q].seen = req[q].seen
     /\ \/ req'[q].step = "look" /\ Len(req[q].todo) > 1
        \/ Len(req[q].todo) = 1 /\ \/ req'[q].step = "gather" /\ table = "reaction"
                                   \/ req'[q].step = "announce" /\ table = "receipt"
                                   \/ req'[q].step = "tell" /\ table = "pin"
  \/ /\ table \notin {"reaction", "receipt", "pin"} /\ Len(req[q].todo) = 1
     /\ Answered(q, "ok")

LEMMA DealtMoves ==
  ASSUME Typed, NEW q \in Requests, Shape(q), req[q].step \in {"look", "insert", "write", "remove"},
         Dealt(q)
  PROVE  Deals(q)
<1>1. req[q] \in JobSet /\ req[q].todo \in Seq(Keys) /\ req[q].todo # <<>> /\ req[q].user \in Users
  BY DEF Typed, JobSet, Shape
<1>2. Tail(req[q].todo) \in Seq(Keys) /\ Len(req[q].todo) \in Nat \ {0}
  BY <1>1
<1>3. ASSUME NEW s \in Steps,
             req' = [req EXCEPT ![q].todo = Tail(@), ![q].row = NoRow, ![q].step = s], wish' = wish
      PROVE  /\ Carries(q) /\ req'[q].todo = Tail(req[q].todo) /\ req'[q].row = NoRow
             /\ req'[q].seen = req[q].seen /\ req'[q].step = s
  <2>1. PICK j : j = [req[q] EXCEPT !.todo = Tail(@), !.row = NoRow, !.step = s]
    OBVIOUS
  <2>2. /\ j \in JobSet /\ j.todo = Tail(req[q].todo) /\ j.row = NoRow /\ j.seen = req[q].seen
        /\ j.step = s /\ j.user = req[q].user /\ j.op = req[q].op /\ j.col = req[q].col
        /\ j.val = req[q].val /\ j.keys = req[q].keys
    BY <1>1, <1>2, <2>1 DEF JobSet
  <2>3. req' = [req EXCEPT ![q] = j]
    BY <1>3, <2>1
  <2>4. req'[q] = j /\ Goes(q)
    BY <2>2, <2>3 DEF Typed, Goes
  <2> QED
    BY <1>3, <2>2, <2>4 DEF Carries
<1>4. CASE Len(req[q].todo) > 1
  <2>1. req' = [req EXCEPT ![q].todo = Tail(@), ![q].row = NoRow, ![q].step = "look"] /\ wish' = wish
    BY <1>4 DEF Dealt
  <2> QED
    BY <1>3, <1>4, <2>1 DEF Deals, Steps
<1>5. CASE Len(req[q].todo) = 1
  <2>0. ~(Len(req[q].todo) > 1)
    BY <1>5
  <2>1. CASE table = "reaction"
    <3>1. req' = [req EXCEPT ![q].todo = Tail(@), ![q].row = NoRow, ![q].step = "gather"] /\ wish' = wish
      BY <2>0, <2>1 DEF Dealt
    <3> QED
      BY <1>3, <1>5, <2>1, <3>1 DEF Deals, Steps
  <2>2. CASE table = "receipt"
    <3>1. req' = [req EXCEPT ![q].todo = Tail(@), ![q].row = NoRow, ![q].step = "announce"] /\ wish' = wish
      BY <2>0, <2>2 DEF Dealt
    <3> QED
      BY <1>3, <1>5, <2>2, <3>1 DEF Deals, Steps
  <2>3. CASE table = "pin"
    <3>1. req' = [req EXCEPT ![q].todo = Tail(@), ![q].row = NoRow, ![q].step = "tell"] /\ wish' = wish
      BY <2>0, <2>3 DEF Dealt
    <3> QED
      BY <1>3, <1>5, <2>3, <3>1 DEF Deals, Steps
  <2>4. CASE table \notin {"reaction", "receipt", "pin"}
    <3>1. Answer(q, "ok")
      BY <2>0, <2>4 DEF Dealt
    <3> QED
      BY <1>1, <1>5, <2>4, <3>1, AnswerMoves DEF Deals
  <2> QED
    BY <2>1, <2>2, <2>3, <2>4
<1>6. Len(req[q].todo) > 1 \/ Len(req[q].todo) = 1
  <2>1. \A n \in Nat \ {0} : n > 1 \/ n = 1
    OBVIOUS
  <2> QED
    BY <1>2, <2>1
<1> QED
  BY <1>4, <1>5, <1>6

\* Then the request still has what it should have in hand.
LEMMA DealsShape ==
  ASSUME Typed, NEW q \in Requests, Shape(q), req[q].step \in {"look", "insert", "write", "remove"},
         Deals(q), table' = table,
         req[q].step = "remove" => Len(req[q].todo) = 1
  PROVE  Shape(q)'
<1>1. req[q] \in JobSet /\ req[q].todo \in Seq(Keys) /\ req[q].todo # <<>> /\ Different(req[q].todo)
  BY DEF Typed, JobSet, Shape
<1>2. /\ Tail(req[q].todo) \in Seq(Keys) /\ Different(Tail(req[q].todo))
      /\ Len(Tail(req[q].todo)) = Len(req[q].todo) - 1 /\ Len(req[q].todo) \in Nat \ {0}
      /\ Of(Tail(req[q].todo)) \subseteq Of(req[q].todo)
  BY <1>1, TailOf
<1>3. CASE Answered(q, "ok")
  <2>1. req'[q] = Idle("ok") /\ Len(<<>>) = 0 /\ Of(<<>>) = {} /\ Different(<<>>)
    BY <1>3 DEF Answered, Of, Different
  <2> QED
    BY <2>1, IdleIs DEF Shape, Steps
<1>4. CASE /\ Carries(q) /\ req'[q].todo = Tail(req[q].todo) /\ req'[q].row = NoRow
           /\ \/ req'[q].step = "look" /\ Len(req[q].todo) > 1
              \/ Len(req[q].todo) = 1 /\ \/ req'[q].step = "gather" /\ table = "reaction"
                                         \/ req'[q].step = "announce" /\ table = "receipt"
                                         \/ req'[q].step = "tell" /\ table = "pin"
  <2>0. PICK rest \in Seq(Keys) : rest = Tail(req[q].todo)
    BY <1>2
  <2>1. Len(req[q].todo) = 1 => Tail(req[q].todo) = <<>>
    <3>1. Len(rest) = 0 => rest = <<>>
      OBVIOUS
    <3>2. Len(req[q].todo) = 1 => Len(rest) = 0
      BY <1>2, <2>0
    <3> QED
      BY <2>0, <3>1, <3>2
  <2>2. Len(req[q].todo) > 1 => Tail(req[q].todo) # <<>>
    <3>1. rest = <<>> => Len(rest) = 0
      OBVIOUS
    <3>2. Len(req[q].todo) > 1 => Len(rest) # 0
      BY <1>2, <2>0
    <3> QED
      BY <2>0, <3>1, <3>2
  <2>3. Len(Tail(req[q].todo)) > 1 => Len(req[q].todo) > 1
    BY <1>2
  <2>4. Of(req'[q].todo) \subseteq req'[q].keys
    BY <1>2, <1>4 DEF Shape, Carries
  <2>5. CASE req'[q].step = "look" /\ Len(req[q].todo) > 1
    BY <1>2, <1>4, <2>2, <2>3, <2>4, <2>5 DEF Shape, Carries
  <2>6. CASE req'[q].step \in {"gather", "announce", "tell"} /\ Len(req[q].todo) = 1
    BY <1>2, <1>4, <2>1, <2>3, <2>4, <2>6 DEF Shape, Carries
  <2> QED
    BY <1>4, <2>5, <2>6
<1> QED
  BY <1>3, <1>4 DEF Deals

\* The parts of the step of a request that keep the invariant, whatever it does to
\* the rows.
LEMMA StepKeeps ==
  ASSUME IInv, NEW q \in Requests, Goes(q), table' = table, rows' \subseteq Row,
         wish' \in [Users -> [Keys -> Value \cup {Nothing}]],
         rushed' \subseteq Users \X Keys, crowded' \subseteq Keys, told' \in ToldSet, Shape(q)',
         \A k \in Keys : k \in Open(q)' => k \in Open(q),
         \A x \in Copies' :
           \/ \E y \in Copies : /\ y.id = x.id /\ y.key = x.key
                                /\ Kind(table).whose = "user" => y.user = x.user
           \/ x.id = q /\ x.key \in Open(q) /\ x.key \notin Open(q)' /\ x.user = req[q].user,
         \A x \in Copies' : /\ table \notin {"theme", "settings"} => x.val[2] = 0
                            /\ table \in Kept => x.val[1] = 1,
         \A x, y \in rows' : x.id = y.id /\ x.key = y.key => x = y,
         Unique'
  PROVE  IInv'
<1>1. Typed /\ Typed'
  BY DEF IInv, Typed, Goes
<1>2. \A r \in Requests : Shape(r)'
  <2>1. ASSUME NEW r \in Requests, r # q PROVE Shape(r)'
    <3>1. Shape(r) /\ req'[r] = req[r]
      BY <2>1 DEF IInv, Goes
    <3> QED
      BY <3>1 DEF Shape
  <2> QED
    BY <2>1
<1>3. \A r \in Requests : r # q => Open(r)' = Open(r)
  BY DEF Goes, Open
<1>4. Copies' \subseteq Row
  <2>1. \A r \in Requests : req'[r].step = "write" => req'[r].row \in Row
    BY <1>2 DEF Shape
  <2> QED
    BY <2>1 DEF Copies
<1>5. ASSUME NEW x \in Copies' PROVE x.key \notin Open(x.id)'
  <2>0. x.id \in Requests /\ x.key \in Keys
    BY <1>4 DEF Row
  <2>1. CASE \E y \in Copies : y.id = x.id /\ y.key = x.key
    <3>1. x.key \notin Open(x.id)
      BY <2>1 DEF IInv, Sound
    <3>2. PICK i \in Requests : i = x.id
      BY <2>0
    <3>3. x.key \notin Open(i)'
      BY <1>3, <2>0, <3>1, <3>2
    <3> QED
      BY <3>2, <3>3
  <2>2. CASE x.id = q /\ x.key \notin Open(q)'
    BY <2>2
  <2> QED
    BY <2>1, <2>2
<1>6. ASSUME NEW x \in Copies', NEW y \in Copies', Kind(table).whose = "user", x.id = y.id, x.key = y.key
      PROVE  x.user = y.user
  <2>1. CASE (\E z \in Copies : z.id = x.id /\ z.key = x.key /\ z.user = x.user)
             /\ \E z \in Copies : z.id = y.id /\ z.key = y.key /\ z.user = y.user
    BY <1>6, <2>1 DEF IInv, Sound
  <2>2. ASSUME NEW z \in Copies, z.id = q, z.key \in Open(q) PROVE FALSE
    BY <2>2 DEF IInv, Sound
  <2> QED
    BY <1>6, <2>1, <2>2
<1>7. Sound'
  BY <1>5, <1>6 DEF Sound
<1> QED
  BY <1>1, <1>2, <1>7 DEF IInv

\* A step that adds nothing to the rows and loads none but from them.
LEMMA FewerKeeps ==
  ASSUME IInv, NEW q \in Requests, Goes(q), table' = table, rows' \subseteq rows,
         wish' \in [Users -> [Keys -> Value \cup {Nothing}]],
         rushed' \subseteq Users \X Keys, crowded' \subseteq Keys, told' \in ToldSet, Shape(q)',
         \A k \in Keys : k \in Open(q)' => k \in Open(q),
         req'[q].step = "write" => req'[q].row \in rows
  PROVE  IInv'
<1>1. Copies' \subseteq Copies
  <2>1. ASSUME NEW r \in Requests, req'[r].step = "write" PROVE req'[r].row \in Copies
    BY <2>1 DEF Goes, Copies
  <2> QED
    BY <2>1 DEF Copies
<1>2. rows' \subseteq Row
  BY DEF IInv, Typed
<1>3. \A x, y \in rows' : x.id = y.id /\ x.key = y.key => x = y
  BY DEF IInv, Sound
<1>4. Unique'
  BY DEF IInv, Unique
<1>5. \A x \in Copies' : /\ table \notin {"theme", "settings"} => x.val[2] = 0
                         /\ table \in Kept => x.val[1] = 1
  BY <1>1 DEF IInv, Sound
<1> QED
  BY <1>1, <1>2, <1>3, <1>4, <1>5, StepKeeps

\* The keys a request may insert a row for, when it has dealt with its first.
LEMMA DealsOpen ==
  ASSUME Typed, NEW q \in Requests, Shape(q), req[q].step \in {"look", "insert", "write", "remove"},
         Deals(q), req[q].step = "remove" => Len(req[q].todo) = 1
  PROVE  /\ \A k \in Keys : k \in Open(q)' => k \in Open(q)
         /\ Head(req[q].todo) \notin Open(q)'
         /\ req'[q].step # "write"
<1>1. req[q] \in JobSet /\ req[q].todo \in Seq(Keys) /\ req[q].todo # <<>> /\ Different(req[q].todo)
  BY DEF Typed, JobSet, Shape
<1>2. Of(Tail(req[q].todo)) = Of(req[q].todo) \ {Head(req[q].todo)} /\ Len(req[q].todo) \in Nat \ {0}
  BY <1>1, TailOf
<1>3. CASE req'[q].step = "look" /\ req'[q].todo = Tail(req[q].todo) /\ Len(req[q].todo) > 1
  <2>1. Open(q)' = Of(Tail(req[q].todo))
    BY <1>3 DEF Open
  <2>2. req[q].step # "remove"
    <3>1. \A n \in Nat \ {0} : n > 1 => n # 1
      OBVIOUS
    <3>2. Len(req[q].todo) # 1
      BY <1>2, <1>3, <3>1
    <3> QED
      BY <3>2
  <2>3. Open(q) \in {Of(req[q].todo), Of(Tail(req[q].todo))}
    BY <2>2 DEF Open
  <2> QED
    BY <1>2, <1>3, <2>1, <2>3
<1>4. CASE req'[q].step \in {"gather", "announce", "tell", "ok"}
  <2>1. Open(q)' = {}
    BY <1>4 DEF Open
  <2> QED
    BY <1>4, <2>1
<1>5. req'[q] = Idle("ok") => req'[q].step = "ok"
  BY IdleIs DEF Steps
<1> QED
  BY <1>3, <1>4, <1>5 DEF Deals, Answered

\* A request goes to a state.
LEMMA GoesTo ==
  ASSUME Typed, NEW q \in Requests, NEW j \in JobSet, req' = [req EXCEPT ![q] = j]
  PROVE  Goes(q) /\ req'[q] = j
BY DEF Typed, Goes

\* What the fields of a request are.
LEMMA Fields ==
  ASSUME Typed, NEW q \in Requests
  PROVE  /\ req[q] \in JobSet /\ req[q].row \in Row \cup {NoRow} /\ req[q].seen \in SUBSET Row
         /\ req[q].todo \in Seq(Keys) /\ req[q].keys \in SUBSET Keys
         /\ req[q].col \in 1 .. 2 /\ req[q].val \in 0 .. 2 /\ req[q].step \in Steps
<1>1. req[q] \in JobSet
  BY DEF Typed
<1> QED
  BY <1>1 DEF JobSet

\* It changes its step only,
LEMMA StepsOn ==
  ASSUME Typed, NEW q \in Requests, NEW s \in Steps, wish' = wish,
         req' = [req EXCEPT ![q].step = s]
  PROVE  /\ Carries(q) /\ req'[q].step = s /\ req'[q].row = req[q].row
         /\ req'[q].seen = req[q].seen /\ req'[q].todo = req[q].todo
<1>1. PICK j : j = [req[q] EXCEPT !.step = s]
  OBVIOUS
<1>2. req[q] \in JobSet
  BY DEF Typed
<1>3. /\ j \in JobSet /\ j.step = s /\ j.row = req[q].row /\ j.seen = req[q].seen
      /\ j.todo = req[q].todo /\ j.user = req[q].user /\ j.op = req[q].op
      /\ j.col = req[q].col /\ j.val = req[q].val /\ j.keys = req[q].keys
  BY <1>1, <1>2 DEF JobSet
<1>4. req' = [req EXCEPT ![q] = j]
  BY <1>1
<1>5. Goes(q) /\ req'[q] = j
  BY <1>3, <1>4, GoesTo
<1> QED
  BY <1>3, <1>5 DEF Carries

\* or holds a row,
LEMMA Holds ==
  ASSUME Typed, NEW q \in Requests, NEW s \in Steps, NEW x \in Row \cup {NoRow}, wish' = wish,
         req' = [req EXCEPT ![q].step = s, ![q].row = x]
  PROVE  /\ Carries(q) /\ req'[q].step = s /\ req'[q].row = x
         /\ req'[q].seen = req[q].seen /\ req'[q].todo = req[q].todo
<1>1. PICK j : j = [req[q] EXCEPT !.step = s, !.row = x]
  OBVIOUS
<1>2. req[q] \in JobSet
  BY DEF Typed
<1>3. /\ j \in JobSet /\ j.step = s /\ j.row = x /\ j.seen = req[q].seen
      /\ j.todo = req[q].todo /\ j.user = req[q].user /\ j.op = req[q].op
      /\ j.col = req[q].col /\ j.val = req[q].val /\ j.keys = req[q].keys
  BY <1>1, <1>2 DEF JobSet
<1>4. req' = [req EXCEPT ![q] = j]
  BY <1>1
<1>5. Goes(q) /\ req'[q] = j
  BY <1>3, <1>4, GoesTo
<1> QED
  BY <1>3, <1>5 DEF Carries

\* or has what it will tell.
LEMMA Sees ==
  ASSUME Typed, NEW q \in Requests, NEW s \in Steps, NEW x \in SUBSET Row, wish' = wish,
         req' = [req EXCEPT ![q].step = s, ![q].seen = x]
  PROVE  /\ Carries(q) /\ req'[q].step = s /\ req'[q].row = req[q].row
         /\ req'[q].seen = x /\ req'[q].todo = req[q].todo
<1>1. PICK j : j = [req[q] EXCEPT !.step = s, !.seen = x]
  OBVIOUS
<1>2. req[q] \in JobSet
  BY DEF Typed
<1>3. /\ j \in JobSet /\ j.step = s /\ j.row = req[q].row /\ j.seen = x
      /\ j.todo = req[q].todo /\ j.user = req[q].user /\ j.op = req[q].op
      /\ j.col = req[q].col /\ j.val = req[q].val /\ j.keys = req[q].keys
  BY <1>1, <1>2 DEF JobSet
<1>4. req' = [req EXCEPT ![q] = j]
  BY <1>1
<1>5. Goes(q) /\ req'[q] = j
  BY <1>3, <1>4, GoesTo
<1> QED
  BY <1>3, <1>5 DEF Carries

----------------------------------------------------------------------------
(* Every step keeps the invariant.                                          *)

\* A list of keys of a request.
LEMMA KeyListsAre ==
  ASSUME NEW t \in Tables, NEW list \in KeyLists[t]
  PROVE  /\ list \in Seq(Keys) /\ list # <<>> /\ Different(list)
         /\ Len(list) > 1 => t = "receipt"
         /\ Of(list) \in SUBSET Keys
<1>1. /\ list \in Seq(Keys) /\ list # <<>> /\ Different(list)
      /\ Len(list) > 1 => t = "receipt"
  BY MarksAssumption DEF Different
<1>2. \A i \in DOMAIN list : list[i] \in Keys
  BY <1>1
<1> QED
  BY <1>1, <1>2 DEF Of

\* A request that begins has a list of keys, and what it came for suits the table.
Begun(q, u, op, col, val, list) ==
  /\ req[q].step = "new" /\ Goes(q)
  /\ req'[q].step = IF op = "take" THEN "remove" ELSE IF table = "pin" THEN "clear" ELSE "look"
  /\ req'[q].user = u /\ req'[q].op = op /\ req'[q].col = col /\ req'[q].val = val
  /\ req'[q].todo = list /\ req'[q].keys = Of(list) /\ req'[q].row = NoRow /\ req'[q].seen = {}
  /\ rushed' = (IF {r \in Working : req[r].user = u} = {} THEN rushed
                ELSE rushed \cup ({u} \X (Of(list) \cup UNION {req[r].keys : r \in {x \in Working : req[x].user = u}})))
  /\ crowded' = (crowded \ Of(list)) \cup {k \in Of(list) : \E r \in Working : k \in req[r].keys}
  /\ table' = table /\ rows' = rows /\ told' = told /\ wish' = wish
  /\ op = "show" => table = "settings"
  /\ col = 2 => table \in {"theme", "settings"}
  /\ op = "take" => table \notin {"receipt", "settings"}
  /\ table \in Kept /\ op # "take" => val = 1

AskMoves(q) ==
  \E u \in Users, op \in {"put", "take", "show"}, col \in 1 .. 2, val \in 0 .. 2 :
    \E list \in KeyLists[table] : Begun(q, u, op, col, val, list)

\* What a request may come for, given the table.
Asking(q, u, op, col, val) ==
  /\ Ask(q, u, op, col, val) /\ op \in {"put", "take", "show"} /\ col \in 1 .. 2 /\ val \in 0 .. 2
  /\ op = "show" => table = "settings"
  /\ col = 2 => table \in {"theme", "settings"}
  /\ op = "take" => table \notin {"receipt", "settings"}
  /\ table \in Kept /\ op # "take" => val = 1

LEMMA Begins ==
  ASSUME Typed, NEW q \in Requests, NEW u \in Users, NEW op \in {"put", "take", "show"},
         NEW col \in 1 .. 2, NEW val \in 0 .. 2, Asking(q, u, op, col, val)
  PROVE  AskMoves(q)
<1>1. PICK list \in KeyLists[table] :
        LET ks     == {list[i] : i \in DOMAIN list}
            others == {r \in Working : req[r].user = u}
            step   == IF op = "take" THEN "remove" ELSE IF table = "pin" THEN "clear" ELSE "look"
        IN
        /\ At(q, "new")
        /\ req' = [req EXCEPT ![q] = [Idle(step) EXCEPT
                                        !.user = u, !.op = op, !.col = col, !.val = val,
                                        !.todo = list, !.keys = ks]]
        /\ rushed' = IF others = {} THEN rushed
                     ELSE rushed \cup ({u} \X (ks \cup UNION {req[r].keys : r \in others}))
        /\ crowded' = (crowded \ ks) \cup {k \in ks : \E r \in Working : k \in req[r].keys}
        /\ UNCHANGED <<table, rows, told, wish>>
  BY DEF Ask, Asking
<1>2. list \in Seq(Keys) /\ Of(list) \in SUBSET Keys
  BY KeyListsAre DEF Typed
<1>3. PICK s \in Steps : s = IF op = "take" THEN "remove" ELSE IF table = "pin" THEN "clear" ELSE "look"
  BY DEF Steps
<1>4. PICK j : j = [Idle(s) EXCEPT !.user = u, !.op = op, !.col = col, !.val = val,
                                   !.todo = list, !.keys = Of(list)]
  OBVIOUS
<1>5. /\ j.step = s /\ j.user = u /\ j.op = op /\ j.col = col /\ j.val = val /\ j.todo = list
      /\ j.keys = Of(list) /\ j.row = NoRow /\ j.seen = {} /\ j \in JobSet
  BY <1>2, <1>3, <1>4 DEF Idle, JobSet
<1>6. req' = [req EXCEPT ![q] = j]
  BY <1>1, <1>3, <1>4 DEF Of
<1>7. Goes(q) /\ req'[q] = j
  BY <1>5, <1>6, GoesTo
<1>8. /\ rushed' = (IF {r \in Working : req[r].user = u} = {} THEN rushed
                    ELSE rushed \cup ({u} \X (Of(list) \cup UNION {req[r].keys : r \in {x \in Working : req[x].user = u}})))
      /\ crowded' = (crowded \ Of(list)) \cup {k \in Of(list) : \E r \in Working : k \in req[r].keys}
  BY <1>1 DEF Of
<1>9. /\ op = "show" => table = "settings"
      /\ col = 2 => table \in {"theme", "settings"}
      /\ op = "take" => table \notin {"receipt", "settings"}
      /\ table \in Kept /\ op # "take" => val = 1
  BY DEF Asking
<1> QED
  <2>1. Begun(q, u, op, col, val, list)
    BY <1>1, <1>3, <1>5, <1>7, <1>8, <1>9 DEF Begun, At
  <2> QED
    BY <2>1 DEF AskMoves

\* A request begins.
LEMMA AskKeeps ==
  ASSUME IInv, NEW q \in Requests, AskMoves(q)
  PROVE  IInv'
<1>0. Typed
  BY DEF IInv
<1>1. PICK u \in Users, op \in {"put", "take", "show"}, col \in 1 .. 2, val \in 0 .. 2 :
        \E list \in KeyLists[table] : Begun(q, u, op, col, val, list)
  BY DEF AskMoves
<1>2. PICK list \in KeyLists[table] : Begun(q, u, op, col, val, list)
  BY <1>1
<1>3. /\ list \in Seq(Keys) /\ list # <<>> /\ Different(list)
      /\ Len(list) > 1 => table = "receipt"
      /\ Of(list) \in SUBSET Keys
  BY <1>0, KeyListsAre DEF Typed
<1>4. Shape(q)'
  BY <1>2, <1>3 DEF Begun, Shape
<1>5. rushed' \subseteq Users \X Keys /\ crowded' \subseteq Keys
  <2>1. \A r \in Requests : req[r].keys \subseteq Keys
    BY <1>0, Fields
  <2>2. \A r \in Working : req[r].keys \subseteq Keys
    BY <2>1 DEF Working
  <2>3. \A k \in UNION {req[r].keys : r \in {x \in Working : req[x].user = u}} : k \in Keys
    BY <2>2
  <2> QED
    BY <1>0, <1>2, <1>3, <2>3 DEF Begun, Typed
<1>6. \A k \in Keys : k \in Open(q)
  BY <1>2 DEF Begun, Open
<1>7. /\ wish' \in [Users -> [Keys -> Value \cup {Nothing}]] /\ table' = table /\ rows' \subseteq rows
      /\ told' \in ToldSet /\ Goes(q)
      /\ req'[q].step = "write" => req'[q].row \in rows
  BY <1>0, <1>2 DEF Begun, Typed
<1> QED
  BY <1>4, <1>5, <1>6, <1>7, FewerKeeps

\* When the request is answered nothing else changes, and it has nothing in hand.
LEMMA AnswerKeeps ==
  ASSUME IInv, NEW q \in Requests, NEW state \in {"ok", "failed"}, Answered(q, state),
         table' = table, rows' \subseteq rows, rushed' = rushed, crowded' = crowded, told' \in ToldSet
  PROVE  IInv'
<1>1. req'[q] = Idle(state) /\ Goes(q) /\ state \in Steps
  BY DEF Answered, Steps
<1>2. Shape(q)'
  <2>1. Len(<<>>) = 0 /\ Of(<<>>) = {} /\ Different(<<>>)
    BY DEF Of, Different
  <2> QED
    BY <1>1, <2>1, IdleIs DEF Shape
<1>3. Open(q)' = {} /\ req'[q].step # "write"
  BY <1>1, IdleIs DEF Open
<1> QED
  BY <1>1, <1>2, <1>3, FewerKeeps DEF Answered, IInv, Typed

\* A request that deletes a row has one key.
LEMMA OneToRemove ==
  ASSUME Typed, NEW q \in Requests, Shape(q)
  PROVE  req[q].step = "remove" => Len(req[q].todo) = 1
<1>1. req[q].todo \in Seq(Keys)
  BY Fields
<1>2. PICK n \in Nat : n = Len(req[q].todo)
  BY <1>1
<1>3. req[q].todo # <<>> => n # 0
  BY <1>1, <1>2
<1>4. req[q].step = "remove" => ~(n > 1) /\ n # 0
  BY <1>2, <1>3 DEF Shape
<1>5. ~(n > 1) /\ n # 0 => n = 1
  OBVIOUS
<1> QED
  BY <1>2, <1>4, <1>5

\* When a key has been dealt with and the rows are the same or fewer.
LEMMA DealsKeeps ==
  ASSUME IInv, NEW q \in Requests, req[q].step \in {"look", "insert", "write", "remove"},
         Deals(q), table' = table, rows' \subseteq rows, rushed' = rushed, crowded' = crowded,
         told' \in ToldSet
  PROVE  IInv'
<1>1. Typed /\ Shape(q)
  BY DEF IInv
<1>2. Deals(q)
  OBVIOUS
<1>3. req[q].step = "remove" => Len(req[q].todo) = 1
  BY <1>1, OneToRemove
<1>4. Shape(q)'
  BY <1>1, <1>2, <1>3, DealsShape
<1>5. (\A k \in Keys : k \in Open(q)' => k \in Open(q)) /\ req'[q].step # "write"
  BY <1>1, <1>2, <1>3, DealsOpen
<1>6. Goes(q) /\ wish' \in [Users -> [Keys -> Value \cup {Nothing}]]
  BY <1>1, <1>2 DEF Deals, Carries, Answered, Typed
<1> QED
  BY <1>1, <1>4, <1>5, <1>6, FewerKeeps DEF Typed

\* Of the rows that are looked for one is found, of the right user and key.
LEMMA FoundIs ==
  ASSUME Typed, NEW q \in Requests, Looked(q) # {}
  PROVE  /\ First(Looked(q)) \in rows /\ First(Looked(q)) \in Row
         /\ First(Looked(q)).key = Head(req[q].todo)
         /\ Kind(table).whose = "user" => First(Looked(q)).user = req[q].user
<1>1. Looked(q) \subseteq rows /\ rows \subseteq Row
  BY DEF Looked, Typed
<1>2. First(Looked(q)) \in Looked(q)
  BY <1>1, FirstIsOne
<1> QED
  BY <1>1, <1>2 DEF Looked

\* What a look-up does.
LookMoves(q) ==
  /\ req[q].step = "look" /\ rows' = rows /\ told' = told /\ Unmoved
  /\ \/ /\ Looked(q) = {} /\ Carries(q) /\ req'[q].step = "insert"
        /\ req'[q].todo = req[q].todo /\ req'[q].seen = req[q].seen
     \/ Looked(q) # {} /\ (Kind(table).found = "keep" \/ req[q].op = "show") /\ Deals(q)
     \/ /\ Looked(q) # {} /\ Kind(table).found # "keep" /\ req[q].op # "show" /\ Carries(q)
        /\ req'[q].step = "write" /\ req'[q].row = First(Looked(q))
        /\ req'[q].todo = req[q].todo /\ req'[q].seen = req[q].seen

LEMMA Looks ==
  ASSUME Typed, NEW q \in Requests, Shape(q), Look(q)
  PROVE  LookMoves(q)
<1>1. req[q].step = "look" /\ rows' = rows /\ told' = told /\ Unmoved
  BY DEF Look, At
<1>2. CASE Looked(q) = {}
  <2>1. req' = [req EXCEPT ![q].step = "insert", ![q].row = NoRow] /\ wish' = wish
    BY <1>2 DEF Look
  <2>2. Carries(q) /\ req'[q].step = "insert" /\ req'[q].todo = req[q].todo /\ req'[q].seen = req[q].seen
    BY <2>1, Holds DEF Steps
  <2> QED
    BY <1>1, <1>2, <2>2 DEF LookMoves
<1>3. CASE Looked(q) # {} /\ (Kind(table).found = "keep" \/ req[q].op = "show")
  <2>1. Dealt(q)
    BY <1>3 DEF Look
  <2>2. Deals(q)
    BY <1>1, <2>1, DealtMoves
  <2> QED
    BY <1>1, <1>3, <2>2 DEF LookMoves
<1>4. CASE Looked(q) # {} /\ ~(Kind(table).found = "keep" \/ req[q].op = "show")
  <2>1. req' = [req EXCEPT ![q].step = "write", ![q].row = First(Looked(q))] /\ wish' = wish
    BY <1>4 DEF Look
  <2>2. PICK x \in Row : x = First(Looked(q))
    BY <1>4, FoundIs
  <2>3. /\ Carries(q) /\ req'[q].step = "write" /\ req'[q].todo = req[q].todo /\ req'[q].row = x
        /\ req'[q].seen = req[q].seen
    BY <2>1, <2>2, Holds DEF Steps
  <2> QED
    BY <1>1, <1>4, <2>2, <2>3 DEF LookMoves
<1> QED
  BY <1>2, <1>3, <1>4

\* A row is looked for.
LEMMA LookKeeps ==
  ASSUME IInv, NEW q \in Requests, LookMoves(q)
  PROVE  IInv'
<1>1. /\ Typed /\ Shape(q) /\ req[q].step = "look" /\ rows' = rows /\ table' = table
      /\ rushed' = rushed /\ crowded' = crowded /\ told' \in ToldSet /\ table \in Tables
  BY DEF LookMoves, Unmoved, IInv, Typed
<1>2. CASE Carries(q) /\ req'[q].step = "insert" /\ req'[q].todo = req[q].todo
  <2>1. Shape(q)'
    BY <1>1, <1>2 DEF Shape, Carries
  <2>2. Open(q)' = Open(q)
    BY <1>1, <1>2 DEF Open
  <2> QED
    BY <1>1, <1>2, <2>1, <2>2, FewerKeeps DEF Carries, Typed
<1>3. CASE Deals(q)
  BY <1>1, <1>3, DealsKeeps
<1>4. CASE /\ Looked(q) # {} /\ Kind(table).found # "keep" /\ req[q].op # "show" /\ Carries(q)
           /\ req'[q].step = "write" /\ req'[q].row = First(Looked(q)) /\ req'[q].todo = req[q].todo
  <2>1. PICK x \in Row : x = First(Looked(q))
    BY <1>1, <1>4, FoundIs
  <2>2. x \in rows /\ x.key = Head(req[q].todo) /\ (Kind(table).whose = "user" => x.user = req[q].user)
    BY <1>1, <1>4, <2>1, FoundIs
  <2>3. table \in {"reaction", "theme", "token", "senderKey", "settings"}
    <3>1. table # "pin"
      BY <1>1 DEF Shape
    <3> QED
      BY <1>1, <1>4, <3>1, Kinds DEF Tables
  <2>4. Shape(q)'
    BY <1>1, <1>4, <2>1, <2>2, <2>3 DEF Shape, Carries
  <2>5. \A k \in Keys : k \in Open(q)' => k \in Open(q)
    <3>1. Of(Tail(req[q].todo)) = Of(req[q].todo) \ {Head(req[q].todo)}
      BY <1>1, Fields, TailOf DEF Shape
    <3> QED
      BY <1>1, <1>4, <3>1 DEF Open
  <2> QED
    BY <1>1, <1>4, <2>1, <2>2, <2>4, <2>5, FewerKeeps DEF Carries, Typed
<1> QED
  BY <1>2, <1>3, <1>4 DEF LookMoves

\* The row a request would insert.
Bare(q)   == req[q].op = "show" \/ (table = "settings" /\ req[q].col = 2)
NewRow(q) == [id |-> q, key |-> Head(req[q].todo), user |-> req[q].user,
              val |-> IF Bare(q) THEN Default ELSE Set(q, Default)]

\* It is a row of the user's for his first key, made by the request, and what it says
\* is in the columns the table has.
LEMMA NewRowIs ==
  ASSUME Typed, NEW q \in Requests, Shape(q), req[q].step = "insert"
  PROVE  /\ NewRow(q) \in Row /\ NewRow(q).id = q /\ NewRow(q).key = Head(req[q].todo)
         /\ NewRow(q).key \in Of(req[q].todo) /\ NewRow(q).key \in Keys
         /\ NewRow(q).user = req[q].user
         /\ table \notin {"theme", "settings"} => NewRow(q).val[2] = 0
         /\ table \in Kept => NewRow(q).val[1] = 1
<1>1. /\ req[q].user \in Users /\ req[q].todo \in Seq(Keys) /\ req[q].todo # <<>>
      /\ Different(req[q].todo) /\ req[q].col \in 1 .. 2 /\ req[q].val \in 0 .. 2
  BY Fields DEF Shape
<1>2. Head(req[q].todo) \in Of(req[q].todo) /\ Head(req[q].todo) \in Keys
  BY <1>1, TailOf
<1>3. Set(q, Default) \in Value
  BY <1>1, Values DEF Set
<1>4. NewRow(q).val \in Value /\ (NewRow(q).val = IF Bare(q) THEN Default ELSE Set(q, Default))
  BY <1>3, Values DEF NewRow
<1>5. NewRow(q) \in Row
  BY <1>1, <1>2, <1>3, Values DEF NewRow, Row
<1>6. table \notin {"theme", "settings"} => NewRow(q).val[2] = 0
  <2>1. table \notin {"theme", "settings"} => req[q].col = 1
    BY <1>1 DEF Shape
  <2>2. req[q].col = 1 => Set(q, Default)[2] = 0
    BY Values DEF Set, Value
  <2> QED
    BY <1>4, <2>1, <2>2, Values
<1>7. table \in Kept => NewRow(q).val[1] = 1
  <2>1. table \in Kept => req[q].col = 1 /\ ~Bare(q) /\ req[q].val = 1
    BY <1>1 DEF Shape, Kept, Bare
  <2>2. req[q].col = 1 /\ req[q].val = 1 => Set(q, Default)[1] = 1
    BY Values DEF Set, Value
  <2> QED
    BY <1>4, <2>1, <2>2
<1> QED
  BY <1>2, <1>5, <1>6, <1>7 DEF NewRow

\* What an insertion does.
InsertMoves(q) ==
  /\ req[q].step = "insert" /\ told' = told /\ Unmoved
  /\ \/ Refused(NewRow(q)) /\ rows' = rows /\ Answered(q, "failed")
     \/ /\ ~Refused(NewRow(q)) /\ rows' = rows \cup {NewRow(q)}
        /\ \/ /\ Bare(q) /\ req[q].op = "put" /\ Carries(q) /\ req'[q].todo = req[q].todo
              /\ req'[q].step = "write" /\ req'[q].row = NewRow(q)
           \/ /\ ~(Bare(q) /\ req[q].op = "put") /\ table = "pin" /\ Carries(q)
              /\ req'[q].todo = req[q].todo /\ req'[q].step = "tell" /\ req'[q].seen = {NewRow(q)}
           \/ ~(Bare(q) /\ req[q].op = "put") /\ table # "pin" /\ Deals(q)

LEMMA Inserts ==
  ASSUME Typed, NEW q \in Requests, Shape(q), Insert(q)
  PROVE  InsertMoves(q)
<1>1. req[q].step = "insert" /\ told' = told /\ Unmoved /\ req[q].user \in Users
  BY DEF Insert, At, Shape
<1>2. PICK new \in Row : new = NewRow(q)
  BY <1>1, NewRowIs
<1>3. IF Refused(new) THEN rows' = rows /\ Answer(q, "failed")
      ELSE /\ rows' = rows \cup {new}
           /\ CASE Bare(q) /\ req[q].op = "put" ->
                    req' = [req EXCEPT ![q].step = "write", ![q].row = new] /\ UNCHANGED wish
              [] table = "pin" ->
                    req' = [req EXCEPT ![q].step = "tell", ![q].seen = {new}] /\ UNCHANGED wish
              [] OTHER -> Dealt(q)
  BY <1>2 DEF Insert, NewRow, Bare
<1>4. Bare(q) => table = "settings"
  BY <1>1 DEF Bare, Shape
<1>5. CASE Refused(new)
  <2>1. rows' = rows /\ Answer(q, "failed")
    BY <1>3, <1>5
  <2>2. Answered(q, "failed")
    BY <1>1, <2>1, AnswerMoves
  <2> QED
    BY <1>1, <1>2, <1>5, <2>1, <2>2 DEF InsertMoves
<1>6. CASE ~Refused(new) /\ Bare(q) /\ req[q].op = "put"
  <2>1. rows' = rows \cup {new} /\ wish' = wish /\ req' = [req EXCEPT ![q].step = "write", ![q].row = new]
    BY <1>3, <1>4, <1>6
  <2>2. Carries(q) /\ req'[q].todo = req[q].todo /\ req'[q].step = "write" /\ req'[q].row = new
    BY <2>1, Holds DEF Steps
  <2> QED
    BY <1>1, <1>2, <1>6, <2>1, <2>2 DEF InsertMoves
<1>7. CASE ~Refused(new) /\ ~(Bare(q) /\ req[q].op = "put") /\ table = "pin"
  <2>1. rows' = rows \cup {new} /\ wish' = wish /\ req' = [req EXCEPT ![q].step = "tell", ![q].seen = {new}]
    BY <1>3, <1>7
  <2>2. Carries(q) /\ req'[q].todo = req[q].todo /\ req'[q].step = "tell" /\ req'[q].seen = {new}
    <3>1. PICK set \in SUBSET Row : set = {new}
      OBVIOUS
    <3>2. req' = [req EXCEPT ![q].step = "tell", ![q].seen = set] /\ wish' = wish
      BY <2>1, <3>1
    <3>3. Carries(q) /\ req'[q].todo = req[q].todo /\ req'[q].step = "tell" /\ req'[q].seen = set
      BY <3>2, Sees DEF Steps
    <3> QED
      BY <3>1, <3>3
  <2> QED
    BY <1>1, <1>2, <1>7, <2>1, <2>2 DEF InsertMoves
<1>8. CASE ~Refused(new) /\ ~(Bare(q) /\ req[q].op = "put") /\ table # "pin"
  <2>1. rows' = rows \cup {new} /\ Dealt(q)
    BY <1>3, <1>8
  <2>2. Deals(q)
    BY <1>1, <2>1, DealtMoves
  <2> QED
    BY <1>1, <1>2, <1>8, <2>1, <2>2 DEF InsertMoves
<1> QED
  BY <1>5, <1>6, <1>7, <1>8

\* A row is inserted, or refused.
LEMMA InsertKeeps ==
  ASSUME IInv, NEW q \in Requests, InsertMoves(q)
  PROVE  IInv'
<1>1. Typed /\ Shape(q) /\ Sound /\ Unique
  BY DEF IInv
<1>3. /\ req[q].step = "insert" /\ table' = table /\ rushed' = rushed /\ crowded' = crowded
      /\ told' \in ToldSet /\ table \in Tables
  BY <1>1 DEF InsertMoves, Unmoved, Typed
<1>4. CASE rows' = rows /\ Answered(q, "failed")
  BY <1>3, <1>4, AnswerKeeps
<1>5. CASE ~Refused(NewRow(q)) /\ rows' = rows \cup {NewRow(q)}
  <2>1. PICK new \in Row : new = NewRow(q)
    BY <1>1, <1>3, NewRowIs
  <2>2. /\ new.id = q /\ new.key = Head(req[q].todo) /\ new.key \in Of(req[q].todo)
        /\ new.key \in Keys /\ new.user = req[q].user
        /\ table \notin {"theme", "settings"} => new.val[2] = 0
        /\ table \in Kept => new.val[1] = 1
    BY <1>1, <1>3, <2>1, NewRowIs
  <2>3. Open(q) = Of(req[q].todo)
    BY <1>3 DEF Open
  <2>4. /\ Goes(q) /\ Shape(q)' /\ wish' \in [Users -> [Keys -> Value \cup {Nothing}]]
        /\ (\A k \in Keys : k \in Open(q)' => k \in Open(q)) /\ new.key \notin Open(q)'
        /\ req'[q].step = "write" => req'[q].row = new
    <3>1. CASE /\ Bare(q) /\ req[q].op = "put" /\ Carries(q) /\ req'[q].todo = req[q].todo
               /\ req'[q].step = "write" /\ req'[q].row = NewRow(q)
      <4>1. table = "settings"
        BY <1>1, <3>1 DEF Bare, Shape
      <4>2. Shape(q)'
        BY <1>1, <1>3, <2>1, <2>2, <3>1, <4>1 DEF Shape, Carries
      <4>3. Of(Tail(req[q].todo)) = Of(req[q].todo) \ {Head(req[q].todo)}
        BY <1>1, <1>3, Fields, TailOf DEF Shape
      <4>4. Open(q)' = Of(Tail(req[q].todo))
        BY <3>1 DEF Open
      <4> QED
        BY <1>1, <2>1, <2>2, <2>3, <3>1, <4>2, <4>3, <4>4 DEF Carries, Typed
    <3>2. CASE /\ table = "pin" /\ Carries(q) /\ req'[q].todo = req[q].todo
               /\ req'[q].step = "tell" /\ req'[q].seen = {NewRow(q)}
      <4>1. Shape(q)'
        BY <1>1, <1>3, <3>2 DEF Shape, Carries
      <4>2. Open(q)' = {}
        BY <3>2 DEF Open
      <4> QED
        BY <1>1, <2>3, <3>2, <4>1, <4>2 DEF Carries, Typed
    <3>3. CASE Deals(q)
      <4>1. Shape(q)'
        BY <1>1, <1>3, <3>3, DealsShape
      <4>2. /\ \A k \in Keys : k \in Open(q)' => k \in Open(q)
            /\ Head(req[q].todo) \notin Open(q)' /\ req'[q].step # "write"
        BY <1>1, <1>3, <3>3, DealsOpen
      <4>3. Goes(q) /\ wish' \in [Users -> [Keys -> Value \cup {Nothing}]]
        BY <1>1, <3>3 DEF Deals, Carries, Answered, Typed
      <4> QED
        BY <2>2, <4>1, <4>2, <4>3
    <3>4. (Refused(NewRow(q)) /\ rows' = rows /\ Answered(q, "failed")) => FALSE
      BY <1>5
    <3> QED
      BY <3>1, <3>2, <3>3, <3>4 DEF InsertMoves
  <2>5. \A x \in Copies' : x \in Copies \/ x = new
    <3>1. ASSUME NEW r \in Requests, req'[r].step = "write"
          PROVE  req'[r].row \in Copies \/ req'[r].row = new
      BY <2>4, <3>1 DEF Goes, Copies
    <3> QED
      BY <1>5, <2>1, <3>1 DEF Copies
  <2>6. \A x \in rows : ~(x.id = q /\ x.key = new.key)
    BY <1>1, <2>2, <2>3 DEF Sound, Copies
  <2>7. \A x, y \in rows' : x.id = y.id /\ x.key = y.key => x = y
    BY <1>1, <1>5, <2>1, <2>2, <2>6 DEF Sound
  <2>8. Unique'
    <3>1. ASSUME NEW x \in rows, x.key = new.key
          PROVE  /\ Kind(table).index # "key"
                 /\ Kind(table).index = "userAndKey" => x.user # new.user
      <4>1. x.id # new.id
        BY <2>2, <2>6, <3>1
      <4> QED
        BY <1>5, <2>1, <3>1, <4>1 DEF Refused
    <3> QED
      BY <1>1, <1>3, <1>5, <2>1, <3>1 DEF Unique
  <2>9. \A x \in Copies' : /\ table \notin {"theme", "settings"} => x.val[2] = 0
                           /\ table \in Kept => x.val[1] = 1
    BY <1>1, <2>2, <2>5 DEF Sound
  <2>10. rows' \subseteq Row
    BY <1>1, <1>5, <2>1 DEF Typed
  <2>11. \A x \in Copies' :
           \/ \E y \in Copies : /\ y.id = x.id /\ y.key = x.key
                                /\ Kind(table).whose = "user" => y.user = x.user
           \/ x.id = q /\ x.key \in Open(q) /\ x.key \notin Open(q)' /\ x.user = req[q].user
    BY <2>2, <2>3, <2>4, <2>5
  <2>12. rushed' \subseteq Users \X Keys /\ crowded' \subseteq Keys /\ told' \in ToldSet
    BY <1>1, <1>3 DEF Typed
  <2> QED
    BY <1>3, <2>4, <2>7, <2>8, <2>9, <2>10, <2>11, <2>12, StepKeeps
<1> QED
  BY <1>4, <1>5 DEF InsertMoves

\* What is in the table under the id and key of the row a request holds, and the rows
\* it writes instead.
Same(q)    == {r \in rows : r.id = req[q].row.id /\ r.key = req[q].row.key}
Written(q) == {[r EXCEPT !.val = Set(q, @), !.user = req[q].user] :
                 r \in IF Kind(table).found = "save" THEN {req[q].row} ELSE Same(q)}

\* They are at most one row, like the one held or the one that is there but for its
\* value.
LEMMA WrittenIs ==
  ASSUME IInv, NEW q \in Requests, req[q].step = "write"
  PROVE  /\ Written(q) \subseteq Row
         /\ \A r \in Written(q) :
              /\ r.id = req[q].row.id /\ r.key = req[q].row.key /\ r.user = req[q].user
              /\ r.key = Head(req[q].todo)
              /\ Kind(table).whose = "user" => req[q].row.user = r.user
              /\ \E y \in Copies : /\ y.id = r.id /\ y.key = r.key /\ r.val = Set(q, y.val)
                                   /\ y.val \in Value
                                   /\ IF Kind(table).found = "save" THEN y = req[q].row ELSE y \in rows
                                   /\ Kind(table).whose = "user" => y.user = r.user
         /\ \A r, s \in Written(q) : r = s
         /\ Kind(table).found = "save" => Written(q) # {}
         /\ Kind(table).found # "save" => (Written(q) = {} <=> Same(q) = {})
<1>1. /\ Typed /\ Shape(q) /\ Sound /\ req[q].row \in Row /\ req[q].user \in Users
      /\ req[q].row \in Copies /\ req[q].col \in 1 .. 2 /\ req[q].val \in 0 .. 2
      /\ req[q].row.key = Head(req[q].todo)
      /\ Kind(table).whose = "user" => req[q].row.user = req[q].user
  BY Fields DEF IInv, Shape, Copies
<1>2. ASSUME NEW y \in Row
      PROVE  LET r == [y EXCEPT !.val = Set(q, @), !.user = req[q].user] IN
             /\ r \in Row /\ r.id = y.id /\ r.key = y.key /\ r.user = req[q].user
             /\ r.val = Set(q, y.val) /\ y.val \in Value
  <2>1. y.val \in Value /\ Set(q, y.val) \in Value
    BY <1>1, Values DEF Row, Set
  <2>2. PICK v \in Value : v = Set(q, y.val)
    BY <2>1
  <2>3. PICK r : r = [y EXCEPT !.val = v, !.user = req[q].user]
    OBVIOUS
  <2>4. r \in Row /\ r.id = y.id /\ r.key = y.key /\ r.user = req[q].user /\ r.val = v
    BY <1>1, <2>3 DEF Row
  <2>5. [y EXCEPT !.val = Set(q, @), !.user = req[q].user] = r
    BY <2>2, <2>3
  <2> QED
    BY <2>1, <2>2, <2>4, <2>5
<1>3. PICK B : B = IF Kind(table).found = "save" THEN {req[q].row} ELSE Same(q)
  OBVIOUS
<1>4. /\ B \subseteq Row /\ B \subseteq Copies
      /\ \A y \in B : /\ y.id = req[q].row.id /\ y.key = req[q].row.key
                      /\ IF Kind(table).found = "save" THEN y = req[q].row ELSE y \in rows
      /\ \A x, y \in B : x = y
  BY <1>1, <1>3 DEF Same, Copies, Typed, Sound
<1>5. \A y \in B : Kind(table).whose = "user" => y.user = req[q].user
  BY <1>1, <1>4 DEF Sound
<1>6. Written(q) = {[r EXCEPT !.val = Set(q, @), !.user = req[q].user] : r \in B}
  BY <1>3 DEF Written
<1>7. ASSUME NEW r \in Written(q)
      PROVE  /\ r \in Row
             /\ \E y \in B : /\ r = [y EXCEPT !.val = Set(q, @), !.user = req[q].user]
                             /\ r.id = y.id /\ r.key = y.key /\ r.user = req[q].user
                             /\ r.val = Set(q, y.val) /\ y.val \in Value
  <2>1. PICK y \in B : r = [y EXCEPT !.val = Set(q, @), !.user = req[q].user]
    BY <1>6
  <2>2. y \in Row
    BY <1>4
  <2> QED
    BY <1>2, <2>1, <2>2
<1>8. ASSUME NEW r \in Written(q), NEW s \in Written(q) PROVE r = s
  <2>1. PICK y \in B : r = [y EXCEPT !.val = Set(q, @), !.user = req[q].user]
    BY <1>7
  <2>2. PICK x \in B : s = [x EXCEPT !.val = Set(q, @), !.user = req[q].user]
    BY <1>7
  <2>3. x = y
    BY <1>4
  <2> QED
    BY <2>1, <2>2, <2>3
<1>9. /\ Written(q) \subseteq Row
      /\ \A r \in Written(q) :
              /\ r.id = req[q].row.id /\ r.key = req[q].row.key /\ r.user = req[q].user
              /\ r.key = Head(req[q].todo)
              /\ Kind(table).whose = "user" => req[q].row.user = r.user
              /\ \E y \in Copies : /\ y.id = r.id /\ y.key = r.key /\ r.val = Set(q, y.val)
                                   /\ y.val \in Value
                                   /\ IF Kind(table).found = "save" THEN y = req[q].row ELSE y \in rows
                                   /\ Kind(table).whose = "user" => y.user = r.user
  <2>1. ASSUME NEW r \in Written(q)
        PROVE  /\ r.id = req[q].row.id /\ r.key = req[q].row.key /\ r.user = req[q].user
               /\ \E y \in Copies : /\ y.id = r.id /\ y.key = r.key /\ r.val = Set(q, y.val)
                                    /\ y.val \in Value
                                    /\ IF Kind(table).found = "save" THEN y = req[q].row ELSE y \in rows
                                    /\ Kind(table).whose = "user" => y.user = r.user
    <3>1. PICK y \in B : /\ r.id = y.id /\ r.key = y.key /\ r.user = req[q].user
                         /\ r.val = Set(q, y.val) /\ y.val \in Value
      BY <1>7
    <3> QED
      BY <1>4, <1>5, <3>1
  <2> QED
    BY <1>1, <1>7, <2>1
<1>10. Kind(table).found = "save" => Written(q) # {}
  BY <1>3, <1>6
<1>11. Kind(table).found # "save" => (Written(q) = {} <=> Same(q) = {})
  BY <1>3, <1>6
<1> QED
  BY <1>8, <1>9, <1>10, <1>11

\* What a write does.
WriteMoves(q) ==
  /\ req[q].step = "write" /\ told' = told /\ Unmoved
  /\ \/ (\E r \in Written(q) : Refused(r)) /\ rows' = rows /\ Answered(q, "failed")
     \/ /\ \A r \in Written(q) : ~Refused(r)
        /\ rows' = (rows \ Same(q)) \cup Written(q) /\ Deals(q)

LEMMA Writes ==
  ASSUME Typed, NEW q \in Requests, Shape(q), Write(q)
  PROVE  WriteMoves(q)
<1>1. req[q].step = "write" /\ told' = told /\ Unmoved /\ req[q].user \in Users
  BY DEF Write, At, Shape
<1>2. IF \E r \in Written(q) : Refused(r) THEN rows' = rows /\ Answer(q, "failed")
      ELSE rows' = (rows \ Same(q)) \cup Written(q) /\ Dealt(q)
  BY DEF Write, Written, Same
<1>3. CASE \E r \in Written(q) : Refused(r)
  BY <1>1, <1>2, <1>3, AnswerMoves DEF WriteMoves
<1>4. CASE \A r \in Written(q) : ~Refused(r)
  BY <1>1, <1>2, <1>4, DealtMoves DEF WriteMoves
<1> QED
  BY <1>3, <1>4

\* The row that was loaded is written.
LEMMA WriteKeeps ==
  ASSUME IInv, NEW q \in Requests, WriteMoves(q)
  PROVE  IInv'
<1>1. Typed /\ Shape(q) /\ Sound /\ Unique
  BY DEF IInv
<1>3. /\ req[q].step = "write" /\ table' = table /\ rushed' = rushed /\ crowded' = crowded
      /\ told' \in ToldSet /\ table \in {"reaction", "theme", "token", "senderKey", "settings"}
  BY <1>1 DEF WriteMoves, Unmoved, Shape, Typed
<1>4. CASE rows' = rows /\ Answered(q, "failed")
  BY <1>3, <1>4, AnswerKeeps
<1>5. CASE /\ \A r \in Written(q) : ~Refused(r)
           /\ rows' = (rows \ Same(q)) \cup Written(q) /\ Deals(q)
  <2>1. /\ Shape(q)' /\ (\A k \in Keys : k \in Open(q)' => k \in Open(q)) /\ req'[q].step # "write"
    BY <1>1, <1>3, <1>5, DealsShape, DealsOpen
  <2>2. Goes(q) /\ wish' \in [Users -> [Keys -> Value \cup {Nothing}]]
    BY <1>1, <1>5 DEF Deals, Carries, Answered, Typed
  <2>3. Written(q) \subseteq Row /\ \A r, s \in Written(q) : r = s
    BY <1>3, WrittenIs
  <2>4. \A r \in Written(q) :
          /\ r.id = req[q].row.id /\ r.key = req[q].row.key
          /\ \E y \in Copies : /\ y.id = r.id /\ y.key = r.key /\ r.val = Set(q, y.val)
                               /\ y.val \in Value
                               /\ Kind(table).whose = "user" => y.user = r.user
    BY <1>3, WrittenIs
  <2>5. \A x \in Copies' : x \in Copies \/ x \in Written(q)
    <3>1. ASSUME NEW r \in Requests, req'[r].step = "write" PROVE req'[r].row \in Copies
      BY <2>1, <2>2, <3>1 DEF Goes, Copies
    <3> QED
      BY <1>5, <3>1 DEF Copies
  <2>6. \A x, y \in rows' : x.id = y.id /\ x.key = y.key => x = y
    BY <1>1, <1>5, <2>3, <2>4 DEF Sound, Same
  <2>7. Unique'
    <3>1. ASSUME NEW x \in rows \ Same(q), NEW r \in Written(q), x.key = r.key
          PROVE  /\ Kind(table).index # "key"
                 /\ Kind(table).index = "userAndKey" => x.user # r.user
      <4>1. x.id # r.id
        BY <2>4, <3>1 DEF Same
      <4> QED
        BY <1>5, <3>1, <4>1 DEF Refused
    <3> QED
      BY <1>1, <1>3, <1>5, <2>3, <3>1 DEF Unique
  <2>8. \A x \in Copies' : /\ table \notin {"theme", "settings"} => x.val[2] = 0
                           /\ table \in Kept => x.val[1] = 1
    <3>1. table \notin {"theme", "settings"} => req[q].col = 1
      BY <1>1, Fields DEF Shape
    <3>2. ASSUME NEW r \in Written(q), table \notin {"theme", "settings"} PROVE r.val[2] = 0
      <4>1. PICK y \in Copies : r.val = Set(q, y.val) /\ y.val \in Value
        BY <2>4
      <4>2. y.val[2] = 0 /\ req[q].col = 1
        BY <1>1, <3>1, <3>2 DEF Sound
      <4> QED
        BY <4>1, <4>2 DEF Set, Value
    <3>3. table \notin Kept
      BY <1>3 DEF Kept
    <3> QED
      BY <1>1, <2>5, <3>2, <3>3 DEF Sound
  <2>9. rows' \subseteq Row
    BY <1>1, <1>5, <2>3 DEF Typed
  <2>10. \A x \in Copies' :
           \/ \E y \in Copies : /\ y.id = x.id /\ y.key = x.key
                                /\ Kind(table).whose = "user" => y.user = x.user
           \/ x.id = q /\ x.key \in Open(q) /\ x.key \notin Open(q)' /\ x.user = req[q].user
    BY <2>4, <2>5
  <2>11. rushed' \subseteq Users \X Keys /\ crowded' \subseteq Keys /\ told' \in ToldSet
    BY <1>1, <1>3 DEF Typed
  <2> QED
    BY <1>3, <2>1, <2>2, <2>6, <2>7, <2>8, <2>9, <2>10, <2>11, StepKeeps
<1> QED
  BY <1>4, <1>5 DEF WriteMoves

\* What the other steps do.
ClearMoves(q) ==
  /\ req[q].step = "clear" /\ rows' = rows \ Looked(q) /\ told' = told /\ Unmoved
  /\ Carries(q) /\ req'[q].step = "insert"
  /\ req'[q].todo = req[q].todo /\ req'[q].seen = req[q].seen

RemoveMoves(q) ==
  /\ req[q].step = "remove" /\ rows' = rows \ Looked(q) /\ told' = told /\ Unmoved
  /\ Deals(q)

GatherMoves(q) ==
  /\ req[q].step = "gather" /\ rows' = rows /\ told' = told /\ Unmoved
  /\ Carries(q) /\ req'[q].step = "tell" /\ req'[q].todo = req[q].todo
  /\ req'[q].seen = UNION {Reactions(k) : k \in req[q].keys}

TellMoves(q) ==
  /\ req[q].step = "tell" /\ rows' = rows /\ Unmoved /\ Answered(q, "ok")
  /\ told' = [k \in Keys |-> IF k \in req[q].keys THEN req[q].seen ELSE told[k]]

AnnounceMoves(q) ==
  /\ req[q].step = "announce" /\ rows' = rows /\ Unmoved /\ Answered(q, "ok")
  /\ told' = [k \in Keys |-> IF k \in req[q].keys THEN told[k] \cup {req[q].user} ELSE told[k]]

LEMMA OthersMove ==
  ASSUME Typed, NEW q \in Requests, Shape(q)
  PROVE  /\ Clear(q) => ClearMoves(q)
         /\ Remove(q) => RemoveMoves(q)
         /\ Gather(q) => GatherMoves(q)
         /\ Tell(q) => TellMoves(q)
         /\ Announce(q) => AnnounceMoves(q)
<1>1. ASSUME Clear(q) PROVE ClearMoves(q)
  <2>1. req' = [req EXCEPT ![q].step = "insert"] /\ wish' = wish
    BY <1>1 DEF Clear
  <2>2. Carries(q) /\ req'[q].step = "insert" /\ req'[q].todo = req[q].todo /\ req'[q].seen = req[q].seen
    BY <2>1, StepsOn DEF Steps
  <2> QED
    BY <1>1, <2>2 DEF Clear, At, ClearMoves
<1>2. ASSUME Remove(q) PROVE RemoveMoves(q)
  BY <1>2, DealtMoves DEF Remove, At, RemoveMoves
<1>3. ASSUME Gather(q) PROVE GatherMoves(q)
  <2>1. PICK set \in SUBSET Row : set = UNION {Reactions(k) : k \in req[q].keys}
    BY DEF Reactions, Typed
  <2>2. req' = [req EXCEPT ![q].step = "tell", ![q].seen = set] /\ wish' = wish
    BY <1>3, <2>1 DEF Gather
  <2>3. Carries(q) /\ req'[q].step = "tell" /\ req'[q].todo = req[q].todo /\ req'[q].seen = set
    BY <2>2, Sees DEF Steps
  <2> QED
    BY <1>3, <2>1, <2>3 DEF Gather, At, GatherMoves
<1>4. ASSUME Tell(q) PROVE TellMoves(q)
  <2>1. Answered(q, "ok")
    BY <1>4, AnswerMoves DEF Tell, At, Shape
  <2> QED
    BY <1>4, <2>1 DEF Tell, At, TellMoves
<1>5. ASSUME Announce(q) PROVE AnnounceMoves(q)
  <2>1. Answered(q, "ok")
    BY <1>5, AnswerMoves DEF Announce, At, Shape
  <2> QED
    BY <1>5, <2>1 DEF Announce, At, AnnounceMoves
<1> QED
  BY <1>1, <1>2, <1>3, <1>4, <1>5

\* The pins of the conversation are deleted.
LEMMA ClearKeeps ==
  ASSUME IInv, NEW q \in Requests, ClearMoves(q)
  PROVE  IInv'
<1>1. /\ Typed /\ Shape(q) /\ req[q].step = "clear" /\ rows' \subseteq rows /\ table' = table
      /\ rushed' = rushed /\ crowded' = crowded /\ told' \in ToldSet
      /\ Carries(q) /\ req'[q].step = "insert" /\ req'[q].todo = req[q].todo
  BY DEF ClearMoves, Unmoved, IInv, Typed
<1>2. Shape(q)'
  BY <1>1 DEF Shape, Carries, Kept
<1>3. Open(q)' = Open(q)
  BY <1>1 DEF Open
<1> QED
  BY <1>1, <1>2, <1>3, FewerKeeps DEF Carries, Typed

\* Rows are deleted.
LEMMA RemoveKeeps ==
  ASSUME IInv, NEW q \in Requests, RemoveMoves(q)
  PROVE  IInv'
BY DealsKeeps DEF RemoveMoves, Unmoved, IInv, Typed

\* The reactions are read.
LEMMA GatherKeeps ==
  ASSUME IInv, NEW q \in Requests, GatherMoves(q)
  PROVE  IInv'
<1>1. /\ Typed /\ Shape(q) /\ req[q].step = "gather" /\ rows' = rows /\ table' = table
      /\ rushed' = rushed /\ crowded' = crowded /\ told' \in ToldSet
      /\ Carries(q) /\ req'[q].step = "tell" /\ req'[q].todo = req[q].todo
  BY DEF GatherMoves, Unmoved, IInv, Typed
<1>2. Shape(q)'
  BY <1>1 DEF Shape, Carries
<1>3. Open(q)' = {}
  BY <1>1 DEF Open
<1> QED
  BY <1>1, <1>2, <1>3, FewerKeeps DEF Carries, Typed

\* The others are told, and the request is answered.
LEMMA TellKeeps ==
  ASSUME IInv, NEW q \in Requests, TellMoves(q) \/ AnnounceMoves(q)
  PROVE  IInv'
<1>1. /\ Typed /\ Shape(q) /\ req[q].step \in {"tell", "announce"} /\ rows' = rows /\ table' = table
      /\ rushed' = rushed /\ crowded' = crowded /\ Answered(q, "ok")
  BY DEF TellMoves, AnnounceMoves, Unmoved, IInv
<1>2. told' \in ToldSet
  <2>1. req[q].user \in Users /\ req[q].seen \in SUBSET Row
    BY <1>1, Fields DEF Shape
  <2> QED
    BY <1>1, <2>1 DEF Typed, ToldSet, TellMoves, AnnounceMoves
<1> QED
  BY <1>1, <1>2, AnswerKeeps

\* The step of a request.
Turn(q) ==
  \/ AskMoves(q) \/ LookMoves(q) \/ InsertMoves(q) \/ WriteMoves(q) \/ ClearMoves(q)
  \/ RemoveMoves(q) \/ GatherMoves(q) \/ TellMoves(q) \/ AnnounceMoves(q)

\* At first there are no rows, and no request has begun.
LEMMA Start == Init => IInv
<1> SUFFICES ASSUME Init PROVE IInv
  OBVIOUS
<1>1. Typed
  <2>1. Idle("new") \in JobSet
    BY IdleIs DEF Steps
  <2> QED
    BY <2>1 DEF Init, Typed, ToldSet
<1>2. ASSUME NEW q \in Requests PROVE Shape(q)
  <2>1. req[q] = Idle("new") /\ Len(<<>>) = 0 /\ Of(<<>>) = {} /\ Different(<<>>)
    BY DEF Init, Of, Different
  <2> QED
    BY <2>1, IdleIs DEF Shape, Steps
<1>3. Copies = {}
  <2>1. \A q \in Requests : req[q].step # "write"
    BY IdleIs DEF Init, Steps
  <2> QED
    BY <2>1 DEF Copies, Init
<1> QED
  BY <1>1, <1>2, <1>3 DEF IInv, Sound, Unique, Init

\* What users ask for suits the table.
LEMMA Asks ==
  ASSUME NEW q \in Requests, NEW u \in Users,
         \/ AddReaction(q, u) \/ Star(q, u) \/ Archive(q, u) \/ MarkRead(q, u)
         \/ Pin(q, u) \/ Unpin(q, u)
         \/ SetTheme(q, u) \/ SetDisappearingMessages(q, u) \/ MuteConversation(q, u)
         \/ GetConversationSettings(q, u)
         \/ RegisterToken(q, u) \/ UnregisterToken(q, u) \/ SendToUser(q, u)
         \/ SaveSenderKey(q, u) \/ RemoveDevice(q, u)
         \/ RemoveReaction(q, u) \/ Unstar(q, u) \/ Unarchive(q, u) \/ DeleteTheme(q, u)
  PROVE  \E op \in {"put", "take", "show"}, col \in 1 .. 2, val \in 0 .. 2 :
           Asking(q, u, op, col, val)
<1>1. CASE \/ AddReaction(q, u) \/ Pin(q, u) \/ SaveSenderKey(q, u)
  <2>1. PICK e \in 1 .. 2 : Ask(q, u, "put", 1, e) /\ table \in {"reaction", "pin", "senderKey"}
    BY <1>1 DEF AddReaction, Pin, SaveSenderKey
  <2>2. Asking(q, u, "put", 1, e) /\ e \in 0 .. 2
    BY <2>1 DEF Asking, Kept
  <2> QED
    BY <2>2
<1>2. CASE Star(q, u) \/ Archive(q, u) \/ MarkRead(q, u) \/ RegisterToken(q, u)
  BY <1>2 DEF Star, Archive, MarkRead, RegisterToken, Asking, Kept
<1>3. CASE \/ Unpin(q, u) \/ UnregisterToken(q, u) \/ SendToUser(q, u) \/ RemoveDevice(q, u)
           \/ RemoveReaction(q, u) \/ Unstar(q, u) \/ Unarchive(q, u) \/ DeleteTheme(q, u)
  <2>1. Ask(q, u, "take", 1, 0) /\ table \notin {"receipt", "settings"}
    BY <1>3 DEF Unpin, UnregisterToken, SendToUser, RemoveDevice, RemoveReaction, Unstar,
                Unarchive, DeleteTheme
  <2>2. Asking(q, u, "take", 1, 0)
    BY <2>1 DEF Asking
  <2> QED
    BY <2>2
<1>4. CASE SetTheme(q, u)
  <2>1. PICK c \in 1 .. 2, v \in 1 .. 2 : Ask(q, u, "put", c, v) /\ table = "theme"
    BY <1>4 DEF SetTheme
  <2>2. Asking(q, u, "put", c, v) /\ v \in 0 .. 2
    BY <2>1 DEF Asking, Kept
  <2> QED
    BY <2>2
<1>5. CASE SetDisappearingMessages(q, u) \/ MuteConversation(q, u)
  <2>1. PICK c \in 1 .. 2, v \in 0 .. 1 : Ask(q, u, "put", c, v) /\ table = "settings"
    BY <1>5 DEF SetDisappearingMessages, MuteConversation
  <2>2. Asking(q, u, "put", c, v) /\ v \in 0 .. 2
    BY <2>1 DEF Asking, Kept
  <2> QED
    BY <2>2
<1>6. CASE GetConversationSettings(q, u)
  BY <1>6 DEF GetConversationSettings, Asking, Kept
<1> QED
  BY <1>1, <1>2, <1>3, <1>4, <1>5, <1>6

\* Every step is a request's.
LEMMA Turns ==
  ASSUME IInv, Next
  PROVE  \E q \in Requests : Turn(q)
<1>1. PICK q \in Requests :
    \/ Look(q) \/ Insert(q) \/ Write(q) \/ Clear(q) \/ Remove(q)
    \/ Gather(q) \/ Tell(q) \/ Announce(q)
    \/ \E u \in Users :
         \/ AddReaction(q, u) \/ Star(q, u) \/ Archive(q, u) \/ MarkRead(q, u)
         \/ Pin(q, u) \/ Unpin(q, u)
         \/ SetTheme(q, u) \/ SetDisappearingMessages(q, u) \/ MuteConversation(q, u)
         \/ GetConversationSettings(q, u)
         \/ RegisterToken(q, u) \/ UnregisterToken(q, u) \/ SendToUser(q, u)
         \/ SaveSenderKey(q, u) \/ RemoveDevice(q, u)
         \/ RemoveReaction(q, u) \/ Unstar(q, u) \/ Unarchive(q, u) \/ DeleteTheme(q, u)
  BY DEF Next
<1>2. Typed /\ Shape(q)
  BY DEF IInv
<1>3. ASSUME NEW u \in Users,
             \E op \in {"put", "take", "show"}, col \in 1 .. 2, val \in 0 .. 2 :
               Asking(q, u, op, col, val)
      PROVE  Turn(q)
  <2>1. PICK op \in {"put", "take", "show"}, col \in 1 .. 2, val \in 0 .. 2 : Asking(q, u, op, col, val)
    BY <1>3
  <2> QED
    BY <1>2, <2>1, Begins DEF Turn
<1>4. ASSUME NEW u \in Users,
         \/ AddReaction(q, u) \/ Star(q, u) \/ Archive(q, u) \/ MarkRead(q, u)
         \/ Pin(q, u) \/ Unpin(q, u)
         \/ SetTheme(q, u) \/ SetDisappearingMessages(q, u) \/ MuteConversation(q, u)
         \/ GetConversationSettings(q, u)
         \/ RegisterToken(q, u) \/ UnregisterToken(q, u) \/ SendToUser(q, u)
         \/ SaveSenderKey(q, u) \/ RemoveDevice(q, u)
         \/ RemoveReaction(q, u) \/ Unstar(q, u) \/ Unarchive(q, u) \/ DeleteTheme(q, u)
      PROVE  Turn(q)
  BY <1>3, <1>4, Asks
<1>5. Look(q) => Turn(q)
  BY <1>2, Looks DEF Turn
<1>6. (Insert(q) => Turn(q)) /\ (Write(q) => Turn(q))
  BY <1>2, Inserts, Writes DEF Turn
<1>7. Clear(q) \/ Remove(q) \/ Gather(q) \/ Tell(q) \/ Announce(q) => Turn(q)
  BY <1>2, OthersMove DEF Turn
<1>8. Turn(q)
  BY <1>1, <1>4, <1>5, <1>6, <1>7
<1> QED
  BY <1>8

\* A turn keeps the invariant.
LEMMA TurnKeeps ==
  ASSUME IInv, NEW q \in Requests, Turn(q)
  PROVE  IInv'
BY AskKeeps, LookKeeps, InsertKeeps, WriteKeeps, ClearKeeps, RemoveKeeps, GatherKeeps, TellKeeps
   DEF Turn

\* Every step keeps the invariant.
LEMMA Step == IInv /\ [Next]_vars => IInv'
<1> SUFFICES ASSUME IInv, [Next]_vars PROVE IInv'
  OBVIOUS
<1>1. CASE UNCHANGED vars
  BY <1>1 DEF vars, IInv, Typed, Shape, Sound, Unique, Copies, Open
<1> QED
  BY <1>1, Turns, TurnKeeps

\* The invariant holds in every reachable state.
THEOREM MarkInvariance == Spec => []IInv
BY Start, Step, PTL DEF Spec

\* Rows, requests and the histories have their types (internal/models).
THEOREM MarkTyping == Spec => []TypeOK
<1>1. IInv => TypeOK
  <2> SUFFICES ASSUME IInv PROVE TypeOK
    OBVIOUS
  <2>1. ASSUME NEW q \in Requests
        PROVE  /\ req[q].user \in Users \cup {NoUser} /\ req[q].row \in Row \cup {NoRow}
               /\ req[q].keys \subseteq Keys /\ req[q].seen \subseteq rows \cup Row
               /\ At(q, "write") => req[q].row \in Row
    <3>1. Typed /\ Shape(q) /\ req[q] \in JobSet
      BY DEF IInv, Typed
    <3> QED
      BY <3>1 DEF JobSet, Shape, At
  <2> QED
    BY <2>1 DEF IInv, Typed, ToldSet, TypeOK
<1> QED
  BY <1>1, MarkInvariance, PTL

----------------------------------------------------------------------------
(* What a turn changes.                                                     *)

\* A turn begins a request, or is one of a request under way, which goes on or ends.
GoesOn(q) == Carries(q) /\ req'[q].step \notin Ended
Ends(q)   == \E s \in {"ok", "failed"} : Answered(q, s)

LEMMA TurnIs ==
  ASSUME IInv, NEW q \in Requests, Turn(q), ~AskMoves(q)
  PROVE  /\ q \in Working /\ Goes(q) /\ Unmoved
         /\ GoesOn(q) \/ Ends(q)
         /\ q \in Working' => GoesOn(q)
         /\ Ends(q) => q \notin Working'
<1>0. Typed /\ Shape(q)
  BY DEF IInv
<1>1. q \in Working /\ Unmoved
  BY DEF Turn, LookMoves, InsertMoves, WriteMoves, ClearMoves, RemoveMoves, GatherMoves, TellMoves,
         AnnounceMoves, Working
<1>2. Deals(q) => GoesOn(q) \/ Ends(q)
  BY DEF Deals, GoesOn, Ends, Ended
<1>3. GoesOn(q) \/ Ends(q)
  <2>1. LookMoves(q) => GoesOn(q) \/ Ends(q)
    BY <1>2 DEF LookMoves, GoesOn, Ended
  <2>2. InsertMoves(q) => GoesOn(q) \/ Ends(q)
    BY <1>2 DEF InsertMoves, GoesOn, Ends, Ended
  <2>3. WriteMoves(q) => GoesOn(q) \/ Ends(q)
    BY <1>2 DEF WriteMoves, Ends
  <2>4. ClearMoves(q) \/ GatherMoves(q) => GoesOn(q)
    BY DEF ClearMoves, GatherMoves, GoesOn, Ended
  <2>5. RemoveMoves(q) => GoesOn(q) \/ Ends(q)
    BY <1>2 DEF RemoveMoves
  <2>6. TellMoves(q) \/ AnnounceMoves(q) => Ends(q)
    BY DEF TellMoves, AnnounceMoves, Ends
  <2> QED
    BY <2>1, <2>2, <2>3, <2>4, <2>5, <2>6 DEF Turn
<1>4. Goes(q)
  BY <1>3 DEF GoesOn, Ends, Carries, Answered
<1>5. Ends(q) => q \notin Working'
  <2>1. ASSUME NEW s \in {"ok", "failed"}, Answered(q, s) PROVE req'[q].step = s
    BY <2>1, IdleIs DEF Answered, Steps
  <2> QED
    BY <2>1 DEF Ends, Working
<1> QED
  BY <1>1, <1>3, <1>4, <1>5

\* The rows that come and go are of the request's first key, and of its user where
\* rows are looked for by user.
Changing == {"insert", "write", "clear", "remove"}

LEMMA RowsChange ==
  ASSUME IInv, NEW q \in Requests, Turn(q)
  PROVE  /\ req[q].step \notin Changing => rows' = rows
         /\ \A x \in (rows \ rows') \cup (rows' \ rows) :
              x.key = Head(req[q].todo) /\ (Kind(table).whose = "user" => x.user = req[q].user)
         /\ table' = table /\ rows' \subseteq Row
<1>0. Typed /\ Shape(q) /\ Sound
  BY DEF IInv
<1>1. CASE AskMoves(q) \/ LookMoves(q) \/ GatherMoves(q) \/ TellMoves(q) \/ AnnounceMoves(q)
  BY <1>0, <1>1 DEF AskMoves, Begun, LookMoves, GatherMoves, TellMoves, AnnounceMoves, Unmoved, Typed
<1>2. CASE ClearMoves(q) \/ RemoveMoves(q)
  BY <1>0, <1>2 DEF ClearMoves, RemoveMoves, Looked, Unmoved, Typed, Changing
<1>3. CASE InsertMoves(q)
  <2>1. req[q].step = "insert" /\ table' = table /\ rows' \subseteq rows \cup {NewRow(q)} /\ rows \subseteq rows'
    BY <1>3 DEF InsertMoves, Unmoved
  <2>2. NewRow(q) \in Row /\ NewRow(q).key = Head(req[q].todo) /\ NewRow(q).user = req[q].user
    BY <1>0, <2>1, NewRowIs
  <2> QED
    BY <1>0, <2>1, <2>2 DEF Typed, Changing
<1>4. CASE WriteMoves(q)
  <2>1. /\ req[q].step = "write" /\ table' = table
        /\ rows' = rows \/ rows' = (rows \ Same(q)) \cup Written(q)
    BY <1>4 DEF WriteMoves, Unmoved
  <2>2. /\ Written(q) \subseteq Row
        /\ \A r \in Written(q) : r.key = Head(req[q].todo) /\ r.user = req[q].user
    BY <2>1, WrittenIs
  <2>3. \A r \in Same(q) : r.key = Head(req[q].todo) /\ (Kind(table).whose = "user" => r.user = req[q].user)
    BY <1>0, <2>1 DEF Shape, Same, Sound, Copies
  <2> QED
    BY <1>0, <2>1, <2>2, <2>3 DEF Typed, Changing
<1> QED
  BY <1>1, <1>2, <1>3, <1>4 DEF Turn

\* So other keys keep their rows, and other users theirs.
LEMMA OthersStay ==
  ASSUME IInv, NEW q \in Requests, Turn(q)
  PROVE  /\ \A k \in Keys : k # Head(req[q].todo) \/ req[q].step \notin Changing =>
              Reactions(k)' = Reactions(k) /\ \A u \in Users : RowsOf(u, k)' = RowsOf(u, k)
         /\ \A u \in Users, k \in Keys : Kind(table).whose = "user" /\ u # req[q].user =>
              RowsOf(u, k)' = RowsOf(u, k)
<1>1. /\ req[q].step \notin Changing => rows' = rows
      /\ \A x \in (rows \ rows') \cup (rows' \ rows) :
           x.key = Head(req[q].todo) /\ (Kind(table).whose = "user" => x.user = req[q].user)
  BY RowsChange
<1> QED
  BY <1>1 DEF Reactions, RowsOf

----------------------------------------------------------------------------
(* What others are told.                                                    *)

\* Only receipts are for several keys.
Lone == \A q \in Working : table # "receipt" => \E k \in Keys : req[q].keys = {k}

\* HasRead, of any rows.
Reads(u, k, rs) == \E r \in rs : r.user = u /\ r.key = k

\* Whoever was announced has a receipt, and so has the user of a request for every
\* message that the request has dealt with.
Readers ==
  table = "receipt" =>
    /\ \A k \in Keys : \A u \in told[k] : Reads(u, k, rows)
    /\ \A q \in Working : \A k \in req[q].keys \ Of(req[q].todo) : Reads(req[q].user, k, rows)

\* Of a key whose last request ran alone, what that request has in hand is what there is.
Lately(k) ==
  /\ \A q, r \in Working : k \in req[q].keys /\ k \in req[r].keys => q = r
  /\ (\A q \in Working : k \notin req[q].keys) => told[k] = Reactions(k)
  /\ \A q \in Working : k \in req[q].keys =>
       /\ req[q].step = "insert" => Looked(q) = {}
       /\ req[q].step = "write" => req[q].row \in rows
       /\ req[q].step = "tell" => req[q].seen = Reactions(k)
       /\ table = "pin" /\ req[q].step = "remove" => req[q].seen = {}

ToldInv == /\ Lone /\ Readers
           /\ table \in {"reaction", "pin"} => \A k \in Keys \ crowded : Lately(k)

\* The keys of a list of one.
LEMMA OneKey ==
  ASSUME NEW list \in Seq(Keys), list # <<>>, ~(Len(list) > 1)
  PROVE  \E k \in Keys : Of(list) = {k}
<1>1. PICK n \in Nat : n = Len(list)
  OBVIOUS
<1>2. n # 0 /\ ~(n > 1)
  BY <1>1
<1>3. \A m \in Nat : m # 0 /\ ~(m > 1) => m = 1
  OBVIOUS
<1>4. n = 1
  BY <1>2, <1>3
<1>5. DOMAIN list = 1 .. 1 /\ list[1] \in Keys
  <2>1. DOMAIN list = 1 .. Len(list) /\ \A i \in 1 .. Len(list) : list[i] \in Keys
    OBVIOUS
  <2>2. Len(list) = 1
    BY <1>1, <1>4
  <2> QED
    BY <2>1, <2>2
<1>6. Of(list) = {list[1]}
  BY <1>5 DEF Of
<1> QED
  BY <1>5, <1>6

\* It stays so.
LEMMA LoneHolds ==
  ASSUME IInv, Lone, NEW q \in Requests, Turn(q)
  PROVE  Lone'
<1>1. Typed
  BY DEF IInv
<1>2. CASE AskMoves(q)
  <2>1. PICK u \in Users, op \in {"put", "take", "show"}, col \in 1 .. 2, val \in 0 .. 2 :
          \E list \in KeyLists[table] : Begun(q, u, op, col, val, list)
    BY <1>2 DEF AskMoves
  <2>2. PICK list \in KeyLists[table] : Begun(q, u, op, col, val, list)
    BY <2>1
  <2>3. table' = table /\ req'[q].keys = Of(list) /\ Goes(q)
    BY <2>2 DEF Begun
  <2>4. table # "receipt" => \E k \in Keys : Of(list) = {k}
    BY <1>1, KeyListsAre, OneKey DEF Typed
  <2>5. \A r \in Requests : r # q => (r \in Working' <=> r \in Working) /\ req'[r].keys = req[r].keys
    BY <2>3 DEF Goes, Working
  <2> QED
    BY <2>3, <2>4, <2>5 DEF Lone, Working
<1>3. CASE ~AskMoves(q)
  <2>1. q \in Working /\ Goes(q) /\ table' = table /\ (q \in Working' => req'[q].keys = req[q].keys)
    BY <1>3, TurnIs DEF Unmoved, GoesOn, Carries
  <2>2. \A r \in Requests : r # q => (r \in Working' <=> r \in Working) /\ req'[r].keys = req[r].keys
    BY <2>1 DEF Goes, Working
  <2> QED
    BY <2>1, <2>2 DEF Lone, Working
<1> QED
  BY <1>2, <1>3

\* Receipts stay.
LEMMA ReceiptsStay ==
  ASSUME IInv, NEW q \in Requests, Turn(q), table = "receipt"
  PROVE  rows \subseteq rows'
<1>1. Shape(q)
  BY DEF IInv
<1>2. req[q].step \notin {"write", "clear", "remove"}
  BY <1>1 DEF Shape
<1> QED
  BY <1>2 DEF Turn, AskMoves, Begun, LookMoves, InsertMoves, WriteMoves, ClearMoves, RemoveMoves,
     GatherMoves, TellMoves, AnnounceMoves

LEMMA ReadersHold ==
  ASSUME IInv, Readers, NEW q \in Requests, Turn(q)
  PROVE  Readers'
<1>1. /\ Typed /\ Shape(q) /\ table' = table
  BY RowsChange DEF IInv
<1> SUFFICES ASSUME table = "receipt"
             PROVE  /\ \A k \in Keys : \A u \in told'[k] : Reads(u, k, rows')
                    /\ \A r \in Working' : \A k \in req'[r].keys \ Of(req'[r].todo) : Reads(req'[r].user, k, rows')
  BY <1>1 DEF Readers
<1>2. \A u, k : Reads(u, k, rows) => Reads(u, k, rows')
  BY ReceiptsStay DEF Reads
<1>3. \A r \in Requests : r # q => (r \in Working' => r \in Working) /\ req'[r] = req[r]
  <2>1. Goes(q)
    BY TurnIs DEF AskMoves, Begun
  <2> QED
    BY <2>1 DEF Goes, Working
<1>4. \A k \in Keys : \A u \in told'[k] : Reads(u, k, rows')
  <2>1. CASE AnnounceMoves(q)
    <3>1. q \in Working /\ Of(req[q].todo) = {}
      BY <1>1, <2>1 DEF AnnounceMoves, Working, Shape, Of
    <3>2. \A k \in req[q].keys : Reads(req[q].user, k, rows)
      BY <3>1 DEF Readers
    <3> QED
      BY <1>2, <2>1, <3>2 DEF AnnounceMoves, Readers
  <2>2. CASE ~AnnounceMoves(q)
    <3>1. told' = told
      BY <1>1, <2>2 DEF Turn, AskMoves, Begun, LookMoves, InsertMoves, WriteMoves, ClearMoves,
         RemoveMoves, GatherMoves, TellMoves, Shape
    <3> QED
      BY <1>2, <3>1 DEF Readers
  <2> QED
    BY <2>1, <2>2
<1>5. ASSUME q \in Working', NEW k \in req'[q].keys \ Of(req'[q].todo)
      PROVE  Reads(req'[q].user, k, rows')
  <2>1. CASE AskMoves(q)
    BY <1>5, <2>1 DEF AskMoves, Begun
  <2>2. CASE ~AskMoves(q)
    <3>1. q \in Working /\ Carries(q)
      BY <1>5, <2>2, TurnIs DEF GoesOn
    <3>2. CASE req'[q].todo = req[q].todo
      BY <1>2, <1>5, <3>1, <3>2 DEF Carries, Readers
    <3>3. CASE Deals(q) /\ req[q].step \in {"look", "insert"}
      <4>1. req'[q].todo = Tail(req[q].todo) /\ req[q].todo # <<>> /\ Different(req[q].todo)
        <5>1. \A s \in {"ok"} : ~Answered(q, s)
          BY <1>5, <2>2, TurnIs DEF Ends
        <5> QED
          BY <1>1, <3>3, <5>1 DEF Deals, Shape
      <4>2. Of(req'[q].todo) = Of(req[q].todo) \ {Head(req[q].todo)}
        BY <1>1, <4>1, Fields, TailOf
      <4>3. CASE k = Head(req[q].todo)
        <5>1. Reads(req[q].user, k, rows')
          <6>1. CASE LookMoves(q)
            <7>1. Looked(q) # {} /\ Kind(table).whose = "user" /\ rows' = rows
              <8>1. "receipt" \in Tables
                BY DEF Tables
              <8>2. Kind("receipt").whose = "user"
                BY <8>1, Kinds
              <8>3. Len(req'[q].todo) # Len(req[q].todo)
                BY <1>1, <4>1, Fields, TailOf
              <8> QED
                BY <6>1, <8>2, <8>3 DEF LookMoves
            <7> QED
              BY <4>3, <7>1 DEF Looked, Reads
          <6>2. CASE InsertMoves(q)
            <7>1. NewRow(q).key = k /\ NewRow(q).user = req[q].user
              BY <1>1, <4>3, <6>2, NewRowIs DEF InsertMoves
            <7>2. NewRow(q) \in rows'
              <8>1. ~Answered(q, "failed")
                BY <1>5, <2>2, TurnIs DEF Ends
              <8> QED
                BY <6>2, <8>1 DEF InsertMoves
            <7> QED
              BY <7>1, <7>2 DEF Reads
          <6> QED
            BY <2>2, <3>3, <6>1, <6>2 DEF Turn, WriteMoves, ClearMoves, RemoveMoves, GatherMoves,
               TellMoves, AnnounceMoves
        <5> QED
          BY <3>1, <5>1 DEF Carries
      <4>4. CASE k # Head(req[q].todo)
        <5>1. k \in req[q].keys \ Of(req[q].todo)
          BY <1>5, <3>1, <4>2, <4>4 DEF Carries
        <5> QED
          BY <1>2, <3>1, <5>1 DEF Carries, Readers
      <4> QED
        BY <4>3, <4>4
    <3>4. req[q].step \notin {"write", "clear", "remove", "tell", "gather"}
      BY <1>1 DEF Shape
    <3>5. ~(\E s \in {"ok", "failed"} : Answered(q, s))
      BY <1>5, <2>2, TurnIs DEF Ends
    <3>6. req'[q].todo = req[q].todo \/ (Deals(q) /\ req[q].step \in {"look", "insert"})
      BY <2>2, <3>4, <3>5 DEF Turn, LookMoves, InsertMoves, WriteMoves, ClearMoves, RemoveMoves,
         GatherMoves, TellMoves, AnnounceMoves
    <3> QED
      BY <3>2, <3>3, <3>6
  <2> QED
    BY <2>1, <2>2
<1>6. ASSUME NEW r \in Working', r # q, NEW k \in req'[r].keys \ Of(req'[r].todo)
      PROVE  Reads(req'[r].user, k, rows')
  <2>1. r \in Requests
    BY DEF Working
  <2>2. r \in Working /\ req'[r] = req[r]
    BY <1>3, <1>6, <2>1
  <2> QED
    BY <1>2, <1>6, <2>2 DEF Readers
<1> QED
  BY <1>4, <1>5, <1>6

\* A request of another key leaves what is so of a key.
LEMMA LatelyStays ==
  ASSUME IInv, Lone, table \in {"reaction", "pin"}, NEW q \in Requests, Turn(q), ~AskMoves(q),
         NEW k \in Keys, Lately(k), k \notin req[q].keys
  PROVE  Lately(k)'
<1>1. /\ Typed /\ Shape(q) /\ q \in Working /\ Goes(q) /\ table' = table
      /\ q \in Working' => req'[q].keys = req[q].keys
  BY TurnIs DEF IInv, Unmoved, GoesOn, Carries
<1>2. \A r \in Requests : r # q => (r \in Working' <=> r \in Working) /\ req'[r] = req[r]
  BY <1>1 DEF Goes, Working
<1>3. \A r \in Working' : k \in req'[r].keys => r # q /\ r \in Working /\ req'[r] = req[r]
  BY <1>1, <1>2 DEF Working
<1>4. req[q].todo # <<>> => k # Head(req[q].todo)
  <2>1. req[q].todo # <<>> => Head(req[q].todo) \in Of(req[q].todo)
    BY <1>1, Fields, TailOf DEF Shape
  <2> QED
    BY <1>1, <2>1 DEF Shape
<1>5. k # Head(req[q].todo) \/ req[q].step \notin Changing
  BY <1>1, <1>4 DEF Shape, Changing
<1>6. Reactions(k)' = Reactions(k)
  BY <1>5, OthersStay
<1>7. told'[k] = told[k]
  BY <1>1 DEF Turn, LookMoves, InsertMoves, WriteMoves, ClearMoves, RemoveMoves, GatherMoves,
     TellMoves, AnnounceMoves, Typed, ToldSet
<1>8. ASSUME NEW r \in Working', k \in req'[r].keys
      PROVE  /\ req'[r].step = "insert" => Looked(r)' = {}
             /\ req'[r].step = "write" => req'[r].row \in rows'
             /\ req'[r].step = "tell" => req'[r].seen = Reactions(k)'
             /\ table = "pin" /\ req'[r].step = "remove" => req'[r].seen = {}
  <2>1. r \in Working /\ req'[r] = req[r] /\ r \in Requests /\ Shape(r)
    BY <1>3, <1>8 DEF Working, IInv
  <2>2. req[r].step \in {"insert", "write"} => Head(req[r].todo) = k
    <3>1. req[r].keys = {k}
      BY <1>8, <2>1 DEF Lone
    <3>2. req[r].step \in {"insert", "write"} => Head(req[r].todo) \in Of(req[r].todo)
      BY <1>1, <2>1, Fields, TailOf DEF Shape
    <3> QED
      BY <2>1, <3>1, <3>2 DEF Shape
  <2>3. req[r].step = "insert" => Looked(r)' = {}
    <3>1. ASSUME req[r].step = "insert" PROVE Looked(r)' = Looked(r)
      BY <1>1, <1>6, <2>1, <2>2, <3>1 DEF Looked, Reactions
    <3>2. req[r].step = "insert" => Looked(r) = {}
      BY <1>8, <2>1 DEF Lately
    <3> QED
      BY <3>1, <3>2
  <2>4. req[r].step = "write" => req[r].row \in rows'
    <3>1. req[r].step = "write" => req[r].row \in rows /\ req[r].row.key = k
      BY <1>8, <2>1, <2>2 DEF Lately, Shape
    <3> QED
      BY <1>6, <3>1 DEF Reactions
  <2>5. /\ req[r].step = "tell" => req[r].seen = Reactions(k)
        /\ table = "pin" /\ req[r].step = "remove" => req[r].seen = {}
    BY <1>8, <2>1 DEF Lately
  <2> QED
    BY <1>6, <2>1, <2>3, <2>4, <2>5
<1>9. \A x, y \in Working' : k \in req'[x].keys /\ k \in req'[y].keys => x = y
  BY <1>3 DEF Lately
<1>10. (\A r \in Working' : k \notin req'[r].keys) => told'[k] = Reactions(k)'
  <2>1. \A r \in Working : k \in req[r].keys => r \in Working' /\ k \in req'[r].keys
    BY <1>1, <1>2 DEF Working
  <2> QED
    BY <1>6, <1>7, <2>1 DEF Lately
<1> QED
  BY <1>1, <1>8, <1>9, <1>10 DEF Lately

\* A request of the key, alone with it, keeps it so.
LEMMA LatelyGoesOn ==
  ASSUME IInv, Lone, table \in {"reaction", "pin"}, NEW q \in Requests, Turn(q), ~AskMoves(q),
         NEW k \in Keys, Lately(k), k \in req[q].keys
  PROVE  Lately(k)'
<1>1. /\ Typed /\ Shape(q) /\ Sound /\ Unique /\ q \in Working /\ Goes(q) /\ table' = table
      /\ q \in Working' => GoesOn(q)
      /\ Ends(q) => q \notin Working'
  BY TurnIs DEF IInv, Unmoved
<1>2. \A r \in Working' : k \in req'[r].keys => r = q
  <2>1. ASSUME NEW r \in Working', r # q, k \in req'[r].keys PROVE FALSE
    <3>1. r \in Working /\ req'[r] = req[r]
      BY <1>1, <2>1 DEF Goes, Working
    <3> QED
      BY <1>1, <2>1, <3>1 DEF Lately
  <2> QED
    BY <2>1
<1>3. req[q].keys = {k} /\ req[q].user \in Users
  BY <1>1 DEF Lone, Shape, Working
<1>4. req[q].todo # <<>> => Head(req[q].todo) = k
  <2>1. req[q].todo # <<>> => Head(req[q].todo) \in Of(req[q].todo)
    BY <1>1, Fields, TailOf DEF Shape
  <2> QED
    BY <1>1, <1>3, <2>1 DEF Shape
<1>5. /\ "reaction" \in Tables /\ "pin" \in Tables
      /\ Kind("reaction").whose = "user" /\ Kind("reaction").index = "userAndKey"
      /\ Kind("reaction").found = "save" /\ Kind("pin").whose = "all" /\ Kind("pin").index = "none"
  <2>1. "reaction" \in Tables /\ "pin" \in Tables
    BY DEF Tables
  <2> QED
    BY <2>1 DEF Kind, Table, Reaction, PinnedMessage
<1>6. table = "pin" /\ req[q].todo # <<>> => Looked(q) = Reactions(k)
  BY <1>4, <1>5 DEF Looked, Reactions
<1>7. SUFFICES /\ q \notin Working' => told'[k] = Reactions(k)'
               /\ q \in Working' =>
                    /\ req'[q].step = "insert" => Looked(q)' = {}
                    /\ req'[q].step = "write" => req'[q].row \in rows'
                    /\ req'[q].step = "tell" => req'[q].seen = Reactions(k)'
                    /\ table = "pin" /\ req'[q].step = "remove" => req'[q].seen = {}
  <2>1. (\A r \in Working' : k \notin req'[r].keys) => q \notin Working'
    BY <1>1, <1>3 DEF GoesOn, Carries
  <2> QED
    BY <1>1, <1>2, <2>1 DEF Lately
<1>8. Deals(q) => /\ q \in Working'
                  /\ \/ req'[q].step = "gather" /\ table = "reaction"
                     \/ req'[q].step = "tell" /\ table = "pin" /\ req'[q].seen = req[q].seen
  <2>1. ~(Len(req[q].todo) > 1)
    BY <1>1 DEF Shape
  <2> QED
    BY <1>1, <2>1 DEF Deals, Working
<1>9. CASE LookMoves(q)
  <2>1. table = "reaction" /\ req[q].op # "show"
    BY <1>1, <1>9 DEF LookMoves, Shape
  <2>2. CASE Looked(q) = {} /\ Carries(q) /\ req'[q].step = "insert" /\ req'[q].todo = req[q].todo
    <3>1. Looked(q)' = {} /\ q \in Working'
      BY <1>1, <1>9, <2>2 DEF LookMoves, Looked, Carries, Working
    <3> QED
      BY <2>2, <3>1
  <2>3. CASE /\ Looked(q) # {} /\ req'[q].step = "write" /\ req'[q].row = First(Looked(q))
    <3>1. First(Looked(q)) \in rows
      BY <1>1, <2>3, FoundIs
    <3> QED
      BY <1>9, <2>1, <2>3, <3>1 DEF LookMoves, Working
  <2> QED
    BY <1>5, <1>9, <2>1, <2>2, <2>3 DEF LookMoves
<1>10. CASE InsertMoves(q)
  <2>1. PICK new \in Row : new = NewRow(q)
    BY <1>1, <1>10, NewRowIs DEF InsertMoves
  <2>2. new.key = Head(req[q].todo) /\ new.user = req[q].user /\ req[q].step = "insert"
    BY <1>1, <1>10, <2>1, NewRowIs DEF InsertMoves
  <2>3. Looked(q) = {} /\ req[q].todo # <<>>
    BY <1>1, <1>3, <2>2 DEF Lately, Shape
  <2>4. ~Refused(new)
    BY <1>5, <2>2, <2>3 DEF Refused, Looked
  <2>5. rows' = rows \cup {new} /\ ~Bare(q)
    BY <1>1, <1>10, <2>1, <2>4 DEF InsertMoves, Bare, Shape
  <2>6. CASE table = "pin"
    <3>1. req'[q].step = "tell" /\ req'[q].seen = {new}
      BY <1>10, <2>1, <2>4, <2>5, <2>6 DEF InsertMoves
    <3>2. Reactions(k)' = {new}
      BY <1>4, <1>6, <2>2, <2>3, <2>5, <2>6 DEF Reactions
    <3> QED
      BY <1>1, <3>1, <3>2 DEF Working
  <2>7. CASE table = "reaction"
    BY <1>8, <1>10, <2>1, <2>4, <2>5, <2>7 DEF InsertMoves
  <2> QED
    BY <2>6, <2>7
<1>11. CASE WriteMoves(q)
  <2>1. req[q].step = "write" /\ table = "reaction"
    BY <1>1, <1>11 DEF WriteMoves, Shape
  <2>2. req[q].row \in rows
    BY <1>1, <1>3, <2>1 DEF Lately
  <2>3. ASSUME NEW r \in Written(q), Refused(r) PROVE FALSE
    <3>1. /\ r.id = req[q].row.id /\ r.key = req[q].row.key /\ r.user = req[q].user
          /\ Kind(table).whose = "user" => req[q].row.user = r.user
      BY <2>1, WrittenIs
    <3>2. PICK x \in rows : x.id # r.id /\ x.key = r.key /\ x.user = r.user
      BY <1>5, <2>1, <2>3 DEF Refused
    <3>3. x = req[q].row
      BY <1>1, <1>5, <2>1, <2>2, <3>1, <3>2 DEF Unique
    <3> QED
      BY <3>1, <3>2, <3>3
  <2>4. Deals(q)
    BY <1>11, <2>3 DEF WriteMoves
  <2> QED
    BY <1>8, <2>1, <2>4
<1>12. CASE ClearMoves(q)
  <2>1. rows' = rows \ Looked(q) /\ req'[q].todo = req[q].todo /\ req'[q].step = "insert" /\ req'[q].user = req[q].user
    BY <1>12 DEF ClearMoves, Carries
  <2>2. Looked(q)' = {}
    BY <1>1, <2>1 DEF Looked
  <2> QED
    BY <1>1, <2>1, <2>2 DEF Working
<1>13. CASE RemoveMoves(q)
  <2>1. req[q].step = "remove" /\ rows' = rows \ Looked(q) /\ Deals(q) /\ req[q].todo # <<>>
    BY <1>1, <1>13 DEF RemoveMoves, Shape
  <2>2. table = "pin" => req[q].seen = {} /\ Reactions(k)' = {}
    BY <1>1, <1>3, <1>6, <2>1 DEF Lately, Reactions
  <2> QED
    BY <1>8, <2>1, <2>2
<1>14. CASE GatherMoves(q)
  <2>1. req'[q].seen = UNION {Reactions(x) : x \in {k}} /\ req'[q].step = "tell" /\ rows' = rows
    BY <1>3, <1>14 DEF GatherMoves
  <2>2. UNION {Reactions(x) : x \in {k}} = Reactions(k)
    OBVIOUS
  <2>3. Reactions(k)' = Reactions(k)
    BY <2>1 DEF Reactions
  <2> QED
    BY <1>1, <2>1, <2>2, <2>3 DEF Working
<1>15. CASE TellMoves(q)
  <2>1. req[q].step = "tell" /\ rows' = rows /\ told'[k] = req[q].seen /\ Ends(q)
    BY <1>15 DEF TellMoves, Ends
  <2>2. req[q].seen = Reactions(k)
    BY <1>1, <2>1 DEF Lately
  <2>3. Reactions(k)' = Reactions(k)
    BY <2>1 DEF Reactions
  <2> QED
    BY <1>1, <2>1, <2>2, <2>3
<1>16. ~AnnounceMoves(q)
  BY <1>1 DEF AnnounceMoves, Shape
<1> QED
  BY <1>9, <1>10, <1>11, <1>12, <1>13, <1>14, <1>15, <1>16 DEF Turn

\* A request begins, of the key or of another.
LEMMA LatelyBegins ==
  ASSUME IInv, table \in {"reaction", "pin"}, NEW q \in Requests, AskMoves(q),
         NEW k \in Keys, k \notin crowded', k \in crowded \/ Lately(k)
  PROVE  Lately(k)'
<1>1. PICK u \in Users, op \in {"put", "take", "show"}, col \in 1 .. 2, val \in 0 .. 2 :
        \E list \in KeyLists[table] : Begun(q, u, op, col, val, list)
  BY DEF AskMoves
<1>2. PICK list \in KeyLists[table] : Begun(q, u, op, col, val, list)
  BY <1>1
<1>3. /\ rows' = rows /\ told' = told /\ table' = table /\ Goes(q) /\ req'[q].keys = Of(list)
      /\ req'[q].seen = {} /\ req'[q].step \in {"remove", "clear", "look"} /\ q \notin Working
      /\ crowded' = (crowded \ Of(list)) \cup {x \in Of(list) : \E r \in Working : x \in req[r].keys}
  BY <1>2 DEF Begun, Working
<1>4. \A r \in Requests : r # q => (r \in Working' <=> r \in Working) /\ req'[r] = req[r]
  BY <1>3 DEF Goes, Working
<1>5. Reactions(k)' = Reactions(k)
  BY <1>3 DEF Reactions
<1>6. q \in Working'
  BY <1>3 DEF Working
<1>7. CASE k \in Of(list)
  <2>1. \A r \in Working' : k \in req'[r].keys => r = q
    <3>1. ASSUME NEW r \in Working', r # q, k \in req'[r].keys PROVE FALSE
      <4>1. r \in Working /\ k \in req[r].keys
        BY <1>4, <3>1 DEF Working
      <4> QED
        BY <1>3, <1>7, <4>1
    <3> QED
      BY <3>1
  <2>2. ~(\A r \in Working' : k \notin req'[r].keys)
    BY <1>3, <1>6, <1>7
  <2> QED
    BY <1>3, <2>1, <2>2 DEF Lately
<1>8. CASE k \notin Of(list)
  <2>1. Lately(k)
    BY <1>3, <1>8
  <2>2. \A r \in Working' : k \in req'[r].keys => r # q /\ r \in Working /\ req'[r] = req[r]
    BY <1>3, <1>4, <1>8 DEF Working
  <2>3. \A r \in Working : k \in req[r].keys => r \in Working' /\ k \in req'[r].keys
    BY <1>3, <1>4 DEF Working
  <2>4. \A r \in Working' : k \in req'[r].keys => (Looked(r)' = {} <=> Looked(r) = {})
    BY <1>3, <2>2 DEF Looked
  <2>5. \A x, y \in Working' : k \in req'[x].keys /\ k \in req'[y].keys => x = y
    BY <2>1, <2>2 DEF Lately
  <2>6. (\A r \in Working' : k \notin req'[r].keys) => told'[k] = Reactions(k)'
    BY <1>3, <1>5, <2>1, <2>3 DEF Lately
  <2>7. ASSUME NEW r \in Working', k \in req'[r].keys
        PROVE  /\ req'[r].step = "insert" => Looked(r)' = {}
               /\ req'[r].step = "write" => req'[r].row \in rows'
               /\ req'[r].step = "tell" => req'[r].seen = Reactions(k)'
               /\ table = "pin" /\ req'[r].step = "remove" => req'[r].seen = {}
    BY <1>3, <1>5, <2>1, <2>2, <2>4, <2>7 DEF Lately
  <2> QED
    BY <1>3, <2>5, <2>6, <2>7 DEF Lately
<1> QED
  BY <1>7, <1>8

\* Whoever is told of a receipt, a reaction or a pin is told what there is.
THEOREM ToldTruly == Spec => []ToldIsTrue
<1>1. Init => ToldInv
  <2> SUFFICES ASSUME Init PROVE ToldInv
    OBVIOUS
  <2>1. Working = {}
    <3>1. \A q \in Requests : req[q].step = "new"
      BY IdleIs DEF Init, Steps
    <3> QED
      BY <3>1 DEF Working
  <2>2. \A k \in Keys : told[k] = {} /\ Reactions(k) = {}
    BY DEF Init, Reactions
  <2> QED
    BY <2>1, <2>2 DEF ToldInv, Lone, Readers, Lately
<1>2. IInv /\ ToldInv /\ [Next]_vars => ToldInv'
  <2> SUFFICES ASSUME IInv, ToldInv, [Next]_vars PROVE ToldInv'
    OBVIOUS
  <2>1. CASE UNCHANGED vars
    BY <2>1 DEF vars, ToldInv, Lone, Readers, Lately, Working, Looked, Reactions
  <2>2. ASSUME NEW q \in Requests, Turn(q) PROVE ToldInv'
    <3>1. Lone' /\ Readers' /\ table' = table
      BY <2>2, LoneHolds, ReadersHold, RowsChange DEF ToldInv
    <3>2. ASSUME table \in {"reaction", "pin"}, NEW k \in Keys, k \notin crowded' PROVE Lately(k)'
      <4>1. CASE AskMoves(q)
        BY <3>2, <4>1, LatelyBegins DEF ToldInv
      <4>2. CASE ~AskMoves(q)
        <5>1. crowded' = crowded
          BY <2>2, <4>2, TurnIs DEF Unmoved
        <5>2. Lone /\ Lately(k)
          BY <3>2, <5>1 DEF ToldInv
        <5> QED
          BY <2>2, <3>2, <4>2, <5>2, LatelyStays, LatelyGoesOn
      <4> QED
        BY <4>1, <4>2
    <3> QED
      BY <3>1, <3>2 DEF ToldInv
  <2> QED
    BY <2>1, <2>2, Turns
<1>3. IInv /\ ToldInv => ToldIsTrue
  BY DEF ToldInv, Readers, Lately, ToldIsTrue, HasRead, RowsOf, Reads
<1> QED
  BY <1>1, <1>2, <1>3, MarkInvariance, PTL DEF Spec

----------------------------------------------------------------------------
(* What users asked for.                                                    *)

\* Asked, of a request's record.
AskedOf(j, v) ==
  IF j.op = "take" THEN Nothing
  ELSE LET old == IF v = Nothing THEN Default ELSE v
       IN IF j.op = "show" THEN old ELSE [old EXCEPT ![j.col] = j.val]

\* A request of whose keys one has had no two requests of its user at a time.
Calm(q) == q \in Working /\ \E k \in req[q].keys : <<req[q].user, k>> \notin rushed

\* No other request of its user is under way, so that what it has not found is not there.
Undisturbed(q) ==
  Calm(q) => /\ \A r \in Working : req[r].user = req[q].user => r = q
             /\ req[q].step = "insert" => RowsOf(req[q].user, Head(req[q].todo)) = {}

About(u, k) == {q \in Working : req[q].user = u /\ k \in req[q].keys}

\* What a user is shown for a key that his requests came to one at a time: his wish;
\* while one is under way, what it asks for once it has dealt with the key.
Wished(u, k) ==
  /\ \A x, y \in RowsOf(u, k) : x = y
  /\ About(u, k) = {} => Shown(u, k) = wish[u][k]
  /\ \A q \in About(u, k) :
       /\ k \notin Of(req[q].todo) => Shown(u, k) = AskedOf(req[q], wish[u][k])
       /\ k \in Of(req[q].todo) /\ req[q].step # "write" => Shown(u, k) = wish[u][k]
       /\ req[q].step = "write" =>
            /\ RowsOf(u, k) = {req[q].row} /\ req[q].op = "put"
            /\ AskedOf(req[q], wish[u][k]) = Set(q, req[q].row.val)

WishInv ==
  Kind(table).whose = "user" =>
    /\ \A q \in Requests : Undisturbed(q)
    /\ \A u \in Users, k \in Keys : <<u, k>> \notin rushed => Wished(u, k)

\* Of one row, the first is that.
LEMMA FirstOfOne ==
  ASSUME NEW x \in Row
  PROVE  First({x}) = x
<1>1. First({x}) \in {x}
  BY FirstIsOne
<1> QED
  BY <1>1

\* The requests under way after a step that begins none.
LEMMA AboutMoves ==
  ASSUME IInv, NEW q \in Requests, Turn(q), ~AskMoves(q)
  PROVE  /\ \A r \in Working' : r \in Working /\ req'[r].user = req[r].user /\ req'[r].keys = req[r].keys
         /\ \A r \in Working : r # q => r \in Working' /\ req'[r] = req[r]
<1>1. q \in Working /\ Goes(q) /\ (q \in Working' => GoesOn(q))
  BY TurnIs
<1>2. \A r \in Requests : r # q => (r \in Working' <=> r \in Working) /\ req'[r] = req[r]
  BY <1>1 DEF Goes, Working
<1>3. \A r \in Requests : (r \in Working' => r \in Requests) /\ (r \in Working => r \in Requests)
  OBVIOUS
<1>4. q \in Working' => req'[q].user = req[q].user /\ req'[q].keys = req[q].keys
  BY <1>1 DEF GoesOn, Carries
<1>5. \A r \in Working' : r \in Requests
  BY DEF Working
<1>6. \A r \in Working : r \in Requests
  BY DEF Working
<1> QED
  BY <1>1, <1>2, <1>4, <1>5, <1>6

\* No request disturbs another user's, nor one that runs alone.
LEMMA UndisturbedHolds ==
  ASSUME IInv, WishInv, Kind(table).whose = "user", NEW q \in Requests, Turn(q), NEW r \in Requests
  PROVE  Undisturbed(r)'
<1>1. Typed /\ Shape(q) /\ Shape(r) /\ Undisturbed(r)
  BY DEF IInv, WishInv
<1>2. CASE AskMoves(q)
  <2>1. PICK u \in Users, op \in {"put", "take", "show"}, col \in 1 .. 2, val \in 0 .. 2 :
          \E list \in KeyLists[table] : Begun(q, u, op, col, val, list)
    BY <1>2 DEF AskMoves
  <2>2. PICK list \in KeyLists[table] : Begun(q, u, op, col, val, list)
    BY <2>1
  <2>3. /\ rows' = rows /\ Goes(q) /\ req'[q].keys = Of(list) /\ req'[q].user = u /\ q \notin Working
        /\ req'[q].step # "insert"
        /\ rushed' = (IF {x \in Working : req[x].user = u} = {} THEN rushed
                      ELSE rushed \cup ({u} \X (Of(list) \cup UNION {req[x].keys : x \in {y \in Working : req[y].user = u}})))
    BY <2>2 DEF Begun, Working
  <2>4. \A x \in Requests : x # q => (x \in Working' <=> x \in Working) /\ req'[x] = req[x]
    BY <2>3 DEF Goes, Working
  <2>5. (\A x \in Working : x \in Requests) /\ \A x \in Working' : x \in Requests
    BY DEF Working
  <2>6. CASE r = q
    <3>1. Calm(q)' => {x \in Working : req[x].user = u} = {}
      BY <2>3 DEF Calm
    <3>2. Calm(q)' => \A x \in Working' : req'[x].user = u => x = q
      BY <2>4, <2>5, <3>1
    <3> QED
      BY <2>3, <2>6, <3>2 DEF Undisturbed
  <2>7. CASE r # q
    <3>1. req'[r] = req[r] /\ (r \in Working' => r \in Working)
      BY <2>4, <2>7
    <3>2. ASSUME Calm(r)' PROVE Calm(r) /\ req[r].user # u
      <4>1. PICK k \in req[r].keys : <<req[r].user, k>> \notin rushed'
        BY <3>1, <3>2 DEF Calm
      <4>2. r \in Working
        BY <3>1, <3>2 DEF Calm
      <4>3. <<req[r].user, k>> \notin rushed
        BY <2>3, <4>1
      <4>4. req[r].user # u
        <5>1. SUFFICES ASSUME req[r].user = u PROVE FALSE
          OBVIOUS
        <5>2. r \in {y \in Working : req[y].user = u}
          BY <4>2, <5>1
        <5>3. k \in UNION {req[x].keys : x \in {y \in Working : req[y].user = u}}
          BY <5>2
        <5> QED
          BY <2>3, <4>1, <5>1, <5>2, <5>3
      <4> QED
        BY <4>2, <4>3, <4>4 DEF Calm
    <3>3. \A v, k : RowsOf(v, k) = {} => {x \in rows' : x.user = v /\ x.key = k} = {}
      BY <2>3 DEF RowsOf
    <3> QED
      BY <1>1, <2>3, <2>4, <2>5, <3>1, <3>2, <3>3 DEF Undisturbed, RowsOf
  <2> QED
    BY <2>6, <2>7
<1>3. CASE ~AskMoves(q)
  <2>1. /\ \A x \in Working' : x \in Working /\ req'[x].user = req[x].user /\ req'[x].keys = req[x].keys
        /\ \A x \in Working : x # q => x \in Working' /\ req'[x] = req[x]
    BY <1>3, AboutMoves
  <2>2. q \in Working /\ rushed' = rushed
    BY <1>3, TurnIs DEF Unmoved
  <2>3. ASSUME Calm(r)'
        PROVE  Calm(r) /\ req'[r].user = req[r].user
    BY <2>1, <2>2, <2>3 DEF Calm
  <2>4. Calm(r)' => \A x \in Working' : req'[x].user = req'[r].user => x = r
    BY <1>1, <2>1, <2>3 DEF Undisturbed
  <2>5. ASSUME Calm(r)', req'[r].step = "insert"
        PROVE  {x \in rows' : x.user = req'[r].user /\ x.key = Head(req'[r].todo)} = {}
    <3>1. CASE r # q
      <4>1. r \in Working /\ req'[r] = req[r]
        BY <2>1, <2>3, <2>5, <3>1 DEF Calm
      <4>2. req[r].user # req[q].user
        BY <1>1, <2>2, <2>3, <2>5, <3>1 DEF Undisturbed
      <4>3. RowsOf(req[r].user, Head(req[r].todo)) = {}
        BY <1>1, <2>3, <2>5, <4>1 DEF Undisturbed
      <4>4. PICK v \in Users, k \in Keys : v = req[r].user /\ k = Head(req[r].todo)
        <5>1. req[r].user \in Users /\ req[r].todo # <<>>
          BY <1>1, <2>5, <4>1 DEF Shape
        <5>2. Head(req[r].todo) \in Keys
          BY <1>1, <5>1, Fields, TailOf DEF Shape
        <5> QED
          BY <5>1, <5>2
      <4>5. RowsOf(v, k)' = RowsOf(v, k)
        BY <4>2, <4>4, OthersStay
      <4> QED
        BY <4>1, <4>3, <4>4, <4>5 DEF RowsOf
    <3>2. CASE r = q
      <4>1. \A s \in {"ok", "failed"} : ~Answered(q, s)
        <5>1. q \in Working'
          BY <2>5, <3>2 DEF Calm
        <5> QED
          BY <1>3, <5>1, TurnIs DEF Ends
      <4>2. table # "pin"
        <5>1. Kind("pin").whose = "all"
          BY DEF Kind, Table, PinnedMessage
        <5> QED
          BY <5>1
      <4>3. LookMoves(q)
        BY <1>1, <1>3, <2>5, <3>2, <4>1, <4>2 DEF Turn, InsertMoves, WriteMoves, ClearMoves, RemoveMoves,
           GatherMoves, TellMoves, AnnounceMoves, Deals, Shape
      <4>4. /\ Looked(q) = {} /\ rows' = rows /\ req'[q].todo = req[q].todo
            /\ req'[q].user = req[q].user
        BY <2>5, <3>2, <4>1, <4>3 DEF LookMoves, Deals, Carries
      <4> QED
        BY <3>2, <4>4 DEF Looked
    <3> QED
      BY <3>1, <3>2
  <2> QED
    BY <2>4, <2>5 DEF Undisturbed, RowsOf
<1> QED
  BY <1>2, <1>3

\* A request of another user or key leaves what a user is shown as he wished.
LEMMA WishedStays ==
  ASSUME IInv, Kind(table).whose = "user", NEW q \in Requests, Turn(q), ~AskMoves(q),
         NEW v \in Users, NEW k \in Keys, Wished(v, k), v # req[q].user \/ k \notin req[q].keys
  PROVE  Wished(v, k)'
<1>1. /\ Typed /\ Shape(q) /\ q \in Working
      /\ GoesOn(q) \/ Ends(q)
      /\ q \in Working' => GoesOn(q)
  BY TurnIs DEF IInv
<1>2. RowsOf(v, k)' = RowsOf(v, k)
  <2>1. req[q].todo # <<>> => Head(req[q].todo) \in req[q].keys
    <3>1. req[q].todo # <<>> => Head(req[q].todo) \in Of(req[q].todo)
      BY <1>1, Fields, TailOf DEF Shape
    <3> QED
      BY <1>1, <3>1 DEF Shape
  <2>2. req[q].step \in Changing => req[q].todo # <<>>
    BY <1>1 DEF Shape, Changing
  <2>3. v = req[q].user => k # Head(req[q].todo) \/ req[q].step \notin Changing
    BY <2>1, <2>2
  <2> QED
    BY <2>3, OthersStay
<1>3. Shown(v, k)' = Shown(v, k)
  BY <1>2 DEF Shown
<1>4. wish'[v][k] = wish[v][k]
  BY <1>1 DEF GoesOn, Ends, Carries, Answered
<1>5. /\ \A r \in Working' : r \in Working /\ req'[r].user = req[r].user /\ req'[r].keys = req[r].keys
      /\ \A r \in Working : r # q => r \in Working' /\ req'[r] = req[r]
  BY AboutMoves
<1>6. About(v, k)' = About(v, k) /\ \A r \in About(v, k) : req'[r] = req[r]
  BY <1>5 DEF About
<1>7. ASSUME NEW r \in About(v, k)
      PROVE  /\ req'[r] = req[r] /\ AskedOf(req'[r], wish'[v][k]) = AskedOf(req[r], wish[v][k])
             /\ Set(r, req[r].row.val)' = Set(r, req[r].row.val)
  BY <1>4, <1>6, <1>7 DEF Set
<1>8. ASSUME NEW r \in About(v, k)'
      PROVE  /\ k \notin Of(req'[r].todo) => Shown(v, k)' = AskedOf(req'[r], wish'[v][k])
             /\ k \in Of(req'[r].todo) /\ req'[r].step # "write" => Shown(v, k)' = wish'[v][k]
             /\ req'[r].step = "write" =>
                  /\ RowsOf(v, k)' = {req'[r].row} /\ req'[r].op = "put"
                  /\ AskedOf(req'[r], wish'[v][k]) = Set(r, req[r].row.val)'
  <2>1. r \in About(v, k)
    BY <1>6, <1>8
  <2> QED
    BY <1>2, <1>3, <1>4, <1>7, <2>1 DEF Wished
<1>9. \A x, y \in RowsOf(v, k)' : x = y
  BY <1>2 DEF Wished
<1>10. About(v, k)' = {} => Shown(v, k)' = wish'[v][k]
  BY <1>3, <1>4, <1>6 DEF Wished
<1> QED
  BY <1>8, <1>9, <1>10 DEF Wished

\* A request that begins for a key, with no other of its user under way, finds the
\* user shown what he wished.
LEMMA WishedBegins ==
  ASSUME IInv, WishInv, Kind(table).whose = "user", NEW q \in Requests, AskMoves(q),
         NEW v \in Users, NEW k \in Keys, <<v, k>> \notin rushed'
  PROVE  Wished(v, k)'
<1>1. PICK u \in Users, op \in {"put", "take", "show"}, col \in 1 .. 2, val \in 0 .. 2 :
        \E list \in KeyLists[table] : Begun(q, u, op, col, val, list)
  BY DEF AskMoves
<1>2. PICK list \in KeyLists[table] : Begun(q, u, op, col, val, list)
  BY <1>1
<1>3. /\ rows' = rows /\ wish' = wish /\ Goes(q) /\ req'[q].keys = Of(list) /\ req'[q].user = u
      /\ req'[q].todo = list /\ q \notin Working /\ req'[q].step \notin {"write", "new", "ok", "failed"}
      /\ rushed' = (IF {x \in Working : req[x].user = u} = {} THEN rushed
                    ELSE rushed \cup ({u} \X (Of(list) \cup UNION {req[x].keys : x \in {y \in Working : req[y].user = u}})))
  BY <1>2 DEF Begun, Working
<1>4. \A r \in Requests : r # q => (r \in Working' <=> r \in Working) /\ req'[r] = req[r]
  BY <1>3 DEF Goes, Working
<1>5. (\A r \in Working : r \in Requests) /\ (\A r \in Working' : r \in Requests) /\ q \in Working'
  BY <1>3 DEF Working
<1>6. Wished(v, k)
  BY <1>3 DEF WishInv
<1>7. RowsOf(v, k)' = RowsOf(v, k) /\ Shown(v, k)' = Shown(v, k)
  BY <1>3 DEF RowsOf, Shown
<1>8. CASE v = u /\ k \in Of(list)
  <2>1. {x \in Working : req[x].user = u} = {}
    BY <1>3, <1>8
  <2>2. About(v, k) = {} /\ About(v, k)' = {q}
    <3>1. \A x \in Working : req[x].user # v
      BY <1>8, <2>1
    <3>2. \A x \in Working' : x # q => req'[x].user # v
      BY <1>4, <1>5, <3>1
    <3>3. q \in Working' /\ req'[q].user = v /\ k \in req'[q].keys
      BY <1>3, <1>5, <1>8
    <3>4. About(v, k) = {}
      BY <3>1 DEF About
    <3>5. About(v, k)' \subseteq {q}
      BY <3>2 DEF About
    <3>6. q \in About(v, k)'
      BY <3>3 DEF About
    <3> QED
      BY <3>4, <3>5, <3>6
  <2>3. Shown(v, k)' = wish'[v][k]
    BY <1>3, <1>6, <1>7, <2>2 DEF Wished
  <2> QED
    BY <1>3, <1>6, <1>7, <1>8, <2>2, <2>3 DEF Wished
<1>9. CASE ~(v = u /\ k \in Of(list))
  <2>1. About(v, k)' = About(v, k) /\ \A r \in About(v, k) : req'[r] = req[r]
    BY <1>3, <1>4, <1>5, <1>9 DEF About
  <2>2. \A r \in About(v, k) : Set(r, req[r].row.val)' = Set(r, req[r].row.val)
    BY <2>1 DEF Set
  <2> QED
    BY <1>3, <1>6, <1>7, <2>1, <2>2 DEF Wished
<1> QED
  BY <1>8, <1>9

\* The only request of its user that is under way, about a key of his.
Alone(q, v, k) ==
  /\ q \in Working /\ v = req[q].user /\ k \in req[q].keys
  /\ \A r \in Working : req[r].user = v => r = q

LEMMA AloneStays ==
  ASSUME IInv, NEW q \in Requests, Turn(q), ~AskMoves(q), NEW v \in Users, NEW k \in Keys, Alone(q, v, k)
  PROVE  /\ About(v, k) = {q}
         /\ q \in Working' => About(v, k)' = {q}
         /\ q \notin Working' => About(v, k)' = {}
<1>1. /\ \A r \in Working' : r \in Working /\ req'[r].user = req[r].user /\ req'[r].keys = req[r].keys
      /\ \A r \in Working : r # q => r \in Working' /\ req'[r] = req[r]
  BY AboutMoves
<1>2. About(v, k)' \subseteq {q} /\ About(v, k)' \subseteq Working' /\ About(v, k) \subseteq {q} /\ q \in About(v, k)
  BY <1>1 DEF About, Alone
<1>3. q \in Working' => q \in About(v, k)'
  BY <1>1 DEF About, Alone
<1> QED
  BY <1>2, <1>3

\* When a key has been dealt with, and the user is shown for it what the request asks,
\* he is shown what he wished.
LEMMA DealsWished ==
  ASSUME IInv, NEW q \in Requests, Turn(q), ~AskMoves(q), Deals(q),
         req[q].step \in {"look", "insert", "write", "remove"},
         req[q].step = "remove" => Len(req[q].todo) = 1,
         NEW v \in Users, NEW k \in Keys, Alone(q, v, k), Wished(v, k),
         req[q].step = "write" => k = Head(req[q].todo),
         \A x, y \in RowsOf(v, k)' : x = y,
         k = Head(req[q].todo) => Shown(v, k)' = AskedOf(req[q], wish[v][k]),
         k # Head(req[q].todo) => Shown(v, k)' = Shown(v, k)
  PROVE  Wished(v, k)'
<1>1. Typed /\ Shape(q) /\ req[q].todo # <<>>
  BY DEF IInv, Shape
<1>2. /\ About(v, k) = {q} /\ (q \in Working' => About(v, k)' = {q})
      /\ (q \notin Working' => About(v, k)' = {})
  BY AloneStays
<1>3. /\ Of(Tail(req[q].todo)) = Of(req[q].todo) \ {Head(req[q].todo)}
      /\ Len(req[q].todo) \in Nat \ {0} /\ Head(req[q].todo) \in Of(req[q].todo)
  BY <1>1, Fields, TailOf DEF Shape
<1>4. k \in Of(req[q].todo) /\ req[q].step # "write" => Shown(v, k) = wish[v][k]
  BY <1>2 DEF Wished
<1>5. k \notin Of(req[q].todo) => Shown(v, k) = AskedOf(req[q], wish[v][k])
  BY <1>2 DEF Wished
<1>6. CASE Carries(q) /\ req'[q].todo = Tail(req[q].todo) /\ req'[q].step \in {"look", "gather", "announce", "tell"}
  <2>1. q \in Working' /\ wish' = wish /\ req'[q].op = req[q].op /\ req'[q].col = req[q].col /\ req'[q].val = req[q].val
    BY <1>6 DEF Working, Carries
  <2>2. AskedOf(req'[q], wish'[v][k]) = AskedOf(req[q], wish[v][k])
    BY <2>1 DEF AskedOf
  <2>3. k \notin Of(req'[q].todo) => Shown(v, k)' = AskedOf(req'[q], wish'[v][k])
    BY <1>3, <1>5, <1>6, <2>2
  <2>4. k \in Of(req'[q].todo) => Shown(v, k)' = wish'[v][k]
    BY <1>3, <1>4, <1>6, <2>1
  <2> QED
    BY <1>2, <1>6, <2>1, <2>3, <2>4 DEF Wished
<1>7. CASE Len(req[q].todo) = 1 /\ Answered(q, "ok")
  <2>1. q \notin Working'
    BY <1>7, TurnIs DEF Ends
  <2>2. wish'[v][k] = AskedOf(req[q], wish[v][k])
    BY <1>7 DEF Answered, Alone, Asked, AskedOf, Set
  <2>3. k # Head(req[q].todo) => k \notin Of(req[q].todo)
    BY <1>1, <1>7, Fields DEF Of
  <2> QED
    BY <1>2, <1>5, <2>1, <2>2, <2>3 DEF Wished
<1> QED
  BY <1>6, <1>7 DEF Deals

\* A request that has not dealt with its keys is about the first of them, and about that
\* alone but for receipts.
LEMMA FirstKey ==
  ASSUME IInv, Lone, NEW q \in Requests, NEW v \in Users, NEW k \in Keys, Alone(q, v, k),
         req[q].todo # <<>>
  PROVE  /\ Head(req[q].todo) \in Of(req[q].todo) /\ Head(req[q].todo) \in Keys
         /\ table # "receipt" => k = Head(req[q].todo)
<1>1. Typed /\ Shape(q)
  BY DEF IInv
<1>2. Head(req[q].todo) \in Of(req[q].todo) /\ Head(req[q].todo) \in Keys
  BY <1>1, Fields, TailOf DEF Shape
<1>3. Head(req[q].todo) \in req[q].keys
  BY <1>1, <1>2 DEF Shape
<1> QED
  BY <1>2, <1>3 DEF Lone, Alone

\* A row is looked for.
LEMMA LookWished ==
  ASSUME IInv, Lone, Kind(table).whose = "user", NEW q \in Requests, LookMoves(q),
         NEW v \in Users, NEW k \in Keys, Alone(q, v, k), Wished(v, k)
  PROVE  Wished(v, k)'
<1>1. /\ Typed /\ Shape(q) /\ Sound /\ req[q].step = "look" /\ rows' = rows /\ req[q].todo # <<>>
      /\ req[q].op # "take" /\ Turn(q) /\ ~AskMoves(q) /\ table \in Tables
  BY DEF IInv, LookMoves, Shape, Turn, AskMoves, Begun, Typed
<1>2. /\ About(v, k) = {q} /\ (q \in Working' => About(v, k)' = {q})
      /\ (q \notin Working' => About(v, k)' = {})
  BY <1>1, AloneStays
<1>3. RowsOf(v, k)' = RowsOf(v, k) /\ Shown(v, k)' = Shown(v, k) /\ \A x, y \in RowsOf(v, k) : x = y
  BY <1>1 DEF RowsOf, Shown, Wished
<1>4. /\ k \in Of(req[q].todo) => Shown(v, k) = wish[v][k]
      /\ k \notin Of(req[q].todo) => Shown(v, k) = AskedOf(req[q], wish[v][k])
  BY <1>1, <1>2 DEF Wished
<1>5. k = Head(req[q].todo) => Looked(q) = RowsOf(v, k) /\ k \in Of(req[q].todo)
  BY <1>1, FirstKey DEF Looked, RowsOf, Alone
<1>6. ASSUME k = Head(req[q].todo), RowsOf(v, k) # {}
      PROVE  /\ First(RowsOf(v, k)) \in rows /\ First(RowsOf(v, k)) \in Row
             /\ First(RowsOf(v, k)).val \in Value /\ wish[v][k] = First(RowsOf(v, k)).val
             /\ wish[v][k] # Nothing
  <2>1. RowsOf(v, k) \subseteq rows /\ rows \subseteq Row
    BY <1>1 DEF RowsOf, Typed
  <2>2. First(RowsOf(v, k)) \in RowsOf(v, k)
    BY <1>6, <2>1, FirstIsOne
  <2>3. First(RowsOf(v, k)) \in Row /\ First(RowsOf(v, k)).val \in Value
    BY <2>1, <2>2 DEF Row
  <2>4. wish[v][k] = First(RowsOf(v, k)).val
    BY <1>4, <1>5, <1>6 DEF Shown
  <2> QED
    BY <2>1, <2>2, <2>3, <2>4, MarksAssumption
<1>7. CASE /\ Looked(q) = {} /\ Carries(q) /\ req'[q].step = "insert" /\ req'[q].todo = req[q].todo
  <2>1. q \in Working' /\ wish' = wish /\ req'[q].op = req[q].op /\ req'[q].col = req[q].col /\ req'[q].val = req[q].val
    BY <1>7 DEF Working, Carries
  <2>2. AskedOf(req'[q], wish'[v][k]) = AskedOf(req[q], wish[v][k])
    BY <2>1 DEF AskedOf
  <2> QED
    BY <1>2, <1>3, <1>4, <1>7, <2>1, <2>2 DEF Wished
<1>8. CASE Looked(q) # {} /\ (Kind(table).found = "keep" \/ req[q].op = "show") /\ Deals(q)
  <2>1. ASSUME k = Head(req[q].todo) PROVE Shown(v, k)' = AskedOf(req[q], wish[v][k])
    <3>1. PICK x \in Row : x = First(RowsOf(v, k))
      BY <1>5, <1>6, <1>8, <2>1
    <3>2. x \in rows /\ x.val \in Value /\ wish[v][k] = x.val /\ x.val # Nothing
      BY <1>5, <1>6, <1>8, <2>1, <3>1
    <3>3. Shown(v, k)' = x.val
      BY <1>3, <1>4, <1>5, <2>1, <3>2
    <3>4. CASE req[q].op = "show"
      BY <3>2, <3>3, <3>4 DEF AskedOf
    <3>5. CASE Kind(table).found = "keep" /\ req[q].op # "show"
      <4>1. table \in Kept
        BY <1>1, <3>5, Kinds DEF Kept
      <4>2. req[q].val = 1 /\ req[q].col = 1
        <5>1. req[q].col \in 1 .. 2
          BY <1>1, Fields
        <5>2. req[q].col # 2
          BY <1>1, <4>1 DEF Shape, Kept
        <5> QED
          BY <1>1, <4>1, <5>1, <5>2 DEF Shape
      <4>3. x.val[1] = 1
        BY <1>1, <3>2, <4>1 DEF Sound, Copies
      <4>4. [x.val EXCEPT ![1] = 1] = x.val
        BY <3>2, <4>3 DEF Value
      <4>5. AskedOf(req[q], x.val) = [x.val EXCEPT ![1] = 1]
        BY <1>1, <3>2, <3>5, <4>2 DEF AskedOf
      <4> QED
        BY <3>2, <3>3, <4>4, <4>5
    <3> QED
      BY <1>8, <3>4, <3>5
  <2>2. Deals(q)
    BY <1>8
  <2> QED
    BY <1>1, <1>3, <2>1, <2>2, DealsWished
<1>9. CASE /\ Looked(q) # {} /\ Kind(table).found # "keep" /\ req[q].op # "show" /\ Carries(q)
           /\ req'[q].step = "write" /\ req'[q].row = First(Looked(q)) /\ req'[q].todo = req[q].todo
  <2>1. table # "receipt"
    BY <1>1, <1>9, Kinds
  <2>2. k = Head(req[q].todo)
    BY <1>1, <2>1, FirstKey
  <2>3. PICK x \in Row : x = First(RowsOf(v, k))
    BY <1>5, <1>6, <1>9, <2>2
  <2>4. x \in rows /\ x.val \in Value /\ wish[v][k] = x.val /\ x.val # Nothing /\ x \in RowsOf(v, k)
    <3>1. RowsOf(v, k) \subseteq Row /\ RowsOf(v, k) # {}
      BY <1>1, <1>5, <1>9, <2>2 DEF RowsOf, Typed
    <3> QED
      BY <1>5, <1>6, <1>9, <2>2, <2>3, <3>1, FirstIsOne
  <2>5. RowsOf(v, k)' = {x} /\ req'[q].row = x
    BY <1>3, <1>5, <1>9, <2>2, <2>3, <2>4
  <2>6. /\ q \in Working' /\ wish' = wish /\ req'[q].op = "put" /\ req'[q].col = req[q].col
        /\ req'[q].val = req[q].val
    <3>1. req[q].op \in {"put", "take", "show"}
      BY <1>1, Fields DEF JobSet
    <3> QED
      BY <1>1, <1>9, <3>1 DEF Working, Carries
  <2>7. AskedOf(req'[q], wish'[v][k]) = [x.val EXCEPT ![req'[q].col] = req'[q].val]
    BY <2>4, <2>6 DEF AskedOf
  <2>8. Set(q, req[q].row.val)' = [x.val EXCEPT ![req'[q].col] = req'[q].val]
    BY <2>5 DEF Set
  <2>9. k \in Of(req'[q].todo)
    BY <1>5, <1>9, <2>2
  <2> QED
    BY <1>2, <1>9, <2>5, <2>6, <2>7, <2>8, <2>9 DEF Wished
<1> QED
  BY <1>7, <1>8, <1>9 DEF LookMoves

\* A row is inserted.
LEMMA InsertWished ==
  ASSUME IInv, Lone, WishInv, Kind(table).whose = "user", NEW q \in Requests, InsertMoves(q),
         NEW v \in Users, NEW k \in Keys, Alone(q, v, k), <<v, k>> \notin rushed
  PROVE  Wished(v, k)'
<1>1. /\ Typed /\ Shape(q) /\ Sound /\ req[q].step = "insert" /\ req[q].todo # <<>>
      /\ req[q].op # "take" /\ Turn(q) /\ ~AskMoves(q) /\ table \in Tables /\ Wished(v, k)
  BY DEF IInv, InsertMoves, Shape, Turn, AskMoves, Begun, Typed, WishInv
<1>2. /\ About(v, k) = {q} /\ (q \in Working' => About(v, k)' = {q})
      /\ (q \notin Working' => About(v, k)' = {})
  BY <1>1, AloneStays
<1>3. RowsOf(v, Head(req[q].todo)) = {}
  BY <1>1 DEF WishInv, Undisturbed, Calm, Alone
<1>4. PICK new \in Row : new = NewRow(q)
  BY <1>1, NewRowIs
<1>5. /\ new.key = Head(req[q].todo) /\ new.user = v /\ new.val = IF Bare(q) THEN Default ELSE Set(q, Default)
  BY <1>4 DEF NewRow, Alone
<1>6. /\ k \in Of(req[q].todo) => Shown(v, k) = wish[v][k]
      /\ k \notin Of(req[q].todo) => Shown(v, k) = AskedOf(req[q], wish[v][k])
      /\ \A x, y \in RowsOf(v, k) : x = y
  BY <1>1, <1>2 DEF Wished
<1>7. k = Head(req[q].todo) => wish[v][k] = Nothing /\ Shown(v, k) = Nothing
  BY <1>1, <1>3, <1>6, FirstKey DEF Shown
<1>8. CASE Refused(new) /\ rows' = rows /\ Answered(q, "failed")
  <2>1. k = Head(req[q].todo)
    <3>1. CASE Kind(table).index = "userAndKey"
      BY <1>3, <1>5, <1>8, <3>1 DEF Refused, RowsOf
    <3>2. CASE Kind(table).index # "userAndKey"
      <4>1. table # "receipt"
        <5>1. Kind("receipt").index = "userAndKey"
          BY DEF Kind, Table, MessageReadReceipt
        <5> QED
          BY <3>2, <5>1
      <4> QED
        BY <1>1, <4>1, FirstKey
    <3> QED
      BY <3>1, <3>2
  <2>2. q \notin Working' /\ wish'[v][k] = wish[v][k]
    BY <1>1, <1>8, TurnIs DEF Answered, Ends
  <2>3. RowsOf(v, k)' = RowsOf(v, k) /\ Shown(v, k)' = Shown(v, k)
    BY <1>8 DEF RowsOf, Shown
  <2> QED
    BY <1>2, <1>6, <1>7, <2>1, <2>2, <2>3 DEF Wished
<1>9. CASE ~Refused(new) /\ rows' = rows \cup {new}
  <2>1. k = Head(req[q].todo) => RowsOf(v, k)' = {new}
    BY <1>3, <1>5, <1>9 DEF RowsOf
  <2>2. k = Head(req[q].todo) => Shown(v, k)' = new.val
    BY <2>1, FirstOfOne DEF Shown
  <2>3. k # Head(req[q].todo) => RowsOf(v, k)' = RowsOf(v, k) /\ Shown(v, k)' = Shown(v, k)
    BY <1>5, <1>9 DEF RowsOf, Shown
  <2>4. \A x, y \in RowsOf(v, k)' : x = y
    BY <1>6, <2>1, <2>3
  <2>5. AskedOf(req[q], Nothing) = IF req[q].op = "show" THEN Default ELSE Set(q, Default)
    BY <1>1 DEF AskedOf, Set
  <2>6. CASE /\ Bare(q) /\ req[q].op = "put" /\ Carries(q) /\ req'[q].todo = req[q].todo
             /\ req'[q].step = "write" /\ req'[q].row = new
    <3>1. table # "receipt"
      BY <1>1, <2>6 DEF Bare, Shape
    <3>2. k = Head(req[q].todo)
      BY <1>1, <3>1, FirstKey
    <3>3. /\ q \in Working' /\ wish' = wish /\ req'[q].op = "put" /\ req'[q].col = req[q].col
          /\ req'[q].val = req[q].val
      BY <2>6 DEF Working, Carries
    <3>4. AskedOf(req'[q], wish'[v][k]) = [Default EXCEPT ![req'[q].col] = req'[q].val]
      BY <1>7, <3>2, <3>3 DEF AskedOf
    <3>5. Set(q, req[q].row.val)' = [Default EXCEPT ![req'[q].col] = req'[q].val]
      BY <1>5, <2>6 DEF Set
    <3>6. k \in Of(req'[q].todo)
      BY <1>1, <2>6, <3>2, FirstKey
    <3> QED
      BY <1>2, <2>1, <2>4, <2>6, <3>2, <3>3, <3>4, <3>5, <3>6 DEF Wished
  <2>7. CASE ~(Bare(q) /\ req[q].op = "put") /\ Deals(q)
    <3>1. new.val = AskedOf(req[q], Nothing)
      <4>1. req[q].op \in {"put", "take", "show"}
        BY <1>1, Fields DEF JobSet
      <4> QED
        BY <1>1, <1>5, <2>5, <2>7, <4>1 DEF Bare
    <3>2. k = Head(req[q].todo) => Shown(v, k)' = AskedOf(req[q], wish[v][k])
      BY <1>7, <2>2, <3>1
    <3>3. Deals(q)
      BY <2>7
    <3> QED
      BY <1>1, <2>3, <2>4, <3>2, <3>3, DealsWished
  <2>8. table # "pin"
    <3>1. Kind("pin").whose = "all"
      BY DEF Kind, Table, PinnedMessage
    <3> QED
      BY <3>1
  <2> QED
    BY <1>4, <1>9, <2>6, <2>7, <2>8 DEF InsertMoves
<1> QED
  BY <1>4, <1>8, <1>9 DEF InsertMoves

\* The row that was loaded is written.
LEMMA WriteWished ==
  ASSUME IInv, Lone, Kind(table).whose = "user", NEW q \in Requests, WriteMoves(q),
         NEW v \in Users, NEW k \in Keys, Alone(q, v, k), Wished(v, k)
  PROVE  Wished(v, k)'
<1>1. /\ Typed /\ Shape(q) /\ Sound /\ req[q].step = "write" /\ req[q].todo # <<>>
      /\ Turn(q) /\ ~AskMoves(q) /\ table \in Tables
      /\ table \in {"reaction", "theme", "token", "senderKey", "settings"}
  BY DEF IInv, WriteMoves, Shape, Turn, AskMoves, Begun, Typed
<1>2. k = Head(req[q].todo) /\ About(v, k) = {q}
  BY <1>1, FirstKey, AloneStays
<1>3. PICK held \in Row : held = req[q].row
  BY <1>1 DEF Shape
<1>4. /\ RowsOf(v, k) = {held} /\ req[q].op = "put" /\ AskedOf(req[q], wish[v][k]) = Set(q, held.val)
  BY <1>1, <1>2, <1>3 DEF Wished
<1>5. held \in rows /\ held.user = v /\ held.key = k
  BY <1>4 DEF RowsOf
<1>6. Same(q) = {held}
  BY <1>1, <1>3, <1>5 DEF Same, Sound
<1>7. PICK w : w = [held EXCEPT !.val = Set(q, held.val), !.user = v]
  OBVIOUS
<1>8. Written(q) = {w}
  <2>1. \A r \in {held} : [r EXCEPT !.val = Set(q, @), !.user = req[q].user] = w
    BY <1>7 DEF Alone
  <2>2. Written(q) = {[r EXCEPT !.val = Set(q, @), !.user = req[q].user] : r \in {held}}
    BY <1>3, <1>6 DEF Written
  <2> QED
    BY <2>1, <2>2
<1>9. w \in Row /\ w.id = held.id /\ w.key = k /\ w.user = v /\ w.val = Set(q, held.val)
  <2>1. w \in Row
    BY <1>1, <1>8, WrittenIs
  <2> QED
    BY <1>5, <1>7, <2>1 DEF Row
<1>10. ~Refused(w)
  <2>1. Kind(table).index # "key"
    BY <1>1, Kinds
  <2>2. SUFFICES ASSUME NEW x \in rows, x.id # w.id, x.key = w.key, x.user = w.user PROVE FALSE
    BY <2>1 DEF Refused
  <2>3. x \in RowsOf(v, k)
    BY <1>9, <2>2 DEF RowsOf
  <2> QED
    BY <1>4, <1>9, <2>2, <2>3
<1>11. rows' = (rows \ {held}) \cup {w} /\ Deals(q)
  BY <1>6, <1>8, <1>10 DEF WriteMoves
<1>12. RowsOf(v, k)' = {w}
  BY <1>4, <1>9, <1>11 DEF RowsOf
<1>13. Shown(v, k)' = AskedOf(req[q], wish[v][k])
  BY <1>4, <1>9, <1>12, FirstOfOne DEF Shown
<1>14. \A x, y \in RowsOf(v, k)' : x = y
  BY <1>12
<1> QED
  BY <1>1, <1>2, <1>11, <1>13, <1>14, DealsWished

\* The user's rows are deleted.
LEMMA RemoveWished ==
  ASSUME IInv, Lone, Kind(table).whose = "user", NEW q \in Requests, RemoveMoves(q),
         NEW v \in Users, NEW k \in Keys, Alone(q, v, k), Wished(v, k)
  PROVE  Wished(v, k)'
<1>1. /\ Typed /\ Shape(q) /\ req[q].step = "remove" /\ req[q].todo # <<>> /\ req[q].op = "take"
      /\ Turn(q) /\ ~AskMoves(q) /\ table # "receipt" /\ Deals(q) /\ rows' = rows \ Looked(q)
  BY DEF IInv, RemoveMoves, Shape, Turn, AskMoves, Begun
<1>2. k = Head(req[q].todo) /\ Len(req[q].todo) = 1
  BY <1>1, FirstKey, OneToRemove
<1>3. RowsOf(v, k)' = {}
  BY <1>1, <1>2 DEF RowsOf, Looked, Alone
<1>4. Shown(v, k)' = AskedOf(req[q], wish[v][k])
  BY <1>1, <1>3 DEF Shown, AskedOf
<1> QED
  BY <1>1, <1>2, <1>3, <1>4, DealsWished

\* The reactions are read, and others are told.
LEMMA RestWished ==
  ASSUME IInv, NEW q \in Requests, GatherMoves(q) \/ TellMoves(q) \/ AnnounceMoves(q), table # "pin",
         NEW v \in Users, NEW k \in Keys, Alone(q, v, k), Wished(v, k)
  PROVE  Wished(v, k)'
<1>1. /\ Typed /\ Shape(q) /\ rows' = rows /\ req[q].todo = <<>> /\ req[q].step # "write"
      /\ Turn(q) /\ ~AskMoves(q)
  BY DEF IInv, GatherMoves, TellMoves, AnnounceMoves, Shape, Turn, AskMoves, Begun
<1>2. /\ About(v, k) = {q} /\ (q \in Working' => About(v, k)' = {q})
      /\ (q \notin Working' => About(v, k)' = {})
  BY <1>1, AloneStays
<1>3. RowsOf(v, k)' = RowsOf(v, k) /\ Shown(v, k)' = Shown(v, k)
  BY <1>1 DEF RowsOf, Shown
<1>4. Shown(v, k) = AskedOf(req[q], wish[v][k]) /\ k \notin Of(req[q].todo)
  BY <1>1, <1>2 DEF Wished, Of
<1>5. CASE GatherMoves(q)
  <2>1. /\ q \in Working' /\ wish' = wish /\ req'[q].op = req[q].op /\ req'[q].col = req[q].col
        /\ req'[q].val = req[q].val /\ req'[q].step = "tell" /\ req'[q].todo = req[q].todo
    BY <1>5 DEF Working, Carries, GatherMoves
  <2>2. AskedOf(req'[q], wish'[v][k]) = AskedOf(req[q], wish[v][k])
    BY <2>1 DEF AskedOf
  <2> QED
    BY <1>2, <1>3, <1>4, <2>1, <2>2 DEF Wished
<1>6. CASE TellMoves(q) \/ AnnounceMoves(q)
  <2>1. Answered(q, "ok")
    BY <1>6 DEF TellMoves, AnnounceMoves
  <2>2. q \notin Working'
    BY <1>1, <2>1, TurnIs DEF Ends
  <2>3. wish'[v][k] = AskedOf(req[q], wish[v][k])
    BY <2>1 DEF Answered, Alone, Asked, AskedOf, Set
  <2> QED
    BY <1>2, <1>3, <1>4, <2>2, <2>3 DEF Wished
<1> QED
  BY <1>5, <1>6

\* Every turn leaves what a user is shown as he wished.
LEMMA WishedHolds ==
  ASSUME IInv, Lone, WishInv, Kind(table).whose = "user", NEW q \in Requests, Turn(q),
         NEW v \in Users, NEW k \in Keys, <<v, k>> \notin rushed'
  PROVE  Wished(v, k)'
<1>1. CASE AskMoves(q)
  BY <1>1, WishedBegins
<1>2. CASE ~AskMoves(q)
  <2>1. <<v, k>> \notin rushed /\ q \in Working /\ Wished(v, k)
    BY <1>2, TurnIs DEF Unmoved, WishInv
  <2>2. CASE v # req[q].user \/ k \notin req[q].keys
    BY <1>2, <2>1, <2>2, WishedStays
  <2>3. CASE v = req[q].user /\ k \in req[q].keys
    <3>1. Undisturbed(q)
      BY DEF WishInv
    <3>2. Alone(q, v, k)
      BY <2>1, <2>3, <3>1 DEF Alone, Undisturbed, Calm
    <3>3. table # "pin"
      <4>1. Kind("pin").whose = "all"
        BY DEF Kind, Table, PinnedMessage
      <4> QED
        BY <4>1
    <3>4. ~ClearMoves(q)
      BY <3>3 DEF ClearMoves, IInv, Shape
    <3> QED
      BY <1>2, <2>1, <3>2, <3>3, <3>4, LookWished, InsertWished, WriteWished, RemoveWished,
         RestWished DEF Turn
  <2> QED
    BY <2>2, <2>3
<1> QED
  BY <1>1, <1>2

\* A user whose requests come one at a time is shown what he asked, though no index
\* protects the table.
THEOREM PatientWishes == Spec => []PatientWish
<1>1. Init => Lone /\ WishInv
  <2> SUFFICES ASSUME Init PROVE Lone /\ WishInv
    OBVIOUS
  <2>1. Working = {}
    <3>1. \A q \in Requests : req[q].step = "new"
      BY IdleIs DEF Init, Steps
    <3> QED
      BY <3>1 DEF Working
  <2>2. \A u \in Users, k \in Keys : RowsOf(u, k) = {} /\ wish[u][k] = Nothing
    BY DEF Init, RowsOf
  <2>3. \A u \in Users, k \in Keys : Shown(u, k) = Nothing
    BY <2>2 DEF Shown
  <2> QED
    BY <2>1, <2>2, <2>3 DEF Lone, WishInv, Undisturbed, Calm, Wished, About
<1>2. IInv /\ Lone /\ WishInv /\ [Next]_vars => (Lone /\ WishInv)'
  <2> SUFFICES ASSUME IInv, Lone, WishInv, [Next]_vars PROVE (Lone /\ WishInv)'
    OBVIOUS
  <2>1. CASE UNCHANGED vars
    <3>1. table' = table /\ rows' = rows /\ req' = req /\ wish' = wish /\ rushed' = rushed
      BY <2>1 DEF vars
    <3>2. Lone' <=> Lone
      BY <3>1 DEF Lone, Working
    <3>3. \A r \in Requests : Undisturbed(r)' <=> Undisturbed(r)
      BY <3>1 DEF Undisturbed, Calm, Working, RowsOf
    <3>4. \A u \in Users, k \in Keys : Wished(u, k)' <=> Wished(u, k)
      BY <3>1 DEF Wished, About, Working, RowsOf, Shown, Set
    <3> QED
      BY <3>1, <3>2, <3>3, <3>4 DEF WishInv
  <2>2. ASSUME NEW q \in Requests, Turn(q) PROVE (Lone /\ WishInv)'
    <3>1. Lone' /\ table' = table
      BY <2>2, LoneHolds, RowsChange
    <3>2. Kind(table).whose = "user" => \A r \in Requests : Undisturbed(r)'
      BY <2>2, UndisturbedHolds
    <3>3. Kind(table).whose = "user" => \A u \in Users, k \in Keys : <<u, k>> \notin rushed' => Wished(u, k)'
      BY <2>2, WishedHolds
    <3> QED
      BY <3>1, <3>2, <3>3 DEF WishInv
  <2> QED
    BY <2>1, <2>2, Turns
<1>3. WishInv => PatientWish
  <2> SUFFICES ASSUME WishInv, Kind(table).whose = "user", NEW u \in Users, NEW k \in Keys,
                      <<u, k>> \notin rushed, \A q \in Working : ~(req[q].user = u /\ k \in req[q].keys)
               PROVE  Shown(u, k) = wish[u][k]
    BY DEF PatientWish
  <2>1. About(u, k) = {}
    BY DEF About
  <2> QED
    BY <2>1 DEF WishInv, Wished
<1> QED
  BY <1>1, <1>2, <1>3, MarkInvariance, PTL DEF Spec

----------------------------------------------------------------------------
(* Indexed tables keep what Registers promises.                             *)

\* Whose value a request sets, and to what.
Holder(q) == IF Common THEN Everyone ELSE req[q].user
Want(q)   == IF req[q].op = "take" THEN Nothing
             ELSE IF Common THEN req[q].user ELSE Set(q, Default)

\* What a request has still to do, now and after a step.
LEMMA JobIs ==
  ASSUME NEW q \in Requests, table' = table, Indexed
  PROVE  /\ q \in Working => Job(q) = [state |-> "open", user |-> Holder(q), want |-> Want(q),
                                        todo |-> Of(req[q].todo)]
         /\ q \in Working' => Job(q)' = [state |-> "open", user |-> Holder(q)', want |-> Want(q)',
                                          todo |-> Of(req'[q].todo)]
         /\ q \notin Working' => Job(q)' = Closed(req'[q].step)
         /\ req[q].step = "new" => Job(q) = Closed("new")
<1>1. q \in Working => req[q].step \notin Ended
  BY DEF Working, Ended
<1>2. q \in Working' => req'[q].step \notin Ended
  BY DEF Working, Ended
<1>3. q \notin Working' => req'[q].step \in Ended
  BY DEF Working, Ended
<1>4. Indexed'
  BY DEF Indexed
<1>5. q \in Working => Job(q) = [state |-> "open", user |-> Holder(q), want |-> Want(q),
                                  todo |-> Of(req[q].todo)]
  BY <1>1 DEF Job, Holder, Want, Of, Ended
<1>6. q \in Working' => Job(q)' = [state |-> "open", user |-> Holder(q)', want |-> Want(q)',
                                    todo |-> Of(req'[q].todo)]
  BY <1>2, <1>4 DEF Job, Holder, Want, Of, Ended
<1>7. q \notin Working' => Job(q)' = Closed(req'[q].step)
  BY <1>3, <1>4 DEF Job, Ended
<1>8. req[q].step = "new" => Job(q) = Closed("new")
  BY DEF Job
<1> QED
  BY <1>5, <1>6, <1>7, <1>8

\* A turn is a step of one job.
LEMMA JobsMove ==
  ASSUME IInv, NEW q \in Requests, Turn(q)
  PROVE  Jobs[q] = Job(q) /\ Jobs'[q] = Job(q)' /\ Jobs' = [Jobs EXCEPT ![q] = Job(q)']
<1>1. Goes(q) /\ table' = table
  <2>1. AskMoves(q) => Goes(q)
    BY DEF AskMoves, Begun
  <2> QED
    BY <2>1, TurnIs, RowsChange
<1>2. ASSUME NEW r \in Requests, r # q PROVE Job(r)' = Job(r)
  <2>1. req'[r] = req[r]
    BY <1>1, <1>2 DEF Goes
  <2> QED
    BY <1>1, <2>1 DEF Job, Indexed, Common, Set
<1>3. Jobs[q] = Job(q) /\ Jobs'[q] = Job(q)'
  BY DEF Jobs
<1>4. \A r \in Requests : Jobs'[r] = [Jobs EXCEPT ![q] = Job(q)'][r]
  BY <1>2, <1>3 DEF Jobs
<1>5. Jobs' = [r \in Requests |-> Job(r)'] /\ Jobs = [r \in Requests |-> Job(r)]
  BY DEF Jobs
<1>6. \A r \in Requests : Job(r)' = [Jobs EXCEPT ![q] = Job(q)'][r]
  BY <1>4, <1>5
<1> QED
  BY <1>3, <1>5, <1>6

\* A request that goes on with the same keys has the same to do.
LEMMA JobStays ==
  ASSUME IInv, NEW q \in Requests, Turn(q), Indexed, q \in Working, Carries(q),
         req'[q].step \notin Ended, req'[q].todo = req[q].todo
  PROVE  Jobs' = Jobs
<1>1. q \in Working' /\ table' = table
  BY RowsChange DEF Working, Ended
<1>2. Holder(q)' = Holder(q) /\ Want(q)' = Want(q)
  BY <1>1 DEF Holder, Want, Common, Set, Carries
<1>3. Job(q)' = Job(q)
  BY <1>1, <1>2, JobIs
<1> QED
  BY <1>3, JobsMove DEF Jobs

\* The tables none of whose indexes refuses anything promise nothing.
LEMMA NothingShown ==
  ASSUME ~Indexed, table' = table
  PROVE  Shows' = Shows /\ Jobs' = Jobs
<1>1. ~Indexed'
  BY DEF Indexed
<1> QED
  BY <1>1 DEF Shows, Jobs, Job, Closed

\* The same rows show the same.
LEMMA SameShown ==
  ASSUME table' = table, rows' = rows
  PROVE  Shows' = Shows
BY DEF Shows, Indexed, Common, HolderOf, Shown, Reactions, RowsOf

\* Only the first key of the request is shown otherwise after its turn.
LEMMA ShowsMove ==
  ASSUME IInv, NEW q \in Requests, Turn(q), Indexed, NEW h \in Keys, h = Head(req[q].todo),
         NEW me \in Users, me = req[q].user,
         NEW w, Common => HolderOf(h)' = w, ~Common => Shown(me, h)' = w
  PROVE  Shows' = [Shows EXCEPT ![Holder(q)][h] = w]
<1>1. Typed /\ Shape(q) /\ table' = table
  BY RowsChange DEF IInv
<1>2. h = Head(req[q].todo)
  OBVIOUS
<1>3. h \in Keys /\ me \in Users
  OBVIOUS
<1>4. PICK v : v = Holder(q)
  OBVIOUS
<1>5. v \in Users \cup {Everyone} /\ (Common <=> v = Everyone) /\ (~Common => v = me)
  BY <1>3, <1>4, MarksAssumption DEF Holder
<1>6. Kind(table).whose = "all" \/ Kind(table).whose = "user"
  BY <1>1, Kinds DEF Typed
<1>7. \A k \in Keys : k # h => HolderOf(k)' = HolderOf(k) /\ \A u \in Users : Shown(u, k)' = Shown(u, k)
  BY <1>2, OthersStay DEF HolderOf, Shown
<1>8. \A u \in Users, k \in Keys : ~Common /\ u # v => Shown(u, k)' = Shown(u, k)
  BY <1>5, <1>6, OthersStay DEF Shown, Common
<1>9. (Indexed' <=> Indexed) /\ (Common' <=> Common)
  BY <1>1 DEF Indexed, Common
<1>10. \A u \in Users \cup {Everyone} : /\ Shows[u] = [k \in Keys |-> Shows[u][k]]
                                         /\ Shows'[u] = [k \in Keys |-> Shows'[u][k]]
  BY DEF Shows
<1>11. \A u \in Users \cup {Everyone}, k \in Keys :
         /\ Shows[u][k] = IF Common <=> u # Everyone THEN Nothing ELSE IF Common THEN HolderOf(k) ELSE Shown(u, k)
         /\ Shows'[u][k] = IF Common <=> u # Everyone THEN Nothing ELSE IF Common THEN HolderOf(k)' ELSE Shown(u, k)'
  BY <1>9 DEF Shows
<1>12. Shows'[v][h] = w
  <2>1. CASE Common
    BY <1>2, <1>3, <1>5, <1>11, <2>1
  <2>2. CASE ~Common
    <3>1. v \in Users /\ v # Everyone /\ v = me
      BY <1>5, <2>2
    <3>2. Shows'[v][h] = Shown(v, h)'
      BY <1>3, <1>11, <2>2, <3>1
    <3>3. Shown(v, h)' = w
      BY <1>2, <2>2, <3>1
    <3> QED
      BY <3>2, <3>3
  <2> QED
    BY <2>1, <2>2
<1>13. ASSUME NEW u \in Users \cup {Everyone}, NEW k \in Keys, u # v \/ k # h
       PROVE  Shows'[u][k] = Shows[u][k]
  <2>1. CASE Common
    BY <1>5, <1>7, <1>11, <1>13, <2>1
  <2>2. CASE ~Common
    <3>1. CASE u = Everyone
      BY <1>11, <2>2, <3>1
    <3>2. CASE u # Everyone
      <4>1. Shown(u, k)' = Shown(u, k)
        BY <1>7, <1>8, <1>13, <2>2, <3>2
      <4> QED
        BY <1>11, <2>2, <4>1
    <3> QED
      BY <3>1, <3>2
  <2> QED
    BY <2>1, <2>2
<1>14. PICK f : f = [Shows[v] EXCEPT ![h] = w]
  OBVIOUS
<1>15. f = [k \in Keys |-> Shows'[v][k]]
  <2>1. f = [k \in Keys |-> IF k = h THEN w ELSE Shows[v][k]]
    BY <1>5, <1>10, <1>14
  <2>2. \A k \in Keys : Shows'[v][k] = IF k = h THEN w ELSE Shows[v][k]
    BY <1>3, <1>5, <1>12, <1>13
  <2> QED
    BY <2>1, <2>2
<1>16. Shows'[v] = f /\ \A u \in Users \cup {Everyone} : u # v => Shows'[u] = Shows[u]
  <2>1. Shows'[v] = f
    BY <1>5, <1>10, <1>15
  <2>2. ASSUME NEW u \in Users \cup {Everyone}, u # v PROVE Shows'[u] = Shows[u]
    <3>1. Shows'[u] = [k \in Keys |-> Shows'[u][k]] /\ Shows[u] = [k \in Keys |-> Shows[u][k]]
      BY DEF Shows
    <3> QED
      BY <1>13, <2>2, <3>1
  <2> QED
    BY <2>1, <2>2
<1>17. Shows' = [Shows EXCEPT ![v] = f]
  <2>1. Shows' = [u \in Users \cup {Everyone} |-> Shows'[u]] /\ Shows = [u \in Users \cup {Everyone} |-> Shows[u]]
    BY DEF Shows
  <2> QED
    BY <1>5, <1>16, <2>1
<1> QED
  BY <1>2, <1>4, <1>14, <1>17

\* A request that begins is one of the registers'.
LEMMA AskIsOne ==
  ASSUME IInv, Indexed, NEW q \in Requests, AskMoves(q)
  PROVE  AsOne!Ask(q)
<1>1. PICK u \in Users, op \in {"put", "take", "show"}, col \in 1 .. 2, val \in 0 .. 2 :
        \E list \in KeyLists[table] : Begun(q, u, op, col, val, list)
  BY DEF AskMoves
<1>2. PICK list \in KeyLists[table] : Begun(q, u, op, col, val, list)
  BY <1>1
<1>3. /\ rows' = rows /\ table' = table /\ req'[q].user = u /\ req'[q].todo = list
      /\ req'[q].col = col /\ req'[q].val = val /\ req[q].step = "new" /\ q \in Working'
      /\ Turn(q)
  BY <1>2 DEF Begun, Working, Turn
<1>4. Job(q) = Closed("new") /\ Job(q)' = [state |-> "open", user |-> Holder(q)', want |-> Want(q)',
                                            todo |-> Of(req'[q].todo)]
  BY <1>3, JobIs
<1>5. Holder(q)' \in Users \cup {Everyone}
  BY <1>3 DEF Holder
<1>6. Want(q)' \in Value \cup Users \cup {Nothing}
  BY <1>3, Values DEF Want, Set
<1>7. Of(req'[q].todo) \in SUBSET Keys
  BY <1>3, KeyListsAre DEF IInv, Typed
<1>8. Job(q)' \in AsOne!Open
  BY <1>4, <1>5, <1>6, <1>7 DEF AsOne!Open
<1>9. Jobs[q].state = "new"
  BY <1>3, <1>4, JobsMove DEF Closed
<1>10. Jobs'[q] = Job(q)' /\ Jobs' = [Jobs EXCEPT ![q] = Job(q)']
  BY <1>3, JobsMove
<1>11. Shows' = Shows
  BY <1>3, SameShown
<1> QED
  BY <1>8, <1>9, <1>10, <1>11 DEF AsOne!Ask

\* A request that has dealt with a key has set what it wants for it.
LEMMA DealsIsOne ==
  ASSUME IInv, Indexed, NEW q \in Requests, Turn(q), ~AskMoves(q), Deals(q),
         req[q].step \in {"look", "insert", "write", "remove"},
         req[q].step = "remove" => Len(req[q].todo) = 1,
         NEW h \in Keys, h = Head(req[q].todo), NEW me \in Users, me = req[q].user,
         NEW w, w = Want(q), Common => HolderOf(h)' = w, ~Common => Shown(me, h)' = w
  PROVE  AsOne!Apply(q, h)
<1>1. Typed /\ Shape(q) /\ req[q].todo # <<>> /\ q \in Working /\ table' = table
  BY TurnIs, RowsChange DEF IInv, Shape
<1>2. /\ Of(Tail(req[q].todo)) = Of(req[q].todo) \ {h} /\ h \in Of(req[q].todo)
      /\ Len(req[q].todo) \in Nat \ {0}
  BY <1>1, Fields, TailOf DEF Shape
<1>3. Shows' = [Shows EXCEPT ![Holder(q)][h] = Want(q)]
  BY ShowsMove
<1>4. Job(q) = [state |-> "open", user |-> Holder(q), want |-> Want(q), todo |-> Of(req[q].todo)]
  BY <1>1, JobIs
<1>5. Jobs[q] = Job(q) /\ Jobs' = [Jobs EXCEPT ![q] = Job(q)']
  BY JobsMove
<1>6. \/ Job(q)' = [Job(q) EXCEPT !.todo = @ \ {h}]
      \/ Job(q).todo = {h} /\ Job(q)' = AsOne!Closed("ok")
  <2>1. CASE Carries(q) /\ req'[q].todo = Tail(req[q].todo) /\ req'[q].step \in {"look", "gather", "announce", "tell"}
    <3>1. q \in Working' /\ Holder(q)' = Holder(q) /\ Want(q)' = Want(q)
      BY <1>1, <2>1 DEF Working, Holder, Want, Common, Set, Carries
    <3>2. Job(q)' = [state |-> "open", user |-> Holder(q), want |-> Want(q), todo |-> Of(req'[q].todo)]
      BY <1>1, <3>1, JobIs
    <3>3. Of(req'[q].todo) = Of(req[q].todo) \ {h}
      BY <1>2, <2>1
    <3>4. PICK a, b, c : a = Holder(q) /\ b = Want(q) /\ c = Of(req[q].todo)
      OBVIOUS
    <3>5. /\ Job(q) = [state |-> "open", user |-> a, want |-> b, todo |-> c]
          /\ Job(q)' = [state |-> "open", user |-> a, want |-> b, todo |-> c \ {h}]
      BY <1>4, <3>2, <3>3, <3>4
    <3>6. [[state |-> "open", user |-> a, want |-> b, todo |-> c] EXCEPT !.todo = @ \ {h}]
            = [state |-> "open", user |-> a, want |-> b, todo |-> c \ {h}]
      OBVIOUS
    <3> QED
      BY <3>5, <3>6
  <2>2. CASE Len(req[q].todo) = 1 /\ Answered(q, "ok")
    <3>1. q \notin Working' /\ req'[q].step = "ok"
      BY <2>2, TurnIs, IdleIs DEF Ends, Answered, Steps
    <3>2. Job(q)' = Closed("ok")
      BY <1>1, <3>1, JobIs
    <3>3. Of(req[q].todo) = {h}
      BY <1>1, <1>2, <2>2, Fields DEF Of
    <3> QED
      BY <1>4, <3>2, <3>3 DEF Closed, AsOne!Closed
  <2> QED
    BY <2>1, <2>2 DEF Deals
<1>7. Jobs[q].state = "open" /\ h \in Jobs[q].todo /\ Jobs[q].user = Holder(q) /\ Jobs[q].want = Want(q)
  BY <1>2, <1>4, <1>5
<1>8. Shows' = [Shows EXCEPT ![Jobs[q].user][h] = Jobs[q].want]
  BY <1>3, <1>7
<1>9. \/ Jobs' = [Jobs EXCEPT ![q].todo = @ \ {h}]
      \/ Jobs[q].todo = {h} /\ Jobs' = [Jobs EXCEPT ![q] = AsOne!Closed("ok")]
  BY <1>5, <1>6
<1> QED
  BY <1>7, <1>8, <1>9 DEF AsOne!Apply

\* A request that is answered with the rows as they are has failed, with keys left, or
\* succeeded, with none.
LEMMA AnswerIsOne ==
  ASSUME IInv, Indexed, NEW q \in Requests, Turn(q), ~AskMoves(q), rows' = rows
  PROVE  /\ Answered(q, "failed") /\ req[q].todo # <<>> => AsOne!Fail(q)
         /\ Answered(q, "ok") /\ req[q].todo = <<>> => AsOne!Succeed(q)
<1>1. Typed /\ Shape(q) /\ q \in Working /\ table' = table
  BY TurnIs, RowsChange DEF IInv
<1>2. Job(q) = [state |-> "open", user |-> Holder(q), want |-> Want(q), todo |-> Of(req[q].todo)]
  BY <1>1, JobIs
<1>3. Jobs[q] = Job(q) /\ Jobs' = [Jobs EXCEPT ![q] = Job(q)'] /\ Shows' = Shows
  BY <1>1, JobsMove, SameShown
<1>4. ASSUME NEW s \in {"ok", "failed"}, Answered(q, s) PROVE Job(q)' = AsOne!Closed(s)
  <2>1. q \notin Working' /\ req'[q].step = s
    BY <1>4, TurnIs, IdleIs DEF Ends, Answered, Steps
  <2> QED
    BY <1>1, <2>1, JobIs DEF Closed, AsOne!Closed
<1>5. req[q].todo # <<>> => Of(req[q].todo) # {}
  BY <1>1, Fields, TailOf DEF Shape
<1>6. req[q].todo = <<>> => Of(req[q].todo) = {}
  BY DEF Of
<1>7. Jobs[q].state = "open" /\ Jobs[q].todo = Of(req[q].todo)
  BY <1>2, <1>3
<1>8. Answered(q, "failed") /\ req[q].todo # <<>> => AsOne!Fail(q)
  BY <1>3, <1>4, <1>5, <1>7 DEF AsOne!Fail
<1>9. Answered(q, "ok") /\ req[q].todo = <<>> => AsOne!Succeed(q)
  BY <1>3, <1>4, <1>6, <1>7 DEF AsOne!Succeed
<1> QED
  BY <1>8, <1>9

\* What a step of a request is to the registers.
OneOf(q) ==
  \/ Shows' = Shows /\ Jobs' = Jobs
  \/ AsOne!Ask(q) \/ AsOne!Succeed(q) \/ AsOne!Fail(q)
  \/ \E k \in Keys : AsOne!Apply(q, k)

\* The first key of a request, and its user.
LEMMA FirstAndUser ==
  ASSUME IInv, NEW q \in Requests, q \in Working, req[q].todo # <<>>
  PROVE  /\ \E h \in Keys : h = Head(req[q].todo)
         /\ \E me \in Users : me = req[q].user
BY Fields, TailOf DEF IInv, Shape, Working

\* Values with the same columns are the same.
LEMMA SameValue ==
  ASSUME NEW v \in Value, NEW w \in Value, v[1] = w[1], v[2] = w[2]
  PROVE  v = w
<1>1. \A i \in 1 .. 2 : i = 1 \/ i = 2
  OBVIOUS
<1>2. \A i \in 1 .. 2 : v[i] = w[i]
  BY <1>1
<1> QED
  BY <1>2 DEF Value

\* An indexed table has one column, and is looked through by user unless its rows are
\* everyone's, of which there is one to a key.
LEMMA OneColumn ==
  ASSUME IInv, Indexed, NEW q \in Requests
  PROVE  /\ table \in Tables \ {"theme", "settings", "pin"} /\ req[q].col = 1 /\ ~Bare(q)
         /\ IF Common THEN Kind(table).whose = "all" /\ Kind(table).index = "key"
            ELSE Kind(table).whose = "user"
         /\ Kind(table).index \in {"key", "userAndKey"}
         /\ \A v \in Value : v[2] = 0 => Set(q, v) = Set(q, Default)
<1>1. Typed /\ Shape(q) /\ table \in Tables
  BY DEF IInv, Typed
<1>2. table \in Tables \ {"theme", "settings", "pin"} /\ Kind(table).index \in {"key", "userAndKey"}
  BY <1>1, Kinds DEF Indexed
<1>3. req[q].col = 1 /\ ~Bare(q) /\ req[q].val \in 0 .. 2
  <2>1. req[q].col \in 1 .. 2 /\ req[q].val \in 0 .. 2
    BY <1>1, Fields
  <2>2. req[q].col # 2 /\ req[q].op # "show"
    BY <1>1, <1>2 DEF Shape
  <2> QED
    BY <1>2, <2>1, <2>2 DEF Bare
<1>4. IF Common THEN Kind(table).whose = "all" /\ Kind(table).index = "key"
      ELSE Kind(table).whose = "user"
  BY <1>1, <1>2, Kinds DEF Common
<1>5. ASSUME NEW v \in Value, v[2] = 0 PROVE Set(q, v) = Set(q, Default)
  <2>1. \A x \in 0 .. 2 : [v EXCEPT ![1] = x] = [Default EXCEPT ![1] = x]
    <3>1. ASSUME NEW x \in 0 .. 2 PROVE [v EXCEPT ![1] = x] = [Default EXCEPT ![1] = x]
      <4>1. PICK f, g : f = [v EXCEPT ![1] = x] /\ g = [Default EXCEPT ![1] = x]
        OBVIOUS
      <4>2. f \in Value /\ g \in Value
        BY <4>1, Values DEF Value
      <4>3. f[1] = x /\ g[1] = x /\ f[2] = 0 /\ g[2] = 0
        BY <1>5, <4>1, Values DEF Value
      <4> QED
        BY <4>1, <4>2, <4>3, SameValue
    <3> QED
      BY <3>1
  <2> QED
    BY <1>3, <2>1 DEF Set
<1> QED
  BY <1>2, <1>3, <1>4, <1>5

\* A row that is found as it should be needs no write.
LEMMA LookIsOne ==
  ASSUME IInv, Indexed, NEW q \in Requests, LookMoves(q)
  PROVE  OneOf(q)
<1>1. /\ Typed /\ Shape(q) /\ Sound /\ req[q].step = "look" /\ rows' = rows /\ req[q].todo # <<>>
      /\ req[q].op \notin {"take", "show"} /\ Turn(q) /\ ~AskMoves(q) /\ table \in Tables /\ q \in Working
  BY OneColumn DEF IInv, LookMoves, Shape, Turn, AskMoves, Begun, Typed, Working
<1>2. Shows' = Shows /\ table' = table
  BY <1>1, RowsChange, SameShown
<1>3. CASE Carries(q) /\ req'[q].step \in {"insert", "write"} /\ req'[q].todo = req[q].todo
  BY <1>1, <1>2, <1>3, JobStays DEF OneOf, Ended
<1>4. CASE Looked(q) # {} /\ Kind(table).found = "keep" /\ Deals(q)
  <2>1. PICK h \in Keys : h = Head(req[q].todo)
    BY <1>1, FirstAndUser
  <2>2. PICK me \in Users : me = req[q].user
    BY <1>1, FirstAndUser
  <2>3. table \in Kept /\ ~Common /\ Kind(table).whose = "user"
    BY <1>1, <1>4, Kinds DEF Kept, Common
  <2>4. Looked(q) = RowsOf(me, h) /\ RowsOf(me, h)' = RowsOf(me, h)
    BY <1>1, <2>1, <2>2, <2>3 DEF Looked, RowsOf
  <2>5. PICK x \in Row : x = First(RowsOf(me, h))
    BY <1>1, <1>4, <2>4, FoundIs
  <2>6. x \in rows /\ x.val \in Value
    BY <1>1, <1>4, <2>4, <2>5, FoundIs DEF Row
  <2>7. x.val[1] = 1 /\ x.val[2] = 0
    BY <1>1, <2>3, <2>6 DEF Sound, Copies, Kept
  <2>8. x.val = [Default EXCEPT ![1] = 1]
    <3>1. PICK g : g = [Default EXCEPT ![1] = 1]
      OBVIOUS
    <3>2. g \in Value /\ g[1] = 1 /\ g[2] = 0
      BY <3>1, Values DEF Value
    <3> QED
      BY <2>6, <2>7, <3>1, <3>2, SameValue
  <2>9. Want(q) = x.val
    BY <1>1, <2>3, <2>8, OneColumn DEF Want, Set, Shape
  <2>10. Shown(me, h)' = x.val
    BY <1>4, <2>4, <2>5 DEF Shown
  <2>11. AsOne!Apply(q, h)
    BY <1>1, <1>4, <2>1, <2>2, <2>3, <2>9, <2>10, DealsIsOne
  <2> QED
    BY <2>11 DEF OneOf
<1> QED
  BY <1>1, <1>3, <1>4 DEF LookMoves

\* A row that is inserted is the only one, and one that is refused changes nothing.
LEMMA InsertIsOne ==
  ASSUME IInv, Indexed, NEW q \in Requests, InsertMoves(q)
  PROVE  OneOf(q)
<1>1. /\ Typed /\ Shape(q) /\ Sound /\ req[q].step = "insert" /\ req[q].todo # <<>>
      /\ req[q].op \notin {"take", "show"} /\ Turn(q) /\ ~AskMoves(q) /\ table \in Tables /\ q \in Working
  BY OneColumn DEF IInv, InsertMoves, Shape, Turn, AskMoves, Begun, Typed, Working
<1>2. CASE rows' = rows /\ Answered(q, "failed")
  BY <1>1, <1>2, AnswerIsOne DEF OneOf
<1>3. CASE ~Refused(NewRow(q)) /\ rows' = rows \cup {NewRow(q)} /\ Deals(q)
  <2>1. PICK h \in Keys : h = Head(req[q].todo)
    BY <1>1, FirstAndUser
  <2>2. PICK me \in Users : me = req[q].user
    BY <1>1, FirstAndUser
  <2>3. PICK new \in Row : new = NewRow(q)
    BY <1>1, NewRowIs
  <2>4. new.id = q /\ new.key = h /\ new.user = me /\ new.val = Set(q, Default)
    BY <2>1, <2>2, <2>3, OneColumn DEF NewRow
  <2>5. \A x \in rows : ~(x.id = q /\ x.key = h)
    <3>1. h \in Open(q)
      BY <1>1, <2>1, Fields, TailOf DEF Open, Shape
    <3> QED
      BY <1>1, <3>1 DEF Sound, Copies
  <2>6. ~Refused(new)
    BY <1>3, <2>3
  <2>7. Common => Reactions(h)' = {new}
    <3>1. Common => \A x \in rows : x.key # h
      BY <2>4, <2>5, <2>6, OneColumn DEF Refused
    <3> QED
      BY <1>3, <2>3, <2>4, <3>1 DEF Reactions
  <2>8. ~Common => RowsOf(me, h)' = {new}
    <3>1. ~Common => \A x \in rows : ~(x.key = h /\ x.user = me)
      BY <2>4, <2>5, <2>6, OneColumn DEF Refused
    <3> QED
      BY <1>3, <2>3, <2>4, <3>1 DEF RowsOf
  <2>9. /\ Common => HolderOf(h)' = me
        /\ ~Common => Shown(me, h)' = Set(q, Default)
    BY <2>4, <2>7, <2>8, FirstOfOne DEF HolderOf, Shown
  <2>10. PICK w : w = Want(q)
    OBVIOUS
  <2>11. w = IF Common THEN me ELSE Set(q, Default)
    BY <1>1, <2>2, <2>10 DEF Want
  <2>12. AsOne!Apply(q, h)
    BY <1>1, <1>3, <2>1, <2>2, <2>9, <2>10, <2>11, DealsIsOne
  <2> QED
    BY <2>12 DEF OneOf
<1> QED
  BY <1>2, <1>3, OneColumn DEF InsertMoves

\* A row that is written is the only one.
LEMMA WriteIsOne ==
  ASSUME IInv, Indexed, NEW q \in Requests, WriteMoves(q)
  PROVE  OneOf(q)
<1>1. /\ Typed /\ Shape(q) /\ Sound /\ req[q].step = "write" /\ req[q].todo # <<>>
      /\ req[q].op \notin {"take", "show"} /\ Turn(q) /\ ~AskMoves(q) /\ table \in Tables /\ q \in Working
      /\ Kind(table).found = "save"
  <2>1. /\ Typed /\ Shape(q) /\ Sound /\ req[q].step = "write" /\ req[q].todo # <<>>
        /\ req[q].op \notin {"take", "show"} /\ Turn(q) /\ ~AskMoves(q) /\ table \in Tables /\ q \in Working
    BY OneColumn DEF IInv, WriteMoves, Shape, Turn, AskMoves, Begun, Typed, Working
  <2>2. table \in {"reaction", "theme", "token", "senderKey", "settings"} /\ table \notin {"settings"}
    BY <2>1, OneColumn DEF Shape
  <2> QED
    BY <2>1, <2>2, Kinds
<1>2. CASE rows' = rows /\ Answered(q, "failed")
  BY <1>1, <1>2, AnswerIsOne DEF OneOf
<1>3. CASE (\A r \in Written(q) : ~Refused(r)) /\ rows' = (rows \ Same(q)) \cup Written(q) /\ Deals(q)
  <2>1. PICK h \in Keys : h = Head(req[q].todo)
    BY <1>1, FirstAndUser
  <2>2. PICK me \in Users : me = req[q].user
    BY <1>1, FirstAndUser
  <2>3. PICK new \in Row : Written(q) = {new}
    BY <1>1, WrittenIs
  <2>4. PICK held \in Row : held = req[q].row
    BY <1>1 DEF Shape
  <2>5. new.id = held.id /\ new.key = h /\ held.key = h /\ new.user = me
    BY <1>1, <2>1, <2>2, <2>3, <2>4, WrittenIs
  <2>6. new.val = Set(q, Default)
    <3>1. PICK y \in Copies : new.val = Set(q, y.val) /\ y.val \in Value
      BY <1>1, <2>3, WrittenIs
    <3>2. y.val[2] = 0
      BY <1>1, <3>1, OneColumn DEF Sound
    <3> QED
      BY <3>1, <3>2, OneColumn
  <2>7. ~Refused(new) /\ rows' = (rows \ Same(q)) \cup {new}
    BY <1>3, <2>3
  <2>8. \A x \in rows \ Same(q) : x.key = h => x.id # new.id
    BY <2>4, <2>5 DEF Same
  <2>9. Common => Reactions(h)' = {new}
    <3>1. Common => \A x \in rows \ Same(q) : x.key # h
      BY <2>5, <2>7, <2>8, OneColumn DEF Refused
    <3> QED
      BY <2>5, <2>7, <3>1 DEF Reactions
  <2>10. ~Common => RowsOf(me, h)' = {new}
    <3>1. ~Common => \A x \in rows \ Same(q) : ~(x.key = h /\ x.user = me)
      BY <2>5, <2>7, <2>8, OneColumn DEF Refused
    <3> QED
      BY <2>5, <2>7, <3>1 DEF RowsOf
  <2>11. /\ Common => HolderOf(h)' = me
         /\ ~Common => Shown(me, h)' = Set(q, Default)
    BY <2>5, <2>6, <2>9, <2>10, FirstOfOne DEF HolderOf, Shown
  <2>12. PICK w : w = Want(q)
    OBVIOUS
  <2>13. w = IF Common THEN me ELSE Set(q, Default)
    BY <1>1, <2>2, <2>12 DEF Want
  <2>14. AsOne!Apply(q, h)
    BY <1>1, <1>3, <2>1, <2>2, <2>11, <2>12, <2>13, DealsIsOne
  <2> QED
    BY <2>14 DEF OneOf
<1> QED
  BY <1>2, <1>3 DEF WriteMoves

\* Nothing is left of what is deleted.
LEMMA RemoveIsOne ==
  ASSUME IInv, Indexed, NEW q \in Requests, RemoveMoves(q)
  PROVE  OneOf(q)
<1>1. /\ Typed /\ Shape(q) /\ req[q].step = "remove" /\ req[q].todo # <<>> /\ req[q].op = "take"
      /\ Turn(q) /\ ~AskMoves(q) /\ q \in Working /\ Deals(q) /\ rows' = rows \ Looked(q)
      /\ Len(req[q].todo) = 1
  BY OneToRemove DEF IInv, RemoveMoves, Shape, Turn, AskMoves, Begun, Working
<1>2. PICK h \in Keys : h = Head(req[q].todo)
  BY <1>1, FirstAndUser
<1>3. PICK me \in Users : me = req[q].user
  BY <1>1, FirstAndUser
<1>4. Common => Reactions(h)' = {}
  BY <1>1, <1>2, OneColumn DEF Reactions, Looked
<1>5. ~Common => RowsOf(me, h)' = {}
  BY <1>1, <1>2, <1>3 DEF RowsOf, Looked
<1>6. Want(q) = Nothing /\ (Common => HolderOf(h)' = Nothing) /\ (~Common => Shown(me, h)' = Nothing)
  BY <1>1, <1>4, <1>5 DEF Want, HolderOf, Shown
<1>7. AsOne!Apply(q, h)
  BY <1>1, <1>2, <1>3, <1>6, DealsIsOne
<1> QED
  BY <1>7 DEF OneOf

\* What others are told is none of the registers' business.
LEMMA RestIsOne ==
  ASSUME IInv, Indexed, NEW q \in Requests, GatherMoves(q) \/ TellMoves(q) \/ AnnounceMoves(q)
  PROVE  OneOf(q)
<1>1. /\ Typed /\ Shape(q) /\ rows' = rows /\ req[q].todo = <<>>
      /\ Turn(q) /\ ~AskMoves(q) /\ q \in Working
  <2>1. /\ Typed /\ Shape(q) /\ rows' = rows /\ req[q].step \in {"gather", "tell", "announce"}
        /\ Turn(q)
    BY DEF IInv, GatherMoves, TellMoves, AnnounceMoves, Turn
  <2>2. ~AskMoves(q) /\ q \in Working
    BY <2>1 DEF AskMoves, Begun, Working
  <2>3. table # "pin"
    BY OneColumn
  <2>4. req[q].todo = <<>>
    BY <2>1, <2>3 DEF Shape
  <2> QED
    BY <2>1, <2>2, <2>4
<1>2. CASE GatherMoves(q)
  <2>1. Jobs' = Jobs
    BY <1>1, <1>2, JobStays DEF GatherMoves, Ended
  <2>2. Shows' = Shows
    BY <1>1, RowsChange, SameShown
  <2> QED
    BY <2>1, <2>2 DEF OneOf
<1>3. CASE TellMoves(q) \/ AnnounceMoves(q)
  BY <1>1, <1>3, AnswerIsOne DEF OneOf, TellMoves, AnnounceMoves
<1> QED
  BY <1>2, <1>3

\* Every step is one of the registers', or none.
LEMMA OneStep == IInv /\ [Next]_vars => [AsOne!Next]_(AsOne!vars)
<1> SUFFICES ASSUME IInv, [Next]_vars PROVE [AsOne!Next]_(AsOne!vars)
  OBVIOUS
<1>1. CASE UNCHANGED vars
  <2>1. table' = table /\ rows' = rows /\ req' = req
    BY <1>1 DEF vars
  <2>2. Shows' = Shows /\ Jobs' = Jobs
    BY <2>1, SameShown DEF Jobs, Job, Indexed, Common, Set
  <2> QED
    BY <2>2 DEF AsOne!vars
<1>2. ASSUME NEW q \in Requests, Turn(q) PROVE [AsOne!Next]_(AsOne!vars)
  <2>1. CASE ~Indexed
    <3>1. Shows' = Shows /\ Jobs' = Jobs
      BY <1>2, <2>1, RowsChange, NothingShown
    <3> QED
      BY <3>1 DEF AsOne!vars
  <2>2. CASE Indexed
    <3>1. ~ClearMoves(q)
      BY <2>2, OneColumn DEF ClearMoves, IInv, Shape
    <3>2. OneOf(q)
      <4>1. CASE AskMoves(q)
        BY <2>2, <4>1, AskIsOne DEF OneOf
      <4>2. CASE ~AskMoves(q)
        BY <1>2, <2>2, <3>1, <4>2, LookIsOne, InsertIsOne, WriteIsOne, RemoveIsOne, RestIsOne DEF Turn
      <4> QED
        BY <4>1, <4>2
    <3> QED
      BY <3>2 DEF OneOf, AsOne!Next, AsOne!vars
  <2> QED
    BY <2>1, <2>2
<1> QED
  BY <1>1, <1>2, Turns

\* At first nobody is shown anything, and no request has begun.
LEMMA OneInit == Init => AsOne!Init
<1> SUFFICES ASSUME Init PROVE AsOne!Init
  OBVIOUS
<1>1. \A q \in Requests : req[q].step = "new"
  BY IdleIs DEF Init, Steps
<1>2. \A q \in Requests : Job(q) = AsOne!Closed("new")
  BY <1>1 DEF Job, Closed, AsOne!Closed
<1>3. \A k \in Keys : HolderOf(k) = Nothing /\ \A u \in Users : Shown(u, k) = Nothing
  BY DEF Init, Shown, HolderOf, RowsOf, Reactions
<1>4. ASSUME NEW u \in Users \cup {Everyone}, NEW k \in Keys PROVE Shows[u][k] = Nothing
  <2>1. CASE u = Everyone
    <3>1. CASE Indexed /\ Common
      BY <1>3, <2>1, <3>1 DEF Shows
    <3>2. CASE ~(Indexed /\ Common)
      BY <2>1, <3>2 DEF Shows
    <3> QED
      BY <3>1, <3>2
  <2>2. CASE u # Everyone
    BY <1>3, <2>2 DEF Shows
  <2> QED
    BY <2>1, <2>2
<1>5. Shows = [u \in Users \cup {Everyone} |-> [k \in Keys |-> Shows[u][k]]]
  BY DEF Shows
<1>6. Shows = [u \in Users \cup {Everyone} |-> [k \in Keys |-> Nothing]]
  BY <1>4, <1>5
<1>7. Jobs = [q \in Requests |-> AsOne!Closed("new")]
  BY <1>2 DEF Jobs
<1> QED
  BY <1>6, <1>7 DEF AsOne!Init

\* Where an index covers what is looked for, looking and then writing is as good as
\* setting each key at one moment (models/reaction.go, models/device_token.go).
THEOREM MarksImplementRegisters == Spec => AtOneMoment
<1>1. IInv /\ [Next]_vars => [AsOne!Next]_(AsOne!vars)
  BY OneStep
<1> QED
  BY <1>1, OneInit, MarkInvariance, PTL DEF Spec, AtOneMoment, AsOne!Spec
=============================================================================
