--------------------------- MODULE PreKeysProofs ---------------------------
(***************************************************************************)
(* Proofs about the key store, for any devices, key ids, numbers of requests *)
(* and bounds: one-time prekeys are used up in the order of their upload,    *)
(* the parts of a bundle are in order, and a device has all of its keys or   *)
(* none.                                                                     *)
(***************************************************************************)
EXTENDS PreKeys, FiniteSetTheorems, WellFoundedInduction, TLAPS

USE PreKeysAssumption

----------------------------------------------------------------------------
(* A batch of rows.                                                         *)

Below(ks, k) == {j \in ks : j < k}

\* The keys of a batch are counted from its least one.
LEMMA BelowCounts ==
  ASSUME NEW ks \in SUBSET KeyIds, NEW k \in ks
  PROVE  /\ Cardinality(Below(ks, k)) \in Nat
         /\ Cardinality(Below(ks, k)) < Cardinality(ks)
         /\ Cardinality(ks) \in Nat
<1>1. IsFiniteSet(ks)
  BY FS_Subset
<1>2. Below(ks, k) \in SUBSET ks /\ k \notin Below(ks, k)
  BY DEF Below
<1>3. IsFiniteSet(Below(ks, k)) /\ Cardinality(Below(ks, k)) <= Cardinality(ks)
      /\ Cardinality(Below(ks, k)) # Cardinality(ks)
  BY <1>1, <1>2, FS_Subset
<1> QED
  BY <1>1, <1>3, FS_CardinalityType

\* A greater key comes later.
LEMMA BelowGrows ==
  ASSUME NEW ks \in SUBSET KeyIds, NEW j \in ks, NEW k \in ks, j < k
  PROVE  Cardinality(Below(ks, j)) < Cardinality(Below(ks, k))
<1> DEFINE low == Below(ks, j)  high == Below(ks, k)
<1>1. IsFiniteSet(ks)
  BY FS_Subset
<1>2. j \in Nat /\ k \in Nat /\ \A i \in ks : i \in Nat
  OBVIOUS
<1>3. low \in SUBSET high /\ j \in high /\ j \notin low /\ high \in SUBSET ks
  <2>1. \A i \in ks : i < j => i < k
    BY <1>2
  <2>2. ~(j < j)
    BY <1>2
  <2> QED
    BY <2>1, <2>2, Zenon DEF Below
<1>4. IsFiniteSet(high)
  BY <1>1, <1>3, FS_Subset
<1>5. IsFiniteSet(low) /\ Cardinality(low) <= Cardinality(high)
      /\ Cardinality(low) # Cardinality(high)
  BY <1>3, <1>4, FS_Subset
<1>6. Cardinality(low) \in Nat /\ Cardinality(high) \in Nat
  BY <1>4, <1>5, FS_CardinalityType
<1> QED
  BY <1>5, <1>6

\* The rows of a batch have the next numbers, one each.
LEMMA BatchIsFresh ==
  ASSUME NEW d \in Devices, NEW ks \in SUBSET KeyIds, next \in Nat
  PROVE  /\ \A r \in Batch(d, ks) : /\ r.id \in Nat /\ r.dev = d /\ r.key \in ks
                                    /\ r.id >= next /\ r.id < next + Cardinality(ks)
                                    /\ r = [id |-> r.id, dev |-> d, key |-> r.key]
         /\ \A r, s \in Batch(d, ks) : r.id = s.id \/ r.key = s.key => r = s
<1> DEFINE row(k) == [id |-> next + Cardinality(Below(ks, k)), dev |-> d, key |-> k]
<1>1. Batch(d, ks) = {row(k) : k \in ks}
  BY DEF Batch, Below
<1>2. \A k \in ks : /\ row(k).id = next + Cardinality(Below(ks, k))
                    /\ row(k).dev = d /\ row(k).key = k
  OBVIOUS
<1>3. \A k \in ks : next + Cardinality(Below(ks, k)) \in Nat
                    /\ next + Cardinality(Below(ks, k)) >= next
                    /\ next + Cardinality(Below(ks, k)) < next + Cardinality(ks)
  <2> TAKE k \in ks
  <2> QED
    BY BelowCounts
<1>4. ASSUME NEW j \in ks, NEW k \in ks, row(j).id = row(k).id PROVE j = k
  <2>1. /\ j \in Nat /\ k \in Nat
        /\ Cardinality(Below(ks, j)) \in Nat /\ Cardinality(Below(ks, k)) \in Nat
    BY BelowCounts
  <2>2. Cardinality(Below(ks, j)) = Cardinality(Below(ks, k))
    BY <2>1, <1>2, <1>4
  <2>3. ~(j < k) /\ ~(k < j)
    BY <2>1, <2>2, BelowGrows
  <2> QED
    BY <2>1, <2>3
<1> HIDE DEF row
<1>5. ASSUME NEW r \in Batch(d, ks)
      PROVE  /\ r.id \in Nat /\ r.dev = d /\ r.key \in ks
             /\ r.id >= next /\ r.id < next + Cardinality(ks)
             /\ r = [id |-> r.id, dev |-> d, key |-> r.key]
  <2>1. PICK k \in ks : r = row(k)
    BY <1>1
  <2>2. r = [id |-> r.id, dev |-> d, key |-> r.key]
    BY <2>1 DEF row
  <2> QED
    BY <2>1, <2>2, <1>2, <1>3
<1>6. ASSUME NEW r \in Batch(d, ks), NEW s \in Batch(d, ks), r.id = s.id \/ r.key = s.key
      PROVE  r = s
  <2>1. PICK j \in ks : r = row(j)
    BY <1>1
  <2>2. PICK k \in ks : s = row(k)
    BY <1>1
  <2>3. j = k
    BY <2>1, <2>2, <1>2, <1>4, <1>6
  <2> QED
    BY <2>1, <2>2, <2>3
<1> QED
  BY <1>5, <1>6

\* A set of numbers that is not empty has a least one.
LEMMA LeastIsIn ==
  ASSUME NEW S \in SUBSET Nat, S # {}
  PROVE  Min(S) \in S /\ \A i \in S : Min(S) <= i
<1>1. \E x \in S : \A y \in S : ~(<<y, x>> \in OpToRel(<, Nat))
  BY NatLessThanWellFounded, WFMin
<1>2. \A x, y \in Nat : y < x => <<y, x>> \in OpToRel(<, Nat)
  BY DEF OpToRel
<1>3. PICK x \in S : \A y \in S : ~(<<y, x>> \in OpToRel(<, Nat))
  BY <1>1
<1>4. \A y \in S : ~(y < x)
  BY <1>2, <1>3
<1>5. \A y \in S : x <= y
  BY <1>4
<1> QED
  BY <1>5 DEF Min

----------------------------------------------------------------------------
(* The invariant.                                                           *)

OwnerState == [step : {"idle", "upload", "rows", "signed", "identity", "device"},
               dev : Devices \cup {NoDevice}, left : SUBSET KeyIds]
ReqState   == [step : {"idle", "signed", "find", "delete"}, dev : Devices \cup {NoDevice},
               ident : 0..MaxGen, sign : 0..MaxGen, row : Row \cup {NoRow}]

TablesTyped ==
  /\ device \subseteq Devices
  /\ gen \in [Devices -> 0..MaxGen]
  /\ identity \in [Devices -> 0..MaxGen] /\ signed \in [Devices -> 0..MaxGen]
  /\ rows \subseteq Row /\ next \in 1..MaxRows + 1
  /\ given \in [1..MaxRows -> 0..2]

OwnersTyped ==
  /\ owner \in [Owners -> OwnerState]
  /\ \A o \in Owners : /\ owner[o].step = "idle" => owner[o] = IdleO
                       /\ owner[o].step # "idle" => owner[o].dev \in Devices
                       /\ owner[o].step = "upload" => owner[o].left # {}

ReqsTyped ==
  /\ req \in [Requesters -> ReqState]
  /\ \A q \in Requesters : /\ req[q].step # "idle" => req[q].dev \in Devices
                           /\ req[q].step = "delete" => req[q].row \in Row

\* A number, and a key id, is one row's; the numbers from next on are unused.
Numbered ==
  /\ \A r \in rows : r.id < next
  /\ \A r, s \in rows : r.id = s.id \/ r.key = s.key => r = s
  /\ \A i \in 1..MaxRows : i >= next => given[i] = 0

\* A row that a bundle request holds is still the one of its number, if it is
\* there at all: another request may have deleted it.
HeldIsRow ==
  \A q \in Requesters : req[q].step = "delete" =>
    /\ req[q].row.id < next
    /\ \A r \in rows : r.id = req[q].row.id => r = req[q].row

\* The long-term keys are those of the last registration or gone, and a bundle
\* request has read them in order.
Latest ==
  /\ \A d \in Devices : identity[d] \in {0, gen[d]} /\ signed[d] \in {0, gen[d]}
  /\ \A q \in Requesters :
       /\ req[q].step # "idle" => req[q].ident <= gen[req[q].dev]
       /\ req[q].step \in {"find", "delete"} =>
            req[q].ident <= req[q].sign /\ req[q].sign <= gen[req[q].dev]

IInv == /\ TablesTyped /\ OwnersTyped /\ ReqsTyped
        /\ Numbered /\ HeldIsRow /\ UsedUpInOrder /\ Latest

\* The empty store satisfies the invariant.
LEMMA InitInv == Init => IInv
<1> SUFFICES ASSUME Init PROVE IInv
  OBVIOUS
<1>1. 0 \in 0..MaxGen /\ 0 \in 0..2 /\ 1 \in 1..MaxRows + 1
  OBVIOUS
<1>2. TablesTyped
  BY <1>1 DEF Init, TablesTyped
<1>3. OwnersTyped
  BY DEF Init, OwnersTyped, OwnerState, IdleO
<1>4. ReqsTyped
  BY <1>1 DEF Init, ReqsTyped, ReqState, IdleR
<1>5. Numbered
  BY DEF Init, Numbered
<1>6. HeldIsRow /\ UsedUpInOrder /\ Latest
  BY <1>1 DEF Init, HeldIsRow, UsedUpInOrder, Latest, IdleR
<1> QED
  BY <1>2, <1>3, <1>4, <1>5, <1>6 DEF IInv

----------------------------------------------------------------------------
\* Rows come from batches: an insertion keeps what is said about rows.
LEMMA Inserted ==
  ASSUME IInv, NEW d \in Devices, NEW ks \in SUBSET KeyIds,
         next + Cardinality(ks) <= MaxRows + 1, \A k \in ks : ~Taken(k),
         rows' = rows \cup Batch(d, ks), next' = next + Cardinality(ks),
         UNCHANGED <<req, given>>
  PROVE  /\ rows' \subseteq Row /\ next' \in 1..MaxRows + 1
         /\ Numbered' /\ HeldIsRow' /\ UsedUpInOrder'
<1> DEFINE new == Batch(d, ks)
<1>1. next \in 1..MaxRows + 1 /\ rows \subseteq Row /\ Cardinality(ks) \in Nat
      /\ given \in [1..MaxRows -> 0..2]
  BY FS_Subset, FS_CardinalityType DEF IInv, TablesTyped
<1>2. /\ \A r \in new : /\ r.id \in Nat /\ r.dev = d /\ r.key \in ks
                        /\ r.id >= next /\ r.id < next + Cardinality(ks)
                        /\ r = [id |-> r.id, dev |-> d, key |-> r.key]
      /\ \A r, s \in new : r.id = s.id \/ r.key = s.key => r = s
  BY <1>1, BatchIsFresh
<1> HIDE DEF new
<1>3. next' \in 1..MaxRows + 1
  BY <1>1
<1>4. \A r \in new : r.id \in 1..MaxRows
  BY <1>1, <1>2
<1>5. \A r \in new : r \in Row
  BY <1>2, <1>4 DEF Row
<1>6. \A r \in rows : r.id \in 1..MaxRows /\ r.id < next /\ r.dev \in Devices /\ r.key \in KeyIds
  BY <1>1 DEF IInv, Numbered, Row
<1>7. rows' = rows \cup new
  BY DEF new
<1>8. \A r \in rows, s \in new : r.id # s.id /\ r.key # s.key
  BY <1>1, <1>2, <1>6 DEF Taken
<1>9. Numbered'
  <2>1. \A r \in rows' : r.id < next'
    BY <1>1, <1>2, <1>6, <1>7
  <2>2. \A r, s \in rows' : r.id = s.id \/ r.key = s.key => r = s
    BY <1>2, <1>7, <1>8 DEF IInv, Numbered
  <2>3. \A i \in 1..MaxRows : i >= next' => given'[i] = 0
    BY <1>1 DEF IInv, Numbered
  <2> QED
    BY <2>1, <2>2, <2>3 DEF Numbered
<1>10. \A q \in Requesters : req[q].step = "delete" =>
         req[q].row.id \in 1..MaxRows /\ req[q].row.id < next
  BY DEF IInv, ReqsTyped, HeldIsRow, Row
<1>11. HeldIsRow'
  <2> SUFFICES ASSUME NEW q \in Requesters, req[q].step = "delete"
               PROVE  /\ req[q].row.id < next'
                      /\ \A r \in rows' : r.id = req[q].row.id => r = req[q].row
    BY DEF HeldIsRow
  <2>1. req[q].row.id < next'
    BY <1>1, <1>10
  <2>2. \A r \in new : r.id # req[q].row.id
    BY <1>1, <1>2, <1>10
  <2> QED
    BY <2>1, <2>2, <1>7 DEF IInv, HeldIsRow
<1>12. UsedUpInOrder'
  <2> SUFFICES ASSUME NEW q \in Requesters, NEW r \in rows'
               PROVE  /\ given[r.id] = 0
                      /\ req[q].step = "delete" /\ req[q].row.dev = r.dev
                           => req[q].row.id <= r.id
    BY DEF UsedUpInOrder
  <2>1. CASE r \in rows
    BY <2>1 DEF IInv, UsedUpInOrder
  <2>2. CASE r \in new
    <3>1. given[r.id] = 0
      BY <2>2, <1>2, <1>4 DEF IInv, Numbered
    <3>2. req[q].step = "delete" => req[q].row.id <= r.id
      BY <2>2, <1>1, <1>2, <1>10
    <3> QED
      BY <3>1, <3>2
  <2> QED
    BY <2>1, <2>2, <1>7
<1> QED
  BY <1>1, <1>3, <1>5, <1>7, <1>9, <1>11, <1>12

\* Fewer rows, no other number: what is said about rows still holds.
LEMMA Deleted ==
  ASSUME IInv, rows' \subseteq rows, UNCHANGED <<req, given, next>>
  PROVE  Numbered' /\ HeldIsRow' /\ UsedUpInOrder'
BY DEF IInv, Numbered, HeldIsRow, UsedUpInOrder

\* A step of an owner that only moves the owner.
LEMMA OwnerMoves ==
  ASSUME IInv, NEW o \in Owners, NEW s \in OwnerState, owner' = [owner EXCEPT ![o] = s],
         s.step = "idle" => s = IdleO, s.step # "idle" => s.dev \in Devices,
         s.step = "upload" => s.left # {}
  PROVE  OwnersTyped'
BY DEF IInv, OwnersTyped

LEMMA IdleIsState == IdleO \in OwnerState /\ IdleR \in ReqState
BY DEF IdleO, OwnerState, IdleR, ReqState

\* Registration, a single transaction.
LEMMA RegisterKeeps ==
  ASSUME IInv, NEW o \in Owners, NEW d \in Devices, NEW ks \in SUBSET KeyIds, Register(o, d, ks)
  PROVE  IInv'
<1>1. CASE \E k \in ks : Taken(k)
  BY <1>1 DEF Register, IInv, TablesTyped, OwnersTyped, ReqsTyped, Numbered, HeldIsRow,
              UsedUpInOrder, Latest
<1>2. CASE \A k \in ks : ~Taken(k)
  <2>1. /\ gen[d] < MaxGen /\ next + Cardinality(ks) <= MaxRows + 1
        /\ device' = device \cup {d} /\ gen' = [gen EXCEPT ![d] = @ + 1]
        /\ identity' = [identity EXCEPT ![d] = gen[d] + 1]
        /\ signed' = [signed EXCEPT ![d] = gen[d] + 1]
        /\ rows' = rows \cup Batch(d, ks) /\ next' = next + Cardinality(ks)
        /\ UNCHANGED <<owner, req, given>>
    BY <1>2 DEF Register
  <2>2. /\ rows' \subseteq Row /\ next' \in 1..MaxRows + 1
        /\ Numbered' /\ HeldIsRow' /\ UsedUpInOrder'
    BY <1>2, <2>1, Inserted
  <2>3. gen \in [Devices -> 0..MaxGen] /\ gen[d] + 1 \in 0..MaxGen
    BY <2>1 DEF IInv, TablesTyped
  <2>4. TablesTyped'
    <3>1. gen' \in [Devices -> 0..MaxGen] /\ identity' \in [Devices -> 0..MaxGen]
          /\ signed' \in [Devices -> 0..MaxGen]
      BY <2>1, <2>3 DEF IInv, TablesTyped
    <3>2. device' \subseteq Devices /\ given' \in [1..MaxRows -> 0..2]
      BY <2>1 DEF IInv, TablesTyped
    <3> QED
      BY <2>2, <3>1, <3>2 DEF TablesTyped
  <2>5. OwnersTyped' /\ ReqsTyped'
    BY <2>1 DEF IInv, OwnersTyped, ReqsTyped
  <2>6. Latest'
    <3>1. \A e \in Devices : identity'[e] \in {0, gen'[e]} /\ signed'[e] \in {0, gen'[e]}
      BY <2>1 DEF IInv, TablesTyped, Latest
    <3>2. \A e \in Devices : gen[e] \in Nat /\ gen'[e] \in Nat /\ gen[e] <= gen'[e]
      BY <2>1, <2>3
    <3>3. ASSUME NEW q \in Requesters
          PROVE  /\ req[q].step # "idle" => req[q].ident <= gen'[req[q].dev]
                 /\ req[q].step \in {"find", "delete"} =>
                      req[q].ident <= req[q].sign /\ req[q].sign <= gen'[req[q].dev]
      <4>1. /\ req[q].ident \in Nat /\ req[q].sign \in Nat
            /\ req[q].step # "idle" => req[q].dev \in Devices
        BY DEF IInv, ReqsTyped, ReqState
      <4> QED
        BY <4>1, <3>2 DEF IInv, Latest
    <3> QED
      BY <2>1, <3>1, <3>3 DEF Latest
  <2> QED
    BY <2>2, <2>4, <2>5, <2>6 DEF IInv
<1> QED
  BY <1>1, <1>2

\* An upload, key by key.
LEMMA UploadKeeps ==
  ASSUME IInv, NEW o \in Owners, UploadOne(o) PROVE IInv'
<1> DEFINE left == owner[o].left  k == Min(left)  d == owner[o].dev
<1>1. /\ owner[o] \in OwnerState /\ owner[o].step = "upload" /\ left # {}
      /\ left \in SUBSET KeyIds /\ d \in Devices
  BY DEF UploadOne, IInv, OwnersTyped, OwnerState
<1>2. k \in left
  BY <1>1, LeastIsIn
<1>3. /\ next <= MaxRows /\ UNCHANGED <<device, gen, identity, signed, req, given>>
  BY DEF UploadOne
<1>4. ReqsTyped' /\ Latest'
  BY <1>3 DEF IInv, ReqsTyped, Latest
<1>5. CASE Taken(k)
  <2>1. owner' = [owner EXCEPT ![o] = IdleO] /\ UNCHANGED <<rows, next>>
    BY <1>5 DEF UploadOne
  <2>2. OwnersTyped'
    BY <2>1, OwnerMoves, IdleIsState DEF IdleO
  <2> QED
    BY <1>3, <1>4, <2>1, <2>2
       DEF IInv, TablesTyped, Numbered, HeldIsRow, UsedUpInOrder
<1>6. CASE ~Taken(k)
  <2>1. /\ rows' = rows \cup Batch(d, {k}) /\ next' = next + 1
        /\ owner' = IF left \ {k} = {} THEN [owner EXCEPT ![o] = IdleO]
                    ELSE [owner EXCEPT ![o].left = left \ {k}]
    BY <1>6 DEF UploadOne
  <2>2. Cardinality({k}) = 1 /\ {k} \in SUBSET KeyIds
    BY <1>1, <1>2, FS_Singleton
  <2>3. /\ rows' \subseteq Row /\ next' \in 1..MaxRows + 1
        /\ Numbered' /\ HeldIsRow' /\ UsedUpInOrder'
    <3>1. next + Cardinality({k}) <= MaxRows + 1 /\ next' = next + Cardinality({k})
      BY <1>3, <2>1, <2>2 DEF IInv, TablesTyped
    <3>2. \A j \in {k} : ~Taken(j)
      BY <1>6
    <3> HIDE DEF k, d
    <3> QED
      BY <1>1, <1>3, <2>1, <2>2, <3>1, <3>2, Inserted
  <2>4. OwnersTyped'
    <3> DEFINE rest == left \ {k}  s == [owner[o] EXCEPT !.left = rest]
    <3>1. CASE rest = {}
      <4>1. owner' = [owner EXCEPT ![o] = IdleO]
        BY <2>1, <3>1
      <4> QED
        BY <4>1, OwnerMoves, IdleIsState DEF IdleO
    <3>2. CASE rest # {}
      <4>1. owner' = [owner EXCEPT ![o] = s]
        BY <2>1, <3>2
      <4>2. s.step = "upload" /\ s.dev = d /\ s.left = rest
        BY <1>1 DEF OwnerState
      <4>3. s \in OwnerState
        BY <1>1 DEF OwnerState
      <4> HIDE DEF s
      <4> QED
        BY <1>1, <3>2, <4>1, <4>2, <4>3, OwnerMoves
    <3> QED
      BY <3>1, <3>2
  <2> QED
    BY <1>3, <1>4, <2>3, <2>4 DEF IInv, TablesTyped
<1> QED
  BY <1>5, <1>6

\* The first step of an upload or a removal, and the next statement of a removal.
LEMMA OwnerGoes ==
  ASSUME IInv, NEW o \in Owners,
         NEW step \in {"upload", "rows", "signed", "identity", "device"},
         NEW d \in Devices, NEW ks \in SUBSET KeyIds, step = "upload" => ks # {},
         owner' = [owner EXCEPT ![o] = [step |-> step, dev |-> d, left |-> ks]]
  PROVE  OwnersTyped'
<1> DEFINE s == [step |-> step, dev |-> d, left |-> ks]
<1>1. s \in OwnerState /\ s.step = step /\ s.dev = d /\ s.left = ks
  BY DEF OwnerState
<1>2. owner' = [owner EXCEPT ![o] = s] /\ step # "idle"
  OBVIOUS
<1> HIDE DEF s
<1> QED
  BY <1>1, <1>2, OwnerMoves

LEMMA RemovalGoes ==
  ASSUME IInv, NEW o \in Owners, NEW from \in {"rows", "signed", "identity"},
         NEW to \in {"signed", "identity", "device"}, Advance(o, from, to)
  PROVE  OwnersTyped' /\ owner[o].dev \in Devices
<1>1. /\ owner[o] \in OwnerState /\ owner[o].step = from /\ owner[o].dev \in Devices
      /\ owner' = [owner EXCEPT ![o].step = to]
  BY DEF Advance, IInv, OwnersTyped
<1> DEFINE s == [owner[o] EXCEPT !.step = to]
<1>2. s \in OwnerState /\ s.step = to /\ s.dev = owner[o].dev
  BY <1>1 DEF OwnerState
<1>3. owner' = [owner EXCEPT ![o] = s]
  BY <1>1
<1> HIDE DEF s
<1> QED
  BY <1>1, <1>2, <1>3, OwnerMoves

\* Every statement of an owner keeps the invariant.
LEMMA OwnerKeeps ==
  ASSUME IInv, NEW o \in Owners, OwnerStep(o) PROVE IInv'
<1>1. ASSUME NEW d \in Devices, NEW ks \in (SUBSET KeyIds) \ {{}}, Register(o, d, ks) PROVE IInv'
  BY <1>1, RegisterKeeps
<1>2. ASSUME NEW d \in Devices, NEW ks \in (SUBSET KeyIds) \ {{}}, UploadCheck(o, d, ks)
      PROVE  IInv'
  <2>1. /\ ks # {} /\ ks \in SUBSET KeyIds
        /\ owner' = [owner EXCEPT ![o] = [step |-> "upload", dev |-> d, left |-> ks]]
    BY <1>2 DEF UploadCheck
  <2>2. OwnersTyped'
    BY <2>1, OwnerGoes
  <2> QED
    BY <1>2, <2>2 DEF UploadCheck, IInv, TablesTyped, ReqsTyped, Numbered, HeldIsRow,
                      UsedUpInOrder, Latest
<1>3. ASSUME NEW d \in Devices, RemoveStart(o, d) PROVE IInv'
  <2>1. /\ {} \in SUBSET KeyIds
        /\ owner' = [owner EXCEPT ![o] = [step |-> "rows", dev |-> d, left |-> {}]]
    BY <1>3 DEF RemoveStart
  <2>2. OwnersTyped'
    BY <2>1, OwnerGoes
  <2> QED
    BY <1>3, <2>2 DEF RemoveStart, IInv, TablesTyped, ReqsTyped, Numbered, HeldIsRow,
                      UsedUpInOrder, Latest
<1>4. CASE UploadOne(o)
  BY <1>4, UploadKeeps
<1>5. CASE RemoveRows(o)
  <2>1. OwnersTyped'
    BY <1>5, RemovalGoes DEF RemoveRows
  <2>2. Numbered' /\ HeldIsRow' /\ UsedUpInOrder'
    BY <1>5, Deleted DEF RemoveRows
  <2> QED
    BY <1>5, <2>1, <2>2 DEF RemoveRows, IInv, TablesTyped, ReqsTyped, Latest
<1>6. CASE RemoveSigned(o)
  <2>1. OwnersTyped' /\ owner[o].dev \in Devices
    BY <1>6, RemovalGoes DEF RemoveSigned
  <2>2. signed' \in [Devices -> 0..MaxGen]
    BY <1>6, <2>1 DEF RemoveSigned, IInv, TablesTyped
  <2>3. \A d \in Devices : signed'[d] \in {0, gen[d]}
    BY <1>6, <2>1 DEF RemoveSigned, IInv, TablesTyped, Latest
  <2> QED
    BY <1>6, <2>1, <2>2, <2>3 DEF RemoveSigned, IInv, TablesTyped, ReqsTyped, Numbered,
                                  HeldIsRow, UsedUpInOrder, Latest
<1>7. CASE RemoveIdentity(o)
  <2>1. OwnersTyped' /\ owner[o].dev \in Devices
    BY <1>7, RemovalGoes DEF RemoveIdentity
  <2>2. identity' \in [Devices -> 0..MaxGen]
    BY <1>7, <2>1 DEF RemoveIdentity, IInv, TablesTyped
  <2>3. \A d \in Devices : identity'[d] \in {0, gen[d]}
    BY <1>7, <2>1 DEF RemoveIdentity, IInv, TablesTyped, Latest
  <2> QED
    BY <1>7, <2>1, <2>2, <2>3 DEF RemoveIdentity, IInv, TablesTyped, ReqsTyped, Numbered,
                                  HeldIsRow, UsedUpInOrder, Latest
<1>8. CASE RemoveRecord(o)
  <2>1. OwnersTyped'
    BY <1>8, OwnerMoves, IdleIsState DEF RemoveRecord, IdleO
  <2> QED
    BY <1>8, <2>1 DEF RemoveRecord, IInv, TablesTyped, ReqsTyped, Numbered, HeldIsRow,
                      UsedUpInOrder, Latest
<1> QED
  BY <1>1, <1>2, <1>3, <1>4, <1>5, <1>6, <1>7, <1>8 DEF OwnerStep, RegisterKeys, UploadPreKeys

----------------------------------------------------------------------------
\* A step that only changes what one bundle request has in hand.
LEMMA RequestMoves ==
  ASSUME IInv, NEW q \in Requesters, NEW s \in ReqState, req' = [req EXCEPT ![q] = s],
         UNCHANGED <<device, gen, identity, signed, rows, next, owner, given>>,
         s.step # "idle" => s.dev \in Devices /\ s.ident <= gen[s.dev],
         s.step \in {"find", "delete"} => s.ident <= s.sign /\ s.sign <= gen[s.dev],
         s.step = "delete" => /\ s.row \in rows /\ s.row.dev = s.dev
                              /\ \A r \in RowsOf(s.dev) : s.row.id <= r.id
  PROVE  IInv'
<1>1. TablesTyped' /\ OwnersTyped' /\ Numbered'
  BY DEF IInv, TablesTyped, OwnersTyped, Numbered
<1>2. req \in [Requesters -> ReqState]
  BY DEF IInv, ReqsTyped
<1>3. \A p \in Requesters : req'[p] = IF p = q THEN s ELSE req[p]
  BY <1>2
<1>4. ReqsTyped'
  BY <1>2, <1>3 DEF IInv, ReqsTyped, TablesTyped
<1>5. HeldIsRow'
  BY <1>3 DEF IInv, HeldIsRow, Numbered
<1>6. UsedUpInOrder'
  BY <1>3 DEF IInv, UsedUpInOrder, RowsOf
<1>7. Latest'
  BY <1>3 DEF IInv, Latest
<1> QED
  BY <1>1, <1>4, <1>5, <1>6, <1>7 DEF IInv

\* FindKey takes the oldest row there is.
LEMMA OldestIsFirst ==
  ASSUME rows \subseteq Row, NEW d, RowsOf(d) # {}
  PROVE  FirstRow(d) \in RowsOf(d) /\ \A r \in RowsOf(d) : FirstRow(d).id <= r.id
<1> DEFINE ids == {r.id : r \in RowsOf(d)}
<1>1. ids \in SUBSET Nat /\ ids # {}
  BY DEF RowsOf, Row
<1>2. Min(ids) \in ids /\ \A i \in ids : Min(ids) <= i
  BY <1>1, LeastIsIn
<1>3. PICK r \in RowsOf(d) : r.id = Min(ids)
  BY <1>2
<1>4. \A s \in RowsOf(d) : r.id <= s.id
  BY <1>2, <1>3
<1> QED
  BY <1>4 DEF FirstRow

\* What the invariant says of a request under way, with its device named.
LEMMA HeldKeys ==
  ASSUME IInv, NEW q \in Requesters, req[q].step # "idle"
  PROVE  /\ req[q].dev \in Devices
         /\ req[q].ident <= gen[req[q].dev]
         /\ signed[req[q].dev] \in {0, gen[req[q].dev]}
         /\ req[q].step \in {"find", "delete"} =>
              req[q].ident <= req[q].sign /\ req[q].sign <= gen[req[q].dev]
  BY DEF IInv, ReqsTyped, Latest

\* A request's record keeps its type when its step and a key, or its step and
\* the row it holds, are replaced.
LEMMA ReqFields ==
  \A r \in ReqState :
    /\ \A v \in 0..MaxGen : [r EXCEPT !.step = "find", !.sign = v] \in ReqState
    /\ \A w \in Row \cup {NoRow} : [r EXCEPT !.step = "delete", !.row = w] \in ReqState
  BY DEF ReqState

\* Every statement of a bundle request keeps the invariant.
LEMMA RequesterKeeps ==
  ASSUME IInv, NEW q \in Requesters, RequesterStep(q) PROVE IInv'
<1>0. /\ req[q] \in ReqState /\ (req[q].step # "idle" => req[q].dev \in Devices)
      /\ gen \in [Devices -> 0..MaxGen] /\ identity \in [Devices -> 0..MaxGen]
      /\ signed \in [Devices -> 0..MaxGen] /\ rows \subseteq Row
  BY DEF IInv, ReqsTyped, TablesTyped
<1>1. ASSUME NEW d \in Devices, GetIdentity(q, d) PROVE IInv'
  <2> DEFINE s == [IdleR EXCEPT !.step = "signed", !.dev = d, !.ident = identity[d]]
  <2>1. identity[d] \in 0..MaxGen /\ identity[d] <= gen[d]
    BY <1>0 DEF IInv, Latest
  <2>2. s \in ReqState
    BY <2>1, IdleIsState DEF ReqState
  <2>3. s.step = "signed" /\ s.dev = d /\ s.ident = identity[d]
    BY DEF IdleR
  <2>4. /\ req' = [req EXCEPT ![q] = s]
        /\ UNCHANGED <<device, gen, identity, signed, rows, next, owner, given>>
    BY <1>1 DEF GetIdentity
  <2> HIDE DEF s
  <2> QED
    BY <2>1, <2>2, <2>3, <2>4, RequestMoves
<1>2. ASSUME req' = [req EXCEPT ![q] = IdleR],
             UNCHANGED <<device, gen, identity, signed, rows, next, owner, given>>
      PROVE  IInv'
  BY <1>2, RequestMoves, IdleIsState DEF IdleR
<1>3. CASE GetSigned(q)
  <2> DEFINE d == req[q].dev  s == [req[q] EXCEPT !.step = "find", !.sign = signed[d]]
  <2>1. CASE signed[d] = 0
    BY <1>2, <1>3, <2>1 DEF GetSigned
  <2>2. CASE signed[d] # 0
    <3>0. req[q].step = "signed" /\ req[q].step # "idle"
      BY <1>3 DEF GetSigned
    <3>1. d \in Devices /\ signed[d] = gen[d] /\ req[q].ident <= gen[d] /\ signed[d] \in 0..MaxGen
      BY <1>0, <3>0, <2>2, HeldKeys
    <3>2. s \in ReqState
      BY <1>0, <3>1, ReqFields
    <3>3. s.step = "find" /\ s.dev = d /\ s.ident = req[q].ident /\ s.sign = signed[d]
      BY <1>0 DEF ReqState
    <3>4. /\ req' = [req EXCEPT ![q] = s]
          /\ UNCHANGED <<device, gen, identity, signed, rows, next, owner, given>>
      BY <1>3, <2>2 DEF GetSigned
    <3>5. s.ident <= s.sign /\ s.sign <= gen[s.dev] /\ s.ident <= gen[s.dev]
      BY <3>1, <3>3
    <3> HIDE DEF s
    <3> QED
      BY <3>1, <3>2, <3>3, <3>4, <3>5, RequestMoves
  <2> QED
    BY <2>1, <2>2
<1>4. CASE FindKey(q)
  <2> DEFINE d == req[q].dev  s == [req[q] EXCEPT !.step = "delete", !.row = FirstRow(d)]
  <2>1. CASE RowsOf(d) = {}
    BY <1>2, <1>4, <2>1 DEF FindKey, Answered
  <2>2. CASE RowsOf(d) # {}
    <3>0. req[q].step = "find" /\ req[q].step \notin {"idle", "signed"}
      BY <1>4 DEF FindKey
    <3>1. /\ d \in Devices /\ req[q].ident <= gen[d] /\ req[q].ident <= req[q].sign
          /\ req[q].sign <= gen[d]
      BY <3>0, HeldKeys
    <3>2. /\ FirstRow(d) \in rows /\ FirstRow(d).dev = d /\ FirstRow(d) \in Row
          /\ \A r \in RowsOf(d) : FirstRow(d).id <= r.id
      BY <1>0, <2>2, OldestIsFirst DEF RowsOf
    <3>3. s \in ReqState
      <4>1. FirstRow(d) \in Row \cup {NoRow}
        BY <3>2
      <4> QED
        BY <1>0, <4>1, ReqFields
    <3>4. /\ s.step = "delete" /\ s.dev = d /\ s.ident = req[q].ident
          /\ s.sign = req[q].sign /\ s.row = FirstRow(d)
      BY <1>0 DEF ReqState
    <3>5. /\ req' = [req EXCEPT ![q] = s]
          /\ UNCHANGED <<device, gen, identity, signed, rows, next, owner, given>>
      BY <1>4, <2>2 DEF FindKey
    <3> HIDE DEF s
    <3> QED
      BY <3>1, <3>2, <3>3, <3>4, <3>5, RequestMoves
  <2> QED
    BY <2>1, <2>2
<1>5. CASE DeleteKey(q)
  <2> DEFINE held == req[q].row
  <2>1. /\ req[q].step = "delete" /\ held \in Row /\ rows' = rows \ {held}
        /\ req' = [req EXCEPT ![q] = IdleR]
        /\ given' = [given EXCEPT ![held.id] = IF @ = 0 THEN 1 ELSE 2]
        /\ UNCHANGED <<device, gen, identity, signed, next, owner>>
    BY <1>5 DEF DeleteKey, Answered, IInv, ReqsTyped
  <2>2. /\ held.id \in 1..MaxRows /\ held.id < next
        /\ \A r \in rows : r.id = held.id => r = held
    BY <2>1 DEF Row, IInv, HeldIsRow
  <2>3. given \in [1..MaxRows -> 0..2] /\ next \in 1..MaxRows + 1
    BY DEF IInv, TablesTyped
  <2>4. given' \in [1..MaxRows -> 0..2] /\ \A i \in 1..MaxRows : i # held.id => given'[i] = given[i]
    BY <2>1, <2>2, <2>3
  <2>5. TablesTyped' /\ OwnersTyped'
    BY <2>1, <2>4 DEF IInv, TablesTyped, OwnersTyped
  <2>6. \A p \in Requesters : req'[p] = IF p = q THEN IdleR ELSE req[p]
    BY <2>1 DEF IInv, ReqsTyped
  <2>7. IdleR.step = "idle"
    BY DEF IdleR
  <2>8. ReqsTyped'
    BY <2>1, <2>6, <2>7, IdleIsState DEF IInv, ReqsTyped
  <2>9. Numbered'
    <3>1. \A i \in 1..MaxRows : i >= next => i # held.id
      BY <2>2, <2>3
    <3> QED
      BY <2>1, <2>4, <3>1 DEF IInv, Numbered
  <2>10. HeldIsRow'
    BY <2>1, <2>6, <2>7 DEF IInv, HeldIsRow
  <2>11. UsedUpInOrder'
    <3>1. \A r \in rows' : r \in rows /\ r.id \in 1..MaxRows /\ r.id # held.id
      BY <1>0, <2>1, <2>2 DEF Row
    <3> QED
      BY <2>1, <2>4, <2>6, <2>7, <3>1 DEF IInv, UsedUpInOrder
  <2>12. Latest'
    BY <2>1, <2>6, <2>7 DEF IInv, Latest
  <2> QED
    BY <2>5, <2>8, <2>9, <2>10, <2>11, <2>12 DEF IInv
<1> QED
  BY <1>1, <1>3, <1>4, <1>5 DEF RequesterStep, GetPreKeyBundle

\* The invariant is inductive.
LEMMA InvStep == IInv /\ [Next]_vars => IInv'
<1> SUFFICES ASSUME IInv, [Next]_vars PROVE IInv'
  OBVIOUS
<1>1. CASE UNCHANGED vars
  BY <1>1 DEF vars, IInv, TablesTyped, OwnersTyped, ReqsTyped, Numbered, HeldIsRow,
              UsedUpInOrder, Latest
<1> QED
  BY <1>1, OwnerKeeps, RequesterKeeps DEF Next

\* The store is well formed in every behaviour.
THEOREM Invariance == Spec => []IInv
<1> QED
  BY InitInv, InvStep, PTL DEF Spec

\* The tables and the requests have their types, and a key id is one row's.
THEOREM KeyTyping == Spec => []TypeOK
<1>1. IInv => TypeOK
  BY DEF IInv, TablesTyped, OwnersTyped, ReqsTyped, Numbered, TypeOK, OwnerState, ReqState
<1> QED
  BY Invariance, <1>1, PTL

\* One-time prekeys are used up in the order of their upload, whatever uploads,
\* removals, registrations and other bundle requests run at the same time.
THEOREM UsedInOrder == Spec => []UsedUpInOrder
<1> QED
  BY Invariance, PTL DEF IInv

\* The identity key of a bundle is never of a later registration than its signed
\* prekey.
THEOREM BundlesInOrder == Spec => []BundleInOrder
<1>1. IInv => BundleInOrder
  BY DEF IInv, Latest, BundleInOrder
<1> QED
  BY Invariance, <1>1, PTL

----------------------------------------------------------------------------
(* One owner request at a time.                                             *)

HasRows(d) == \E r \in rows : r.dev = d

\* The rows of a batch are its device's.
LEMMA BatchOf ==
  ASSUME NEW d, NEW ks, NEW r \in Batch(d, ks) PROVE r.dev = d
<1>1. PICK k \in ks : r = [id |-> next + Cardinality({j \in ks : j < k}), dev |-> d, key |-> k]
  BY Zenon DEF Batch
<1> QED
  BY <1>1

\* How far the removal of device d by request o has come: `At(o, d, S)` when it
\* is at one of the statements in S.
At(o, d, S) == owner[o].dev = d /\ owner[o].step \in S

\* What is left of a device at each statement of its removal.
Follow(o) == \A d \in Devices :
  /\ ~At(o, d, {"identity", "device"}) =>
       (d \in device <=> identity[d] # 0) /\ identity[d] = signed[d]
  /\ ~At(o, d, {"signed", "identity", "device"}) => (HasRows(d) => d \in device)
  /\ At(o, d, {"upload"}) => d \in device
  /\ At(o, d, {"signed", "identity", "device"}) => ~HasRows(d)
  /\ At(o, d, {"identity", "device"}) => signed[d] = 0
  /\ At(o, d, {"device"}) => identity[d] = 0

\* An empty store has no device and no key.
LEMMA FollowInit == ASSUME NEW o \in Owners, Init PROVE Follow(o)
  BY PreKeysAssumption DEF Init, Follow, At, HasRows, IdleO

\* The only request of an owner moves from statement to statement.
LEMMA FollowStep ==
  ASSUME IInv, NEW o \in Owners, Owners = {o}, Follow(o), [Next]_vars
  PROVE  Follow(o)'
<1>0. /\ owner \in [Owners -> OwnerState] /\ IdleO.step = "idle" /\ IdleO.dev \notin Devices
      /\ owner[o].step = "idle" => owner[o] = IdleO
      /\ owner[o].step # "idle" => owner[o].dev \in Devices
      /\ gen \in [Devices -> 0..MaxGen]
      /\ identity \in [Devices -> 0..MaxGen] /\ signed \in [Devices -> 0..MaxGen]
  BY PreKeysAssumption DEF IInv, OwnersTyped, TablesTyped, IdleO
<1>1. CASE UNCHANGED vars
  BY <1>1 DEF vars, Follow, At, HasRows
<1>2. ASSUME NEW q \in Requesters, RequesterStep(q) PROVE Follow(o)'
  <2>1. rows' \subseteq rows /\ UNCHANGED <<device, identity, signed, owner>>
    BY <1>2 DEF RequesterStep, GetPreKeyBundle, GetIdentity, GetSigned, FindKey, DeleteKey
  <2> QED
    BY <2>1 DEF Follow, At, HasRows
<1>3. ASSUME NEW d \in Devices, NEW ks \in (SUBSET KeyIds) \ {{}}, Register(o, d, ks)
      PROVE  Follow(o)'
  <2>1. CASE \E k \in ks : Taken(k)
    BY <1>3, <2>1 DEF Register, Follow, At, HasRows
  <2>2. CASE ~\E k \in ks : Taken(k)
    <3>1. /\ device' = device \cup {d}
          /\ \A e \in Devices : /\ e # d => identity'[e] = identity[e] /\ signed'[e] = signed[e]
                                /\ e = d => identity'[e] # 0 /\ identity'[e] = signed'[e]
      BY <1>0, <1>3, <2>2 DEF Register
    <3>2. /\ owner' = owner /\ owner[o] = IdleO
          /\ rows' = rows \cup Batch(d, ks)
      BY <1>3, <2>2 DEF Register
    <3>3. \A r \in Batch(d, ks) : r.dev = d
      BY BatchOf
    <3>4. \A e \in Devices : e # d /\ HasRows(e)' => HasRows(e)
      BY <3>2, <3>3 DEF HasRows
    <3>5. \A e \in Devices : \A S : ~At(o, e, S) /\ ~At(o, e, S)'
      BY <1>0, <3>2 DEF At
    <3>6. ASSUME NEW e \in Devices
          PROVE  /\ (e \in device' <=> identity'[e] # 0) /\ identity'[e] = signed'[e]
                 /\ HasRows(e)' => e \in device'
      <4>1. CASE e = d
        BY <3>1, <4>1
      <4>2. CASE e # d
        BY <3>1, <3>4, <3>5, <4>2 DEF Follow
      <4> QED
        BY <4>1, <4>2
    <3> QED
      BY <3>5, <3>6 DEF Follow
  <2> QED
    BY <2>1, <2>2
<1>4. ASSUME NEW d \in Devices, NEW ks \in (SUBSET KeyIds) \ {{}}, UploadCheck(o, d, ks)
      PROVE  Follow(o)'
  <2>1. /\ owner[o] = IdleO /\ d \in device /\ owner'[o].dev = d /\ owner'[o].step = "upload"
        /\ UNCHANGED <<device, identity, signed, rows>>
    BY <1>0, <1>4 DEF UploadCheck
  <2> QED
    BY <1>0, <2>1 DEF Follow, At, HasRows
<1>5. ASSUME NEW d \in Devices, RemoveStart(o, d) PROVE Follow(o)'
  <2>1. /\ owner[o] = IdleO /\ owner'[o].dev = d /\ owner'[o].step = "rows"
        /\ UNCHANGED <<device, identity, signed, rows>>
    BY <1>0, <1>5 DEF RemoveStart
  <2> QED
    BY <1>0, <2>1 DEF Follow, At, HasRows
<1>6. CASE UploadOne(o)
  <2> DEFINE d == owner[o].dev
  <2>1. /\ owner[o].step = "upload" /\ d \in Devices /\ d \in device
        /\ UNCHANGED <<device, identity, signed>>
        /\ owner'[o] = IdleO \/ (owner'[o].dev = d /\ owner'[o].step = "upload")
    BY <1>0, <1>6 DEF UploadOne, Follow, At, OwnerState
  <2>2. \A e \in Devices : HasRows(e)' => HasRows(e) \/ e = d
    <3>1. rows' = rows \/ \E k : rows' = rows \cup Batch(d, {k})
      BY <1>6 DEF UploadOne
    <3> QED
      BY <3>1, BatchOf DEF HasRows
  <2> QED
    BY <1>0, <2>1, <2>2 DEF Follow, At
<1>7. CASE RemoveRows(o)
  <2> DEFINE d == owner[o].dev
  <2>1. /\ owner[o].step = "rows" /\ owner'[o].dev = d /\ owner'[o].step = "signed"
        /\ UNCHANGED <<device, identity, signed>>
    BY <1>0, <1>7 DEF RemoveRows, Advance, OwnerState
  <2>2. \A e \in Devices : HasRows(e)' => HasRows(e) /\ e # d
    BY <1>7 DEF RemoveRows, RowsOf, HasRows
  <2> QED
    BY <2>1, <2>2 DEF Follow, At
<1>8. CASE RemoveSigned(o)
  <2> DEFINE d == owner[o].dev
  <2>1. /\ owner[o].step = "signed" /\ owner'[o].dev = d /\ owner'[o].step = "identity"
        /\ UNCHANGED <<device, identity, rows>>
    BY <1>0, <1>8 DEF RemoveSigned, Advance, OwnerState
  <2>2. \A e \in Devices : signed'[e] = IF e = d THEN 0 ELSE signed[e]
    BY <1>0, <1>8 DEF RemoveSigned
  <2> QED
    BY <2>1, <2>2 DEF Follow, At, HasRows
<1>9. CASE RemoveIdentity(o)
  <2> DEFINE d == owner[o].dev
  <2>1. /\ owner[o].step = "identity" /\ owner'[o].dev = d /\ owner'[o].step = "device"
        /\ UNCHANGED <<device, signed, rows>>
    BY <1>0, <1>9 DEF RemoveIdentity, Advance, OwnerState
  <2>2. \A e \in Devices : identity'[e] = IF e = d THEN 0 ELSE identity[e]
    BY <1>0, <1>9 DEF RemoveIdentity
  <2> QED
    BY <2>1, <2>2 DEF Follow, At, HasRows
<1>10. CASE RemoveRecord(o)
  <2>1. /\ owner[o].step = "device" /\ owner'[o] = IdleO
        /\ device' = device \ {owner[o].dev}
        /\ UNCHANGED <<identity, signed, rows>>
    BY <1>0, <1>10 DEF RemoveRecord
  <2> QED
    BY <1>0, <2>1 DEF Follow, At, HasRows
<1>11. ASSUME OwnerStep(o) PROVE Follow(o)'
  BY <1>3, <1>4, <1>5, <1>6, <1>7, <1>8, <1>9, <1>10, <1>11
     DEF OwnerStep, RegisterKeys, UploadPreKeys
<1> QED
  BY <1>1, <1>2, <1>11 DEF Next

\* With one owner request at a time, a device that no request is at work on is
\* registered with both its long-term keys or with neither, and has prekeys only
\* while it is registered.
THEOREM KeysFollow ==
  ASSUME NEW o \in Owners, Owners = {o} PROVE Spec => []KeysFollowDevice
<1>1. Init => Follow(o)
  BY FollowInit
<1>2. IInv /\ Follow(o) /\ [Next]_vars => Follow(o)'
  BY FollowStep
<1>3. Follow(o) => KeysFollowDevice
  BY DEF Follow, At, HasRows, KeysFollowDevice, Quiet, RowsOf
<1> QED
  BY <1>1, <1>2, <1>3, Invariance, PTL DEF Spec
=============================================================================
