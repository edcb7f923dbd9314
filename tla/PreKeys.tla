------------------------------ MODULE PreKeys ------------------------------
(***************************************************************************)
(* The server's store of encryption keys: registration of a device with its *)
(* identity key, signed prekey and one-time prekeys, upload of more         *)
(* prekeys, removal of a device, and the bundle requests that consume one   *)
(* prekey each (internal/services/keys.go, internal/models/prekey.go,       *)
(* identity_key.go, encryption_device.go).                                  *)
(*                                                                          *)
(* A statement outside a transaction is an action of its own; registration  *)
(* is one transaction and one action.  A key pair is known by the number of *)
(* the registration that made it; a prekey row by its uuid, here a counter  *)
(* that also gives the order of created_at.                                 *)
(***************************************************************************)
EXTENDS Naturals, FiniteSets, FiniteSetsExt

CONSTANTS
  Devices,     \* registered installations, each of some user
  KeyIds,      \* numbers that clients give to their prekeys
  Owners,      \* concurrent requests of the owners of the devices
  Requesters,  \* concurrent bundle requests of other users
  NoDevice,
  MaxRows,     \* bound on the prekey rows ever inserted
  MaxGen       \* bound on the registrations of one device

ASSUME PreKeysAssumption ==
  /\ NoDevice \notin Devices
  /\ KeyIds \subseteq Nat /\ IsFiniteSet(KeyIds)
  /\ MaxRows \in Nat /\ MaxGen \in Nat

VARIABLES
  device,    \* encryption_devices rows
  gen,       \* successful registrations of a device so far
  identity,  \* identity_keys: the registration that made the key, 0 for no row
  signed,    \* signed_pre_keys, likewise
  rows,      \* pre_keys rows
  next,      \* uuid of the next row
  owner,     \* where each owner request is
  req,       \* where each bundle request is
  given      \* how often a row has been put into a bundle: 0, 1, 2 for more

vars == <<device, gen, identity, signed, rows, next, owner, req, given>>

Row   == [id : 1 .. MaxRows, dev : Devices, key : KeyIds]
NoRow == [id |-> 0]
IdleO == [step |-> "idle", dev |-> NoDevice, left |-> {}]
IdleR == [step |-> "idle", dev |-> NoDevice, ident |-> 0, sign |-> 0, row |-> NoRow]

TypeOK ==
  /\ device \subseteq Devices
  /\ gen \in [Devices -> 0 .. MaxGen]
  /\ identity \in [Devices -> 0 .. MaxGen] /\ signed \in [Devices -> 0 .. MaxGen]
  /\ rows \subseteq Row
  /\ \A r, s \in rows : r.key = s.key => r = s
  /\ next \in 1 .. MaxRows + 1 /\ \A r \in rows : r.id < next
  /\ \A o \in Owners : owner[o].step \in {"idle", "upload", "rows", "signed",
                                          "identity", "device"}
  /\ \A q \in Requesters : req[q].step \in {"idle", "signed", "find", "delete"}
  /\ given \in [1 .. MaxRows -> 0 .. 2]

Init ==
  /\ device = {} /\ rows = {} /\ next = 1
  /\ gen = [d \in Devices |-> 0]
  /\ identity = [d \in Devices |-> 0] /\ signed = [d \in Devices |-> 0]
  /\ owner = [o \in Owners |-> IdleO]
  /\ req = [q \in Requesters |-> IdleR]
  /\ given = [i \in 1 .. MaxRows |-> 0]

RowsOf(d) == {r \in rows : r.dev = d}

\* The unique index on pre_keys covers key_id alone: whoever has it.
Taken(k) == \E r \in rows : r.key = k

----------------------------------------------------------------------------
(* Requests of a device's owner.                                            *)

\* The rows of one batch, inserted in the order of their key ids.
Batch(d, ks) ==
  {[id |-> next + Cardinality({j \in ks : j < k}), dev |-> d, key |-> k] : k \in ks}

\* Mutant: no transaction, what was written before the conflict stays.
Register_NoTransaction(o, d, ks) ==
  /\ owner[o] = IdleO /\ gen[d] < MaxGen
  /\ next + Cardinality(ks) <= MaxRows + 1
  /\ gen' = [gen EXCEPT ![d] = @ + 1]
  /\ identity' = [identity EXCEPT ![d] = gen[d] + 1]
  /\ IF \E k \in ks : Taken(k)
     THEN UNCHANGED <<device, signed, rows, next>>
     ELSE /\ device' = device \cup {d}
          /\ signed' = [signed EXCEPT ![d] = gen[d] + 1]
          /\ rows' = rows \cup Batch(d, ks)
          /\ next' = next + Cardinality(ks)
  /\ UNCHANGED <<owner, req, given>>

\* The device, identity key, signed prekey and prekeys in one
\* transaction, rolled back when a key id is taken.
Register(o, d, ks) ==
  /\ owner[o] = IdleO /\ gen[d] < MaxGen
  /\ next + Cardinality(ks) <= MaxRows + 1
  /\ IF \E k \in ks : Taken(k)
     THEN UNCHANGED <<device, gen, identity, signed, rows, next>>
     ELSE /\ device' = device \cup {d}
          /\ gen' = [gen EXCEPT ![d] = @ + 1]
          /\ identity' = [identity EXCEPT ![d] = gen[d] + 1]
          /\ signed' = [signed EXCEPT ![d] = gen[d] + 1]
          /\ rows' = rows \cup Batch(d, ks)
          /\ next' = next + Cardinality(ks)
  /\ UNCHANGED <<owner, req, given>>

\* An upload: the device is looked up once ...
UploadCheck(o, d, ks) ==
  /\ owner[o] = IdleO /\ d \in device
  /\ owner' = [owner EXCEPT ![o] = [step |-> "upload", dev |-> d, left |-> ks]]
  /\ UNCHANGED <<device, gen, identity, signed, rows, next, req, given>>

\* ... then the keys are inserted one by one; the first conflict ends the
\* request and leaves what was inserted.
UploadOne(o) ==
  LET k    == Min(owner[o].left)
      rest == owner[o].left \ {k}
  IN
  /\ owner[o].step = "upload" /\ next <= MaxRows
  /\ IF Taken(k)
     THEN owner' = [owner EXCEPT ![o] = IdleO] /\ UNCHANGED <<rows, next>>
     ELSE /\ rows' = rows \cup Batch(owner[o].dev, {k})
          /\ next' = next + 1
          /\ owner' = IF rest = {} THEN [owner EXCEPT ![o] = IdleO]
                      ELSE [owner EXCEPT ![o].left = rest]
  /\ UNCHANGED <<device, gen, identity, signed, req, given>>

RemoveStart(o, d) ==
  /\ owner[o] = IdleO
  /\ owner' = [owner EXCEPT ![o] = [step |-> "rows", dev |-> d, left |-> {}]]
  /\ UNCHANGED <<device, gen, identity, signed, rows, next, req, given>>

Advance(o, from, to) ==
  owner[o].step = from /\ owner' = [owner EXCEPT ![o].step = to]

\* RemoveDevice and DeleteDeviceKeys: four DELETE statements in this order
\* (the sender keys, between the last two, are in module Marks).
RemoveRows(o) ==
  /\ Advance(o, "rows", "signed")
  /\ rows' = rows \ RowsOf(owner[o].dev)
  /\ UNCHANGED <<device, gen, identity, signed, next, req, given>>

RemoveSigned(o) ==
  /\ Advance(o, "signed", "identity")
  /\ signed' = [signed EXCEPT ![owner[o].dev] = 0]
  /\ UNCHANGED <<device, gen, identity, rows, next, req, given>>

\* Mutant: the identity key is kept for a later registration.
RemoveIdentity_Keeps(o) ==
  /\ Advance(o, "identity", "device")
  /\ UNCHANGED <<device, gen, identity, signed, rows, next, req, given>>

RemoveIdentity(o) ==
  /\ Advance(o, "identity", "device")
  /\ identity' = [identity EXCEPT ![owner[o].dev] = 0]
  /\ UNCHANGED <<device, gen, signed, rows, next, req, given>>

RemoveRecord(o) ==
  /\ owner[o].step = "device"
  /\ owner' = [owner EXCEPT ![o] = IdleO]
  /\ device' = device \ {owner[o].dev}
  /\ UNCHANGED <<gen, identity, signed, rows, next, req, given>>

----------------------------------------------------------------------------
(* GetPreKeyBundle: three reads and one delete, no transaction.             *)

GetIdentity(q, d) ==
  /\ req[q] = IdleR /\ identity[d] # 0
  /\ req' = [req EXCEPT ![q] = [IdleR EXCEPT !.step = "signed", !.dev = d,
                                             !.ident = identity[d]]]
  /\ UNCHANGED <<device, gen, identity, signed, rows, next, owner, given>>

GetSigned(q) ==
  /\ req[q].step = "signed"
  /\ req' = [req EXCEPT ![q] =
               IF signed[req[q].dev] = 0 THEN IdleR
               ELSE [@ EXCEPT !.step = "find", !.sign = signed[req[q].dev]]]
  /\ UNCHANGED <<device, gen, identity, signed, rows, next, owner, given>>

Answered(q) == req' = [req EXCEPT ![q] = IdleR]

\* Mutant: the newest row instead of the oldest.
FirstRow_Newest(d) ==
  CHOOSE r \in RowsOf(d) : \A s \in RowsOf(d) : s.id <= r.id

FirstRow(d) == CHOOSE r \in RowsOf(d) : \A s \in RowsOf(d) : r.id <= s.id

\* The oldest prekey, or a bundle without one.
FindKey(q) ==
  /\ req[q].step = "find"
  /\ IF RowsOf(req[q].dev) = {} THEN Answered(q)
     ELSE req' = [req EXCEPT ![q].step = "delete",
                             ![q].row = FirstRow(req[q].dev)]
  /\ UNCHANGED <<device, gen, identity, signed, rows, next, owner, given>>

\* DELETE ... WHERE id = ?: no matter whether it matched a row.
DeleteKey(q) ==
  /\ req[q].step = "delete"
  /\ rows' = rows \ {req[q].row}
  /\ given' = [given EXCEPT ![req[q].row.id] = IF @ = 0 THEN 1 ELSE 2]
  /\ Answered(q)
  /\ UNCHANGED <<device, gen, identity, signed, next, owner>>

----------------------------------------------------------------------------
(* The requests.  Each must bring a prekey at least; a bundle request for    *)
(* all devices of a user is one request per device, one after the other.     *)

RegisterKeys(o)    == \E d \in Devices, ks \in (SUBSET KeyIds) \ {{}} : Register(o, d, ks)
UploadPreKeys(o)   == \E d \in Devices, ks \in (SUBSET KeyIds) \ {{}} : UploadCheck(o, d, ks)
GetPreKeyBundle(q) == \E d \in Devices : GetIdentity(q, d)

OwnerStep(o) ==
  \/ RegisterKeys(o) \/ UploadPreKeys(o)
  \/ \E d \in Devices : RemoveStart(o, d)
  \/ UploadOne(o) \/ RemoveRows(o) \/ RemoveSigned(o) \/ RemoveIdentity(o)
  \/ RemoveRecord(o)

RequesterStep(q) ==
  \/ GetPreKeyBundle(q) \/ GetSigned(q) \/ FindKey(q) \/ DeleteKey(q)

Next == \/ \E o \in Owners : OwnerStep(o)
        \/ \E q \in Requesters : RequesterStep(q)

Spec == Init /\ [][Next]_vars

----------------------------------------------------------------------------
(* Properties.                                                              *)

\* Prekeys are used up in the order of upload: once a row has been put into a
\* bundle, neither it nor an older row of its device is left in the table, so
\* only requests that overlap can get the same key.
UsedUpInOrder ==
  \A q \in Requesters, r \in rows :
    /\ given[r.id] = 0
    /\ req[q].step = "delete" /\ req[q].row.dev = r.dev => req[q].row.id <= r.id

Quiet(d) == \A o \in Owners : owner[o].dev # d

\* With one request of the owner at a time, a device is registered with both
\* its long-term keys or with neither, and prekeys are only there for a
\* registered device: a refused registration leaves nothing behind.
KeysFollowDevice ==
  \A d \in Devices : Quiet(d) =>
    /\ d \in device <=> identity[d] # 0
    /\ identity[d] = signed[d]
    /\ RowsOf(d) # {} => d \in device

\* The parts of a bundle are read one after the other, the identity key first:
\* a registration in between can make the signed prekey newer than the identity
\* key, but never older, and neither is ever of a registration to come.
BundleInOrder ==
  \A q \in Requesters : req[q].step \in {"find", "delete"} =>
    req[q].ident <= req[q].sign /\ req[q].sign <= gen[req[q].dev]
=============================================================================
