------------------------- MODULE DeviceRegistryProofs -------------------------
(***************************************************************************)
(* Proofs about the device registry, for any identifiers, labels and       *)
(* capabilities and for any limits on devices and capabilities.            *)
(***************************************************************************)
EXTENDS DeviceRegistry, TLAPS

USE RegistryAssumption, NoCommandAssumption

----------------------------------------------------------------------------
(* Sequences.                                                              *)

(* Replacing an element changes that element only.                         *)
LEMMA ReplaceFacts ==
    ASSUME NEW S, NEW s \in Seq(S), NEW k \in 1..Len(s), NEW e \in S
    PROVE  /\ [s EXCEPT ![k] = e] \in Seq(S)
           /\ Len([s EXCEPT ![k] = e]) = Len(s)
           /\ \A i \in 1..Len(s) :
                 [s EXCEPT ![k] = e][i] = IF i = k THEN e ELSE s[i]
  OBVIOUS

(* Appending keeps the elements that were there.                           *)
LEMMA AppendFacts ==
    ASSUME NEW S, NEW s \in Seq(S), NEW e \in S
    PROVE  /\ Append(s, e) \in Seq(S)
           /\ Len(Append(s, e)) = Len(s) + 1
           /\ \A i \in 1..(Len(s) + 1) :
                 Append(s, e)[i] = IF i = Len(s) + 1 THEN e ELSE s[i]
  OBVIOUS

(* ShiftDown removes one element and keeps the others in their order.      *)
LEMMA ShiftDownFacts ==
    ASSUME NEW S, NEW s \in Seq(S), NEW k \in 1..Len(s)
    PROVE  /\ ShiftDown(s, k) \in Seq(S)
           /\ Len(ShiftDown(s, k)) = Len(s) - 1
           /\ \A i \in 1..(Len(s) - 1) :
                 ShiftDown(s, k)[i] = IF i < k THEN s[i] ELSE s[i + 1]
<1>1. Len(s) - 1 \in Nat
  OBVIOUS
<1>2. ASSUME NEW i \in 1..(Len(s) - 1)
      PROVE  (IF i < k THEN s[i] ELSE s[i + 1]) \in S
  OBVIOUS
<1>. QED BY <1>1, <1>2 DEF ShiftDown

----------------------------------------------------------------------------
(* Well-formed records stay so under each change.                          *)

(* A record replaced by one of the same identifier.                        *)
LEMMA ReplaceWellFormed ==
    ASSUME NEW s \in Seq(Record), WellFormed(s), NEW k \in 1..Len(s),
           NEW r \in Record, r.device_id = s[k].device_id, CapsWellFormed(r.caps)
    PROVE  WellFormed([s EXCEPT ![k] = r])
  BY ReplaceFacts DEF WellFormed

(* A record appended where there is room and none of its identifier.       *)
LEMMA AppendWellFormed ==
    ASSUME NEW s \in Seq(Record), WellFormed(s), Len(s) < MaxRecords,
           NEW r \in Record, ~Holds(s, r.device_id), CapsWellFormed(r.caps)
    PROVE  WellFormed(Append(s, r))
  BY AppendFacts DEF WellFormed, Holds

(* A record removed.                                                       *)
LEMMA ShiftDownWellFormed ==
    ASSUME NEW s \in Seq(Record), WellFormed(s), NEW k \in 1..Len(s)
    PROVE  WellFormed(ShiftDown(s, k))
<1>. DEFINE t == ShiftDown(s, k)
            Origin(i) == IF i < k THEN i ELSE i + 1
<1>1. /\ Len(t) = Len(s) - 1
      /\ \A i \in 1..Len(t) : Origin(i) \in 1..Len(s) /\ t[i] = s[Origin(i)]
  BY ShiftDownFacts
<1>2. \A i, j \in 1..Len(t) : Origin(i) = Origin(j) => i = j
  BY <1>1
<1>3. Len(s) \in Nat
  OBVIOUS
<1>. HIDE DEF t, Origin
<1>4. Len(t) <= MaxRecords
  BY <1>1, <1>3 DEF WellFormed
<1>5. ASSUME NEW i \in 1..Len(t), NEW j \in 1..Len(t),
             t[i].device_id = t[j].device_id
      PROVE  i = j
  BY <1>1, <1>2, <1>5 DEF WellFormed
<1>6. \A i \in 1..Len(t) : CapsWellFormed(t[i].caps)
  BY <1>1 DEF WellFormed
<1>7. WellFormed(t)
  BY <1>4, <1>5, <1>6 DEF WellFormed
<1>. QED BY <1>7 DEF t

(* A capability put on a record: it replaces the one of its identifier, or *)
(* is one more where there is room.                                        *)
LEMMA PutCapabilityFacts ==
    ASSUME NEW found \in Record, NEW new \in Capability,
           CapsWellFormed(found.caps), PutCapability(found, new)
    PROVE  /\ record' \in Record
           /\ record'.device_id = found.device_id
           /\ CapsWellFormed(record'.caps)
<1>. DEFINE caps == found.caps
<1>0. caps \in Seq(Capability)
  BY DEF Record
<1>1. CASE \E k \in SameCapability(caps, new) : record' = [found EXCEPT !.caps[k] = new]
  <2>1. PICK k \in 1..Len(caps) : /\ caps[k].capability_id = new.capability_id
                                  /\ record' = [found EXCEPT !.caps[k] = new]
    BY <1>1 DEF SameCapability
  <2>. DEFINE caps2 == [caps EXCEPT ![k] = new]
  <2>2. /\ caps2 \in Seq(Capability) /\ Len(caps2) = Len(caps)
        /\ \A i \in 1..Len(caps) : caps2[i] = IF i = k THEN new ELSE caps[i]
    BY <1>0, ReplaceFacts
  <2>3. /\ record'.caps = caps2 /\ record' \in Record
        /\ record'.device_id = found.device_id
    BY <2>1, <2>2 DEF Record
  <2>. QED BY <2>1, <2>2, <2>3 DEF CapsWellFormed
<1>2. CASE /\ SameCapability(caps, new) = {}
           /\ Len(caps) < MaxCaps
           /\ record' = [found EXCEPT !.caps = Append(@, new)]
  <2>1. /\ record'.caps = Append(caps, new) /\ record' \in Record
        /\ record'.device_id = found.device_id
    BY <1>0, <1>2, AppendFacts DEF Record
  <2>2. \A k \in 1..Len(caps) : caps[k].capability_id # new.capability_id
    BY <1>2 DEF SameCapability
  <2>. QED BY <1>0, <1>2, <2>1, <2>2, AppendFacts DEF CapsWellFormed
<1>. QED BY <1>1, <1>2 DEF PutCapability

----------------------------------------------------------------------------
(* The invariant.                                                          *)

(* A sequence of no records is well formed.                                *)
LEMMA EmptyWellFormed == <<>> \in Seq(Record) /\ WellFormed(<<>>)
  BY DEF WellFormed

(* The first record of an identifier is one of that identifier.            *)
LEMMA PositionFacts ==
    ASSUME NEW records \in Seq(Record), NEW i, NEW id, Position(records, i, id)
    PROVE  i \in 1..Len(records) /\ records[i].device_id = id
  BY DEF Position, IsFirst

(* What a command's reply leaves behind.                                   *)
LEMMA ReplyKeepsInv ==
    ASSUME Inv, NEW ok \in BOOLEAN, command # NoCommand, Reply(ok), UNCHANGED blob
    PROVE  Inv'
<1>1. /\ pc' = "idle" /\ command' = NoCommand /\ store' = <<>> /\ blob' = blob
      /\ answer' \in [command : Commands, ok : BOOLEAN]
  BY DEF Inv, TypeOK, Reply
<1>2. TypeOK'
  BY <1>1, EmptyWellFormed DEF Inv, TypeOK
<1>. QED BY <1>1, <1>2, EmptyWellFormed DEF Inv, StoredWellFormed, Upserting

(* A load gives the store the well-formed records NVS holds.               *)
LEMMA LoadFacts ==
    ASSUME Inv, LoadStore
    PROVE  store' \in Seq(Record) /\ WellFormed(store') /\ store' = blob.records
  BY DEF Inv, TypeOK, StoredWellFormed, LoadStore

(* Each change keeps the store well formed.                                *)
LEMMA ChangeKeepsStore ==
    ASSUME Inv, Change
    PROVE  store' \in Seq(Record) /\ WellFormed(store')
<1>0. /\ store \in Seq(Record) /\ WellFormed(store) /\ pc = "change"
      /\ command \in Commands
  BY DEF Inv, TypeOK, Change
<1>1. CASE command.op \in {"pair", "addcap"} /\ Upsert
  <2>1. record \in Record /\ CapsWellFormed(record.caps)
    BY <1>0, <1>1 DEF Inv, TypeOK, Upserting
  <2>2. CASE \E i \in 1..Len(store) : /\ Position(store, i, record.device_id)
                                      /\ store' = [store EXCEPT ![i] = record]
    <3>1. PICK i \in 1..Len(store) : /\ Position(store, i, record.device_id)
                                     /\ store' = [store EXCEPT ![i] = record]
      BY <2>2
    <3>2. store[i].device_id = record.device_id
      BY <1>0, <3>1, PositionFacts
    <3>. QED BY <1>0, <2>1, <3>1, <3>2, ReplaceFacts, ReplaceWellFormed
  <2>3. CASE /\ ~Holds(store, record.device_id) /\ Len(store) < MaxRecords
             /\ store' = Append(store, record)
    BY <1>0, <2>1, <2>3, AppendFacts, AppendWellFormed
  <2>. QED BY <1>1, <2>2, <2>3 DEF Upsert
<1>2. CASE command.op = "remove" /\ Remove
  BY <1>0, <1>2, ShiftDownFacts, ShiftDownWellFormed DEF Remove
<1>3. CASE command.op = "rename" /\ Rename
  <2>1. PICK i \in 1..Len(store) : store' = [store EXCEPT ![i].label = command.label]
    BY <1>3 DEF Rename
  <2>. DEFINE r == [store[i] EXCEPT !.label = command.label]
  <2>2. command.label \in Labels
    BY <1>0, <1>3 DEF Commands
  <2>3. store[i] \in Record
    BY <1>0
  <2>4. r \in Record /\ r.device_id = store[i].device_id /\ r.caps = store[i].caps
    BY <2>2, <2>3 DEF Record
  <2>5. CapsWellFormed(r.caps)
    BY <1>0, <2>4 DEF WellFormed
  <2>6. store' = [store EXCEPT ![i] = r]
    BY <2>1
  <2>. HIDE DEF r
  <2>. QED BY <1>0, <2>4, <2>5, <2>6, ReplaceFacts, ReplaceWellFormed
<1>. QED BY <1>1, <1>2, <1>3 DEF Change

(* The invariant holds initially.                                          *)
LEMMA InitInv == Init => Inv
<1>. SUFFICES ASSUME Init PROVE Inv
  OBVIOUS
<1>1. PICK kind \in BlobKinds : blob = EmptyBlob(kind)
  BY DEF Init
<1>2. blob \in [kind : BlobKinds, records : Seq(Record)] /\ blob.records = <<>>
  BY <1>1 DEF EmptyBlob
<1>3. TypeOK
  BY <1>2 DEF TypeOK, Init
<1>. QED BY <1>2, <1>3, EmptyWellFormed DEF Inv, Init, StoredWellFormed, Upserting

(* Every step keeps the invariant.                                         *)
LEMMA InvStep == Inv /\ [Next]_vars => Inv'
<1>. SUFFICES ASSUME Inv, [Next]_vars PROVE Inv'
  OBVIOUS
<1>1. CASE BootLoad
  <2>1. TypeOK'
    BY <1>1, LoadFacts DEF Inv, TypeOK, BootLoad
  <2>. QED BY <1>1, <2>1, LoadFacts DEF Inv, BootLoad, StoredWellFormed, Upserting
<1>2. CASE BootSave
  <2>1. /\ blob' = [kind |-> "records", records |-> store]
        /\ store \in Seq(Record) /\ WellFormed(store) /\ store' = <<>>
    BY <1>2 DEF Inv, TypeOK, BootSave, SetBlob
  <2>2. blob' \in [kind : BlobKinds, records : Seq(Record)] /\ blob'.records = store
    BY <2>1 DEF BlobKinds
  <2>3. TypeOK'
    BY <1>2, <2>1, <2>2, EmptyWellFormed DEF Inv, TypeOK, BootSave
  <2>. QED
    BY <1>2, <2>1, <2>2, <2>3, EmptyWellFormed
    DEF Inv, BootSave, StoredWellFormed, Upserting
<1>3. CASE Restart
  <2>1. TypeOK'
    BY <1>3, EmptyWellFormed DEF Inv, TypeOK, Restart
  <2>. QED BY <1>3, <2>1, EmptyWellFormed DEF Inv, Restart, StoredWellFormed, Upserting
<1>4. ASSUME NEW c \in Commands, Start(c) PROVE Inv'
  <2>1. c.op = "pair" => /\ Placeholder(c.id) \in Record
                         /\ Placeholder(c.id).device_id = c.id
                         /\ CapsWellFormed(Placeholder(c.id).caps)
    BY DEF Placeholder, Record, Commands, CapsWellFormed
  <2>2. c # NoCommand
    BY DEF Commands
  <2>3. TypeOK'
    BY <1>4, <2>1, <2>2 DEF Inv, TypeOK, Start
  <2>4. /\ StoredWellFormed' /\ WellFormed(store)'
        /\ pc' \notin {"change", "boot save"}
        /\ pc' = "get" => command'.op = "addcap"
    BY <1>4 DEF Inv, Start, StoredWellFormed
  <2>5. (Upserting => CapsWellFormed(record.caps))'
    BY <1>4, <2>1 DEF Start, Upserting
  <2>. QED BY <2>3, <2>4, <2>5 DEF Inv
<1>5. CASE AddCapability
  <2>. DEFINE new == [capability_id |-> command.cap, target |-> command.target]
  <2>1. PICK i \in 1..Len(blob.records) :
           Position(blob.records, i, command.id) /\ PutCapability(blob.records[i], new)
    BY <1>5 DEF AddCapability
  <2>2. /\ blob.records \in Seq(Record)
        /\ blob.records[i] \in Record /\ CapsWellFormed(blob.records[i].caps)
    <3>1. blob.records \in Seq(Record) /\ WellFormed(blob.records)
      BY DEF Inv, TypeOK, StoredWellFormed
    <3>. QED BY <3>1 DEF WellFormed
  <2>3. blob.records[i].device_id = command.id
    BY <2>1, <2>2, PositionFacts
  <2>4. command.op = "addcap" /\ command \in Commands
    BY <1>5 DEF Inv, TypeOK, AddCapability
  <2>5. new \in Capability
    BY <2>4 DEF Commands, Capability
  <2>6. /\ record' \in Record /\ record'.device_id = command.id
        /\ CapsWellFormed(record'.caps)
    BY <2>1, <2>2, <2>3, <2>5, PutCapabilityFacts
  <2>7. TypeOK'
    BY <1>5, <2>6 DEF Inv, TypeOK, AddCapability
  <2>. QED
    BY <1>5, <2>6, <2>7 DEF Inv, AddCapability, StoredWellFormed, Upserting
<1>6. CASE AddCapabilityFails
  BY <1>6, ReplyKeepsInv DEF AddCapabilityFails, Fail, Inv, TypeOK
<1>7. CASE Load
  <2>1. TypeOK'
    BY <1>7, LoadFacts DEF Inv, TypeOK, Load
  <2>. QED BY <1>7, <2>1, LoadFacts DEF Inv, Load, StoredWellFormed, Upserting
<1>8. CASE LoadError
  BY <1>8, ReplyKeepsInv DEF LoadError, Fail, Inv, TypeOK
<1>9. CASE Change
  <2>1. TypeOK'
    BY <1>9, ChangeKeepsStore DEF Inv, TypeOK, Change
  <2>. QED
    BY <1>9, <2>1, ChangeKeepsStore DEF Inv, Change, StoredWellFormed, Upserting
<1>10. CASE ChangeFails
  BY <1>10, ReplyKeepsInv DEF ChangeFails, Fail, Inv, TypeOK
<1>11. CASE Save
  <2>1. /\ blob' = [kind |-> "records", records |-> store]
        /\ store \in Seq(Record) /\ WellFormed(store)
    BY <1>11 DEF Inv, TypeOK, Save, SetBlob
  <2>2. blob' \in [kind : BlobKinds, records : Seq(Record)] /\ blob'.records = store
    BY <2>1 DEF BlobKinds
  <2>3. TypeOK'
    BY <1>11, <2>2 DEF Inv, TypeOK, Save
  <2>. QED BY <1>11, <2>1, <2>2, <2>3 DEF Inv, Save, StoredWellFormed, Upserting
<1>12. CASE SaveFails
  BY <1>12, ReplyKeepsInv DEF SaveFails, Fail, Inv, TypeOK
<1>13. CASE CommitFails
  BY <1>13, ReplyKeepsInv DEF CommitFails, Fail, Inv, TypeOK
<1>14. CASE CommitAndReply
  BY <1>14, ReplyKeepsInv DEF CommitAndReply, Inv, TypeOK
<1>15. CASE UNCHANGED vars
  BY <1>15 DEF vars, Inv, TypeOK, StoredWellFormed, Upserting
<1>. QED
  BY <1>1, <1>2, <1>3, <1>4, <1>5, <1>6, <1>7, <1>8, <1>9, <1>10, <1>11, <1>12,
     <1>13, <1>14, <1>15 DEF Next

(* The invariant holds of every reachable state: in particular the copy a  *)
(* command changes is what NVS holds, and nothing it writes is malformed.  *)
THEOREM InvCorrect == Spec => []Inv
<1>. QED BY InitInv, InvStep, PTL DEF Spec

(* Every variable keeps its kind.                                          *)
THEOREM TypeCorrect == Spec => []TypeOK
<1>1. Inv => TypeOK
  BY DEF Inv
<1>. QED BY <1>1, InvCorrect, PTL

(* No sequence of commands, failures and restarts leaves a blob with a     *)
(* duplicate or an excess record or capability.                            *)
THEOREM StoredWellFormedCorrect == Spec => []StoredWellFormed
<1>1. Inv => StoredWellFormed
  BY DEF Inv
<1>. QED BY <1>1, InvCorrect, PTL
=============================================================================
