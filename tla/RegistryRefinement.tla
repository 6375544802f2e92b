------------------------- MODULE RegistryRefinement -------------------------
(***************************************************************************)
(* The proof that the device registry implements RegistryContents: the     *)
(* initial states map to initial states, and every step to a step or to a  *)
(* stutter.                                                                *)
(***************************************************************************)
EXTENDS DeviceRegistryProofs, FiniteSetTheorems

USE RegistryAssumption, NoCommandAssumption

----------------------------------------------------------------------------
(* The capabilities of a record, as a function.                            *)

CapKeys(caps) == { caps[k].capability_id : k \in 1..Len(caps) }

(* An identifier has the target of the only capability that has it.        *)
LEMMA CapsOfFacts ==
    ASSUME NEW caps \in Seq(Capability), CapsWellFormed(caps)
    PROVE  /\ DOMAIN CapsOf(caps) = CapKeys(caps)
           /\ \A k \in 1..Len(caps) :
                 CapsOf(caps)[caps[k].capability_id] = caps[k].target
<1>1. DOMAIN CapsOf(caps) = CapKeys(caps)
  BY DEF CapsOf, CapKeys
<1>2. ASSUME NEW k \in 1..Len(caps)
      PROVE  CapsOf(caps)[caps[k].capability_id] = caps[k].target
  <2>. DEFINE c == caps[k].capability_id
              l == CHOOSE j \in 1..Len(caps) : caps[j].capability_id = c
  <2>1. l \in 1..Len(caps) /\ caps[l].capability_id = c
    OBVIOUS
  <2>2. l = k
    BY <2>1 DEF CapsWellFormed
  <2>3. c \in CapKeys(caps)
    BY DEF CapKeys
  <2>4. CapsOf(caps)[c] = caps[l].target
    BY <2>3 DEF CapsOf, CapKeys
  <2>. QED BY <2>2, <2>4
<1>. QED BY <1>1, <1>2

(* Two lists of capabilities give the same function if they agree.         *)
LEMMA CapsOfIs ==
    ASSUME NEW caps \in Seq(Capability), CapsWellFormed(caps), NEW f,
           f = [c \in CapKeys(caps) |-> f[c]],
           \A k \in 1..Len(caps) : f[caps[k].capability_id] = caps[k].target
    PROVE  CapsOf(caps) = f
<1>1. ASSUME NEW c \in CapKeys(caps) PROVE CapsOf(caps)[c] = f[c]
  <2>1. PICK k \in 1..Len(caps) : c = caps[k].capability_id
    BY DEF CapKeys
  <2>2. CapsOf(caps)[caps[k].capability_id] = caps[k].target
    BY CapsOfFacts
  <2>. QED BY <2>1, <2>2
<1>2. CapsOf(caps) = [c \in CapKeys(caps) |-> CapsOf(caps)[c]]
  BY DEF CapsOf, CapKeys
<1>. QED BY <1>1, <1>2

(* There are as many identifiers as capabilities.                          *)
LEMMA CapKeysCardinality ==
    ASSUME NEW caps \in Seq(Capability), CapsWellFormed(caps)
    PROVE  Cardinality(CapKeys(caps)) = Len(caps)
<1>. DEFINE f == [k \in 1..Len(caps) |-> caps[k].capability_id]
<1>1. f \in Bijection(1..Len(caps), CapKeys(caps))
  <2>1. f \in [1..Len(caps) -> CapKeys(caps)]
    BY DEF CapKeys
  <2>2. \A k, l \in 1..Len(caps) : f[k] = f[l] => k = l
    BY DEF CapsWellFormed
  <2>3. \A c \in CapKeys(caps) : \E k \in 1..Len(caps) : f[k] = c
    BY DEF CapKeys
  <2>. QED
    BY <2>1, <2>2, <2>3 DEF Bijection, Injection, Surjection, IsInjective
<1>2. ExistsBijection(1..Len(caps), CapKeys(caps))
  BY <1>1 DEF ExistsBijection
<1>3. Len(caps) \in Nat
  OBVIOUS
<1>. HIDE DEF f
<1>. QED BY <1>2, <1>3, FS_CountingElements

(* A capability put on a record is put on its function.                    *)
LEMMA PutCapabilityEffect ==
    ASSUME NEW found \in Record, NEW new \in Capability,
           CapsWellFormed(found.caps), PutCapability(found, new)
    PROVE  LET caps == CapsOf(found.caps) IN
           /\ record'.label = found.label
           /\ \/ new.capability_id \in DOMAIN caps
              \/ Cardinality(DOMAIN caps) < MaxCaps
           /\ CapsOf(record'.caps)
                 = Contents!Put(caps, new.capability_id, new.target)
<1>. DEFINE caps == found.caps
            f == Contents!Put(CapsOf(caps), new.capability_id, new.target)
<1>0. caps \in Seq(Capability)
  BY DEF Record
<1>1. /\ DOMAIN CapsOf(caps) = CapKeys(caps)
      /\ \A k \in 1..Len(caps) : CapsOf(caps)[caps[k].capability_id] = caps[k].target
  BY <1>0, CapsOfFacts
<1>2. /\ f = [c \in CapKeys(caps) \cup {new.capability_id} |-> f[c]]
      /\ f[new.capability_id] = new.target
      /\ \A c \in CapKeys(caps) : c # new.capability_id => f[c] = CapsOf(caps)[c]
  BY <1>1 DEF Contents!Put
<1>3. CapsWellFormed(record'.caps) /\ record' \in Record
  BY PutCapabilityFacts
<1>4. record'.caps \in Seq(Capability)
  BY <1>3 DEF Record
<1>. HIDE DEF f
<1>5. CASE \E k \in SameCapability(caps, new) : record' = [found EXCEPT !.caps[k] = new]
  <2>1. PICK k \in 1..Len(caps) : /\ caps[k].capability_id = new.capability_id
                                  /\ record' = [found EXCEPT !.caps[k] = new]
    BY <1>5 DEF SameCapability
  <2>2. record'.caps = [caps EXCEPT ![k] = new] /\ record'.label = found.label
    BY <2>1 DEF Record
  <2>3. /\ Len(record'.caps) = Len(caps)
        /\ \A i \in 1..Len(caps) : record'.caps[i] = IF i = k THEN new ELSE caps[i]
    BY <1>0, <2>2, ReplaceFacts
  <2>4. CapKeys(record'.caps) = CapKeys(caps) /\ new.capability_id \in CapKeys(caps)
    BY <2>1, <2>3 DEF CapKeys
  <2>5. \A i \in 1..Len(record'.caps) :
           f[record'.caps[i].capability_id] = record'.caps[i].target
    <3>1. ASSUME NEW i \in 1..Len(caps), i # k
          PROVE  caps[i].capability_id # new.capability_id
                 /\ caps[i].capability_id \in CapKeys(caps)
      BY <2>1, <3>1 DEF CapsWellFormed, CapKeys
    <3>. QED BY <1>1, <1>2, <2>3, <3>1
  <2>6. f = [c \in CapKeys(record'.caps) |-> f[c]]
    BY <1>2, <2>4
  <2>7. CapsOf(record'.caps) = f
    BY <1>3, <1>4, <2>5, <2>6, CapsOfIs
  <2>. QED BY <1>1, <2>2, <2>4, <2>7 DEF f
<1>6. CASE /\ SameCapability(caps, new) = {}
           /\ Len(caps) < MaxCaps
           /\ record' = [found EXCEPT !.caps = Append(@, new)]
  <2>1. record'.caps = Append(caps, new) /\ record'.label = found.label
    BY <1>6 DEF Record
  <2>2. /\ Len(record'.caps) = Len(caps) + 1
        /\ \A i \in 1..(Len(caps) + 1) :
              record'.caps[i] = IF i = Len(caps) + 1 THEN new ELSE caps[i]
    BY <1>0, <2>1, AppendFacts
  <2>3. \A k \in 1..Len(caps) : caps[k].capability_id # new.capability_id
    BY <1>6 DEF SameCapability
  <2>4. CapKeys(record'.caps) = CapKeys(caps) \cup {new.capability_id}
    <3>1. CapKeys(record'.caps) \subseteq CapKeys(caps) \cup {new.capability_id}
      BY <2>2 DEF CapKeys
    <3>2. ASSUME NEW k \in 1..Len(caps)
          PROVE  caps[k].capability_id \in CapKeys(record'.caps)
      BY <1>0, <2>2 DEF CapKeys
    <3>3. new.capability_id \in CapKeys(record'.caps)
      BY <1>0, <2>2 DEF CapKeys
    <3>. QED BY <3>1, <3>2, <3>3 DEF CapKeys
  <2>5. \A i \in 1..Len(record'.caps) :
           f[record'.caps[i].capability_id] = record'.caps[i].target
    <3>1. \A i \in 1..Len(caps) : caps[i].capability_id \in CapKeys(caps)
      BY DEF CapKeys
    <3>. QED BY <1>0, <1>1, <1>2, <2>2, <2>3, <3>1
  <2>6. f = [c \in CapKeys(record'.caps) |-> f[c]]
    BY <1>2, <2>4
  <2>7. CapsOf(record'.caps) = f
    BY <1>3, <1>4, <2>5, <2>6, CapsOfIs
  <2>8. Cardinality(DOMAIN CapsOf(caps)) < MaxCaps
    BY <1>0, <1>1, <1>6, CapKeysCardinality
  <2>. QED BY <2>1, <2>7, <2>8 DEF f
<1>. QED BY <1>5, <1>6 DEF PutCapability
----------------------------------------------------------------------------
(* The records of a store, as a function.                                  *)

(* An identifier has the device of the only record that has it.            *)
LEMMA DevicesOfFacts ==
    ASSUME NEW s \in Seq(Record), WellFormed(s)
    PROVE  /\ DOMAIN DevicesOf(s) = Known(s)
           /\ \A i \in 1..Len(s) : DevicesOf(s)[s[i].device_id] = DeviceOf(s[i])
<1>1. DOMAIN DevicesOf(s) = Known(s)
  BY DEF DevicesOf
<1>2. ASSUME NEW i \in 1..Len(s)
      PROVE  DevicesOf(s)[s[i].device_id] = DeviceOf(s[i])
  <2>. DEFINE id == s[i].device_id
              j == CHOOSE k \in 1..Len(s) : s[k].device_id = id
  <2>1. j \in 1..Len(s) /\ s[j].device_id = id
    OBVIOUS
  <2>2. j = i
    BY <2>1 DEF WellFormed
  <2>3. id \in Known(s)
    BY DEF Known
  <2>4. DevicesOf(s)[id] = DeviceOf(s[j])
    BY <2>3 DEF DevicesOf
  <2>. QED BY <2>2, <2>4
<1>. QED BY <1>1, <1>2

(* A function that agrees with the records is the store's.                 *)
LEMMA DevicesOfIs ==
    ASSUME NEW s \in Seq(Record), WellFormed(s), NEW f,
           f = [id \in Known(s) |-> f[id]],
           \A i \in 1..Len(s) : f[s[i].device_id] = DeviceOf(s[i])
    PROVE  DevicesOf(s) = f
<1>1. ASSUME NEW id \in Known(s) PROVE DevicesOf(s)[id] = f[id]
  <2>1. PICK i \in 1..Len(s) : id = s[i].device_id
    BY DEF Known
  <2>2. DevicesOf(s)[s[i].device_id] = DeviceOf(s[i])
    BY DevicesOfFacts
  <2>. QED BY <2>1, <2>2
<1>2. DevicesOf(s) = [id \in Known(s) |-> DevicesOf(s)[id]]
  BY DEF DevicesOf
<1>. QED BY <1>1, <1>2

(* There are as many identifiers as records.                               *)
LEMMA KnownCardinality ==
    ASSUME NEW s \in Seq(Record), WellFormed(s)
    PROVE  Cardinality(Known(s)) = Len(s)
<1>. DEFINE f == [i \in 1..Len(s) |-> s[i].device_id]
<1>1. f \in Bijection(1..Len(s), Known(s))
  <2>1. f \in [1..Len(s) -> Known(s)]
    BY DEF Known
  <2>2. \A i, j \in 1..Len(s) : f[i] = f[j] => i = j
    BY DEF WellFormed
  <2>3. \A id \in Known(s) : \E i \in 1..Len(s) : f[i] = id
    BY DEF Known
  <2>. QED
    BY <2>1, <2>2, <2>3 DEF Bijection, Injection, Surjection, IsInjective
<1>2. ExistsBijection(1..Len(s), Known(s))
  BY <1>1 DEF ExistsBijection
<1>3. Len(s) \in Nat
  OBVIOUS
<1>. HIDE DEF f
<1>. QED BY <1>2, <1>3, FS_CountingElements

(* No records, no devices.                                                 *)
LEMMA NoDevices == DevicesOf(<<>>) = <<>>
  BY DEF DevicesOf, Known

(* A record replaced by one of the same identifier.                        *)
LEMMA ReplaceEffect ==
    ASSUME NEW s \in Seq(Record), WellFormed(s), NEW k \in 1..Len(s),
           NEW r \in Record, r.device_id = s[k].device_id, CapsWellFormed(r.caps)
    PROVE  /\ r.device_id \in Known(s)
           /\ DevicesOf([s EXCEPT ![k] = r])
                 = Contents!Put(DevicesOf(s), r.device_id, DeviceOf(r))
<1>. DEFINE t == [s EXCEPT ![k] = r]
            f == Contents!Put(DevicesOf(s), r.device_id, DeviceOf(r))
<1>1. /\ t \in Seq(Record) /\ Len(t) = Len(s) /\ WellFormed(t)
      /\ \A i \in 1..Len(s) : t[i] = IF i = k THEN r ELSE s[i]
  BY ReplaceFacts, ReplaceWellFormed
<1>2. /\ DOMAIN DevicesOf(s) = Known(s)
      /\ \A i \in 1..Len(s) : DevicesOf(s)[s[i].device_id] = DeviceOf(s[i])
  BY DevicesOfFacts
<1>3. /\ f = [id \in Known(s) \cup {r.device_id} |-> f[id]]
      /\ f[r.device_id] = DeviceOf(r)
      /\ \A id \in Known(s) : id # r.device_id => f[id] = DevicesOf(s)[id]
  BY <1>2 DEF Contents!Put
<1>. HIDE DEF t, f
<1>4. Known(t) = Known(s) /\ r.device_id \in Known(s)
  BY <1>1 DEF Known
<1>5. ASSUME NEW i \in 1..Len(s)
      PROVE  f[t[i].device_id] = DeviceOf(t[i])
  <2>1. i # k => /\ s[i].device_id # r.device_id
                 /\ s[i].device_id \in Known(s)
    BY DEF WellFormed, Known
  <2>. QED BY <1>1, <1>2, <1>3, <2>1
<1>6. f = [id \in Known(t) |-> f[id]]
  BY <1>3, <1>4
<1>7. DevicesOf(t) = f
  BY <1>1, <1>5, <1>6, DevicesOfIs
<1>. QED BY <1>4, <1>7 DEF t, f

(* A record appended.                                                      *)
LEMMA AppendEffect ==
    ASSUME NEW s \in Seq(Record), WellFormed(s), Len(s) < MaxRecords,
           NEW r \in Record, ~Holds(s, r.device_id), CapsWellFormed(r.caps)
    PROVE  DevicesOf(Append(s, r))
              = Contents!Put(DevicesOf(s), r.device_id, DeviceOf(r))
<1>. DEFINE t == Append(s, r)
            f == Contents!Put(DevicesOf(s), r.device_id, DeviceOf(r))
<1>1. /\ t \in Seq(Record) /\ Len(t) = Len(s) + 1 /\ WellFormed(t)
      /\ \A i \in 1..Len(t) : t[i] = IF i = Len(s) + 1 THEN r ELSE s[i]
  BY AppendFacts, AppendWellFormed
<1>2. /\ DOMAIN DevicesOf(s) = Known(s)
      /\ \A i \in 1..Len(s) : DevicesOf(s)[s[i].device_id] = DeviceOf(s[i])
  BY DevicesOfFacts
<1>3. /\ f = [id \in Known(s) \cup {r.device_id} |-> f[id]]
      /\ f[r.device_id] = DeviceOf(r)
      /\ \A id \in Known(s) : id # r.device_id => f[id] = DevicesOf(s)[id]
  BY <1>2 DEF Contents!Put
<1>0. Len(s) \in Nat
  OBVIOUS
<1>. HIDE DEF t, f
<1>4. Known(t) = Known(s) \cup {r.device_id}
  <2>1. Known(t) \subseteq Known(s) \cup {r.device_id}
    BY <1>0, <1>1 DEF Known
  <2>2. ASSUME NEW i \in 1..Len(s)
        PROVE  s[i].device_id \in Known(t)
    BY <1>0, <1>1 DEF Known
  <2>3. r.device_id \in Known(t)
    BY <1>0, <1>1 DEF Known
  <2>. QED BY <2>1, <2>2, <2>3 DEF Known
<1>5. ASSUME NEW i \in 1..Len(t)
      PROVE  f[t[i].device_id] = DeviceOf(t[i])
  <2>1. CASE i = Len(s) + 1
    BY <1>1, <1>3, <2>1
  <2>2. CASE i # Len(s) + 1
    <3>1. i \in 1..Len(s) /\ t[i] = s[i]
      BY <1>0, <1>1, <2>2
    <3>2. s[i].device_id # r.device_id /\ s[i].device_id \in Known(s)
      BY <3>1 DEF Holds, Known
    <3>. QED BY <1>2, <1>3, <3>1, <3>2
  <2>. QED BY <2>1, <2>2
<1>6. f = [id \in Known(t) |-> f[id]]
  BY <1>3, <1>4
<1>7. DevicesOf(t) = f
  BY <1>1, <1>5, <1>6, DevicesOfIs
<1>. QED BY <1>7 DEF t, f

(* A record removed.                                                       *)
LEMMA ShiftDownEffect ==
    ASSUME NEW s \in Seq(Record), WellFormed(s), NEW k \in 1..Len(s)
    PROVE  /\ s[k].device_id \in Known(s)
           /\ DevicesOf(ShiftDown(s, k)) = Contents!Delete(DevicesOf(s), s[k].device_id)
<1>. DEFINE t == ShiftDown(s, k)
            id == s[k].device_id
            f == Contents!Delete(DevicesOf(s), id)
            Origin(i) == IF i < k THEN i ELSE i + 1
            Target(i) == IF i < k THEN i ELSE i - 1
<1>0. Len(s) \in Nat
  OBVIOUS
<1>1. /\ t \in Seq(Record) /\ Len(t) = Len(s) - 1 /\ WellFormed(t)
      /\ \A i \in 1..Len(t) : /\ Origin(i) \in 1..Len(s) \ {k}
                             /\ t[i] = s[Origin(i)]
  BY ShiftDownFacts, ShiftDownWellFormed
<1>2. \A i \in 1..Len(s) : i # k => /\ Target(i) \in 1..Len(t)
                                   /\ t[Target(i)] = s[i]
  BY <1>0, <1>1
<1>3. /\ DOMAIN DevicesOf(s) = Known(s)
      /\ \A i \in 1..Len(s) : DevicesOf(s)[s[i].device_id] = DeviceOf(s[i])
  BY DevicesOfFacts
<1>4. /\ f = [x \in Known(s) \ {id} |-> f[x]]
      /\ \A x \in Known(s) \ {id} : f[x] = DevicesOf(s)[x]
  BY <1>3 DEF Contents!Delete
<1>5. \A i \in 1..Len(s) : i # k => s[i].device_id # id
  BY DEF WellFormed
<1>. HIDE DEF t, f, Origin, Target, id
<1>6. Known(t) = Known(s) \ {id}
  <2>1. ASSUME NEW i \in 1..Len(t)
        PROVE  t[i].device_id \in Known(s) \ {id}
    BY <1>1, <1>5 DEF Known
  <2>2. ASSUME NEW i \in 1..Len(s), s[i].device_id # id
        PROVE  s[i].device_id \in Known(t)
    <3>1. i # k
      BY <2>2 DEF id
    <3>. QED BY <1>2, <3>1 DEF Known
  <2>. QED BY <2>1, <2>2 DEF Known
<1>7. ASSUME NEW i \in 1..Len(t)
      PROVE  f[t[i].device_id] = DeviceOf(t[i])
  <2>1. /\ Origin(i) \in 1..Len(s) \ {k}
        /\ t[i] = s[Origin(i)]
    BY <1>1
  <2>2. s[Origin(i)].device_id \in Known(s) \ {id}
    BY <1>5, <2>1 DEF Known
  <2>. QED BY <1>3, <1>4, <2>1, <2>2
<1>8. f = [x \in Known(t) |-> f[x]]
  BY <1>4, <1>6
<1>9. DevicesOf(t) = f
  BY <1>1, <1>7, <1>8, DevicesOfIs
<1>10. id \in Known(s)
  BY DEF id, Known
<1>. QED BY <1>9, <1>10 DEF t, f, id
----------------------------------------------------------------------------
(* What a command prepares is its effect.                                  *)

(* RegistryContents counts as this module does.                            *)
LEMMA SameCardinality == \A S : Contents!Cardinality(S) = Cardinality(S)
  BY DEF Contents!Cardinality, Cardinality

(* The change of the loaded store is the effect of the command on it.      *)
LEMMA ChangeEffect ==
    ASSUME Inv, Prepared, Change
    PROVE  Contents!Effect(command, DevicesOf(store), DevicesOf(store'))
<1>0. /\ store \in Seq(Record) /\ WellFormed(store) /\ pc = "change"
      /\ command \in Commands /\ store = blob.records
      /\ Known(store) = DOMAIN DevicesOf(store)
      /\ Cardinality(Known(store)) = Len(store)
  BY DevicesOfFacts, KnownCardinality DEF Inv, TypeOK, Change
<1>1. CASE command.op \in {"pair", "addcap"} /\ Upsert
  <2>1. /\ record \in Record /\ CapsWellFormed(record.caps)
        /\ record.device_id = command.id
    BY <1>0, <1>1 DEF Inv, TypeOK, Upserting
  <2>. DEFINE f == Contents!Put(DevicesOf(store), command.id, DeviceOf(record))
  <2>2. /\ DevicesOf(store') = f
        /\ command.id \in Known(store) \/ Len(store) < MaxRecords
    <3>1. CASE \E i \in 1..Len(store) : /\ Position(store, i, record.device_id)
                                        /\ store' = [store EXCEPT ![i] = record]
      <4>1. PICK i \in 1..Len(store) : /\ Position(store, i, record.device_id)
                                       /\ store' = [store EXCEPT ![i] = record]
        BY <3>1
      <4>2. store[i].device_id = record.device_id
        BY <1>0, <4>1, PositionFacts
      <4>. QED BY <1>0, <2>1, <4>1, <4>2, ReplaceEffect
    <3>2. CASE /\ ~Holds(store, record.device_id) /\ Len(store) < MaxRecords
               /\ store' = Append(store, record)
      BY <1>0, <2>1, <3>2, AppendEffect
    <3>. QED BY <1>1, <3>1, <3>2 DEF Upsert
  <2>3. CASE command.op = "pair"
    <3>1. record = Placeholder(command.id)
      BY <1>0, <2>3 DEF Prepared, Upserting
    <3>2. command.label = DefaultLabel
      BY <1>0, <2>3 DEF Commands
    <3>3. CapsOf(<<>>) = <<>>
      BY DEF CapsOf
    <3>4. DeviceOf(record) = [label |-> command.label, caps |-> << >>]
      BY <3>1, <3>2, <3>3 DEF Placeholder, DeviceOf
    <3>5. \/ command.id \in DOMAIN DevicesOf(store)
          \/ Contents!Cardinality(DOMAIN DevicesOf(store)) < MaxRecords
      BY <1>0, <2>2, SameCardinality
    <3>. QED BY <2>2, <2>3, <3>4, <3>5 DEF Contents!Effect
  <2>4. CASE command.op = "addcap"
    <3>1. Contents!Effect(command, DevicesOf(store), f)
      BY <1>0, <2>4 DEF Prepared, Upserting, Devices
    <3>. QED BY <2>2, <3>1
  <2>. QED BY <1>1, <2>3, <2>4
<1>2. CASE command.op = "remove" /\ Remove
  <2>1. PICK i \in 1..Len(store) : /\ Position(store, i, command.id)
                                   /\ store' = ShiftDown(store, i)
    BY <1>2 DEF Remove
  <2>2. store[i].device_id = command.id
    BY <1>0, <2>1, PositionFacts
  <2>3. /\ command.id \in DOMAIN DevicesOf(store)
        /\ DevicesOf(store') = Contents!Delete(DevicesOf(store), command.id)
    BY <1>0, <2>1, <2>2, ShiftDownEffect
  <2>. QED BY <1>2, <2>3 DEF Contents!Effect
<1>3. CASE command.op = "rename" /\ Rename
  <2>1. PICK i \in 1..Len(store) : /\ Position(store, i, command.id)
                                   /\ store' = [store EXCEPT ![i].label = command.label]
    BY <1>3 DEF Rename
  <2>. DEFINE r == [store[i] EXCEPT !.label = command.label]
  <2>2. command.label \in Labels
    BY <1>0, <1>3 DEF Commands
  <2>3. store[i].device_id = command.id /\ store[i] \in Record
    BY <1>0, <2>1, PositionFacts
  <2>4. /\ r \in Record /\ r.device_id = command.id
        /\ r.caps = store[i].caps /\ r.label = command.label
    BY <2>2, <2>3 DEF Record
  <2>5. CapsWellFormed(r.caps)
    BY <1>0, <2>4 DEF WellFormed
  <2>6. store' = [store EXCEPT ![i] = r]
    BY <2>1
  <2>. HIDE DEF r
  <2>7. /\ command.id \in Known(store)
        /\ DevicesOf(store')
             = Contents!Put(DevicesOf(store), command.id, DeviceOf(r))
    BY <1>0, <2>3, <2>4, <2>5, <2>6, ReplaceEffect
  <2>8. DevicesOf(store)[command.id].caps = CapsOf(store[i].caps)
    <3>1. DevicesOf(store)[command.id] = DeviceOf(store[i])
      BY <1>0, <2>3, DevicesOfFacts
    <3>. QED BY <3>1 DEF DeviceOf
  <2>9. DeviceOf(r) = [label |-> command.label, caps |-> DevicesOf(store)[command.id].caps]
    BY <2>4, <2>8 DEF DeviceOf
  <2>. QED BY <1>0, <1>3, <2>7, <2>9 DEF Contents!Effect
<1>. QED BY <1>1, <1>2, <1>3 DEF Change

(* The copy of a device with the capability put on it is the effect of the *)
(* command on that device.                                                 *)
LEMMA AddCapabilityEffect ==
    ASSUME Inv, AddCapability
    PROVE  /\ command.id \in Known(blob.records)
           /\ Contents!Effect(command, Devices,
                  Contents!Put(Devices, command.id, DeviceOf(record')))
<1>. DEFINE new == [capability_id |-> command.cap, target |-> command.target]
            records == blob.records
<1>1. /\ records \in Seq(Record) /\ WellFormed(records)
      /\ command.op = "addcap" /\ command \in Commands
  BY DEF Inv, TypeOK, StoredWellFormed, AddCapability
<1>2. PICK i \in 1..Len(records) :
         Position(records, i, command.id) /\ PutCapability(records[i], new)
  BY DEF AddCapability
<1>3. /\ records[i].device_id = command.id /\ records[i] \in Record
      /\ CapsWellFormed(records[i].caps)
  BY <1>1, <1>2, PositionFacts DEF WellFormed
<1>4. new \in Capability /\ new.capability_id = command.cap /\ new.target = command.target
  BY <1>1 DEF Commands, Capability
<1>. DEFINE caps == CapsOf(records[i].caps)
<1>5. /\ record'.label = records[i].label
      /\ command.cap \in DOMAIN caps \/ Cardinality(DOMAIN caps) < MaxCaps
      /\ CapsOf(record'.caps) = Contents!Put(caps, command.cap, command.target)
  BY <1>2, <1>3, <1>4, PutCapabilityEffect
<1>6. /\ command.id \in Known(records) /\ DOMAIN Devices = Known(records)
      /\ Devices[command.id] = [label |-> records[i].label, caps |-> caps]
  BY <1>1, <1>3, DevicesOfFacts DEF Devices, DeviceOf, Known
<1>7. DeviceOf(record') = [label |-> Devices[command.id].label,
                           caps |-> Contents!Put(Devices[command.id].caps,
                                                 command.cap, command.target)]
  BY <1>5, <1>6 DEF DeviceOf
<1>8. /\ command.id \in DOMAIN Devices
      /\ \/ command.cap \in DOMAIN Devices[command.id].caps
         \/ Contents!Cardinality(DOMAIN Devices[command.id].caps) < MaxCaps
  BY <1>5, <1>6, SameCardinality
<1>. QED BY <1>1, <1>6, <1>7, <1>8 DEF Contents!Effect

(* Every step keeps what has been prepared.                                *)
LEMMA PreparedStep ==
    ASSUME Inv, Prepared, [Next]_vars
    PROVE  Prepared'
<1>1. CASE UNCHANGED vars
  BY <1>1 DEF vars, Prepared, Upserting, Devices, Contents!Effect
<1>2. ASSUME NEW c \in Commands, Start(c) PROVE Prepared'
  BY <1>2 DEF Start, Prepared, Upserting
<1>3. CASE AddCapability
  <2>1. command.op = "addcap"
    BY <1>3 DEF Inv, AddCapability
  <2>. QED
    BY <1>3, <2>1, AddCapabilityEffect
    DEF AddCapability, Prepared, Upserting, Devices, Contents!Effect
<1>4. CASE Load
  BY <1>4 DEF Load, Prepared, Upserting, Devices, Contents!Effect
<1>5. CASE Change
  <2>1. Contents!Effect(command, Devices, DevicesOf(store'))
    BY <1>5, ChangeEffect DEF Change, Inv, Devices
  <2>. QED
    BY <1>5, <2>1 DEF Change, Prepared, Upserting, Devices, Contents!Effect
<1>6. CASE pc' \in {"boot", "boot save", "idle", "commit"}
  BY <1>6 DEF Prepared, Upserting
<1>7. CASE BootLoad \/ BootSave \/ Restart
  BY <1>6, <1>7 DEF BootLoad, BootSave, Restart
<1>8. CASE AddCapabilityFails \/ LoadError \/ ChangeFails \/ SaveFails \/ CommitFails
  BY <1>6, <1>8
  DEF AddCapabilityFails, LoadError, ChangeFails, SaveFails, CommitFails, Fail, Reply
<1>9. CASE Save \/ CommitAndReply
  BY <1>6, <1>9 DEF Save, CommitAndReply, Reply
<1>. QED BY <1>1, <1>2, <1>3, <1>4, <1>5, <1>7, <1>8, <1>9 DEF Next

----------------------------------------------------------------------------
(* The refinement.                                                         *)

(* The registry begins without devices, whatever blob it finds.            *)
LEMMA InitRefines == Init => Contents!Init
<1>. SUFFICES ASSUME Init PROVE Contents!Init
  OBVIOUS
<1>1. Devices = <<>>
  BY NoDevices DEF Init, EmptyBlob, Devices
<1>. QED BY <1>1 DEF Init, Applied, Contents!Init

(* An answer without an effect, or after it.                               *)
LEMMA ReplyRefines ==
    ASSUME command # NoCommand, NEW ok \in BOOLEAN, Reply(ok), UNCHANGED blob,
           ok => Applied \/ command.op = "pair"
    PROVE  Contents!Answer
  BY DEF Reply, Applied, Devices, Contents!Answer

(* Every step is a step of the contents or changes nothing there.          *)
LEMMA StepRefines ==
    ASSUME Inv, Prepared, [Next]_vars
    PROVE  [Contents!Next]_(Contents!vars)
<1>. USE DEF Contents!Next
<1>1. CASE UNCHANGED vars
  BY <1>1 DEF vars, Devices, Applied, Contents!vars
<1>2. CASE BootLoad
  BY <1>2 DEF BootLoad, Devices, Applied, Contents!vars
<1>3. CASE BootSave
  <2>1. blob'.records = blob.records
    BY <1>3 DEF Inv, BootSave, SetBlob
  <2>. QED BY <1>3, <2>1 DEF BootSave, Devices, Applied, Contents!vars
<1>4. CASE Restart
  BY <1>4 DEF Restart, Devices, Applied, Contents!Restart
<1>5. ASSUME NEW c \in Commands, Start(c) PROVE Contents!Accept
  <2>1. command = NoCommand /\ c # NoCommand
    BY <1>5 DEF Inv, TypeOK, Start
  <2>2. UNCHANGED <<Devices, Applied>>
    BY <1>5 DEF Start, Devices, Applied
  <2>. QED BY <1>5, <2>1, <2>2 DEF Start, Contents!Accept
<1>6. CASE AddCapability \/ Load \/ Change
  BY <1>6 DEF AddCapability, Load, Change, Devices, Applied, Contents!vars
<1>7. CASE Save
  <2>1. blob'.records = store /\ pc = "save" /\ pc' = "commit"
    BY <1>7 DEF Save, SetBlob
  <2>2. Contents!Effect(command, Devices, DevicesOf(store))
    BY <2>1 DEF Prepared
  <2>3. Contents!Effect(command, Devices, Devices')
    BY <2>1, <2>2 DEF Devices
  <2>4. command # NoCommand
    BY <2>1 DEF Inv, TypeOK
  <2>. QED BY <1>7, <2>1, <2>3, <2>4 DEF Save, Applied, Contents!TakeEffect
<1>8. CASE AddCapabilityFails \/ LoadError \/ ChangeFails \/ SaveFails \/ CommitFails
  <2>1. command # NoCommand /\ Fail /\ UNCHANGED blob
    BY <1>8
    DEF Inv, TypeOK, AddCapabilityFails, LoadError, ChangeFails, SaveFails, CommitFails
  <2>2. Contents!Answer
    BY <2>1, ReplyRefines DEF Fail
  <2>. QED BY <2>2
<1>9. CASE CommitAndReply
  <2>1. command # NoCommand /\ Applied
    BY <1>9 DEF Inv, TypeOK, CommitAndReply, Applied
  <2>2. Contents!Answer
    BY <1>9, <2>1, ReplyRefines DEF CommitAndReply
  <2>. QED BY <2>2
<1>. QED BY <1>1, <1>2, <1>3, <1>4, <1>5, <1>6, <1>7, <1>8, <1>9 DEF Next

(* What a command writes is its effect on what NVS holds, although it was  *)
(* computed on copies loaded before.                                       *)
THEOREM PreparedCorrect == Spec => []Prepared
<1>1. Init => Prepared
  BY DEF Init, Prepared, Upserting
<1>2. Inv /\ Prepared /\ [Next]_vars => Prepared'
  BY PreparedStep
<1>. QED BY <1>1, <1>2, InvCorrect, PTL DEF Spec

(* The registry implements RegistryContents, for any identifiers and any   *)
(* limits: each command takes effect once or not at all, restarts and      *)
(* failures included.                                                      *)
THEOREM RegistryImplements == Spec => Implements
<1>1. Init => Contents!Init
  BY InitRefines
<1>2. Inv /\ Prepared /\ [Next]_vars => [Contents!Next]_(Contents!vars)
  BY StepRefines
<1>. QED
  BY <1>1, <1>2, InvCorrect, PreparedCorrect, PTL DEF Spec, Implements, Contents!Spec

(* An effect leaves each capability as it was, but those of a device that  *)
(* is removed or paired and the one that is put.                           *)
LEMMA EffectKeeps ==
    ASSUME NEW c, NEW old, NEW new, Contents!Effect(c, old, new),
           NEW id \in DOMAIN old, NEW cap \in DOMAIN old[id].caps,
           ~(c.id = id /\ c.op \in {"remove", "pair"}),
           ~(c.id = id /\ c.op = "addcap" /\ c.cap = cap)
    PROVE  /\ id \in DOMAIN new /\ cap \in DOMAIN new[id].caps
           /\ new[id].caps[cap] = old[id].caps[cap]
<1>1. CASE c.op = "remove"
  BY <1>1 DEF Contents!Effect, Contents!Delete
<1>2. CASE c.op = "pair"
  BY <1>2 DEF Contents!Effect, Contents!Put
<1>3. CASE c.op = "rename"
  BY <1>3 DEF Contents!Effect, Contents!Put
<1>4. CASE c.op = "addcap"
  BY <1>4 DEF Contents!Effect, Contents!Put
<1>. QED BY <1>1, <1>2, <1>3, <1>4 DEF Contents!Effect

(* A capability once stored stays as it is until a command about it, or a  *)
(* removal or pairing of its device, takes effect: no later load, store,   *)
(* failure or restart undoes an update, for any identifiers and limits.    *)
THEOREM CapabilitiesKeptCorrect == Spec => CapabilitiesKept
<1>1. ASSUME Inv, Prepared, [Next]_vars,
             NEW id \in DOMAIN Devices, NEW cap \in DOMAIN Devices[id].caps
      PROVE  Kept(id, cap) \/ Concerns(id, cap)
  <2>1. \/ command # NoCommand /\ Contents!Effect(command, Devices, Devices')
        \/ Devices' = Devices
    BY <1>1, StepRefines
    DEF Contents!Next, Contents!vars, Contents!Accept, Contents!TakeEffect,
        Contents!Answer, Contents!Restart
  <2>2. CASE command # NoCommand /\ Contents!Effect(command, Devices, Devices')
    BY <2>2, EffectKeeps DEF Kept, Concerns
  <2>3. CASE Devices' = Devices
    BY <2>3 DEF Kept
  <2>. QED BY <2>1, <2>2, <2>3
<1>2. Inv /\ Prepared /\ [Next]_vars =>
         [ \A id \in DOMAIN Devices : \A cap \in DOMAIN Devices[id].caps :
              Kept(id, cap) \/ Concerns(id, cap) ]_vars
  BY <1>1
<1>. QED BY <1>2, InvCorrect, PreparedCorrect, PTL DEF Spec, CapabilitiesKept

(* An effect done twice is done once.                                      *)
LEMMA EffectAgain ==
    ASSUME NEW c, NEW old, NEW new, Contents!Effect(c, old, new)
    PROVE  IF c.op = "remove" THEN c.id \notin DOMAIN new
                              ELSE Contents!Effect(c, new, new)
<1>1. ASSUME NEW f, NEW x, NEW y
      PROVE  /\ x \in DOMAIN Contents!Put(f, x, y) /\ Contents!Put(f, x, y)[x] = y
             /\ Contents!Put(Contents!Put(f, x, y), x, y) = Contents!Put(f, x, y)
  BY DEF Contents!Put
<1>2. CASE c.op = "remove"
  BY <1>2 DEF Contents!Effect, Contents!Delete
<1>3. CASE c.op = "pair"
  BY <1>1, <1>3 DEF Contents!Effect
<1>4. CASE c.op = "rename"
  <2>1. new = Contents!Put(old, c.id, [label |-> c.label, caps |-> old[c.id].caps])
    BY <1>4 DEF Contents!Effect
  <2>2. new[c.id].caps = old[c.id].caps /\ c.id \in DOMAIN new
    BY <1>1, <2>1
  <2>. QED BY <1>1, <1>4, <2>1, <2>2 DEF Contents!Effect
<1>5. CASE c.op = "addcap"
  <2>. DEFINE caps == Contents!Put(old[c.id].caps, c.cap, c.target)
              device == [label |-> old[c.id].label, caps |-> caps]
  <2>1. new = Contents!Put(old, c.id, device)
    BY <1>5 DEF Contents!Effect
  <2>2. new[c.id] = device /\ c.id \in DOMAIN new
    BY <1>1, <2>1
  <2>3. /\ c.cap \in DOMAIN new[c.id].caps
        /\ Contents!Put(new[c.id].caps, c.cap, c.target) = new[c.id].caps
        /\ new[c.id].label = old[c.id].label
    BY <1>1, <2>2
  <2>4. new = Contents!Put(new, c.id,
                 [label |-> new[c.id].label,
                  caps |-> Contents!Put(new[c.id].caps, c.cap, c.target)])
    BY <1>1, <2>1, <2>2, <2>3
  <2>. QED BY <1>5, <2>2, <2>3, <2>4 DEF Contents!Effect
<1>. QED BY <1>2, <1>3, <1>4, <1>5 DEF Contents!Effect

(* A client that is told of an error may send its command again, for any   *)
(* limits: what was written needs no more room and is not changed further. *)
THEOREM RetryIsHarmlessCorrect == Spec => []RetryIsHarmless
<1>1. Init => RetryIsHarmless
  BY DEF Init, RetryIsHarmless
<1>2. ASSUME Inv, Prepared, RetryIsHarmless, [Next]_vars PROVE RetryIsHarmless'
  <2>1. CASE Save
    <3>1. blob'.records = store /\ pc = "save" /\ command' = command
      BY <2>1 DEF Save, SetBlob
    <3>2. Contents!Effect(command, Devices, Devices')
      BY <1>2, <3>1 DEF Prepared, Devices
    <3>3. IF command.op = "remove" THEN command.id \notin DOMAIN Devices'
                                   ELSE Contents!Effect(command, Devices', Devices')
      BY <3>2, EffectAgain
    <3>. QED BY <3>1, <3>3 DEF RetryIsHarmless, Contents!Effect
  <2>2. CASE UNCHANGED vars
    BY <1>2, <2>2 DEF vars, RetryIsHarmless, Devices, Contents!Effect
  <2>3. CASE pc' # "commit"
    BY <2>3 DEF RetryIsHarmless
  <2>4. ~Save /\ Next => pc' # "commit"
    BY DEF Next, BootLoad, BootSave, Restart, Start, AddCapability, AddCapabilityFails, Load,
       LoadError, Change, ChangeFails, SaveFails, CommitFails, CommitAndReply, Fail, Reply
  <2>. QED BY <1>2, <2>1, <2>2, <2>3, <2>4
<1>. QED BY <1>1, <1>2, InvCorrect, PreparedCorrect, PTL DEF Spec
=============================================================================
