--------------------------- MODULE DeviceRegistry ---------------------------
(***************************************************************************)
(* The device registry (main/src/registry/device_registry.cpp) and the     *)
(* commands that change it (main/src/commands/matter_commands.cpp and      *)
(* main/src/messages/inbound_message_handler.cpp).                         *)
(*                                                                         *)
(* Every operation loads the whole store from one NVS blob, changes its    *)
(* copy and writes the blob back.  Commands run one at a time, in the HTTP *)
(* server's task; the device may lose power between any two steps, and     *)
(* each call that allocates or touches NVS may fail.  A blob write is      *)
(* taken to be atomic, as NVS makes it (external), and to stay: the erase  *)
(* app_main falls back on when the partition itself is unusable            *)
(* (ESP_ERR_NVS_NO_FREE_PAGES, ESP_ERR_NVS_NEW_VERSION_FOUND) is left out. *)
(*                                                                         *)
(* A record keeps what the properties tell apart: its identifier, label    *)
(* and capabilities, of which each keeps its identifier and a target that  *)
(* stands for semantic type, endpoint, cluster, attribute and command.     *)
(***************************************************************************)
EXTENDS Integers, Sequences, FiniteSets

CONSTANTS
    Ids,          \* device_id values
    Labels,       \* labels a rename may give
    CapIds,       \* capability_id values
    Targets,      \* what a capability points to
    NoCommand,    \* no command in progress
    MaxRecords,   \* MAX_RECORDS
    MaxCaps       \* DEVICE_REGISTRY_CAPABILITY_MAX

ASSUME RegistryAssumption ==
    /\ MaxRecords \in Nat
    /\ MaxCaps \in Nat

VARIABLES
    blob,       \* what NVS holds: [kind, records]
    pc,         \* where the HTTP task, or the boot, is
    store,      \* the loaded records, the task's RAM
    record,     \* the record being upserted
    command,    \* the command in progress, or NoCommand
    answer      \* the last command_result, [command, ok], or NoCommand

vars == <<blob, pc, store, record, command, answer>>

----------------------------------------------------------------------------
(* Data.                                                                   *)

(* The label a placeholder gets from its node id.                          *)
DefaultLabel == "Matter node"

Capability == [capability_id : CapIds, target : Targets]
Record == [device_id : Ids, label : Labels \cup {DefaultLabel}, caps : Seq(Capability)]

Placeholder(id) == [device_id |-> id, label |-> DefaultLabel, caps |-> <<>>]

(* Kinds of blob a boot may find: none, one this version wrote, one the    *)
(* validity test in load_store rejects (another version or size, a count   *)
(* beyond an array), one larger than RegistryStore.                        *)
BlobKinds == {"absent", "records", "unsupported", "oversize"}
EmptyBlob(kind) == [kind |-> kind, records |-> <<>>]

Commands ==
    [op : {"pair"}, id : Ids, label : {DefaultLabel}]
    \cup [op : {"remove"}, id : Ids]
    \cup [op : {"rename"}, id : Ids, label : Labels]
    \cup [op : {"addcap"}, id : Ids, cap : CapIds, target : Targets]

ASSUME NoCommandAssumption == NoCommand \notin Commands

Holds(records, id) == \E i \in 1..Len(records) : records[i].device_id = id
IsFirst(i, S) == i \in S /\ \A j \in S : i <= j

(* Mutant: a loop that takes the first record without comparing ids.       *)
PositionOfAny(records, i, id) == IsFirst(i, 1..Len(records))

(* The first record of an identifier, as every loop of the registry finds. *)
Position(records, i, id) ==
    IsFirst(i, { j \in 1..Len(records) : records[j].device_id = id })

(* Mutant: the count decremented without moving the later records.         *)
RemoveLast(s, k) == [i \in 1..(Len(s) - 1) |-> s[i]]

(* The records after place k move one place down.                          *)
ShiftDown(s, k) == [i \in 1..(Len(s) - 1) |-> IF i < k THEN s[i] ELSE s[i + 1]]

----------------------------------------------------------------------------
(* Storage.                                                                *)

(* load_store: an absent blob is an empty store, and so is one the tests   *)
(* reject; the size of the buffer makes nvs_get_blob fail on a larger one. *)
LoadStore == blob.kind # "oversize" /\ store' = blob.records

(* nvs_set_blob of save_store.                                             *)
SetBlob(records) == blob' = [kind |-> "records", records |-> records]

----------------------------------------------------------------------------
(* Boot: device_registry_init.  A failure aborts (ESP_ERROR_CHECK in       *)
(* app_main) and the device boots again.                                   *)

Init ==
    /\ blob \in { EmptyBlob(kind) : kind \in BlobKinds }
    /\ pc = "boot"
    /\ store = <<>>
    /\ record = <<>>
    /\ command = NoCommand
    /\ answer = NoCommand

BootLoad ==
    /\ pc = "boot" /\ LoadStore /\ pc' = "boot save"
    /\ UNCHANGED <<blob, record, command, answer>>

(* The store is written back, and the servers start.                       *)
BootSave ==
    /\ pc = "boot save" /\ SetBlob(store) /\ pc' = "idle"
    /\ store' = <<>>
    /\ UNCHANGED <<record, command, answer>>

(* Power is lost, or an error aborts: RAM is gone.                         *)
Restart ==
    /\ pc' = "boot"
    /\ store' = <<>> /\ record' = <<>>
    /\ command' = NoCommand /\ answer' = NoCommand
    /\ UNCHANGED blob

----------------------------------------------------------------------------
(* Commands.                                                               *)

(* The command's handler starts: pair goes on to upsert a placeholder once *)
(* pairing_ble_thread has succeeded, addcap reads the device first.        *)
Start(c) ==
    /\ pc = "idle"
    /\ command' = c
    /\ pc' = IF c.op = "addcap" THEN "get" ELSE "load"
    /\ record' = IF c.op = "pair" THEN Placeholder(c.id) ELSE <<>>
    /\ answer' = NoCommand
    /\ UNCHANGED <<blob, store>>

Reply(ok) ==
    /\ pc' = "idle"
    /\ answer' = [command |-> command, ok |-> ok]
    /\ command' = NoCommand
    /\ store' = <<>> /\ record' = <<>>

(* An error of the registry.  execute_matter_pair_ble_thread_command does  *)
(* not look at the result of the upsert: pairing is answered with success. *)
Fail == Reply(command.op = "pair")

SameCapability(caps, new) ==
    { k \in 1..Len(caps) : caps[k].capability_id = new.capability_id }

(* Mutant: the capability count compared with > instead of >=.             *)
PutCapabilityBeyond(found, new) ==
    \/ \E k \in SameCapability(found.caps, new) :
          /\ IsFirst(k, SameCapability(found.caps, new))
          /\ record' = [found EXCEPT !.caps[k] = new]
    \/ /\ SameCapability(found.caps, new) = {}
       /\ ~(Len(found.caps) > MaxCaps)
       /\ record' = [found EXCEPT !.caps = Append(@, new)]

(* The change to the copy of the device found: the capability of the same  *)
(* id is replaced, or one is added.                                        *)
PutCapability(found, new) ==
    \/ \E k \in SameCapability(found.caps, new) :
          /\ IsFirst(k, SameCapability(found.caps, new))
          /\ record' = [found EXCEPT !.caps[k] = new]
    \/ /\ SameCapability(found.caps, new) = {}
       /\ Len(found.caps) < MaxCaps
       /\ record' = [found EXCEPT !.caps = Append(@, new)]

(* add_capability_command: device_registry_get_device, then the change.    *)
AddCapability ==
    /\ pc = "get"
    /\ blob.kind # "oversize"
    /\ \E i \in 1..Len(blob.records) :
          /\ Position(blob.records, i, command.id)
          /\ PutCapability(blob.records[i],
                  [capability_id |-> command.cap, target |-> command.target])
    /\ pc' = "load"
    /\ UNCHANGED <<blob, store, command, answer>>

(* The device is unknown, its capability list is full, or the load fails.  *)
AddCapabilityFails ==
    /\ pc = "get"
    /\ Fail
    /\ UNCHANGED blob

Load ==
    /\ pc = "load" /\ LoadStore /\ pc' = "change"
    /\ UNCHANGED <<blob, record, command, answer>>

LoadError ==
    /\ pc = "load" /\ Fail
    /\ UNCHANGED blob

(* Mutant: an upsert that does not look for the device first.              *)
UpsertAppends ==
    /\ Len(store) < MaxRecords
    /\ store' = Append(store, record)

(* device_registry_upsert_device, after load_store.                        *)
Upsert ==
    \/ \E i \in 1..Len(store) :
          /\ Position(store, i, record.device_id)
          /\ store' = [store EXCEPT ![i] = record]
    \/ /\ ~Holds(store, record.device_id)
       /\ Len(store) < MaxRecords
       /\ store' = Append(store, record)

(* device_registry_remove_device: later records move one place down.       *)
Remove ==
    \E i \in 1..Len(store) :
        /\ Position(store, i, command.id)
        /\ store' = ShiftDown(store, i)

(* Mutant: a rename that writes a fresh record, without the capabilities.  *)
RenameAfresh ==
    \E i \in 1..Len(store) :
        /\ Position(store, i, command.id)
        /\ store' = [store EXCEPT ![i] =
                       [Placeholder(command.id) EXCEPT !.label = command.label]]

(* device_registry_rename_device.                                          *)
Rename ==
    \E i \in 1..Len(store) :
        /\ Position(store, i, command.id)
        /\ store' = [store EXCEPT ![i].label = command.label]

Change ==
    /\ pc = "change"
    /\ \/ command.op \in {"pair", "addcap"} /\ Upsert
       \/ command.op = "remove" /\ Remove
       \/ command.op = "rename" /\ Rename
    /\ pc' = "save"
    /\ UNCHANGED <<blob, record, command, answer>>

(* No such device (ESP_ERR_NOT_FOUND), or no room (ESP_ERR_NO_MEM).        *)
ChangeFails ==
    /\ pc = "change"
    /\ \/ /\ command.op \in {"remove", "rename"}
          /\ ~Holds(store, command.id)
       \/ /\ command.op \in {"pair", "addcap"}
          /\ ~Holds(store, record.device_id)
          /\ Len(store) >= MaxRecords
    /\ Fail
    /\ UNCHANGED blob

Save ==
    /\ pc = "save" /\ SetBlob(store)
    /\ pc' = "commit"
    /\ UNCHANGED <<store, record, command, answer>>

(* nvs_open or nvs_set_blob fails, before the blob is written.             *)
SaveFails ==
    /\ pc = "save" /\ Fail
    /\ UNCHANGED blob

(* nvs_commit fails after the blob has been written.                       *)
CommitFails ==
    /\ pc = "commit" /\ Fail
    /\ UNCHANGED blob

(* The blob is committed and announced, and the result is success, unless  *)
(* add_capability_command has no memory left for its payload.              *)
CommitAndReply ==
    /\ pc = "commit"
    /\ \/ Reply(TRUE)
       \/ command.op = "addcap" /\ Reply(FALSE)
    /\ UNCHANGED blob

Next ==
    \/ BootLoad \/ BootSave \/ Restart
    \/ \E c \in Commands : Start(c)
    \/ AddCapability \/ AddCapabilityFails
    \/ Load \/ LoadError
    \/ Change \/ ChangeFails
    \/ Save \/ SaveFails
    \/ CommitFails \/ CommitAndReply

Spec == Init /\ [][Next]_vars

----------------------------------------------------------------------------
(* Each variable holds a value of its kind, and the variables of a command *)
(* are set exactly while one is in progress.                               *)
TypeOK ==
    /\ blob \in [kind : BlobKinds, records : Seq(Record)]
    /\ pc \in {"boot", "boot save", "idle", "get", "load", "change", "save", "commit"}
    /\ store \in Seq(Record)
    /\ command \in Commands \cup {NoCommand}
    /\ pc \in {"get", "load", "change", "save", "commit"} <=> command # NoCommand
    /\ answer \in [command : Commands, ok : BOOLEAN] \cup {NoCommand}
    /\ pc \in {"load", "change"} /\ command.op \in {"pair", "addcap"} =>
          record \in Record /\ record.device_id = command.id

CapsWellFormed(caps) ==
    /\ Len(caps) <= MaxCaps
    /\ \A k, l \in 1..Len(caps) :
          caps[k].capability_id = caps[l].capability_id => k = l

(* What load_store demands of a blob at the next boot, and what makes its  *)
(* first-match loops find the only match: no more records than fit, no     *)
(* more capabilities, and no identifier twice.                             *)
WellFormed(records) ==
    /\ Len(records) <= MaxRecords
    /\ \A i, j \in 1..Len(records) :
          records[i].device_id = records[j].device_id => i = j
    /\ \A i \in 1..Len(records) : CapsWellFormed(records[i].caps)

(* The stored blob is well formed after any sequence of commands, failures *)
(* and restarts: no update duplicates a device or a capability, and no     *)
(* later boot throws the registry away.                                    *)
StoredWellFormed == WellFormed(blob.records)

(* The inductive invariant: the copies the task works on are well formed   *)
(* too, and a loaded store is still what NVS holds when it is changed, so  *)
(* the copy read for a capability has not gone stale.                      *)
Upserting == pc \in {"load", "change"} /\ command.op \in {"pair", "addcap"}

Inv ==
    /\ TypeOK
    /\ StoredWellFormed
    /\ WellFormed(store)
    /\ pc \in {"change", "boot save"} => store = blob.records
    /\ Upserting => CapsWellFormed(record.caps)
    /\ pc = "get" => command.op = "addcap"

(* docs/websocket_protocol.md: "After `matter.pair_ble_thread`, the        *)
(* Orchestrator creates or updates a reachable placeholder device".  So    *)
(* when pairing has been answered with success the device is registered.   *)
PairedIsRegistered ==
    answer # NoCommand /\ answer.ok /\ answer.command.op = "pair"
        => Holds(blob.records, answer.command.id)

----------------------------------------------------------------------------
(* The registry implements RegistryContents: the devices are the records   *)
(* of the blob, in any order.                                              *)

Known(records) == { records[i].device_id : i \in 1..Len(records) }

CapsOf(caps) ==
    [c \in { caps[k].capability_id : k \in 1..Len(caps) } |->
        caps[CHOOSE k \in 1..Len(caps) : caps[k].capability_id = c].target]

DeviceOf(r) == [label |-> r.label, caps |-> CapsOf(r.caps)]

DevicesOf(records) ==
    [id \in Known(records) |->
        DeviceOf(records[CHOOSE i \in 1..Len(records) : records[i].device_id = id])]

Devices == DevicesOf(blob.records)

(* The command has taken effect when its blob has been written.            *)
Applied == pc = "commit"

Contents == INSTANCE RegistryContents WITH devices <- Devices, applied <- Applied

(* What a command is about to write is its effect on the devices NVS       *)
(* holds at that moment, although it was computed on copies loaded before, *)
(* for a capability in two loads (matter_commands.cpp, device_registry.cpp *)
(* line 80).                                                               *)
Prepared ==
    /\ pc = "save" => Contents!Effect(command, Devices, DevicesOf(store))
    /\ Upserting /\ command.op = "pair" => record = Placeholder(command.id)
    /\ Upserting /\ command.op = "addcap" =>
          /\ command.id \in Known(blob.records)
          /\ Contents!Effect(command, Devices,
                 Contents!Put(Devices, command.id, DeviceOf(record)))

(* The capability has its target after the step.                           *)
Kept(id, cap) ==
    /\ id \in DOMAIN Devices' /\ cap \in DOMAIN Devices'[id].caps
    /\ Devices'[id].caps[cap] = Devices[id].caps[cap]

(* The command in progress may take the capability away or replace it.     *)
Concerns(id, cap) ==
    /\ command # NoCommand /\ command.id = id
    /\ \/ command.op \in {"remove", "pair"}
       \/ command.op = "addcap" /\ command.cap = cap

(* No update is lost.  A stored capability keeps its target until its      *)
(* device is removed or paired again (which puts the placeholder of        *)
(* matter_commands.cpp:37 in its place) or a command gives this capability *)
(* another: no command about another device or another capability, no      *)
(* rename, no boot and no failure takes it away, although each writes the  *)
(* whole store back from a copy.                                           *)
CapabilitiesKept ==
    [][ \A id \in DOMAIN Devices : \A cap \in DOMAIN Devices[id].caps :
          Kept(id, cap) \/ Concerns(id, cap) ]_vars

(* A command may be done again.  When its blob is written and the answer   *)
(* is an error all the same (nvs_commit fails at device_registry.cpp:102,  *)
(* or the payload cannot be built at inbound_message_handler.cpp:330 or    *)
(* 345), the same command would find room, even in a full registry, and    *)
(* change nothing more; a removal would not find the device.               *)
RetryIsHarmless ==
    pc = "commit" =>
        IF command.op = "remove"
        THEN command.id \notin DOMAIN Devices
        ELSE Contents!Effect(command, Devices, Devices)

(* Each command takes effect once or not at all, when its blob is written, *)
(* with the effect RegistryContents gives it, although the handler works   *)
(* on copies loaded earlier, twice for a capability; restarts lose nothing *)
(* that was stored.                                                        *)
Implements == Contents!Spec
============================================================================
