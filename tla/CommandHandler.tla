--------------------------- MODULE CommandHandler ---------------------------
(***************************************************************************)
(* Commands, their answers and the Matter reports that follow them:        *)
(* main/src/messages/inbound_message_handler.cpp, the commands it calls    *)
(* (main/src/commands/, components/matter_interface/src/), and the CHIP    *)
(* task's callbacks (main/src/event_handlers/chip_event_handler.cpp,       *)
(* main/src/messages/outbound_message_builder.cpp).                        *)
(*                                                                         *)
(* httpd handles one message at a time in two steps: it carries the        *)
(* command out, then builds and queues the answer.  In between and at any  *)
(* other time the CHIP task may deliver a report: it looks the path up in  *)
(* the registry, then broadcasts.  Any allocation, NVS access, lock and    *)
(* send may fail.                                                          *)
(*                                                                         *)
(* Of the registry (described in full by DeviceRegistry) each device's     *)
(* capabilities are kept, in their order.  A device is the record of one   *)
(* node: pairing is the only command that creates one, and derives its     *)
(* device_id from the node.                                                *)
(***************************************************************************)
EXTENDS Naturals, Sequences, FiniteSets

CONSTANTS
    Nodes,         \* Matter nodes, and their devices
    Paths,         \* endpoint, cluster and attribute of a capability or read
    SemanticTypes, \* DeviceCapabilitySemanticType
    Readable,      \* those with a read command: temperature, pressure
    Nothing,       \* no command, no answer, no report, no label
    ProtocolError, \* the answer to a message that is no command envelope
    MaxCaps,       \* DEVICE_REGISTRY_CAPABILITY_MAX
    MaxInFlight    \* bound: reads and subscriptions under way

ASSUME CommandAssumption ==
    /\ MaxCaps \in Nat
    /\ MaxInFlight \in Nat
    /\ Readable \subseteq SemanticTypes

VARIABLES
    registry,     \* device -> its capabilities, for the registered ones
    callbacks,    \* attribute_report_cb and subscribe_done_cb are set
    initialized,  \* matter.controller_initialized of the runtime state
    handling,     \* the Result of the command httpd is to answer
    answer,       \* what httpd queued last: a Result or ProtocolError
    inflight,     \* Requests the CHIP stack may still report on
    chip          \* the Report the CHIP task is about to broadcast

vars == <<registry, callbacks, initialized, handling, answer, inflight, chip>>
controllerVars == <<callbacks, initialized>>
matterVars == <<inflight, chip>>

----------------------------------------------------------------------------
(* Data.                                                                   *)

Capability == [semantic : SemanticTypes, path : Paths]

(* What a command is, once its payload has been parsed.  "query" is each   *)
(* command that only builds a payload, "control" each Thread and Wi-Fi     *)
(* command; their effects are described by ThreadStack and                 *)
(* WifiCredentials.                                                        *)
Commands ==
    [op : {"query", "control", "controller_init", "unknown"}]
    \cup [op : {"get", "remove", "rename", "pair", "relay.set", "invoke"}, node : Nodes]
    \cup [op : {"capability.add"}, node : Nodes, cap : Capability]
    \cup [op : {"semantic read"}, node : Nodes, semantic : Readable]
    \cup [op : {"read", "subscribe", "raw read", "raw subscribe"},
          node : Nodes, path : Paths]

(* The commands whose handler builds a payload of its own on success.      *)
WithPayload ==
    { "query", "get", "capability.add", "relay.set", "semantic read",
      "read", "subscribe", "raw read", "raw subscribe" }

(* FAIL stands for every code a callee returned.                           *)
Codes == {"OK", "INVALID_ARG", "NOT_FOUND", "NOT_SUPPORTED", "NO_MEM", "FAIL"}

Result == [command : Commands, code : Codes]

(* A read or subscription under way.  asked: the semantic type its command *)
(* named, if it did.  touched: the device's record was written since.      *)
(* Requests that do not differ in these are kept as one.                   *)
Request ==
    [kind : {"read", "subscription"}, node : Nodes, path : Paths,
     asked : Readable \cup {Nothing}, touched : BOOLEAN]

(* A report and the semantic type of the capability it is labelled with.   *)
Report == [of : Request, label : SemanticTypes \cup {Nothing}]

ASSUME NothingAssumption ==
    /\ Nothing \notin Result \cup Report \cup SemanticTypes
    /\ ProtocolError \notin Result

Registered(n) == n \in DOMAIN registry
IsFirst(i, S) == i \in S /\ \A j \in S : i <= j

----------------------------------------------------------------------------
(* Look-ups.                                                               *)

OnPath(n, p) == { i \in 1..Len(registry[n]) : registry[n][i].path = p }
WithSemantic(n, s) == { i \in 1..Len(registry[n]) : registry[n][i].semantic = s }

(* device_registry_find_capability: the first one of the semantic type.    *)
find_capability(n, s, i) ==
    Registered(n) /\ IsFirst(i, WithSemantic(n, s))

(* Mutant: the attribute left out of the comparison.                       *)
find_without_attribute(n, p, i) == Registered(n) /\ IsFirst(i, 1..Len(registry[n]))

(* device_registry_find_capability_by_path: the first one on the path.     *)
find_capability_by_path(n, p, i) ==
    Registered(n) /\ IsFirst(i, OnPath(n, p))

----------------------------------------------------------------------------
Init ==
    /\ registry = [n \in {} |-> << >>]
    /\ callbacks = FALSE
    /\ initialized = FALSE
    /\ handling = Nothing
    /\ answer = Nothing
    /\ inflight = {}
    /\ chip = Nothing

----------------------------------------------------------------------------
(* httpd: the message.                                                     *)

(* A command has run and left this result to be answered.                  *)
Ends(c, code) ==
    /\ handling = Nothing
    /\ answer' = Nothing
    /\ handling' = [command |-> c, code |-> code]

Failures == {"NO_MEM", "FAIL"}

(* Refused or failed before any effect: in each handler the tests that     *)
(* lead here come before the first call that changes anything.             *)
Fails(c, codes) ==
    /\ UNCHANGED <<registry, controllerVars, matterVars>>
    /\ \E code \in codes : Ends(c, code)

(* A message that is no command envelope is answered with a protocol       *)
(* error, unless that fails.                                               *)
MalformedMessage ==
    /\ handling = Nothing
    /\ answer' \in {ProtocolError, Nothing}
    /\ UNCHANGED <<registry, controllerVars, handling, matterVars>>

UnknownAction == \E c \in Commands : c.op = "unknown" /\ Fails(c, {"NOT_SUPPORTED"})

(* A field is missing, empty, of the wrong type or out of range.           *)
InvalidPayload ==
    \E c \in Commands : c.op # "unknown" /\ Fails(c, {"INVALID_ARG"})

----------------------------------------------------------------------------
(* httpd: commands on the runtime state, the radios and the registry.      *)

Query ==
    \E c \in Commands :
        /\ c.op \in {"query", "get"}
        /\ c.op = "get" => Registered(c.node)
        /\ UNCHANGED <<registry, controllerVars, matterVars>>
        /\ Ends(c, "OK")

(* device.get and everything else that reads the registry first.           *)
NotRegistered ==
    \E c \in Commands :
        /\ c.op \in {"get", "remove", "rename", "capability.add", "read", "subscribe"}
        /\ ~Registered(c.node)
        /\ Fails(c, {"NOT_FOUND"})

Control ==
    \E c \in Commands :
        /\ c.op = "control"
        /\ UNCHANGED <<registry, controllerVars, matterVars>>
        /\ Ends(c, "OK")

(* The handler's calls fail, before any effect.                            *)
CommandFails ==
    \E c \in Commands : c.op # "unknown" /\ Fails(c, Failures)

(* The record of n is written: what was looked up for it before is old.    *)
Mark(r, n) == IF r.node = n THEN [r EXCEPT !.touched = TRUE] ELSE r

Touch(n) ==
    /\ inflight' = { Mark(r, n) : r \in inflight }
    /\ chip' = IF chip = Nothing THEN chip ELSE [chip EXCEPT !.of = Mark(@, n)]

(* Mutant: the result of nvs_set_blob is not looked at.                    *)
SaveUnchecked(c, new) ==
    /\ registry' \in {new, registry}
    /\ Touch(c.node)
    /\ UNCHANGED controllerVars
    /\ Ends(c, "OK") \/ Ends(c, "FAIL")

(* save_and_notify: the blob is written; the commit after it may fail, and *)
(* then the command with it.                                               *)
Save(c, new) ==
    /\ registry' = new
    /\ Touch(c.node)
    /\ UNCHANGED controllerVars
    /\ Ends(c, "OK") \/ Ends(c, "FAIL")

Without(n) == [m \in DOMAIN registry \ {n} |-> registry[m]]
With(n, caps) ==
    [m \in DOMAIN registry \cup {n} |-> IF m = n THEN caps ELSE registry[m]]

RemoveDevice ==
    \E c \in Commands :
        /\ c.op = "remove" /\ Registered(c.node)
        /\ Save(c, Without(c.node))

(* The label is not part of a report.                                      *)
RenameDevice ==
    \E c \in Commands :
        /\ c.op = "rename" /\ Registered(c.node)
        /\ Save(c, registry)

(* Mutant: a capability is added whether or not there is room.             *)
AddCapabilityUnbounded ==
    \E c \in Commands :
        /\ c.op = "capability.add" /\ Registered(c.node)
        /\ Len(registry[c.node]) <= MaxCaps
        /\ Save(c, With(c.node, Append(registry[c.node], c.cap)))

(* add_capability_command: the capability of the same id is replaced, in   *)
(* its place, or one is added at the end.                                  *)
AddCapability ==
    \E c \in Commands :
        /\ c.op = "capability.add" /\ Registered(c.node)
        /\ \/ \E i \in 1..Len(registry[c.node]) :
                 Save(c, With(c.node, [registry[c.node] EXCEPT ![i] = c.cap]))
           \/ /\ Len(registry[c.node]) < MaxCaps
              /\ Save(c, With(c.node, Append(registry[c.node], c.cap)))

----------------------------------------------------------------------------
(* httpd: Matter commands.                                                 *)

(* Mutant: the result of matter_controller_init is not looked at.          *)
InitControllerUnchecked ==
    \E c \in Commands :
        /\ c.op = "controller_init"
        /\ callbacks' = TRUE
        /\ UNCHANGED <<registry, matterVars>>
        /\ initialized' \in {TRUE, initialized}
        /\ Ends(c, "OK")

(* matter_controller_init sets the callbacks first; the client or the      *)
(* commissioner may then fail.                                             *)
InitController ==
    \E c \in Commands :
        /\ c.op = "controller_init"
        /\ callbacks' = TRUE
        /\ UNCHANGED <<registry, matterVars>>
        /\ \/ initialized' = TRUE /\ Ends(c, "OK")
           \/ UNCHANGED initialized /\ Ends(c, "FAIL")

(* execute_matter_pair_ble_thread_command: commissioning has begun, and    *)
(* the placeholder takes the place of a record the node may have; whether  *)
(* the registry took it is not looked at.                                  *)
Pair ==
    \E c \in Commands :
        /\ c.op = "pair"
        /\ \/ registry' = With(c.node, << >>) /\ Touch(c.node)
           \/ UNCHANGED <<registry, matterVars>>
        /\ UNCHANGED controllerVars
        /\ Ends(c, "OK")

(* send_read_attr_command and send_subscribe_attr_command hand the request *)
(* to the CHIP stack.  One handed over before matter_controller_init has   *)
(* no callback: it is accepted, and nothing is ever heard of it.           *)
Submit(c, kind, n, p, asked) ==
    /\ Cardinality(inflight) < MaxInFlight
    /\ inflight' =
          IF callbacks
          THEN inflight \cup
                 { [kind |-> kind, node |-> n, path |-> p, asked |-> asked,
                    touched |-> FALSE] }
          ELSE inflight
    /\ UNCHANGED <<registry, controllerVars, chip>>
    /\ Ends(c, "OK")

(* device.temperature.read and device.pressure.read.                       *)
SemanticRead ==
    \E c \in Commands :
        /\ c.op = "semantic read"
        /\ \E i \in 1..MaxCaps :
              /\ find_capability(c.node, c.semantic, i)
              /\ Submit(c, "read", c.node, registry[c.node][i].path, c.semantic)

NoSuchCapability ==
    \E c \in Commands :
        /\ \/ c.op = "relay.set" /\ (Registered(c.node) => WithSemantic(c.node, "relay") = {})
           \/ /\ c.op = "semantic read"
              /\ Registered(c.node) => WithSemantic(c.node, c.semantic) = {}
        /\ Fails(c, {"NOT_FOUND"})

(* device.attribute.read and .subscribe, for a registered device, and      *)
(* matter.attribute_read and _subscribe, for any node.                     *)
AttributeRead ==
    \E c \in Commands :
        \/ c.op = "read" /\ Registered(c.node) /\ Submit(c, "read", c.node, c.path, Nothing)
        \/ c.op = "raw read" /\ Submit(c, "read", c.node, c.path, Nothing)

AttributeSubscribe ==
    \E c \in Commands :
        \/ /\ c.op = "subscribe" /\ Registered(c.node)
           /\ Submit(c, "subscription", c.node, c.path, Nothing)
        \/ c.op = "raw subscribe" /\ Submit(c, "subscription", c.node, c.path, Nothing)

(* invoke_cluster_command, for device.relay.set and                        *)
(* matter.cluster_command_invoke: the command is sent, nothing comes back. *)
Invoke ==
    \E c \in Commands :
        /\ \/ c.op = "invoke"
           \/ c.op = "relay.set" /\ \E i \in 1..MaxCaps : find_capability(c.node, "relay", i)
        /\ UNCHANGED <<registry, controllerVars, matterVars>>
        /\ Ends(c, "OK")

----------------------------------------------------------------------------
(* httpd: the answer.                                                      *)

(* The command's payload may not get built: it is answered with an error   *)
(* although the command has been carried out.                              *)
Payload(result) ==
    IF result.code = "OK" /\ result.command.op \in WithPayload
    THEN { result, [result EXCEPT !.code = "NO_MEM"] }
    ELSE { result }

(* send_command_result; if it cannot build or queue it, the client is left *)
(* without an answer.                                                      *)
Answer ==
    /\ handling # Nothing
    /\ handling' = Nothing
    /\ answer' \in Payload(handling) \cup {Nothing}
    /\ UNCHANGED <<registry, controllerVars, matterVars>>

----------------------------------------------------------------------------
(* The CHIP task.                                                          *)

(* A read ends with its report, unless one like it goes on; a subscription *)
(* goes on.                                                                *)
Rest(r) == {inflight} \cup (IF r.kind = "read" THEN {inflight \ {r}} ELSE {})

(* attribute_data_report_callback decodes the value, and the path is       *)
(* looked up in the registry; if that fails the report has no label.       *)
AttributeReport ==
    /\ chip = Nothing
    /\ \E r \in inflight :
          /\ inflight' \in Rest(r)
          /\ \/ \E i \in 1..MaxCaps :
                   /\ find_capability_by_path(r.node, r.path, i)
                   /\ chip' = [of |-> r, label |-> registry[r.node][i].semantic]
             \/ chip' = [of |-> r, label |-> Nothing]
    /\ UNCHANGED <<registry, controllerVars, handling, answer>>

(* No report: the read fails, or its value is of a type the callback does  *)
(* not decode (a boolean, a null).                                         *)
NoReport ==
    /\ \E r \in inflight : r.kind = "read" /\ inflight' = inflight \ {r}
    /\ UNCHANGED <<registry, controllerVars, handling, answer, chip>>

(* broadcast_message, whether or not it can be built and sent.             *)
BroadcastReport ==
    /\ chip # Nothing
    /\ chip' = Nothing
    /\ UNCHANGED <<registry, controllerVars, handling, answer, inflight>>

(* subscribe_done_callback: a subscription has ended.                      *)
SubscribeDone ==
    /\ \E r \in inflight : r.kind = "subscription" /\ inflight' = inflight \ {r}
    /\ UNCHANGED <<registry, controllerVars, handling, answer, chip>>

(* Power is lost, at any time: only what is in NVS stays.                  *)
Reboot ==
    /\ callbacks' = FALSE
    /\ initialized' = FALSE
    /\ handling' = Nothing
    /\ answer' = Nothing
    /\ inflight' = {}
    /\ chip' = Nothing
    /\ UNCHANGED registry

Next ==
    \/ MalformedMessage \/ UnknownAction \/ InvalidPayload
    \/ Query \/ NotRegistered \/ Control \/ CommandFails
    \/ RemoveDevice \/ RenameDevice \/ AddCapability
    \/ InitController \/ Pair
    \/ SemanticRead \/ NoSuchCapability
    \/ AttributeRead \/ AttributeSubscribe \/ Invoke
    \/ Answer
    \/ AttributeReport \/ NoReport \/ BroadcastReport \/ SubscribeDone
    \/ Reboot

Spec == Init /\ [][Next]_vars

----------------------------------------------------------------------------
(* Properties.                                                             *)

(* Every variable holds a value of its kind, and no device has more        *)
(* capabilities than its record has room for.                              *)
TypeOK ==
    /\ DOMAIN registry \subseteq Nodes
    /\ \A n \in DOMAIN registry :
          registry[n] \in Seq(Capability) /\ Len(registry[n]) <= MaxCaps
    /\ callbacks \in BOOLEAN
    /\ initialized \in BOOLEAN
    /\ handling \in Result \cup {Nothing}
    /\ answer \in Result \cup {Nothing, ProtocolError}
    /\ inflight \subseteq Request
    /\ chip \in Report \cup {Nothing}

(* What httpd has found out: the result it is to answer, and its answer.   *)
Outcomes == {handling, answer} \cap Result

(* What a client may take from an answer without an error, until it sends  *)
(* its next command.                                                       *)
Holds(c) ==
    /\ c.op = "remove" => ~Registered(c.node)
    /\ c.op \in {"get", "rename", "capability.add", "read", "subscribe",
                 "semantic read", "relay.set"} => Registered(c.node)
    /\ c.op = "capability.add" =>
          \E i \in 1..Len(registry[c.node]) : registry[c.node][i] = c.cap
    /\ c.op = "semantic read" => WithSemantic(c.node, c.semantic) # {}
    /\ c.op = "relay.set" => WithSemantic(c.node, "relay") # {}
    /\ c.op = "controller_init" => initialized

(* A command answered with ok (inbound_message_handler.cpp:180) has been   *)
(* carried out: what it was to establish holds, through every report of    *)
(* the CHIP task, until httpd takes the next command.                      *)
OkIsDone == \A result \in Outcomes : result.code = "OK" => Holds(result.command)

(* A report that answers a temperature or pressure read is labelled as one *)
(* (outbound_message_builder.cpp:248), although the capability is looked   *)
(* up twice, by its type for the read and by its path for the report: the  *)
(* label is the type asked for unless an earlier capability of the device  *)
(* is on the same path, a command wrote the record in between, or the      *)
(* report has no label.                                                    *)
Shadowed(r, i) == \E j \in 1..(i - 1) : registry[r.node][j].path = r.path

ReportsAreLabelled ==
    chip # Nothing /\ ~chip.of.touched /\ chip.label # Nothing
        /\ chip.of.asked \in Readable
    => LET r == chip.of IN
       /\ Registered(r.node)
       /\ \E i \in OnPath(r.node, r.path) :
             /\ registry[r.node][i].semantic = r.asked
             /\ chip.label = r.asked \/ Shadowed(r, i)

(* The inductive invariant: the read of a type is of a path the device has *)
(* that type on, as long as its record is not written.                     *)
RequestsMatch ==
    \A r \in inflight :
        ~r.touched /\ r.asked \in Readable =>
            /\ Registered(r.node)
            /\ \E i \in OnPath(r.node, r.path) : registry[r.node][i].semantic = r.asked

Inv == TypeOK /\ OkIsDone /\ RequestsMatch /\ ReportsAreLabelled

----------------------------------------------------------------------------
(* The registry of this module, which each command changes in one step, is *)
(* that of RegistryContents, which DeviceRegistry implements step by step. *)
(* Here a capability's identifier is its place, a label is not kept and    *)
(* there is room for every node.                                           *)

Devices == [n \in DOMAIN registry |-> [label |-> Nothing, caps |-> registry[n]]]

Contents == INSTANCE RegistryContents WITH
    devices <- Devices, command <- handling, applied <- FALSE,
    NoCommand <- Nothing, MaxRecords <- Cardinality(Nodes)

(* The commands of RegistryContents that a command may be.                 *)
RegistryCommands(c) ==
    CASE c.op \in {"pair", "remove", "rename"} ->
           {[op |-> c.op, id |-> c.node, label |-> Nothing]}
      [] c.op = "capability.add" ->
           { [op |-> "addcap", id |-> c.node, cap |-> i, target |-> c.cap] : i \in 1..MaxCaps }
      [] OTHER -> {}

(* httpd has carried a command out.                                        *)
CarriedOut == handling = Nothing /\ handling' # Nothing

(* The registry changes only when httpd carries out a command, by an       *)
(* effect RegistryContents has for that command, and a registry command    *)
(* that had no effect does not end with ok, unless it is a pairing.  So    *)
(* what is checked here of one-step registry commands holds of those that  *)
(* load, write and commit, as DeviceRegistry has them.                     *)
RegistryAsPromised ==
    [][ \/ /\ UNCHANGED registry
           /\ CarriedOut /\ handling'.code = "OK"
                 => handling'.command.op \notin {"remove", "rename", "capability.add"}
        \/ /\ CarriedOut
           /\ \E c \in RegistryCommands(handling'.command) :
                  Contents!Effect(c, Devices, Devices') ]_vars
============================================================================
