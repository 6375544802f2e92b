-------------------------- MODULE RegistryContents --------------------------
(***************************************************************************)
(* What the device registry promises its callers, without its storage: a   *)
(* set of devices with a label and capabilities each, on which one command *)
(* at a time takes effect once or not at all, completely, and stays in     *)
(* effect across restarts.  A success is answered after the effect, except *)
(* for pairing, whose answer says nothing about the registry.  An error    *)
(* may be answered after the effect: the caller cannot tell.               *)
(***************************************************************************)
EXTENDS Naturals, FiniteSets

CONSTANTS
    NoCommand,    \* no command in progress
    MaxRecords,   \* devices the registry can hold
    MaxCaps       \* capabilities of one device

VARIABLES
    devices,   \* a function from the registered identifiers to devices
    command,   \* the command in progress, or NoCommand
    applied,   \* whether it has taken effect
    answer     \* the last answer, [command, ok], or NoCommand

vars == <<devices, command, applied, answer>>

Put(f, x, y) == [z \in DOMAIN f \cup {x} |-> IF z = x THEN y ELSE f[z]]
Delete(f, x) == [z \in DOMAIN f \ {x} |-> f[z]]

Init ==
    /\ devices = << >>
    /\ command = NoCommand
    /\ applied = FALSE
    /\ answer = NoCommand

Accept ==
    /\ command = NoCommand
    /\ command' # NoCommand
    /\ answer' = NoCommand
    /\ UNCHANGED <<devices, applied>>

(* The effect of a command, where the registry has room and the device     *)
(* exists; a paired device starts with nothing but its label.              *)
Effect(c, old, new) ==
    \/ /\ c.op = "pair"
       /\ c.id \in DOMAIN old \/ Cardinality(DOMAIN old) < MaxRecords
       /\ new = Put(old, c.id, [label |-> c.label, caps |-> << >>])
    \/ /\ c.op = "remove" /\ c.id \in DOMAIN old
       /\ new = Delete(old, c.id)
    \/ /\ c.op = "rename" /\ c.id \in DOMAIN old
       /\ new = Put(old, c.id, [label |-> c.label, caps |-> old[c.id].caps])
    \/ /\ c.op = "addcap" /\ c.id \in DOMAIN old
       /\ LET caps == old[c.id].caps IN
          /\ c.cap \in DOMAIN caps \/ Cardinality(DOMAIN caps) < MaxCaps
          /\ new = Put(old, c.id, [label |-> old[c.id].label,
                                   caps |-> Put(caps, c.cap, c.target)])

TakeEffect ==
    /\ command # NoCommand /\ ~applied
    /\ Effect(command, devices, devices')
    /\ applied' = TRUE
    /\ UNCHANGED <<command, answer>>

Answer ==
    /\ command # NoCommand
    /\ \E ok \in BOOLEAN :
          /\ ok => applied \/ command.op = "pair"
          /\ answer' = [command |-> command, ok |-> ok]
    /\ command' = NoCommand
    /\ applied' = FALSE
    /\ UNCHANGED devices

(* A restart forgets the command, answered or not, and nothing else.       *)
Restart ==
    /\ command' = NoCommand
    /\ applied' = FALSE
    /\ answer' = NoCommand
    /\ UNCHANGED devices

Next == Accept \/ TakeEffect \/ Answer \/ Restart

Spec == Init /\ [][Next]_vars
============================================================================
