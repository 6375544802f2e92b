----------------------------- MODULE ThreadStack -----------------------------
(***************************************************************************)
(* The Thread stack as this program controls and mirrors it:               *)
(* components/thread_interface/src/thread_util.cpp,                        *)
(* main/src/commands/thread_commands.cpp and                               *)
(* main/src/event_handlers/thread_event_handler.cpp.                       *)
(*                                                                         *)
(* httpd calls OpenThread, one locked call a step.  OpenThread posts an    *)
(* event to the default event loop for each change; sys_evt takes them in  *)
(* order and updates the runtime state, reading the role when it handles   *)
(* the event and not when it was posted.  OpenThread, which is external,   *)
(* refuses to start while the interface is down and to take it down while  *)
(* it runs.                                                                *)
(***************************************************************************)
EXTENDS Naturals, Sequences

CONSTANTS
    AttachedRoles,  \* child, router, leader
    None,
    MaxEvents       \* CONFIG_ESP_SYSTEM_EVENT_QUEUE_SIZE

VARIABLES
    pc,         \* where httpd is
    command,    \* the command it handles, or handled last
    answer,     \* what it answered; "REFUSED": the failure of a call that
                \* OpenThread does not accept in its state
    ifUp,       \* the IPv6 interface is up
    role,       \* the role of the device; "disabled": not started
    dataset,    \* there is an active dataset (OpenThread keeps it in NVS)
    events,     \* posted and not yet handled
    lost,       \* an event found no room
    thread      \* state.thread: [enabled, attached, role, dataset_present]

threadVars == <<ifUp, role, dataset, events, lost, thread>>

Roles == AttachedRoles \cup {"disabled", "detached"}
Events == {"START", "STOP", "ATTACHED", "DETACHED", "ROLE_CHANGED", "DATASET_CHANGED"}

(* orchestrator_state_init.                                                *)
NoThread ==
    [enabled |-> FALSE, attached |-> FALSE, role |-> "disabled", dataset_present |-> FALSE]

ThreadInit ==
    /\ ifUp = FALSE
    /\ role = "disabled"
    /\ events = << >>
    /\ lost = FALSE
    /\ thread = NoThread

----------------------------------------------------------------------------
(* OpenThread.                                                             *)

(* Mutant: a post that does not look for room.                             *)
PostUnbounded(posted) == events' = events \o posted /\ UNCHANGED lost

Post(posted) ==
    IF Len(events) + Len(posted) <= MaxEvents
    THEN events' = events \o posted /\ UNCHANGED lost
    ELSE lost' = TRUE /\ UNCHANGED events

(* What is posted when the role becomes new.                               *)
Announce(new) ==
    Post( (CASE role = "disabled" /\ new # "disabled" -> <<"START">>
             [] role # "disabled" /\ new = "disabled" -> <<"STOP">>
             [] OTHER -> << >>)
          \o (CASE role \notin AttachedRoles /\ new \in AttachedRoles -> <<"ATTACHED">>
                [] role \in AttachedRoles /\ new \notin AttachedRoles -> <<"DETACHED">>
                [] OTHER -> << >>)
          \o (IF new # role THEN <<"ROLE_CHANGED">> ELSE << >>) )

(* The device attaches, changes its role, or loses its parent.             *)
ChangeRole ==
    /\ role # "disabled"
    /\ \E new \in Roles \ {"disabled", role} :
          /\ new \in AttachedRoles => dataset
          /\ role' = new
          /\ Announce(new)
    /\ UNCHANGED <<pc, command, answer, ifUp, dataset, thread>>

----------------------------------------------------------------------------
(* httpd.                                                                  *)

Take(c, first) ==
    /\ pc = "idle"
    /\ command' = c
    /\ answer' = None
    /\ pc' = first

End(code) ==
    /\ answer' = code
    /\ pc' = "idle"

(* Mutant: execute_thread_enable_command starts Thread first.              *)
TakeEnableStart == Take("enable", "start") /\ UNCHANGED threadVars

(* execute_thread_enable_command, execute_thread_disable_command and       *)
(* execute_thread_dataset_init_command.                                    *)
TakeEnable == Take("enable", "if up") /\ UNCHANGED threadVars
TakeDisable == Take("disable", "stop") /\ UNCHANGED threadVars
TakeDataset == Take("dataset", "set dataset") /\ UNCHANGED threadVars

ifconfig_up ==
    /\ pc = "if up"
    /\ \/ ifUp' = TRUE /\ pc' = "start" /\ UNCHANGED answer
       \/ End("FAIL") /\ UNCHANGED ifUp
    /\ UNCHANGED <<command, role, dataset, events, lost, thread>>

thread_start ==
    /\ pc = "start"
    /\ \/ /\ ifUp
          /\ role' = IF role = "disabled" THEN "detached" ELSE role
          /\ Announce(role')
          /\ End("OK")
       \/ /\ ~ifUp
          /\ End("REFUSED")
          /\ UNCHANGED <<role, events, lost>>
       \/ End("FAIL") /\ UNCHANGED <<role, events, lost>>
    /\ UNCHANGED <<command, ifUp, dataset, thread>>

thread_stop ==
    /\ pc = "stop"
    /\ \/ /\ role' = "disabled"
          /\ Announce("disabled")
          /\ pc' = "if down"
          /\ UNCHANGED answer
       \/ End("FAIL") /\ UNCHANGED <<role, events, lost>>
    /\ UNCHANGED <<command, ifUp, dataset, thread>>

ifconfig_down ==
    /\ pc = "if down"
    /\ \/ role = "disabled" /\ ifUp' = FALSE /\ End("OK")
       \/ role # "disabled" /\ End("REFUSED") /\ UNCHANGED ifUp
       \/ End("FAIL") /\ UNCHANGED ifUp
    /\ UNCHANGED <<command, role, dataset, events, lost, thread>>

(* thread_dataset_init: the lock, which it waits for no longer than five   *)
(* seconds, the allocation, each field and OpenThread may refuse.          *)
thread_dataset_init ==
    /\ pc = "set dataset"
    /\ \/ dataset' = TRUE /\ Post(<<"DATASET_CHANGED">>) /\ End("OK")
       \/ End("FAIL") /\ UNCHANGED <<dataset, events, lost>>
    /\ UNCHANGED <<command, ifUp, role, thread>>

----------------------------------------------------------------------------
(* sys_evt.                                                                *)

(* Mutant: the end of the stack is announced and not recorded.             *)
RecordedWithoutStop(e) ==
    CASE e = "START" -> [thread EXCEPT !.enabled = TRUE]
      [] e = "ATTACHED" -> [thread EXCEPT !.attached = TRUE]
      [] e = "DETACHED" -> [thread EXCEPT !.attached = FALSE]
      [] e = "ROLE_CHANGED" -> [thread EXCEPT !.role = role]
      [] e = "DATASET_CHANGED" /\ dataset -> [thread EXCEPT !.dataset_present = TRUE]
      [] OTHER -> thread

(* The runtime state once handle_thread_event has handled e.               *)
Recorded(e) ==
    CASE e = "START" -> [thread EXCEPT !.enabled = TRUE]
      [] e = "STOP" -> [thread EXCEPT !.enabled = FALSE]
      [] e = "ATTACHED" -> [thread EXCEPT !.attached = TRUE]
      [] e = "DETACHED" -> [thread EXCEPT !.attached = FALSE]
      [] e = "ROLE_CHANGED" -> [thread EXCEPT !.role = role]
      [] e = "DATASET_CHANGED" /\ dataset -> [thread EXCEPT !.dataset_present = TRUE]
      [] OTHER -> thread

handle_thread_event ==
    /\ events # << >>
    /\ thread' = Recorded(Head(events))
    /\ events' = Tail(events)
    /\ UNCHANGED <<pc, command, answer, ifUp, role, dataset, lost>>

----------------------------------------------------------------------------
(* Power is lost: the dataset stays, the stack is not started.             *)
ThreadPowerLoss ==
    /\ ifUp' = FALSE
    /\ role' = "disabled"
    /\ events' = << >>
    /\ lost' = FALSE
    /\ thread' = NoThread
    /\ UNCHANGED dataset

(* nvs_flash_erase.                                                        *)
ThreadErase ==
    /\ dataset' = FALSE
    /\ UNCHANGED <<ifUp, role, events, lost, thread>>

(* The commands, and what goes on without them.                            *)
ThreadCommands ==
    \/ TakeEnable \/ TakeDisable \/ TakeDataset
    \/ ifconfig_up \/ thread_start \/ thread_stop \/ ifconfig_down
    \/ thread_dataset_init

ThreadNext == ThreadCommands \/ ChangeRole \/ handle_thread_event

----------------------------------------------------------------------------
(* Properties.                                                             *)

ThreadTypeOK ==
    /\ ifUp \in BOOLEAN
    /\ role \in Roles
    /\ dataset \in BOOLEAN
    /\ events \in Seq(Events) /\ Len(events) <= MaxEvents
    /\ lost \in BOOLEAN
    /\ thread \in [enabled : BOOLEAN, attached : BOOLEAN, role : Roles,
                   dataset_present : BOOLEAN]

(* The order of the calls (thread_commands.cpp:13 and 19) is one the stack *)
(* accepts, also when a call before them failed or was repeated: it never  *)
(* runs without its interface, and no call comes in a state it refuses.    *)
OrderAccepted ==
    /\ role # "disabled" => ifUp
    /\ answer # "REFUSED"

(* When all events have been handled and none was lost, the runtime state  *)
(* is that of the stack, although handle_thread_event reads the role late  *)
(* (thread_event_handler.cpp:58) and clients see the events one by one.  A *)
(* dataset is only ever reported if there is one; one that was kept over a *)
(* restart is not reported.                                                *)
StateIsCurrent ==
    events = << >> /\ ~lost =>
        /\ thread.enabled = (role # "disabled")
        /\ thread.attached = (role \in AttachedRoles)
        /\ thread.role = role
        /\ thread.dataset_present => dataset
=============================================================================
