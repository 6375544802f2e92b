----------------------------- MODULE KeepAlive -----------------------------
(***************************************************************************)
(* The keep-alive monitor of the WebSocket server                          *)
(* (components/websocket_server/src/keep_alive.cpp): one FreeRTOS task     *)
(* that owns a table of client slots and is driven by a bounded queue of   *)
(* actions and by a receive timeout.                                       *)
(*                                                                         *)
(* Only the component is described here: its state, the four calls other   *)
(* tasks make, and the steps of its task.  The two callbacks the task      *)
(* makes (ping a client, close a client) are left to the module that       *)
(* composes it, which conjoins their effect to PingClient and              *)
(* ExpireClient.                                                           *)
(*                                                                         *)
(* Time is counted in ticks.  The code stores last_seen, an absolute       *)
(* time; the model stores how long ago that was, since the code only ever  *)
(* uses now - last_seen and last_seen + period - now.  Ages stop growing   *)
(* at AgeCap, which is past every threshold they are compared with, so no  *)
(* bound on the clock is needed.                                           *)
(***************************************************************************)
EXTENDS Integers, Sequences, FiniteSets

CONSTANTS
    Fds,             \* socket descriptors
    NoClient,        \* marks a slot of type NO_CLIENT
    MaxClients,      \* wss_keep_alive_config_t.max_clients
    Period,          \* keep_alive_period_ms, in ticks
    NotAliveAfter,   \* not_alive_after_ms
    DefaultTimeout,  \* DEFAULT_KEEP_ALIVE_TIMEOUT_MS
    MinCheck,        \* MIN_KEEP_ALIVE_CHECK_MS
    Modulus,         \* 2^w of the unsigned arithmetic on times
    AgeCap,          \* ages above this are not told apart
    MaxLate          \* ticks the task may stay runnable before it waits again

ASSUME KeepAliveAssumption ==
    /\ NoClient \notin Fds
    /\ MaxClients \in Nat /\ MaxClients >= 2
    /\ Period \in Nat \ {0}
    /\ NotAliveAfter \in Nat /\ NotAliveAfter >= Period
    /\ DefaultTimeout \in Nat
    /\ MinCheck \in 1..DefaultTimeout
    /\ AgeCap \in Nat /\ AgeCap > NotAliveAfter
    /\ Modulus \in Nat /\ Modulus > DefaultTimeout + AgeCap
    /\ MaxLate \in Nat

Slots == 1..MaxClients
QueueSize == MaxClients \div 2

VARIABLES
    clients,   \* clients[i]: the descriptor in slot i, or NoClient
    age,       \* age[i]: ticks since slot i's last_seen (0 in a free slot)
    queue,     \* h->q, a sequence of actions
    pc,        \* where the task is: "loop", "receive", "sweep" or "done"
    wait,      \* ticks left of the receive timeout
    at,        \* the sweep's position
    overdue,   \* slots past NotAliveAfter at the sweep's "now", still to be closed
    late       \* ticks the task has been runnable

kaVars == <<clients, age, queue, pc, wait, at, overdue, late>>
tableVars == <<clients, age>>
sweepVars == <<at, overdue>>

----------------------------------------------------------------------------
(* The queue.                                                              *)

Add(fd) == [type |-> "CLIENT_FD_ADD", fd |-> fd]
Remove(fd) == [type |-> "CLIENT_FD_REMOVE", fd |-> fd]
Update(fd) == [type |-> "CLIENT_UPDATE", fd |-> fd]
StopTask == [type |-> "STOP_TASK", fd |-> NoClient]

Actions == { Add(fd) : fd \in Fds } \cup { Remove(fd) : fd \in Fds }
             \cup { Update(fd) : fd \in Fds } \cup { StopTask }

QueueFull == Len(queue) >= QueueSize

(* Mutant: a send that does not look at the queue's length.                *)
SendAlways(action) == queue' = Append(queue, action)

(* Mutant: xQueueSendToFront.                                              *)
SendToFront(action) == queue' = IF QueueFull THEN queue ELSE <<action>> \o queue

(* xQueueSendToBack with a timeout of 0: a full queue refuses the action.  *)
Send(action) == queue' = IF QueueFull THEN queue ELSE Append(queue, action)

wss_keep_alive_add_client(fd) == Send(Add(fd))
wss_keep_alive_remove_client(fd) == Send(Remove(fd))
wss_keep_alive_client_is_active(fd) == Send(Update(fd))
wss_keep_alive_stop == Send(StopTask)

----------------------------------------------------------------------------
(* The table.                                                              *)

FreeSlots == { i \in Slots : clients[i] = NoClient }
ActiveSlots == { i \in Slots : clients[i] # NoClient }
SlotsOf(fd) == { i \in Slots : clients[i] = fd }
IsFirst(i, S) == i \in S /\ \A j \in S : i <= j

(* register_client takes the first free slot; it does not look whether the *)
(* descriptor is in the table already.                                     *)
register_client(fd) ==
    \/ \E i \in FreeSlots :
          /\ IsFirst(i, FreeSlots)
          /\ clients' = [clients EXCEPT ![i] = fd]
          /\ age' = [age EXCEPT ![i] = 0]
    \/ FreeSlots = {} /\ UNCHANGED tableVars

(* unregister_client and refresh_client_status stop at the first match.    *)
unregister_client(fd) ==
    \/ \E i \in SlotsOf(fd) :
          /\ IsFirst(i, SlotsOf(fd))
          /\ clients' = [clients EXCEPT ![i] = NoClient]
          /\ age' = [age EXCEPT ![i] = 0]
    \/ SlotsOf(fd) = {} /\ UNCHANGED tableVars

refresh_client_status(fd) ==
    /\ UNCHANGED clients
    /\ \/ \E i \in SlotsOf(fd) :
             /\ IsFirst(i, SlotsOf(fd))
             /\ age' = [age EXCEPT ![i] = 0]
       \/ SlotsOf(fd) = {} /\ UNCHANGED age

(* The delays calculate_next_check takes the minimum of.  The subtraction  *)
(* is unsigned: for a slot that is past its period already it wraps to a   *)
(* number larger than DefaultTimeout.                                      *)
CheckDelays ==
    { (Period - age[i]) % Modulus : i \in ActiveSlots } \cup { DefaultTimeout }

(* Mutant: the comparison with the least delay so far reversed.            *)
get_latest_keep_alive_check(delay) ==
    \E d \in CheckDelays :
        /\ \A e \in CheckDelays : e <= d
        /\ delay = IF d < MinCheck THEN MinCheck ELSE d

get_next_keep_alive_check(delay) ==
    \E d \in CheckDelays :
        /\ \A e \in CheckDelays : d <= e
        /\ delay = IF d < MinCheck THEN MinCheck ELSE d

----------------------------------------------------------------------------
(* The task.                                                               *)

KAInit ==
    /\ clients = [i \in Slots |-> NoClient]
    /\ age = [i \in Slots |-> 0]
    /\ queue = <<>>
    /\ pc = "loop"
    /\ wait = 0
    /\ at = 1
    /\ overdue = {}
    /\ late = 0

(* The top of the loop: compute the timeout and block in xQueueReceive.    *)
ComputeTimeout ==
    /\ pc = "loop"
    /\ pc' = "receive"
    /\ get_next_keep_alive_check(wait')
    /\ late' = IF queue = <<>> THEN 0 ELSE late
    /\ UNCHANGED <<tableVars, queue, sweepVars>>

Receive(action) ==
    /\ pc = "receive"
    /\ queue # <<>>
    /\ Head(queue) = action
    /\ queue' = Tail(queue)
    /\ wait' = 0
    /\ UNCHANGED <<sweepVars, late>>

HandleAdd ==
    \E fd \in Fds : Receive(Add(fd)) /\ register_client(fd) /\ pc' = "loop"

HandleRemove ==
    \E fd \in Fds : Receive(Remove(fd)) /\ unregister_client(fd) /\ pc' = "loop"

HandleUpdate ==
    \E fd \in Fds :
        Receive(Update(fd)) /\ refresh_client_status(fd) /\ pc' = "loop"

(* run_task becomes false; the queue is deleted and the storage freed.     *)
HandleStop == Receive(StopTask) /\ UNCHANGED tableVars /\ pc' = "done"

(* Mutant: the sweep starts at its deadline even with actions queued.      *)
SweepBeforeQueue ==
    /\ pc = "receive" /\ wait = 0
    /\ pc' = "sweep"
    /\ at' = 1
    /\ overdue' = { i \in ActiveSlots : age[i] > NotAliveAfter }
    /\ UNCHANGED <<tableVars, queue, wait, late>>

(* Mutant: the sweep ends with the first client it closes.                 *)
SweepClosesOne ==
    /\ pc = "receive" /\ queue = <<>> /\ wait = 0
    /\ pc' = "sweep"
    /\ at' = 1
    /\ overdue' = { i \in ActiveSlots :
                      IsFirst(i, { j \in ActiveSlots : age[j] > NotAliveAfter }) }
    /\ UNCHANGED <<tableVars, queue, wait, late>>

(* xQueueReceive times out only if the queue is empty at that time.  The   *)
(* sweep reads the time once, before its loop: which slots it will find    *)
(* past NotAliveAfter is settled here, although callbacks run in between.  *)
ReceiveTimeout ==
    /\ pc = "receive" /\ queue = <<>> /\ wait = 0
    /\ pc' = "sweep"
    /\ at' = 1
    /\ overdue' = { i \in ActiveSlots : age[i] > NotAliveAfter }
    /\ UNCHANGED <<tableVars, queue, wait, late>>

(* One iteration of the sweep for a slot in use: its client is closed      *)
(* (client_not_alive_cb) and forgotten, or pinged (check_client_alive_cb). *)
NextOfSweep(i) == pc = "sweep" /\ IsFirst(i, { j \in ActiveSlots : j >= at })

(* Mutant: the slot of a closed client is not freed.                       *)
ExpireKeepsSlot(fd) ==
    \E i \in overdue :
        /\ NextOfSweep(i) /\ clients[i] = fd
        /\ overdue' = overdue \ {i}
        /\ at' = i + 1
        /\ UNCHANGED <<tableVars, queue, pc, wait, late>>

ExpireClient(fd) ==
    \E i \in overdue :
        /\ NextOfSweep(i) /\ clients[i] = fd
        /\ clients' = [clients EXCEPT ![i] = NoClient]
        /\ age' = [age EXCEPT ![i] = 0]
        /\ overdue' = overdue \ {i}
        /\ at' = i + 1
        /\ UNCHANGED <<queue, pc, wait, late>>

PingClient(fd) ==
    \E i \in ActiveSlots \ overdue :
        /\ NextOfSweep(i) /\ clients[i] = fd
        /\ at' = i + 1
        /\ UNCHANGED <<tableVars, queue, pc, wait, overdue, late>>

SweepDone ==
    /\ pc = "sweep"
    /\ \A i \in ActiveSlots : i < at
    /\ pc' = "loop"
    /\ at' = 1
    /\ UNCHANGED <<tableVars, queue, wait, overdue, late>>

----------------------------------------------------------------------------
(* Time.  The task runs at priority 1 and its callbacks do network I/O, so *)
(* up to MaxLate ticks may pass while it has work to do.                   *)

Older(a) == IF a < AgeCap THEN a + 1 ELSE a

Blocked == pc = "receive" /\ queue = <<>> /\ wait > 0

Tick ==
    /\ pc # "done"
    /\ \/ Blocked /\ wait' = wait - 1 /\ late' = 0
       \/ ~Blocked /\ late < MaxLate /\ late' = late + 1 /\ UNCHANGED wait
    /\ age' = [i \in Slots |-> IF clients[i] = NoClient THEN 0 ELSE Older(age[i])]
    /\ UNCHANGED <<clients, queue, pc, sweepVars>>

(* The steps of the task that call nothing outside the component.          *)
TaskStep ==
    \/ ComputeTimeout
    \/ HandleAdd
    \/ HandleRemove
    \/ HandleUpdate
    \/ HandleStop
    \/ ReceiveTimeout
    \/ SweepDone

----------------------------------------------------------------------------
(* The variables hold values of their kind: actions of the queue, slots of *)
(* the table, ages up to the cap, and a sweep position within the table. *)
KATypeOK ==
    /\ clients \in [Slots -> Fds \cup {NoClient}]
    /\ age \in [Slots -> 0..AgeCap]
    /\ queue \in Seq(Actions) /\ Len(queue) <= QueueSize
    /\ pc \in {"loop", "receive", "sweep", "done"}
    /\ wait \in 0..DefaultTimeout
    /\ at \in 1..(MaxClients + 1)
    /\ overdue \in SUBSET Slots
    /\ late \in 0..MaxLate
============================================================================
