---------------------------- MODULE StateDelivery ----------------------------
(***************************************************************************)
(* How the Orchestrator's state reaches its WebSocket clients:             *)
(* main/src/state/orchestrator_state.cpp, the sending half of              *)
(* components/websocket_server/src/websocket_server.cpp and the handlers   *)
(* that call them.                                                         *)
(*                                                                         *)
(* Two tasks write the state and broadcast it.  sys_evt runs the Wi-Fi and *)
(* Thread event handlers, httpd the commands and the connections.  A       *)
(* setter and the copy a snapshot is made from hold the mutex; what comes  *)
(* between them, the client list and each send, does not.  A send queues   *)
(* work for httpd, which does it between two requests.                     *)
(*                                                                         *)
(* Of the state the model keeps three fields, as the number of times each  *)
(* was set: what sys_evt writes, what commands write, and                  *)
(* websocket.client_count, which every connection and disconnection sets.  *)
(* A snapshot is old if a setter has run since its copy, also one that set *)
(* the same value.  Of the messages it keeps the snapshots: an event or a  *)
(* command_result takes the same way and carries no field of the state     *)
(* that is told apart here.  The server runs throughout.                   *)
(***************************************************************************)
EXTENDS Naturals, Sequences, FiniteSets

CONSTANTS
    Fds,          \* descriptors of client sessions
    NoFd,         \* no session in the hands of httpd
    MaxChanges,   \* bound: changes by sys_evt, and by commands
    MaxCounts,    \* bound: connections and disconnections
    MaxSets,      \* bound: all of these together
    MaxWork       \* work httpd can have queued

ASSUME DeliveryAssumption ==
    /\ NoFd \notin Fds
    /\ MaxChanges \in Nat
    /\ MaxCounts \in Nat
    /\ MaxSets \in Nat
    /\ MaxWork \in Nat

VARIABLES
    state,     \* OrchestratorState: field -> number of its changes
    session,   \* fd -> "none" or "websocket"
    work,      \* queued async_send_task arguments, [fd, snapshot]
    pc,        \* task -> where in send_snapshot it is
    snap,      \* task -> its copy of the state
    todo,      \* task -> clients of its list it has not sent to yet
    handled,   \* [kind, fd]: what httpd's broadcast is part of
    view,      \* fd -> the last snapshot the session got, or NoSnapshot
    seen,      \* history: fd -> field -> last change in any snapshot it got
    lost,      \* history: sessions a snapshot was lost for
    overtaken, \* history: tasks since whose copy another one was made, or a
               \* client connected
    behind     \* history: sessions last sent a snapshot by an overtaken task,
               \* or none since another client connected

vars == <<state, session, work, pc, snap, todo, handled, view, seen, lost,
          overtaken, behind>>
orderVars == <<overtaken, behind>>
clientVars == <<view, seen, lost, orderVars>>

----------------------------------------------------------------------------
Tasks == {"sys_evt", "httpd"}

(* "radio" stands for the wifi and thread parts, "matter" for              *)
(* matter.controller_initialized: every change of these is broadcast.      *)
(* "clients" stands for websocket.client_count, whose changes are not.     *)
Announced == {"radio", "matter"}
Fields == Announced \cup {"clients"}

Snapshot == [Fields -> Nat]
NoSnapshot == << >>
Unset == [f \in Fields |-> 0]
Unseen == [f \in Announced |-> 0]

Clients == { fd \in Fds : session[fd] = "websocket" }
Idle == [kind |-> "idle", fd |-> NoFd]

Init ==
    /\ state = Unset
    /\ session = [fd \in Fds |-> "none"]
    /\ work = <<>>
    /\ pc = [t \in Tasks |-> "idle"]
    /\ snap = [t \in Tasks |-> Unset]
    /\ todo = [t \in Tasks |-> {}]
    /\ handled = Idle
    /\ view = [fd \in Fds |-> NoSnapshot]
    /\ seen = [fd \in Fds |-> Unseen]
    /\ lost = {}
    /\ overtaken = {}
    /\ behind = {}

----------------------------------------------------------------------------
(* Setters.                                                                *)

MayChange(f) ==
    /\ state[f] < IF f = "clients" THEN MaxCounts ELSE MaxChanges
    /\ state["radio"] + state["matter"] + state["clients"] < MaxSets

Set(f) == MayChange(f) /\ state' = [state EXCEPT ![f] = @ + 1]
Goto(t, label) == pc' = [pc EXCEPT ![t] = label]

(* Mutant: a handler that sets the state and broadcasts no snapshot.       *)
RadioEventUnannounced ==
    /\ pc["sys_evt"] = "idle"
    /\ Set("radio")
    /\ UNCHANGED <<session, work, pc, snap, todo, handled, clientVars>>

(* A Wi-Fi or Thread event: its handler sets the state, then broadcasts.   *)
RadioEvent ==
    /\ pc["sys_evt"] = "idle"
    /\ Set("radio")
    /\ Goto("sys_evt", "copy")
    /\ UNCHANGED <<session, work, snap, todo, handled, clientVars>>

(* A command that broadcasts: matter.controller_init sets the state first, *)
(* a change of the device registry leaves it alone.                        *)
Command ==
    /\ pc["httpd"] = "idle"
    /\ Set("matter") \/ UNCHANGED state
    /\ Goto("httpd", "copy")
    /\ handled' = [kind |-> "command", fd |-> NoFd]
    /\ UNCHANGED <<session, work, snap, todo, clientVars>>

----------------------------------------------------------------------------
(* Connections (httpd).  For each, and for each end of one, client_count   *)
(* is set (handle_websocket_client_event) before anything is sent.         *)

(* The copy is made and not all of it is queued.                           *)
Sending(t) == pc[t] \in {"list", "send"}

(* A connection sends the new client alone the new count: what the others  *)
(* have got, and what is being sent to them, is older.                     *)
OvertakenByConnection ==
    /\ overtaken' = overtaken \cup { t \in Tasks : Sending(t) }
    /\ behind' = behind \cup Clients

(* Mutant: a connected client gets no snapshot of its own.                 *)
UpgradeSilently(fd) ==
    /\ pc["httpd"] = "idle"
    /\ session[fd] = "none"
    /\ session' = [session EXCEPT ![fd] = "websocket"]
    /\ Set("clients")
    /\ OvertakenByConnection
    /\ UNCHANGED <<work, pc, snap, todo, handled, view, seen, lost>>

(* websocket_handler for the upgrade request: the session is a WebSocket   *)
(* already, and WS_CLIENT_CONNECTED sends it a snapshot.                   *)
Upgrade(fd) ==
    /\ pc["httpd"] = "idle"
    /\ session[fd] = "none"
    /\ session' = [session EXCEPT ![fd] = "websocket"]
    /\ Goto("httpd", "copy")
    /\ handled' = [kind |-> "connect", fd |-> fd]
    /\ Set("clients")
    /\ OvertakenByConnection
    /\ UNCHANGED <<work, snap, todo, view, seen, lost>>

(* A CLOSE frame: WS_CLIENT_DISCONNECTED, with the session still open.     *)
CloseFrame(fd) ==
    /\ pc["httpd"] = "idle"
    /\ session[fd] = "websocket"
    /\ Goto("httpd", "copy")
    /\ handled' = [kind |-> "command", fd |-> NoFd]
    /\ Set("clients")
    /\ UNCHANGED <<session, work, snap, todo, clientVars>>

(* Mutant: the session is gone before its close handler runs.              *)
CloseDeletesFirst(fd) ==
    /\ pc["httpd"] = "idle"
    /\ session[fd] = "websocket"
    /\ Goto("httpd", "copy")
    /\ handled' = [kind |-> "close", fd |-> fd]
    /\ session' = [session EXCEPT ![fd] = "none"]
    /\ Set("clients")
    /\ UNCHANGED <<work, snap, todo, clientVars>>

(* The session is deleted: on_client_close and WS_CLIENT_DISCONNECTED come *)
(* first, the session goes after them (Done).                              *)
Close(fd) ==
    /\ pc["httpd"] = "idle"
    /\ session[fd] = "websocket"
    /\ Goto("httpd", "copy")
    /\ handled' = [kind |-> "close", fd |-> fd]
    /\ Set("clients")
    /\ UNCHANGED <<session, work, snap, todo, clientVars>>

----------------------------------------------------------------------------
(* send_snapshot.                                                          *)

(* Mutant: the connecting client taken for the target of any broadcast.    *)
ToConnecting(t) == handled.kind = "connect"

ToOneClient(t) == t = "httpd" /\ handled.kind = "connect"

(* orchestrator_state_to_json copies the state under the mutex.            *)
Copy(t) ==
    /\ pc[t] = "copy"
    /\ snap' = [snap EXCEPT ![t] = state]
    /\ overtaken' = overtaken \cup { u \in Tasks : Sending(u) /\ snap[u] # state }
    /\ \/ /\ ToOneClient(t)
          /\ todo' = [todo EXCEPT ![t] = {handled.fd}]
          /\ Goto(t, "send")
       \/ /\ ~ToOneClient(t)
          /\ Goto(t, "list")
          /\ UNCHANGED todo
    /\ UNCHANGED <<state, session, work, handled, view, seen, lost, behind>>

(* websocket_broadcast_message: the client list.  Whether it still has the *)
(* session being closed is the HTTP server's business (external).          *)
List(t) ==
    /\ pc[t] = "list"
    /\ \E gone \in SUBSET (Clients \cap {handled.fd}) :
          /\ handled.kind # "close" => gone = {}
          /\ todo' = [todo EXCEPT ![t] = Clients \ gone]
    /\ Goto(t, "send")
    /\ UNCHANGED <<state, session, work, snap, handled, clientVars>>

(* Mutant: work is queued ahead of what is queued already.                 *)
QueueWorkAhead(fd, snapshot) ==
    \/ /\ Len(work) < MaxWork
       /\ work' = <<[fd |-> fd, snapshot |-> snapshot]>> \o work
       /\ UNCHANGED lost
    \/ UNCHANGED work /\ lost' = lost \cup {fd}

(* httpd_queue_work, in the order of the calls; it or an allocation before *)
(* it may fail.                                                            *)
QueueWork(fd, snapshot) ==
    \/ /\ Len(work) < MaxWork
       /\ work' = Append(work, [fd |-> fd, snapshot |-> snapshot])
       /\ UNCHANGED lost
    \/ /\ UNCHANGED work
       /\ lost' = lost \cup {fd}

(* One turn of the loop over the list: a session that is no WebSocket any  *)
(* more is skipped.                                                        *)
Send(t) ==
    /\ pc[t] = "send"
    /\ \E fd \in todo[t] :
          /\ todo' = [todo EXCEPT ![t] = @ \ {fd}]
          /\ \/ fd \in Clients /\ QueueWork(fd, snap[t])
             \/ fd \notin Clients /\ UNCHANGED <<work, lost>>
          /\ behind' = IF t \in overtaken THEN behind \cup ({fd} \cap Clients)
                                         ELSE behind \ {fd}
    /\ UNCHANGED <<state, session, pc, snap, handled, view, seen, overtaken>>

(* The session is gone, and with it what its client knew.                  *)
DeleteSession(fd) ==
    /\ session' = [session EXCEPT ![fd] = "none"]
    /\ view' = [view EXCEPT ![fd] = NoSnapshot]
    /\ seen' = [seen EXCEPT ![fd] = Unseen]
    /\ lost' = lost \ {fd}
    /\ behind' = behind \ {fd}

(* The broadcast ends, and with it what httpd was doing.                   *)
Done(t) ==
    /\ pc[t] = "send" /\ todo[t] = {}
    /\ Goto(t, "idle")
    /\ snap' = [snap EXCEPT ![t] = Unset]
    /\ overtaken' = overtaken \ {t}
    /\ IF t = "httpd"
       THEN /\ handled' = Idle
            /\ IF handled.kind = "close"
               THEN DeleteSession(handled.fd)
               ELSE UNCHANGED <<session, view, seen, lost, behind>>
       ELSE UNCHANGED <<handled, session, view, seen, lost, behind>>
    /\ UNCHANGED <<state, work, todo>>

----------------------------------------------------------------------------
(* httpd does the queued work: async_send_task sends the frame to the      *)
(* descriptor, whichever session has it now; the send may fail.            *)
Deliver ==
    /\ pc["httpd"] = "idle" /\ work # <<>>
    /\ work' = Tail(work)
    /\ LET fd == Head(work).fd
           snapshot == Head(work).snapshot
       IN  \/ /\ fd \in Clients
              /\ view' = [view EXCEPT ![fd] = snapshot]
              /\ seen' = [seen EXCEPT ![fd] =
                            [f \in Announced |-> IF snapshot[f] > @[f]
                                                 THEN snapshot[f] ELSE @[f]]]
              /\ UNCHANGED lost
           \/ lost' = lost \cup ({fd} \cap Clients) /\ UNCHANGED <<view, seen>>
    /\ UNCHANGED <<state, session, pc, snap, todo, handled, orderVars>>

TaskStep(t) == Copy(t) \/ List(t) \/ Send(t) \/ Done(t)

Next ==
    \/ RadioEvent \/ Command \/ Deliver
    \/ \E fd \in Fds : Upgrade(fd) \/ CloseFrame(fd) \/ Close(fd)
    \/ \E t \in Tasks : TaskStep(t)

Spec == Init /\ [][Next]_vars

(* Both tasks go on with what they have begun; httpd's loop handles a      *)
(* queued work item in every turn, before the sockets.                     *)
Fairness ==
    /\ \A t \in Tasks : WF_vars(TaskStep(t))
    /\ SF_vars(Deliver)

FairSpec == Spec /\ Fairness

----------------------------------------------------------------------------
(* Each variable holds a value of its kind, and the variables of a         *)
(* broadcast are set only while one runs.                                  *)
TypeOK ==
    /\ state \in Snapshot
    /\ session \in [Fds -> {"none", "websocket"}]
    /\ work \in Seq([fd : Fds, snapshot : Snapshot]) /\ Len(work) <= MaxWork
    /\ pc \in [Tasks -> {"idle", "copy", "list", "send"}]
    /\ snap \in [Tasks -> Snapshot]
    /\ todo \in [Tasks -> SUBSET Fds]
    /\ \A t \in Tasks : pc[t] # "send" => todo[t] = {}
    /\ \/ handled = Idle /\ pc["httpd"] = "idle"
       \/ handled = [kind |-> "command", fd |-> NoFd] /\ pc["httpd"] # "idle"
       \/ /\ handled \in [kind : {"connect", "close"}, fd : Fds]
          /\ pc["httpd"] # "idle" /\ handled.fd \in Clients
    /\ view \in [Fds -> Snapshot \cup {NoSnapshot}]
    /\ seen \in [Fds -> [Announced -> Nat]]
    /\ lost \in SUBSET Fds
    /\ overtaken \in SUBSET Tasks
    /\ behind \in SUBSET Fds

(* A snapshot with the last change of a field is on its way to a client:   *)
(* queued, or to be queued by a task's broadcast.                          *)
Queued(fd, f) ==
    \E i \in 1..Len(work) : work[i].fd = fd /\ work[i].snapshot[f] = state[f]

Coming(t, fd, f) ==
    /\ ToOneClient(t) => handled.fd = fd
    /\ t = "httpd" /\ handled.kind = "close" => handled.fd # fd
    /\ \/ pc[t] = "copy"
       \/ pc[t] = "list" /\ snap[t][f] = state[f]
       \/ pc[t] = "send" /\ snap[t][f] = state[f] /\ fd \in todo[t]

Closing(fd) == handled = [kind |-> "close", fd |-> fd]

(* No change of an announced field passes a client by: at every moment     *)
(* each client has been sent the last one, has it queued, or will have it  *)
(* from a broadcast under way, unless a send to it failed or it is         *)
(* closing.  This is what the order of set, copy and list in every handler *)
(* is for, also for a client that connects while a broadcast runs.         *)
(* client_count is not announced: a connection does pass the others by.    *)
NoChangeMissed ==
    \A fd \in Clients \ lost, f \in Announced :
        \/ seen[fd][f] = state[f]
        \/ Queued(fd, f)
        \/ \E t \in Tasks : Coming(t, fd, f)
        \/ Closing(fd)

(* The inductive invariant, first part: no snapshot is from the future.    *)
NotAhead ==
    \A f \in Fields :
        /\ \A t \in Tasks : snap[t][f] <= state[f]
        /\ \A i \in 1..Len(work) : work[i].snapshot[f] <= state[f]
        /\ \A fd \in Fds : view[fd] # NoSnapshot => view[fd][f] <= state[f]
        /\ f \in Announced => \A fd \in Fds : seen[fd][f] <= state[f]

(* A task that was overtaken sends an old state.  One that was not sends   *)
(* the present state, or the task that changed a field since is about to   *)
(* copy it for everyone.                                                   *)
OvertakenIsOld ==
    \A t \in overtaken : Sending(t) /\ \E f \in Fields : snap[t][f] < state[f]

AboutToCopy(f) ==
    \/ f = "radio" /\ pc["sys_evt"] = "copy"
    \/ f = "matter" /\ pc["httpd"] = "copy" /\ handled.kind = "command"
    \/ f = "clients" /\ pc["httpd"] = "copy" /\ handled.kind # "connect"

OthersAreCurrent ==
    \A t \in Tasks \ overtaken, f \in Fields :
        Sending(t) => snap[t][f] = state[f] \/ AboutToCopy(f)

(* What a client will have seen last when httpd has done its work: the     *)
(* last snapshot queued for it, or else the last one it got.               *)
NoneAfter(fd, k) == \A i \in 1..Len(work) : i > k => work[i].fd # fd

Final(fd) ==
    { work[k].snapshot : k \in { j \in 1..Len(work) : work[j].fd = fd /\ NoneAfter(fd, j) } }
        \cup { s \in {view[fd]} : NoneAfter(fd, 0) }

(* It is current, or will be, unless an overtaken task sent it or another  *)
(* client connected since; then it is old, or the client has none yet, and *)
(* it stays so until another task sends.                                   *)
FinalIsCurrent ==
    \A fd \in Clients \ (lost \cup behind), f \in Fields :
        \/ \A s \in Final(fd) : s # NoSnapshot /\ s[f] = state[f]
        \/ \E t \in Tasks : Coming(t, fd, f)
        \/ Closing(fd)

BehindIsOld ==
    \A fd \in behind :
        /\ fd \in Clients
        /\ fd \in lost \/ \A s \in Final(fd) :
              s = NoSnapshot \/ \E f \in Fields : s[f] < state[f]

Ordered == OvertakenIsOld /\ OthersAreCurrent /\ FinalIsCurrent /\ BehindIsOld

Inv == TypeOK /\ NotAhead /\ NoChangeMissed /\ Ordered

(* A client that stays connected gets a snapshot, as docs/                 *)
(* websocket_protocol.md promises it after the upgrade, unless a send to   *)
(* it fails.                                                               *)
SnapshotAfterUpgrade ==
    \A fd \in Fds :
        session[fd] = "websocket" ~>
            view[fd] # NoSnapshot \/ fd \in lost \/ session[fd] = "none"

(* docs/websocket_protocol.md: "Runtime changes emit events and state      *)
(* snapshots", and the dashboard should use them.  So when every broadcast *)
(* has ended and all work is done, the last snapshot a client got, if none *)
(* was lost, has the last change of every announced field.                 *)
Settled == work = <<>> /\ \A t \in Tasks : pc[t] = "idle"

LastSnapshotIsCurrent ==
    Settled => \A fd \in Clients \ lost, f \in Announced :
                   view[fd] # NoSnapshot /\ view[fd][f] = state[f]

(* Exactly when a client is left with an old state, in any field.  Its     *)
(* last snapshot is old if, and only if,                                   *)
(*  - the task that queued it had been overtaken: between that task's copy *)
(*    and its send another task copied a newer state, or a client          *)
(*    connected; or                                                        *)
(*  - another client connected after it was queued: a connection sets      *)
(*    client_count and sends the new client alone a snapshot, although the *)
(*    protocol lists client_connected with the changes that emit them.     *)
(* A descriptor used again, a queue that filled up for another client and  *)
(* a CLOSE frame leave nobody behind.                                      *)
StaleIffOvertaken ==
    Settled => \A fd \in Clients \ lost : view[fd] = state <=> fd \notin behind
=============================================================================
