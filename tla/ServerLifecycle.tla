--------------------------- MODULE ServerLifecycle ---------------------------
(***************************************************************************)
(* The life of the WebSocket server: started and stopped by sys_evt with   *)
(* the access point (main/src/event_handlers/wifi_event_handler.cpp),      *)
(* while httpd, the keep-alive tasks and a task that sends use its two     *)
(* handles without a lock                                                  *)
(* (components/websocket_server/src/websocket_server.cpp, keep_alive.cpp). *)
(*                                                                         *)
(* Each start has a generation, which names its HTTPS server and its       *)
(* keep-alive storage.  Using a handle that is null or whose object is     *)
(* freed is a fault: nothing is said of the board afterwards but that it   *)
(* restarts.  httpd's own functions refuse a null handle.  A step is what  *)
(* a task does between two accesses to state that others may change.       *)
(***************************************************************************)
EXTENDS Naturals, Sequences

CONSTANTS
    None,
    MaxStarts,     \* bound: starts of the server between two restarts
    MaxSessions,   \* sessions httpd can have open
    MaxEvents      \* CONFIG_ESP_SYSTEM_EVENT_QUEUE_SIZE

(* What was used when it was not there.                                    *)
Faults ==
    {"start without keep-alive", "session without keep-alive",
     "session after keep-alive", "message after server", "sweep after server",
     "storage freed twice", "monitor after httpd"}

ASSUME LifecycleAssumption ==
    /\ MaxStarts \in Nat
    /\ None \notin Nat \cup Faults
    /\ MaxSessions \in Nat \ {0}
    /\ MaxEvents \in Nat

Generations == 1..MaxStarts

VARIABLES
    ap,            \* the access point is up
    events,        \* AP_START and AP_STOP, posted and not yet handled
    missed,        \* one found no room in the event loop's queue
    pc,            \* where sys_evt is
    gen,           \* the generation it starts or stops, or started last
    server,        \* the static handles
    keep_alive,
    handlers,      \* message_handler and client_event_handler are set
    startFailed,   \* the last start failed
    stopFailed,    \* a stop failed
    httpd,         \* httpd[g]: none, started, serving, closing, stopped (and freed)
    sessions,      \* sessions[g]: how many are open
    work,          \* work[g]: handles in the queued arguments of async_send_task
    storage,       \* storage[g]: none, receiving, sweeping (its task), freed
    watched,       \* generations whose table may hold a client
    ctx,           \* ctx[g]: the user context of the storage
    stop,          \* stop[g]: STOP_TASK not sent, queued or refused
    sender,        \* where the task that sends is
    loaded,        \* the value of server it calls httpd with
    handle,        \* httpd_handle of the argument it prepares
    fault,         \* what was used when it was not there
    risky          \* history: what OnlyRiskyStopsFault excepts has happened

apVars == <<ap, events, missed>>
sysVars == <<pc, gen, server, keep_alive, handlers, startFailed, stopFailed>>
httpdVars == <<httpd, sessions, work>>
taskVars == <<storage, watched, ctx, stop>>
sendVars == <<sender, loaded, handle>>
vars == <<ap, events, missed, pc, gen, server, keep_alive, handlers,
          startFailed, stopFailed, httpd, sessions, work, storage, watched,
          ctx, stop, sender, loaded, handle, fault, risky>>

Running(g) == httpd[g] \in {"started", "serving", "closing"}
Live(g) == storage[g] \in {"receiving", "sweeping"}

(* httpd frees its global_user_ctx when it is stopped.  create_ssl_config  *)
(* makes that the keep-alive storage and names no function to free it      *)
(* with, so the block is released under the monitor, which frees it too.   *)
Released(g) == httpd[g] = "stopped"

(* What is undefined may fault, or nothing comes of it.                    *)
MayFault(f) == fault' \in {fault, f}

Init ==
    /\ ap = FALSE /\ events = << >> /\ missed = FALSE
    /\ pc = "idle" /\ gen = 0
    /\ server = None /\ keep_alive = None /\ handlers = FALSE
    /\ startFailed = FALSE /\ stopFailed = FALSE
    /\ httpd = [g \in Generations |-> "none"]
    /\ sessions = [g \in Generations |-> 0]
    /\ work = [g \in Generations |-> {}]
    /\ storage = [g \in Generations |-> "none"]
    /\ watched = {}
    /\ ctx = [g \in Generations |-> None]
    /\ stop = [g \in Generations |-> "no"]
    /\ sender = "idle" /\ loaded = None /\ handle = None
    /\ fault = None /\ risky = FALSE

(* Something is done with the server of generation g that a stop cuts      *)
(* short: a session is open, a message is on its way, or the keep-alive    *)
(* task sweeps.                                                            *)
InUse(g) ==
    \/ sessions[g] > 0
    \/ sender # "idle"
    \/ storage[g] = "sweeping"

----------------------------------------------------------------------------
(* The Wi-Fi driver posts an event when it starts or stops the access      *)
(* point; one that finds no room is lost.                                  *)

(* Mutant: a post that waits for room.                                     *)
PostUnbounded(e) == events' = Append(events, e) /\ UNCHANGED missed

Post(e) ==
    IF Len(events) < MaxEvents
    THEN events' = Append(events, e) /\ UNCHANGED missed
    ELSE missed' = TRUE /\ UNCHANGED events

ApStarts ==
    /\ ~ap /\ gen + Len(events) < MaxStarts
    /\ ap' = TRUE
    /\ Post("START")
    /\ UNCHANGED <<sysVars, httpdVars, taskVars, sendVars, fault, risky>>

ApStops ==
    /\ ap
    /\ ap' = FALSE
    /\ Post("STOP")
    /\ UNCHANGED <<sysVars, httpdVars, taskVars, sendVars, fault, risky>>

----------------------------------------------------------------------------
(* sys_evt: websocket_server_start.                                        *)

Handles(e) ==
    /\ pc = "idle"
    /\ events # << >> /\ Head(events) = e
    /\ events' = Tail(events)
    /\ UNCHANGED <<ap, missed>>

StartIgnored ==
    /\ Handles("START") /\ server # None
    /\ UNCHANGED <<sysVars, httpdVars, taskVars, sendVars, fault, risky>>

Start ==
    /\ Handles("START") /\ server = None /\ gen < MaxStarts
    /\ handlers' = TRUE
    /\ gen' = gen + 1
    /\ pc' = "start keep-alive"
    /\ UNCHANGED <<server, keep_alive, startFailed, stopFailed, httpdVars,
                   taskVars, sendVars, fault, risky>>

(* wss_keep_alive_start; memory for the storage, its queue or its task may *)
(* be short, and keep_alive is then null.                                  *)
StartKeepAlive ==
    /\ pc = "start keep-alive"
    /\ pc' = "start httpd"
    /\ \/ /\ keep_alive' = gen
          /\ storage' = [storage EXCEPT ![gen] = "receiving"]
          /\ UNCHANGED risky
       \/ keep_alive' = None /\ risky' = TRUE /\ UNCHANGED storage
    /\ UNCHANGED <<apVars, gen, server, handlers, startFailed, stopFailed,
                   httpdVars, watched, ctx, stop, sendVars, fault>>

(* httpd_ssl_start, with the storage of this generation as                 *)
(* global_user_ctx; it fails for one if the port is still in use.          *)
StartHttpd ==
    /\ pc = "start httpd"
    /\ \A g \in Generations : ~Running(g)
    /\ httpd' = [httpd EXCEPT ![gen] = "started"]
    /\ server' = gen
    /\ startFailed' = FALSE
    /\ pc' = "register"
    /\ UNCHANGED <<apVars, gen, keep_alive, handlers, stopFailed, sessions,
                   work, taskVars, sendVars, fault, risky>>

(* Mutant: a failed start leaves the keep-alive task running.              *)
StartHttpdLeaks ==
    /\ pc = "start httpd"
    /\ keep_alive' = None
    /\ startFailed' = TRUE
    /\ pc' = "idle"
    /\ UNCHANGED <<apVars, gen, server, handlers, stopFailed, httpdVars,
                   taskVars, sendVars, fault, risky>>

(* The new monitor is stopped; only sessions of a server that could not be *)
(* stopped may have filled its queue.                                      *)
StartHttpdFails ==
    /\ pc = "start httpd"
    /\ \/ keep_alive = None /\ UNCHANGED stop
       \/ keep_alive # None /\ stop' = [stop EXCEPT ![keep_alive] = "queued"]
       \/ /\ keep_alive # None /\ \E g \in Generations : Running(g)
          /\ stop' = [stop EXCEPT ![keep_alive] = "refused"]
    /\ keep_alive' = None
    /\ startFailed' = TRUE
    /\ pc' = "idle"
    /\ UNCHANGED <<apVars, gen, server, handlers, stopFailed, httpdVars,
                   storage, watched, ctx, sendVars, fault, risky>>

(* httpd_register_uri_handler; its failure is ignored.                     *)
Register ==
    /\ pc = "register"
    /\ httpd' \in {httpd, [httpd EXCEPT ![gen] = "serving"]}
    /\ pc' = "set context"
    /\ UNCHANGED <<apVars, gen, server, keep_alive, handlers, startFailed,
                   stopFailed, sessions, work, taskVars, sendVars, fault, risky>>

(* wss_keep_alive_set_user_ctx, of a null handle too.                      *)
SetContext ==
    /\ pc = "set context"
    /\ \/ /\ keep_alive # None
          /\ ctx' = [ctx EXCEPT ![keep_alive] = server]
          /\ UNCHANGED fault
       \/ keep_alive = None /\ fault' = "start without keep-alive" /\ UNCHANGED ctx
    /\ pc' = "idle"
    /\ UNCHANGED <<apVars, gen, server, keep_alive, handlers, startFailed,
                   stopFailed, httpdVars, storage, watched, stop, sendVars, risky>>

----------------------------------------------------------------------------
(* sys_evt: websocket_server_stop.                                         *)

StopIgnored ==
    /\ Handles("STOP") /\ server = None
    /\ UNCHANGED <<sysVars, httpdVars, taskVars, sendVars, fault, risky>>

(* Mutant: server is cleared only when the stop is over.                   *)
StopLate ==
    /\ Handles("STOP") /\ server # None
    /\ pc' = "stop keep-alive"
    /\ risky' = (risky \/ InUse(server))
    /\ UNCHANGED <<gen, server, keep_alive, handlers, startFailed, stopFailed,
                   httpdVars, taskVars, sendVars, fault>>

(* Mutant: a server with open sessions is not stopped.                     *)
StopUnlessOpen ==
    /\ Handles("STOP") /\ server # None
    /\ \/ /\ sessions[server] = 0
          /\ server' = None
          /\ pc' = "stop keep-alive"
          /\ risky' = (risky \/ InUse(server))
       \/ sessions[server] > 0 /\ UNCHANGED <<server, pc, risky>>
    /\ UNCHANGED <<gen, keep_alive, handlers, startFailed, stopFailed,
                   httpdVars, taskVars, sendVars, fault>>

(* server_to_stop is server, which is of the last generation.              *)
Stop ==
    /\ Handles("STOP") /\ server # None
    /\ server' = None
    /\ pc' = "stop keep-alive"
    /\ risky' = (risky \/ InUse(server))
    /\ UNCHANGED <<gen, keep_alive, handlers, startFailed, stopFailed,
                   httpdVars, taskVars, sendVars, fault>>

(* wss_keep_alive_stop: the queue may be full, which nobody notices.       *)
StopKeepAlive ==
    /\ pc = "stop keep-alive"
    /\ \E result \in {"queued", "refused"} : stop' = [stop EXCEPT ![keep_alive] = result]
    /\ pc' = "forget keep-alive"
    /\ UNCHANGED <<apVars, gen, server, keep_alive, handlers, startFailed,
                   stopFailed, httpdVars, storage, watched, ctx, sendVars, fault, risky>>

ForgetKeepAlive ==
    /\ pc = "forget keep-alive"
    /\ keep_alive' = None
    /\ pc' = "stop httpd"
    /\ UNCHANGED <<apVars, gen, server, handlers, startFailed, stopFailed,
                   httpdVars, taskVars, sendVars, fault, risky>>

(* httpd_ssl_stop: httpd closes the open sessions (CloseSession) and then  *)
(* all is freed.  If httpd cannot be told, it goes on.                     *)
StopHttpd ==
    /\ pc = "stop httpd"
    /\ \/ /\ httpd' = [httpd EXCEPT ![gen] = "closing"]
          /\ pc' = "await httpd"
          /\ UNCHANGED stopFailed
       \/ /\ stopFailed' = TRUE
          /\ pc' = "clear handlers"
          /\ UNCHANGED httpd
    /\ UNCHANGED <<apVars, gen, server, keep_alive, handlers, startFailed,
                   sessions, work, taskVars, sendVars, fault, risky>>

(* Work that is still queued is never done.  The storage is freed here     *)
(* also if the monitor has freed it already.                               *)
HttpdStopped ==
    /\ pc = "await httpd"
    /\ sessions[gen] = 0
    /\ httpd' = [httpd EXCEPT ![gen] = "stopped"]
    /\ work' = [work EXCEPT ![gen] = {}]
    /\ \/ storage[gen] = "freed" /\ MayFault("storage freed twice")
       \/ storage[gen] # "freed" /\ UNCHANGED fault
    /\ pc' = "clear handlers"
    /\ UNCHANGED <<apVars, gen, server, keep_alive, handlers, startFailed,
                   stopFailed, sessions, taskVars, sendVars, risky>>

ClearHandlers ==
    /\ pc = "clear handlers"
    /\ handlers' = FALSE
    /\ pc' = "idle"
    /\ UNCHANGED <<apVars, gen, server, keep_alive, startFailed, stopFailed,
                   httpdVars, taskVars, sendVars, fault, risky>>

----------------------------------------------------------------------------
(* httpd of generation g.                                                  *)

(* A call of the keep-alive monitor with the static handle.                *)
UseKeepAlive ==
    \/ keep_alive = None /\ fault' = "session without keep-alive"
    \/ /\ keep_alive # None /\ storage[keep_alive] = "freed"
       /\ fault' = "session after keep-alive"
    \/ keep_alive # None /\ Live(keep_alive) /\ UNCHANGED fault

(* A session is a TLS connection first.  One that is opened while the      *)
(* server is being stopped, or after a stop that failed, is at risk.       *)
OpenSession(g) ==
    /\ httpd[g] \in {"started", "serving"}
    /\ sessions[g] < MaxSessions
    /\ sessions' = [sessions EXCEPT ![g] = @ + 1]
    /\ risky' = (risky \/ server # g)
    /\ UNCHANGED <<apVars, sysVars, httpd, work, taskVars, sendVars, fault>>

(* websocket_handler: a handshake or a frame.                              *)
HandleRequest(g) ==
    /\ httpd[g] = "serving" /\ sessions[g] > 0
    /\ UseKeepAlive
    /\ watched' = watched \cup ({keep_alive} \ {None})
    /\ UNCHANGED <<apVars, sysVars, httpdVars, storage, ctx, stop, sendVars, risky>>

(* on_client_close.                                                        *)
CloseSession(g) ==
    /\ Running(g) /\ sessions[g] > 0
    /\ UseKeepAlive
    /\ sessions' = [sessions EXCEPT ![g] = @ - 1]
    /\ UNCHANGED <<apVars, sysVars, httpd, work, taskVars, sendVars, risky>>

(* async_send_task: it sends through the handle of its argument.           *)
DoWork(g) ==
    /\ httpd[g] \in {"started", "serving"}
    /\ \E h \in work[g] :
          /\ work' = [work EXCEPT ![g] = @ \ {h}]
          /\ fault' = IF h # None /\ ~Running(h) THEN "message after server" ELSE fault
    /\ UNCHANGED <<apVars, sysVars, httpd, sessions, taskVars, sendVars, risky>>

----------------------------------------------------------------------------
(* The keep-alive task of generation g.                                    *)

(* A receive times out: the queue is empty.  A sweep that begins while the *)
(* server is being stopped is at risk too.                                 *)
BeginSweep(g) ==
    /\ storage[g] = "receiving" /\ stop[g] # "queued" /\ g \in watched
    /\ storage' = [storage EXCEPT ![g] = "sweeping"]
    /\ risky' = (risky \/ server # g)
    /\ UNCHANGED <<apVars, sysVars, httpdVars, watched, ctx, stop, sendVars, fault>>

(* send_ping_to_client or httpd_sess_trigger_close, with the user context. *)
Callback(g) ==
    /\ storage[g] = "sweeping"
    /\ ctx[g] # None /\ ~Running(ctx[g])
    /\ fault' = "sweep after server"
    /\ UNCHANGED <<apVars, sysVars, httpdVars, taskVars, sendVars, risky>>

EndSweep(g) ==
    /\ storage[g] = "sweeping"
    /\ storage' = [storage EXCEPT ![g] = "receiving"]
    /\ UNCHANGED <<apVars, sysVars, httpdVars, watched, ctx, stop, sendVars, fault, risky>>

(* Mutant: STOP_TASK is handled as an unknown action.                      *)
HandleStopIgnored(g) ==
    /\ storage[g] = "receiving" /\ stop[g] = "queued"
    /\ stop' = [stop EXCEPT ![g] = "refused"]
    /\ UNCHANGED <<apVars, sysVars, httpdVars, storage, watched, ctx, sendVars, fault, risky>>

(* The queue is deleted and the storage freed, also if httpd has freed it. *)
HandleStop(g) ==
    /\ storage[g] = "receiving" /\ stop[g] = "queued"
    /\ storage' = [storage EXCEPT ![g] = "freed"]
    /\ \/ Released(g) /\ MayFault("storage freed twice")
       \/ ~Released(g) /\ UNCHANGED fault
    /\ UNCHANGED <<apVars, sysVars, httpdVars, watched, ctx, stop, sendVars, risky>>

(* The monitor goes on with storage that httpd has freed: it takes what is *)
(* queued before STOP_TASK, or sweeps, or looks for its next sweep.        *)
UseReleased(g) ==
    /\ Live(g) /\ Released(g)
    /\ fault' = "monitor after httpd"
    /\ UNCHANGED <<apVars, sysVars, httpdVars, taskVars, sendVars, risky>>

----------------------------------------------------------------------------
(* A task that sends: the CHIP task with a report.  server is read anew    *)
(* for every test and every call.                                          *)

(* The tests of websocket_broadcast_message and, after the list, of        *)
(* websocket_send_message_to_client.                                       *)
TestServer ==
    /\ sender \in {"idle", "test again"}
    /\ sender' = IF server = None THEN "idle"
                 ELSE IF sender = "idle" THEN "list" ELSE "prepare"
    /\ sender' # sender
    /\ UNCHANGED <<apVars, sysVars, httpdVars, taskVars, loaded, handle, fault, risky>>

(* server is loaded for the call of httpd_get_client_list,                 *)
(* httpd_ws_get_fd_info and httpd_queue_work.                              *)
LoadServer ==
    /\ \/ sender = "list" /\ sender' = "in list"
       \/ sender = "info" /\ sender' = "in info"
       \/ sender = "queue" /\ sender' = "in queue"
    /\ loaded' = server
    /\ UNCHANGED <<apVars, sysVars, httpdVars, taskVars, handle, fault, risky>>

(* AsyncSendArg: allocated, and filled with server once more.              *)
Prepare ==
    /\ sender = "prepare"
    /\ \/ sender' = "queue" /\ handle' = server
       \/ sender' = "idle" /\ UNCHANGED handle
    /\ UNCHANGED <<apVars, sysVars, httpdVars, taskVars, loaded, fault, risky>>

(* The call itself, with what it goes on with: httpd refuses a null        *)
(* handle, and may fail; the broadcast ends after its last client.         *)
CallHttpd ==
    /\ sender \in {"in list", "in info", "in queue"}
    /\ \/ /\ loaded # None /\ ~Running(loaded)
          /\ fault' = "message after server"
          /\ UNCHANGED <<sender, work>>
       \/ sender' = "idle" /\ UNCHANGED <<work, fault>>
       \/ /\ loaded # None /\ Running(loaded)
          /\ \/ sender = "in list" /\ sender' = "info" /\ UNCHANGED work
             \/ sender = "in info" /\ sender' \in {"info", "test again"} /\ UNCHANGED work
             \/ /\ sender = "in queue" /\ sender' = "info"
                /\ work' = [work EXCEPT ![loaded] = @ \cup {handle}]
          /\ UNCHANGED fault
    /\ UNCHANGED <<apVars, sysVars, httpd, sessions, taskVars, loaded, handle, risky>>

----------------------------------------------------------------------------
(* A fault, or the loss of power, restarts the board.                      *)
Reboot ==
    /\ ap' = FALSE /\ events' = << >> /\ missed' = FALSE
    /\ pc' = "idle" /\ gen' = 0
    /\ server' = None /\ keep_alive' = None /\ handlers' = FALSE
    /\ startFailed' = FALSE /\ stopFailed' = FALSE
    /\ httpd' = [g \in Generations |-> "none"]
    /\ sessions' = [g \in Generations |-> 0]
    /\ work' = [g \in Generations |-> {}]
    /\ storage' = [g \in Generations |-> "none"]
    /\ watched' = {}
    /\ ctx' = [g \in Generations |-> None]
    /\ stop' = [g \in Generations |-> "no"]
    /\ sender' = "idle" /\ loaded' = None /\ handle' = None
    /\ fault' = None /\ risky' = FALSE

SysEvt ==
    \/ StartIgnored \/ Start \/ StartKeepAlive \/ StartHttpd \/ StartHttpdFails
    \/ Register \/ SetContext
    \/ StopIgnored \/ Stop \/ StopKeepAlive \/ ForgetKeepAlive \/ StopHttpd
    \/ HttpdStopped \/ ClearHandlers

Httpd(g) == OpenSession(g) \/ HandleRequest(g) \/ CloseSession(g) \/ DoWork(g)
KeepAliveTask(g) ==
    BeginSweep(g) \/ Callback(g) \/ EndSweep(g) \/ HandleStop(g) \/ UseReleased(g)
Sender == TestServer \/ LoadServer \/ Prepare \/ CallHttpd

Next ==
    \/ /\ fault = None
       /\ \/ ApStarts \/ ApStops \/ SysEvt \/ Sender
          \/ \E g \in Generations : Httpd(g) \/ KeepAliveTask(g)
    \/ Reboot

Spec == Init /\ [][Next]_vars

(* FreeRTOS runs the tasks: a sweep ends, and a keep-alive task receives   *)
(* what is queued.  A fault restarts the board.                            *)
Fairness ==
    /\ \A g \in Generations : WF_vars(fault = None /\ (EndSweep(g) \/ HandleStop(g)))
    /\ WF_vars(fault # None /\ Reboot)

FairSpec == Spec /\ Fairness

----------------------------------------------------------------------------
(* Properties.                                                             *)

StopSteps ==
    {"stop keep-alive", "forget keep-alive", "stop httpd", "await httpd", "clear handlers"}

ApTypeOK ==
    /\ ap \in BOOLEAN /\ missed \in BOOLEAN
    /\ events \in Seq({"START", "STOP"}) /\ Len(events) <= MaxEvents

SysTypeOK ==
    /\ pc \in {"idle", "start keep-alive", "start httpd", "register", "set context"}
                \cup StopSteps
    /\ gen \in 0..MaxStarts
    /\ server \in Generations \cup {None}
    /\ keep_alive \in Generations \cup {None}
    /\ handlers \in BOOLEAN /\ startFailed \in BOOLEAN /\ stopFailed \in BOOLEAN

HttpdTypeOK ==
    /\ httpd \in [Generations -> {"none", "started", "serving", "closing", "stopped"}]
    /\ sessions \in [Generations -> 0..MaxSessions]
    /\ work \in [Generations -> SUBSET (Generations \cup {None})]

TaskTypeOK ==
    /\ storage \in [Generations -> {"none", "receiving", "sweeping", "freed"}]
    /\ watched \in SUBSET Generations
    /\ ctx \in [Generations -> Generations \cup {None}]
    /\ stop \in [Generations -> {"no", "queued", "refused"}]

SendTypeOK ==
    /\ sender \in {"idle", "list", "in list", "info", "in info", "test again",
                   "prepare", "queue", "in queue"}
    /\ loaded \in Generations \cup {None} /\ handle \in Generations \cup {None}

HistoryTypeOK == fault \in Faults \cup {None} /\ risky \in BOOLEAN

(* Every variable holds a value of its kind.                               *)
TypeOK ==
    ApTypeOK /\ SysTypeOK /\ HttpdTypeOK /\ TaskTypeOK /\ SendTypeOK /\ HistoryTypeOK

(* What the test of server at websocket_server.cpp:357 and 377 is worth:   *)
(* while it is set, httpd runs, both handlers are set, and, once the start *)
(* is over, the keep-alive monitor runs with this server as its context    *)
(* and has not been told to stop.                                          *)
ServerIsWhole ==
    server # None =>
        /\ httpd[server] \in {"started", "serving"}
        /\ handlers
        /\ pc = "idle" /\ fault = None =>
              /\ keep_alive = server
              /\ Live(server) /\ stop[server] = "no" /\ ctx[server] = server

(* No keep-alive task is left behind: one that keep_alive does not name    *)
(* has been sent STOP_TASK, though its queue may have refused it           *)
(* (keep_alive.cpp:320), also when a start failed.                         *)
NoTaskForgotten ==
    \A g \in Generations : Live(g) /\ keep_alive # g => stop[g] # "no"

(* When every event has been handled and none was lost, the server runs    *)
(* exactly if the access point does and the last start succeeded, and no   *)
(* httpd runs without it unless a stop failed.                             *)
ServerFollowsAp ==
    pc = "idle" /\ events = << >> /\ ~missed =>
        /\ server # None <=> (ap /\ ~startFailed)
        /\ \A g \in Generations : Running(g) /\ ~stopFailed => server = g

(* What a fault needs.  A handle that is null, or whose object is gone     *)
(* (websocket_server.cpp:88, 127, 363 and 372), is used only if the        *)
(* keep-alive monitor could not be started, or a stop found a session, a   *)
(* message or a sweep under way, or a session or a sweep of the server     *)
(* began after its stop did, as they may until httpd and the monitor are   *)
(* gone and for ever if either could not be told.  The one fault that a    *)
(* stop of a server at rest may end in is that of line 106: httpd has      *)
(* stopped and freed the storage of a monitor, which has freed it too or   *)
(* goes on with it.                                                        *)
OnlyRiskyStopsFault ==
    fault # None =>
        \/ risky
        \/ \E g \in Generations :
              /\ Released(g)
              /\ \/ fault = "storage freed twice" /\ storage[g] = "freed"
                 \/ fault = "monitor after httpd" /\ Live(g)

(* The storage of a monitor that took its STOP_TASK is freed in the end.   *)
StoppedIsFreed ==
    \A g \in Generations : stop[g] = "queued" ~> storage[g] \in {"freed", "none"}

(* websocket_server.h:43: "This function halts the WebSocket server if it  *)
(* is currently running, stops the keep-alive mechanism for the WebSocket  *)
(* connections, and deallocates resources used by the server."  So         *)
(* stopping it does not end in a fault while httpd is shut down.           *)
StopHalts == pc = "await httpd" => fault = None
=============================================================================
