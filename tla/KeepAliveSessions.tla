------------------------- MODULE KeepAliveSessions -------------------------
(***************************************************************************)
(* The keep-alive monitor driven by the sessions of the HTTP server, as    *)
(* websocket_server.cpp drives it: a client is added after its handshake,  *)
(* marked active by each frame, removed when it sends a close frame and    *)
(* when its session ends, and the task closes it through                   *)
(* httpd_sess_trigger_close.  Every caller ignores the result of the call, *)
(* so an action the full queue refuses is gone.                            *)
(*                                                                         *)
(* The history variables record what the callers did: they appear in no    *)
(* guard.                                                                  *)
(***************************************************************************)
EXTENDS KeepAlive

CONSTANT MaxSilence   \* bound: the silence counted

ASSUME SilenceAssumption == MaxSilence \in Nat

VARIABLES
    session,   \* session[fd]: "none", "open", or "closing" (being closed)
    stopping,  \* websocket_server_stop has been called
    quiet,     \* quiet[fd]: ticks since an Add or Update of fd was accepted
    fresh,     \* descriptors with an Add or Update accepted since the sweep's now
    lost,      \* descriptors of which an Add or a final Remove was refused
    silence    \* ticks since the last call of any kind

sessionVars == <<session, stopping, quiet, fresh, lost, silence>>
vars == <<kaVars, sessionVars>>

Init ==
    /\ KAInit
    /\ session = [fd \in Fds |-> "none"]
    /\ stopping = FALSE
    /\ quiet = [fd \in Fds |-> 0]
    /\ fresh = {}
    /\ lost = {}
    /\ silence = 0

(* What a call does to everything but the queue and the session.           *)
Called ==
    /\ ~stopping
    /\ silence' = 0
    /\ UNCHANGED <<tableVars, pc, wait, sweepVars, late, stopping>>

(* The history of an Add or Update of fd.                                  *)
Heard(fd) ==
    IF QueueFull THEN UNCHANGED <<quiet, fresh>>
    ELSE /\ quiet' = [quiet EXCEPT ![fd] = 0]
         /\ fresh' = IF pc = "sweep" THEN fresh \cup {fd} ELSE fresh

NoteLost(fd) == lost' = IF QueueFull THEN lost \cup {fd} ELSE lost

(* The GET branch of websocket_handler.                                    *)
Connect(fd) ==
    /\ Called
    /\ session[fd] = "none"
    /\ session' = [session EXCEPT ![fd] = "open"]
    /\ wss_keep_alive_add_client(fd)
    /\ Heard(fd)
    /\ NoteLost(fd)

(* process_frame on a TEXT, PING or PONG frame.                            *)
Frame(fd) ==
    /\ Called
    /\ session[fd] # "none"
    /\ wss_keep_alive_client_is_active(fd)
    /\ Heard(fd)
    /\ UNCHANGED <<session, lost>>

(* process_frame on a CLOSE frame; the session itself ends later.          *)
CloseFrame(fd) ==
    /\ Called
    /\ session[fd] = "open"
    /\ session' = [session EXCEPT ![fd] = "closing"]
    /\ wss_keep_alive_remove_client(fd)
    /\ UNCHANGED <<quiet, fresh, lost>>

(* Mutant: on_client_close that leaves the removal to the close frame.     *)
OnClientCloseKeepsSlot(fd) ==
    /\ Called
    /\ session[fd] # "none"
    /\ session' = [session EXCEPT ![fd] = "none"]
    /\ UNCHANGED <<queue, quiet, fresh, lost>>

(* The session ends, for whatever reason: on_client_close.                 *)
OnClientClose(fd) ==
    /\ Called
    /\ session[fd] # "none"
    /\ session' = [session EXCEPT ![fd] = "none"]
    /\ wss_keep_alive_remove_client(fd)
    /\ NoteLost(fd)
    /\ UNCHANGED <<quiet, fresh>>

(* websocket_server_stop: the handle is dropped whether or not STOP_TASK   *)
(* was accepted, so no other call follows: every session ends, and no      *)
(* Remove of any descriptor reaches the queue.                             *)
StopServer ==
    /\ ~stopping
    /\ stopping' = TRUE
    /\ wss_keep_alive_stop
    /\ session' = [fd \in Fds |-> "none"]
    /\ lost' = Fds
    /\ quiet' = [fd \in Fds |-> 0]
    /\ fresh' = {}
    /\ silence' = 0
    /\ UNCHANGED <<tableVars, pc, wait, sweepVars, late>>

----------------------------------------------------------------------------
(* The task's steps; its two callbacks.                                    *)

(* Mutant: the client is forgotten but its session is not closed.          *)
SessionStaysOpen(fd) == UNCHANGED session

(* client_not_alive_cb: httpd_sess_trigger_close, which finds the session  *)
(* by its descriptor and schedules its end.                                *)
client_not_alive_cb(fd) ==
    session' = IF session[fd] = "open"
               THEN [session EXCEPT ![fd] = "closing"] ELSE session

Expire == \E fd \in Fds : ExpireClient(fd) /\ client_not_alive_cb(fd)

(* check_client_alive_cb sends a ping; the answer, if any, is a Frame.     *)
Ping == \E fd \in Fds : PingClient(fd) /\ UNCHANGED session

Task ==
    /\ (TaskStep /\ UNCHANGED session) \/ Expire \/ Ping
    /\ fresh' = IF pc' = "sweep" THEN fresh ELSE {}
    /\ UNCHANGED <<stopping, quiet, lost, silence>>

Time ==
    /\ Tick
    /\ quiet' = [fd \in Fds |-> IF stopping THEN 0 ELSE Older(quiet[fd])]
    /\ silence' = IF silence < MaxSilence THEN silence + 1 ELSE silence
    /\ UNCHANGED <<session, stopping, fresh, lost>>

Next ==
    \/ \E fd \in Fds : Connect(fd) \/ Frame(fd) \/ CloseFrame(fd) \/ OnClientClose(fd)
    \/ StopServer
    \/ Task
    \/ Time

Spec == Init /\ [][Next]_vars

(* The scheduler runs the task and time passes; a session the server is    *)
(* closing ends.  Clients promise nothing.                                 *)
Fairness ==
    /\ WF_vars(Task)
    /\ WF_vars(Time)
    /\ \A fd \in Fds : WF_vars(session[fd] = "closing" /\ OnClientClose(fd))

FairSpec == Spec /\ Fairness

----------------------------------------------------------------------------
(* The history variables and the component's variables hold values of      *)
(* their kind.                                                             *)
TypeOK ==
    /\ KATypeOK
    /\ session \in [Fds -> {"none", "open", "closing"}]
    /\ stopping \in BOOLEAN
    /\ quiet \in [Fds -> 0..AgeCap]
    /\ fresh \in SUBSET Fds
    /\ lost \in SUBSET Fds
    /\ silence \in 0..MaxSilence

(* A descriptor is in at most one slot.  register_client does not check    *)
(* this: it rests on a Remove standing before the next Add of the same     *)
(* descriptor in the queue, and so fails for a descriptor whose Remove the *)
(* full queue refused.                                                     *)
UniqueSlots ==
    \A i, j \in ActiveSlots :
        clients[i] = clients[j] /\ clients[i] \notin lost => i = j

(* The task closes no client that was heard from.  When the sweep is about *)
(* to call client_not_alive_cb on a descriptor with a session, nothing of  *)
(* that descriptor was accepted for more than NotAliveAfter ticks, unless  *)
(* it was accepted after the sweep read its time, or the slot is a left-   *)
(* over of a Remove the full queue refused.                                *)
NoFalseClose ==
    \A i \in overdue :
        clients[i] \notin lost \cup fresh => quiet[clients[i]] > NotAliveAfter

----------------------------------------------------------------------------
(* Why they hold: what the queue and the table say together about a        *)
(* descriptor none of whose calls was lost.                                *)

Queued(action) == { k \in 1..Len(queue) : queue[k] = action }

(* Between two Adds of a descriptor stands a Remove of it.                 *)
AddsSeparated(fd) ==
    \A i, j \in Queued(Add(fd)) : i < j => \E k \in Queued(Remove(fd)) : i < k /\ k < j

(* Before an Add of a descriptor that has a slot stands a Remove.          *)
SlotBeforeAdd(fd) ==
    SlotsOf(fd) # {} =>
        \A j \in Queued(Add(fd)) : \E k \in Queued(Remove(fd)) : k < j

(* What is left of an ended session has its Remove still to come.          *)
GoneIsRemoved(fd) ==
    session[fd] = "none" =>
        /\ \A j \in Queued(Add(fd)) : \E k \in Queued(Remove(fd)) : j < k
        /\ SlotsOf(fd) # {} => Queued(Remove(fd)) # {}

OneSlot(fd) == \A i, j \in SlotsOf(fd) : i = j

(* A slot is no older than the last call about it, unless that is queued.  *)
AgeBounded(fd) ==
    \A i \in SlotsOf(fd) :
        \/ age[i] <= quiet[fd]
        \/ Queued(Add(fd)) \cup Queued(Update(fd)) # {}

(* A call queued during the sweep is noted in fresh.                       *)
FreshNoted(fd) ==
    pc = "sweep" /\ Queued(Add(fd)) \cup Queued(Update(fd)) # {} => fd \in fresh

Tracked(fd) ==
    /\ AddsSeparated(fd)
    /\ SlotBeforeAdd(fd)
    /\ GoneIsRemoved(fd)
    /\ OneSlot(fd)
    /\ AgeBounded(fd)
    /\ FreshNoted(fd)

(* The slots to be closed lie ahead of the sweep and really are past the   *)
(* threshold.                                                              *)
SweepConsistent ==
    \A i \in overdue :
        pc = "sweep" /\ i \in ActiveSlots /\ i >= at /\ age[i] > NotAliveAfter

(* The inductive invariant behind UniqueSlots and NoFalseClose: the queue  *)
(* and the table agree on every descriptor none of whose calls was lost.   *)
Inv ==
    /\ SweepConsistent
    /\ stopping => lost = Fds
    /\ \A fd \in Fds \ lost : Tracked(fd)

----------------------------------------------------------------------------
Pending(fd) == \E k \in 1..Len(queue) : queue[k] \in {Add(fd), Remove(fd)}

(* Every open session is watched: with no call refused, a session whose    *)
(* Add is no longer queued has a slot of the table, because the table has  *)
(* a slot for every descriptor and none is left behind by an old session.  *)
OpenIsWatched ==
    \A fd \in Fds :
        lost = {} /\ session[fd] = "open" /\ ~Pending(fd)
            => SlotsOf(fd) # {}

(* When the callers fall silent the table empties: each client that sends  *)
(* nothing more is closed and forgotten, those left behind by a refused    *)
(* Remove included, late as the wrapped timeout may make the sweep.        *)
SilenceEmptiesTable ==
    <>[](queue = <<>> /\ pc # "done") => <>[](ActiveSlots = {})

(* How long that takes: NotAliveAfter, one wait, which a client past its   *)
(* period does not shorten, and three times the task may be late: when it  *)
(* takes what was queued, when it wakes for the sweep that finds a client  *)
(* just short of the threshold, and when it wakes for the next.            *)
SilenceLimit == NotAliveAfter + DefaultTimeout + 3 * MaxLate

SilenceIsBounded == silence > SilenceLimit /\ pc # "done" => ActiveSlots = {}

(* Why: what is queued was queued while the task was runnable; a slot is   *)
(* as old as the silence, but for the time the last call was queued; a     *)
(* task that sleeps was not late; and the longest silence a slot can have  *)
(* seen at each place of the task.  A sweep either found a silence too     *)
(* short, or has every slot among those it will close.                     *)
SilenceInv ==
    /\ queue # <<>> => silence <= late
    /\ \A i \in ActiveSlots :
          age[i] > NotAliveAfter \/ silence <= age[i] + MaxLate
    /\ Blocked => late = 0
    /\ queue = <<>> /\ ActiveSlots # {} =>
          /\ pc = "loop" => silence <= NotAliveAfter + MaxLate + late
          /\ pc = "receive" => silence + wait <= NotAliveAfter + 2 * MaxLate + DefaultTimeout + late
          /\ pc = "sweep" =>
                \/ silence <= NotAliveAfter + MaxLate + late
                \/ /\ ActiveSlots \subseteq overdue
                   /\ silence <= NotAliveAfter + 2 * MaxLate + DefaultTimeout + late

(* A client within its period is checked when the period ends: a task that *)
(* has nothing queued does not sleep past it, or past MinCheck.            *)
CheckedInTime ==
    pc = "receive" /\ queue = <<>> =>
        \A i \in ActiveSlots :
            age[i] <= Period => wait <= MinCheck \/ age[i] + wait <= Period

(* The comment above get_next_keep_alive_check: "If the calculated delay   *)
(* is less than 0, it defaults to the minimum keep-alive check interval".  *)
(* So with a client past its period the task waits MinCheck.               *)
OverdueWaitsMinimum ==
    [][ pc = "loop" /\ (\E i \in ActiveSlots : age[i] > Period)
            => wait' <= MinCheck ]_vars

(* keep_alive.h: the storage serves "ensuring timely removal of inactive   *)
(* or unresponsive clients".  So a client that is never heard again does   *)
(* not keep its slot for ever, whatever the other clients send, if no call *)
(* was ever refused and time goes on (no infinite burst of calls between   *)
(* two ticks).                                                             *)
UnresponsiveIsRemoved ==
    [](lost = {}) /\ []<><<Time>>_vars =>
        \A fd \in Fds : <>[](quiet[fd] > NotAliveAfter)
                           => []<>(SlotsOf(fd) = {} \/ pc = "done")
============================================================================
