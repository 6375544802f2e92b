--------------------------- MODULE KeepAliveProofs ---------------------------
(***************************************************************************)
(* Proofs about the keep-alive monitor and the sessions that drive it, for *)
(* any number of descriptors and slots and any timing constants that meet  *)
(* KeepAliveAssumption.                                                    *)
(***************************************************************************)
EXTENDS KeepAliveSessions, TLAPS

USE KeepAliveAssumption, SilenceAssumption

----------------------------------------------------------------------------
(* The queue.                                                              *)

(* Actions of different kinds, or of different descriptors, differ.        *)
LEMMA ActionFacts ==
    ASSUME NEW fd \in Fds, NEW g \in Fds
    PROVE  /\ Add(fd) \in Actions /\ Remove(fd) \in Actions /\ Update(fd) \in Actions
           /\ StopTask \in Actions
           /\ Add(fd) # Remove(g) /\ Add(fd) # Update(g) /\ Remove(fd) # Update(g)
           /\ StopTask # Add(fd) /\ StopTask # Remove(fd) /\ StopTask # Update(fd)
           /\ fd # g => Add(fd) # Add(g) /\ Remove(fd) # Remove(g) /\ Update(fd) # Update(g)
  BY DEF Add, Remove, Update, StopTask, Actions

(* The queue has room for one action at least.                             *)
LEMMA QueueSizeType == QueueSize \in Nat /\ QueueSize >= 1
  BY DEF QueueSize

(* A send refuses the action or puts it at the end of the queue.           *)
LEMMA SendEffect ==
    ASSUME NEW action \in Actions, queue \in Seq(Actions), Len(queue) <= QueueSize,
           Send(action)
    PROVE  /\ queue' \in Seq(Actions) /\ Len(queue') <= QueueSize
           /\ QueueFull => queue' = queue
           /\ ~QueueFull =>
                 /\ Len(queue') = Len(queue) + 1
                 /\ queue'[Len(queue) + 1] = action
                 /\ \A i \in 1..Len(queue) : queue'[i] = queue[i]
  BY QueueSizeType DEF Send, QueueFull

(* A receive removes the action at the head of the queue.                  *)
LEMMA ReceiveEffect ==
    ASSUME NEW action \in Actions, queue \in Seq(Actions), Len(queue) <= QueueSize,
           Receive(action)
    PROVE  /\ queue' \in Seq(Actions) /\ Len(queue') <= QueueSize
           /\ Len(queue) >= 1 /\ queue[1] = action
           /\ Len(queue') = Len(queue) - 1
           /\ \A i \in 1..Len(queue') : queue'[i] = queue[i + 1]
  BY QueueSizeType DEF Receive

----------------------------------------------------------------------------
(* Types.                                                                  *)

(* The computed timeout is between MinCheck and DefaultTimeout: the        *)
(* default is among the delays, so the least of them does not exceed it.   *)
LEMMA TimeoutType ==
    ASSUME TypeOK, NEW delay, get_next_keep_alive_check(delay)
    PROVE  delay \in 0..DefaultTimeout
<1>1. PICK d \in CheckDelays : /\ \A e \in CheckDelays : d <= e
                               /\ delay = IF d < MinCheck THEN MinCheck ELSE d
  BY DEF get_next_keep_alive_check
<1>2. d <= DefaultTimeout
  BY <1>1 DEF CheckDelays
<1>3. d \in Nat
  <2>1. ASSUME NEW i \in Slots PROVE (Period - age[i]) % Modulus \in Nat
    BY DEF TypeOK, KATypeOK
  <2>. QED BY <2>1 DEF CheckDelays, ActiveSlots
<1>. QED BY <1>1, <1>2, <1>3

(* The table operations keep the table's type.                             *)
LEMMA TableType ==
    ASSUME TypeOK, NEW fd \in Fds,
           register_client(fd) \/ unregister_client(fd) \/ refresh_client_status(fd)
    PROVE  /\ clients' \in [Slots -> Fds \cup {NoClient}]
           /\ age' \in [Slots -> 0..AgeCap]
<1>0. /\ clients \in [Slots -> Fds \cup {NoClient}]
      /\ age \in [Slots -> 0..AgeCap]
      /\ 0 \in 0..AgeCap
  BY DEF TypeOK, KATypeOK
<1>1. CASE register_client(fd)
  BY <1>0, <1>1 DEF register_client, tableVars, FreeSlots
<1>2. CASE unregister_client(fd)
  BY <1>0, <1>2 DEF unregister_client, tableVars, SlotsOf
<1>3. CASE refresh_client_status(fd)
  BY <1>0, <1>3 DEF refresh_client_status, SlotsOf
<1>. QED BY <1>1, <1>2, <1>3

(* Every step keeps the type invariant.                                    *)
LEMMA TypeStep == TypeOK /\ [Next]_vars => TypeOK'
<1>. SUFFICES ASSUME TypeOK, [Next]_vars PROVE TypeOK'
  OBVIOUS
<1>. USE QueueSizeType DEF TypeOK, KATypeOK
<1>0. 0 \in 0..AgeCap
  OBVIOUS
<1>00. silence' \in 0..MaxSilence
  BY DEF Next, Connect, Frame, CloseFrame, OnClientClose, Called, StopServer, Task, Time,
         vars, sessionVars
<1>. USE <1>00
<1>1. ASSUME NEW fd \in Fds, Connect(fd) PROVE TypeOK'
  <2>1. queue' \in Seq(Actions) /\ Len(queue') <= QueueSize
    BY <1>1, ActionFacts, SendEffect DEF Connect, wss_keep_alive_add_client
  <2>2. /\ session' \in [Fds -> {"none", "open", "closing"}]
        /\ quiet' \in [Fds -> 0..AgeCap]
        /\ fresh' \in SUBSET Fds
        /\ lost' \in SUBSET Fds
    BY <1>0, <1>1 DEF Connect, Heard, NoteLost
  <2>. QED BY <1>1, <2>1, <2>2 DEF Connect, Called, tableVars, sweepVars
<1>2. ASSUME NEW fd \in Fds, Frame(fd) PROVE TypeOK'
  <2>1. queue' \in Seq(Actions) /\ Len(queue') <= QueueSize
    BY <1>2, ActionFacts, SendEffect DEF Frame, wss_keep_alive_client_is_active
  <2>2. quiet' \in [Fds -> 0..AgeCap] /\ fresh' \in SUBSET Fds
    BY <1>0, <1>2 DEF Frame, Heard
  <2>. QED BY <1>2, <2>1, <2>2 DEF Frame, Called, tableVars, sweepVars
<1>3. ASSUME NEW fd \in Fds, CloseFrame(fd) PROVE TypeOK'
  BY <1>3, ActionFacts, SendEffect
     DEF CloseFrame, Called, wss_keep_alive_remove_client, tableVars, sweepVars
<1>4. ASSUME NEW fd \in Fds, OnClientClose(fd) PROVE TypeOK'
  BY <1>4, ActionFacts, SendEffect
     DEF OnClientClose, Called, wss_keep_alive_remove_client, NoteLost, tableVars, sweepVars
<1>5. CASE StopServer
  <2>1. StopTask \in Actions BY DEF Actions
  <2>. QED BY <1>5, <2>1, SendEffect DEF StopServer, wss_keep_alive_stop, tableVars, sweepVars
<1>6. CASE Task
  <2>0. fresh' \in SUBSET Fds /\ UNCHANGED <<stopping, quiet, lost>>
    BY <1>6 DEF Task
  <2>1. CASE ComputeTimeout /\ UNCHANGED session
    BY <2>0, <2>1, TimeoutType DEF ComputeTimeout, tableVars, sweepVars
  <2>2. CASE HandleAdd /\ UNCHANGED session
    <3>1. PICK fd \in Fds : Receive(Add(fd)) /\ register_client(fd) /\ pc' = "loop"
      BY <2>2 DEF HandleAdd
    <3>2. Add(fd) \in Actions BY ActionFacts
    <3>. QED BY <2>0, <2>2, <3>1, <3>2, ReceiveEffect, TableType DEF Receive, sweepVars
  <2>3. CASE HandleRemove /\ UNCHANGED session
    <3>1. PICK fd \in Fds : Receive(Remove(fd)) /\ unregister_client(fd) /\ pc' = "loop"
      BY <2>3 DEF HandleRemove
    <3>2. Remove(fd) \in Actions BY ActionFacts
    <3>. QED BY <2>0, <2>3, <3>1, <3>2, ReceiveEffect, TableType DEF Receive, sweepVars
  <2>4. CASE HandleUpdate /\ UNCHANGED session
    <3>1. PICK fd \in Fds : Receive(Update(fd)) /\ refresh_client_status(fd) /\ pc' = "loop"
      BY <2>4 DEF HandleUpdate
    <3>2. Update(fd) \in Actions BY ActionFacts
    <3>. QED BY <2>0, <2>4, <3>1, <3>2, ReceiveEffect, TableType DEF Receive, sweepVars
  <2>5. CASE HandleStop /\ UNCHANGED session
    <3>1. StopTask \in Actions BY DEF Actions
    <3>. QED BY <2>0, <2>5, <3>1, ReceiveEffect DEF HandleStop, Receive, tableVars, sweepVars
  <2>6. CASE ReceiveTimeout /\ UNCHANGED session
    BY <2>0, <2>6 DEF ReceiveTimeout, tableVars, ActiveSlots
  <2>7. CASE SweepDone /\ UNCHANGED session
    BY <2>0, <2>7 DEF SweepDone, tableVars
  <2>8. CASE Expire
    BY <2>0, <2>8 DEF Expire, ExpireClient, client_not_alive_cb, Slots
  <2>9. CASE Ping
    BY <2>0, <2>9 DEF Ping, PingClient, ActiveSlots, tableVars, Slots
  <2>. QED BY <1>6, <2>1, <2>2, <2>3, <2>4, <2>5, <2>6, <2>7, <2>8, <2>9
          DEF Task, TaskStep
<1>7. CASE Time
  BY <1>7 DEF Time, Tick, Blocked, Older, sweepVars
<1>8. CASE UNCHANGED vars
  BY <1>8 DEF vars, kaVars, sessionVars
<1>. QED BY <1>1, <1>2, <1>3, <1>4, <1>5, <1>6, <1>7, <1>8 DEF Next

(* TypeOK holds in every reachable state, for every value of the constants.*)
THEOREM TypeCorrect == Spec => []TypeOK
<1>1. Init => TypeOK
  <2>. SUFFICES ASSUME Init PROVE TypeOK
    OBVIOUS
  <2>. USE DEF Init, KAInit
  <2>1. queue \in Seq(Actions) /\ Len(queue) <= QueueSize
    BY QueueSizeType
  <2>2. /\ clients \in [Slots -> Fds \cup {NoClient}]
        /\ age \in [Slots -> 0..AgeCap]
        /\ quiet \in [Fds -> 0..AgeCap]
    OBVIOUS
  <2>3. /\ wait \in 0..DefaultTimeout /\ at \in 1..(MaxClients + 1) /\ late \in 0..MaxLate
        /\ silence \in 0..MaxSilence
    OBVIOUS
  <2>. QED BY <2>1, <2>2, <2>3 DEF TypeOK, KATypeOK
<1>. QED BY <1>1, TypeStep, PTL DEF Spec

----------------------------------------------------------------------------
(* Where actions stand in the queue, before and after a step.              *)

(* A send adds at most one position, the last, to those of its action.     *)
LEMMA SendQueued ==
    ASSUME TypeOK, NEW action \in Actions, Send(action), NEW b \in Actions
    PROVE  /\ Queued(b) \subseteq 1..Len(queue) /\ Len(queue) \in Nat
           /\ b # action \/ QueueFull => Queued(b)' = Queued(b)
           /\ b = action /\ ~QueueFull => Queued(b)' = Queued(b) \cup {Len(queue) + 1}
<1>1. queue \in Seq(Actions) /\ Len(queue) <= QueueSize /\ Len(queue) \in Nat
  BY DEF TypeOK, KATypeOK
<1>2. CASE QueueFull
  BY <1>1, <1>2, SendEffect DEF Queued
<1>3. CASE ~QueueFull
  <2>1. /\ Len(queue') = Len(queue) + 1
        /\ queue'[Len(queue) + 1] = action
        /\ \A i \in 1..Len(queue) : queue'[i] = queue[i]
    BY <1>1, <1>3, SendEffect
  <2>2. 1..Len(queue') = 1..Len(queue) \cup {Len(queue) + 1}
    BY <1>1, <2>1
  <2>. QED BY <1>1, <1>3, <2>1, <2>2 DEF Queued
<1>. QED BY <1>2, <1>3

(* A receive takes position 1 away and shifts the others down by one.      *)
LEMMA ReceiveQueued ==
    ASSUME TypeOK, NEW action \in Actions, Receive(action), NEW b \in Actions
    PROVE  /\ Queued(b) \subseteq 1..Len(queue) /\ Len(queue) \in Nat
           /\ 1 \in Queued(b) <=> b = action
           /\ \A k \in Queued(b)' : k \in Nat /\ k >= 1 /\ k + 1 \in Queued(b)
           /\ \A k \in Queued(b) : k > 1 => k - 1 \in Queued(b)'
<1>1. queue \in Seq(Actions) /\ Len(queue) <= QueueSize /\ Len(queue) \in Nat
  BY DEF TypeOK, KATypeOK
<1>2. /\ Len(queue) >= 1 /\ queue[1] = action
      /\ Len(queue') = Len(queue) - 1
      /\ \A i \in 1..Len(queue') : queue'[i] = queue[i + 1]
  BY <1>1, ReceiveEffect
<1>. QED BY <1>1, <1>2 DEF Queued

----------------------------------------------------------------------------
(* The callers' steps and one descriptor.                                  *)

(* A call about another descriptor changes nothing for fd.                 *)
LEMMA OtherCall ==
    ASSUME TypeOK, NEW fd \in Fds, Tracked(fd),
           NEW g \in Fds, g # fd,
           NEW action \in {Add(g), Remove(g), Update(g)}, Send(action),
           UNCHANGED <<clients, age, pc>>, session'[fd] = session[fd],
           quiet'[fd] = quiet[fd], fresh \subseteq fresh'
    PROVE  Tracked(fd)'
<1>1. /\ Queued(Add(fd))' = Queued(Add(fd))
      /\ Queued(Remove(fd))' = Queued(Remove(fd))
      /\ Queued(Update(fd))' = Queued(Update(fd))
  <2>1. action \in Actions /\ action # Add(fd) /\ action # Remove(fd) /\ action # Update(fd)
    BY ActionFacts
  <2>. QED BY <2>1, ActionFacts, SendQueued
<1>2. SlotsOf(fd)' = SlotsOf(fd)
  BY DEF SlotsOf
<1>. QED BY <1>1, <1>2
        DEF Tracked, AddsSeparated, SlotBeforeAdd, GoneIsRemoved, OneSlot, AgeBounded,
            FreshNoted

(* Connect: the descriptor had no session, so whatever is left of an       *)
(* earlier one has its Remove queued, and the new Add goes behind it.      *)
LEMMA ConnectTracked ==
    ASSUME TypeOK, NEW fd \in Fds, Tracked(fd), Connect(fd), fd \notin lost'
    PROVE  Tracked(fd)'
<1>. DEFINE n == Len(queue) + 1
<1>0. ~QueueFull
  BY DEF Connect, NoteLost
<1>1. /\ Queued(Add(fd)) \subseteq 1..Len(queue) /\ Queued(Remove(fd)) \subseteq 1..Len(queue)
      /\ Len(queue) \in Nat
      /\ Queued(Add(fd))' = Queued(Add(fd)) \cup {n}
      /\ Queued(Remove(fd))' = Queued(Remove(fd))
      /\ Queued(Update(fd))' = Queued(Update(fd))
  BY <1>0, ActionFacts, SendQueued DEF Connect, wss_keep_alive_add_client
<1>2. /\ SlotsOf(fd)' = SlotsOf(fd) /\ age' = age /\ pc' = pc
      /\ session[fd] = "none" /\ session'[fd] = "open"
      /\ quiet'[fd] = 0
      /\ pc = "sweep" => fd \in fresh'
  BY <1>0 DEF Connect, Called, Heard, SlotsOf, tableVars, TypeOK
<1>3. AddsSeparated(fd)'
  BY <1>1, <1>2 DEF Tracked, AddsSeparated, GoneIsRemoved
<1>4. SlotBeforeAdd(fd)'
  BY <1>1, <1>2 DEF Tracked, SlotBeforeAdd, GoneIsRemoved
<1>5. GoneIsRemoved(fd)'
  BY <1>2 DEF GoneIsRemoved
<1>6. OneSlot(fd)' /\ AgeBounded(fd)' /\ FreshNoted(fd)'
  BY <1>1, <1>2 DEF Tracked, OneSlot, AgeBounded, FreshNoted
<1>. QED BY <1>3, <1>4, <1>5, <1>6 DEF Tracked

(* Frame: an Update behind everything else, or nothing at all.             *)
LEMMA FrameTracked ==
    ASSUME TypeOK, NEW fd \in Fds, Tracked(fd), Frame(fd)
    PROVE  Tracked(fd)'
<1>1. /\ Queued(Add(fd))' = Queued(Add(fd))
      /\ Queued(Remove(fd))' = Queued(Remove(fd))
      /\ QueueFull => Queued(Update(fd))' = Queued(Update(fd))
      /\ ~QueueFull => Queued(Update(fd))' # {}
  BY ActionFacts, SendQueued DEF Frame, wss_keep_alive_client_is_active
<1>2. /\ SlotsOf(fd)' = SlotsOf(fd) /\ age' = age /\ pc' = pc /\ session' = session
      /\ QueueFull => quiet' = quiet /\ fresh' = fresh
      /\ ~QueueFull /\ pc = "sweep" => fd \in fresh'
  BY DEF Frame, Called, Heard, SlotsOf, tableVars
<1>3. AddsSeparated(fd)' /\ SlotBeforeAdd(fd)' /\ GoneIsRemoved(fd)' /\ OneSlot(fd)'
  BY <1>1, <1>2 DEF Tracked, AddsSeparated, SlotBeforeAdd, GoneIsRemoved, OneSlot
<1>4. AgeBounded(fd)' /\ FreshNoted(fd)'
  BY <1>1, <1>2 DEF Tracked, AgeBounded, FreshNoted
<1>. QED BY <1>3, <1>4 DEF Tracked

(* A Remove behind everything else only helps; the session may end if the  *)
(* Remove was accepted.                                                    *)
LEMMA RemoveTracked ==
    ASSUME TypeOK, NEW fd \in Fds, Tracked(fd), Send(Remove(fd)),
           UNCHANGED <<clients, age, pc, quiet, fresh>>,
           session'[fd] # "none" \/ ~QueueFull,
           session[fd] # "none"
    PROVE  Tracked(fd)'
<1>. DEFINE n == Len(queue) + 1
<1>1. /\ Queued(Add(fd)) \subseteq 1..Len(queue) /\ Len(queue) \in Nat
      /\ Queued(Add(fd))' = Queued(Add(fd))
      /\ Queued(Update(fd))' = Queued(Update(fd))
      /\ Queued(Remove(fd)) \subseteq Queued(Remove(fd))'
      /\ ~QueueFull => n \in Queued(Remove(fd))'
  BY ActionFacts, SendQueued
<1>2. SlotsOf(fd)' = SlotsOf(fd)
  BY DEF SlotsOf
<1>3. AddsSeparated(fd)' /\ SlotBeforeAdd(fd)' /\ OneSlot(fd)'
  BY <1>1, <1>2 DEF Tracked, AddsSeparated, SlotBeforeAdd, OneSlot
<1>4. GoneIsRemoved(fd)'
  <2>1. CASE session'[fd] # "none"
    BY <2>1 DEF GoneIsRemoved
  <2>2. CASE ~QueueFull
    <3>1. \A j \in Queued(Add(fd))' : n \in Queued(Remove(fd))' /\ j < n
      BY <1>1, <2>2
    <3>. QED BY <1>1, <2>2, <3>1 DEF GoneIsRemoved
  <2>. QED BY <2>1, <2>2
<1>5. AgeBounded(fd)' /\ FreshNoted(fd)'
  BY <1>1, <1>2 DEF Tracked, AgeBounded, FreshNoted
<1>. QED BY <1>3, <1>4, <1>5 DEF Tracked

----------------------------------------------------------------------------
(* The task's steps and one descriptor.                                    *)

(* Slots of the table a table operation on g leaves alone.                 *)
LEMMA TableEffect ==
    ASSUME TypeOK, NEW g \in Fds
    PROVE  /\ register_client(g) =>
                 \/ UNCHANGED <<clients, age>>
                 \/ \E i \in Slots : /\ clients[i] = NoClient
                                     /\ clients' = [clients EXCEPT ![i] = g]
                                     /\ age' = [age EXCEPT ![i] = 0]
           /\ unregister_client(g) =>
                 \/ SlotsOf(g) = {} /\ UNCHANGED <<clients, age>>
                 \/ \E i \in SlotsOf(g) : /\ clients' = [clients EXCEPT ![i] = NoClient]
                                          /\ age' = [age EXCEPT ![i] = 0]
           /\ refresh_client_status(g) =>
                 /\ clients' = clients
                 /\ \/ SlotsOf(g) = {} /\ age' = age
                    \/ \E i \in SlotsOf(g) : age' = [age EXCEPT ![i] = 0]
  BY DEF register_client, unregister_client, refresh_client_status, tableVars, FreeSlots

(* Handling an action of another descriptor, or STOP_TASK, only moves the  *)
(* actions of fd one place forward.                                        *)
LEMMA OtherReceive ==
    ASSUME TypeOK, NEW fd \in Fds, Tracked(fd),
           NEW action \in Actions, Receive(action),
           action # Add(fd), action # Remove(fd), action # Update(fd),
           SlotsOf(fd)' = SlotsOf(fd), \A i \in SlotsOf(fd) : age'[i] = age[i],
           pc' # "sweep", session' = session, quiet' = quiet
    PROVE  Tracked(fd)'
<1>1. /\ Queued(Add(fd)) \subseteq 1..Len(queue) /\ Queued(Remove(fd)) \subseteq 1..Len(queue)
      /\ Queued(Update(fd)) \subseteq 1..Len(queue) /\ Len(queue) \in Nat
      /\ 1 \notin Queued(Add(fd)) /\ 1 \notin Queued(Remove(fd)) /\ 1 \notin Queued(Update(fd))
  BY ActionFacts, ReceiveQueued
<1>2. /\ \A k \in Queued(Add(fd))' : k \in Nat /\ k + 1 \in Queued(Add(fd))
      /\ \A k \in Queued(Add(fd)) : k > 1 => k - 1 \in Queued(Add(fd))'
  BY ActionFacts, ReceiveQueued
<1>3. /\ \A k \in Queued(Update(fd)) : k > 1 => k - 1 \in Queued(Update(fd))'
  BY ActionFacts, ReceiveQueued
<1>4. \A k \in Queued(Remove(fd)) : k > 1 => k - 1 \in Queued(Remove(fd))'
  BY ActionFacts, ReceiveQueued
<1>5. AddsSeparated(fd)'
  <2>. SUFFICES ASSUME NEW i \in Queued(Add(fd))', NEW j \in Queued(Add(fd))', i < j
                PROVE  \E k \in Queued(Remove(fd))' : i < k /\ k < j
    BY DEF AddsSeparated
  <2>1. PICK k \in Queued(Remove(fd)) : i + 1 < k /\ k < j + 1
    BY <1>2 DEF Tracked, AddsSeparated
  <2>. QED BY <1>1, <1>2, <1>4, <2>1
<1>6. SlotBeforeAdd(fd)'
  <2>. SUFFICES ASSUME SlotsOf(fd) # {}, NEW j \in Queued(Add(fd))'
                PROVE  \E k \in Queued(Remove(fd))' : k < j
    BY DEF SlotBeforeAdd
  <2>1. PICK k \in Queued(Remove(fd)) : k < j + 1
    BY <1>2 DEF Tracked, SlotBeforeAdd
  <2>. QED BY <1>1, <1>2, <1>4, <2>1
<1>7. GoneIsRemoved(fd)'
  <2>. SUFFICES ASSUME session[fd] = "none"
                PROVE  /\ \A j \in Queued(Add(fd))' : \E k \in Queued(Remove(fd))' : j < k
                       /\ SlotsOf(fd) # {} => Queued(Remove(fd))' # {}
    BY DEF GoneIsRemoved
  <2>1. ASSUME NEW j \in Queued(Add(fd))'
        PROVE  \E k \in Queued(Remove(fd))' : j < k
    <3>1. PICK k \in Queued(Remove(fd)) : j + 1 < k
      BY <1>2 DEF Tracked, GoneIsRemoved
    <3>. QED BY <1>1, <1>2, <1>4, <3>1
  <2>2. SlotsOf(fd) # {} => Queued(Remove(fd))' # {}
    BY <1>1, <1>4 DEF Tracked, GoneIsRemoved
  <2>. QED BY <2>1, <2>2
<1>8. AgeBounded(fd)'
  BY <1>1, <1>2, <1>3 DEF Tracked, AgeBounded
<1>9. OneSlot(fd)' /\ FreshNoted(fd)'
  BY DEF Tracked, OneSlot, FreshNoted
<1>. QED BY <1>5, <1>6, <1>7, <1>8, <1>9 DEF Tracked

(* Handling the Add of fd: it had no slot, and now has one at most.        *)
LEMMA AddTracked ==
    ASSUME TypeOK, NEW fd \in Fds, Tracked(fd), Receive(Add(fd)), register_client(fd),
           pc' # "sweep", session' = session, quiet' = quiet
    PROVE  Tracked(fd)'
<1>1. /\ Queued(Add(fd)) \subseteq 1..Len(queue) /\ Queued(Remove(fd)) \subseteq 1..Len(queue)
      /\ Len(queue) \in Nat
      /\ 1 \in Queued(Add(fd)) /\ 1 \notin Queued(Remove(fd))
  BY ActionFacts, ReceiveQueued
<1>2. \A k \in Queued(Add(fd))' : k \in Nat /\ k >= 1 /\ k + 1 \in Queued(Add(fd))
  BY ActionFacts, ReceiveQueued
<1>3. \A k \in Queued(Remove(fd)) : k > 1 => k - 1 \in Queued(Remove(fd))'
  BY ActionFacts, ReceiveQueued
<1>4. SlotsOf(fd) = {}
  BY <1>1 DEF Tracked, SlotBeforeAdd
<1>5. \/ SlotsOf(fd)' = {}
      \/ \E i \in Slots : SlotsOf(fd)' = {i} /\ age'[i] = 0
  BY <1>4, TableEffect DEF SlotsOf, TypeOK, KATypeOK
<1>6. \A j \in Queued(Add(fd))' : \E k \in Queued(Remove(fd))' : k < j
  <2>. TAKE j \in Queued(Add(fd))'
  <2>1. PICK k \in Queued(Remove(fd)) : 1 < k /\ k < j + 1
    BY <1>1, <1>2 DEF Tracked, AddsSeparated
  <2>. QED BY <1>1, <1>2, <1>3, <2>1
<1>7. AddsSeparated(fd)'
  <2>. SUFFICES ASSUME NEW i \in Queued(Add(fd))', NEW j \in Queued(Add(fd))', i < j
                PROVE  \E k \in Queued(Remove(fd))' : i < k /\ k < j
    BY DEF AddsSeparated
  <2>1. PICK k \in Queued(Remove(fd)) : i + 1 < k /\ k < j + 1
    BY <1>2 DEF Tracked, AddsSeparated
  <2>. QED BY <1>1, <1>2, <1>3, <2>1
<1>8. GoneIsRemoved(fd)'
  <2>. SUFFICES ASSUME session[fd] = "none"
                PROVE  /\ \A j \in Queued(Add(fd))' : \E k \in Queued(Remove(fd))' : j < k
                       /\ Queued(Remove(fd))' # {}
    BY DEF GoneIsRemoved
  <2>1. ASSUME NEW j \in Queued(Add(fd))'
        PROVE  \E k \in Queued(Remove(fd))' : j < k
    <3>1. PICK k \in Queued(Remove(fd)) : j + 1 < k
      BY <1>2 DEF Tracked, GoneIsRemoved
    <3>. QED BY <1>1, <1>2, <1>3, <3>1
  <2>2. Queued(Remove(fd))' # {}
    <3>1. PICK k \in Queued(Remove(fd)) : 1 < k
      BY <1>1 DEF Tracked, GoneIsRemoved
    <3>. QED BY <1>1, <1>3, <3>1
  <2>. QED BY <2>1, <2>2
<1>9. OneSlot(fd)' /\ AgeBounded(fd)' /\ FreshNoted(fd)'
  BY <1>5 DEF OneSlot, AgeBounded, FreshNoted, TypeOK, KATypeOK
<1>. QED BY <1>6, <1>7, <1>8, <1>9 DEF Tracked, SlotBeforeAdd

(* Handling the Remove of fd: its only slot is freed, and nothing is left  *)
(* to be removed.                                                          *)
LEMMA RemoveHandled ==
    ASSUME TypeOK, NEW fd \in Fds, Tracked(fd), Receive(Remove(fd)), unregister_client(fd),
           pc' # "sweep", session' = session
    PROVE  Tracked(fd)'
<1>1. /\ Queued(Add(fd)) \subseteq 1..Len(queue) /\ Queued(Remove(fd)) \subseteq 1..Len(queue)
      /\ Len(queue) \in Nat
  BY ActionFacts, ReceiveQueued
<1>2. \A k \in Queued(Add(fd))' : k \in Nat /\ k >= 1 /\ k + 1 \in Queued(Add(fd))
  BY ActionFacts, ReceiveQueued
<1>3. \A k \in Queued(Remove(fd)) : k > 1 => k - 1 \in Queued(Remove(fd))'
  BY ActionFacts, ReceiveQueued
<1>4. SlotsOf(fd)' = {}
  <2>1. fd # NoClient /\ \A i, j \in SlotsOf(fd) : i = j
    BY DEF Tracked, OneSlot
  <2>2. CASE SlotsOf(fd) = {} /\ UNCHANGED <<clients, age>>
    BY <2>2 DEF SlotsOf
  <2>3. ASSUME NEW i \in SlotsOf(fd), clients' = [clients EXCEPT ![i] = NoClient]
        PROVE  SlotsOf(fd)' = {}
    <3>1. clients \in [Slots -> Fds \cup {NoClient}]
      BY DEF TypeOK, KATypeOK
    <3>. QED BY <2>1, <2>3, <3>1 DEF SlotsOf
  <2>. QED BY <2>2, <2>3, TableEffect
<1>5. AddsSeparated(fd)'
  <2>. SUFFICES ASSUME NEW i \in Queued(Add(fd))', NEW j \in Queued(Add(fd))', i < j
                PROVE  \E k \in Queued(Remove(fd))' : i < k /\ k < j
    BY DEF AddsSeparated
  <2>1. PICK k \in Queued(Remove(fd)) : i + 1 < k /\ k < j + 1
    BY <1>2 DEF Tracked, AddsSeparated
  <2>. QED BY <1>1, <1>2, <1>3, <2>1
<1>6. GoneIsRemoved(fd)'
  <2>. SUFFICES ASSUME session[fd] = "none", NEW j \in Queued(Add(fd))'
                PROVE  \E k \in Queued(Remove(fd))' : j < k
    BY <1>4 DEF GoneIsRemoved
  <2>1. PICK k \in Queued(Remove(fd)) : j + 1 < k
    BY <1>2 DEF Tracked, GoneIsRemoved
  <2>. QED BY <1>1, <1>2, <1>3, <2>1
<1>. QED BY <1>4, <1>5, <1>6
        DEF Tracked, SlotBeforeAdd, OneSlot, AgeBounded, FreshNoted

(* Handling an Update of fd resets the age of its only slot.               *)
LEMMA UpdateHandled ==
    ASSUME TypeOK, NEW fd \in Fds, Tracked(fd), Receive(Update(fd)),
           refresh_client_status(fd), pc' # "sweep", session' = session, quiet' = quiet
    PROVE  Tracked(fd)'
<1>1. /\ Queued(Add(fd)) \subseteq 1..Len(queue) /\ Queued(Remove(fd)) \subseteq 1..Len(queue)
      /\ Len(queue) \in Nat
      /\ 1 \notin Queued(Remove(fd)) /\ 1 \notin Queued(Add(fd))
  BY ActionFacts, ReceiveQueued
<1>2. \A k \in Queued(Add(fd))' : k \in Nat /\ k >= 1 /\ k + 1 \in Queued(Add(fd))
  BY ActionFacts, ReceiveQueued
<1>3. \A k \in Queued(Remove(fd)) : k > 1 => k - 1 \in Queued(Remove(fd))'
  BY ActionFacts, ReceiveQueued
<1>4. /\ SlotsOf(fd)' = SlotsOf(fd)
      /\ \A i \in SlotsOf(fd) : age'[i] = 0
  <2>1. SlotsOf(fd)' = SlotsOf(fd)
    BY TableEffect DEF SlotsOf
  <2>2. ASSUME NEW i \in SlotsOf(fd) PROVE age'[i] = 0
    <3>1. PICK j \in SlotsOf(fd) : age' = [age EXCEPT ![j] = 0]
      BY TableEffect
    <3>2. i = j /\ i \in Slots /\ age \in [Slots -> 0..AgeCap]
      BY DEF Tracked, OneSlot, SlotsOf, TypeOK, KATypeOK
    <3>. QED BY <3>1, <3>2
  <2>. QED BY <2>1, <2>2
<1>5. AddsSeparated(fd)'
  <2>. SUFFICES ASSUME NEW i \in Queued(Add(fd))', NEW j \in Queued(Add(fd))', i < j
                PROVE  \E k \in Queued(Remove(fd))' : i < k /\ k < j
    BY DEF AddsSeparated
  <2>1. PICK k \in Queued(Remove(fd)) : i + 1 < k /\ k < j + 1
    BY <1>2 DEF Tracked, AddsSeparated
  <2>. QED BY <1>1, <1>2, <1>3, <2>1
<1>6. SlotBeforeAdd(fd)'
  <2>. SUFFICES ASSUME SlotsOf(fd) # {}, NEW j \in Queued(Add(fd))'
                PROVE  \E k \in Queued(Remove(fd))' : k < j
    BY <1>4 DEF SlotBeforeAdd
  <2>1. PICK k \in Queued(Remove(fd)) : k < j + 1
    BY <1>2 DEF Tracked, SlotBeforeAdd
  <2>. QED BY <1>1, <1>2, <1>3, <2>1
<1>7. GoneIsRemoved(fd)'
  <2>. SUFFICES ASSUME session[fd] = "none"
                PROVE  /\ \A j \in Queued(Add(fd))' : \E k \in Queued(Remove(fd))' : j < k
                       /\ SlotsOf(fd) # {} => Queued(Remove(fd))' # {}
    BY <1>4 DEF GoneIsRemoved
  <2>1. ASSUME NEW j \in Queued(Add(fd))'
        PROVE  \E k \in Queued(Remove(fd))' : j < k
    <3>1. PICK k \in Queued(Remove(fd)) : j + 1 < k
      BY <1>2 DEF Tracked, GoneIsRemoved
    <3>. QED BY <1>1, <1>2, <1>3, <3>1
  <2>2. SlotsOf(fd) # {} => Queued(Remove(fd))' # {}
    BY <1>1, <1>3 DEF Tracked, GoneIsRemoved
  <2>. QED BY <2>1, <2>2
<1>8. OneSlot(fd)' /\ AgeBounded(fd)' /\ FreshNoted(fd)'
  BY <1>4 DEF Tracked, OneSlot, AgeBounded, FreshNoted, TypeOK, KATypeOK
<1>. QED BY <1>5, <1>6, <1>7, <1>8 DEF Tracked

(* A step that leaves the queue alone and at most frees slots keeps what   *)
(* is tracked, if ages grow no faster than the silence.                    *)
LEMMA QueueUnchanged ==
    ASSUME NEW fd \in Fds, Tracked(fd), queue' = queue,
           SlotsOf(fd)' \subseteq SlotsOf(fd),
           \A i \in SlotsOf(fd)' : age[i] <= quiet[fd] => age'[i] <= quiet'[fd],
           session'[fd] = "none" <=> session[fd] = "none",
           pc' = "sweep" => \/ pc = "sweep" /\ fresh' = fresh
                            \/ queue = <<>>
    PROVE  Tracked(fd)'
<1>1. /\ Queued(Add(fd))' = Queued(Add(fd))
      /\ Queued(Remove(fd))' = Queued(Remove(fd))
      /\ Queued(Update(fd))' = Queued(Update(fd))
  BY DEF Queued
<1>2. queue = <<>> => Queued(Add(fd)) = {} /\ Queued(Update(fd)) = {}
  BY DEF Queued
<1>3. AddsSeparated(fd)' /\ SlotBeforeAdd(fd)' /\ GoneIsRemoved(fd)' /\ OneSlot(fd)'
  BY <1>1 DEF Tracked, AddsSeparated, SlotBeforeAdd, GoneIsRemoved, OneSlot
<1>4. AgeBounded(fd)' /\ FreshNoted(fd)'
  BY <1>1, <1>2 DEF Tracked, AgeBounded, FreshNoted
<1>. QED BY <1>3, <1>4 DEF Tracked

(* Every step of Next keeps what is tracked of a descriptor that has lost  *)
(* no call after the step.                                                 *)
LEMMA TrackedStep ==
    ASSUME TypeOK, Inv, [Next]_vars, NEW fd \in Fds, fd \notin lost'
    PROVE  Tracked(fd)'
<1>0. Tracked(fd)
  <2>1. lost \subseteq lost'
    BY DEF Next, vars, sessionVars, Connect, Frame, CloseFrame, OnClientClose, NoteLost,
           StopServer, Task, Time, TypeOK
  <2>. QED BY <2>1 DEF Inv
<1>1. ASSUME NEW g \in Fds, Connect(g) PROVE Tracked(fd)'
  <2>1. CASE g = fd
    BY <1>0, <1>1, <2>1, ConnectTracked
  <2>2. CASE g # fd
    BY <1>0, <1>1, <2>2, OtherCall
       DEF Connect, Called, Heard, wss_keep_alive_add_client, tableVars, TypeOK
  <2>. QED BY <2>1, <2>2
<1>2. ASSUME NEW g \in Fds, Frame(g) PROVE Tracked(fd)'
  <2>1. CASE g = fd
    BY <1>0, <1>2, <2>1, FrameTracked
  <2>2. CASE g # fd
    BY <1>0, <1>2, <2>2, OtherCall
       DEF Frame, Called, Heard, wss_keep_alive_client_is_active, tableVars, TypeOK
  <2>. QED BY <2>1, <2>2
<1>3. ASSUME NEW g \in Fds, CloseFrame(g) PROVE Tracked(fd)'
  <2>1. CASE g = fd
    BY <1>0, <1>3, <2>1, RemoveTracked
       DEF CloseFrame, Called, wss_keep_alive_remove_client, tableVars, TypeOK
  <2>2. CASE g # fd
    BY <1>0, <1>3, <2>2, OtherCall
       DEF CloseFrame, Called, wss_keep_alive_remove_client, tableVars, TypeOK
  <2>. QED BY <2>1, <2>2
<1>4. ASSUME NEW g \in Fds, OnClientClose(g) PROVE Tracked(fd)'
  <2>1. CASE g = fd
    BY <1>0, <1>4, <2>1, RemoveTracked
       DEF OnClientClose, Called, NoteLost, wss_keep_alive_remove_client, tableVars, TypeOK
  <2>2. CASE g # fd
    BY <1>0, <1>4, <2>2, OtherCall
       DEF OnClientClose, Called, wss_keep_alive_remove_client, tableVars, TypeOK
  <2>. QED BY <2>1, <2>2
<1>5. CASE StopServer
  BY <1>5 DEF StopServer
<1>6. CASE Task
  <2>0. UNCHANGED <<quiet, lost>> /\ (pc' = "sweep" => fresh' = fresh)
    BY <1>6 DEF Task
  <2>1. CASE ComputeTimeout /\ UNCHANGED session
    BY <1>0, <2>0, <2>1, QueueUnchanged DEF ComputeTimeout, tableVars, SlotsOf
  <2>2. CASE HandleAdd /\ UNCHANGED session
    <3>1. PICK g \in Fds : Receive(Add(g)) /\ register_client(g) /\ pc' = "loop"
      BY <2>2 DEF HandleAdd
    <3>2. CASE g = fd
      BY <1>0, <2>0, <2>2, <3>1, <3>2, AddTracked
    <3>3. CASE g # fd
      <4>1. /\ Add(g) \in Actions
            /\ Add(g) # Add(fd) /\ Add(g) # Remove(fd) /\ Add(g) # Update(fd)
        BY <3>3, ActionFacts
      <4>2. /\ SlotsOf(fd)' = SlotsOf(fd)
            /\ \A i \in SlotsOf(fd) : age'[i] = age[i]
        <5>1. fd # NoClient
          OBVIOUS
        <5>. QED BY <3>1, <3>3, <5>1, TableEffect DEF SlotsOf, TypeOK, KATypeOK
      <4>. QED BY <1>0, <2>0, <2>2, <3>1, <4>1, <4>2, OtherReceive
    <3>. QED BY <3>2, <3>3
  <2>3. CASE HandleRemove /\ UNCHANGED session
    <3>1. PICK g \in Fds : Receive(Remove(g)) /\ unregister_client(g) /\ pc' = "loop"
      BY <2>3 DEF HandleRemove
    <3>2. CASE g = fd
      BY <1>0, <2>3, <3>1, <3>2, RemoveHandled
    <3>3. CASE g # fd
      <4>1. /\ Remove(g) \in Actions
            /\ Remove(g) # Add(fd) /\ Remove(g) # Remove(fd) /\ Remove(g) # Update(fd)
        BY <3>3, ActionFacts
      <4>2. /\ SlotsOf(fd)' = SlotsOf(fd)
            /\ \A i \in SlotsOf(fd) : age'[i] = age[i]
        <5>1. fd # NoClient
          OBVIOUS
        <5>. QED BY <3>1, <3>3, <5>1, TableEffect DEF SlotsOf, TypeOK, KATypeOK
      <4>. QED BY <1>0, <2>0, <2>3, <3>1, <4>1, <4>2, OtherReceive
    <3>. QED BY <3>2, <3>3
  <2>4. CASE HandleUpdate /\ UNCHANGED session
    <3>1. PICK g \in Fds : Receive(Update(g)) /\ refresh_client_status(g) /\ pc' = "loop"
      BY <2>4 DEF HandleUpdate
    <3>2. CASE g = fd
      BY <1>0, <2>0, <2>4, <3>1, <3>2, UpdateHandled
    <3>3. CASE g # fd
      <4>1. /\ Update(g) \in Actions
            /\ Update(g) # Add(fd) /\ Update(g) # Remove(fd) /\ Update(g) # Update(fd)
        BY <3>3, ActionFacts
      <4>2. /\ SlotsOf(fd)' = SlotsOf(fd)
            /\ \A i \in SlotsOf(fd) : age'[i] = age[i]
        BY <3>1, <3>3, TableEffect DEF SlotsOf, TypeOK, KATypeOK
      <4>. QED BY <1>0, <2>0, <2>4, <3>1, <4>1, <4>2, OtherReceive
    <3>. QED BY <3>2, <3>3
  <2>5. CASE HandleStop /\ UNCHANGED session
    <3>1. /\ StopTask \in Actions
          /\ StopTask # Add(fd) /\ StopTask # Remove(fd) /\ StopTask # Update(fd)
      BY ActionFacts
    <3>2. SlotsOf(fd)' = SlotsOf(fd) /\ age' = age /\ pc' = "done"
      BY <2>5 DEF HandleStop, tableVars, SlotsOf
    <3>. QED BY <1>0, <2>0, <2>5, <3>1, <3>2, OtherReceive DEF HandleStop
  <2>6. CASE ReceiveTimeout /\ UNCHANGED session
    BY <1>0, <2>0, <2>6, QueueUnchanged DEF ReceiveTimeout, tableVars, SlotsOf
  <2>7. CASE SweepDone /\ UNCHANGED session
    BY <1>0, <2>0, <2>7, QueueUnchanged DEF SweepDone, tableVars, SlotsOf
  <2>8. CASE Expire
    <3>1. PICK g \in Fds : ExpireClient(g) /\ client_not_alive_cb(g)
      BY <2>8 DEF Expire
    <3>2. PICK i \in overdue : /\ clients' = [clients EXCEPT ![i] = NoClient]
                               /\ age' = [age EXCEPT ![i] = 0]
                               /\ pc = "sweep" /\ UNCHANGED <<queue, pc>>
      BY <3>1 DEF ExpireClient, NextOfSweep
    <3>3. session'[fd] = "none" <=> session[fd] = "none"
      BY <3>1 DEF client_not_alive_cb, TypeOK
    <3>4. /\ SlotsOf(fd)' \subseteq SlotsOf(fd)
          /\ \A j \in SlotsOf(fd)' : age'[j] = age[j]
      <4>1. fd # NoClient
        OBVIOUS
      <4>. QED BY <3>2, <4>1 DEF SlotsOf, TypeOK, KATypeOK
    <3>. QED BY <1>0, <2>0, <3>2, <3>3, <3>4, QueueUnchanged
  <2>9. CASE Ping
    BY <1>0, <2>0, <2>9, QueueUnchanged DEF Ping, PingClient, NextOfSweep, tableVars, SlotsOf
  <2>. QED BY <1>6, <2>1, <2>2, <2>3, <2>4, <2>5, <2>6, <2>7, <2>8, <2>9
          DEF Task, TaskStep
<1>7. CASE Time
  <2>1. ~stopping
    BY <1>7 DEF Time, Inv
  <2>2. SlotsOf(fd)' = SlotsOf(fd) /\ queue' = queue /\ session' = session /\ pc' = pc
    BY <1>7 DEF Time, Tick, SlotsOf
  <2>3. ASSUME NEW i \in SlotsOf(fd), age[i] <= quiet[fd] PROVE age'[i] <= quiet'[fd]
    <3>1. age[i] \in 0..AgeCap /\ quiet[fd] \in 0..AgeCap /\ clients[i] # NoClient
      BY DEF SlotsOf, TypeOK, KATypeOK
    <3>2. age'[i] = Older(age[i]) /\ quiet'[fd] = Older(quiet[fd])
      BY <1>7, <2>1, <3>1 DEF Time, Tick, SlotsOf
    <3>. QED BY <2>3, <3>1, <3>2 DEF Older
  <2>. QED BY <1>0, <1>7, <2>2, <2>3, QueueUnchanged DEF Time
<1>8. CASE UNCHANGED vars
  BY <1>0, <1>8, QueueUnchanged DEF vars, kaVars, sessionVars, SlotsOf
<1>. QED BY <1>1, <1>2, <1>3, <1>4, <1>5, <1>6, <1>7, <1>8 DEF Next

----------------------------------------------------------------------------
(* The invariant and what follows from it.                                 *)

(* The slots still to be closed stay ahead of the sweep and past the       *)
(* threshold: only the sweep changes the table while it runs.              *)
LEMMA SweepStep == TypeOK /\ SweepConsistent /\ [Next]_vars => SweepConsistent'
<1>. SUFFICES ASSUME TypeOK, SweepConsistent, [Next]_vars PROVE SweepConsistent'
  OBVIOUS
<1>. USE DEF SweepConsistent, ActiveSlots
<1>1. CASE UNCHANGED <<clients, age, pc, at, overdue>>
  BY <1>1
<1>2. CASE Time
  <2>1. /\ UNCHANGED <<clients, pc, at, overdue>>
        /\ \A i \in Slots : clients[i] # NoClient => age'[i] = Older(age[i])
    BY <1>2 DEF Time, Tick, sweepVars
  <2>2. \A i \in Slots : age[i] > NotAliveAfter => Older(age[i]) > NotAliveAfter
    BY DEF Older, TypeOK, KATypeOK
  <2>. QED BY <2>1, <2>2
<1>3. CASE Task
  <2>1. CASE ComputeTimeout
    BY <2>1 DEF ComputeTimeout, tableVars, sweepVars
  <2>2. CASE HandleAdd \/ HandleRemove \/ HandleUpdate \/ HandleStop
    BY <2>2 DEF HandleAdd, HandleRemove, HandleUpdate, HandleStop, Receive, sweepVars
  <2>3. CASE ReceiveTimeout
    BY <2>3 DEF ReceiveTimeout, tableVars, Slots
  <2>4. CASE SweepDone
    <3>1. \A i \in overdue : i \in Nat /\ at \in Nat /\ i >= at /\ i < at
      BY <2>4 DEF SweepDone, Slots, TypeOK, KATypeOK
    <3>2. overdue = {}
      BY <3>1
    <3>. QED BY <2>4, <3>2 DEF SweepDone
  <2>5. CASE Expire
    <3>1. PICK fd \in Fds : ExpireClient(fd)
      BY <2>5 DEF Expire
    <3>2. PICK i \in overdue : /\ NextOfSweep(i)
                               /\ clients' = [clients EXCEPT ![i] = NoClient]
                               /\ age' = [age EXCEPT ![i] = 0]
                               /\ overdue' = overdue \ {i}
                               /\ at' = i + 1 /\ pc' = pc
      BY <3>1 DEF ExpireClient
    <3>3. \A j \in overdue' : j \in Slots /\ i \in Slots /\ i <= j /\ i # j
      BY <3>2 DEF NextOfSweep, IsFirst
    <3>4. \A j \in overdue' : j >= i + 1
      BY <3>3 DEF Slots
    <3>. QED BY <3>2, <3>3, <3>4 DEF TypeOK, KATypeOK
  <2>6. CASE Ping
    <3>1. PICK fd \in Fds : PingClient(fd)
      BY <2>6 DEF Ping
    <3>2. PICK i \in ActiveSlots \ overdue : /\ NextOfSweep(i)
                                             /\ at' = i + 1
                                             /\ UNCHANGED <<clients, age, pc, overdue>>
      BY <3>1 DEF PingClient, tableVars
    <3>3. \A j \in overdue : j \in Slots /\ i \in Slots /\ i <= j /\ i # j
      BY <3>2 DEF NextOfSweep, IsFirst
    <3>4. \A j \in overdue : j >= i + 1
      BY <3>3 DEF Slots
    <3>. QED BY <3>2, <3>4
  <2>. QED BY <1>3, <2>1, <2>2, <2>3, <2>4, <2>5, <2>6 DEF Task, TaskStep
<1>4. CASE StopServer
  BY <1>1, <1>4 DEF StopServer, tableVars, sweepVars
<1>5. ASSUME NEW fd \in Fds,
             Connect(fd) \/ Frame(fd) \/ CloseFrame(fd) \/ OnClientClose(fd)
      PROVE  SweepConsistent'
  BY <1>1, <1>5 DEF Connect, Frame, CloseFrame, OnClientClose, Called, tableVars, sweepVars
<1>6. CASE UNCHANGED vars
  BY <1>1, <1>6 DEF vars, kaVars
<1>. QED BY <1>2, <1>3, <1>4, <1>5, <1>6 DEF Next

(* Inv is inductive.                                                       *)
LEMMA InvStep == TypeOK /\ Inv /\ [Next]_vars => Inv'
<1>. SUFFICES ASSUME TypeOK, Inv, [Next]_vars PROVE Inv'
  OBVIOUS
<1>1. SweepConsistent'
  BY SweepStep DEF Inv
<1>2. (stopping => lost = Fds)'
  BY DEF Inv, Next, vars, sessionVars, Connect, Frame, CloseFrame, OnClientClose, Called,
         StopServer, Task, Time
<1>3. \A fd \in Fds \ lost' : Tracked(fd)'
  BY TrackedStep
<1>. QED BY <1>1, <1>2, <1>3 DEF Inv

(* Inv holds in every reachable state.                                     *)
THEOREM InvCorrect == Spec => []Inv
<1>1. Init => Inv
  <2>. SUFFICES ASSUME Init PROVE Inv
    OBVIOUS
  <2>1. ASSUME NEW fd \in Fds PROVE Tracked(fd)
    <3>1. SlotsOf(fd) = {}
      BY DEF Init, KAInit, SlotsOf
    <3>2. \A action : Queued(action) = {}
      BY DEF Init, KAInit, Queued
    <3>. QED BY <3>1, <3>2 DEF Tracked, AddsSeparated, SlotBeforeAdd, GoneIsRemoved,
                                OneSlot, AgeBounded, FreshNoted
  <2>. QED BY <2>1 DEF Init, KAInit, Inv, SweepConsistent
<1>. QED BY <1>1, InvStep, TypeCorrect, PTL DEF Spec

(* A descriptor none of whose calls was refused is in one slot at most,    *)
(* however adds, removals, expiries and reuse of the descriptor interleave.*)
THEOREM UniqueSlotsCorrect == Spec => []UniqueSlots
<1>1. TypeOK /\ Inv => UniqueSlots
  BY DEF Inv, Tracked, OneSlot, UniqueSlots, SlotsOf, ActiveSlots, TypeOK, KATypeOK
<1>. QED BY <1>1, InvCorrect, TypeCorrect, PTL

(* The sweep closes no client heard from within NotAliveAfter, but for one *)
(* heard after the sweep read its time or left over by a refused call.     *)
THEOREM NoFalseCloseCorrect == Spec => []NoFalseClose
<1>1. TypeOK /\ Inv => NoFalseClose
  <2>. SUFFICES ASSUME TypeOK, Inv, NEW i \in overdue, clients[i] \notin lost \cup fresh
                PROVE  quiet[clients[i]] > NotAliveAfter
    BY DEF NoFalseClose
  <2>1. /\ pc = "sweep" /\ i \in Slots /\ clients[i] \in Fds /\ age[i] > NotAliveAfter
        /\ age[i] \in 0..AgeCap /\ quiet[clients[i]] \in 0..AgeCap
    BY DEF Inv, SweepConsistent, ActiveSlots, TypeOK, KATypeOK
  <2>2. Tracked(clients[i])
    BY <2>1 DEF Inv
  <2>3. age[i] <= quiet[clients[i]]
    BY <2>1, <2>2 DEF Tracked, AgeBounded, FreshNoted, SlotsOf
  <2>. QED BY <2>1, <2>3
<1>. QED BY <1>1, InvCorrect, TypeCorrect, PTL
----------------------------------------------------------------------------
(* Time: how long the task sleeps, and how long a silent table lasts.      *)

(* A call of any kind leaves the queue not empty and the task as it was.   *)
LEMMA CallFacts ==
    ASSUME TypeOK,
           StopServer \/ \E fd \in Fds : Connect(fd) \/ Frame(fd) \/ CloseFrame(fd)
                                           \/ OnClientClose(fd)
    PROVE  /\ queue' # << >> /\ silence' = 0
           /\ UNCHANGED <<clients, age, pc, wait, at, overdue, late>>
<1>1. \E action \in Actions : Send(action)
  <2>1. CASE StopServer
    <3>1. Send(StopTask) /\ StopTask \in Actions
      BY <2>1 DEF StopServer, wss_keep_alive_stop, Actions
    <3>. QED BY <3>1
  <2>2. CASE \E fd \in Fds : Connect(fd) \/ Frame(fd) \/ CloseFrame(fd) \/ OnClientClose(fd)
    <3>1. PICK fd \in Fds : Connect(fd) \/ Frame(fd) \/ CloseFrame(fd) \/ OnClientClose(fd)
      BY <2>2
    <3>2. Send(Add(fd)) \/ Send(Update(fd)) \/ Send(Remove(fd))
      BY <3>1 DEF Connect, Frame, CloseFrame, OnClientClose, wss_keep_alive_add_client,
         wss_keep_alive_client_is_active, wss_keep_alive_remove_client
    <3>3. Add(fd) \in Actions /\ Update(fd) \in Actions /\ Remove(fd) \in Actions
      BY ActionFacts
    <3>. QED BY <3>2, <3>3
  <2>. QED BY <2>1, <2>2
<1>2. queue \in Seq(Actions) /\ Len(queue) <= QueueSize
  BY DEF TypeOK, KATypeOK
<1>3. Len(queue') >= 1
  BY <1>1, <1>2, SendEffect, QueueSizeType DEF QueueFull
<1>. QED
  BY <1>3 DEF StopServer, Connect, Frame, CloseFrame, OnClientClose, Called, tableVars, sweepVars

(* An action that is handled makes a slot fresh, or free, or leaves it.    *)
LEMMA HandleFacts ==
    ASSUME TypeOK, HandleAdd \/ HandleRemove \/ HandleUpdate
    PROVE  /\ pc = "receive" /\ queue # << >> /\ pc' = "loop"
           /\ UNCHANGED <<overdue, late>>
           /\ \A i \in ActiveSlots' :
                 (i \in ActiveSlots /\ age'[i] = age[i]) \/ age'[i] = 0
<1>0. clients \in [Slots -> Fds \cup {NoClient}] /\ age \in [Slots -> 0..AgeCap]
  BY DEF TypeOK, KATypeOK
<1>1. PICK fd \in Fds : register_client(fd) \/ unregister_client(fd) \/ refresh_client_status(fd)
  BY DEF HandleAdd, HandleRemove, HandleUpdate
<1>2. \A i \in ActiveSlots' : (i \in ActiveSlots /\ age'[i] = age[i]) \/ age'[i] = 0
  <2>1. CASE register_client(fd)
    BY <1>0, <2>1 DEF register_client, tableVars, FreeSlots, ActiveSlots
  <2>2. CASE unregister_client(fd)
    BY <1>0, <2>2 DEF unregister_client, tableVars, SlotsOf, ActiveSlots
  <2>3. CASE refresh_client_status(fd)
    BY <1>0, <2>3 DEF refresh_client_status, SlotsOf, ActiveSlots
  <2>. QED BY <1>1, <2>1, <2>2, <2>3
<1>. QED BY <1>2 DEF HandleAdd, HandleRemove, HandleUpdate, Receive, sweepVars

(* One iteration of the sweep: a slot is freed, or nothing but the         *)
(* position changes.                                                       *)
LEMMA IterationFacts ==
    ASSUME TypeOK, Expire \/ Ping
    PROVE  /\ pc = "sweep" /\ pc' = "sweep" /\ UNCHANGED <<queue, wait, late>>
           /\ \/ clients' = clients /\ age' = age /\ overdue' = overdue
              \/ \E i \in overdue :
                    /\ ActiveSlots' = ActiveSlots \ {i} /\ overdue' = overdue \ {i}
                    /\ \A j \in ActiveSlots' : age'[j] = age[j]
<1>0. clients \in [Slots -> Fds \cup {NoClient}] /\ age \in [Slots -> 0..AgeCap]
      /\ overdue \subseteq Slots
  BY DEF TypeOK, KATypeOK
<1>1. CASE Ping
  BY <1>1 DEF Ping, PingClient, NextOfSweep, tableVars
<1>2. CASE Expire
  <2>1. PICK fd \in Fds : ExpireClient(fd)
    BY <1>2 DEF Expire
  <2>2. PICK i \in overdue :
           /\ clients' = [clients EXCEPT ![i] = NoClient] /\ age' = [age EXCEPT ![i] = 0]
           /\ overdue' = overdue \ {i} /\ pc = "sweep"
           /\ UNCHANGED <<queue, pc, wait, late>>
    BY <2>1 DEF ExpireClient, NextOfSweep
  <2>3. ActiveSlots' = ActiveSlots \ {i} /\ \A j \in ActiveSlots' : age'[j] = age[j]
    BY <1>0, <2>2 DEF ActiveSlots
  <2>. QED BY <2>2, <2>3
<1>. QED BY <1>1, <1>2

(* The wait is no longer than until the next period ends, or MinCheck.     *)
LEMMA WaitFacts ==
    ASSUME TypeOK, NEW delay, get_next_keep_alive_check(delay)
    PROVE  \A i \in ActiveSlots :
              age[i] <= Period => delay <= MinCheck \/ age[i] + delay <= Period
<1>. SUFFICES ASSUME NEW i \in ActiveSlots, age[i] <= Period
              PROVE  delay <= MinCheck \/ age[i] + delay <= Period
  OBVIOUS
<1>1. age[i] \in 0..AgeCap
  BY DEF TypeOK, KATypeOK, ActiveSlots
<1>2. PICK d \in CheckDelays : /\ \A e \in CheckDelays : d <= e
                               /\ delay = IF d < MinCheck THEN MinCheck ELSE d
  BY DEF get_next_keep_alive_check
<1>3. d \in Nat
  <2>1. ASSUME NEW j \in Slots PROVE (Period - age[j]) % Modulus \in Nat
    BY DEF TypeOK, KATypeOK
  <2>. QED BY <2>1 DEF CheckDelays, ActiveSlots
<1>4. (Period - age[i]) % Modulus = Period - age[i]
  <2>1. Period - age[i] \in 0..(Modulus - 1)
    BY <1>1
  <2>. QED BY <2>1
<1>5. d <= Period - age[i]
  BY <1>2, <1>4 DEF CheckDelays
<1>. QED BY <1>1, <1>2, <1>3, <1>5

(* The task does not sleep past the end of a period.                       *)
LEMMA CheckedStep == TypeOK /\ CheckedInTime /\ [Next]_vars => CheckedInTime'
<1>. SUFFICES ASSUME TypeOK, CheckedInTime, [Next]_vars, pc' = "receive", queue' = << >>,
                     NEW i \in ActiveSlots', age'[i] <= Period
              PROVE  wait' <= MinCheck \/ age'[i] + wait' <= Period
  BY DEF CheckedInTime
<1>0. /\ wait \in 0..DefaultTimeout
      /\ \A j \in ActiveSlots : age[j] \in 0..AgeCap
  BY DEF TypeOK, KATypeOK, ActiveSlots
<1>1. CASE StopServer \/ \E fd \in Fds : Connect(fd) \/ Frame(fd) \/ CloseFrame(fd)
                                           \/ OnClientClose(fd)
  BY <1>1, CallFacts
<1>2. CASE ComputeTimeout
  BY <1>2, WaitFacts DEF ComputeTimeout, tableVars, ActiveSlots
<1>3. CASE HandleAdd \/ HandleRemove \/ HandleUpdate
  BY <1>3, HandleFacts
<1>4. CASE HandleStop \/ ReceiveTimeout \/ SweepDone
  BY <1>4 DEF HandleStop, ReceiveTimeout, SweepDone
<1>5. CASE Expire \/ Ping
  BY <1>5, IterationFacts
<1>6. CASE Time
  <2>1. /\ clients' = clients /\ pc = "receive" /\ queue = << >> /\ i \in ActiveSlots
        /\ i \in Slots
        /\ age'[i] = Older(age[i])
        /\ \/ wait > 0 /\ wait' = wait - 1
           \/ ~(wait > 0) /\ wait' = wait
    BY <1>6 DEF Time, Tick, Blocked, sweepVars, ActiveSlots
  <2>2. age'[i] = age[i] + 1
    BY <1>0, <2>1 DEF Older
  <2>3. wait <= MinCheck \/ age[i] + wait <= Period
    BY <1>0, <2>1, <2>2 DEF CheckedInTime
  <2>. QED BY <1>0, <2>1, <2>2, <2>3
<1>7. CASE UNCHANGED vars
  BY <1>7 DEF vars, kaVars, CheckedInTime, ActiveSlots
<1>. QED
  BY <1>1, <1>2, <1>3, <1>4, <1>5, <1>6, <1>7 DEF Next, Task, TaskStep

(* For any period, minimum and default: a client within its period is      *)
(* checked when the period ends, or after the minimum wait.                *)
THEOREM CheckedInTimeCorrect == Spec => []CheckedInTime
<1>1. Init => CheckedInTime
  BY DEF Init, KAInit, CheckedInTime
<1>. QED BY <1>1, CheckedStep, TypeCorrect, PTL DEF Spec

LEMMA SilenceStep ==
    TypeOK /\ SweepConsistent /\ SilenceInv /\ [Next]_vars => SilenceInv'
<1>. SUFFICES ASSUME TypeOK, SweepConsistent, SilenceInv, [Next]_vars PROVE SilenceInv'
  OBVIOUS
<1>0. /\ wait \in 0..DefaultTimeout /\ late \in 0..MaxLate /\ silence \in 0..MaxSilence
      /\ \A i \in ActiveSlots : age[i] \in 0..AgeCap
      /\ wait' \in 0..DefaultTimeout /\ late' \in 0..MaxLate /\ silence' \in 0..MaxSilence
      /\ \A i \in ActiveSlots' : age'[i] \in 0..AgeCap
  BY TypeStep DEF TypeOK, KATypeOK, ActiveSlots
<1>1. CASE StopServer \/ \E fd \in Fds : Connect(fd) \/ Frame(fd) \/ CloseFrame(fd)
                                           \/ OnClientClose(fd)
  <2>1. queue' # << >> /\ silence' = 0 /\ age' = age /\ ActiveSlots' = ActiveSlots
    BY <1>1, CallFacts DEF ActiveSlots
  <2>2. \A i \in ActiveSlots' : silence' <= age'[i] + MaxLate
    BY <1>0, <2>1
  <2>3. silence' <= late'
    BY <1>0, <2>1
  <2>4. ~Blocked'
    BY <2>1 DEF Blocked
  <2>. QED BY <2>1, <2>2, <2>3, <2>4 DEF SilenceInv
<1>2. CASE ComputeTimeout /\ silence' = silence
  <2>1. /\ pc = "loop" /\ pc' = "receive" /\ queue' = queue /\ clients' = clients /\ age' = age
        /\ late' = IF queue = << >> THEN 0 ELSE late
        /\ silence' = silence /\ ActiveSlots' = ActiveSlots
    BY <1>2 DEF ComputeTimeout, tableVars, ActiveSlots
  <2>2. CASE queue = << >>
    <3>1. late' = 0 /\ queue' = << >>
      BY <2>1, <2>2
    <3>2. \A i \in ActiveSlots' : age'[i] > NotAliveAfter \/ silence' <= age'[i] + MaxLate
      BY <2>1 DEF SilenceInv
    <3>3. ActiveSlots # {} => silence <= NotAliveAfter + MaxLate + late
      BY <2>1, <2>2 DEF SilenceInv
    <3>4. ActiveSlots' # {} =>
             silence' + wait' <= NotAliveAfter + 2 * MaxLate + DefaultTimeout + late'
      <4>1. /\ silence' \in Nat /\ late \in Nat /\ late <= MaxLate
            /\ wait' \in Nat /\ wait' <= DefaultTimeout
            /\ NotAliveAfter \in Nat /\ MaxLate \in Nat /\ DefaultTimeout \in Nat
        BY <1>0
      <4>2. ActiveSlots' # {} => silence' <= NotAliveAfter + MaxLate + late
        BY <2>1, <3>3
      <4>3. \A s, n, m, l, w, d \in Nat :
               s <= n + m + l /\ l <= m /\ w <= d => s + w <= n + 2 * m + d + 0
        OBVIOUS
      <4>. QED BY <3>1, <4>1, <4>2, <4>3
    <3>. QED BY <2>1, <3>1, <3>2, <3>4 DEF SilenceInv
  <2>3. CASE queue # << >>
    BY <1>0, <2>1, <2>3 DEF SilenceInv, Blocked
  <2>. QED BY <2>2, <2>3
<1>3. CASE (HandleAdd \/ HandleRemove \/ HandleUpdate) /\ silence' = silence
  <2>1. /\ pc' = "loop" /\ late' = late /\ silence' = silence
        /\ silence <= late
        /\ \A i \in ActiveSlots' : (i \in ActiveSlots /\ age'[i] = age[i]) \/ age'[i] = 0
    BY <1>3, HandleFacts DEF SilenceInv
  <2>2. \A i \in ActiveSlots' : silence' <= age'[i] + MaxLate
    BY <1>0, <2>1
  <2>. QED BY <1>0, <2>1, <2>2 DEF SilenceInv, Blocked
<1>4. CASE HandleStop /\ silence' = silence
  BY <1>0, <1>4 DEF HandleStop, Receive, SilenceInv, Blocked, tableVars, ActiveSlots
<1>5. CASE ReceiveTimeout /\ silence' = silence
  <2>1. /\ pc = "receive" /\ queue = << >> /\ wait = 0 /\ pc' = "sweep" /\ queue' = queue
        /\ clients' = clients /\ age' = age /\ late' = late /\ silence' = silence
        /\ overdue' = { i \in ActiveSlots : age[i] > NotAliveAfter }
        /\ ActiveSlots' = ActiveSlots
    BY <1>5 DEF ReceiveTimeout, tableVars, ActiveSlots
  <2>2. CASE silence <= NotAliveAfter + MaxLate + late
    BY <1>0, <2>1, <2>2 DEF SilenceInv, Blocked
  <2>3. CASE ~(silence <= NotAliveAfter + MaxLate + late)
    <3>1. ActiveSlots \subseteq overdue'
      BY <1>0, <2>1, <2>3 DEF SilenceInv
    <3>. QED BY <1>0, <2>1, <3>1 DEF SilenceInv, Blocked
  <2>. QED BY <2>2, <2>3
<1>6. CASE SweepDone /\ silence' = silence
  <2>1. /\ pc = "sweep" /\ pc' = "loop" /\ queue' = queue /\ clients' = clients /\ age' = age
        /\ late' = late /\ silence' = silence /\ ActiveSlots' = ActiveSlots
        /\ \A i \in ActiveSlots : i < at
    BY <1>6 DEF SweepDone, tableVars, ActiveSlots
  <2>2. ActiveSlots \cap overdue = {}
    BY <2>1 DEF SweepConsistent, ActiveSlots, Slots, TypeOK, KATypeOK
  <2>. QED BY <1>0, <2>1, <2>2 DEF SilenceInv, Blocked
<1>7. CASE (Expire \/ Ping) /\ silence' = silence
  <2>1. /\ pc = "sweep" /\ pc' = "sweep" /\ UNCHANGED <<queue, wait, late, silence>>
        /\ ActiveSlots' \subseteq ActiveSlots
        /\ \A j \in ActiveSlots' : age'[j] = age[j]
        /\ ActiveSlots \subseteq overdue => ActiveSlots' \subseteq overdue'
    BY <1>7, IterationFacts DEF ActiveSlots
  <2>. QED BY <1>0, <2>1 DEF SilenceInv, Blocked
<1>8. CASE Time
  <2>1. /\ UNCHANGED <<clients, queue, pc, overdue>> /\ ActiveSlots' = ActiveSlots
        /\ \/ Blocked /\ wait' = wait - 1 /\ late' = 0
           \/ ~Blocked /\ late' = late + 1 /\ wait' = wait
        /\ silence' = IF silence < MaxSilence THEN silence + 1 ELSE silence
        /\ \A i \in ActiveSlots : age'[i] = Older(age[i])
    BY <1>8 DEF Time, Tick, sweepVars, ActiveSlots
  <2>2. silence' <= silence + 1
    BY <1>0, <2>1
  <2>3. \A i \in ActiveSlots' : age'[i] > NotAliveAfter \/ silence' <= age'[i] + MaxLate
    BY <1>0, <2>1, <2>2 DEF SilenceInv, Older
  <2>4. CASE Blocked
    <3>1. pc = "receive" /\ queue = << >> /\ wait > 0 /\ late = 0 /\ late' = 0 /\ wait' = wait - 1
      BY <2>1, <2>4 DEF Blocked, SilenceInv
    <3>. QED BY <1>0, <2>1, <2>2, <2>3, <3>1 DEF SilenceInv
  <2>5. CASE ~Blocked
    <3>1. ~Blocked'
      BY <2>1, <2>5 DEF Blocked
    <3>2. late' = late + 1 /\ wait' = wait
      BY <2>1, <2>5
    <3>. QED BY <1>0, <2>1, <2>2, <2>3, <3>1, <3>2 DEF SilenceInv
  <2>. QED BY <2>4, <2>5
<1>9. CASE UNCHANGED vars
  BY <1>9 DEF vars, kaVars, sessionVars, SilenceInv, Blocked, ActiveSlots
<1>. QED
  BY <1>1, <1>2, <1>3, <1>4, <1>5, <1>6, <1>7, <1>8, <1>9 DEF Next, Task, TaskStep

(* Left alone for the longest wait, the threshold and three times what the *)
(* task may be late, the monitor has closed and forgotten every client:    *)
(* how soon the silence of the callers empties the table, for any table    *)
(* and any times.                                                          *)
THEOREM SilenceIsBoundedCorrect == Spec => []SilenceIsBounded
<1>1. Init => SilenceInv
  BY DEF Init, KAInit, SilenceInv, Blocked, ActiveSlots
<1>2. TypeOK /\ SilenceInv => SilenceIsBounded
  BY DEF TypeOK, KATypeOK, SilenceInv, SilenceIsBounded, SilenceLimit
<1>3. Inv => SweepConsistent
  BY DEF Inv
<1>. QED BY <1>1, <1>2, <1>3, SilenceStep, TypeCorrect, InvCorrect, PTL DEF Spec
============================================================================
