------------------------- MODULE StateDeliveryProofs -------------------------
(***************************************************************************)
(* Proofs about the delivery of the state, for any number of clients and   *)
(* changes and for any length of httpd's work queue.                       *)
(***************************************************************************)
EXTENDS StateDelivery, TLAPS

USE DeliveryAssumption

Work == [fd : Fds, snapshot : Snapshot]

----------------------------------------------------------------------------
(* Types.                                                                  *)

(* A setter counts one change more, within the bound.                      *)
LEMMA SetFacts ==
    ASSUME NEW f \in Fields, state \in Snapshot, Set(f)
    PROVE  /\ state' \in Snapshot
           /\ state'[f] = state[f] + 1
           /\ \A g \in Fields : g # f => state'[g] = state[g]
<1>1. state' = [state EXCEPT ![f] = @ + 1]
  BY DEF Set
<1>. QED BY <1>1 DEF Snapshot

(* A snapshot has fields, and so is not the one a client lacks.            *)
LEMMA SnapshotIsSome == ASSUME NEW s \in Snapshot PROVE s # NoSnapshot
<1>1. DOMAIN s = Fields /\ "clients" \in Fields
  BY DEF Snapshot, Fields
<1>2. DOMAIN NoSnapshot = {}
  BY DEF NoSnapshot
<1>. QED BY <1>1, <1>2

(* Queued work goes to the end of the queue, or the client loses it.       *)
LEMMA QueueWorkFacts ==
    ASSUME TypeOK, NEW fd \in Fds, NEW s \in Snapshot, QueueWork(fd, s)
    PROVE  /\ work' \in Seq(Work) /\ Len(work') <= MaxWork
           /\ Len(work) <= Len(work')
           /\ \A i \in 1..Len(work) : work'[i] = work[i]
           /\ \A i \in 1..Len(work') :
                 i \in 1..Len(work) \/ work'[i] = [fd |-> fd, snapshot |-> s]
           /\ \/ /\ lost' = lost
                 /\ Len(work') \in 1..Len(work')
                 /\ work'[Len(work')] = [fd |-> fd, snapshot |-> s]
              \/ lost' = lost \cup {fd} /\ work' = work
<1>1. work \in Seq(Work) /\ Len(work) <= MaxWork /\ [fd |-> fd, snapshot |-> s] \in Work
  BY DEF TypeOK, Work
<1>2. CASE /\ Len(work) < MaxWork
           /\ work' = Append(work, [fd |-> fd, snapshot |-> s])
           /\ lost' = lost
  BY <1>1, <1>2
<1>3. CASE work' = work /\ lost' = lost \cup {fd}
  BY <1>1, <1>3
<1>. QED BY <1>2, <1>3 DEF QueueWork

(* Work done leaves the queue at its head.                                 *)
LEMMA DeliverFacts ==
    ASSUME TypeOK, Deliver
    PROVE  /\ Len(work) >= 1 /\ work[1] \in Work
           /\ Head(work) = work[1]
           /\ work' \in Seq(Work) /\ Len(work') = Len(work) - 1
           /\ \A i \in 1..Len(work') : work'[i] = work[i + 1]
<1>1. work \in Seq(Work) /\ work # << >> /\ work' = Tail(work)
  BY DEF TypeOK, Work, Deliver
<1>. QED BY <1>1

(* A turn of the loop takes one client off the list: its work is queued,   *)
(* or it loses the snapshot, or it is no client.                           *)
LEMMA SendFacts ==
    ASSUME TypeOK, NEW t \in Tasks, Send(t)
    PROVE  /\ work' \in Seq(Work) /\ Len(work') <= MaxWork
           /\ \A i \in 1..Len(work) : i \in 1..Len(work') /\ work'[i] = work[i]
           /\ \A i \in 1..Len(work') :
                 i \in 1..Len(work) \/ work'[i].snapshot = snap[t]
           /\ \E fd \in todo[t] :
                 /\ todo' = [todo EXCEPT ![t] = @ \ {fd}]
                 /\ \/ /\ lost' = lost
                       /\ \E i \in 1..Len(work') :
                             work'[i] = [fd |-> fd, snapshot |-> snap[t]]
                    \/ lost' = lost \cup {fd}
                    \/ lost' = lost /\ fd \notin Clients
<1>1. PICK fd \in todo[t] :
         /\ todo' = [todo EXCEPT ![t] = @ \ {fd}]
         /\ \/ fd \in Clients /\ QueueWork(fd, snap[t])
            \/ fd \notin Clients /\ work' = work /\ lost' = lost
  BY DEF Send
<1>2. /\ fd \in Fds /\ snap[t] \in Snapshot
      /\ work \in Seq(Work) /\ Len(work) <= MaxWork
  BY DEF TypeOK, Work
<1>3. CASE QueueWork(fd, snap[t])
  <2>1. /\ work' \in Seq(Work) /\ Len(work') <= MaxWork
        /\ \A i \in 1..Len(work) : i \in 1..Len(work') /\ work'[i] = work[i]
        /\ \A i \in 1..Len(work') :
              i \in 1..Len(work) \/ work'[i] = [fd |-> fd, snapshot |-> snap[t]]
    BY <1>2, <1>3, QueueWorkFacts
  <2>2. \/ /\ lost' = lost
           /\ \E i \in 1..Len(work') :
                 work'[i] = [fd |-> fd, snapshot |-> snap[t]]
        \/ lost' = lost \cup {fd}
    BY <1>2, <1>3, QueueWorkFacts
  <2>3. \A i \in 1..Len(work') : i \in 1..Len(work) \/ work'[i].snapshot = snap[t]
    BY <2>1
  <2>4. \E g \in todo[t] :
           /\ todo' = [todo EXCEPT ![t] = @ \ {g}]
           /\ \/ /\ lost' = lost
                 /\ \E i \in 1..Len(work') :
                       work'[i] = [fd |-> g, snapshot |-> snap[t]]
              \/ lost' = lost \cup {g}
              \/ lost' = lost /\ g \notin Clients
    BY <1>1, <2>2, Zenon
  <2>. QED BY <2>1, <2>3, <2>4
<1>4. CASE fd \notin Clients /\ work' = work /\ lost' = lost
  BY <1>1, <1>2, <1>4
<1>. QED BY <1>1, <1>3, <1>4

(* Every step keeps the type invariant.                                    *)
LEMMA TypeStep == TypeOK /\ [Next]_vars => TypeOK'
<1>. SUFFICES ASSUME TypeOK, [Next]_vars PROVE TypeOK'
  OBVIOUS
<1>. USE DEF TypeOK, clientVars, orderVars, Goto
<1>1. CASE RadioEvent
  <2>1. state' \in Snapshot
    BY <1>1, SetFacts DEF RadioEvent, Fields, Announced
  <2>. QED BY <1>1, <2>1 DEF RadioEvent, Tasks, Clients
<1>2. CASE Command
  <2>1. state' \in Snapshot
    BY <1>2, SetFacts DEF Command, Fields, Announced
  <2>. QED BY <1>2, <2>1 DEF Command, Tasks, Clients, Idle
<1>3. CASE Deliver
  <2>1. work' \in Seq([fd : Fds, snapshot : Snapshot]) /\ Len(work') <= MaxWork
    BY <1>3, DeliverFacts DEF Work
  <2>2. /\ view' \in [Fds -> Snapshot \cup {NoSnapshot}]
        /\ seen' \in [Fds -> [Announced -> Nat]]
        /\ lost' \in SUBSET Fds
    <3>1. Head(work).fd \in Fds /\ Head(work).snapshot \in Snapshot
      BY <1>3, DeliverFacts DEF Work
    <3>2. CASE lost' = lost \cup ({Head(work).fd} \cap Clients) /\ UNCHANGED <<view, seen>>
      BY <3>1, <3>2
    <3>3. CASE /\ view' = [view EXCEPT ![Head(work).fd] = Head(work).snapshot]
               /\ seen' = [seen EXCEPT ![Head(work).fd] =
                      [f \in Announced |-> IF Head(work).snapshot[f] > @[f]
                                           THEN Head(work).snapshot[f] ELSE @[f]]]
               /\ lost' = lost
      <4>1. [f \in Announced |-> IF Head(work).snapshot[f] > seen[Head(work).fd][f]
                                 THEN Head(work).snapshot[f]
                                 ELSE seen[Head(work).fd][f]] \in [Announced -> Nat]
        BY <3>1 DEF Snapshot, Fields
      <4>. QED BY <3>1, <3>3, <4>1
    <3>. QED BY <1>3, <3>2, <3>3 DEF Deliver
  <2>. QED BY <1>3, <2>1, <2>2 DEF Deliver, Clients
<1>4. ASSUME NEW fd \in Fds, Upgrade(fd) PROVE TypeOK'
  <2>1. state' \in Snapshot
    BY <1>4, SetFacts DEF Upgrade, Fields
  <2>2. overtaken' \in SUBSET Tasks /\ behind' \in SUBSET Fds
    BY <1>4 DEF Upgrade, OvertakenByConnection, Clients
  <2>. QED BY <1>4, <2>1, <2>2 DEF Upgrade, Tasks, Clients, Idle
<1>5. ASSUME NEW fd \in Fds, CloseFrame(fd) PROVE TypeOK'
  <2>1. state' \in Snapshot
    BY <1>5, SetFacts DEF CloseFrame, Fields
  <2>. QED BY <1>5, <2>1 DEF CloseFrame, Tasks, Clients, Idle
<1>6. ASSUME NEW fd \in Fds, Close(fd) PROVE TypeOK'
  <2>1. state' \in Snapshot
    BY <1>6, SetFacts DEF Close, Fields
  <2>. QED BY <1>6, <2>1 DEF Close, Tasks, Clients, Idle
<1>7. ASSUME NEW t \in Tasks, Copy(t) PROVE TypeOK'
  <2>1. overtaken' \in SUBSET Tasks /\ behind' = behind
    BY <1>7 DEF Copy
  <2>. QED BY <1>7, <2>1 DEF Copy, ToOneClient, Tasks, Clients, Idle
<1>8. ASSUME NEW t \in Tasks, List(t) PROVE TypeOK'
  BY <1>8 DEF List, Tasks, Clients, Idle
<1>9. ASSUME NEW t \in Tasks, Send(t) PROVE TypeOK'
  <2>1. /\ work' \in Seq([fd : Fds, snapshot : Snapshot]) /\ Len(work') <= MaxWork
        /\ \E fd \in todo[t] : /\ todo' = [todo EXCEPT ![t] = @ \ {fd}]
                               /\ lost' = lost \/ lost' = lost \cup {fd}
    BY <1>9, SendFacts DEF Work
  <2>. QED BY <1>9, <2>1 DEF Send, Clients
<1>10. ASSUME NEW t \in Tasks, Done(t) PROVE TypeOK'
  <2>1. Unset \in Snapshot /\ Unseen \in [Announced -> Nat]
    BY DEF Unset, Unseen, Snapshot
  <2>0. overtaken' \in SUBSET Tasks
    BY <1>10 DEF Done
  <2>2. CASE t = "sys_evt"
    <3>1. /\ snap' = [snap EXCEPT !["sys_evt"] = Unset] /\ pc' = [pc EXCEPT !["sys_evt"] = "idle"]
          /\ UNCHANGED <<state, session, work, todo, handled, view, seen, lost, behind>>
          /\ pc["sys_evt"] = "send" /\ todo["sys_evt"] = {}
      BY <1>10, <2>2 DEF Done
    <3>. QED BY <2>0, <2>1, <3>1 DEF Tasks, Clients, Idle
  <2>3. CASE t = "httpd" /\ handled.kind = "close"
    <3>1. behind' \in SUBSET Fds
      BY <1>10, <2>3 DEF Done, DeleteSession
    <3>2. /\ snap' = [snap EXCEPT !["httpd"] = Unset] /\ pc' = [pc EXCEPT !["httpd"] = "idle"]
          /\ UNCHANGED <<state, work, todo>> /\ handled' = Idle
          /\ session' = [session EXCEPT ![handled.fd] = "none"]
          /\ view' = [view EXCEPT ![handled.fd] = NoSnapshot]
          /\ seen' = [seen EXCEPT ![handled.fd] = Unseen]
          /\ lost' = lost \ {handled.fd}
          /\ pc["httpd"] = "send" /\ todo["httpd"] = {}
      BY <1>10, <2>3 DEF Done, DeleteSession
    <3>. QED BY <2>0, <2>1, <3>1, <3>2 DEF Tasks, Clients, Idle
  <2>4. CASE t = "httpd" /\ handled.kind # "close"
    BY <1>10, <2>1, <2>4 DEF Done, Tasks, Clients, Idle
  <2>. QED BY <2>2, <2>3, <2>4 DEF Tasks
<1>11. CASE UNCHANGED vars
  BY <1>11 DEF vars, Clients
<1>. QED
  BY <1>1, <1>2, <1>3, <1>4, <1>5, <1>6, <1>7, <1>8, <1>9, <1>10, <1>11
  DEF Next, TaskStep
----------------------------------------------------------------------------
(* No snapshot is from the future.                                         *)

(* The state only moves forward.                                           *)
LEMMA StateGrows ==
    ASSUME TypeOK, [Next]_vars
    PROVE  \A f \in Fields : state[f] \in Nat /\ state'[f] \in Nat /\ state[f] <= state'[f]
<1>1. \A f \in Fields : state[f] \in Nat
  BY DEF TypeOK, Snapshot
<1>2. CASE \E f \in Fields : Set(f)
  <2>1. PICK f \in Fields : Set(f)
    BY <1>2
  <2>2. /\ state'[f] = state[f] + 1
        /\ \A g \in Fields : g # f => state'[g] = state[g]
    BY <2>1, SetFacts DEF TypeOK
  <2>. QED BY <1>1, <2>2
<1>3. CASE state' = state
  BY <1>1, <1>3
<1>4. (\E f \in Fields : Set(f)) \/ state' = state
  BY DEF Next, vars, RadioEvent, Command, Deliver, Upgrade, CloseFrame, Close,
         TaskStep, Copy, List, Send, Done, Fields, Announced
<1>. QED BY <1>2, <1>3, <1>4

LEMMA NotAheadStep == TypeOK /\ NotAhead /\ [Next]_vars => NotAhead'
<1>. SUFFICES ASSUME TypeOK, NotAhead, [Next]_vars, NEW f \in Fields
              PROVE  /\ \A t \in Tasks : snap'[t][f] <= state'[f]
                     /\ \A i \in 1..Len(work') : work'[i].snapshot[f] <= state'[f]
                     /\ \A fd \in Fds : view'[fd] # NoSnapshot => view'[fd][f] <= state'[f]
                     /\ f \in Announced => \A fd \in Fds : seen'[fd][f] <= state'[f]
  BY DEF NotAhead
<1>0. /\ state[f] \in Nat /\ state'[f] \in Nat /\ state[f] <= state'[f]
      /\ \A t \in Tasks : snap[t][f] \in Nat /\ snap[t][f] <= state[f]
      /\ \A i \in 1..Len(work) :
            work[i].snapshot[f] \in Nat /\ work[i].snapshot[f] <= state[f]
      /\ \A fd \in Fds :
            view[fd] # NoSnapshot => view[fd][f] \in Nat /\ view[fd][f] <= state[f]
      /\ f \in Announced =>
            \A fd \in Fds : seen[fd][f] \in Nat /\ seen[fd][f] <= state[f]
      /\ Len(work) \in Nat
  <2>1. work \in Seq(Work)
    BY DEF TypeOK, Work
  <2>2. \A i \in 1..Len(work) : work[i] \in Work
    BY <2>1
  <2>3. \A i \in 1..Len(work) : work[i].snapshot[f] \in Nat
    BY <2>2 DEF Work, Snapshot
  <2>4. \A fd \in Fds : view[fd] # NoSnapshot => view[fd][f] \in Nat
    BY DEF TypeOK, Snapshot
  <2>. QED BY <2>1, <2>3, <2>4, StateGrows DEF TypeOK, Snapshot, NotAhead
<1>. USE DEF Snapshot
<1>1. CASE UNCHANGED <<snap, work, view, seen>>
  BY <1>0, <1>1
<1>2. CASE Deliver
  <2>0. Head(work) = work[1] /\ work[1] \in Work /\ 1 \in 1..Len(work)
    BY <1>0, <1>2, DeliverFacts
  <2>1. \A i \in 1..Len(work') : work'[i].snapshot[f] <= state'[f]
    BY <1>0, <1>2, DeliverFacts
  <2>2. CASE UNCHANGED <<view, seen>>
    BY <1>0, <1>2, <2>1, <2>2 DEF Deliver
  <2>3. CASE /\ view' = [view EXCEPT ![Head(work).fd] = Head(work).snapshot]
             /\ seen' = [seen EXCEPT ![Head(work).fd] =
                      [g \in Announced |-> IF Head(work).snapshot[g] > @[g]
                                           THEN Head(work).snapshot[g] ELSE @[g]]]
    <3>1. \A fd \in Fds : view'[fd] = view[fd] \/ view'[fd] = work[1].snapshot
      BY <2>0, <2>3 DEF TypeOK
    <3>2. f \in Announced => \A fd \in Fds :
             seen'[fd][f] = seen[fd][f] \/ seen'[fd][f] = work[1].snapshot[f]
      BY <2>0, <2>3 DEF TypeOK
    <3>3. snap' = snap
      BY <1>2 DEF Deliver
    <3>4. \A fd \in Fds : view'[fd] # NoSnapshot => view'[fd][f] <= state'[f]
      BY <1>0, <2>0, <3>1
    <3>5. f \in Announced => \A fd \in Fds : seen'[fd][f] <= state'[f]
      BY <1>0, <2>0, <3>2
    <3>. QED BY <1>0, <2>1, <3>3, <3>4, <3>5
  <2>. QED BY <1>2, <2>2, <2>3 DEF Deliver
<1>3. ASSUME NEW t \in Tasks, Copy(t)
      PROVE UNCHANGED <<work, view, seen>> /\ snap' = [snap EXCEPT ![t] = state]
  BY <1>3 DEF Copy
<1>4. ASSUME NEW t \in Tasks, Send(t)
      PROVE  \A i \in 1..Len(work') : work'[i].snapshot[f] <= state'[f]
  BY <1>0, <1>4, SendFacts
<1>5. ASSUME NEW t \in Tasks, Send(t) PROVE UNCHANGED <<snap, view, seen>>
  BY <1>5 DEF Send
<1>6. ASSUME NEW t \in Tasks, Done(t)
      PROVE  /\ UNCHANGED work /\ snap' = [snap EXCEPT ![t] = Unset]
             /\ \/ UNCHANGED <<view, seen>>
                \/ /\ view' = [view EXCEPT ![handled.fd] = NoSnapshot]
                   /\ seen' = [seen EXCEPT ![handled.fd] = Unseen]
  BY <1>6 DEF Done, DeleteSession
<1>7. ASSUME NEW t \in Tasks, Copy(t) \/ Send(t) \/ Done(t)
      PROVE  /\ \A u \in Tasks : snap'[u][f] <= state'[f]
             /\ \A i \in 1..Len(work') : work'[i].snapshot[f] <= state'[f]
             /\ \A fd \in Fds : view'[fd] # NoSnapshot => view'[fd][f] <= state'[f]
             /\ f \in Announced => \A fd \in Fds : seen'[fd][f] <= state'[f]
  <2>1. CASE Copy(t)
    <3>1. snap \in [Tasks -> Snapshot]
      BY DEF TypeOK
    <3>. QED BY <1>0, <1>3, <2>1, <3>1
  <2>2. CASE Send(t)
    BY <1>0, <1>4, <1>5, <2>2
  <2>3. CASE Done(t)
    <3>1. Unset[f] = 0 /\ (f \in Announced => Unseen[f] = 0)
      BY DEF Unset, Unseen
    <3>2. /\ seen \in [Fds -> [Announced -> Nat]] /\ snap \in [Tasks -> Snapshot]
          /\ view \in [Fds -> Snapshot \cup {NoSnapshot}]
      BY DEF TypeOK
    <3>0. \A u \in Tasks : snap'[u] = snap[u] \/ snap'[u] = Unset
      BY <1>6, <2>3, <3>2
    <3>3. \A u \in Tasks : snap'[u][f] <= state'[f]
      BY <1>0, <3>0, <3>1
    <3>4. \A fd \in Fds : view'[fd] = view[fd] \/ view'[fd] = NoSnapshot
      BY <1>6, <2>3, <3>2
    <3>5. f \in Announced => \A fd \in Fds : seen'[fd][f] = seen[fd][f] \/ seen'[fd][f] = 0
      BY <1>6, <2>3, <3>1, <3>2
    <3>6. \A fd \in Fds : view'[fd] # NoSnapshot => view'[fd][f] <= state'[f]
      BY <1>0, <3>4
    <3>7. f \in Announced => \A fd \in Fds : seen'[fd][f] <= state'[f]
      BY <1>0, <3>5
    <3>. QED BY <1>0, <1>6, <2>3, <3>3, <3>6, <3>7
  <2>. QED BY <1>7, <2>1, <2>2, <2>3
<1>. QED
  BY <1>1, <1>2, <1>7
  DEF Next, vars, RadioEvent, Command, Upgrade, CloseFrame, Close, TaskStep, List, clientVars
----------------------------------------------------------------------------
(* No change passes a client by.                                           *)

Reached(fd, f) ==
    \/ seen[fd][f] = state[f]
    \/ Queued(fd, f)
    \/ \E t \in Tasks : Coming(t, fd, f)
    \/ Closing(fd)

(* An idle task has nothing coming.                                        *)
LEMMA IdleTask ==
    ASSUME NEW t \in Tasks, NEW fd, NEW f, pc[t] = "idle"
    PROVE  ~Coming(t, fd, f)
  BY DEF Coming

(* What is queued stays queued while work is only added.                   *)
LEMMA QueuedStays ==
    ASSUME NEW fd \in Fds, NEW f \in Fields, Queued(fd, f), state'[f] = state[f],
           \A i \in 1..Len(work) : i \in 1..Len(work') /\ work'[i] = work[i]
    PROVE  Queued(fd, f)'
  BY DEF Queued

(* A step of one task leaves alone what the other task has coming.         *)
LEMMA OtherTask ==
    ASSUME TypeOK, NEW t \in Tasks, NEW u \in Tasks, u # t, NEW fd \in Fds, NEW f \in Fields,
           Copy(t) \/ List(t) \/ Send(t) \/ (Done(t) /\ t = "sys_evt"), Coming(u, fd, f)
    PROVE  Coming(u, fd, f)'
<1>1. /\ state' = state /\ handled' = handled
      /\ pc'[u] = pc[u] /\ snap'[u] = snap[u] /\ todo'[u] = todo[u]
  BY DEF TypeOK, Copy, List, Send, Done, Goto
<1>. QED BY <1>1 DEF Coming, ToOneClient

(* The steps of a broadcast: copy, list, send.                             *)
LEMMA BroadcastReaches ==
    ASSUME TypeOK, NEW t \in Tasks, Copy(t) \/ List(t) \/ Send(t),
           NEW fd \in Clients \ lost', NEW f \in Fields, Reached(fd, f)
    PROVE  Reached(fd, f)'
<1>0. /\ state' = state /\ seen' = seen /\ handled' = handled
      /\ fd \in Fds
      /\ \A i \in 1..Len(work) : i \in 1..Len(work') /\ work'[i] = work[i]
  BY SendFacts DEF Copy, List, Send, clientVars, Clients
<1>1. CASE seen[fd][f] = state[f]
  BY <1>0, <1>1 DEF Reached
<1>2. CASE Queued(fd, f)
  BY <1>0, <1>2, QueuedStays DEF Reached
<1>3. CASE Closing(fd)
  BY <1>0, <1>3 DEF Reached, Closing
<1>4. ASSUME NEW u \in Tasks, u # t, Coming(u, fd, f) PROVE Reached(fd, f)'
  BY <1>0, <1>4, OtherTask DEF Reached
<1>5. CASE Coming(t, fd, f)
  <2>1. CASE Copy(t)
    <3>1. snap'[t] = state /\ pc'[t] \in {"list", "send"}
      BY <2>1 DEF TypeOK, Copy, Goto
    <3>2. pc'[t] = "send" => fd \in todo'[t]
      <4>1. CASE ToOneClient(t)
        BY <1>5, <2>1, <4>1 DEF TypeOK, Copy, Coming, Goto
      <4>2. CASE ~ToOneClient(t)
        BY <2>1, <4>2 DEF TypeOK, Copy, Goto
      <4>. QED BY <4>1, <4>2
    <3>3. Coming(t, fd, f)'
      BY <1>0, <1>5, <3>1, <3>2 DEF Coming, ToOneClient
    <3>. QED BY <3>3 DEF Reached
  <2>2. CASE List(t)
    <3>1. /\ pc[t] = "list" /\ pc'[t] = "send" /\ snap'[t] = snap[t]
          /\ snap[t][f] = state[f]
      BY <1>5, <2>2 DEF TypeOK, List, Goto, Coming
    <3>2. PICK gone \in SUBSET (Clients \cap {handled.fd}) :
             /\ handled.kind # "close" => gone = {}
             /\ todo'[t] = Clients \ gone
      BY <2>2 DEF TypeOK, List
    <3>3. CASE fd \in gone
      <4>1. handled.kind = "close" /\ handled.fd = fd
        BY <3>2, <3>3
      <4>2. Closing(fd)
        BY <4>1 DEF TypeOK, Closing, Idle
      <4>. QED BY <1>3, <4>2
    <3>4. CASE fd \notin gone
      <4>1. Coming(t, fd, f)'
        BY <1>0, <1>5, <3>1, <3>2, <3>4 DEF Coming, ToOneClient
      <4>. QED BY <4>1 DEF Reached
    <3>. QED BY <3>3, <3>4
  <2>3. CASE Send(t)
    <3>1. /\ pc[t] = "send" /\ pc'[t] = "send" /\ snap'[t] = snap[t]
          /\ snap[t][f] = state[f] /\ fd \in todo[t]
      BY <1>5, <2>3 DEF Send, Coming
    <3>2. PICK g \in todo[t] :
             /\ todo' = [todo EXCEPT ![t] = @ \ {g}]
             /\ \/ /\ lost' = lost
                   /\ \E i \in 1..Len(work') :
                         work'[i] = [fd |-> g, snapshot |-> snap[t]]
                \/ lost' = lost \cup {g}
                \/ lost' = lost /\ g \notin Clients
      BY <2>3, SendFacts
    <3>3. CASE g = fd
      <4>1. PICK i \in 1..Len(work') : work'[i] = [fd |-> fd, snapshot |-> snap[t]]
        BY <3>2, <3>3
      <4>2. Queued(fd, f)'
        BY <1>0, <3>1, <4>1 DEF Queued
      <4>. QED BY <4>2 DEF Reached
    <3>4. CASE g # fd
      <4>1. fd \in todo'[t]
        BY <3>1, <3>2, <3>4 DEF TypeOK
      <4>2. Coming(t, fd, f)'
        BY <1>0, <1>5, <3>1, <4>1 DEF Coming, ToOneClient
      <4>. QED BY <4>2 DEF Reached
    <3>. QED BY <3>3, <3>4
  <2>. QED BY <2>1, <2>2, <2>3
<1>. QED BY <1>1, <1>2, <1>3, <1>4, <1>5 DEF Reached
(* A step that starts a task, or ends one that has nothing left to send,   *)
(* and changes no more than one field.                                     *)
LEMMA StartReaches ==
    ASSUME TypeOK, NEW t \in Tasks, pc[t] = "idle",
           pc' = [pc EXCEPT ![t] = "copy"],
           UNCHANGED <<work, snap, todo, seen>>,
           t = "sys_evt" => handled' = handled,
           NEW fd \in Fds, NEW f \in Fields, Reached(fd, f), ~Closing(fd),
           state'[f] = state[f] \/ Coming(t, fd, f)'
    PROVE  Reached(fd, f)'
<1>1. CASE Coming(t, fd, f)'
  BY <1>1 DEF Reached
<1>2. CASE state'[f] = state[f]
  <2>1. CASE seen[fd][f] = state[f]
    BY <1>2, <2>1 DEF Reached
  <2>2. CASE Queued(fd, f)
    BY <1>2, <2>2 DEF Reached, Queued
  <2>3. ASSUME NEW u \in Tasks, Coming(u, fd, f) PROVE Reached(fd, f)'
    <3>1. u # t
      BY <2>3, IdleTask
    <3>2. pc'[u] = pc[u] /\ pc[u] # "idle"
      BY <2>3, <3>1, IdleTask DEF TypeOK
    <3>3. ToOneClient(u)' = ToOneClient(u) /\ (u = "httpd" => handled' = handled)
      BY <3>1 DEF ToOneClient, Tasks
    <3>4. Coming(u, fd, f)'
      BY <1>2, <2>3, <3>2, <3>3 DEF Coming, ToOneClient
    <3>. QED BY <3>4 DEF Reached
  <2>. QED BY <2>1, <2>2, <2>3 DEF Reached
<1>. QED BY <1>1, <1>2

LEMMA NoChangeMissedStep ==
    TypeOK /\ NotAhead /\ NoChangeMissed /\ [Next]_vars => NoChangeMissed'
<1>. SUFFICES ASSUME TypeOK, NotAhead, NoChangeMissed, [Next]_vars,
                     NEW fd \in Clients' \ lost', NEW f \in Announced
              PROVE  Reached(fd, f)'
  BY DEF NoChangeMissed, Reached
<1>0. fd \in Fds /\ f \in Fields
  BY DEF Clients, Fields
<1>1. fd \in Clients \ lost => Reached(fd, f)
  BY DEF NoChangeMissed, Reached
<1>2. CASE RadioEvent
  <2>1. /\ pc["sys_evt"] = "idle" /\ pc' = [pc EXCEPT !["sys_evt"] = "copy"]
        /\ UNCHANGED <<work, snap, todo, seen, handled>>
        /\ fd \in Clients \ lost
    BY <1>2 DEF RadioEvent, Goto, clientVars, Clients
  <2>2. CASE Closing(fd)
    BY <2>1, <2>2 DEF Reached, Closing
  <2>3. state'[f] = state[f] \/ Coming("sys_evt", fd, f)'
    <3>1. CASE f = "radio"
      BY <2>1, <3>1 DEF TypeOK, Coming, ToOneClient, Tasks
    <3>2. CASE f # "radio"
      BY <1>2, <3>2, SetFacts DEF RadioEvent, TypeOK, Fields, Announced
    <3>. QED BY <3>1, <3>2
  <2>4. "sys_evt" \in Tasks
    BY DEF Tasks
  <2>. QED BY <1>0, <1>1, <2>1, <2>2, <2>3, <2>4, StartReaches
<1>3. CASE Command
  <2>1. /\ pc["httpd"] = "idle" /\ pc' = [pc EXCEPT !["httpd"] = "copy"]
        /\ UNCHANGED <<work, snap, todo, seen>>
        /\ handled' = [kind |-> "command", fd |-> NoFd]
        /\ fd \in Clients \ lost
    BY <1>3 DEF Command, Goto, clientVars, Clients
  <2>2. ~Closing(fd)
    BY <2>1 DEF TypeOK, Closing, Idle
  <2>3. Coming("httpd", fd, f)'
    BY <2>1 DEF TypeOK, Coming, ToOneClient, Tasks
  <2>. QED BY <2>3 DEF Reached, Tasks
<1>4. CASE Deliver
  <2>1. /\ fd \in Clients \ lost /\ UNCHANGED <<state, pc, snap, todo, handled>>
    BY <1>4 DEF Deliver, Clients
  <2>2. /\ Len(work) >= 1 /\ work[1] \in Work /\ Head(work) = work[1]
        /\ Len(work') = Len(work) - 1 /\ Len(work) \in Nat
        /\ \A i \in 1..Len(work') : work'[i] = work[i + 1]
    BY <1>4, DeliverFacts DEF TypeOK
  <2>3. \/ /\ seen' = [seen EXCEPT ![work[1].fd] =
                   [g \in Announced |-> IF work[1].snapshot[g] > @[g]
                                        THEN work[1].snapshot[g] ELSE @[g]]]
           /\ lost' = lost
        \/ seen' = seen /\ lost' = lost \cup ({work[1].fd} \cap Clients)
    BY <1>4, <2>2 DEF Deliver
  <2>4. /\ seen \in [Fds -> [Announced -> Nat]] /\ work[1].fd \in Fds
        /\ work[1].snapshot[f] \in Nat /\ seen[fd][f] \in Nat /\ state[f] \in Nat
        /\ work[1].snapshot[f] <= state[f] /\ seen[fd][f] <= state[f]
    BY <1>0, <2>2 DEF TypeOK, Work, Snapshot, NotAhead
  <2>5. CASE seen[fd][f] = state[f]
    <3>1. seen'[fd][f] = state[f]
      BY <1>0, <2>3, <2>4, <2>5
    <3>. QED BY <2>1, <3>1 DEF Reached
  <2>6. CASE Queued(fd, f)
    <3>1. PICK i \in 1..Len(work) : work[i].fd = fd /\ work[i].snapshot[f] = state[f]
      BY <2>6 DEF Queued
    <3>2. CASE i = 1
      <4>1. seen'[fd][f] = state[f]
        BY <1>0, <2>1, <2>3, <2>4, <3>1, <3>2
      <4>. QED BY <2>1, <4>1 DEF Reached
    <3>3. CASE i # 1
      <4>1. i - 1 \in 1..Len(work') /\ work'[i - 1] = work[i]
        BY <2>2, <3>3
      <4>2. Queued(fd, f)'
        BY <2>1, <3>1, <4>1 DEF Queued
      <4>. QED BY <4>2 DEF Reached
    <3>. QED BY <3>2, <3>3
  <2>7. ASSUME NEW t \in Tasks, Coming(t, fd, f) PROVE Reached(fd, f)'
    BY <2>1, <2>7 DEF Reached, Coming, ToOneClient
  <2>8. CASE Closing(fd)
    BY <2>1, <2>8 DEF Reached, Closing
  <2>. QED BY <1>1, <2>1, <2>5, <2>6, <2>7, <2>8 DEF Reached
<1>5. ASSUME NEW g \in Fds, Upgrade(g) PROVE Reached(fd, f)'
  <2>1. /\ pc["httpd"] = "idle" /\ pc' = [pc EXCEPT !["httpd"] = "copy"]
        /\ UNCHANGED <<work, snap, todo, seen, lost>>
        /\ handled' = [kind |-> "connect", fd |-> g]
        /\ g # fd => fd \in Clients
        /\ state'[f] = state[f]
    <3>1. state'[f] = state[f]
      BY <1>0, <1>5, SetFacts DEF Upgrade, TypeOK, Fields, Announced
    <3>. QED BY <1>0, <1>5, <3>1 DEF Upgrade, Goto, Clients, TypeOK
  <2>2. "httpd" \in Tasks
    BY DEF Tasks
  <2>3. CASE g = fd
    <3>1. Coming("httpd", fd, f)'
      BY <2>1, <2>2, <2>3 DEF TypeOK, Coming, ToOneClient
    <3>. QED BY <2>2, <3>1 DEF Reached
  <2>4. CASE g # fd
    <3>1. Reached(fd, f) /\ ~Closing(fd)
      BY <1>1, <2>1, <2>4 DEF TypeOK, Closing, Idle
    <3>. QED BY <1>0, <2>1, <2>2, <3>1, StartReaches
  <2>. QED BY <2>3, <2>4
<1>6. ASSUME NEW g \in Fds, CloseFrame(g) PROVE Reached(fd, f)'
  <2>1. /\ pc["httpd"] = "idle" /\ pc' = [pc EXCEPT !["httpd"] = "copy"]
        /\ handled' = [kind |-> "command", fd |-> NoFd]
    BY <1>6 DEF CloseFrame, Goto
  <2>2. "httpd" \in Tasks
    BY DEF Tasks
  <2>3. Coming("httpd", fd, f)'
    BY <2>1, <2>2 DEF TypeOK, Coming, ToOneClient
  <2>. QED BY <2>2, <2>3 DEF Reached
<1>7. ASSUME NEW g \in Fds, Close(g) PROVE Reached(fd, f)'
  <2>1. /\ pc["httpd"] = "idle" /\ pc' = [pc EXCEPT !["httpd"] = "copy"]
        /\ handled' = [kind |-> "close", fd |-> g]
    BY <1>7 DEF Close, Goto
  <2>2. "httpd" \in Tasks
    BY DEF Tasks
  <2>3. CASE g = fd
    BY <2>1, <2>3 DEF Reached, Closing
  <2>4. CASE g # fd
    <3>1. Coming("httpd", fd, f)'
      BY <2>1, <2>2, <2>4 DEF TypeOK, Coming, ToOneClient
    <3>. QED BY <2>2, <3>1 DEF Reached
  <2>. QED BY <2>3, <2>4
<1>8. ASSUME NEW t \in Tasks, Copy(t) \/ List(t) \/ Send(t) PROVE Reached(fd, f)'
  <2>1. fd \in Clients \ lost /\ fd \in Clients \ lost'
    <3>1. session' = session
      BY <1>8 DEF Copy, List, Send
    <3>2. lost \subseteq lost'
      BY <1>8, SendFacts DEF Copy, List, clientVars
    <3>. QED BY <3>1, <3>2 DEF Clients
  <2>. QED BY <1>0, <1>1, <1>8, <2>1, BroadcastReaches
<1>9. ASSUME NEW t \in Tasks, Done(t) PROVE Reached(fd, f)'
  <2>1. /\ pc[t] = "send" /\ todo[t] = {} /\ pc' = [pc EXCEPT ![t] = "idle"]
        /\ snap' = [snap EXCEPT ![t] = Unset] /\ UNCHANGED <<state, work, todo>>
    BY <1>9 DEF Done, Goto
  <2>2. /\ fd \in Clients \ lost /\ seen'[fd] = seen[fd]
        /\ handled' = handled \/ (t = "httpd" /\ ~Closing(fd))
    <3>1. CASE t = "httpd" /\ handled.kind = "close"
      <4>1. /\ session' = [session EXCEPT ![handled.fd] = "none"]
            /\ seen' = [seen EXCEPT ![handled.fd] = Unseen]
            /\ lost' = lost \ {handled.fd}
        BY <1>9, <3>1 DEF Done, DeleteSession
      <4>2. fd # handled.fd
        BY <1>0, <4>1 DEF Clients, TypeOK
      <4>. QED BY <1>0, <3>1, <4>1, <4>2 DEF Clients, TypeOK, Closing
    <3>2. CASE t = "httpd" /\ handled.kind # "close"
      BY <1>9, <3>2 DEF Done, clientVars, Clients, Closing
    <3>3. CASE t = "sys_evt"
      BY <1>9, <3>3 DEF Done, clientVars, Clients
    <3>. QED BY <3>1, <3>2, <3>3 DEF Tasks
  <2>3. CASE seen[fd][f] = state[f] \/ Queued(fd, f)
    BY <2>1, <2>2, <2>3 DEF Reached, Queued
  <2>4. ASSUME NEW u \in Tasks, Coming(u, fd, f) PROVE Reached(fd, f)'
    <3>1. u # t
      BY <2>1, <2>4 DEF Coming
    <3>2. u = "httpd" => handled' = handled
      BY <1>9, <3>1 DEF Done, Tasks
    <3>3. pc'[u] = pc[u] /\ snap'[u] = snap[u] /\ todo'[u] = todo[u]
      BY <2>1, <3>1 DEF TypeOK
    <3>4. Coming(u, fd, f)'
      BY <2>1, <2>4, <3>2, <3>3 DEF Coming, ToOneClient
    <3>. QED BY <3>4 DEF Reached
  <2>5. CASE Closing(fd)
    BY <2>2, <2>5 DEF Reached, Closing
  <2>. QED BY <1>1, <2>2, <2>3, <2>4, <2>5 DEF Reached
<1>10. CASE UNCHANGED vars
  BY <1>1, <1>10 DEF vars, Reached, Clients, Queued, Coming, Closing, ToOneClient
<1>. QED
  BY <1>2, <1>3, <1>4, <1>5, <1>6, <1>7, <1>8, <1>9, <1>10 DEF Next, TaskStep

----------------------------------------------------------------------------
(* The order of the snapshots a client is sent.                            *)

(* What a client sees last is the same while its queue and view are.       *)
LEMMA FinalSame ==
    ASSUME NEW fd, work' = work, view'[fd] = view[fd]
    PROVE  Final(fd)' = Final(fd)
  BY DEF Final, NoneAfter

(* A snapshot queued for a client is what it sees last, and changes        *)
(* nothing for the others.                                                 *)
LEMMA FinalAppend ==
    ASSUME TypeOK, NEW g \in Fds, NEW x \in Snapshot, NEW fd,
           work' = Append(work, [fd |-> g, snapshot |-> x]), view' = view
    PROVE  /\ fd = g => \A s \in Final(fd)' : s = x
           /\ fd # g => Final(fd)' \subseteq Final(fd)
<1>1. /\ work \in Seq(Work) /\ Len(work) \in Nat /\ Len(work') = Len(work) + 1
      /\ \A i \in 1..Len(work) : work'[i] = work[i]
      /\ work'[Len(work')] = [fd |-> g, snapshot |-> x]
      /\ Len(work') \in 1..Len(work')
  BY DEF TypeOK, Work
<1>2. ASSUME fd = g, NEW s \in Final(fd)' PROVE s = x
  <2>1. ~NoneAfter(fd, 0)'
    BY <1>1, <1>2 DEF NoneAfter
  <2>2. PICK k \in 1..Len(work') : work'[k].fd = fd /\ NoneAfter(fd, k)' /\ s = work'[k].snapshot
    BY <1>2, <2>1 DEF Final
  <2>3. k = Len(work')
    BY <1>1, <1>2, <2>2 DEF NoneAfter
  <2>. QED BY <1>1, <2>2, <2>3
<1>3. ASSUME fd # g, NEW s \in Final(fd)' PROVE s \in Final(fd)
  <2>1. CASE NoneAfter(fd, 0)' /\ s = view[fd]
    <3>1. NoneAfter(fd, 0)
      BY <1>1, <2>1 DEF NoneAfter
    <3>. QED BY <2>1, <3>1 DEF Final
  <2>2. CASE \E k \in 1..Len(work') :
                work'[k].fd = fd /\ NoneAfter(fd, k)' /\ s = work'[k].snapshot
    <3>1. PICK k \in 1..Len(work') :
             work'[k].fd = fd /\ NoneAfter(fd, k)' /\ s = work'[k].snapshot
      BY <2>2
    <3>2. k # Len(work')
      BY <1>1, <1>3, <3>1
    <3>3. k \in 1..Len(work) /\ work[k] = work'[k]
      BY <1>1, <3>2
    <3>4. NoneAfter(fd, k)
      BY <1>1, <3>1 DEF NoneAfter
    <3>. QED BY <3>1, <3>3, <3>4 DEF Final
  <2>. QED BY <1>3, <2>1, <2>2 DEF Final
<1>. QED BY <1>2, <1>3

(* Work that is done, unless it fails, changes nothing of what a client    *)
(* will have seen last.                                                    *)
LEMMA FinalDeliver ==
    ASSUME TypeOK, Deliver, NEW fd \in Clients \ lost'
    PROVE  Final(fd)' \subseteq Final(fd)
<1>1. /\ Len(work) \in Nat /\ Len(work) >= 1 /\ work[1] \in Work /\ Head(work) = work[1]
      /\ Len(work') = Len(work) - 1
      /\ \A i \in 1..Len(work') : work'[i] = work[i + 1]
  BY DeliverFacts DEF TypeOK
<1>2. fd \in Fds /\ view \in [Fds -> Snapshot \cup {NoSnapshot}]
  BY DEF Clients, TypeOK
<1>3. view'[fd] = view[fd] \/ (work[1].fd = fd /\ view'[fd] = work[1].snapshot)
  <2>1. CASE view' = view
    BY <2>1
  <2>2. CASE view' = [view EXCEPT ![work[1].fd] = work[1].snapshot]
    BY <1>2, <2>2
  <2>. QED BY <1>1, <2>1, <2>2 DEF Deliver
<1>4. work[1].fd = fd => view'[fd] = work[1].snapshot
  <2>1. CASE view' = [view EXCEPT ![work[1].fd] = work[1].snapshot]
    BY <1>2, <2>1
  <2>2. CASE lost' = lost \cup ({work[1].fd} \cap Clients)
    BY <2>2
  <2>. QED BY <1>1, <2>1, <2>2 DEF Deliver
<1>5. ASSUME NEW s \in Final(fd)' PROVE s \in Final(fd)
  <2>1. CASE NoneAfter(fd, 0)' /\ s = view'[fd]
    <3>1. \A i \in 1..Len(work) : i > 1 => work[i].fd # fd
      <4>. SUFFICES ASSUME NEW i \in 1..Len(work), i > 1 PROVE work[i].fd # fd
        OBVIOUS
      <4>1. i - 1 \in 1..Len(work') /\ i - 1 > 0 /\ work'[i - 1] = work[i]
        BY <1>1
      <4>. QED BY <2>1, <4>1 DEF NoneAfter
    <3>2. CASE work[1].fd = fd
      <4>1. 1 \in 1..Len(work) /\ NoneAfter(fd, 1) /\ s = work[1].snapshot
        BY <1>1, <1>4, <2>1, <3>1, <3>2 DEF NoneAfter
      <4>. QED BY <3>2, <4>1 DEF Final
    <3>3. CASE work[1].fd # fd
      <4>1. NoneAfter(fd, 0) /\ s = view[fd]
        BY <1>1, <1>3, <2>1, <3>1, <3>3 DEF NoneAfter
      <4>. QED BY <4>1 DEF Final
    <3>. QED BY <3>2, <3>3
  <2>2. CASE \E k \in 1..Len(work') :
                work'[k].fd = fd /\ NoneAfter(fd, k)' /\ s = work'[k].snapshot
    <3>1. PICK k \in 1..Len(work') :
             work'[k].fd = fd /\ NoneAfter(fd, k)' /\ s = work'[k].snapshot
      BY <2>2
    <3>2. k + 1 \in 1..Len(work) /\ work[k + 1] = work'[k]
      BY <1>1
    <3>3. NoneAfter(fd, k + 1)
      <4>. SUFFICES ASSUME NEW i \in 1..Len(work), i > k + 1 PROVE work[i].fd # fd
        BY DEF NoneAfter
      <4>1. i - 1 \in 1..Len(work') /\ i - 1 > k /\ work'[i - 1] = work[i]
        BY <1>1
      <4>. QED BY <3>1, <4>1 DEF NoneAfter
    <3>. QED BY <3>1, <3>2, <3>3 DEF Final
  <2>. QED BY <1>5, <2>1, <2>2 DEF Final
<1>. QED BY <1>5

(* A turn of the loop, with what is queued and who is behind after it.     *)
LEMMA SendOrder ==
    ASSUME TypeOK, NEW t \in Tasks, Send(t)
    PROVE  /\ UNCHANGED <<state, session, pc, snap, handled, view, seen, overtaken>>
           /\ pc[t] = "send" /\ snap[t] \in Snapshot
           /\ \E g \in todo[t] :
                 /\ g \in Fds
                 /\ todo' = [todo EXCEPT ![t] = @ \ {g}]
                 /\ behind' = IF t \in overtaken THEN behind \cup ({g} \cap Clients)
                                                 ELSE behind \ {g}
                 /\ \/ g \in Clients /\ work' = Append(work, [fd |-> g, snapshot |-> snap[t]])
                       /\ lost' = lost
                    \/ work' = work /\ lost' = lost \cup {g}
                    \/ g \notin Clients /\ work' = work /\ lost' = lost
<1>1. PICK g \in todo[t] :
         /\ todo' = [todo EXCEPT ![t] = @ \ {g}]
         /\ \/ g \in Clients /\ QueueWork(g, snap[t])
            \/ g \notin Clients /\ work' = work /\ lost' = lost
         /\ behind' = IF t \in overtaken THEN behind \cup ({g} \cap Clients)
                                         ELSE behind \ {g}
  BY DEF Send
<1>2. g \in Fds /\ snap[t] \in Snapshot
  BY <1>1 DEF TypeOK
<1>3. UNCHANGED <<state, session, pc, snap, handled, view, seen, overtaken>> /\ pc[t] = "send"
  BY DEF Send
<1>4. \/ g \in Clients /\ work' = Append(work, [fd |-> g, snapshot |-> snap[t]]) /\ lost' = lost
      \/ work' = work /\ lost' = lost \cup {g}
      \/ g \notin Clients /\ work' = work /\ lost' = lost
  BY <1>1 DEF QueueWork
<1>. QED BY <1>1, <1>2, <1>3, <1>4, Zenon

(* A step that starts httpd's or sys_evt's broadcast.                      *)
LEMMA Starts ==
    ASSUME RadioEvent \/ Command
             \/ \E fd \in Fds : Upgrade(fd) \/ CloseFrame(fd) \/ Close(fd)
    PROVE  /\ \E t \in Tasks : pc[t] = "idle" /\ pc' = [pc EXCEPT ![t] = "copy"]
           /\ UNCHANGED <<work, snap, todo, view, seen, lost>>
           /\ \/ \E fd \in Fds : Upgrade(fd)
              \/ UNCHANGED <<overtaken, behind, session>>
  BY DEF RadioEvent, Command, Upgrade, CloseFrame, Close, Goto, clientVars, orderVars, Tasks

(* A connection is a change of client_count that is older with the clients *)
(* there are, and with the tasks that have made their copies.              *)
LEMMA UpgradeFacts ==
    ASSUME TypeOK, NEW fd \in Fds, Upgrade(fd)
    PROVE  /\ state["clients"] \in Nat /\ state'["clients"] = state["clients"] + 1
           /\ overtaken' = overtaken \cup { t \in Tasks : Sending(t) }
           /\ behind' = behind \cup Clients
           /\ session' = [session EXCEPT ![fd] = "websocket"]
<1>1. /\ Set("clients") /\ OvertakenByConnection
      /\ session' = [session EXCEPT ![fd] = "websocket"]
  BY DEF Upgrade
<1>2. state["clients"] \in Nat /\ state'["clients"] = state["clients"] + 1
  BY <1>1, SetFacts DEF TypeOK, Snapshot, Fields
<1>. QED BY <1>1, <1>2 DEF OvertakenByConnection

(* A task that was overtaken sends an old state until it is done.          *)
LEMMA OvertakenStep ==
    TypeOK /\ NotAhead /\ OvertakenIsOld /\ [Next]_vars => OvertakenIsOld'
<1>. SUFFICES ASSUME TypeOK, NotAhead, OvertakenIsOld, [Next]_vars, NEW t \in overtaken'
              PROVE  Sending(t)' /\ \E f \in Fields : snap'[t][f] < state'[f]
  BY DEF OvertakenIsOld
<1>0. /\ t \in Tasks /\ pc \in [Tasks -> {"idle", "copy", "list", "send"}]
      /\ snap \in [Tasks -> Snapshot] /\ state \in Snapshot
      /\ \A f \in Fields :
            state[f] \in Nat /\ state'[f] \in Nat /\ snap[t][f] \in Nat
              /\ state[f] <= state'[f] /\ snap[t][f] <= state[f]
  BY TypeStep, StateGrows DEF TypeOK, Snapshot, NotAhead
<1>1. ASSUME t \in overtaken, pc'[t] \in {"list", "send"}, snap'[t] = snap[t]
      PROVE  Sending(t)' /\ \E f \in Fields : snap'[t][f] < state'[f]
  BY <1>0, <1>1 DEF OvertakenIsOld, Sending
<1>2. t \in overtaken => pc[t] \in {"list", "send"}
  BY DEF OvertakenIsOld, Sending
<1>3. ASSUME NEW u \in Tasks, Copy(u)
      PROVE  Sending(t)' /\ \E f \in Fields : snap'[t][f] < state'[f]
  <2>1. /\ pc[u] = "copy" /\ pc' \in {[pc EXCEPT ![u] = "list"], [pc EXCEPT ![u] = "send"]}
        /\ snap' = [snap EXCEPT ![u] = state] /\ state' = state
        /\ t \in overtaken \/ (pc[t] \in {"list", "send"} /\ snap[t] # state)
    BY <1>3 DEF Copy, Goto, Sending
  <2>2. t # u /\ pc'[t] = pc[t] /\ snap'[t] = snap[t] /\ pc[t] \in {"list", "send"}
    BY <1>0, <1>2, <2>1
  <2>3. CASE snap[t] # state
    <3>1. PICK f \in Fields : snap[t][f] # state[f]
      BY <1>0, <2>3 DEF Snapshot
    <3>2. snap'[t][f] < state'[f]
      BY <1>0, <2>1, <2>2, <3>1
    <3>. QED BY <2>2, <3>2 DEF Sending
  <2>. QED BY <1>1, <2>1, <2>2, <2>3
<1>4. ASSUME NEW u \in Tasks, List(u) \/ Send(u)
      PROVE  Sending(t)' /\ \E f \in Fields : snap'[t][f] < state'[f]
  <2>1. /\ overtaken' = overtaken /\ snap' = snap
        /\ pc' = pc \/ pc' = [pc EXCEPT ![u] = "send"]
    BY <1>4 DEF List, Send, Goto, clientVars, orderVars
  <2>. QED BY <1>0, <1>1, <1>2, <2>1
<1>5. ASSUME NEW u \in Tasks, Done(u)
      PROVE  Sending(t)' /\ \E f \in Fields : snap'[t][f] < state'[f]
  <2>1. /\ overtaken' = overtaken \ {u} /\ snap' = [snap EXCEPT ![u] = Unset]
        /\ pc' = [pc EXCEPT ![u] = "idle"]
    BY <1>5 DEF Done, Goto
  <2>. QED BY <1>0, <1>1, <1>2, <2>1
<1>6. CASE RadioEvent \/ Command \/ \E fd \in Fds : Upgrade(fd) \/ CloseFrame(fd) \/ Close(fd)
  <2>1. PICK u \in Tasks : pc[u] = "idle" /\ pc' = [pc EXCEPT ![u] = "copy"]
    BY <1>6, Starts
  <2>2. snap' = snap
    BY <1>6, Starts
  <2>3. CASE t \in overtaken
    BY <1>0, <1>1, <1>2, <2>1, <2>2, <2>3
  <2>4. CASE t \notin overtaken
    <3>1. PICK fd \in Fds : Upgrade(fd)
      BY <1>6, <2>4, Starts
    <3>2. Sending(t) /\ "clients" \in Fields /\ state'["clients"] = state["clients"] + 1
      BY <2>4, <3>1, UpgradeFacts DEF Fields
    <3>3. snap'[t]["clients"] < state'["clients"]
      BY <1>0, <2>2, <3>2
    <3>4. pc'[t] = pc[t]
      BY <1>0, <2>1, <3>2 DEF Sending
    <3>. QED BY <3>2, <3>3, <3>4 DEF Sending
  <2>. QED BY <2>3, <2>4
<1>7. CASE Deliver \/ UNCHANGED vars
  <2>1. overtaken' = overtaken /\ snap' = snap /\ pc' = pc
    BY <1>7 DEF Deliver, vars, orderVars
  <2>. QED BY <1>1, <1>2, <2>1
<1>. QED BY <1>3, <1>4, <1>5, <1>6, <1>7 DEF Next, TaskStep

(* The other tasks send the present state, or a field's new value is about *)
(* to be copied for everyone.                                              *)
LEMMA OthersStep ==
    TypeOK /\ OthersAreCurrent /\ [Next]_vars => OthersAreCurrent'
<1>. SUFFICES ASSUME TypeOK, OthersAreCurrent, [Next]_vars,
                     NEW t \in Tasks \ overtaken', NEW f \in Fields, Sending(t)'
              PROVE  snap'[t][f] = state'[f] \/ AboutToCopy(f)'
  BY DEF OthersAreCurrent
<1>0. /\ pc \in [Tasks -> {"idle", "copy", "list", "send"}]
      /\ snap \in [Tasks -> Snapshot] /\ state \in Snapshot
      /\ pc'[t] \in {"list", "send"}
  BY DEF TypeOK, Sending
<1>1. ASSUME t \notin overtaken, pc[t] \in {"list", "send"}
      PROVE  snap[t][f] = state[f] \/ AboutToCopy(f)
  BY <1>1 DEF OthersAreCurrent, Sending
<1>2. f = "radio" \/ f = "matter" \/ f = "clients"
  BY DEF Fields, Announced
<1>3. ASSUME NEW u \in Tasks, Copy(u) PROVE snap'[t][f] = state'[f] \/ AboutToCopy(f)'
  <2>1. /\ snap' = [snap EXCEPT ![u] = state] /\ state' = state
        /\ pc' \in {[pc EXCEPT ![u] = "list"], [pc EXCEPT ![u] = "send"]}
        /\ pc[t] \in {"list", "send"} => snap[t] = state
    BY <1>3 DEF Copy, Goto, Sending
  <2>. QED BY <1>0, <2>1
<1>4. ASSUME NEW u \in Tasks, List(u) \/ Send(u)
      PROVE  snap'[t][f] = state'[f] \/ AboutToCopy(f)'
  <2>1. /\ overtaken' = overtaken /\ snap' = snap /\ state' = state /\ handled' = handled
        /\ pc[u] \in {"list", "send"}
        /\ pc' = pc \/ pc' = [pc EXCEPT ![u] = "send"]
    BY <1>4 DEF List, Send, Goto, clientVars, orderVars
  <2>2. pc[t] \in {"list", "send"}
    BY <1>0, <2>1
  <2>3. AboutToCopy(f) => AboutToCopy(f)'
    BY <1>0, <2>1 DEF AboutToCopy, Tasks
  <2>. QED BY <1>1, <2>1, <2>2, <2>3
<1>5. ASSUME NEW u \in Tasks, Done(u) PROVE snap'[t][f] = state'[f] \/ AboutToCopy(f)'
  <2>1. /\ overtaken' = overtaken \ {u} /\ snap' = [snap EXCEPT ![u] = Unset]
        /\ state' = state /\ pc[u] = "send" /\ pc' = [pc EXCEPT ![u] = "idle"]
        /\ u = "sys_evt" => handled' = handled
    BY <1>5 DEF Done, Goto
  <2>2. t # u /\ t \notin overtaken /\ pc[t] \in {"list", "send"} /\ snap'[t] = snap[t]
    BY <1>0, <2>1
  <2>3. AboutToCopy(f) => AboutToCopy(f)'
    BY <1>0, <2>1 DEF AboutToCopy, Tasks
  <2>. QED BY <1>1, <2>1, <2>2, <2>3
<1>6. CASE RadioEvent \/ Command \/ \E fd \in Fds : Upgrade(fd) \/ CloseFrame(fd) \/ Close(fd)
  <2>1. PICK u \in Tasks : pc[u] = "idle" /\ pc' = [pc EXCEPT ![u] = "copy"]
    BY <1>6, Starts
  <2>2. snap' = snap /\ pc[t] \in {"list", "send"} /\ t \notin overtaken
    <3>1. overtaken \subseteq overtaken'
      BY <1>6, Starts, UpgradeFacts
    <3>. QED BY <1>0, <1>6, <2>1, <3>1, Starts
  <2>3. CASE RadioEvent
    <3>1. /\ pc' = [pc EXCEPT !["sys_evt"] = "copy"] /\ handled' = handled
          /\ f # "radio" => state'[f] = state[f]
      BY <2>3, SetFacts DEF RadioEvent, Goto, TypeOK, Fields, Announced
    <3>2. AboutToCopy("radio")' /\ (AboutToCopy(f) => AboutToCopy(f)')
      BY <1>0, <3>1 DEF AboutToCopy, Tasks
    <3>. QED BY <1>1, <1>2, <2>2, <3>1, <3>2
  <2>4. CASE Command
    <3>1. /\ pc["httpd"] = "idle" /\ pc' = [pc EXCEPT !["httpd"] = "copy"]
          /\ handled' = [kind |-> "command", fd |-> NoFd]
      BY <2>4 DEF Command, Goto
    <3>2. f # "matter" => state'[f] = state[f]
      <4>1. Set("matter") => (f # "matter" => state'[f] = state[f])
        BY SetFacts DEF TypeOK, Fields, Announced
      <4>. QED BY <2>4, <4>1 DEF Command
    <3>3. AboutToCopy("matter")' /\ (AboutToCopy(f) => AboutToCopy(f)')
      BY <1>0, <3>1 DEF AboutToCopy, Tasks
    <3>. QED BY <1>1, <1>2, <2>2, <3>2, <3>3
  <2>5. ASSUME NEW fd \in Fds, CloseFrame(fd) \/ Close(fd)
        PROVE  snap'[t][f] = state'[f] \/ AboutToCopy(f)'
    <3>1. /\ pc["httpd"] = "idle" /\ pc' = [pc EXCEPT !["httpd"] = "copy"]
          /\ handled'.kind \in {"command", "close"} /\ Set("clients")
      BY <2>5 DEF CloseFrame, Close, Goto
    <3>2. f # "clients" => state'[f] = state[f]
      BY <3>1, SetFacts DEF TypeOK, Fields
    <3>3. AboutToCopy("clients")' /\ (AboutToCopy(f) => AboutToCopy(f)')
      BY <1>0, <3>1 DEF AboutToCopy, Tasks
    <3>. QED BY <1>1, <2>2, <3>2, <3>3
  <2>6. ASSUME NEW fd \in Fds, Upgrade(fd)
        PROVE  snap'[t][f] = state'[f] \/ AboutToCopy(f)'
    BY <2>2, <2>6, UpgradeFacts DEF Sending
  <2>. QED BY <1>6, <2>3, <2>4, <2>5, <2>6
<1>7. CASE Deliver \/ UNCHANGED vars
  <2>1. /\ overtaken' = overtaken /\ snap' = snap /\ pc' = pc /\ state' = state
        /\ handled' = handled
    BY <1>7 DEF Deliver, vars, orderVars
  <2>2. AboutToCopy(f)' = AboutToCopy(f)
    BY <2>1 DEF AboutToCopy
  <2>. QED BY <1>0, <1>1, <2>1, <2>2
<1>. QED BY <1>3, <1>4, <1>5, <1>6, <1>7 DEF Next, TaskStep

Current(fd, f) == \A s \in Final(fd) : s # NoSnapshot /\ s[f] = state[f]

Arriving(fd, f) ==
    Current(fd, f) \/ (\E t \in Tasks : Coming(t, fd, f)) \/ Closing(fd)

(* A step that leaves queue, view and field alone keeps what is current.   *)
LEMMA CurrentSame ==
    ASSUME NEW fd, NEW f, work' = work, view'[fd] = view[fd], state'[f] = state[f],
           Current(fd, f)
    PROVE  Current(fd, f)'
  BY FinalSame DEF Current

(* What is coming to a client survives the start of another broadcast.     *)
LEMMA StartArrives ==
    ASSUME TypeOK, NEW t \in Tasks, pc[t] = "idle",
           pc' = [pc EXCEPT ![t] = "copy"],
           UNCHANGED <<work, snap, todo, view>>,
           t = "sys_evt" => handled' = handled,
           NEW fd \in Fds, NEW f \in Fields, Arriving(fd, f), ~Closing(fd),
           state'[f] = state[f] \/ Coming(t, fd, f)'
    PROVE  Arriving(fd, f)'
<1>1. CASE Coming(t, fd, f)'
  BY <1>1 DEF Arriving
<1>2. CASE state'[f] = state[f]
  <2>1. CASE Current(fd, f)
    BY <1>2, <2>1, CurrentSame DEF Arriving
  <2>2. ASSUME NEW u \in Tasks, Coming(u, fd, f) PROVE Arriving(fd, f)'
    <3>1. u # t
      BY <2>2, IdleTask
    <3>2. pc'[u] = pc[u] /\ pc[u] # "idle"
      BY <2>2, <3>1, IdleTask DEF TypeOK
    <3>3. ToOneClient(u)' = ToOneClient(u) /\ (u = "httpd" => handled' = handled)
      BY <3>1 DEF ToOneClient, Tasks
    <3>4. Coming(u, fd, f)'
      BY <1>2, <2>2, <3>2, <3>3 DEF Coming, ToOneClient
    <3>. QED BY <3>4 DEF Arriving
  <2>. QED BY <2>1, <2>2 DEF Arriving
<1>. QED BY <1>1, <1>2

(* The copy and the list of a broadcast.                                   *)
LEMMA CopyListArrives ==
    ASSUME TypeOK, NEW t \in Tasks, Copy(t) \/ List(t),
           NEW fd \in Clients, NEW f \in Fields, Arriving(fd, f)
    PROVE  Arriving(fd, f)'
<1>0. state' = state /\ view' = view /\ work' = work /\ handled' = handled
  BY DEF Copy, List, clientVars
<1>1. CASE Current(fd, f)
  BY <1>0, <1>1, CurrentSame DEF Arriving
<1>2. CASE Closing(fd)
  BY <1>0, <1>2 DEF Arriving, Closing
<1>3. ASSUME NEW u \in Tasks, u # t, Coming(u, fd, f) PROVE Arriving(fd, f)'
  BY <1>3, OtherTask DEF Arriving, Clients
<1>4. CASE Coming(t, fd, f) /\ Copy(t)
  <2>1. snap'[t] = state /\ pc'[t] \in {"list", "send"}
    BY <1>4 DEF TypeOK, Copy, Goto
  <2>2. pc'[t] = "send" => fd \in todo'[t]
    <3>1. CASE ToOneClient(t)
      BY <1>4, <3>1 DEF TypeOK, Copy, Coming, Goto
    <3>2. CASE ~ToOneClient(t)
      BY <1>4, <3>2 DEF TypeOK, Copy, Goto
    <3>. QED BY <3>1, <3>2
  <2>3. Coming(t, fd, f)'
    BY <1>0, <1>4, <2>1, <2>2 DEF Coming, ToOneClient
  <2>. QED BY <2>3 DEF Arriving
<1>5. CASE Coming(t, fd, f) /\ List(t)
  <2>1. /\ pc[t] = "list" /\ pc'[t] = "send" /\ snap'[t] = snap[t]
        /\ snap[t][f] = state[f]
    BY <1>5 DEF TypeOK, List, Goto, Coming
  <2>2. PICK gone \in SUBSET (Clients \cap {handled.fd}) :
           /\ handled.kind # "close" => gone = {}
           /\ todo'[t] = Clients \ gone
    BY <1>5 DEF TypeOK, List
  <2>3. CASE fd \in gone
    <3>1. handled.kind = "close" /\ handled.fd = fd
      BY <2>2, <2>3
    <3>2. Closing(fd)
      BY <3>1 DEF TypeOK, Closing, Idle
    <3>. QED BY <1>2, <3>2
  <2>4. CASE fd \notin gone
    <3>1. Coming(t, fd, f)'
      BY <1>0, <1>5, <2>1, <2>2, <2>4 DEF Coming, ToOneClient
    <3>. QED BY <3>1 DEF Arriving
  <2>. QED BY <2>3, <2>4
<1>. QED BY <1>1, <1>2, <1>3, <1>4, <1>5 DEF Arriving

(* A send: a task that was not overtaken leaves its client current, or the *)
(* change it missed is about to be copied.                                 *)
LEMMA SendArrives ==
    ASSUME TypeOK, OthersAreCurrent, NEW t \in Tasks, Send(t),
           NEW fd \in Clients, fd \notin lost' \cup behind', NEW f \in Fields,
           fd \notin behind => Arriving(fd, f)
    PROVE  Arriving(fd, f)'
<1>0. /\ state' = state /\ view' = view /\ handled' = handled /\ pc' = pc /\ snap' = snap
      /\ pc[t] = "send" /\ snap[t] \in Snapshot /\ fd \in Fds
  BY SendOrder DEF Clients
<1>1. PICK g \in todo[t] :
         /\ g \in Fds
         /\ todo' = [todo EXCEPT ![t] = @ \ {g}]
         /\ behind' = IF t \in overtaken THEN behind \cup ({g} \cap Clients)
                                         ELSE behind \ {g}
         /\ \/ g \in Clients /\ work' = Append(work, [fd |-> g, snapshot |-> snap[t]])
               /\ lost' = lost
            \/ work' = work /\ lost' = lost \cup {g}
            \/ g \notin Clients /\ work' = work /\ lost' = lost
  BY SendOrder
<1>2. CASE g = fd
  <2>1. t \notin overtaken /\ work' = Append(work, [fd |-> fd, snapshot |-> snap[t]])
    BY <1>1, <1>2
  <2>2. \A s \in Final(fd)' : s = snap[t]
    BY <1>0, <2>1, FinalAppend
  <2>3. snap[t] # NoSnapshot
    BY <1>0, SnapshotIsSome
  <2>4. CASE snap[t][f] = state[f]
    BY <1>0, <2>2, <2>3, <2>4 DEF Arriving, Current
  <2>5. CASE AboutToCopy(f)
    <3>1. AboutToCopy(f)'
      BY <1>0, <2>5 DEF AboutToCopy
    <3>2. (\E u \in Tasks : Coming(u, fd, f))' \/ Closing(fd)'
      <4>0. CASE f = "clients" /\ pc'["httpd"] = "copy" /\ handled'.kind # "connect"
        <5>1. CASE handled'.kind = "close" /\ handled'.fd = fd
          BY <1>0, <5>1 DEF TypeOK, Closing, Idle
        <5>2. CASE ~(handled'.kind = "close" /\ handled'.fd = fd)
          BY <4>0, <5>2 DEF Coming, ToOneClient, Tasks
        <5>. QED BY <5>1, <5>2
      <4>1. CASE f = "radio" /\ pc'["sys_evt"] = "copy"
        BY <4>1 DEF Coming, ToOneClient, Tasks
      <4>2. CASE f = "matter" /\ pc'["httpd"] = "copy" /\ handled'.kind = "command"
        BY <4>2 DEF Coming, ToOneClient, Tasks
      <4>. QED BY <3>1, <4>0, <4>1, <4>2 DEF AboutToCopy
    <3>. QED BY <3>2 DEF Arriving
  <2>. QED BY <1>0, <2>1, <2>4, <2>5 DEF OthersAreCurrent, Sending
<1>3. CASE g # fd
  <2>1. fd \notin behind
    BY <1>1, <1>3
  <2>2. Final(fd)' \subseteq Final(fd)
    <3>1. CASE work' = work
      BY <1>0, <3>1, FinalSame
    <3>2. CASE work' = Append(work, [fd |-> g, snapshot |-> snap[t]])
      BY <1>0, <1>1, <1>3, <3>2, FinalAppend
    <3>. QED BY <1>1, <3>1, <3>2
  <2>3. CASE Current(fd, f)
    BY <1>0, <2>2, <2>3 DEF Arriving, Current
  <2>4. ASSUME NEW u \in Tasks, Coming(u, fd, f) PROVE Arriving(fd, f)'
    <3>1. pc[u] = "send" /\ fd \in todo[u] => fd \in todo'[u]
      BY <1>1, <1>3 DEF TypeOK
    <3>2. Coming(u, fd, f)'
      BY <1>0, <2>4, <3>1 DEF Coming, ToOneClient
    <3>. QED BY <3>2 DEF Arriving
  <2>5. CASE Closing(fd)
    BY <1>0, <2>5 DEF Arriving, Closing
  <2>. QED BY <2>1, <2>3, <2>4, <2>5 DEF Arriving
<1>. QED BY <1>2, <1>3

(* A client that is not behind is current in the end, or will be.          *)
LEMMA FinalStep ==
    TypeOK /\ OthersAreCurrent /\ FinalIsCurrent /\ BehindIsOld /\ [Next]_vars
        => FinalIsCurrent'
<1>. SUFFICES ASSUME TypeOK, OthersAreCurrent, FinalIsCurrent, BehindIsOld, [Next]_vars,
                     NEW fd \in Clients', fd \notin lost' \cup behind', NEW f \in Fields
              PROVE  Arriving(fd, f)'
  BY DEF FinalIsCurrent, Arriving, Current
<1>0. fd \in Fds
  BY DEF Clients
<1>1. fd \in Clients /\ fd \notin lost \cup behind => Arriving(fd, f)
  BY DEF FinalIsCurrent, Arriving, Current
<1>2. CASE RadioEvent
  <2>1. /\ pc["sys_evt"] = "idle" /\ pc' = [pc EXCEPT !["sys_evt"] = "copy"]
        /\ UNCHANGED <<work, snap, todo, view, handled>>
        /\ fd \in Clients /\ fd \notin lost \cup behind
    BY <1>2 DEF RadioEvent, Goto, clientVars, orderVars, Clients
  <2>2. CASE Closing(fd)
    BY <2>1, <2>2 DEF Arriving, Closing
  <2>3. state'[f] = state[f] \/ Coming("sys_evt", fd, f)'
    <3>1. CASE f = "radio"
      BY <2>1, <3>1 DEF TypeOK, Coming, ToOneClient, Tasks
    <3>2. CASE f # "radio"
      BY <1>2, <3>2, SetFacts DEF RadioEvent, TypeOK, Fields, Announced
    <3>. QED BY <3>1, <3>2
  <2>4. "sys_evt" \in Tasks
    BY DEF Tasks
  <2>. QED BY <1>0, <1>1, <2>1, <2>2, <2>3, <2>4, StartArrives
<1>3. CASE Command
  <2>1. /\ pc["httpd"] = "idle" /\ pc' = [pc EXCEPT !["httpd"] = "copy"]
        /\ handled' = [kind |-> "command", fd |-> NoFd]
    BY <1>3 DEF Command, Goto
  <2>2. Coming("httpd", fd, f)'
    BY <2>1 DEF TypeOK, Coming, ToOneClient, Tasks
  <2>. QED BY <2>2 DEF Arriving, Tasks
<1>4. CASE Deliver
  <2>1. /\ fd \in Clients /\ fd \notin lost \cup behind
        /\ UNCHANGED <<state, pc, snap, todo, handled>>
    BY <1>4 DEF Deliver, Clients, orderVars
  <2>2. Final(fd)' \subseteq Final(fd)
    BY <1>4, <2>1, FinalDeliver
  <2>3. CASE Current(fd, f)
    BY <2>1, <2>2, <2>3 DEF Arriving, Current
  <2>4. ASSUME NEW t \in Tasks, Coming(t, fd, f) PROVE Arriving(fd, f)'
    BY <2>1, <2>4 DEF Arriving, Coming, ToOneClient
  <2>5. CASE Closing(fd)
    BY <2>1, <2>5 DEF Arriving, Closing
  <2>. QED BY <1>1, <2>1, <2>3, <2>4, <2>5 DEF Arriving
<1>5. ASSUME NEW g \in Fds, Upgrade(g) PROVE Arriving(fd, f)'
  <2>1. fd \notin Clients /\ session' = [session EXCEPT ![g] = "websocket"]
    BY <1>5, UpgradeFacts
  <2>2. g = fd
    BY <1>0, <2>1 DEF Clients, TypeOK
  <2>3. /\ pc["httpd"] = "idle" /\ pc' = [pc EXCEPT !["httpd"] = "copy"]
        /\ handled' = [kind |-> "connect", fd |-> fd]
    BY <1>5, <2>2 DEF Upgrade, Goto
  <2>4. "httpd" \in Tasks /\ Coming("httpd", fd, f)'
    BY <2>3 DEF TypeOK, Coming, ToOneClient, Tasks
  <2>. QED BY <2>4 DEF Arriving
<1>6. ASSUME NEW g \in Fds, CloseFrame(g) \/ Close(g) PROVE Arriving(fd, f)'
  <2>1. /\ pc["httpd"] = "idle" /\ pc' = [pc EXCEPT !["httpd"] = "copy"]
        /\ \/ handled' = [kind |-> "command", fd |-> NoFd]
           \/ handled' = [kind |-> "close", fd |-> g]
    BY <1>6 DEF CloseFrame, Close, Goto
  <2>2. "httpd" \in Tasks
    BY DEF Tasks
  <2>3. CASE Closing(fd)'
    BY <2>3 DEF Arriving
  <2>4. CASE ~Closing(fd)'
    <3>1. Coming("httpd", fd, f)'
      BY <2>1, <2>2, <2>4 DEF TypeOK, Coming, ToOneClient, Closing
    <3>. QED BY <2>2, <3>1 DEF Arriving
  <2>. QED BY <2>3, <2>4
<1>7. ASSUME NEW t \in Tasks, Copy(t) \/ List(t) PROVE Arriving(fd, f)'
  <2>1. fd \in Clients /\ fd \notin lost \cup behind
    BY <1>7 DEF Copy, List, clientVars, orderVars, Clients
  <2>. QED BY <1>1, <1>7, <2>1, CopyListArrives
<1>8. ASSUME NEW t \in Tasks, Send(t) PROVE Arriving(fd, f)'
  <2>1. fd \in Clients /\ fd \notin lost
    <3>1. session' = session /\ lost \subseteq lost'
      BY <1>8, SendOrder
    <3>. QED BY <3>1 DEF Clients
  <2>. QED BY <1>1, <1>8, <2>1, SendArrives
<1>9. ASSUME NEW t \in Tasks, Done(t) PROVE Arriving(fd, f)'
  <2>1. /\ pc[t] = "send" /\ todo[t] = {} /\ pc' = [pc EXCEPT ![t] = "idle"]
        /\ snap' = [snap EXCEPT ![t] = Unset] /\ UNCHANGED <<state, work, todo>>
    BY <1>9 DEF Done, Goto
  <2>2. /\ fd \in Clients /\ fd \notin lost \cup behind /\ view'[fd] = view[fd]
        /\ handled' = handled \/ (t = "httpd" /\ ~Closing(fd))
    <3>1. CASE t = "httpd" /\ handled.kind = "close"
      <4>1. /\ session' = [session EXCEPT ![handled.fd] = "none"]
            /\ view' = [view EXCEPT ![handled.fd] = NoSnapshot]
            /\ lost' = lost \ {handled.fd} /\ behind' = behind \ {handled.fd}
        BY <1>9, <3>1 DEF Done, DeleteSession
      <4>2. fd # handled.fd
        BY <1>0, <4>1 DEF Clients, TypeOK
      <4>. QED BY <1>0, <3>1, <4>1, <4>2 DEF Clients, TypeOK, Closing
    <3>2. CASE t = "httpd" /\ handled.kind # "close"
      BY <1>9, <3>2 DEF Done, Clients, Closing
    <3>3. CASE t = "sys_evt"
      BY <1>9, <3>3 DEF Done, Clients
    <3>. QED BY <3>1, <3>2, <3>3 DEF Tasks
  <2>3. CASE Current(fd, f)
    BY <2>1, <2>2, <2>3, CurrentSame DEF Arriving
  <2>4. ASSUME NEW u \in Tasks, Coming(u, fd, f) PROVE Arriving(fd, f)'
    <3>1. u # t
      BY <2>1, <2>4 DEF Coming
    <3>2. u = "httpd" => handled' = handled
      BY <1>9, <3>1 DEF Done, Tasks
    <3>3. pc'[u] = pc[u] /\ snap'[u] = snap[u] /\ todo'[u] = todo[u]
      BY <2>1, <3>1 DEF TypeOK
    <3>4. Coming(u, fd, f)'
      BY <2>1, <2>4, <3>2, <3>3 DEF Coming, ToOneClient
    <3>. QED BY <3>4 DEF Arriving
  <2>5. CASE Closing(fd)
    BY <2>2, <2>5 DEF Arriving, Closing
  <2>. QED BY <1>1, <2>2, <2>3, <2>4, <2>5 DEF Arriving
<1>10. CASE UNCHANGED vars
  <2>1. /\ fd \in Clients /\ fd \notin lost \cup behind
        /\ UNCHANGED <<state, work, pc, snap, todo, handled, view>>
    BY <1>10 DEF vars, Clients
  <2>. QED BY <1>1, <2>1, CurrentSame DEF Arriving, Coming, Closing, ToOneClient
<1>. QED
  BY <1>2, <1>3, <1>4, <1>5, <1>6, <1>7, <1>8, <1>9, <1>10 DEF Next, TaskStep

(* A client that is behind is old in the end, until another task sends.    *)
LEMMA BehindStep ==
    TypeOK /\ NotAhead /\ OvertakenIsOld /\ BehindIsOld /\ [Next]_vars => BehindIsOld'
<1>. DEFINE Old(s) == s = NoSnapshot \/ \E f \in Fields : s[f] < state[f]
<1>. SUFFICES ASSUME TypeOK, NotAhead, OvertakenIsOld, BehindIsOld, [Next]_vars,
                     NEW fd \in behind'
              PROVE  fd \in Clients' /\ (fd \in lost' \/ \A s \in Final(fd)' : Old(s)')
  BY DEF BehindIsOld
<1>0. /\ fd \in Fds
      /\ \A f \in Fields : state[f] \in Nat /\ state'[f] \in Nat /\ state[f] <= state'[f]
      /\ \A f \in Fields, t \in Tasks : snap[t][f] \in Nat
  BY TypeStep, StateGrows DEF TypeOK, Snapshot
<1>1. fd \in behind => fd \in Clients /\ (fd \in lost \/ \A s \in Final(fd) : Old(s))
  BY DEF BehindIsOld
<1>2. Final(fd) \subseteq Snapshot \cup {NoSnapshot}
  <2>0. work \in Seq(Work)
    BY DEF TypeOK, Work
  <2>1. \A k \in 1..Len(work) : work[k] \in Work
    BY <2>0
  <2>2. view[fd] \in Snapshot \cup {NoSnapshot}
    BY <1>0 DEF TypeOK
  <2>. QED BY <2>1, <2>2 DEF Final, Work
<1>3. \A s \in Final(fd) : Old(s) => Old(s)'
  <2>. SUFFICES ASSUME NEW s \in Final(fd), Old(s) PROVE Old(s)'
    OBVIOUS
  <2>1. CASE s = NoSnapshot
    BY <2>1
  <2>2. CASE s # NoSnapshot
    <3>1. s \in Snapshot
      BY <1>2, <2>2
    <3>2. PICK f \in Fields : s[f] < state[f]
      BY <2>2
    <3>3. s[f] \in Nat
      BY <3>1 DEF Snapshot
    <3>4. s[f] < state'[f]
      BY <1>0, <3>2, <3>3
    <3>. QED BY <3>4
  <2>. QED BY <2>1, <2>2
<1>. HIDE DEF Old
<1>4. ASSUME fd \in behind, fd \in Clients', lost \subseteq lost', Final(fd)' \subseteq Final(fd)
      PROVE  fd \in Clients' /\ (fd \in lost' \/ \A s \in Final(fd)' : Old(s)')
  BY <1>1, <1>3, <1>4
<1>5. CASE RadioEvent \/ Command \/ \E g \in Fds : Upgrade(g) \/ CloseFrame(g) \/ Close(g)
  <2>0. UNCHANGED <<work, view, lost>>
    BY <1>5, Starts
  <2>1. CASE UNCHANGED <<behind, session>>
    BY <1>1, <1>4, <2>0, <2>1, FinalSame DEF Clients
  <2>2. ASSUME NEW g \in Fds, Upgrade(g)
        PROVE  fd \in Clients' /\ (fd \in lost' \/ \A s \in Final(fd)' : Old(s)')
    <3>1. /\ behind' = behind \cup Clients /\ session' = [session EXCEPT ![g] = "websocket"]
          /\ state["clients"] \in Nat /\ state'["clients"] = state["clients"] + 1
      BY <2>2, UpgradeFacts
    <3>2. fd \in Clients /\ fd \in Clients'
      BY <1>0, <1>1, <3>1 DEF Clients, TypeOK
    <3>3. \A s \in Final(fd) : s # NoSnapshot => s["clients"] \in Nat /\ s["clients"] <= state["clients"]
      <4>1. ASSUME NEW s \in Final(fd), s # NoSnapshot PROVE s["clients"] <= state["clients"]
        <5>1. "clients" \in Fields
          BY DEF Fields
        <5>2. \/ s = view[fd]
              \/ \E k \in 1..Len(work) : s = work[k].snapshot
          BY DEF Final
        <5>. QED BY <1>0, <4>1, <5>1, <5>2 DEF NotAhead
      <4>2. \A s \in Final(fd) : s # NoSnapshot => s["clients"] \in Nat
        BY <1>2 DEF Snapshot, Fields
      <4>. QED BY <4>1, <4>2
    <3>4. \A s \in Final(fd) : s # NoSnapshot => s["clients"] < state'["clients"]
      BY <3>1, <3>3
    <3>5. \A s \in Final(fd) : Old(s)'
      BY <3>4 DEF Old, Fields
    <3>6. Final(fd)' = Final(fd)
      BY <2>0, FinalSame
    <3>. QED BY <3>2, <3>5, <3>6
  <2>. QED BY <1>5, <2>1, <2>2, Starts
<1>6. CASE Deliver
  <2>1. fd \in behind /\ fd \in Clients' /\ lost \subseteq lost' /\ fd \in Clients
    BY <1>1, <1>6 DEF Deliver, Clients, orderVars
  <2>2. CASE fd \in lost'
    BY <2>1, <2>2
  <2>3. CASE fd \notin lost'
    BY <1>4, <1>6, <2>1, <2>3, FinalDeliver
  <2>. QED BY <2>2, <2>3
<1>7. ASSUME NEW t \in Tasks, Copy(t) \/ List(t)
      PROVE  fd \in Clients' /\ (fd \in lost' \/ \A s \in Final(fd)' : Old(s)')
  <2>1. UNCHANGED <<work, view, lost, behind, session>>
    BY <1>7 DEF Copy, List, clientVars, orderVars
  <2>. QED BY <1>1, <1>4, <2>1, FinalSame DEF Clients
<1>8. ASSUME NEW t \in Tasks, Send(t)
      PROVE  fd \in Clients' /\ (fd \in lost' \/ \A s \in Final(fd)' : Old(s)')
  <2>0. /\ state' = state /\ view' = view /\ session' = session /\ snap[t] \in Snapshot
        /\ Clients' = Clients
    BY <1>8, SendOrder DEF Clients
  <2>1. PICK g \in todo[t] :
           /\ g \in Fds
           /\ todo' = [todo EXCEPT ![t] = @ \ {g}]
           /\ behind' = IF t \in overtaken THEN behind \cup ({g} \cap Clients)
                                           ELSE behind \ {g}
           /\ \/ g \in Clients /\ work' = Append(work, [fd |-> g, snapshot |-> snap[t]])
                 /\ lost' = lost
              \/ work' = work /\ lost' = lost \cup {g}
              \/ g \notin Clients /\ work' = work /\ lost' = lost
    BY <1>8, SendOrder
  <2>2. fd \in Clients /\ lost \subseteq lost'
    BY <1>1, <2>1
  <2>3. CASE work' = work
    <3>1. fd \in behind \/ fd \in lost'
      BY <2>1, <2>3
    <3>. QED BY <1>4, <2>0, <2>2, <2>3, <3>1, FinalSame
  <2>4. CASE work' = Append(work, [fd |-> g, snapshot |-> snap[t]]) /\ g # fd
    <3>1. Final(fd)' \subseteq Final(fd) /\ fd \in behind
      BY <2>0, <2>1, <2>4, FinalAppend
    <3>. QED BY <1>4, <2>0, <2>2, <3>1
  <2>5. CASE work' = Append(work, [fd |-> g, snapshot |-> snap[t]]) /\ g = fd
    <3>1. t \in overtaken
      BY <2>1, <2>5
    <3>2. \A s \in Final(fd)' : s = snap[t]
      BY <2>0, <2>1, <2>5, FinalAppend
    <3>4. PICK f \in Fields : snap[t][f] < state'[f]
      BY <2>0, <3>1 DEF OvertakenIsOld
    <3>5. \A s \in Final(fd)' : Old(s)'
      <4>. SUFFICES ASSUME NEW s \in Final(fd)' PROVE Old(s)'
        OBVIOUS
      <4>1. s = snap[t]
        BY <3>2
      <4>. QED BY <3>4, <4>1 DEF Old
    <3>. QED BY <2>0, <2>2, <3>5
  <2>. QED BY <2>1, <2>3, <2>4, <2>5
<1>9. ASSUME NEW t \in Tasks, Done(t)
      PROVE  fd \in Clients' /\ (fd \in lost' \/ \A s \in Final(fd)' : Old(s)')
  <2>1. CASE t = "httpd" /\ handled.kind = "close"
    <3>1. /\ session' = [session EXCEPT ![handled.fd] = "none"]
          /\ view' = [view EXCEPT ![handled.fd] = NoSnapshot]
          /\ lost' = lost \ {handled.fd} /\ behind' = behind \ {handled.fd}
          /\ work' = work
      BY <1>9, <2>1 DEF Done, DeleteSession
    <3>2. fd # handled.fd /\ fd \in behind
      BY <3>1
    <3>3. view'[fd] = view[fd] /\ (fd \in Clients => fd \in Clients')
          /\ (fd \in lost => fd \in lost')
      BY <1>0, <3>1, <3>2 DEF Clients, TypeOK
    <3>. QED BY <1>1, <1>3, <3>1, <3>2, <3>3, FinalSame
  <2>2. CASE ~(t = "httpd" /\ handled.kind = "close")
    <3>1. UNCHANGED <<work, view, lost, behind, session>>
      BY <1>9, <2>2 DEF Done
    <3>. QED BY <1>1, <1>4, <3>1, FinalSame DEF Clients
  <2>. QED BY <2>1, <2>2
<1>10. CASE UNCHANGED vars
  <2>1. UNCHANGED <<work, view, lost, behind, session>>
    BY <1>10 DEF vars
  <2>. QED BY <1>1, <1>4, <2>1, FinalSame DEF Clients
<1>. QED
  BY <1>5, <1>6, <1>7, <1>8, <1>9, <1>10 DEF Next, TaskStep

----------------------------------------------------------------------------
(* The invariant holds initially.                                          *)
LEMMA InitInv == Init => Inv
<1>. SUFFICES ASSUME Init PROVE Inv
  OBVIOUS
<1>1. /\ Unset \in Snapshot /\ \A f \in Fields : Unset[f] = 0
      /\ Unseen \in [Announced -> Nat] /\ \A f \in Announced : Unseen[f] = 0
  BY DEF Unset, Unseen, Snapshot
<1>2. TypeOK
  <2>1. state \in Snapshot
    BY <1>1 DEF Init
  <2>2. work \in Seq([fd : Fds, snapshot : Snapshot]) /\ Len(work) <= MaxWork
    BY DEF Init
  <2>. HIDE DEF Unset, Unseen, NoSnapshot
  <2>. QED BY <1>1, <2>1, <2>2 DEF Init, TypeOK, Tasks
<1>3. NotAhead
  BY <1>1 DEF Init, NotAhead
<1>4. NoChangeMissed
  BY DEF Init, NoChangeMissed, Clients
<1>5. Ordered
  BY DEF Init, Ordered, OvertakenIsOld, OthersAreCurrent, FinalIsCurrent, BehindIsOld,
         Sending, Clients, Tasks
<1>. QED BY <1>2, <1>3, <1>4, <1>5 DEF Inv

(* Types, snapshots never ahead of the state, changes on their way to      *)
(* every client, and the order in which they are sent are inductive.       *)
THEOREM InvCorrect == Spec => []Inv
<1>1. Inv /\ [Next]_vars => Inv'
  BY TypeStep, NotAheadStep, NoChangeMissedStep, OvertakenStep, OthersStep, FinalStep,
     BehindStep DEF Inv, Ordered
<1>. QED BY <1>1, InitInv, PTL DEF Spec

(* Every variable keeps its kind.                                          *)
THEOREM TypeCorrect == Spec => []TypeOK
<1>1. Inv => TypeOK
  BY DEF Inv
<1>. QED BY <1>1, InvCorrect, PTL

(* Whatever the interleaving of the two tasks with connections, closes and *)
(* httpd's work, no change of the state passes a connected client by.      *)
THEOREM NoChangeMissedCorrect == Spec => []NoChangeMissed
<1>1. Inv => NoChangeMissed
  BY DEF Inv
<1>. QED BY <1>1, InvCorrect, PTL

(* The last snapshot of a client is old exactly if an overtaken task sent  *)
(* it or another client connected after it was queued: of all the          *)
(* interleavings of the two tasks with connections, closes and httpd's     *)
(* work, only these leave a client behind.                                 *)
THEOREM StaleIffOvertakenCorrect == Spec => []StaleIffOvertaken
<1>1. Inv => StaleIffOvertaken
  <2>. SUFFICES ASSUME Inv, Settled, NEW fd \in Clients \ lost
                PROVE  view[fd] = state <=> fd \notin behind
    BY DEF StaleIffOvertaken
  <2>1. TypeOK /\ work = << >> /\ handled = Idle /\ \A t \in Tasks : pc[t] = "idle"
    BY DEF Inv, Settled, TypeOK, Tasks
  <2>2. view[fd] \in Final(fd)
    BY <2>1 DEF Final, NoneAfter
  <2>3. state \in Snapshot /\ view[fd] \in Snapshot \cup {NoSnapshot}
    BY <2>1 DEF TypeOK, Clients
  <2>4. ASSUME fd \in behind PROVE view[fd] # state
    <3>1. view[fd] = NoSnapshot \/ \E f \in Fields : view[fd][f] < state[f]
      BY <2>2, <2>4 DEF Inv, Ordered, BehindIsOld
    <3>2. NoSnapshot # state
      BY <2>3, SnapshotIsSome
    <3>. QED BY <2>3, <3>1, <3>2 DEF Snapshot
  <2>5. ASSUME fd \notin behind PROVE view[fd] = state
    <3>1. ~Closing(fd)
      BY <2>1 DEF Closing, Idle
    <3>2. \A f \in Fields : view[fd] # NoSnapshot /\ view[fd][f] = state[f]
      BY <2>1, <2>2, <2>5, <3>1, IdleTask DEF Inv, Ordered, FinalIsCurrent
    <3>3. view[fd] \in Snapshot
      BY <2>3, <3>2 DEF Fields
    <3>. QED BY <2>3, <3>2, <3>3 DEF Snapshot
  <2>. QED BY <2>4, <2>5
<1>. QED BY <1>1, InvCorrect, PTL
=============================================================================
