-------------------------- MODULE KeepAliveWatched --------------------------
(***************************************************************************)
(* The proof that every open session is watched, as long as no call was    *)
(* refused and the table has a slot for every descriptor.                  *)
(***************************************************************************)
EXTENDS KeepAliveProofs, FiniteSetTheorems

USE KeepAliveAssumption

(* An open session has a slot that no queued Remove will take, or an Add   *)
(* behind every queued Remove.                                             *)
Watched(fd) ==
    session[fd] = "open" =>
        \/ \E j \in Queued(Add(fd)) : \A k \in Queued(Remove(fd)) : k < j
        \/ SlotsOf(fd) # {} /\ Queued(Remove(fd)) = {}

AllWatched == lost = {} => \A fd \in Fds : Watched(fd)

----------------------------------------------------------------------------
(* The table has room.                                                     *)

(* With no more descriptors than slots, at most one slot each and none for *)
(* fd, a slot is free.                                                     *)
LEMMA FreeSlotExists ==
    ASSUME TypeOK, IsFiniteSet(Fds), Cardinality(Fds) <= MaxClients,
           \A g \in Fds : OneSlot(g), NEW fd \in Fds, SlotsOf(fd) = {}
    PROVE  FreeSlots # {}
<1>. SUFFICES ASSUME FreeSlots = {} PROVE FALSE
  OBVIOUS
<1>1. clients \in [Slots -> Fds \ {fd}]
  BY DEF TypeOK, KATypeOK, FreeSlots, SlotsOf
<1>2. \A i, j \in Slots : clients[i] = clients[j] => i = j
  BY <1>1 DEF OneSlot, SlotsOf
<1>3. clients \in Injection(Slots, Fds \ {fd})
  BY <1>1, <1>2 DEF Injection, IsInjective
<1>4. /\ IsFiniteSet(Fds \ {fd})
      /\ Cardinality(Fds \ {fd}) = Cardinality(Fds) - 1
  BY FS_RemoveElement
<1>5. Cardinality(Slots) <= Cardinality(Fds \ {fd})
  BY <1>3, <1>4, FS_Injection
<1>6. Cardinality(Slots) = MaxClients
  BY FS_Interval DEF Slots
<1>7. Cardinality(Fds) \in Nat
  BY FS_CardinalityType
<1>. QED BY <1>4, <1>5, <1>6, <1>7

(* An Add that is handled gets its descriptor a slot.                      *)
LEMMA AddGetsSlot ==
    ASSUME TypeOK, Inv, lost = {}, IsFiniteSet(Fds), Cardinality(Fds) <= MaxClients,
           NEW fd \in Fds, Receive(Add(fd)), register_client(fd)
    PROVE  SlotsOf(fd)' # {}
<1>1. /\ 1 \in Queued(Add(fd))
      /\ Queued(Remove(fd)) \subseteq 1..Len(queue) /\ Len(queue) \in Nat
  BY ActionFacts, ReceiveQueued
<1>2. SlotsOf(fd) = {}
  <2>1. SlotBeforeAdd(fd)
    BY DEF Inv, Tracked
  <2>. QED BY <1>1, <2>1 DEF SlotBeforeAdd
<1>3. \A g \in Fds : OneSlot(g)
  BY DEF Inv, Tracked
<1>4. FreeSlots # {}
  BY <1>2, <1>3, FreeSlotExists
<1>5. PICK i \in FreeSlots : clients' = [clients EXCEPT ![i] = fd]
  BY <1>4 DEF register_client
<1>6. i \in SlotsOf(fd)'
  BY <1>5 DEF FreeSlots, SlotsOf, TypeOK, KATypeOK
<1>. QED BY <1>6

----------------------------------------------------------------------------
(* The steps and one descriptor.                                           *)

(* A step that leaves the actions and the slots of fd alone.               *)
LEMMA WatchedUnchanged ==
    ASSUME NEW fd \in Fds, Watched(fd),
           session'[fd] = "open" => session[fd] = "open",
           Queued(Add(fd))' = Queued(Add(fd)), Queued(Remove(fd))' = Queued(Remove(fd)),
           SlotsOf(fd)' = SlotsOf(fd)
    PROVE  Watched(fd)'
  BY DEF Watched

(* A call about another descriptor.                                        *)
LEMMA OtherCallWatched ==
    ASSUME TypeOK, NEW fd \in Fds, Watched(fd), NEW g \in Fds, g # fd,
           NEW action \in {Add(g), Remove(g)}, Send(action),
           UNCHANGED clients, session'[fd] = session[fd]
    PROVE  Watched(fd)'
<1>1. /\ Queued(Add(fd))' = Queued(Add(fd))
      /\ Queued(Remove(fd))' = Queued(Remove(fd))
  <2>1. action \in Actions /\ action # Add(fd) /\ action # Remove(fd)
    BY ActionFacts
  <2>. QED BY <2>1, ActionFacts, SendQueued
<1>. QED BY <1>1, WatchedUnchanged DEF SlotsOf

(* Connect: the Add goes behind every queued Remove.                       *)
LEMMA ConnectWatched ==
    ASSUME TypeOK, NEW fd \in Fds, Connect(fd), lost' = {}
    PROVE  Watched(fd)'
<1>1. ~QueueFull
  BY DEF Connect, NoteLost
<1>2. /\ Queued(Remove(fd)) \subseteq 1..Len(queue) /\ Len(queue) \in Nat
      /\ Len(queue) + 1 \in Queued(Add(fd))'
      /\ Queued(Remove(fd))' = Queued(Remove(fd))
  BY <1>1, ActionFacts, SendQueued DEF Connect, wss_keep_alive_add_client
<1>3. \A k \in Queued(Remove(fd))' : k < Len(queue) + 1
  BY <1>2
<1>. QED BY <1>2, <1>3 DEF Watched

(* An action handled that is neither an Add nor a Remove of fd.            *)
LEMMA ReceiveWatched ==
    ASSUME TypeOK, NEW fd \in Fds, Watched(fd),
           NEW action \in Actions, Receive(action),
           action # Add(fd), action # Remove(fd),
           SlotsOf(fd)' = SlotsOf(fd), session' = session
    PROVE  Watched(fd)'
<1>1. /\ Queued(Add(fd)) \subseteq 1..Len(queue) /\ Len(queue) \in Nat
      /\ 1 \notin Queued(Add(fd))
      /\ \A k \in Queued(Add(fd)) : k > 1 => k - 1 \in Queued(Add(fd))'
      /\ \A k \in Queued(Remove(fd))' : k \in Nat /\ k + 1 \in Queued(Remove(fd))
  BY ActionFacts, ReceiveQueued
<1>. SUFFICES ASSUME session[fd] = "open" PROVE Watched(fd)'
  BY DEF Watched
<1>2. CASE \E j \in Queued(Add(fd)) : \A k \in Queued(Remove(fd)) : k < j
  <2>1. PICK j \in Queued(Add(fd)) : \A k \in Queued(Remove(fd)) : k < j
    BY <1>2
  <2>2. j - 1 \in Queued(Add(fd))' /\ j \in Nat
    BY <1>1
  <2>3. \A k \in Queued(Remove(fd))' : k < j - 1
    BY <1>1, <2>1, <2>2
  <2>. QED BY <2>2, <2>3 DEF Watched
<1>3. CASE SlotsOf(fd) # {} /\ Queued(Remove(fd)) = {}
  BY <1>1, <1>3 DEF Watched
<1>. QED BY <1>2, <1>3 DEF Watched

(* The Add of fd handled: with no Remove queued its slot stays.            *)
LEMMA AddWatched ==
    ASSUME TypeOK, NEW fd \in Fds, Watched(fd), Receive(Add(fd)),
           SlotsOf(fd)' # {}, session' = session
    PROVE  Watched(fd)'
<1>1. /\ Queued(Add(fd)) \subseteq 1..Len(queue) /\ Len(queue) \in Nat
      /\ \A k \in Queued(Add(fd)) : k > 1 => k - 1 \in Queued(Add(fd))'
      /\ \A k \in Queued(Remove(fd))' : /\ k \in Nat /\ k >= 1
                                        /\ k + 1 \in Queued(Remove(fd))
  BY ActionFacts, ReceiveQueued
<1>. SUFFICES ASSUME session[fd] = "open" PROVE Watched(fd)'
  BY DEF Watched
<1>2. CASE \E j \in Queued(Add(fd)) : \A k \in Queued(Remove(fd)) : k < j
  <2>1. PICK j \in Queued(Add(fd)) : \A k \in Queued(Remove(fd)) : k < j
    BY <1>2
  <2>2. \A k \in Queued(Remove(fd))' : k < j - 1 /\ j > 1
    BY <1>1, <2>1
  <2>3. CASE j > 1
    <3>1. j - 1 \in Queued(Add(fd))'
      BY <1>1, <2>3
    <3>. QED BY <2>2, <3>1 DEF Watched
  <2>4. CASE ~(j > 1)
    BY <2>2, <2>4 DEF Watched
  <2>. QED BY <2>3, <2>4
<1>3. CASE SlotsOf(fd) # {} /\ Queued(Remove(fd)) = {}
  BY <1>1, <1>3 DEF Watched
<1>. QED BY <1>2, <1>3 DEF Watched

(* A Remove of fd handled: the Add of an open session is behind it.        *)
LEMMA RemoveWatched ==
    ASSUME TypeOK, NEW fd \in Fds, Watched(fd), Receive(Remove(fd)), session' = session
    PROVE  Watched(fd)'
<1>1. /\ Queued(Add(fd)) \subseteq 1..Len(queue) /\ Len(queue) \in Nat
      /\ 1 \in Queued(Remove(fd))
      /\ \A k \in Queued(Add(fd)) : k > 1 => k - 1 \in Queued(Add(fd))'
      /\ \A k \in Queued(Remove(fd))' : k \in Nat /\ k + 1 \in Queued(Remove(fd))
  BY ActionFacts, ReceiveQueued
<1>. SUFFICES ASSUME session[fd] = "open" PROVE Watched(fd)'
  BY DEF Watched
<1>2. PICK j \in Queued(Add(fd)) : \A k \in Queued(Remove(fd)) : k < j
  BY <1>1 DEF Watched
<1>3. j \in Nat /\ j > 1
  BY <1>1, <1>2
<1>4. j - 1 \in Queued(Add(fd))'
  BY <1>1, <1>3
<1>5. \A k \in Queued(Remove(fd))' : k < j - 1
  BY <1>1, <1>2, <1>3
<1>. QED BY <1>4, <1>5 DEF Watched

----------------------------------------------------------------------------
(* Every step keeps open sessions watched.                                 *)
LEMMA WatchedStep ==
    ASSUME TypeOK, Inv, IsFiniteSet(Fds), Cardinality(Fds) <= MaxClients,
           AllWatched, [Next]_vars, lost' = {}, NEW fd \in Fds
    PROVE  Watched(fd)'
<1>0. lost = {} /\ Watched(fd)
  <2>1. lost \subseteq lost'
    BY DEF Next, vars, sessionVars, Connect, Frame, CloseFrame, OnClientClose, NoteLost,
           StopServer, Task, Time, TypeOK
  <2>. QED BY <2>1 DEF AllWatched
<1>1. ASSUME NEW g \in Fds, Connect(g) PROVE Watched(fd)'
  <2>1. CASE g = fd
    BY <1>1, <2>1, ConnectWatched
  <2>2. CASE g # fd
    BY <1>0, <1>1, <2>2, OtherCallWatched
       DEF Connect, Called, wss_keep_alive_add_client, tableVars, TypeOK
  <2>. QED BY <2>1, <2>2
<1>2. ASSUME NEW g \in Fds, Frame(g) PROVE Watched(fd)'
  <2>1. /\ Queued(Add(fd))' = Queued(Add(fd))
        /\ Queued(Remove(fd))' = Queued(Remove(fd))
    BY <1>2, ActionFacts, SendQueued DEF Frame, wss_keep_alive_client_is_active
  <2>. QED BY <1>0, <1>2, <2>1, WatchedUnchanged DEF Frame, Called, tableVars, SlotsOf
<1>3. ASSUME NEW g \in Fds, CloseFrame(g) \/ OnClientClose(g) PROVE Watched(fd)'
  <2>1. CASE g = fd
    <3>1. session'[fd] # "open"
      BY <1>3, <2>1 DEF CloseFrame, OnClientClose, TypeOK
    <3>. QED BY <3>1 DEF Watched
  <2>2. CASE g # fd
    BY <1>0, <1>3, <2>2, OtherCallWatched
       DEF CloseFrame, OnClientClose, Called, wss_keep_alive_remove_client, tableVars, TypeOK
  <2>. QED BY <2>1, <2>2
<1>4. CASE StopServer
  <2>1. session'[fd] # "open"
    BY <1>4 DEF StopServer
  <2>. QED BY <2>1 DEF Watched
<1>5. CASE Task
  <2>1. CASE (ComputeTimeout \/ ReceiveTimeout \/ SweepDone) /\ UNCHANGED session
    BY <1>0, <2>1, WatchedUnchanged
    DEF ComputeTimeout, ReceiveTimeout, SweepDone, tableVars, SlotsOf, Queued
  <2>2. CASE HandleAdd /\ UNCHANGED session
    <3>1. PICK g \in Fds : Receive(Add(g)) /\ register_client(g)
      BY <2>2 DEF HandleAdd
    <3>2. CASE g = fd
      BY <1>0, <2>2, <3>1, <3>2, AddGetsSlot, AddWatched
    <3>3. CASE g # fd
      <4>1. Add(g) \in Actions /\ Add(g) # Add(fd) /\ Add(g) # Remove(fd)
        BY <3>3, ActionFacts
      <4>2. SlotsOf(fd)' = SlotsOf(fd)
        <5>1. fd # NoClient
          OBVIOUS
        <5>. QED BY <3>1, <3>3, <5>1, TableEffect DEF SlotsOf, TypeOK, KATypeOK
      <4>. QED BY <1>0, <2>2, <3>1, <4>1, <4>2, ReceiveWatched
    <3>. QED BY <3>2, <3>3
  <2>3. CASE HandleRemove /\ UNCHANGED session
    <3>1. PICK g \in Fds : Receive(Remove(g)) /\ unregister_client(g)
      BY <2>3 DEF HandleRemove
    <3>2. CASE g = fd
      BY <1>0, <2>3, <3>1, <3>2, RemoveWatched
    <3>3. CASE g # fd
      <4>1. Remove(g) \in Actions /\ Remove(g) # Add(fd) /\ Remove(g) # Remove(fd)
        BY <3>3, ActionFacts
      <4>2. SlotsOf(fd)' = SlotsOf(fd)
        <5>1. fd # NoClient
          OBVIOUS
        <5>. QED BY <3>1, <3>3, <5>1, TableEffect DEF SlotsOf, TypeOK, KATypeOK
      <4>. QED BY <1>0, <2>3, <3>1, <4>1, <4>2, ReceiveWatched
    <3>. QED BY <3>2, <3>3
  <2>4. CASE HandleUpdate /\ UNCHANGED session
    <3>1. PICK g \in Fds : Receive(Update(g)) /\ refresh_client_status(g)
      BY <2>4 DEF HandleUpdate
    <3>2. Update(g) \in Actions /\ Update(g) # Add(fd) /\ Update(g) # Remove(fd)
      BY ActionFacts
    <3>3. SlotsOf(fd)' = SlotsOf(fd)
      BY <3>1 DEF refresh_client_status, SlotsOf
    <3>. QED BY <1>0, <2>4, <3>1, <3>2, <3>3, ReceiveWatched
  <2>5. CASE HandleStop /\ UNCHANGED session
    <3>1. StopTask \in Actions /\ StopTask # Add(fd) /\ StopTask # Remove(fd)
      BY ActionFacts
    <3>2. SlotsOf(fd)' = SlotsOf(fd)
      BY <2>5 DEF HandleStop, tableVars, SlotsOf
    <3>. QED BY <1>0, <2>5, <3>1, <3>2, ReceiveWatched DEF HandleStop
  <2>6. CASE Expire
    <3>1. PICK g \in Fds : ExpireClient(g) /\ client_not_alive_cb(g)
      BY <2>6 DEF Expire
    <3>2. PICK i \in overdue : /\ clients[i] = g
                               /\ clients' = [clients EXCEPT ![i] = NoClient]
                               /\ queue' = queue
      BY <3>1 DEF ExpireClient
    <3>3. CASE g = fd
      <4>1. session'[fd] # "open"
        BY <3>1, <3>3 DEF client_not_alive_cb, TypeOK
      <4>. QED BY <4>1 DEF Watched
    <3>4. CASE g # fd
      <4>1. session'[fd] = session[fd]
        BY <3>1, <3>4 DEF client_not_alive_cb, TypeOK
      <4>2. SlotsOf(fd)' = SlotsOf(fd)
        <5>1. fd # NoClient
          OBVIOUS
        <5>. QED BY <3>2, <3>4, <5>1 DEF SlotsOf, TypeOK, KATypeOK
      <4>. QED BY <1>0, <3>2, <4>1, <4>2, WatchedUnchanged DEF Queued
    <3>. QED BY <3>3, <3>4
  <2>7. CASE Ping
    BY <1>0, <2>7, WatchedUnchanged DEF Ping, PingClient, tableVars, SlotsOf, Queued
  <2>. QED BY <1>5, <2>1, <2>2, <2>3, <2>4, <2>5, <2>6, <2>7 DEF Task, TaskStep
<1>6. CASE Time
  BY <1>0, <1>6, WatchedUnchanged DEF Time, Tick, SlotsOf, Queued
<1>7. CASE UNCHANGED vars
  BY <1>0, <1>7, WatchedUnchanged DEF vars, kaVars, sessionVars, SlotsOf, Queued
<1>. QED BY <1>1, <1>2, <1>3, <1>4, <1>5, <1>6, <1>7 DEF Next

(* With no call refused, a session whose Add is no longer queued has a     *)
(* slot, for any number of slots no smaller than that of descriptors.      *)
THEOREM OpenIsWatchedCorrect ==
    ASSUME IsFiniteSet(Fds), Cardinality(Fds) <= MaxClients
    PROVE  Spec => []OpenIsWatched
<1>1. Init => AllWatched
  BY DEF Init, AllWatched, Watched
<1>2. TypeOK /\ Inv /\ AllWatched /\ [Next]_vars => AllWatched'
  <2>. SUFFICES ASSUME TypeOK, Inv, AllWatched, [Next]_vars, lost' = {},
                       NEW fd \in Fds
                PROVE  Watched(fd)'
    BY DEF AllWatched
  <2>. QED BY WatchedStep
<1>3. TypeOK /\ AllWatched => OpenIsWatched
  <2>. SUFFICES ASSUME TypeOK, AllWatched, NEW fd \in Fds,
                       lost = {}, session[fd] = "open", ~Pending(fd)
                PROVE  SlotsOf(fd) # {}
    BY DEF OpenIsWatched
  <2>1. Queued(Add(fd)) = {}
    BY DEF Pending, Queued
  <2>. QED BY <2>1 DEF AllWatched, Watched
<1>. QED BY <1>1, <1>2, <1>3, TypeCorrect, InvCorrect, PTL DEF Spec
=============================================================================
