------------------------ MODULE ServerLifecycleProofs ------------------------
(***************************************************************************)
(* ServerIsWhole, NoTaskForgotten and OnlyRiskyStopsFault hold of          *)
(* ServerLifecycle for any number of starts, sessions and events.  What    *)
(* makes them inductive is what the two handles and the objects are at     *)
(* each step of sys_evt (Start..., Stop...), and that as long as nothing   *)
(* risky has happened only the server that runs is used by anybody         *)
(* (UsedBy...).  ServerFollowsAp rests on the order in which the access    *)
(* point's events are posted and handled (FollowInv).                      *)
(***************************************************************************)
EXTENDS ServerLifecycle, TLAPS

StartSteps == {"start keep-alive", "start httpd", "register", "set context"}

(* Generations to come.                                                    *)
Unborn(g) ==
    /\ httpd[g] = "none" /\ sessions[g] = 0 /\ storage[g] = "none"
    /\ stop[g] = "no" /\ ctx[g] = None

Fresh ==
    /\ \A g \in Generations : g > gen => Unborn(g)
    /\ pc = "start keep-alive" => gen \in Generations /\ Unborn(gen)
    /\ pc = "start httpd" =>
          /\ gen \in Generations
          /\ httpd[gen] = "none" /\ sessions[gen] = 0 /\ ctx[gen] = None

(* The handles and what they name.                                         *)
ServerHandle ==
    /\ server # None =>
          /\ server = gen /\ httpd[gen] \in {"started", "serving"} /\ handlers
          /\ pc \in {"idle", "register", "set context"}
    /\ pc \in {"register", "set context"} => server # None
    /\ pc \in {"start keep-alive", "start httpd"} => server = None /\ handlers
    /\ pc \in StopSteps => server = None /\ gen \in Generations
    /\ pc \in StopSteps \ {"clear handlers"} => Running(gen)

KeepAliveHandle ==
    /\ keep_alive # None =>
          /\ keep_alive = gen /\ gen \in Generations
          /\ pc # "forget keep-alive" => Live(gen) /\ stop[gen] = "no"
    /\ pc = "idle" /\ fault = None => (server # None <=> keep_alive # None)
    /\ pc = "idle" /\ server # None /\ fault = None => ctx[gen] = gen
    /\ pc = "stop keep-alive" => keep_alive # None
    /\ pc = "forget keep-alive" => keep_alive # None /\ stop[gen] # "no"
    /\ pc \in {"start keep-alive", "stop httpd", "await httpd", "clear handlers"}
          => keep_alive = None
    /\ pc \in StartSteps \ {"start keep-alive"} /\ keep_alive = None => risky

Objects ==
    \A g \in Generations :
        /\ ctx[g] \in {None, g}
        /\ stop[g] = "no" => storage[g] # "freed"
        /\ stop[g] # "no" => storage[g] # "none"

(* As long as nothing risky has happened.                                  *)
UsedBySessions ==
    \A g \in Generations : Running(g) /\ sessions[g] > 0 => server = g

UsedBySweeps ==
    \A g \in Generations : storage[g] = "sweeping" => server = g

UsedByWork ==
    \A g \in Generations : \A h \in work[g] : h = g

UsedBySender ==
    /\ sender # "idle" => server # None
    /\ sender \in {"in list", "in info", "in queue"} => loaded = server
    /\ sender \in {"queue", "in queue"} => handle = server

Safe == risky \/ (UsedBySessions /\ UsedBySweeps /\ UsedByWork /\ UsedBySender)

Inv ==
    /\ TypeOK
    /\ Fresh
    /\ ServerHandle
    /\ KeepAliveHandle
    /\ Objects
    /\ NoTaskForgotten
    /\ Safe
    /\ OnlyRiskyStopsFault

----------------------------------------------------------------------------
(* The queue of the event loop.                                            *)

LEMMA PostTypes ==
    ASSUME ApTypeOK, NEW e \in {"START", "STOP"}, Post(e)
    PROVE  /\ events' \in Seq({"START", "STOP"}) /\ Len(events') <= MaxEvents
           /\ missed' \in BOOLEAN
<1>1. CASE Len(events) < MaxEvents
  <2>1. events' = Append(events, e) /\ missed' = missed  BY <1>1 DEF Post
  <2>2. Append(events, e) \in Seq({"START", "STOP"})  BY DEF ApTypeOK
  <2>3. Len(Append(events, e)) = Len(events) + 1 /\ Len(events) \in Nat  BY DEF ApTypeOK
  <2>. QED  BY <1>1, <2>1, <2>2, <2>3, LifecycleAssumption DEF ApTypeOK
<1>2. CASE ~(Len(events) < MaxEvents)
  <2>1. events' = events /\ missed' = TRUE  BY <1>2 DEF Post
  <2>. QED  BY <2>1 DEF ApTypeOK
<1>. QED  BY <1>1, <1>2

LEMMA HandlesTypes ==
    ASSUME ApTypeOK, NEW e, Handles(e)
    PROVE  ApTypeOK'
<1>1. events' = Tail(events) /\ ap' = ap /\ missed' = missed  BY DEF Handles
<1>2. events \in Seq({"START", "STOP"}) /\ events # << >>  BY DEF ApTypeOK, Handles
<1>3. Tail(events) \in Seq({"START", "STOP"}) /\ Len(Tail(events)) = Len(events) - 1
  BY <1>2
<1>4. Len(events) \in Nat  BY <1>2
<1>. QED  BY <1>1, <1>3, <1>4, LifecycleAssumption DEF ApTypeOK

LEMMA GenerationFacts == None \notin Generations /\ Generations \subseteq Nat
BY LifecycleAssumption DEF Generations

LEMMA GenType ==
    ASSUME Inv
    PROVE  gen \in Nat /\ gen <= MaxStarts
<1>1. gen \in 0..MaxStarts  BY DEF Inv, TypeOK, SysTypeOK
<1>2. MaxStarts \in Nat  BY LifecycleAssumption
<1>. QED  BY <1>1, <1>2

----------------------------------------------------------------------------
(* A part of the invariant holds as long as its variables do not change.   *)

LEMMA ApTypeOKSame ==
    ASSUME ApTypeOK, UNCHANGED <<ap, events, missed>>
    PROVE  ApTypeOK'
BY DEF ApTypeOK

LEMMA SysTypeOKSame ==
    ASSUME SysTypeOK, UNCHANGED <<pc, gen, server, keep_alive, handlers,
         startFailed, stopFailed>>
    PROVE  SysTypeOK'
BY DEF SysTypeOK, StopSteps, Generations

LEMMA HttpdTypeOKSame ==
    ASSUME HttpdTypeOK, UNCHANGED <<httpd, sessions, work>>
    PROVE  HttpdTypeOK'
BY DEF HttpdTypeOK

LEMMA TaskTypeOKSame ==
    ASSUME TaskTypeOK, UNCHANGED <<storage, watched, ctx, stop>>
    PROVE  TaskTypeOK'
BY DEF TaskTypeOK

LEMMA SendTypeOKSame ==
    ASSUME SendTypeOK, UNCHANGED <<sender, loaded, handle>>
    PROVE  SendTypeOK'
BY DEF SendTypeOK

LEMMA HistoryTypeOKSame ==
    ASSUME HistoryTypeOK, UNCHANGED <<fault, risky>>
    PROVE  HistoryTypeOK'
BY DEF HistoryTypeOK, Faults

LEMMA FreshSame ==
    ASSUME Fresh, UNCHANGED <<gen, pc, httpd, sessions, storage, stop, ctx>>
    PROVE  Fresh'
BY DEF Fresh, Unborn

LEMMA ServerHandleSame ==
    ASSUME ServerHandle, UNCHANGED <<server, gen, httpd, handlers, pc>>
    PROVE  ServerHandle'
BY DEF ServerHandle, StopSteps, Running

LEMMA KeepAliveHandleSame ==
    ASSUME KeepAliveHandle, UNCHANGED <<keep_alive, gen, pc, storage, stop,
         fault, server, ctx, risky>>
    PROVE  KeepAliveHandle'
BY DEF KeepAliveHandle, Live, StartSteps

LEMMA ObjectsSame ==
    ASSUME Objects, UNCHANGED <<ctx, stop, storage>>
    PROVE  Objects'
BY DEF Objects

LEMMA NoTaskForgottenSame ==
    ASSUME NoTaskForgotten, UNCHANGED <<storage, keep_alive, stop>>
    PROVE  NoTaskForgotten'
BY DEF NoTaskForgotten, Live

LEMMA SafeSame ==
    ASSUME Safe, UNCHANGED <<risky, httpd, sessions, server, storage, work,
         sender, loaded, handle>>
    PROVE  Safe'
BY DEF Safe, UsedBySessions, UsedBySweeps, UsedByWork, UsedBySender, Running

LEMMA OnlyRiskyStopsFaultSame ==
    ASSUME OnlyRiskyStopsFault, UNCHANGED <<fault, risky>>,
           fault = None \/ UNCHANGED <<httpd, storage>>
    PROVE  OnlyRiskyStopsFault'
BY DEF OnlyRiskyStopsFault, Released, Live

----------------------------------------------------------------------------
LEMMA ApStartsInv ==
    ASSUME Inv, fault = None, ApStarts
    PROVE  Inv'
<1>1. SysTypeOK'
  BY SysTypeOKSame DEF Inv, TypeOK, ApStarts, Post, sysVars
<1>2. HttpdTypeOK'
  BY HttpdTypeOKSame DEF Inv, TypeOK, ApStarts, Post, httpdVars
<1>3. TaskTypeOK'
  BY TaskTypeOKSame DEF Inv, TypeOK, ApStarts, Post, taskVars
<1>4. SendTypeOK'
  BY SendTypeOKSame DEF Inv, TypeOK, ApStarts, Post, sendVars
<1>5. HistoryTypeOK'
  BY HistoryTypeOKSame DEF Inv, TypeOK, ApStarts, Post
<1>6. Fresh'
  BY FreshSame DEF Inv, ApStarts, Post, sysVars, httpdVars, taskVars
<1>7. ServerHandle'
  BY ServerHandleSame DEF Inv, ApStarts, Post, sysVars, httpdVars
<1>8. KeepAliveHandle'
  BY KeepAliveHandleSame DEF Inv, ApStarts, Post, sysVars, taskVars
<1>9. Objects'
  BY ObjectsSame DEF Inv, ApStarts, Post, taskVars
<1>10. NoTaskForgotten'
  BY NoTaskForgottenSame DEF Inv, ApStarts, Post, sysVars, taskVars
<1>11. Safe'
  BY SafeSame DEF Inv, ApStarts, Post, sysVars, httpdVars, taskVars, sendVars
<1>12. OnlyRiskyStopsFault'
  BY OnlyRiskyStopsFaultSame DEF Inv, ApStarts, Post
<1>13. ApTypeOK'
  <2>1. ApTypeOK /\ ap' \in BOOLEAN  BY DEF Inv, TypeOK, ApStarts
  <2>2. Post("START")  BY DEF ApStarts
  <2>. QED  BY <2>1, <2>2, PostTypes DEF ApTypeOK
<1>. QED  BY <1>1, <1>2, <1>3, <1>4, <1>5, <1>6, <1>7, <1>8, <1>9, <1>10,
         <1>11, <1>12, <1>13 DEF Inv, TypeOK

LEMMA ApStopsInv ==
    ASSUME Inv, fault = None, ApStops
    PROVE  Inv'
<1>1. SysTypeOK'
  BY SysTypeOKSame DEF Inv, TypeOK, ApStops, Post, sysVars
<1>2. HttpdTypeOK'
  BY HttpdTypeOKSame DEF Inv, TypeOK, ApStops, Post, httpdVars
<1>3. TaskTypeOK'
  BY TaskTypeOKSame DEF Inv, TypeOK, ApStops, Post, taskVars
<1>4. SendTypeOK'
  BY SendTypeOKSame DEF Inv, TypeOK, ApStops, Post, sendVars
<1>5. HistoryTypeOK'
  BY HistoryTypeOKSame DEF Inv, TypeOK, ApStops, Post
<1>6. Fresh'
  BY FreshSame DEF Inv, ApStops, Post, sysVars, httpdVars, taskVars
<1>7. ServerHandle'
  BY ServerHandleSame DEF Inv, ApStops, Post, sysVars, httpdVars
<1>8. KeepAliveHandle'
  BY KeepAliveHandleSame DEF Inv, ApStops, Post, sysVars, taskVars
<1>9. Objects'
  BY ObjectsSame DEF Inv, ApStops, Post, taskVars
<1>10. NoTaskForgotten'
  BY NoTaskForgottenSame DEF Inv, ApStops, Post, sysVars, taskVars
<1>11. Safe'
  BY SafeSame DEF Inv, ApStops, Post, sysVars, httpdVars, taskVars, sendVars
<1>12. OnlyRiskyStopsFault'
  BY OnlyRiskyStopsFaultSame DEF Inv, ApStops, Post
<1>13. ApTypeOK'
  <2>1. ApTypeOK /\ ap' \in BOOLEAN  BY DEF Inv, TypeOK, ApStops
  <2>2. Post("STOP")  BY DEF ApStops
  <2>. QED  BY <2>1, <2>2, PostTypes DEF ApTypeOK
<1>. QED  BY <1>1, <1>2, <1>3, <1>4, <1>5, <1>6, <1>7, <1>8, <1>9, <1>10,
         <1>11, <1>12, <1>13 DEF Inv, TypeOK

LEMMA StartIgnoredInv ==
    ASSUME Inv, fault = None, StartIgnored
    PROVE  Inv'
<1>1. SysTypeOK'
  BY SysTypeOKSame DEF Inv, TypeOK, StartIgnored, Handles, sysVars
<1>2. HttpdTypeOK'
  BY HttpdTypeOKSame DEF Inv, TypeOK, StartIgnored, Handles, httpdVars
<1>3. TaskTypeOK'
  BY TaskTypeOKSame DEF Inv, TypeOK, StartIgnored, Handles, taskVars
<1>4. SendTypeOK'
  BY SendTypeOKSame DEF Inv, TypeOK, StartIgnored, Handles, sendVars
<1>5. HistoryTypeOK'
  BY HistoryTypeOKSame DEF Inv, TypeOK, StartIgnored, Handles
<1>6. Fresh'
  BY FreshSame DEF Inv, StartIgnored, Handles, sysVars, httpdVars, taskVars
<1>7. ServerHandle'
  BY ServerHandleSame DEF Inv, StartIgnored, Handles, sysVars, httpdVars
<1>8. KeepAliveHandle'
  BY KeepAliveHandleSame DEF Inv, StartIgnored, Handles, sysVars, taskVars
<1>9. Objects'
  BY ObjectsSame DEF Inv, StartIgnored, Handles, taskVars
<1>10. NoTaskForgotten'
  BY NoTaskForgottenSame DEF Inv, StartIgnored, Handles, sysVars, taskVars
<1>11. Safe'
  BY SafeSame DEF Inv, StartIgnored, Handles, sysVars, httpdVars, taskVars,
         sendVars
<1>12. OnlyRiskyStopsFault'
  BY OnlyRiskyStopsFaultSame DEF Inv, StartIgnored, Handles
<1>13. ApTypeOK'
  BY HandlesTypes DEF Inv, TypeOK, StartIgnored
<1>. QED  BY <1>1, <1>2, <1>3, <1>4, <1>5, <1>6, <1>7, <1>8, <1>9, <1>10,
         <1>11, <1>12, <1>13 DEF Inv, TypeOK

LEMMA StartInv ==
    ASSUME Inv, fault = None, Start
    PROVE  Inv'
<1>1. HttpdTypeOK'
  BY HttpdTypeOKSame DEF Inv, TypeOK, Start, Handles, httpdVars
<1>2. TaskTypeOK'
  BY TaskTypeOKSame DEF Inv, TypeOK, Start, Handles, taskVars
<1>3. SendTypeOK'
  BY SendTypeOKSame DEF Inv, TypeOK, Start, Handles, sendVars
<1>4. HistoryTypeOK'
  BY HistoryTypeOKSame DEF Inv, TypeOK, Start, Handles
<1>5. Objects'
  BY ObjectsSame DEF Inv, Start, Handles, taskVars
<1>6. NoTaskForgotten'
  BY NoTaskForgottenSame DEF Inv, Start, Handles, sysVars, taskVars
<1>7. Safe'
  BY SafeSame DEF Inv, Start, Handles, sysVars, httpdVars, taskVars, sendVars
<1>8. OnlyRiskyStopsFault'
  BY OnlyRiskyStopsFaultSame DEF Inv, Start, Handles
<1>9. ApTypeOK'
  BY HandlesTypes DEF Inv, TypeOK, Start
<1>10. SysTypeOK'
  <2>1. gen' \in 0..MaxStarts
    <3>1. gen' = gen + 1 /\ gen < MaxStarts  BY DEF Start
    <3>. QED  BY <3>1, GenType, LifecycleAssumption
  <2>2. pc' = "start keep-alive" /\ handlers' = TRUE
    BY DEF Start
  <2>3. UNCHANGED <<server, keep_alive, startFailed, stopFailed>>
    BY DEF Start
  <2>. QED  BY <2>1, <2>2, <2>3 DEF Inv, TypeOK, SysTypeOK
<1>11. Fresh'
  <2>1. gen' = gen + 1 /\ gen \in Nat /\ gen' \in Generations
    <3>1. gen' = gen + 1 /\ gen < MaxStarts  BY DEF Start
    <3>. QED  BY <3>1, GenType, LifecycleAssumption DEF Generations
  <2>2. ASSUME NEW g \in Generations, g > gen  PROVE Unborn(g)'
    BY <2>2 DEF Inv, Fresh, Unborn, Start, httpdVars, taskVars
  <2>3. \A g \in Generations : g > gen' => g > gen
    BY <2>1 DEF Generations
  <2>4. gen' > gen  BY <2>1
  <2>5. pc' = "start keep-alive"  BY DEF Start
  <2>. QED  BY <2>1, <2>2, <2>3, <2>4, <2>5 DEF Fresh
<1>12. ServerHandle'
  BY LifecycleAssumption DEF Inv, Start, Handles, ServerHandle, StopSteps,
         Running, sysVars, httpdVars
<1>13. KeepAliveHandle'
  BY LifecycleAssumption DEF Inv, Start, Handles, KeepAliveHandle, Live,
         StartSteps, sysVars, taskVars, ServerHandle, Running
<1>. QED  BY <1>1, <1>2, <1>3, <1>4, <1>5, <1>6, <1>7, <1>8, <1>9, <1>10,
         <1>11, <1>12, <1>13 DEF Inv, TypeOK

LEMMA StartKeepAliveInv ==
    ASSUME Inv, fault = None, StartKeepAlive
    PROVE  Inv'
<1>1. ApTypeOK'
  BY ApTypeOKSame DEF Inv, TypeOK, StartKeepAlive, apVars
<1>2. HttpdTypeOK'
  BY HttpdTypeOKSame DEF Inv, TypeOK, StartKeepAlive, httpdVars
<1>3. SendTypeOK'
  BY SendTypeOKSame DEF Inv, TypeOK, StartKeepAlive, sendVars
<1>4. SysTypeOK'
  BY LifecycleAssumption DEF Inv, StartKeepAlive, SysTypeOK, TypeOK,
         StopSteps, Generations, sysVars, ServerHandle, Running, Fresh
<1>5. TaskTypeOK'
  BY LifecycleAssumption DEF Inv, StartKeepAlive, TaskTypeOK, TypeOK,
         taskVars, ServerHandle, Running, StopSteps, SysTypeOK, Fresh,
         Generations, KeepAliveHandle
<1>6. HistoryTypeOK'
  BY LifecycleAssumption DEF Inv, StartKeepAlive, HistoryTypeOK, TypeOK,
         Faults, ServerHandle, Running, StopSteps, SysTypeOK, Fresh,
         Generations
<1>7. Fresh'
  <2>1. gen' = gen /\ gen \in Generations /\ pc' = "start httpd" /\ Unborn(gen)
    BY DEF Inv, Fresh, StartKeepAlive
  <2>2. ASSUME NEW g \in Generations, g > gen  PROVE Unborn(g)'
    <3>1. g # gen  BY <2>2, GenType, GenerationFacts
    <3>2. Unborn(g)  BY <2>2 DEF Inv, Fresh
    <3>. QED  BY <3>1, <3>2 DEF Inv, TypeOK, TaskTypeOK, Unborn, StartKeepAlive, httpdVars
  <2>3. httpd' = httpd /\ sessions' = sessions /\ ctx' = ctx
    BY DEF StartKeepAlive, httpdVars
  <2>. QED  BY <2>1, <2>2, <2>3 DEF Fresh, Unborn
<1>8. ServerHandle'
  BY LifecycleAssumption DEF Inv, StartKeepAlive, ServerHandle, StopSteps,
         Running, sysVars, httpdVars
<1>9. KeepAliveHandle'
  <2>1. gen' = gen /\ gen \in Generations /\ pc' = "start httpd" /\ stop'[gen] = "no"
    BY DEF Inv, Fresh, Unborn, StartKeepAlive
  <2>2. \/ keep_alive' = gen /\ storage'[gen] = "receiving"
        \/ keep_alive' = None /\ risky' = TRUE
    BY <2>1 DEF Inv, TypeOK, TaskTypeOK, StartKeepAlive
  <2>3. gen # None  BY <2>1, GenerationFacts
  <2>. QED  BY <2>1, <2>2, <2>3 DEF KeepAliveHandle, Live, StartSteps
<1>10. Objects'
  BY LifecycleAssumption DEF Inv, StartKeepAlive, Objects, taskVars,
         TaskTypeOK, TypeOK, ServerHandle, Running, KeepAliveHandle, Live,
         StartSteps
<1>11. NoTaskForgotten'
  <2>1. stop' = stop /\ keep_alive = None /\ keep_alive' \in {None, gen}
    BY DEF Inv, KeepAliveHandle, StartKeepAlive
  <2>4. gen \in Generations /\ gen # None
    BY GenerationFacts DEF Inv, Fresh, StartKeepAlive
  <2>2. \A g \in Generations :
           (g # gen \/ keep_alive' = None) => storage'[g] = storage[g]
    BY <2>4 DEF Inv, TypeOK, TaskTypeOK, StartKeepAlive
  <2>3. \A g \in Generations : Live(g) => stop[g] # "no"
    BY <2>1, GenerationFacts DEF Inv, NoTaskForgotten
  <2>. QED  BY <2>1, <2>2, <2>3 DEF NoTaskForgotten, Live
<1>12. Safe'
  BY LifecycleAssumption DEF Inv, StartKeepAlive, Safe, UsedBySessions,
         UsedBySweeps, UsedByWork, UsedBySender, Running, sysVars, httpdVars,
         sendVars, TaskTypeOK, TypeOK, ServerHandle
<1>13. OnlyRiskyStopsFault'
  BY LifecycleAssumption DEF Inv, StartKeepAlive, OnlyRiskyStopsFault,
         ServerHandle, Running, KeepAliveHandle, Live, StartSteps, Safe,
         UsedBySessions, UsedBySweeps, UsedByWork, UsedBySender, Objects
<1>. QED  BY <1>1, <1>2, <1>3, <1>4, <1>5, <1>6, <1>7, <1>8, <1>9, <1>10,
         <1>11, <1>12, <1>13 DEF Inv, TypeOK

LEMMA StartHttpdInv ==
    ASSUME Inv, fault = None, StartHttpd
    PROVE  Inv'
<1>1. ApTypeOK'
  BY ApTypeOKSame DEF Inv, TypeOK, StartHttpd, apVars
<1>2. TaskTypeOK'
  BY TaskTypeOKSame DEF Inv, TypeOK, StartHttpd, taskVars
<1>3. SendTypeOK'
  BY SendTypeOKSame DEF Inv, TypeOK, StartHttpd, sendVars
<1>4. HistoryTypeOK'
  BY HistoryTypeOKSame DEF Inv, TypeOK, StartHttpd
<1>5. Objects'
  BY ObjectsSame DEF Inv, StartHttpd, taskVars
<1>6. NoTaskForgotten'
  BY NoTaskForgottenSame DEF Inv, StartHttpd, sysVars, taskVars
<1>7. OnlyRiskyStopsFault'
  BY OnlyRiskyStopsFaultSame DEF Inv, StartHttpd
<1>8. SysTypeOK'
  BY LifecycleAssumption DEF Inv, StartHttpd, Running, SysTypeOK, TypeOK,
         StopSteps, Generations, sysVars, ServerHandle, Fresh
<1>9. HttpdTypeOK'
  BY LifecycleAssumption DEF Inv, StartHttpd, Running, HttpdTypeOK, TypeOK,
         httpdVars, ServerHandle, StopSteps, SysTypeOK, Fresh, Generations
<1>10. Fresh'
  <2>1. gen' = gen /\ gen \in Nat /\ pc' \notin {"start keep-alive", "start httpd"}
    BY GenType DEF StartHttpd
  <2>2. ASSUME NEW g \in Generations, g > gen  PROVE Unborn(g)'
    <3>1. g # gen  BY <2>2, GenType, GenerationFacts
    <3>2. Unborn(g)  BY <2>2 DEF Inv, Fresh
    <3>. QED  BY <3>1, <3>2 DEF Inv, TypeOK, HttpdTypeOK, TaskTypeOK, Unborn, StartHttpd,
                          httpdVars, taskVars
  <2>. QED  BY <2>1, <2>2 DEF Fresh
<1>11. ServerHandle'
  <2>1. gen \in Generations /\ gen' = gen /\ server' = gen /\ pc' = "register"
    BY DEF Inv, Fresh, StartHttpd
  <2>2. httpd'[gen] = "started"
    BY <2>1 DEF Inv, TypeOK, HttpdTypeOK, StartHttpd
  <2>3. handlers' /\ server' # None
    BY <2>1, GenerationFacts DEF Inv, ServerHandle, StartHttpd
  <2>. QED  BY <2>1, <2>2, <2>3 DEF ServerHandle, StopSteps
<1>12. KeepAliveHandle'
  BY LifecycleAssumption DEF Inv, StartHttpd, Running, KeepAliveHandle, Live,
         StartSteps, sysVars, taskVars, ServerHandle
<1>13. Safe'
  <2>. SUFFICES ASSUME ~risky
                PROVE  (UsedBySessions /\ UsedBySweeps /\ UsedByWork /\ UsedBySender)'
    BY DEF Safe, StartHttpd
  <2>1. server = None /\ gen \in Generations /\ server' = gen
    BY DEF Inv, Fresh, ServerHandle, StartHttpd
  <2>2. UsedBySessions'
    BY DEF Inv, TypeOK, HttpdTypeOK, UsedBySessions, Running, StartHttpd
  <2>3. UsedBySweeps'
    BY <2>1, GenerationFacts DEF Inv, Safe, UsedBySweeps, StartHttpd, taskVars
  <2>4. UsedByWork'
    BY DEF Inv, Safe, UsedByWork, StartHttpd
  <2>5. UsedBySender'
    BY <2>1 DEF Inv, Safe, UsedBySender, StartHttpd, sendVars
  <2>. QED  BY <2>2, <2>3, <2>4, <2>5
<1>. QED  BY <1>1, <1>2, <1>3, <1>4, <1>5, <1>6, <1>7, <1>8, <1>9, <1>10,
         <1>11, <1>12, <1>13 DEF Inv, TypeOK

LEMMA StartHttpdFailsInv ==
    ASSUME Inv, fault = None, StartHttpdFails
    PROVE  Inv'
<1>1. ApTypeOK'
  BY ApTypeOKSame DEF Inv, TypeOK, StartHttpdFails, apVars
<1>2. HttpdTypeOK'
  BY HttpdTypeOKSame DEF Inv, TypeOK, StartHttpdFails, httpdVars
<1>3. SendTypeOK'
  BY SendTypeOKSame DEF Inv, TypeOK, StartHttpdFails, sendVars
<1>4. HistoryTypeOK'
  BY HistoryTypeOKSame DEF Inv, TypeOK, StartHttpdFails
<1>5. Safe'
  BY SafeSame DEF Inv, StartHttpdFails, sysVars, httpdVars, taskVars, sendVars
<1>6. OnlyRiskyStopsFault'
  BY OnlyRiskyStopsFaultSame DEF Inv, StartHttpdFails
<1>7. SysTypeOK'
  BY LifecycleAssumption DEF Inv, StartHttpdFails, Running, SysTypeOK, TypeOK,
         StopSteps, Generations, sysVars, ServerHandle, Fresh
<1>8. TaskTypeOK'
  BY LifecycleAssumption DEF Inv, StartHttpdFails, Running, TaskTypeOK,
         TypeOK, taskVars, ServerHandle, StopSteps, SysTypeOK, Fresh,
         Generations, KeepAliveHandle
<1>9. Fresh'
  <2>1. gen' = gen /\ gen \in Nat /\ pc' \notin {"start keep-alive", "start httpd"}
    BY GenType DEF StartHttpdFails
  <2>2. ASSUME NEW g \in Generations, g > gen  PROVE Unborn(g)'
    <3>1. g # gen  BY <2>2, GenType, GenerationFacts
    <3>2. Unborn(g)  BY <2>2 DEF Inv, Fresh
    <3>. QED  BY <3>1, <3>2
           DEF Inv, TypeOK, HttpdTypeOK, TaskTypeOK, KeepAliveHandle, Unborn, StartHttpdFails,
                          httpdVars, taskVars
  <2>. QED  BY <2>1, <2>2 DEF Fresh
<1>10. ServerHandle'
  BY LifecycleAssumption DEF Inv, StartHttpdFails, Running, ServerHandle,
         StopSteps, sysVars, httpdVars
<1>11. KeepAliveHandle'
  BY LifecycleAssumption DEF Inv, StartHttpdFails, Running, KeepAliveHandle,
         Live, StartSteps, sysVars, taskVars, TaskTypeOK, TypeOK, ServerHandle
<1>12. Objects'
  BY LifecycleAssumption DEF Inv, StartHttpdFails, Running, Objects, taskVars,
         TaskTypeOK, TypeOK, ServerHandle, KeepAliveHandle, Live, StartSteps
<1>13. NoTaskForgotten'
  BY LifecycleAssumption DEF Inv, StartHttpdFails, Running, NoTaskForgotten,
         Live, taskVars, TaskTypeOK, TypeOK, ServerHandle, KeepAliveHandle,
         StartSteps
<1>. QED  BY <1>1, <1>2, <1>3, <1>4, <1>5, <1>6, <1>7, <1>8, <1>9, <1>10,
         <1>11, <1>12, <1>13 DEF Inv, TypeOK

LEMMA RegisterInv ==
    ASSUME Inv, fault = None, Register
    PROVE  Inv'
<1>1. ApTypeOK'
  BY ApTypeOKSame DEF Inv, TypeOK, Register, apVars
<1>2. TaskTypeOK'
  BY TaskTypeOKSame DEF Inv, TypeOK, Register, taskVars
<1>3. SendTypeOK'
  BY SendTypeOKSame DEF Inv, TypeOK, Register, sendVars
<1>4. HistoryTypeOK'
  BY HistoryTypeOKSame DEF Inv, TypeOK, Register
<1>5. Objects'
  BY ObjectsSame DEF Inv, Register, taskVars
<1>6. NoTaskForgotten'
  BY NoTaskForgottenSame DEF Inv, Register, sysVars, taskVars
<1>7. OnlyRiskyStopsFault'
  BY OnlyRiskyStopsFaultSame DEF Inv, Register
<1>8. SysTypeOK'
  BY LifecycleAssumption DEF Inv, Register, SysTypeOK, TypeOK, StopSteps,
         Generations, sysVars, ServerHandle, Running, Fresh
<1>9. HttpdTypeOK'
  BY LifecycleAssumption DEF Inv, Register, HttpdTypeOK, TypeOK, httpdVars,
         ServerHandle, Running, StopSteps, SysTypeOK, Fresh, Generations
<1>10. Fresh'
  <2>1. gen' = gen /\ gen \in Nat /\ pc' \notin {"start keep-alive", "start httpd"}
    BY GenType DEF Register
  <2>2. ASSUME NEW g \in Generations, g > gen  PROVE Unborn(g)'
    <3>1. g # gen  BY <2>2, GenType, GenerationFacts
    <3>2. Unborn(g)  BY <2>2 DEF Inv, Fresh
    <3>. QED  BY <3>1, <3>2 DEF Inv, TypeOK, HttpdTypeOK, TaskTypeOK, Unborn, Register,
                          httpdVars, taskVars
  <2>. QED  BY <2>1, <2>2 DEF Fresh
<1>11. ServerHandle'
  BY LifecycleAssumption DEF Inv, Register, ServerHandle, StopSteps, Running,
         sysVars, HttpdTypeOK, TypeOK
<1>12. KeepAliveHandle'
  BY LifecycleAssumption DEF Inv, Register, KeepAliveHandle, Live, StartSteps,
         sysVars, taskVars, ServerHandle, Running
<1>13. Safe'
  BY LifecycleAssumption DEF Inv, Register, Safe, UsedBySessions,
         UsedBySweeps, UsedByWork, UsedBySender, Running, sysVars, httpdVars,
         taskVars, sendVars, HttpdTypeOK, TypeOK, ServerHandle
<1>. QED  BY <1>1, <1>2, <1>3, <1>4, <1>5, <1>6, <1>7, <1>8, <1>9, <1>10,
         <1>11, <1>12, <1>13 DEF Inv, TypeOK

LEMMA SetContextInv ==
    ASSUME Inv, fault = None, SetContext
    PROVE  Inv'
<1>1. ApTypeOK'
  BY ApTypeOKSame DEF Inv, TypeOK, SetContext, apVars
<1>2. HttpdTypeOK'
  BY HttpdTypeOKSame DEF Inv, TypeOK, SetContext, httpdVars
<1>3. SendTypeOK'
  BY SendTypeOKSame DEF Inv, TypeOK, SetContext, sendVars
<1>4. NoTaskForgotten'
  BY NoTaskForgottenSame DEF Inv, SetContext, sysVars, taskVars
<1>5. Safe'
  BY SafeSame DEF Inv, SetContext, sysVars, httpdVars, taskVars, sendVars
<1>6. SysTypeOK'
  BY LifecycleAssumption DEF Inv, SetContext, SysTypeOK, TypeOK, StopSteps,
         Generations, sysVars, ServerHandle, Running, Fresh
<1>7. TaskTypeOK'
  <2>1. server \in Generations \cup {None}
    BY DEF Inv, TypeOK, SysTypeOK
  <2>2. ctx' = ctx \/ ctx' = [ctx EXCEPT ![keep_alive] = server]
    BY DEF SetContext
  <2>3. UNCHANGED <<storage, watched, stop>>
    BY DEF SetContext
  <2>. QED  BY <2>1, <2>2, <2>3 DEF Inv, TypeOK, TaskTypeOK
<1>8. HistoryTypeOK'
  BY LifecycleAssumption DEF Inv, SetContext, HistoryTypeOK, TypeOK, Faults,
         ServerHandle, Running, StopSteps, SysTypeOK, Fresh, Generations
<1>9. Fresh'
  <2>1. gen' = gen /\ gen \in Nat /\ pc' \notin {"start keep-alive", "start httpd"}
    BY GenType DEF SetContext
  <2>2. ASSUME NEW g \in Generations, g > gen  PROVE Unborn(g)'
    <3>1. g # gen  BY <2>2, GenType, GenerationFacts
    <3>2. Unborn(g)  BY <2>2 DEF Inv, Fresh
    <3>. QED  BY <3>1, <3>2 DEF Inv, TypeOK, HttpdTypeOK, TaskTypeOK, KeepAliveHandle, Unborn, SetContext,
                          httpdVars, taskVars
  <2>. QED  BY <2>1, <2>2 DEF Fresh
<1>10. ServerHandle'
  BY LifecycleAssumption DEF Inv, SetContext, ServerHandle, StopSteps,
         Running, sysVars, httpdVars
<1>11. KeepAliveHandle'
  <2>1. /\ gen' = gen /\ server' = server /\ keep_alive' = keep_alive
        /\ storage' = storage /\ stop' = stop /\ pc' = "idle"
    BY DEF SetContext
  <2>2. server = gen /\ server # None  BY DEF Inv, ServerHandle, SetContext
  <2>3. CASE keep_alive # None
    <3>1. keep_alive = gen /\ gen \in Generations /\ Live(gen) /\ stop[gen] = "no"
      BY <2>3 DEF Inv, KeepAliveHandle, SetContext
    <3>2. ctx'[gen] = gen
      BY <2>2, <2>3, <3>1 DEF Inv, TypeOK, TaskTypeOK, SetContext
    <3>. QED  BY <2>1, <2>2, <2>3, <3>1, <3>2 DEF KeepAliveHandle, Live, StartSteps
  <2>4. CASE keep_alive = None
    <3>1. fault' # None  BY <2>4, LifecycleAssumption DEF SetContext, Faults
    <3>. QED  BY <2>1, <2>4, <3>1 DEF KeepAliveHandle, StartSteps
  <2>. QED  BY <2>3, <2>4
<1>12. Objects'
  <2>1. stop' = stop /\ storage' = storage  BY DEF SetContext
  <2>2. server = gen  BY DEF Inv, ServerHandle, SetContext
  <2>3. keep_alive # None => keep_alive = gen /\ gen \in Generations
    BY DEF Inv, KeepAliveHandle
  <2>4. \A g \in Generations : ctx'[g] \in {None, g}
    <3>1. ctx' = ctx \/ (gen \in Generations /\ ctx' = [ctx EXCEPT ![gen] = gen])
      BY <2>2, <2>3 DEF SetContext
    <3>. QED  BY <3>1 DEF Inv, Objects, TypeOK, TaskTypeOK
  <2>. QED  BY <2>1, <2>4 DEF Inv, Objects
<1>13. OnlyRiskyStopsFault'
  BY LifecycleAssumption DEF Inv, SetContext, OnlyRiskyStopsFault,
         ServerHandle, Running, KeepAliveHandle, Live, StartSteps, Safe,
         UsedBySessions, UsedBySweeps, UsedByWork, UsedBySender, Objects
<1>. QED  BY <1>1, <1>2, <1>3, <1>4, <1>5, <1>6, <1>7, <1>8, <1>9, <1>10,
         <1>11, <1>12, <1>13 DEF Inv, TypeOK

LEMMA StopIgnoredInv ==
    ASSUME Inv, fault = None, StopIgnored
    PROVE  Inv'
<1>1. SysTypeOK'
  BY SysTypeOKSame DEF Inv, TypeOK, StopIgnored, Handles, sysVars
<1>2. HttpdTypeOK'
  BY HttpdTypeOKSame DEF Inv, TypeOK, StopIgnored, Handles, httpdVars
<1>3. TaskTypeOK'
  BY TaskTypeOKSame DEF Inv, TypeOK, StopIgnored, Handles, taskVars
<1>4. SendTypeOK'
  BY SendTypeOKSame DEF Inv, TypeOK, StopIgnored, Handles, sendVars
<1>5. HistoryTypeOK'
  BY HistoryTypeOKSame DEF Inv, TypeOK, StopIgnored, Handles
<1>6. Fresh'
  BY FreshSame DEF Inv, StopIgnored, Handles, sysVars, httpdVars, taskVars
<1>7. ServerHandle'
  BY ServerHandleSame DEF Inv, StopIgnored, Handles, sysVars, httpdVars
<1>8. KeepAliveHandle'
  BY KeepAliveHandleSame DEF Inv, StopIgnored, Handles, sysVars, taskVars
<1>9. Objects'
  BY ObjectsSame DEF Inv, StopIgnored, Handles, taskVars
<1>10. NoTaskForgotten'
  BY NoTaskForgottenSame DEF Inv, StopIgnored, Handles, sysVars, taskVars
<1>11. Safe'
  BY SafeSame DEF Inv, StopIgnored, Handles, sysVars, httpdVars, taskVars,
         sendVars
<1>12. OnlyRiskyStopsFault'
  BY OnlyRiskyStopsFaultSame DEF Inv, StopIgnored, Handles
<1>13. ApTypeOK'
  BY HandlesTypes DEF Inv, TypeOK, StopIgnored
<1>. QED  BY <1>1, <1>2, <1>3, <1>4, <1>5, <1>6, <1>7, <1>8, <1>9, <1>10,
         <1>11, <1>12, <1>13 DEF Inv, TypeOK

LEMMA StopInv ==
    ASSUME Inv, fault = None, Stop
    PROVE  Inv'
<1>1. HttpdTypeOK'
  BY HttpdTypeOKSame DEF Inv, TypeOK, Stop, Handles, httpdVars
<1>2. TaskTypeOK'
  BY TaskTypeOKSame DEF Inv, TypeOK, Stop, Handles, taskVars
<1>3. SendTypeOK'
  BY SendTypeOKSame DEF Inv, TypeOK, Stop, Handles, sendVars
<1>4. Objects'
  BY ObjectsSame DEF Inv, Stop, Handles, taskVars
<1>5. NoTaskForgotten'
  BY NoTaskForgottenSame DEF Inv, Stop, Handles, sysVars, taskVars
<1>6. ApTypeOK'
  BY HandlesTypes DEF Inv, TypeOK, Stop
<1>7. SysTypeOK'
  BY LifecycleAssumption DEF Inv, Stop, Handles, InUse, SysTypeOK, TypeOK,
         StopSteps, Generations, sysVars, ServerHandle, Running, Fresh
<1>8. HistoryTypeOK'
  BY LifecycleAssumption DEF Inv, Stop, Handles, InUse, HistoryTypeOK, TypeOK,
         Faults, ServerHandle, Running, StopSteps, SysTypeOK, Fresh,
         Generations
<1>9. Fresh'
  BY LifecycleAssumption DEF Inv, Stop, Handles, InUse, Fresh, Unborn,
         sysVars, httpdVars, taskVars, ServerHandle, Running
<1>10. ServerHandle'
  <2>1. server = gen /\ gen \in Generations /\ Running(gen)
    BY DEF Inv, ServerHandle, TypeOK, SysTypeOK, Stop, Running
  <2>2. server' = None /\ pc' = "stop keep-alive" /\ gen' = gen /\ httpd' = httpd
    BY DEF Stop, httpdVars
  <2>. QED  BY <2>1, <2>2 DEF ServerHandle, StopSteps, Running
<1>11. KeepAliveHandle'
  BY LifecycleAssumption DEF Inv, Stop, Handles, InUse, KeepAliveHandle, Live,
         StartSteps, sysVars, taskVars, ServerHandle, Running
<1>12. Safe'
  BY LifecycleAssumption DEF Inv, Stop, Handles, InUse, Safe, UsedBySessions,
         UsedBySweeps, UsedByWork, UsedBySender, Running, httpdVars, taskVars,
         sendVars, ServerHandle
<1>13. OnlyRiskyStopsFault'
  BY LifecycleAssumption DEF Inv, Stop, Handles, InUse, OnlyRiskyStopsFault,
         ServerHandle, Running, KeepAliveHandle, Live, StartSteps, Safe,
         UsedBySessions, UsedBySweeps, UsedByWork, UsedBySender, Objects
<1>. QED  BY <1>1, <1>2, <1>3, <1>4, <1>5, <1>6, <1>7, <1>8, <1>9, <1>10,
         <1>11, <1>12, <1>13 DEF Inv, TypeOK

LEMMA StopKeepAliveInv ==
    ASSUME Inv, fault = None, StopKeepAlive
    PROVE  Inv'
<1>1. ApTypeOK'
  BY ApTypeOKSame DEF Inv, TypeOK, StopKeepAlive, apVars
<1>2. HttpdTypeOK'
  BY HttpdTypeOKSame DEF Inv, TypeOK, StopKeepAlive, httpdVars
<1>3. SendTypeOK'
  BY SendTypeOKSame DEF Inv, TypeOK, StopKeepAlive, sendVars
<1>4. HistoryTypeOK'
  BY HistoryTypeOKSame DEF Inv, TypeOK, StopKeepAlive
<1>5. Safe'
  BY SafeSame DEF Inv, StopKeepAlive, sysVars, httpdVars, taskVars, sendVars
<1>6. OnlyRiskyStopsFault'
  BY OnlyRiskyStopsFaultSame DEF Inv, StopKeepAlive
<1>7. SysTypeOK'
  BY LifecycleAssumption DEF Inv, StopKeepAlive, SysTypeOK, TypeOK, StopSteps,
         Generations, sysVars, ServerHandle, Running, Fresh
<1>8. TaskTypeOK'
  BY LifecycleAssumption DEF Inv, StopKeepAlive, TaskTypeOK, TypeOK, taskVars,
         ServerHandle, Running, StopSteps, SysTypeOK, Fresh, Generations,
         KeepAliveHandle
<1>9. Fresh'
  <2>1. gen' = gen /\ gen \in Nat /\ pc' \notin {"start keep-alive", "start httpd"}
    BY GenType DEF StopKeepAlive
  <2>2. ASSUME NEW g \in Generations, g > gen  PROVE Unborn(g)'
    <3>1. g # gen  BY <2>2, GenType, GenerationFacts
    <3>2. Unborn(g)  BY <2>2 DEF Inv, Fresh
    <3>. QED  BY <3>1, <3>2 DEF Inv, TypeOK, HttpdTypeOK, TaskTypeOK, KeepAliveHandle, Unborn, StopKeepAlive,
                          httpdVars, taskVars
  <2>. QED  BY <2>1, <2>2 DEF Fresh
<1>10. ServerHandle'
  BY LifecycleAssumption DEF Inv, StopKeepAlive, ServerHandle, StopSteps,
         Running, sysVars, httpdVars
<1>11. KeepAliveHandle'
  BY LifecycleAssumption DEF Inv, StopKeepAlive, KeepAliveHandle, Live,
         StartSteps, sysVars, taskVars, TaskTypeOK, TypeOK, ServerHandle,
         Running
<1>12. Objects'
  BY LifecycleAssumption DEF Inv, StopKeepAlive, Objects, taskVars,
         TaskTypeOK, TypeOK, ServerHandle, Running, KeepAliveHandle, Live,
         StartSteps
<1>13. NoTaskForgotten'
  BY LifecycleAssumption DEF Inv, StopKeepAlive, NoTaskForgotten, Live,
         sysVars, taskVars, TaskTypeOK, TypeOK, ServerHandle, Running,
         KeepAliveHandle, StartSteps
<1>. QED  BY <1>1, <1>2, <1>3, <1>4, <1>5, <1>6, <1>7, <1>8, <1>9, <1>10,
         <1>11, <1>12, <1>13 DEF Inv, TypeOK

LEMMA ForgetKeepAliveInv ==
    ASSUME Inv, fault = None, ForgetKeepAlive
    PROVE  Inv'
<1>1. ApTypeOK'
  BY ApTypeOKSame DEF Inv, TypeOK, ForgetKeepAlive, apVars
<1>2. HttpdTypeOK'
  BY HttpdTypeOKSame DEF Inv, TypeOK, ForgetKeepAlive, httpdVars
<1>3. TaskTypeOK'
  BY TaskTypeOKSame DEF Inv, TypeOK, ForgetKeepAlive, taskVars
<1>4. SendTypeOK'
  BY SendTypeOKSame DEF Inv, TypeOK, ForgetKeepAlive, sendVars
<1>5. HistoryTypeOK'
  BY HistoryTypeOKSame DEF Inv, TypeOK, ForgetKeepAlive
<1>6. Objects'
  BY ObjectsSame DEF Inv, ForgetKeepAlive, taskVars
<1>7. Safe'
  BY SafeSame DEF Inv, ForgetKeepAlive, sysVars, httpdVars, taskVars, sendVars
<1>8. OnlyRiskyStopsFault'
  BY OnlyRiskyStopsFaultSame DEF Inv, ForgetKeepAlive
<1>9. SysTypeOK'
  BY LifecycleAssumption DEF Inv, ForgetKeepAlive, SysTypeOK, TypeOK,
         StopSteps, Generations, sysVars, ServerHandle, Running, Fresh
<1>10. Fresh'
  BY LifecycleAssumption DEF Inv, ForgetKeepAlive, Fresh, Unborn, sysVars,
         httpdVars, taskVars, ServerHandle, Running
<1>11. ServerHandle'
  BY LifecycleAssumption DEF Inv, ForgetKeepAlive, ServerHandle, StopSteps,
         Running, sysVars, httpdVars
<1>12. KeepAliveHandle'
  BY LifecycleAssumption DEF Inv, ForgetKeepAlive, KeepAliveHandle, Live,
         StartSteps, sysVars, taskVars, ServerHandle, Running
<1>13. NoTaskForgotten'
  <2>1. keep_alive = gen /\ stop[gen] # "no"
    BY DEF Inv, KeepAliveHandle, ForgetKeepAlive
  <2>2. \A g \in Generations : Live(g) => stop[g] # "no"
    BY <2>1 DEF Inv, NoTaskForgotten
  <2>. QED  BY <2>2 DEF NoTaskForgotten, Live, ForgetKeepAlive, taskVars
<1>. QED  BY <1>1, <1>2, <1>3, <1>4, <1>5, <1>6, <1>7, <1>8, <1>9, <1>10,
         <1>11, <1>12, <1>13 DEF Inv, TypeOK

LEMMA StopHttpdInv ==
    ASSUME Inv, fault = None, StopHttpd
    PROVE  Inv'
<1>1. ApTypeOK'
  BY ApTypeOKSame DEF Inv, TypeOK, StopHttpd, apVars
<1>2. TaskTypeOK'
  BY TaskTypeOKSame DEF Inv, TypeOK, StopHttpd, taskVars
<1>3. SendTypeOK'
  BY SendTypeOKSame DEF Inv, TypeOK, StopHttpd, sendVars
<1>4. HistoryTypeOK'
  BY HistoryTypeOKSame DEF Inv, TypeOK, StopHttpd
<1>5. Objects'
  BY ObjectsSame DEF Inv, StopHttpd, taskVars
<1>6. NoTaskForgotten'
  BY NoTaskForgottenSame DEF Inv, StopHttpd, sysVars, taskVars
<1>7. OnlyRiskyStopsFault'
  BY OnlyRiskyStopsFaultSame DEF Inv, StopHttpd
<1>8. SysTypeOK'
  BY LifecycleAssumption DEF Inv, StopHttpd, SysTypeOK, TypeOK, StopSteps,
         Generations, sysVars, ServerHandle, Running, Fresh
<1>9. HttpdTypeOK'
  BY LifecycleAssumption DEF Inv, StopHttpd, HttpdTypeOK, TypeOK, httpdVars,
         ServerHandle, Running, StopSteps, SysTypeOK, Fresh, Generations
<1>10. Fresh'
  <2>1. gen' = gen /\ gen \in Nat /\ pc' \notin {"start keep-alive", "start httpd"}
    BY GenType DEF StopHttpd
  <2>2. ASSUME NEW g \in Generations, g > gen  PROVE Unborn(g)'
    <3>1. g # gen  BY <2>2, GenType, GenerationFacts
    <3>2. Unborn(g)  BY <2>2 DEF Inv, Fresh
    <3>. QED  BY <3>1, <3>2 DEF Inv, TypeOK, HttpdTypeOK, TaskTypeOK, Unborn, StopHttpd,
                          httpdVars, taskVars
  <2>. QED  BY <2>1, <2>2 DEF Fresh
<1>11. ServerHandle'
  BY LifecycleAssumption DEF Inv, StopHttpd, ServerHandle, StopSteps, Running,
         sysVars, HttpdTypeOK, TypeOK
<1>12. KeepAliveHandle'
  BY LifecycleAssumption DEF Inv, StopHttpd, KeepAliveHandle, Live,
         StartSteps, sysVars, taskVars, ServerHandle, Running
<1>13. Safe'
  <2>1. \A g \in Generations : Running(g)' => Running(g)
    BY DEF Inv, ServerHandle, StopSteps, TypeOK, HttpdTypeOK, Running, StopHttpd
  <2>2. UNCHANGED <<risky, sessions, work, server, taskVars, sendVars>>
    BY DEF StopHttpd
  <2>. QED  BY <2>1, <2>2 DEF Inv, Safe, UsedBySessions, UsedBySweeps, UsedByWork,
                              UsedBySender, taskVars, sendVars
<1>. QED  BY <1>1, <1>2, <1>3, <1>4, <1>5, <1>6, <1>7, <1>8, <1>9, <1>10,
         <1>11, <1>12, <1>13 DEF Inv, TypeOK

LEMMA HttpdStoppedInv ==
    ASSUME Inv, fault = None, HttpdStopped
    PROVE  Inv'
<1>1. ApTypeOK'
  BY ApTypeOKSame DEF Inv, TypeOK, HttpdStopped, apVars
<1>2. TaskTypeOK'
  BY TaskTypeOKSame DEF Inv, TypeOK, HttpdStopped, taskVars
<1>3. SendTypeOK'
  BY SendTypeOKSame DEF Inv, TypeOK, HttpdStopped, sendVars
<1>4. HistoryTypeOK'
  BY DEF Inv, TypeOK, HttpdStopped, MayFault, HistoryTypeOK, Faults
<1>5. Objects'
  BY ObjectsSame DEF Inv, HttpdStopped, taskVars
<1>6. NoTaskForgotten'
  BY NoTaskForgottenSame DEF Inv, HttpdStopped, sysVars, taskVars
<1>7. OnlyRiskyStopsFault'
  <2>1. gen \in Generations /\ httpd'[gen] = "stopped" /\ storage' = storage
    BY DEF Inv, ServerHandle, HttpdStopped, StopSteps, TypeOK, HttpdTypeOK, taskVars
  <2>2. CASE fault' = None
    BY <2>2 DEF OnlyRiskyStopsFault
  <2>3. CASE fault' # None
    <3>1. fault' = "storage freed twice" /\ storage[gen] = "freed"
      BY <2>3 DEF HttpdStopped, MayFault
    <3>. QED  BY <2>1, <3>1 DEF OnlyRiskyStopsFault, Released
  <2>. QED  BY <2>2, <2>3
<1>8. SysTypeOK'
  BY LifecycleAssumption DEF Inv, HttpdStopped, SysTypeOK, TypeOK, StopSteps,
         Generations, sysVars, ServerHandle, Running, Fresh
<1>9. HttpdTypeOK'
  BY LifecycleAssumption DEF Inv, HttpdStopped, HttpdTypeOK, TypeOK,
         httpdVars, ServerHandle, Running, StopSteps, SysTypeOK, Fresh,
         Generations
<1>10. Fresh'
  <2>1. gen' = gen /\ gen \in Nat /\ pc' \notin {"start keep-alive", "start httpd"}
    BY GenType DEF HttpdStopped
  <2>2. ASSUME NEW g \in Generations, g > gen  PROVE Unborn(g)'
    <3>1. g # gen  BY <2>2, GenType, GenerationFacts
    <3>2. Unborn(g)  BY <2>2 DEF Inv, Fresh
    <3>. QED  BY <3>1, <3>2 DEF Inv, TypeOK, HttpdTypeOK, TaskTypeOK, Unborn, HttpdStopped,
                          httpdVars, taskVars
  <2>. QED  BY <2>1, <2>2 DEF Fresh
<1>11. ServerHandle'
  BY LifecycleAssumption DEF Inv, HttpdStopped, ServerHandle, StopSteps,
         Running, sysVars, HttpdTypeOK, TypeOK
<1>12. KeepAliveHandle'
  BY LifecycleAssumption DEF Inv, HttpdStopped, KeepAliveHandle, Live,
         StartSteps, sysVars, taskVars, ServerHandle, Running
<1>13. Safe'
  BY LifecycleAssumption DEF Inv, HttpdStopped, Safe, UsedBySessions,
         UsedBySweeps, UsedByWork, UsedBySender, Running, sysVars, httpdVars,
         taskVars, sendVars, HttpdTypeOK, TypeOK, ServerHandle
<1>. QED  BY <1>1, <1>2, <1>3, <1>4, <1>5, <1>6, <1>7, <1>8, <1>9, <1>10,
         <1>11, <1>12, <1>13 DEF Inv, TypeOK

LEMMA ClearHandlersInv ==
    ASSUME Inv, fault = None, ClearHandlers
    PROVE  Inv'
<1>1. ApTypeOK'
  BY ApTypeOKSame DEF Inv, TypeOK, ClearHandlers, apVars
<1>2. HttpdTypeOK'
  BY HttpdTypeOKSame DEF Inv, TypeOK, ClearHandlers, httpdVars
<1>3. TaskTypeOK'
  BY TaskTypeOKSame DEF Inv, TypeOK, ClearHandlers, taskVars
<1>4. SendTypeOK'
  BY SendTypeOKSame DEF Inv, TypeOK, ClearHandlers, sendVars
<1>5. HistoryTypeOK'
  BY HistoryTypeOKSame DEF Inv, TypeOK, ClearHandlers
<1>6. Objects'
  BY ObjectsSame DEF Inv, ClearHandlers, taskVars
<1>7. NoTaskForgotten'
  BY NoTaskForgottenSame DEF Inv, ClearHandlers, sysVars, taskVars
<1>8. Safe'
  BY SafeSame DEF Inv, ClearHandlers, sysVars, httpdVars, taskVars, sendVars
<1>9. OnlyRiskyStopsFault'
  BY OnlyRiskyStopsFaultSame DEF Inv, ClearHandlers
<1>10. SysTypeOK'
  BY LifecycleAssumption DEF Inv, ClearHandlers, SysTypeOK, TypeOK, StopSteps,
         Generations, sysVars, ServerHandle, Running, Fresh
<1>11. Fresh'
  BY LifecycleAssumption DEF Inv, ClearHandlers, Fresh, Unborn, sysVars,
         httpdVars, taskVars, ServerHandle, Running
<1>12. ServerHandle'
  BY LifecycleAssumption DEF Inv, ClearHandlers, ServerHandle, StopSteps,
         Running, sysVars, httpdVars
<1>13. KeepAliveHandle'
  BY LifecycleAssumption DEF Inv, ClearHandlers, KeepAliveHandle, Live,
         StartSteps, sysVars, taskVars, ServerHandle, Running
<1>. QED  BY <1>1, <1>2, <1>3, <1>4, <1>5, <1>6, <1>7, <1>8, <1>9, <1>10,
         <1>11, <1>12, <1>13 DEF Inv, TypeOK

LEMMA OpenSessionInv ==
    ASSUME Inv, fault = None, NEW g \in Generations, OpenSession(g)
    PROVE  Inv'
<1>1. ApTypeOK'
  BY ApTypeOKSame DEF Inv, TypeOK, OpenSession, apVars
<1>2. SysTypeOK'
  BY SysTypeOKSame DEF Inv, TypeOK, OpenSession, sysVars
<1>3. TaskTypeOK'
  BY TaskTypeOKSame DEF Inv, TypeOK, OpenSession, taskVars
<1>4. SendTypeOK'
  BY SendTypeOKSame DEF Inv, TypeOK, OpenSession, sendVars
<1>5. ServerHandle'
  BY ServerHandleSame DEF Inv, OpenSession, sysVars, httpdVars
<1>6. Objects'
  BY ObjectsSame DEF Inv, OpenSession, taskVars
<1>7. NoTaskForgotten'
  BY NoTaskForgottenSame DEF Inv, OpenSession, sysVars, taskVars
<1>8. HttpdTypeOK'
  <2>1. sessions[g] \in 0..MaxSessions
    BY DEF Inv, TypeOK, HttpdTypeOK
  <2>2. sessions[g] + 1 \in 0..MaxSessions
    BY <2>1, LifecycleAssumption DEF OpenSession
  <2>3. sessions' = [sessions EXCEPT ![g] = sessions[g] + 1]
    BY DEF OpenSession
  <2>. QED  BY <2>2, <2>3 DEF Inv, TypeOK, HttpdTypeOK, OpenSession
<1>9. HistoryTypeOK'
  BY LifecycleAssumption DEF Inv, OpenSession, HistoryTypeOK, TypeOK, Faults,
         ServerHandle, Running, StopSteps, SysTypeOK, Fresh, Generations
<1>10. Fresh'
  BY LifecycleAssumption DEF Inv, OpenSession, Fresh, Unborn, sysVars,
         httpdVars, taskVars, HttpdTypeOK, TypeOK, ServerHandle, Running
<1>11. KeepAliveHandle'
  BY LifecycleAssumption DEF Inv, OpenSession, KeepAliveHandle, Live,
         StartSteps, sysVars, taskVars, ServerHandle, Running
<1>12. Safe'
  BY LifecycleAssumption DEF Inv, OpenSession, Safe, UsedBySessions,
         UsedBySweeps, UsedByWork, UsedBySender, Running, sysVars, httpdVars,
         taskVars, sendVars, HttpdTypeOK, TypeOK, ServerHandle
<1>13. OnlyRiskyStopsFault'
  BY LifecycleAssumption DEF Inv, OpenSession, OnlyRiskyStopsFault,
         ServerHandle, Running, KeepAliveHandle, Live, StartSteps, Safe,
         UsedBySessions, UsedBySweeps, UsedByWork, UsedBySender, Objects
<1>. QED  BY <1>1, <1>2, <1>3, <1>4, <1>5, <1>6, <1>7, <1>8, <1>9, <1>10,
         <1>11, <1>12, <1>13 DEF Inv, TypeOK

LEMMA HandleRequestInv ==
    ASSUME Inv, fault = None, NEW g \in Generations, HandleRequest(g)
    PROVE  Inv'
<1>1. ApTypeOK'
  BY ApTypeOKSame DEF Inv, TypeOK, HandleRequest, apVars
<1>2. SysTypeOK'
  BY SysTypeOKSame DEF Inv, TypeOK, HandleRequest, sysVars
<1>3. HttpdTypeOK'
  BY HttpdTypeOKSame DEF Inv, TypeOK, HandleRequest, httpdVars
<1>4. SendTypeOK'
  BY SendTypeOKSame DEF Inv, TypeOK, HandleRequest, sendVars
<1>5. Fresh'
  BY FreshSame DEF Inv, HandleRequest, sysVars, httpdVars, taskVars
<1>6. ServerHandle'
  BY ServerHandleSame DEF Inv, HandleRequest, sysVars, httpdVars
<1>7. Objects'
  BY ObjectsSame DEF Inv, HandleRequest, taskVars
<1>8. NoTaskForgotten'
  BY NoTaskForgottenSame DEF Inv, HandleRequest, sysVars, taskVars
<1>9. Safe'
  BY SafeSame DEF Inv, HandleRequest, sysVars, httpdVars, taskVars, sendVars
<1>10. TaskTypeOK'
  BY LifecycleAssumption DEF Inv, HandleRequest, UseKeepAlive, Live,
         TaskTypeOK, TypeOK, taskVars, ServerHandle, Running, StopSteps,
         SysTypeOK, Fresh, Generations, KeepAliveHandle
<1>11. HistoryTypeOK'
  BY LifecycleAssumption DEF Inv, HandleRequest, UseKeepAlive, Live,
         HistoryTypeOK, TypeOK, Faults, ServerHandle, Running, StopSteps,
         SysTypeOK, Fresh, Generations
<1>12. KeepAliveHandle'
  BY LifecycleAssumption DEF Inv, HandleRequest, UseKeepAlive, Live,
         KeepAliveHandle, StartSteps, sysVars, taskVars, ServerHandle, Running
<1>13. OnlyRiskyStopsFault'
  <2>. SUFFICES ASSUME ~risky  PROVE fault' = None
    BY DEF OnlyRiskyStopsFault, HandleRequest
  <2>1. server = g
    BY DEF Inv, Safe, UsedBySessions, Running, HandleRequest
  <2>2. server # None /\ pc \in {"idle", "register", "set context"}
    BY <2>1, GenerationFacts DEF Inv, ServerHandle
  <2>3. keep_alive # None
    BY <2>2 DEF Inv, KeepAliveHandle, StartSteps
  <2>4. keep_alive = gen /\ Live(gen)
    BY <2>2, <2>3 DEF Inv, KeepAliveHandle
  <2>. QED  BY <2>3, <2>4 DEF HandleRequest, UseKeepAlive, Live
<1>. QED  BY <1>1, <1>2, <1>3, <1>4, <1>5, <1>6, <1>7, <1>8, <1>9, <1>10,
         <1>11, <1>12, <1>13 DEF Inv, TypeOK

LEMMA CloseSessionInv ==
    ASSUME Inv, fault = None, NEW g \in Generations, CloseSession(g)
    PROVE  Inv'
<1>1. ApTypeOK'
  BY ApTypeOKSame DEF Inv, TypeOK, CloseSession, apVars
<1>2. SysTypeOK'
  BY SysTypeOKSame DEF Inv, TypeOK, CloseSession, sysVars
<1>3. TaskTypeOK'
  BY TaskTypeOKSame DEF Inv, TypeOK, CloseSession, taskVars
<1>4. SendTypeOK'
  BY SendTypeOKSame DEF Inv, TypeOK, CloseSession, sendVars
<1>5. ServerHandle'
  BY ServerHandleSame DEF Inv, CloseSession, sysVars, httpdVars
<1>6. Objects'
  BY ObjectsSame DEF Inv, CloseSession, taskVars
<1>7. NoTaskForgotten'
  BY NoTaskForgottenSame DEF Inv, CloseSession, sysVars, taskVars
<1>8. HttpdTypeOK'
  <2>1. sessions[g] \in 0..MaxSessions
    BY DEF Inv, TypeOK, HttpdTypeOK
  <2>2. sessions[g] - 1 \in 0..MaxSessions
    BY <2>1, LifecycleAssumption DEF CloseSession
  <2>3. sessions' = [sessions EXCEPT ![g] = sessions[g] - 1]
    BY DEF CloseSession
  <2>. QED  BY <2>2, <2>3 DEF Inv, TypeOK, HttpdTypeOK, CloseSession
<1>9. HistoryTypeOK'
  BY LifecycleAssumption DEF Inv, CloseSession, UseKeepAlive, Live, Running,
         HistoryTypeOK, TypeOK, Faults, ServerHandle, StopSteps, SysTypeOK,
         Fresh, Generations
<1>10. Fresh'
  BY LifecycleAssumption DEF Inv, CloseSession, UseKeepAlive, Live, Running,
         Fresh, Unborn, sysVars, httpdVars, taskVars, HttpdTypeOK, TypeOK,
         ServerHandle
<1>11. KeepAliveHandle'
  BY LifecycleAssumption DEF Inv, CloseSession, UseKeepAlive, Live, Running,
         KeepAliveHandle, StartSteps, sysVars, taskVars, ServerHandle
<1>12. Safe'
  BY LifecycleAssumption DEF Inv, CloseSession, UseKeepAlive, Live, Running,
         Safe, UsedBySessions, UsedBySweeps, UsedByWork, UsedBySender,
         sysVars, httpdVars, taskVars, sendVars, HttpdTypeOK, TypeOK,
         ServerHandle
<1>13. OnlyRiskyStopsFault'
  <2>. SUFFICES ASSUME ~risky  PROVE fault' = None
    BY DEF OnlyRiskyStopsFault, CloseSession
  <2>1. server = g
    BY DEF Inv, Safe, UsedBySessions, Running, CloseSession
  <2>2. server # None /\ pc \in {"idle", "register", "set context"}
    BY <2>1, GenerationFacts DEF Inv, ServerHandle
  <2>3. keep_alive # None
    BY <2>2 DEF Inv, KeepAliveHandle, StartSteps
  <2>4. keep_alive = gen /\ Live(gen)
    BY <2>2, <2>3 DEF Inv, KeepAliveHandle
  <2>. QED  BY <2>3, <2>4 DEF CloseSession, UseKeepAlive, Live
<1>. QED  BY <1>1, <1>2, <1>3, <1>4, <1>5, <1>6, <1>7, <1>8, <1>9, <1>10,
         <1>11, <1>12, <1>13 DEF Inv, TypeOK

LEMMA DoWorkInv ==
    ASSUME Inv, fault = None, NEW g \in Generations, DoWork(g)
    PROVE  Inv'
<1>1. ApTypeOK'
  BY ApTypeOKSame DEF Inv, TypeOK, DoWork, apVars
<1>2. SysTypeOK'
  BY SysTypeOKSame DEF Inv, TypeOK, DoWork, sysVars
<1>3. TaskTypeOK'
  BY TaskTypeOKSame DEF Inv, TypeOK, DoWork, taskVars
<1>4. SendTypeOK'
  BY SendTypeOKSame DEF Inv, TypeOK, DoWork, sendVars
<1>5. Fresh'
  BY FreshSame DEF Inv, DoWork, sysVars, httpdVars, taskVars
<1>6. ServerHandle'
  BY ServerHandleSame DEF Inv, DoWork, sysVars, httpdVars
<1>7. Objects'
  BY ObjectsSame DEF Inv, DoWork, taskVars
<1>8. NoTaskForgotten'
  BY NoTaskForgottenSame DEF Inv, DoWork, sysVars, taskVars
<1>9. HttpdTypeOK'
  BY LifecycleAssumption DEF Inv, DoWork, Running, HttpdTypeOK, TypeOK,
         httpdVars, ServerHandle, StopSteps, SysTypeOK, Fresh, Generations
<1>10. HistoryTypeOK'
  BY LifecycleAssumption DEF Inv, DoWork, Running, HistoryTypeOK, TypeOK,
         Faults, ServerHandle, StopSteps, SysTypeOK, Fresh, Generations
<1>11. KeepAliveHandle'
  BY LifecycleAssumption DEF Inv, DoWork, Running, KeepAliveHandle, Live,
         StartSteps, sysVars, taskVars, ServerHandle
<1>12. Safe'
  BY LifecycleAssumption DEF Inv, DoWork, Running, Safe, UsedBySessions,
         UsedBySweeps, UsedByWork, UsedBySender, sysVars, httpdVars, taskVars,
         sendVars, HttpdTypeOK, TypeOK, ServerHandle
<1>13. OnlyRiskyStopsFault'
  BY LifecycleAssumption DEF Inv, DoWork, Running, OnlyRiskyStopsFault,
         ServerHandle, KeepAliveHandle, Live, StartSteps, Safe,
         UsedBySessions, UsedBySweeps, UsedByWork, UsedBySender, Objects
<1>. QED  BY <1>1, <1>2, <1>3, <1>4, <1>5, <1>6, <1>7, <1>8, <1>9, <1>10,
         <1>11, <1>12, <1>13 DEF Inv, TypeOK

LEMMA BeginSweepInv ==
    ASSUME Inv, fault = None, NEW g \in Generations, BeginSweep(g)
    PROVE  Inv'
<1>1. ApTypeOK'
  BY ApTypeOKSame DEF Inv, TypeOK, BeginSweep, apVars
<1>2. SysTypeOK'
  BY SysTypeOKSame DEF Inv, TypeOK, BeginSweep, sysVars
<1>3. HttpdTypeOK'
  BY HttpdTypeOKSame DEF Inv, TypeOK, BeginSweep, httpdVars
<1>4. SendTypeOK'
  BY SendTypeOKSame DEF Inv, TypeOK, BeginSweep, sendVars
<1>5. ServerHandle'
  BY ServerHandleSame DEF Inv, BeginSweep, sysVars, httpdVars
<1>6. TaskTypeOK'
  BY LifecycleAssumption DEF Inv, BeginSweep, TaskTypeOK, TypeOK, taskVars,
         ServerHandle, Running, StopSteps, SysTypeOK, Fresh, Generations,
         KeepAliveHandle
<1>7. HistoryTypeOK'
  BY LifecycleAssumption DEF Inv, BeginSweep, HistoryTypeOK, TypeOK, Faults,
         ServerHandle, Running, StopSteps, SysTypeOK, Fresh, Generations
<1>8. Fresh'
  BY LifecycleAssumption DEF Inv, BeginSweep, Fresh, Unborn, sysVars,
         httpdVars, taskVars, TaskTypeOK, TypeOK, ServerHandle, Running
<1>9. KeepAliveHandle'
  BY LifecycleAssumption DEF Inv, BeginSweep, KeepAliveHandle, Live,
         StartSteps, sysVars, taskVars, TaskTypeOK, TypeOK, ServerHandle,
         Running
<1>10. Objects'
  BY LifecycleAssumption DEF Inv, BeginSweep, Objects, taskVars, TaskTypeOK,
         TypeOK, ServerHandle, Running, KeepAliveHandle, Live, StartSteps
<1>11. NoTaskForgotten'
  BY LifecycleAssumption DEF Inv, BeginSweep, NoTaskForgotten, Live, sysVars,
         taskVars, TaskTypeOK, TypeOK, ServerHandle, Running, KeepAliveHandle,
         StartSteps
<1>12. Safe'
  BY LifecycleAssumption DEF Inv, BeginSweep, Safe, UsedBySessions,
         UsedBySweeps, UsedByWork, UsedBySender, Running, sysVars, httpdVars,
         sendVars, TaskTypeOK, TypeOK, ServerHandle
<1>13. OnlyRiskyStopsFault'
  BY LifecycleAssumption DEF Inv, BeginSweep, OnlyRiskyStopsFault,
         ServerHandle, Running, KeepAliveHandle, Live, StartSteps, Safe,
         UsedBySessions, UsedBySweeps, UsedByWork, UsedBySender, Objects
<1>. QED  BY <1>1, <1>2, <1>3, <1>4, <1>5, <1>6, <1>7, <1>8, <1>9, <1>10,
         <1>11, <1>12, <1>13 DEF Inv, TypeOK

LEMMA CallbackInv ==
    ASSUME Inv, fault = None, NEW g \in Generations, Callback(g)
    PROVE  Inv'
<1>1. ApTypeOK'
  BY ApTypeOKSame DEF Inv, TypeOK, Callback, apVars
<1>2. SysTypeOK'
  BY SysTypeOKSame DEF Inv, TypeOK, Callback, sysVars
<1>3. HttpdTypeOK'
  BY HttpdTypeOKSame DEF Inv, TypeOK, Callback, httpdVars
<1>4. TaskTypeOK'
  BY TaskTypeOKSame DEF Inv, TypeOK, Callback, taskVars
<1>5. SendTypeOK'
  BY SendTypeOKSame DEF Inv, TypeOK, Callback, sendVars
<1>6. Fresh'
  BY FreshSame DEF Inv, Callback, sysVars, httpdVars, taskVars
<1>7. ServerHandle'
  BY ServerHandleSame DEF Inv, Callback, sysVars, httpdVars
<1>8. Objects'
  BY ObjectsSame DEF Inv, Callback, taskVars
<1>9. NoTaskForgotten'
  BY NoTaskForgottenSame DEF Inv, Callback, sysVars, taskVars
<1>10. Safe'
  BY SafeSame DEF Inv, Callback, sysVars, httpdVars, taskVars, sendVars
<1>11. HistoryTypeOK'
  BY LifecycleAssumption DEF Inv, Callback, Running, HistoryTypeOK, TypeOK,
         Faults, ServerHandle, StopSteps, SysTypeOK, Fresh, Generations
<1>12. KeepAliveHandle'
  BY LifecycleAssumption DEF Inv, Callback, Running, KeepAliveHandle, Live,
         StartSteps, sysVars, taskVars, ServerHandle
<1>13. OnlyRiskyStopsFault'
  BY LifecycleAssumption DEF Inv, Callback, Running, OnlyRiskyStopsFault,
         ServerHandle, KeepAliveHandle, Live, StartSteps, Safe,
         UsedBySessions, UsedBySweeps, UsedByWork, UsedBySender, Objects
<1>. QED  BY <1>1, <1>2, <1>3, <1>4, <1>5, <1>6, <1>7, <1>8, <1>9, <1>10,
         <1>11, <1>12, <1>13 DEF Inv, TypeOK

LEMMA EndSweepInv ==
    ASSUME Inv, fault = None, NEW g \in Generations, EndSweep(g)
    PROVE  Inv'
<1>1. ApTypeOK'
  BY ApTypeOKSame DEF Inv, TypeOK, EndSweep, apVars
<1>2. SysTypeOK'
  BY SysTypeOKSame DEF Inv, TypeOK, EndSweep, sysVars
<1>3. HttpdTypeOK'
  BY HttpdTypeOKSame DEF Inv, TypeOK, EndSweep, httpdVars
<1>4. SendTypeOK'
  BY SendTypeOKSame DEF Inv, TypeOK, EndSweep, sendVars
<1>5. HistoryTypeOK'
  BY HistoryTypeOKSame DEF Inv, TypeOK, EndSweep
<1>6. ServerHandle'
  BY ServerHandleSame DEF Inv, EndSweep, sysVars, httpdVars
<1>7. OnlyRiskyStopsFault'
  BY OnlyRiskyStopsFaultSame DEF Inv, EndSweep
<1>8. TaskTypeOK'
  BY LifecycleAssumption DEF Inv, EndSweep, TaskTypeOK, TypeOK, taskVars,
         ServerHandle, Running, StopSteps, SysTypeOK, Fresh, Generations,
         KeepAliveHandle
<1>9. Fresh'
  BY LifecycleAssumption DEF Inv, EndSweep, Fresh, Unborn, sysVars, httpdVars,
         taskVars, TaskTypeOK, TypeOK, ServerHandle, Running
<1>10. KeepAliveHandle'
  BY LifecycleAssumption DEF Inv, EndSweep, KeepAliveHandle, Live, StartSteps,
         sysVars, taskVars, TaskTypeOK, TypeOK, ServerHandle, Running
<1>11. Objects'
  BY LifecycleAssumption DEF Inv, EndSweep, Objects, taskVars, TaskTypeOK,
         TypeOK, ServerHandle, Running, KeepAliveHandle, Live, StartSteps
<1>12. NoTaskForgotten'
  BY LifecycleAssumption DEF Inv, EndSweep, NoTaskForgotten, Live, sysVars,
         taskVars, TaskTypeOK, TypeOK, ServerHandle, Running, KeepAliveHandle,
         StartSteps
<1>13. Safe'
  BY LifecycleAssumption DEF Inv, EndSweep, Safe, UsedBySessions,
         UsedBySweeps, UsedByWork, UsedBySender, Running, sysVars, httpdVars,
         sendVars, TaskTypeOK, TypeOK, ServerHandle
<1>. QED  BY <1>1, <1>2, <1>3, <1>4, <1>5, <1>6, <1>7, <1>8, <1>9, <1>10,
         <1>11, <1>12, <1>13 DEF Inv, TypeOK

LEMMA HandleStopInv ==
    ASSUME Inv, fault = None, NEW g \in Generations, HandleStop(g)
    PROVE  Inv'
<1>1. ApTypeOK'
  BY ApTypeOKSame DEF Inv, TypeOK, HandleStop, apVars
<1>2. SysTypeOK'
  BY SysTypeOKSame DEF Inv, TypeOK, HandleStop, sysVars
<1>3. HttpdTypeOK'
  BY HttpdTypeOKSame DEF Inv, TypeOK, HandleStop, httpdVars
<1>4. SendTypeOK'
  BY SendTypeOKSame DEF Inv, TypeOK, HandleStop, sendVars
<1>5. HistoryTypeOK'
  BY DEF Inv, TypeOK, HandleStop, MayFault, HistoryTypeOK, Faults
<1>6. ServerHandle'
  BY ServerHandleSame DEF Inv, HandleStop, sysVars, httpdVars
<1>7. OnlyRiskyStopsFault'
  <2>1. storage'[g] = "freed" /\ httpd' = httpd
    BY DEF Inv, HandleStop, TypeOK, TaskTypeOK, httpdVars
  <2>2. CASE fault' = None
    BY <2>2 DEF OnlyRiskyStopsFault
  <2>3. CASE fault' # None
    <3>1. fault' = "storage freed twice" /\ Released(g)
      BY <2>3 DEF HandleStop, MayFault
    <3>. QED  BY <2>1, <3>1 DEF OnlyRiskyStopsFault, Released
  <2>. QED  BY <2>2, <2>3
<1>8. TaskTypeOK'
  BY LifecycleAssumption DEF Inv, HandleStop, TaskTypeOK, TypeOK, taskVars,
         ServerHandle, Running, StopSteps, SysTypeOK, Fresh, Generations,
         KeepAliveHandle
<1>9. Fresh'
  BY LifecycleAssumption DEF Inv, HandleStop, Fresh, Unborn, sysVars,
         httpdVars, taskVars, TaskTypeOK, TypeOK, ServerHandle, Running
<1>10. KeepAliveHandle'
  BY LifecycleAssumption DEF Inv, HandleStop, KeepAliveHandle, Live,
         StartSteps, sysVars, taskVars, TaskTypeOK, TypeOK, ServerHandle,
         Running
<1>11. Objects'
  BY LifecycleAssumption DEF Inv, HandleStop, Objects, taskVars, TaskTypeOK,
         TypeOK, ServerHandle, Running, KeepAliveHandle, Live, StartSteps
<1>12. NoTaskForgotten'
  BY LifecycleAssumption DEF Inv, HandleStop, NoTaskForgotten, Live, sysVars,
         taskVars, TaskTypeOK, TypeOK, ServerHandle, Running, KeepAliveHandle,
         StartSteps
<1>13. Safe'
  BY LifecycleAssumption DEF Inv, HandleStop, Safe, UsedBySessions,
         UsedBySweeps, UsedByWork, UsedBySender, Running, sysVars, httpdVars,
         sendVars, TaskTypeOK, TypeOK, ServerHandle
<1>. QED  BY <1>1, <1>2, <1>3, <1>4, <1>5, <1>6, <1>7, <1>8, <1>9, <1>10,
         <1>11, <1>12, <1>13 DEF Inv, TypeOK

LEMMA UseReleasedInv ==
    ASSUME Inv, fault = None, NEW g \in Generations, UseReleased(g)
    PROVE  Inv'
<1>1. ApTypeOK'
  BY ApTypeOKSame DEF Inv, TypeOK, UseReleased, apVars
<1>2. SysTypeOK'
  BY SysTypeOKSame DEF Inv, TypeOK, UseReleased, sysVars
<1>3. HttpdTypeOK'
  BY HttpdTypeOKSame DEF Inv, TypeOK, UseReleased, httpdVars
<1>4. TaskTypeOK'
  BY TaskTypeOKSame DEF Inv, TypeOK, UseReleased, taskVars
<1>5. SendTypeOK'
  BY SendTypeOKSame DEF Inv, TypeOK, UseReleased, sendVars
<1>6. Fresh'
  BY FreshSame DEF Inv, UseReleased, sysVars, httpdVars, taskVars
<1>7. ServerHandle'
  BY ServerHandleSame DEF Inv, UseReleased, sysVars, httpdVars
<1>8. Objects'
  BY ObjectsSame DEF Inv, UseReleased, taskVars
<1>9. NoTaskForgotten'
  BY NoTaskForgottenSame DEF Inv, UseReleased, sysVars, taskVars
<1>10. Safe'
  BY SafeSame DEF Inv, UseReleased, sysVars, httpdVars, taskVars, sendVars
<1>11. HistoryTypeOK'
  BY DEF Inv, UseReleased, HistoryTypeOK, TypeOK, Faults
<1>12. KeepAliveHandle'
  <2>1. UNCHANGED <<keep_alive, gen, pc, storage, stop, server, ctx, risky>>
    BY DEF UseReleased, sysVars, taskVars
  <2>. QED  BY <2>1 DEF Inv, KeepAliveHandle, Live, StartSteps
<1>13. OnlyRiskyStopsFault'
  <2>1. UNCHANGED <<httpd, storage>> /\ fault' = "monitor after httpd"
    BY DEF UseReleased, httpdVars, taskVars
  <2>. QED  BY <2>1 DEF OnlyRiskyStopsFault, UseReleased, Released, Live
<1>. QED  BY <1>1, <1>2, <1>3, <1>4, <1>5, <1>6, <1>7, <1>8, <1>9, <1>10,
         <1>11, <1>12, <1>13 DEF Inv, TypeOK

LEMMA TestServerInv ==
    ASSUME Inv, fault = None, TestServer
    PROVE  Inv'
<1>1. ApTypeOK'
  BY ApTypeOKSame DEF Inv, TypeOK, TestServer, apVars
<1>2. SysTypeOK'
  BY SysTypeOKSame DEF Inv, TypeOK, TestServer, sysVars
<1>3. HttpdTypeOK'
  BY HttpdTypeOKSame DEF Inv, TypeOK, TestServer, httpdVars
<1>4. TaskTypeOK'
  BY TaskTypeOKSame DEF Inv, TypeOK, TestServer, taskVars
<1>5. HistoryTypeOK'
  BY HistoryTypeOKSame DEF Inv, TypeOK, TestServer
<1>6. Fresh'
  BY FreshSame DEF Inv, TestServer, sysVars, httpdVars, taskVars
<1>7. ServerHandle'
  BY ServerHandleSame DEF Inv, TestServer, sysVars, httpdVars
<1>8. KeepAliveHandle'
  BY KeepAliveHandleSame DEF Inv, TestServer, sysVars, taskVars
<1>9. Objects'
  BY ObjectsSame DEF Inv, TestServer, taskVars
<1>10. NoTaskForgotten'
  BY NoTaskForgottenSame DEF Inv, TestServer, sysVars, taskVars
<1>11. OnlyRiskyStopsFault'
  BY OnlyRiskyStopsFaultSame DEF Inv, TestServer
<1>12. SendTypeOK'
  BY LifecycleAssumption DEF Inv, TestServer, SendTypeOK, TypeOK, sendVars,
         ServerHandle, Running, StopSteps, SysTypeOK, Fresh, Generations
<1>13. Safe'
  BY LifecycleAssumption DEF Inv, TestServer, Safe, UsedBySessions,
         UsedBySweeps, UsedByWork, UsedBySender, Running, sysVars, httpdVars,
         taskVars, sendVars, ServerHandle
<1>. QED  BY <1>1, <1>2, <1>3, <1>4, <1>5, <1>6, <1>7, <1>8, <1>9, <1>10,
         <1>11, <1>12, <1>13 DEF Inv, TypeOK

LEMMA LoadServerInv ==
    ASSUME Inv, fault = None, LoadServer
    PROVE  Inv'
<1>1. ApTypeOK'
  BY ApTypeOKSame DEF Inv, TypeOK, LoadServer, apVars
<1>2. SysTypeOK'
  BY SysTypeOKSame DEF Inv, TypeOK, LoadServer, sysVars
<1>3. HttpdTypeOK'
  BY HttpdTypeOKSame DEF Inv, TypeOK, LoadServer, httpdVars
<1>4. TaskTypeOK'
  BY TaskTypeOKSame DEF Inv, TypeOK, LoadServer, taskVars
<1>5. HistoryTypeOK'
  BY HistoryTypeOKSame DEF Inv, TypeOK, LoadServer
<1>6. Fresh'
  BY FreshSame DEF Inv, LoadServer, sysVars, httpdVars, taskVars
<1>7. ServerHandle'
  BY ServerHandleSame DEF Inv, LoadServer, sysVars, httpdVars
<1>8. KeepAliveHandle'
  BY KeepAliveHandleSame DEF Inv, LoadServer, sysVars, taskVars
<1>9. Objects'
  BY ObjectsSame DEF Inv, LoadServer, taskVars
<1>10. NoTaskForgotten'
  BY NoTaskForgottenSame DEF Inv, LoadServer, sysVars, taskVars
<1>11. OnlyRiskyStopsFault'
  BY OnlyRiskyStopsFaultSame DEF Inv, LoadServer
<1>12. SendTypeOK'
  BY LifecycleAssumption DEF Inv, LoadServer, SendTypeOK, TypeOK, sendVars,
         ServerHandle, Running, StopSteps, SysTypeOK, Fresh, Generations
<1>13. Safe'
  BY LifecycleAssumption DEF Inv, LoadServer, Safe, UsedBySessions,
         UsedBySweeps, UsedByWork, UsedBySender, Running, sysVars, httpdVars,
         taskVars, sendVars, ServerHandle
<1>. QED  BY <1>1, <1>2, <1>3, <1>4, <1>5, <1>6, <1>7, <1>8, <1>9, <1>10,
         <1>11, <1>12, <1>13 DEF Inv, TypeOK

LEMMA PrepareInv ==
    ASSUME Inv, fault = None, Prepare
    PROVE  Inv'
<1>1. ApTypeOK'
  BY ApTypeOKSame DEF Inv, TypeOK, Prepare, apVars
<1>2. SysTypeOK'
  BY SysTypeOKSame DEF Inv, TypeOK, Prepare, sysVars
<1>3. HttpdTypeOK'
  BY HttpdTypeOKSame DEF Inv, TypeOK, Prepare, httpdVars
<1>4. TaskTypeOK'
  BY TaskTypeOKSame DEF Inv, TypeOK, Prepare, taskVars
<1>5. HistoryTypeOK'
  BY HistoryTypeOKSame DEF Inv, TypeOK, Prepare
<1>6. Fresh'
  BY FreshSame DEF Inv, Prepare, sysVars, httpdVars, taskVars
<1>7. ServerHandle'
  BY ServerHandleSame DEF Inv, Prepare, sysVars, httpdVars
<1>8. KeepAliveHandle'
  BY KeepAliveHandleSame DEF Inv, Prepare, sysVars, taskVars
<1>9. Objects'
  BY ObjectsSame DEF Inv, Prepare, taskVars
<1>10. NoTaskForgotten'
  BY NoTaskForgottenSame DEF Inv, Prepare, sysVars, taskVars
<1>11. OnlyRiskyStopsFault'
  BY OnlyRiskyStopsFaultSame DEF Inv, Prepare
<1>12. SendTypeOK'
  BY LifecycleAssumption DEF Inv, Prepare, SendTypeOK, TypeOK, sendVars,
         ServerHandle, Running, StopSteps, SysTypeOK, Fresh, Generations
<1>13. Safe'
  BY LifecycleAssumption DEF Inv, Prepare, Safe, UsedBySessions, UsedBySweeps,
         UsedByWork, UsedBySender, Running, sysVars, httpdVars, taskVars,
         sendVars, ServerHandle
<1>. QED  BY <1>1, <1>2, <1>3, <1>4, <1>5, <1>6, <1>7, <1>8, <1>9, <1>10,
         <1>11, <1>12, <1>13 DEF Inv, TypeOK

LEMMA CallHttpdInv ==
    ASSUME Inv, fault = None, CallHttpd
    PROVE  Inv'
<1>1. ApTypeOK'
  BY ApTypeOKSame DEF Inv, TypeOK, CallHttpd, apVars
<1>2. SysTypeOK'
  BY SysTypeOKSame DEF Inv, TypeOK, CallHttpd, sysVars
<1>3. TaskTypeOK'
  BY TaskTypeOKSame DEF Inv, TypeOK, CallHttpd, taskVars
<1>4. Fresh'
  BY FreshSame DEF Inv, CallHttpd, sysVars, httpdVars, taskVars
<1>5. ServerHandle'
  BY ServerHandleSame DEF Inv, CallHttpd, sysVars, httpdVars
<1>6. Objects'
  BY ObjectsSame DEF Inv, CallHttpd, taskVars
<1>7. NoTaskForgotten'
  BY NoTaskForgottenSame DEF Inv, CallHttpd, sysVars, taskVars
<1>8. HttpdTypeOK'
  <2>1. httpd' = httpd /\ sessions' = sessions
    BY DEF CallHttpd
  <2>2. handle \in Generations \cup {None} /\ loaded \in Generations \cup {None}
    BY DEF Inv, TypeOK, SendTypeOK
  <2>3. \/ work' = work
        \/ loaded \in Generations /\ work' = [work EXCEPT ![loaded] = work[loaded] \cup {handle}]
    BY <2>2 DEF CallHttpd
  <2>. QED  BY <2>1, <2>2, <2>3 DEF Inv, TypeOK, HttpdTypeOK
<1>9. SendTypeOK'
  BY LifecycleAssumption DEF Inv, CallHttpd, Running, SendTypeOK, TypeOK,
         sendVars, ServerHandle, StopSteps, SysTypeOK, Fresh, Generations
<1>10. HistoryTypeOK'
  BY LifecycleAssumption DEF Inv, CallHttpd, Running, HistoryTypeOK, TypeOK,
         Faults, ServerHandle, StopSteps, SysTypeOK, Fresh, Generations
<1>11. KeepAliveHandle'
  BY LifecycleAssumption DEF Inv, CallHttpd, Running, KeepAliveHandle, Live,
         StartSteps, sysVars, taskVars, ServerHandle
<1>12. Safe'
  <2>. SUFFICES ASSUME ~risky
                PROVE  (UsedBySessions /\ UsedBySweeps /\ UsedByWork /\ UsedBySender)'
    BY DEF Safe, CallHttpd
  <2>1. server # None /\ loaded = server /\ (sender = "in queue" => handle = server)
    BY DEF Inv, Safe, UsedBySender, CallHttpd
  <2>2. UsedBySessions' /\ UsedBySweeps'
    BY DEF Inv, Safe, UsedBySessions, UsedBySweeps, Running, CallHttpd, sysVars, taskVars
  <2>3. \/ work' = work
        \/ handle = loaded /\ work' = [work EXCEPT ![loaded] = work[loaded] \cup {handle}]
    BY <2>1 DEF CallHttpd
  <2>4. UsedByWork'
    BY <2>3 DEF Inv, TypeOK, HttpdTypeOK, Safe, UsedByWork
  <2>5. sender' \in {"idle", "info", "test again", sender} /\ loaded' = loaded
          /\ handle' = handle /\ server' = server
    BY <2>1 DEF CallHttpd, sysVars
  <2>7. sender' = sender \/ sender' \notin {"in list", "in info", "in queue", "queue"}
    BY <2>5
  <2>6. UsedBySender'
    BY <2>1, <2>5, <2>7 DEF Inv, Safe, UsedBySender
  <2>. QED  BY <2>2, <2>4, <2>6
<1>13. OnlyRiskyStopsFault'
  BY LifecycleAssumption DEF Inv, CallHttpd, Running, OnlyRiskyStopsFault,
         ServerHandle, KeepAliveHandle, Live, StartSteps, Safe,
         UsedBySessions, UsedBySweeps, UsedByWork, UsedBySender, Objects
<1>. QED  BY <1>1, <1>2, <1>3, <1>4, <1>5, <1>6, <1>7, <1>8, <1>9, <1>10,
         <1>11, <1>12, <1>13 DEF Inv, TypeOK

----------------------------------------------------------------------------
(* What the state after a restart is typed by.                             *)
LEMMA FirstFacts ==
    /\ << >> \in Seq({"START", "STOP"}) /\ Len(<< >>) <= MaxEvents
    /\ 0 \in 0..MaxStarts
<1>1. << >> \in Seq({"START", "STOP"})  OBVIOUS
<1>2. Len(<< >>) = 0  OBVIOUS
<1>. QED  BY <1>1, <1>2, LifecycleAssumption

LEMMA InitInv ==
    ASSUME Init
    PROVE  Inv
<1>1. ApTypeOK
  BY FirstFacts DEF Init, ApTypeOK
<1>2. SysTypeOK
  BY FirstFacts DEF Init, SysTypeOK, StopSteps
<1>3. HttpdTypeOK
  BY LifecycleAssumption, GenerationFacts DEF Init, HttpdTypeOK
<1>4. TaskTypeOK
  BY LifecycleAssumption, GenerationFacts DEF Init, TaskTypeOK
<1>5. SendTypeOK
  BY LifecycleAssumption, GenerationFacts DEF Init, SendTypeOK
<1>6. HistoryTypeOK
  BY LifecycleAssumption, GenerationFacts DEF Init, HistoryTypeOK, Faults
<1>7. Fresh
  BY LifecycleAssumption, GenerationFacts DEF Init, Fresh, Unborn
<1>8. ServerHandle
  BY LifecycleAssumption, GenerationFacts DEF Init, ServerHandle, StopSteps,
         Running
<1>9. KeepAliveHandle
  BY LifecycleAssumption, GenerationFacts DEF Init, KeepAliveHandle, Live,
         StartSteps
<1>10. Objects
  BY LifecycleAssumption, GenerationFacts DEF Init, Objects
<1>11. NoTaskForgotten
  BY LifecycleAssumption, GenerationFacts DEF Init, NoTaskForgotten, Live
<1>12. Safe
  BY GenerationFacts DEF Init, Safe, UsedBySessions, UsedBySweeps, UsedByWork,
         UsedBySender, Running
<1>13. OnlyRiskyStopsFault
  BY LifecycleAssumption, GenerationFacts DEF Init, OnlyRiskyStopsFault
<1>. QED  BY <1>1, <1>2, <1>3, <1>4, <1>5, <1>6, <1>7, <1>8, <1>9, <1>10,
         <1>11, <1>12, <1>13 DEF Inv, TypeOK

LEMMA RebootInv ==
    ASSUME Reboot
    PROVE  Inv'
<1>1. ApTypeOK'
  BY FirstFacts DEF Reboot, ApTypeOK
<1>2. SysTypeOK'
  BY FirstFacts DEF Reboot, SysTypeOK, StopSteps
<1>3. HttpdTypeOK'
  BY LifecycleAssumption, GenerationFacts DEF Reboot, HttpdTypeOK
<1>4. TaskTypeOK'
  BY LifecycleAssumption, GenerationFacts DEF Reboot, TaskTypeOK
<1>5. SendTypeOK'
  BY LifecycleAssumption, GenerationFacts DEF Reboot, SendTypeOK
<1>6. HistoryTypeOK'
  BY LifecycleAssumption, GenerationFacts DEF Reboot, HistoryTypeOK, Faults
<1>7. Fresh'
  BY LifecycleAssumption, GenerationFacts DEF Reboot, Fresh, Unborn
<1>8. ServerHandle'
  BY LifecycleAssumption, GenerationFacts DEF Reboot, ServerHandle, StopSteps,
         Running
<1>9. KeepAliveHandle'
  BY LifecycleAssumption, GenerationFacts DEF Reboot, KeepAliveHandle, Live,
         StartSteps
<1>10. Objects'
  BY LifecycleAssumption, GenerationFacts DEF Reboot, Objects
<1>11. NoTaskForgotten'
  BY LifecycleAssumption, GenerationFacts DEF Reboot, NoTaskForgotten, Live
<1>12. Safe'
  BY GenerationFacts DEF Reboot, Safe, UsedBySessions, UsedBySweeps,
         UsedByWork, UsedBySender, Running
<1>13. OnlyRiskyStopsFault'
  BY LifecycleAssumption, GenerationFacts DEF Reboot, OnlyRiskyStopsFault
<1>. QED  BY <1>1, <1>2, <1>3, <1>4, <1>5, <1>6, <1>7, <1>8, <1>9, <1>10,
         <1>11, <1>12, <1>13 DEF Inv, TypeOK

LEMMA SysEvtInv ==
    ASSUME Inv, fault = None, SysEvt
    PROVE  Inv'
BY StartIgnoredInv, StartInv, StartKeepAliveInv, StartHttpdInv,
         StartHttpdFailsInv, RegisterInv, SetContextInv, StopIgnoredInv,
         StopInv, StopKeepAliveInv, ForgetKeepAliveInv, StopHttpdInv,
         HttpdStoppedInv, ClearHandlersInv DEF SysEvt

LEMMA TasksInv ==
    ASSUME Inv, fault = None, NEW g \in Generations, Httpd(g) \/ KeepAliveTask(g)
    PROVE  Inv'
<1>1. CASE Httpd(g)
  BY <1>1, OpenSessionInv, HandleRequestInv, CloseSessionInv, DoWorkInv DEF Httpd
<1>2. CASE KeepAliveTask(g)
  BY <1>2, BeginSweepInv, CallbackInv, EndSweepInv, HandleStopInv, UseReleasedInv
  DEF KeepAliveTask
<1>. QED  BY <1>1, <1>2

LEMMA SenderInv ==
    ASSUME Inv, fault = None, Sender
    PROVE  Inv'
BY TestServerInv, LoadServerInv, PrepareInv, CallHttpdInv DEF Sender

LEMMA StutterInv ==
    ASSUME Inv, UNCHANGED vars
    PROVE  Inv'
<1>1. ApTypeOK'  BY ApTypeOKSame DEF Inv, TypeOK, vars
<1>2. SysTypeOK'  BY SysTypeOKSame DEF Inv, TypeOK, vars
<1>3. HttpdTypeOK'  BY HttpdTypeOKSame DEF Inv, TypeOK, vars
<1>4. TaskTypeOK'  BY TaskTypeOKSame DEF Inv, TypeOK, vars
<1>5. SendTypeOK'  BY SendTypeOKSame DEF Inv, TypeOK, vars
<1>6. HistoryTypeOK'  BY HistoryTypeOKSame DEF Inv, TypeOK, vars
<1>7. Fresh'  BY FreshSame DEF Inv, TypeOK, vars
<1>8. ServerHandle'  BY ServerHandleSame DEF Inv, TypeOK, vars
<1>9. KeepAliveHandle'  BY KeepAliveHandleSame DEF Inv, TypeOK, vars
<1>10. Objects'  BY ObjectsSame DEF Inv, TypeOK, vars
<1>11. NoTaskForgotten'  BY NoTaskForgottenSame DEF Inv, TypeOK, vars
<1>12. Safe'  BY SafeSame DEF Inv, TypeOK, vars
<1>13. OnlyRiskyStopsFault'  BY OnlyRiskyStopsFaultSame DEF Inv, TypeOK, vars
<1>. QED  BY <1>1, <1>2, <1>3, <1>4, <1>5, <1>6, <1>7, <1>8, <1>9, <1>10,
         <1>11, <1>12, <1>13 DEF Inv, TypeOK

----------------------------------------------------------------------------
(* The inductive invariant holds throughout.                               *)
THEOREM InvCorrect == Spec => []Inv
<1>1. Init => Inv  BY InitInv
<1>2. Inv /\ [Next]_vars => Inv'
  <2>. SUFFICES ASSUME Inv, [Next]_vars  PROVE Inv'
    OBVIOUS
  <2>1. CASE fault = None /\ (ApStarts \/ ApStops)
    BY <2>1, ApStartsInv, ApStopsInv
  <2>2. CASE fault = None /\ SysEvt  BY <2>2, SysEvtInv
  <2>3. CASE fault = None /\ Sender  BY <2>3, SenderInv
  <2>4. CASE fault = None /\ \E g \in Generations : Httpd(g) \/ KeepAliveTask(g)
    BY <2>4, TasksInv
  <2>5. CASE Reboot  BY <2>5, RebootInv
  <2>6. CASE UNCHANGED vars  BY <2>6, StutterInv
  <2>. QED  BY <2>1, <2>2, <2>3, <2>4, <2>5, <2>6 DEF Next
<1>. QED  BY <1>1, <1>2, PTL DEF Spec

(* Every variable keeps a value of its kind, whatever the interleaving of  *)
(* the five tasks.                                                         *)
THEOREM TypeCorrect == Spec => []TypeOK
<1>1. Inv => TypeOK  BY DEF Inv
<1>. QED  BY <1>1, InvCorrect, PTL

(* The test of server that every send begins with (websocket_server.cpp:   *)
(* 357, 377) is worth what it is meant to be: while it passes, httpd and   *)
(* the monitor are there, and belong together once the start is over.      *)
THEOREM ServerIsWholeCorrect == Spec => []ServerIsWhole
<1>1. Inv => ServerIsWhole
  <2>. SUFFICES ASSUME Inv, server # None  PROVE ServerIsWhole
    BY DEF ServerIsWhole
  <2>1. httpd[server] \in {"started", "serving"} /\ handlers /\ server = gen
    BY DEF Inv, ServerHandle
  <2>2. ASSUME pc = "idle", fault = None
        PROVE  /\ keep_alive = server
               /\ Live(server) /\ stop[server] = "no" /\ ctx[server] = server
    <3>1. keep_alive # None /\ ctx[gen] = gen  BY <2>2 DEF Inv, KeepAliveHandle
    <3>2. keep_alive = gen /\ Live(gen) /\ stop[gen] = "no"
      BY <2>2, <3>1 DEF Inv, KeepAliveHandle
    <3>. QED  BY <2>1, <3>1, <3>2
  <2>. QED  BY <2>1, <2>2 DEF ServerIsWhole
<1>. QED  BY <1>1, InvCorrect, PTL

(* No start or stop, failed or not, leaves a keep-alive task running that  *)
(* was not sent STOP_TASK (websocket_server.cpp:302, 336).                 *)
THEOREM NoTaskForgottenCorrect == Spec => []NoTaskForgotten
<1>1. Inv => NoTaskForgotten  BY DEF Inv
<1>. QED  BY <1>1, InvCorrect, PTL

(* However often the server is started and stopped, a fault needs one of   *)
(* what OnlyRiskyStopsFault names, or else it is the storage that httpd    *)
(* has freed at the end of a stop, besides the monitor                     *)
(* (websocket_server.cpp:106, keep_alive.cpp:281).                         *)
THEOREM OnlyRiskyStopsFaultCorrect == Spec => []OnlyRiskyStopsFault
<1>1. Inv => OnlyRiskyStopsFault  BY DEF Inv
<1>. QED  BY <1>1, InvCorrect, PTL

----------------------------------------------------------------------------
(* The server follows the access point.  Events alternate as the access    *)
(* point does, so what the handled ones say of it is the opposite of what  *)
(* the next one says.                                                      *)

EventsMatch ==
    ~missed =>
        /\ \A i \in 1..(Len(events) - 1) : events[i] # events[i + 1]
        /\ events # << >> => (ap <=> events[Len(events)] = "START")

Wanted == IF events = << >> THEN ap ELSE events[1] = "STOP"

ServerAsWanted ==
    /\ pc = "idle" => (server # None <=> Wanted /\ ~startFailed)
    /\ pc \in StartSteps => Wanted
    /\ pc \in {"register", "set context"} => ~startFailed
    /\ pc \in StopSteps => ~Wanted

OneHttpd ==
    \A g \in Generations :
        Running(g) /\ ~stopFailed =>
            server = g \/ (g = gen /\ pc \in StopSteps \ {"clear handlers"})

FollowInv == EventsMatch /\ (~missed => ServerAsWanted) /\ OneHttpd

(* An event posted does not change what the handled ones say.              *)
LEMMA PostWanted ==
    ASSUME ApTypeOK, EventsMatch, ApStarts \/ ApStops, ~missed'
    PROVE  ~missed /\ EventsMatch' /\ (Wanted' <=> Wanted)
<1>1. PICK e \in {"START", "STOP"} :
         Post(e) /\ (ap <=> e = "STOP") /\ (ap' <=> e = "START")
  BY DEF ApStarts, ApStops, ApTypeOK
<1>2. events' = Append(events, e) /\ ~missed
  BY <1>1 DEF Post
<1>3. events \in Seq({"START", "STOP"}) /\ Len(events) \in Nat
  BY DEF ApTypeOK
<1>4. /\ Len(events') = Len(events) + 1
      /\ \A i \in 1..Len(events) : events'[i] = events[i]
      /\ events'[Len(events) + 1] = e
      /\ events' # << >>
  BY <1>2, <1>3
<1>5. events # << >> => Len(events) >= 1 /\ events[Len(events)] # e
  BY <1>1, <1>2, <1>3 DEF EventsMatch
<1>6. ASSUME NEW i \in 1..(Len(events') - 1) PROVE events'[i] # events'[i + 1]
  <2>1. CASE i = Len(events)
    BY <1>3, <1>4, <1>5, <2>1
  <2>2. CASE i # Len(events)
    <3>1. i \in 1..(Len(events) - 1) /\ i + 1 \in 1..Len(events)
      BY <1>3, <1>4, <2>2
    <3>2. events[i] # events[i + 1]
      BY <1>2, <3>1 DEF EventsMatch
    <3>. QED BY <1>3, <1>4, <3>1, <3>2
  <2>. QED BY <2>1, <2>2
<1>7. EventsMatch'
  BY <1>1, <1>4, <1>6 DEF EventsMatch
<1>8. Wanted' <=> Wanted
  <2>1. CASE events = << >>
    <3>1. events'[1] = e
      BY <1>3, <1>4, <2>1
    <3>. QED BY <1>1, <1>4, <2>1, <3>1 DEF Wanted
  <2>2. CASE events # << >>
    BY <1>3, <1>4, <1>5, <2>2 DEF Wanted
  <2>. QED BY <2>1, <2>2
<1>. QED BY <1>2, <1>7, <1>8

(* An event handled says the opposite of those before it.                  *)
LEMMA HandlesWanted ==
    ASSUME ApTypeOK, EventsMatch, NEW e \in {"START", "STOP"}, Handles(e), ~missed
    PROVE  EventsMatch' /\ (Wanted <=> e = "STOP") /\ (Wanted' <=> e = "START")
<1>1. /\ events \in Seq({"START", "STOP"}) /\ Len(events) \in Nat /\ Len(events) >= 1
      /\ events[1] = e /\ ap' = ap /\ missed' = missed
      /\ events' \in Seq({"START", "STOP"}) /\ Len(events') = Len(events) - 1
      /\ \A i \in 1..Len(events') : events'[i] = events[i + 1]
  BY DEF ApTypeOK, Handles
<1>2. events' = << >> <=> Len(events) = 1
  BY <1>1
<1>3. ASSUME NEW i \in 1..(Len(events') - 1) PROVE events'[i] # events'[i + 1]
  <2>1. events'[i] = events[i + 1] /\ events'[i + 1] = events[i + 2]
    BY <1>1
  <2>2. events[i + 1] # events[(i + 1) + 1]
    BY <1>1 DEF EventsMatch
  <2>. QED BY <1>1, <2>1, <2>2
<1>4. events' # << >> => events'[Len(events')] = events[Len(events)]
  BY <1>1, <1>2
<1>5. EventsMatch'
  BY <1>1, <1>2, <1>3, <1>4 DEF EventsMatch
<1>6. Wanted <=> e = "STOP"
  BY <1>1 DEF Wanted
<1>7. Wanted' <=> e = "START"
  <2>1. CASE Len(events) = 1
    BY <1>1, <1>2, <2>1 DEF EventsMatch, Wanted
  <2>2. CASE Len(events) # 1
    <3>1. events[1] # events[1 + 1] /\ events'[1] = events[2]
      BY <1>1, <2>2 DEF EventsMatch
    <3>2. events[2] \in {"START", "STOP"}
      BY <1>1, <2>2
    <3>. QED BY <1>1, <1>2, <2>2, <3>1, <3>2 DEF Wanted
  <2>. QED BY <2>1, <2>2
<1>. QED BY <1>5, <1>6, <1>7

(* Steps that have nothing to do with it.                                  *)
LEMMA FollowSame ==
    ASSUME FollowInv,
           UNCHANGED <<ap, events, missed, pc, gen, server, startFailed, stopFailed, httpd>>
    PROVE  FollowInv'
BY DEF FollowInv, EventsMatch, Wanted, ServerAsWanted, OneHttpd, Running, StartSteps, StopSteps

(* Steps of sys_evt that take no event from the queue.                     *)
LEMMA WantedSame ==
    ASSUME FollowInv, UNCHANGED <<ap, events, missed>>
    PROVE  EventsMatch' /\ missed' = missed /\ (Wanted' <=> Wanted)
BY DEF FollowInv, EventsMatch, Wanted

LEMMA SysEvtFollows ==
    ASSUME Inv, FollowInv, SysEvt
    PROVE  FollowInv'
<1>. USE DEF StartSteps, StopSteps
<1>0. ApTypeOK /\ ServerHandle
  BY DEF Inv, TypeOK
<1>1. CASE StartIgnored
  <2>1. Handles("START") /\ server # None /\ pc = "idle"
    BY <1>1 DEF StartIgnored, Handles
  <2>2. missed
    BY <1>0, <2>1, HandlesWanted DEF FollowInv, ServerAsWanted
  <2>. QED
    BY <1>1, <2>1, <2>2
    DEF StartIgnored, sysVars, httpdVars, Handles, FollowInv, EventsMatch, OneHttpd, Running
<1>2. CASE Start
  <2>1. Handles("START") /\ server = None /\ server' = None /\ pc = "idle"
        /\ pc' = "start keep-alive" /\ missed' = missed
        /\ UNCHANGED <<startFailed, stopFailed, httpd>>
    BY <1>2 DEF Start, Handles, httpdVars
  <2>2. ~missed => EventsMatch' /\ Wanted'
    BY <1>0, <2>1, HandlesWanted DEF FollowInv
  <2>3. OneHttpd'
    BY <2>1 DEF FollowInv, OneHttpd, Running
  <2>. QED BY <2>1, <2>2, <2>3 DEF FollowInv, EventsMatch, ServerAsWanted
<1>3. CASE StartKeepAlive
  <2>1. UNCHANGED <<ap, events, missed, gen, server, startFailed, stopFailed, httpd>>
        /\ pc = "start keep-alive" /\ pc' = "start httpd"
    BY <1>3 DEF StartKeepAlive, apVars, httpdVars
  <2>2. OneHttpd'
    BY <2>1 DEF FollowInv, OneHttpd, Running
  <2>. QED BY <2>1, <2>2, WantedSame DEF FollowInv, ServerAsWanted
<1>4. CASE StartHttpd
  <2>1. UNCHANGED <<ap, events, missed, gen, stopFailed>>
        /\ pc = "start httpd" /\ pc' = "register" /\ server' = gen
        /\ ~startFailed' /\ gen \in Generations
        /\ \A g \in Generations : ~Running(g)
        /\ httpd' = [httpd EXCEPT ![gen] = "started"]
    BY <1>4 DEF StartHttpd, apVars, Inv, Fresh
  <2>2. OneHttpd'
    BY <2>1 DEF OneHttpd, Running, Inv, TypeOK, HttpdTypeOK
  <2>. QED BY <2>1, <2>2, WantedSame DEF FollowInv, ServerAsWanted
<1>5. CASE StartHttpdFails
  <2>1. UNCHANGED <<ap, events, missed, gen, server, stopFailed, httpd>>
        /\ pc = "start httpd" /\ pc' = "idle" /\ server = None /\ startFailed' = TRUE
    BY <1>0, <1>5 DEF StartHttpdFails, apVars, httpdVars, ServerHandle
  <2>2. OneHttpd'
    BY <2>1 DEF FollowInv, OneHttpd, Running
  <2>. QED BY <2>1, <2>2, WantedSame DEF FollowInv, ServerAsWanted
<1>6. CASE Register
  <2>1. UNCHANGED <<ap, events, missed, gen, server, startFailed, stopFailed>>
        /\ pc = "register" /\ pc' = "set context"
        /\ server = gen
        /\ httpd' \in {httpd, [httpd EXCEPT ![gen] = "serving"]}
    BY <1>0, <1>6 DEF Register, apVars, ServerHandle
  <2>2. OneHttpd'
    <3>1. ASSUME NEW g \in Generations, Running(g)', ~stopFailed'
          PROVE  server = g
      <4>1. g = gen \/ Running(g)
        BY <2>1, <3>1 DEF Running, Inv, TypeOK, HttpdTypeOK
      <4>. QED BY <2>1, <3>1, <4>1 DEF FollowInv, OneHttpd
    <3>. QED BY <2>1, <3>1 DEF OneHttpd
  <2>. QED BY <2>1, <2>2, WantedSame DEF FollowInv, ServerAsWanted
<1>7. CASE SetContext
  <2>1. UNCHANGED <<ap, events, missed, gen, server, startFailed, stopFailed, httpd>>
        /\ pc = "set context" /\ pc' = "idle" /\ server # None
    BY <1>0, <1>7 DEF SetContext, apVars, httpdVars, ServerHandle
  <2>2. OneHttpd'
    BY <2>1 DEF FollowInv, OneHttpd, Running
  <2>. QED BY <2>1, <2>2, WantedSame DEF FollowInv, ServerAsWanted
<1>8. CASE StopIgnored
  <2>1. Handles("STOP") /\ pc = "idle" /\ server = None /\ missed' = missed
        /\ UNCHANGED <<pc, gen, server, startFailed, stopFailed, httpd>>
    BY <1>8 DEF StopIgnored, Handles, sysVars, httpdVars
  <2>2. ~missed => EventsMatch' /\ ~Wanted'
    BY <1>0, <2>1, HandlesWanted DEF FollowInv
  <2>3. OneHttpd'
    BY <2>1 DEF FollowInv, OneHttpd, Running
  <2>. QED BY <2>1, <2>2, <2>3 DEF FollowInv, EventsMatch, ServerAsWanted
<1>9. CASE Stop
  <2>1. Handles("STOP") /\ server' = None /\ pc' = "stop keep-alive"
        /\ server = gen /\ missed' = missed
        /\ UNCHANGED <<gen, startFailed, stopFailed, httpd>>
    BY <1>0, <1>9 DEF Stop, Handles, httpdVars, ServerHandle
  <2>2. ~missed => EventsMatch' /\ ~Wanted'
    BY <1>0, <2>1, HandlesWanted DEF FollowInv
  <2>3. OneHttpd'
    <3>1. pc = "idle"
      BY <2>1 DEF Handles
    <3>. QED BY <2>1, <3>1 DEF FollowInv, OneHttpd, Running
  <2>. QED BY <2>1, <2>2, <2>3 DEF FollowInv, EventsMatch, ServerAsWanted
<1>10. CASE StopKeepAlive \/ ForgetKeepAlive
  <2>1. UNCHANGED <<ap, events, missed, gen, server, startFailed, stopFailed, httpd>>
        /\ pc \in StopSteps \ {"clear handlers"} /\ pc' \in StopSteps \ {"clear handlers"}
    BY <1>10 DEF StopKeepAlive, ForgetKeepAlive, apVars, httpdVars
  <2>2. OneHttpd'
    BY <2>1 DEF FollowInv, OneHttpd, Running
  <2>. QED BY <2>1, <2>2, WantedSame DEF FollowInv, ServerAsWanted
<1>11. CASE StopHttpd
  <2>1. UNCHANGED <<ap, events, missed, gen, server, startFailed>>
        /\ pc = "stop httpd" /\ pc' \in {"await httpd", "clear handlers"}
    BY <1>11 DEF StopHttpd, apVars
  <2>2. OneHttpd'
    <3>1. CASE stopFailed' = TRUE
      BY <3>1 DEF OneHttpd
    <3>2. CASE /\ httpd' = [httpd EXCEPT ![gen] = "closing"]
               /\ pc' = "await httpd" /\ stopFailed' = stopFailed
      <4>1. ASSUME NEW g \in Generations, Running(g)', ~stopFailed'
            PROVE  g = gen
        <5>1. g = gen \/ Running(g)
          BY <3>2, <4>1 DEF Running, Inv, TypeOK, HttpdTypeOK
        <5>2. server # g
          BY <1>0, <2>1, GenerationFacts DEF ServerHandle
        <5>3. Running(g) => g = gen
          BY <3>2, <4>1, <5>2 DEF FollowInv, OneHttpd
        <5>. QED BY <5>1, <5>3
      <4>. QED BY <2>1, <3>2, <4>1 DEF OneHttpd
    <3>. QED BY <1>11, <3>1, <3>2 DEF StopHttpd
  <2>. QED BY <2>1, <2>2, WantedSame DEF FollowInv, ServerAsWanted
<1>12. CASE HttpdStopped
  <2>1. UNCHANGED <<ap, events, missed, gen, server, startFailed, stopFailed>>
        /\ pc = "await httpd" /\ pc' = "clear handlers"
        /\ gen \in Generations /\ server = None
        /\ httpd' = [httpd EXCEPT ![gen] = "stopped"]
    BY <1>0, <1>12 DEF HttpdStopped, apVars, ServerHandle
  <2>2. OneHttpd'
    <3>1. ASSUME NEW g \in Generations, Running(g)', ~stopFailed'
          PROVE  FALSE
      <4>1. g # gen /\ Running(g)
        BY <2>1, <3>1 DEF Running, Inv, TypeOK, HttpdTypeOK
      <4>. QED BY <2>1, <3>1, <4>1, GenerationFacts DEF FollowInv, OneHttpd
    <3>. QED BY <3>1 DEF OneHttpd
  <2>. QED BY <2>1, <2>2, WantedSame DEF FollowInv, ServerAsWanted
<1>13. CASE ClearHandlers
  <2>1. UNCHANGED <<ap, events, missed, gen, server, startFailed, stopFailed, httpd>>
        /\ pc = "clear handlers" /\ pc' = "idle" /\ server = None
    BY <1>0, <1>13 DEF ClearHandlers, apVars, httpdVars, ServerHandle
  <2>2. OneHttpd'
    BY <2>1 DEF FollowInv, OneHttpd, Running
  <2>. QED BY <2>1, <2>2, WantedSame DEF FollowInv, ServerAsWanted
<1>. QED
  BY <1>1, <1>2, <1>3, <1>4, <1>5, <1>6, <1>7, <1>8, <1>9, <1>10, <1>11, <1>12,
     <1>13 DEF SysEvt

(* With no event pending or lost, the server runs exactly if the access    *)
(* point does and the last start succeeded (wifi_event_handler.cpp), for   *)
(* any number of events and starts.                                        *)
THEOREM ServerFollowsApCorrect == Spec => []ServerFollowsAp
<1>1. Init => FollowInv
  BY DEF Init, FollowInv, EventsMatch, Wanted, ServerAsWanted, OneHttpd, Running,
         StartSteps, StopSteps
<1>2. Inv /\ FollowInv /\ [Next]_vars => FollowInv'
  <2>. SUFFICES ASSUME Inv, FollowInv, [Next]_vars  PROVE FollowInv'
    OBVIOUS
  <2>1. CASE ApStarts \/ ApStops
    <3>1. UNCHANGED <<pc, gen, server, startFailed, stopFailed, httpd>>
      BY <2>1 DEF ApStarts, ApStops, sysVars, httpdVars
    <3>2. OneHttpd'
      BY <3>1 DEF FollowInv, OneHttpd, Running
    <3>3. CASE missed'
      BY <3>2, <3>3 DEF FollowInv, EventsMatch
    <3>4. CASE ~missed'
      <4>1. ~missed /\ EventsMatch' /\ (Wanted' <=> Wanted)
        BY <2>1, <3>4, PostWanted DEF Inv, TypeOK, FollowInv
      <4>. QED BY <3>1, <3>2, <4>1 DEF FollowInv, ServerAsWanted
    <3>. QED BY <3>3, <3>4
  <2>2. CASE SysEvt  BY <2>2, SysEvtFollows
  <2>3. CASE Sender
    BY <2>3, FollowSame
    DEF Sender, TestServer, LoadServer, Prepare, CallHttpd, apVars, sysVars, httpdVars
  <2>4. ASSUME NEW g \in Generations, Httpd(g) \/ KeepAliveTask(g)  PROVE FollowInv'
    BY <2>4, FollowSame
    DEF Httpd, OpenSession, HandleRequest, CloseSession, DoWork, KeepAliveTask,
        BeginSweep, Callback, EndSweep, HandleStop, UseReleased, apVars, sysVars,
        httpdVars
  <2>5. CASE Reboot
    <3>1. EventsMatch' /\ OneHttpd'
      BY <2>5 DEF Reboot, EventsMatch, OneHttpd, Running
    <3>2. ServerAsWanted'
      BY <2>5 DEF Reboot, Wanted, ServerAsWanted, StartSteps, StopSteps
    <3>. QED BY <3>1, <3>2 DEF FollowInv
  <2>6. CASE UNCHANGED vars  BY <2>6, FollowSame DEF vars
  <2>. QED  BY <2>1, <2>2, <2>3, <2>4, <2>5, <2>6 DEF Next
<1>3. FollowInv => ServerFollowsAp
  BY DEF FollowInv, ServerFollowsAp, ServerAsWanted, Wanted, OneHttpd, StopSteps
<1>. QED  BY <1>1, <1>2, <1>3, InvCorrect, PTL DEF Spec
=============================================================================
