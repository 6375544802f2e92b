------------------------- MODULE ProvisioningProofs -------------------------
(***************************************************************************)
(* Proofs about the start of the board and what is set up on it, for any   *)
(* networks, roles and length of the event queue.                          *)
(***************************************************************************)
EXTENDS Provisioning, TLAPS

USE ProvisioningAssumption

----------------------------------------------------------------------------
(* The invariant.                                                          *)

WifiSteps ==
    {"open", "set ssid", "set password", "commit", "disconnect", "configure", "connect"}

ThreadSteps == {"if up", "start", "stop", "if down", "set dataset"}

(* A command is answered when it is over, and has the steps of its own.    *)
Underway ==
    /\ pc # "idle" => answer = None
    /\ pc \in ThreadSteps => command \in {"enable", "disable", "dataset"}

(* Without an access point there is no command, and nothing has happened   *)
(* in the Thread stack.                                                    *)
Quiet ==
    ~ap => /\ pc = "idle" /\ answer = None
           /\ events = << >> /\ role = "disabled" /\ thread = Thread!NoThread

(* How far a save of credentials has come.                                 *)
Saved ==
    /\ pc \in {"open", "set ssid"} => ~refused
    /\ pc = "set password" /\ refused => interrupted
    /\ pc = "set password" /\ ~refused => stored.ssid = command
    /\ pc \in {"commit", "disconnect", "configure", "connect"} /\ ~refused
         => stored = [ssid |-> command, password |-> command]
    /\ pc = "connect" => sta = Wifi!Configuration(command, command)

(* Thread is started after its interface and stopped before it.            *)
Ordered ==
    /\ pc = "start" => ifUp
    /\ pc = "if down" => role = "disabled"

(* The events of three kinds, and the one that the role r calls for.       *)
OnOff == {"START", "STOP"}
Link == {"ATTACHED", "DETACHED"}
Change == {"ROLE_CHANGED"}
SwitchEvent(r) == IF r = "disabled" THEN "STOP" ELSE "START"
LinkEvent(r) == IF r \in AttachedRoles THEN "ATTACHED" ELSE "DETACHED"

NoneOf(q, K) == \A i \in 1..Len(q) : q[i] \notin K

(* e is the last event of kind K in q.                                     *)
LastOf(q, K, e) ==
    \E i \in 1..Len(q) : q[i] = e /\ \A j \in (i + 1)..Len(q) : q[j] \notin K

(* For each field of the runtime state, the last pending event about it is *)
(* that of the present role; with none pending, the field is right.        *)
Mirrored ==
    ~lost =>
        /\ \/ LastOf(events, OnOff, SwitchEvent(role))
           \/ NoneOf(events, OnOff) /\ thread.enabled = (role # "disabled")
        /\ \/ LastOf(events, Link, LinkEvent(role))
           \/ NoneOf(events, Link) /\ thread.attached = (role \in AttachedRoles)
        /\ \/ LastOf(events, Change, "ROLE_CHANGED")
           \/ NoneOf(events, Change) /\ thread.role = role

DatasetKnown == thread.dataset_present => dataset

Inv ==
    /\ TypeOK /\ ApStaysUp /\ Underway /\ Quiet
    /\ Saved /\ StoredIsWhole /\ OkIsStored
    /\ Ordered /\ OrderAccepted
    /\ Mirrored /\ DatasetKnown

----------------------------------------------------------------------------
(* Sequences of events.                                                    *)

LEMMA NoEvent == << >> \in Seq(Thread!Events) /\ \A K : NoneOf(<< >>, K)
  BY DEF NoneOf

LEMMA OneEvent ==
    ASSUME NEW e \in Thread!Events
    PROVE  /\ <<e>> \in Seq(Thread!Events)
           /\ \A K : LastOf(<<e>>, K, e) /\ (e \notin K => NoneOf(<<e>>, K))
  BY DEF NoneOf, LastOf

(* What is appended decides, unless nothing of the kind is in it.          *)
LEMMA Appended ==
    ASSUME NEW q \in Seq(Thread!Events), NEW p \in Seq(Thread!Events), NEW K
    PROVE  /\ \A e : LastOf(p, K, e) => LastOf(q \o p, K, e)
           /\ NoneOf(p, K) =>
                /\ \A e : LastOf(q, K, e) => LastOf(q \o p, K, e)
                /\ NoneOf(q, K) => NoneOf(q \o p, K)
<1>1. /\ Len(q \o p) = Len(q) + Len(p) /\ Len(q) \in Nat /\ Len(p) \in Nat
      /\ \A i \in 1..Len(q) : (q \o p)[i] = q[i]
      /\ \A i \in (Len(q) + 1)..(Len(q) + Len(p)) : (q \o p)[i] = p[i - Len(q)]
  OBVIOUS
<1>2. ASSUME NEW e, LastOf(p, K, e)
      PROVE  LastOf(q \o p, K, e)
  <2>1. PICK i \in 1..Len(p) : p[i] = e /\ \A j \in (i + 1)..Len(p) : p[j] \notin K
    BY <1>2 DEF LastOf
  <2>2. Len(q) + i \in 1..Len(q \o p) /\ (q \o p)[Len(q) + i] = e
    BY <1>1, <2>1
  <2>3. \A j \in (Len(q) + i + 1)..Len(q \o p) : (q \o p)[j] \notin K
    BY <1>1, <2>1
  <2>. QED BY <2>2, <2>3 DEF LastOf
<1>3. ASSUME NoneOf(p, K), NEW e, LastOf(q, K, e)
      PROVE  LastOf(q \o p, K, e)
  <2>1. PICK i \in 1..Len(q) : q[i] = e /\ \A j \in (i + 1)..Len(q) : q[j] \notin K
    BY <1>3 DEF LastOf
  <2>2. i \in 1..Len(q \o p) /\ (q \o p)[i] = e
    BY <1>1, <2>1
  <2>3. ASSUME NEW j \in (i + 1)..Len(q \o p)
        PROVE  (q \o p)[j] \notin K
    <3>1. CASE j <= Len(q)
      BY <1>1, <2>1, <3>1
    <3>2. CASE j > Len(q)
      BY <1>1, <1>3, <3>2 DEF NoneOf
    <3>. QED BY <1>1, <3>1, <3>2
  <2>. QED BY <2>2, <2>3 DEF LastOf
<1>4. ASSUME NoneOf(p, K), NoneOf(q, K)
      PROVE  NoneOf(q \o p, K)
  <2>1. ASSUME NEW j \in 1..Len(q \o p)
        PROVE  (q \o p)[j] \notin K
    <3>1. CASE j <= Len(q)
      BY <1>1, <1>4, <3>1 DEF NoneOf
    <3>2. CASE j > Len(q)
      BY <1>1, <1>4, <3>2 DEF NoneOf
    <3>. QED BY <1>1, <3>1, <3>2
  <2>. QED BY <2>1 DEF NoneOf
<1>. QED BY <1>2, <1>3, <1>4

(* The first event is taken: it was the last of its kind, or not.          *)
LEMMA Taken ==
    ASSUME NEW q \in Seq(Thread!Events), q # << >>, NEW K
    PROVE  /\ \A e : LastOf(q, K, e) =>
                  LastOf(Tail(q), K, e) \/ (Head(q) = e /\ NoneOf(Tail(q), K))
           /\ NoneOf(q, K) => Head(q) \notin K /\ NoneOf(Tail(q), K)
<1>1. /\ Len(q) \in Nat \ {0} /\ Len(Tail(q)) = Len(q) - 1 /\ Head(q) = q[1]
      /\ \A i \in 1..(Len(q) - 1) : Tail(q)[i] = q[i + 1]
  OBVIOUS
<1>2. ASSUME NEW e, LastOf(q, K, e)
      PROVE  LastOf(Tail(q), K, e) \/ (Head(q) = e /\ NoneOf(Tail(q), K))
  <2>1. PICK i \in 1..Len(q) : q[i] = e /\ \A j \in (i + 1)..Len(q) : q[j] \notin K
    BY <1>2 DEF LastOf
  <2>2. CASE i = 1
    BY <1>1, <2>1, <2>2 DEF NoneOf
  <2>3. CASE i > 1
    <3>1. i - 1 \in 1..Len(Tail(q)) /\ Tail(q)[i - 1] = e
      BY <1>1, <2>1, <2>3
    <3>2. \A j \in (i - 1 + 1)..Len(Tail(q)) : Tail(q)[j] \notin K
      BY <1>1, <2>1, <2>3
    <3>. QED BY <3>1, <3>2 DEF LastOf
  <2>. QED BY <2>1, <2>2, <2>3
<1>3. ASSUME NoneOf(q, K)
      PROVE  Head(q) \notin K /\ NoneOf(Tail(q), K)
  BY <1>1, <1>3 DEF NoneOf
<1>. QED BY <1>2, <1>3

----------------------------------------------------------------------------
(* Types.                                                                  *)

(* What is posted is a sequence of events.                                 *)
LEMMA PostTypes ==
    ASSUME Thread!ThreadTypeOK, NEW posted \in Seq(Thread!Events), Thread!Post(posted)
    PROVE  /\ events' \in Seq(Thread!Events) /\ Len(events') <= MaxEvents
           /\ lost' \in BOOLEAN
<1>1. /\ events \in Seq(Thread!Events) /\ Len(events) <= MaxEvents
      /\ lost \in BOOLEAN
  BY DEF Thread!ThreadTypeOK
<1>2. /\ events \o posted \in Seq(Thread!Events)
      /\ Len(events \o posted) = Len(events) + Len(posted)
  BY <1>1
<1>3. CASE Len(events) + Len(posted) <= MaxEvents
  BY <1>1, <1>2, <1>3, Zenon DEF Thread!Post
<1>4. CASE ~(Len(events) + Len(posted) <= MaxEvents)
  BY <1>1, <1>4, Zenon DEF Thread!Post
<1>. QED BY <1>3, <1>4

(* What is posted when the role becomes new: at most one event of each     *)
(* kind, and that is the one the new role calls for.                       *)
Switches(new, p) ==
    IF role = "disabled" <=> new = "disabled" THEN NoneOf(p, OnOff)
    ELSE LastOf(p, OnOff, SwitchEvent(new))

Links(new, p) ==
    IF role \in AttachedRoles <=> new \in AttachedRoles THEN NoneOf(p, Link)
    ELSE LastOf(p, Link, LinkEvent(new))

Changes(new, p) ==
    IF role = new THEN NoneOf(p, Change) ELSE LastOf(p, Change, "ROLE_CHANGED")

LEMMA Announced ==
    ASSUME NEW new, Thread!Announce(new)
    PROVE  \E p \in Seq(Thread!Events) :
              Thread!Post(p) /\ Switches(new, p) /\ Links(new, p) /\ Changes(new, p)
<1>. DEFINE onOff == CASE role = "disabled" /\ new # "disabled" -> <<"START">>
                       [] role # "disabled" /\ new = "disabled" -> <<"STOP">>
                       [] OTHER -> << >>
            link == CASE role \notin AttachedRoles /\ new \in AttachedRoles -> <<"ATTACHED">>
                      [] role \in AttachedRoles /\ new \notin AttachedRoles -> <<"DETACHED">>
                      [] OTHER -> << >>
            change == IF new # role THEN <<"ROLE_CHANGED">> ELSE << >>
            p == onOff \o link \o change
<1>1. onOff \in Seq(Thread!Events) /\ Switches(new, onOff)
      /\ NoneOf(onOff, Link) /\ NoneOf(onOff, Change)
  <2>1. CASE role = "disabled" /\ new # "disabled"
    <3>1. onOff = <<"START">>
      BY <2>1
    <3>. QED BY <2>1, <3>1, OneEvent DEF Switches, SwitchEvent, OnOff, Link, Change, Thread!Events
  <2>2. CASE role # "disabled" /\ new = "disabled"
    <3>1. onOff = <<"STOP">>
      BY <2>2
    <3>. QED BY <2>2, <3>1, OneEvent DEF Switches, SwitchEvent, OnOff, Link, Change, Thread!Events
  <2>3. CASE role = "disabled" <=> new = "disabled"
    <3>1. onOff = << >>
      BY <2>3
    <3>. QED BY <2>3, <3>1, NoEvent DEF Switches
  <2>. HIDE DEF onOff
  <2>. QED BY <2>1, <2>2, <2>3
<1>2. link \in Seq(Thread!Events) /\ Links(new, link)
      /\ NoneOf(link, OnOff) /\ NoneOf(link, Change)
  <2>1. CASE role \notin AttachedRoles /\ new \in AttachedRoles
    <3>1. link = <<"ATTACHED">>
      BY <2>1
    <3>. QED BY <2>1, <3>1, OneEvent DEF Links, LinkEvent, OnOff, Link, Change, Thread!Events
  <2>2. CASE role \in AttachedRoles /\ new \notin AttachedRoles
    <3>1. link = <<"DETACHED">>
      BY <2>2
    <3>. QED BY <2>2, <3>1, OneEvent DEF Links, LinkEvent, OnOff, Link, Change, Thread!Events
  <2>3. CASE role \in AttachedRoles <=> new \in AttachedRoles
    <3>1. link = << >>
      BY <2>3
    <3>. QED BY <2>3, <3>1, NoEvent DEF Links
  <2>. HIDE DEF link
  <2>. QED BY <2>1, <2>2, <2>3
<1>3. change \in Seq(Thread!Events) /\ Changes(new, change)
      /\ NoneOf(change, OnOff) /\ NoneOf(change, Link)
  <2>1. CASE role = new
    BY <2>1, NoEvent DEF Changes
  <2>2. CASE role # new
    BY <2>2, OneEvent DEF Changes, OnOff, Link, Change, Thread!Events
  <2>. QED BY <2>1, <2>2
<1>4. Thread!Post(p)
  BY Zenon DEF Thread!Announce
<1>. HIDE DEF onOff, link, change
<1>5. p \in Seq(Thread!Events) /\ onOff \o link \in Seq(Thread!Events)
  BY <1>1, <1>2, <1>3
<1>6. Switches(new, p)
  BY <1>1, <1>2, <1>3, <1>5, Appended DEF Switches
<1>7. Links(new, p)
  BY <1>1, <1>2, <1>3, <1>5, Appended DEF Links
<1>8. Changes(new, p)
  BY <1>1, <1>2, <1>3, <1>5, Appended DEF Changes
<1>. QED BY <1>4, <1>5, <1>6, <1>7, <1>8

LEMMA AnnounceTypes ==
    ASSUME Thread!ThreadTypeOK, NEW new, Thread!Announce(new)
    PROVE  /\ events' \in Seq(Thread!Events) /\ Len(events') <= MaxEvents
           /\ lost' \in BOOLEAN
  BY Announced, PostTypes

(* A part of the state keeps its types while nothing touches it.           *)
LEMMA ThreadSame ==
    ASSUME Thread!ThreadTypeOK, UNCHANGED threadVars
    PROVE  Thread!ThreadTypeOK'
  BY DEF threadVars, Thread!ThreadTypeOK

LEMMA WifiSame ==
    ASSUME Wifi!WifiTypeOK, UNCHANGED <<pc, command>>, UNCHANGED wifiVars
    PROVE  Wifi!WifiTypeOK'
  BY DEF wifiVars, Wifi!WifiTypeOK

(* The commands of Wi-Fi, and then those of Thread.                        *)
LEMMA WifiTypes ==
    ASSUME TypeOK, WifiCommand
    PROVE  TypeOK'
<1>. USE DEF TypeOK, Wifi!WifiTypeOK, Wifi!Pair, Wifi!Config, Wifi!Configuration,
             Steps, bootVars, threadVars, Wifi!wifiVars, Wifi!Fail
<1>0. /\ Thread!ThreadTypeOK' /\ phase' \in Calls \cup {"running", "halted"}
      /\ mode' \in {"none", "sta", "apsta"} /\ ap' \in BOOLEAN
  BY DEF WifiCommand, Thread!ThreadTypeOK
<1>. SUFFICES /\ pc' \in Steps
              /\ command' \in Credentials \cup {"enable", "disable", "dataset", None}
              /\ answer' \in {"OK", "FAIL", "REFUSED", None}
              /\ Wifi!WifiTypeOK'
  BY <1>0, Zenon
<1>1. CASE Wifi!wifi_sta_connect
  BY <1>1 DEF Wifi!wifi_sta_connect
<1>2. CASE Wifi!Open
  BY <1>2 DEF Wifi!Open
<1>3. CASE Wifi!SetSsid
  BY <1>3 DEF Wifi!SetSsid
<1>4. CASE Wifi!SetPassword
  BY <1>4 DEF Wifi!SetPassword
<1>5. CASE Wifi!Commit
  BY <1>5 DEF Wifi!Commit
<1>6. CASE Wifi!Disconnect
  <2>1. target' \in {None, target} /\ pc' = "configure"
    BY <1>6, Zenon DEF Wifi!Disconnect
  <2>. QED BY <1>6, <2>1 DEF Wifi!Disconnect
<1>7. CASE Wifi!Configure
  <2>1. Wifi!Configuration(command, command) \in Wifi!Config
    BY <1>7 DEF Wifi!Configure
  <2>2. sta' \in Wifi!Config \cup {None}
    BY <1>7, <2>1, Zenon DEF Wifi!Configure
  <2>. QED BY <1>7, <2>2 DEF Wifi!Configure
<1>8. CASE Wifi!Connect
  BY <1>8 DEF Wifi!Connect
<1>. QED BY <1>1, <1>2, <1>3, <1>4, <1>5, <1>6, <1>7, <1>8 DEF WifiCommand, Wifi!WifiNext

LEMMA ThreadCommandTypes ==
    ASSUME TypeOK, ThreadCommand
    PROVE  TypeOK'
<1>. USE DEF Steps, Thread!Take, Thread!End, Thread!threadVars
<1>. DEFINE HttpdOK == /\ pc \in Steps \ WifiSteps
                       /\ command \in Credentials \cup {"enable", "disable", "dataset", None}
                       /\ answer \in {"OK", "FAIL", "REFUSED", None}
<1>0. /\ Thread!ThreadTypeOK
      /\ command \in Credentials \cup {"enable", "disable", "dataset", None}
      /\ answer \in {"OK", "FAIL", "REFUSED", None}
  BY DEF TypeOK
<1>1. HttpdOK' /\ Thread!ThreadTypeOK'
  <2>1. CASE Thread!TakeEnable
    BY <1>0, <2>1 DEF Thread!TakeEnable, WifiSteps, Thread!ThreadTypeOK
  <2>2. CASE Thread!TakeDisable
    BY <1>0, <2>2 DEF Thread!TakeDisable, WifiSteps, Thread!ThreadTypeOK
  <2>3. CASE Thread!TakeDataset
    BY <1>0, <2>3 DEF Thread!TakeDataset, WifiSteps, Thread!ThreadTypeOK
  <2>4. CASE Thread!ifconfig_up
    BY <1>0, <2>4 DEF Thread!ifconfig_up, WifiSteps, Thread!ThreadTypeOK
  <2>5. CASE Thread!thread_start
    <3>1. role' \in Thread!Roles
      BY <1>0, <2>5 DEF Thread!thread_start, Thread!ThreadTypeOK, Thread!Roles
    <3>2. events' \in Seq(Thread!Events) /\ Len(events') <= MaxEvents /\ lost' \in BOOLEAN
      <4>1. CASE Thread!Announce(role')
        BY <1>0, <3>1, <4>1, AnnounceTypes
      <4>2. CASE UNCHANGED <<role, events, lost>>
        BY <1>0, <4>2 DEF Thread!ThreadTypeOK
      <4>. QED BY <2>5, <4>1, <4>2, Zenon DEF Thread!thread_start
    <3>3. UNCHANGED <<command, ifUp, dataset, thread>> /\ HttpdOK'
      BY <1>0, <2>5 DEF Thread!thread_start, WifiSteps
    <3>. QED BY <1>0, <3>1, <3>2, <3>3 DEF Thread!ThreadTypeOK
  <2>6. CASE Thread!thread_stop
    <3>1. role' \in Thread!Roles
      BY <1>0, <2>6 DEF Thread!thread_stop, Thread!ThreadTypeOK, Thread!Roles
    <3>2. events' \in Seq(Thread!Events) /\ Len(events') <= MaxEvents /\ lost' \in BOOLEAN
      <4>1. CASE Thread!Announce("disabled")
        <5>1. "disabled" \in Thread!Roles
          BY DEF Thread!Roles
        <5>. QED BY <1>0, <4>1, <5>1, AnnounceTypes
      <4>2. CASE UNCHANGED <<role, events, lost>>
        BY <1>0, <4>2 DEF Thread!ThreadTypeOK
      <4>. QED BY <2>6, <4>1, <4>2, Zenon DEF Thread!thread_stop
    <3>3. UNCHANGED <<command, ifUp, dataset, thread>> /\ HttpdOK'
      BY <1>0, <2>6 DEF Thread!thread_stop, WifiSteps
    <3>. QED BY <1>0, <3>1, <3>2, <3>3 DEF Thread!ThreadTypeOK
  <2>7. CASE Thread!ifconfig_down
    BY <1>0, <2>7 DEF Thread!ifconfig_down, WifiSteps, Thread!ThreadTypeOK
  <2>8. CASE Thread!thread_dataset_init
    <3>1. <<"DATASET_CHANGED">> \in Seq(Thread!Events)
      BY DEF Thread!Events
    <3>2. events' \in Seq(Thread!Events) /\ Len(events') <= MaxEvents /\ lost' \in BOOLEAN
      <4>1. CASE Thread!Post(<<"DATASET_CHANGED">>)
        BY <1>0, <3>1, <4>1, PostTypes
      <4>2. CASE UNCHANGED <<dataset, events, lost>>
        BY <1>0, <4>2 DEF Thread!ThreadTypeOK
      <4>. QED BY <2>8, <4>1, <4>2, Zenon DEF Thread!thread_dataset_init
    <3>3. UNCHANGED <<command, ifUp, role, thread>> /\ HttpdOK' /\ dataset' \in BOOLEAN
      BY <1>0, <2>8 DEF Thread!thread_dataset_init, WifiSteps, Thread!ThreadTypeOK
    <3>. QED BY <1>0, <3>2, <3>3 DEF Thread!ThreadTypeOK
  <2>. QED BY <2>1, <2>2, <2>3, <2>4, <2>5, <2>6, <2>7, <2>8, Zenon
           DEF ThreadCommand, Thread!ThreadCommands
<1>2. Wifi!WifiTypeOK'
  BY <1>1 DEF ThreadCommand, TypeOK, Wifi!WifiTypeOK, WifiSteps, wifiVars
<1>. QED BY <1>1, <1>2 DEF ThreadCommand, TypeOK, bootVars

(* What OpenThread and sys_evt do.                                         *)
LEMMA ThreadTypes ==
    ASSUME TypeOK, RoleChanges \/ EventHandled
    PROVE  TypeOK'
<1>0. Thread!ThreadTypeOK
  BY DEF TypeOK
<1>1. Thread!ThreadTypeOK' /\ UNCHANGED <<pc, command, answer>>
  <2>1. CASE RoleChanges
    <3>1. PICK new \in Thread!Roles : role' = new /\ Thread!Announce(new)
      BY <2>1, Zenon DEF RoleChanges, Thread!ChangeRole
    <3>2. events' \in Seq(Thread!Events) /\ Len(events') <= MaxEvents /\ lost' \in BOOLEAN
      BY <1>0, <3>1, AnnounceTypes
    <3>. QED BY <1>0, <2>1, <3>1, <3>2 DEF RoleChanges, Thread!ChangeRole, Thread!ThreadTypeOK
  <2>2. CASE EventHandled
    <3>1. /\ events' \in Seq(Thread!Events) /\ Len(events') <= MaxEvents
          /\ UNCHANGED <<pc, command, answer, ifUp, role, dataset, lost>>
          /\ thread' = Thread!Recorded(Head(events))
      BY <1>0, <2>2 DEF EventHandled, Thread!handle_thread_event, Thread!ThreadTypeOK
    <3>2. thread' \in [enabled : BOOLEAN, attached : BOOLEAN, role : Thread!Roles,
                       dataset_present : BOOLEAN]
      BY <1>0, <3>1 DEF Thread!Recorded, Thread!ThreadTypeOK
    <3>. QED BY <1>0, <3>1, <3>2 DEF Thread!ThreadTypeOK
  <2>. QED BY <2>1, <2>2
<1>2. UNCHANGED <<phase, mode, ap>> /\ UNCHANGED wifiVars
  BY DEF RoleChanges, EventHandled, bootVars
<1>3. Wifi!WifiTypeOK'
  BY <1>1, <1>2, WifiSame DEF TypeOK
<1>. QED BY <1>1, <1>2, <1>3, Zenon DEF TypeOK

(* Boot and the loss of power.                                             *)
LEMMA BootTypes ==
    ASSUME TypeOK,
           NvsInit \/ LayerInit \/ MatterInit \/ WifiStart \/ PowerLoss
    PROVE  TypeOK'
<1>. USE DEF Calls, Call
<1>0. Wifi!WifiTypeOK /\ Thread!ThreadTypeOK
  BY DEF TypeOK
<1>1. CASE NvsInit
  <2>1. Wifi!WifiTypeOK'
    <3>1. CASE UNCHANGED wifiVars
      BY <1>0, <1>1, <3>1, WifiSame DEF NvsInit, httpdVars
    <3>2. CASE Wifi!WifiErase
      BY <1>0, <1>1, <3>2 DEF NvsInit, httpdVars, Wifi!WifiErase, Wifi!WifiTypeOK, Wifi!NoPair, Wifi!Pair
    <3>. QED BY <1>1, <3>1, <3>2 DEF NvsInit
  <2>2. Thread!ThreadTypeOK'
    BY <1>0, <1>1, ThreadSame DEF NvsInit, Thread!ThreadErase, Thread!ThreadTypeOK
  <2>3. phase' = "state" /\ UNCHANGED <<mode, ap, pc, command, answer>>
    BY <1>1 DEF NvsInit, httpdVars
  <2>. QED BY <2>1, <2>2, <2>3 DEF TypeOK
<1>2. CASE LayerInit
  <2>1. /\ phase' \in Calls \cup {"running", "halted"}
        /\ UNCHANGED <<mode, ap, pc, command, answer>>
        /\ UNCHANGED wifiVars /\ UNCHANGED threadVars
    BY <1>2 DEF LayerInit, httpdVars, TypeOK
  <2>2. Wifi!WifiTypeOK' /\ Thread!ThreadTypeOK'
    BY <1>0, <2>1, WifiSame, ThreadSame
  <2>. QED BY <2>1, <2>2, Zenon DEF TypeOK
<1>3. CASE MatterInit
  <2>1. /\ phase' \in Calls \cup {"running", "halted"} /\ mode' \in {"none", "sta", "apsta"}
        /\ UNCHANGED <<ap, pc, command, answer>>
        /\ UNCHANGED wifiVars /\ UNCHANGED threadVars
    BY <1>3 DEF MatterInit, httpdVars, TypeOK
  <2>2. Wifi!WifiTypeOK' /\ Thread!ThreadTypeOK'
    BY <1>0, <2>1, WifiSame, ThreadSame
  <2>. QED BY <2>1, <2>2, Zenon DEF TypeOK
<1>4. CASE WifiStart
  <2>1. /\ phase' = "running" /\ mode' \in {"none", "sta", "apsta"} /\ ap' \in BOOLEAN
        /\ UNCHANGED <<pc, command, answer, stored, refused, interrupted>>
        /\ UNCHANGED threadVars
    BY <1>4 DEF WifiStart, httpdVars, TypeOK
  <2>2. sta' \in Wifi!Config \cup {None} /\ target' \in Wifi!Config \cup {None}
    <3>1. sta \in Wifi!Config \cup {None} /\ target \in Wifi!Config \cup {None}
      BY <1>0 DEF Wifi!WifiTypeOK
    <3>2. CASE /\ Wifi!Found
               /\ sta' = Wifi!Configuration(stored.ssid, stored.password)
               /\ target' \in {sta', target}
      <4>1. sta' \in Wifi!Config
        BY <3>2 DEF Wifi!Found, Wifi!Configuration, Wifi!Config
      <4>. QED BY <3>1, <3>2, <4>1, Zenon
    <3>3. CASE UNCHANGED <<sta, target>>
      BY <3>1, <3>3
    <3>. QED BY <1>4, <3>2, <3>3, Zenon DEF WifiStart, Wifi!LoadAndConnect
  <2>3. Wifi!WifiTypeOK'
    BY <1>0, <2>1, <2>2 DEF Wifi!WifiTypeOK
  <2>4. Thread!ThreadTypeOK'
    BY <1>0, <2>1, ThreadSame
  <2>. QED BY <2>1, <2>3, <2>4, Zenon DEF TypeOK
<1>5. CASE PowerLoss
  <2>1. Wifi!WifiTypeOK'
    BY <1>0, <1>5 DEF PowerLoss, Wifi!WifiPowerLoss, Wifi!WifiTypeOK
  <2>2. Thread!ThreadTypeOK'
    <3>1. Thread!NoThread \in [enabled : BOOLEAN, attached : BOOLEAN, role : Thread!Roles,
                               dataset_present : BOOLEAN]
      BY DEF Thread!NoThread, Thread!Roles
    <3>2. "disabled" \in Thread!Roles
      BY DEF Thread!Roles
    <3>3. << >> \in Seq(Thread!Events) /\ Len(<< >>) <= MaxEvents
      OBVIOUS
    <3>. QED BY <1>0, <1>5, <3>1, <3>2, <3>3 DEF PowerLoss, Thread!ThreadPowerLoss, Thread!ThreadTypeOK
  <2>3. /\ phase' = "nvs" /\ mode' = "none" /\ ap' = FALSE
        /\ pc' = "idle" /\ command' = None /\ answer' = None
    BY <1>5 DEF PowerLoss
  <2>. QED BY <2>1, <2>2, <2>3 DEF TypeOK, Steps
<1>. QED BY <1>1, <1>2, <1>3, <1>4, <1>5

LEMMA TypeStep ==
    ASSUME TypeOK, [Next]_vars
    PROVE  TypeOK'
<1>1. CASE UNCHANGED vars
  <2>1. /\ UNCHANGED <<phase, mode, ap, pc, command, answer>>
        /\ UNCHANGED wifiVars /\ UNCHANGED threadVars
    BY <1>1 DEF vars, wifiVars, threadVars
  <2>2. Wifi!WifiTypeOK' /\ Thread!ThreadTypeOK'
    BY <2>1, WifiSame, ThreadSame DEF TypeOK
  <2>. QED BY <2>1, <2>2, Zenon DEF TypeOK
<1>. QED BY <1>1, WifiTypes, ThreadCommandTypes, ThreadTypes, BootTypes, Zenon DEF Next

----------------------------------------------------------------------------
(* The access point, and who is at work.                                   *)

(* The steps of the boot come before there is an access point.             *)
LEMMA BootIsQuiet ==
    ASSUME ApStaysUp, Quiet, NvsInit \/ LayerInit \/ MatterInit \/ WifiStart
    PROVE  /\ ~ap /\ pc = "idle" /\ answer = None
           /\ events = << >> /\ role = "disabled" /\ thread = Thread!NoThread
           /\ UNCHANGED <<pc, command, answer>>
<1>1. phase # "running"
  BY DEF NvsInit, LayerInit, MatterInit, WifiStart, Call
<1>2. UNCHANGED <<pc, command, answer>>
  BY DEF NvsInit, LayerInit, MatterInit, WifiStart, httpdVars
<1>. QED BY <1>1, <1>2 DEF ApStaysUp, Quiet

LEMMA ApStep ==
    ASSUME TypeOK, ApStaysUp, [Next]_vars
    PROVE  ApStaysUp'
<1>1. CASE NvsInit \/ LayerInit \/ MatterInit
  <2>1. phase # "running" /\ UNCHANGED ap
    BY <1>1 DEF NvsInit, LayerInit, MatterInit, Call
  <2>. QED BY <2>1 DEF ApStaysUp
<1>2. CASE WifiStart
  <2>1. phase # "running"
    BY <1>2 DEF WifiStart, Call
  <2>. QED BY <1>2, <2>1 DEF ApStaysUp, WifiStart, Call
<1>3. CASE WifiCommand \/ ThreadCommand \/ RoleChanges \/ EventHandled
  BY <1>3 DEF ApStaysUp, WifiCommand, ThreadCommand, RoleChanges, EventHandled, bootVars
<1>4. CASE PowerLoss
  BY <1>4 DEF ApStaysUp, PowerLoss
<1>5. CASE UNCHANGED vars
  BY <1>5 DEF ApStaysUp, vars
<1>. QED BY <1>1, <1>2, <1>3, <1>4, <1>5 DEF Next

LEMMA UnderwayStep ==
    ASSUME TypeOK, ApStaysUp, Underway, Quiet, [Next]_vars
    PROVE  Underway'
<1>. USE DEF Underway, ThreadSteps
<1>1. CASE NvsInit \/ LayerInit \/ MatterInit \/ WifiStart
  BY <1>1, BootIsQuiet
<1>2. CASE WifiCommand
  BY <1>2 DEF WifiCommand, Wifi!WifiNext, Wifi!wifi_sta_connect, Wifi!Open, Wifi!SetSsid,
       Wifi!SetPassword, Wifi!Commit, Wifi!Disconnect, Wifi!Configure, Wifi!Connect, Wifi!Fail
<1>3. CASE ThreadCommand
  BY <1>3 DEF ThreadCommand, Thread!ThreadCommands, Thread!TakeEnable, Thread!TakeDisable,
       Thread!TakeDataset, Thread!Take, Thread!ifconfig_up, Thread!thread_start,
       Thread!thread_stop, Thread!ifconfig_down, Thread!thread_dataset_init, Thread!End
<1>4. CASE RoleChanges \/ EventHandled
  BY <1>4 DEF RoleChanges, EventHandled, Thread!ChangeRole, Thread!handle_thread_event
<1>5. CASE PowerLoss
  BY <1>5 DEF PowerLoss
<1>6. CASE UNCHANGED vars
  BY <1>6 DEF vars
<1>. QED BY <1>1, <1>2, <1>3, <1>4, <1>5, <1>6 DEF Next

LEMMA QuietStep ==
    ASSUME TypeOK, ApStaysUp, Quiet, [Next]_vars
    PROVE  Quiet'
<1>1. CASE NvsInit \/ LayerInit \/ MatterInit
  <2>1. UNCHANGED <<events, role, thread>>
    BY <1>1 DEF NvsInit, LayerInit, MatterInit, threadVars, Thread!ThreadErase
  <2>. QED BY <1>1, <2>1, BootIsQuiet DEF Quiet
<1>2. CASE WifiStart
  <2>1. UNCHANGED <<events, role, thread>>
    BY <1>2 DEF WifiStart, threadVars
  <2>. QED BY <1>2, <2>1, BootIsQuiet DEF Quiet
<1>3. CASE WifiCommand \/ ThreadCommand
  BY <1>3 DEF Quiet, WifiCommand, ThreadCommand, bootVars
<1>4. CASE RoleChanges \/ EventHandled
  <2>1. ap /\ UNCHANGED ap
    BY <1>4 DEF Quiet, RoleChanges, EventHandled, Thread!ChangeRole,
                Thread!handle_thread_event, bootVars
  <2>. QED BY <2>1 DEF Quiet
<1>5. CASE PowerLoss
  BY <1>5 DEF PowerLoss, Thread!ThreadPowerLoss, Quiet
<1>6. CASE UNCHANGED vars
  BY <1>6 DEF vars, Quiet
<1>. QED BY <1>1, <1>2, <1>3, <1>4, <1>5, <1>6 DEF Next

----------------------------------------------------------------------------
(* Credentials.                                                            *)

CredentialsInv == Saved /\ StoredIsWhole /\ OkIsStored

LEMMA WifiCommandSaves ==
    ASSUME TypeOK, Underway, CredentialsInv, Wifi!WifiNext
    PROVE  CredentialsInv'
<1>. USE DEF CredentialsInv, Saved, StoredIsWhole, Wifi!StoredIsWhole, OkIsStored,
             Wifi!OkIsStored, Wifi!Fail, Wifi!wifiVars
<1>0. /\ stored \in Wifi!Pair
      /\ pc # "idle" => answer = None
      /\ answer # "OK" \/ answer # None
  BY Zenon DEF TypeOK, Wifi!WifiTypeOK, Underway
<1>1. CASE Wifi!wifi_sta_connect
  BY <1>0, <1>1 DEF Wifi!wifi_sta_connect
<1>2. CASE Wifi!Open
  BY <1>0, <1>2 DEF Wifi!Open
<1>3. CASE Wifi!SetSsid
  <2>1. /\ pc = "set ssid" /\ pc' = "set password" /\ answer = None /\ ~refused
        /\ UNCHANGED <<command, answer, sta, target>>
    BY <1>0, <1>3 DEF Wifi!SetSsid
  <2>2. ~refused' => stored'.ssid = command
    BY <1>0, <1>3 DEF Wifi!SetSsid, Wifi!Pair
  <2>3. refused' => interrupted'
    BY <1>3, <2>1, Zenon DEF Wifi!SetSsid
  <2>. QED BY <1>0, <2>1, <2>2, <2>3
<1>4. CASE Wifi!SetPassword
  BY <1>0, <1>4 DEF Wifi!SetPassword, Wifi!Pair
<1>5. CASE Wifi!Commit
  BY <1>0, <1>5 DEF Wifi!Commit
<1>6. CASE Wifi!Disconnect
  BY <1>0, <1>6 DEF Wifi!Disconnect
<1>7. CASE Wifi!Configure
  BY <1>0, <1>7 DEF Wifi!Configure
<1>8. CASE Wifi!Connect
  BY <1>0, <1>8 DEF Wifi!Connect
<1>. QED BY <1>1, <1>2, <1>3, <1>4, <1>5, <1>6, <1>7, <1>8 DEF Wifi!WifiNext

(* Nothing that is said of credentials is about the rest of the board.     *)
LEMMA CredentialsSame ==
    ASSUME CredentialsInv, UNCHANGED <<pc, command, answer>>, UNCHANGED wifiVars
    PROVE  CredentialsInv'
  BY DEF CredentialsInv, Saved, StoredIsWhole, Wifi!StoredIsWhole, OkIsStored,
         Wifi!OkIsStored, Wifi!Configuration, wifiVars

LEMMA CredentialsStep ==
    ASSUME TypeOK, ApStaysUp, Underway, Quiet, CredentialsInv, [Next]_vars
    PROVE  CredentialsInv'
<1>. USE DEF CredentialsInv, Saved, StoredIsWhole, Wifi!StoredIsWhole, OkIsStored,
             Wifi!OkIsStored
<1>1. CASE NvsInit
  <2>1. CASE UNCHANGED wifiVars
    BY <1>1, <2>1, CredentialsSame DEF NvsInit, httpdVars
  <2>2. CASE Wifi!WifiErase
    BY <1>1, <2>2, BootIsQuiet DEF Wifi!WifiErase, Wifi!NoPair
  <2>. QED BY <1>1, <2>1, <2>2 DEF NvsInit
<1>2. CASE LayerInit \/ MatterInit
  BY <1>2, CredentialsSame DEF LayerInit, MatterInit, httpdVars
<1>3. CASE WifiStart
  <2>1. pc = "idle" /\ answer = None /\ UNCHANGED <<pc, command, answer>>
    BY <1>3, BootIsQuiet
  <2>2. UNCHANGED <<stored, refused, interrupted>>
    BY <1>3 DEF WifiStart
  <2>. QED BY <2>1, <2>2
<1>4. CASE WifiCommand
  BY <1>4, WifiCommandSaves DEF WifiCommand
<1>5. CASE ThreadCommand
  <2>1. /\ pc' \notin WifiSteps
        /\ answer' = "OK" => command' \notin Credentials
    BY <1>5 DEF ThreadCommand, Underway, ThreadSteps, WifiSteps,
       Thread!ThreadCommands, Thread!TakeEnable, Thread!TakeDisable,
       Thread!TakeDataset, Thread!Take, Thread!ifconfig_up, Thread!thread_start,
       Thread!thread_stop, Thread!ifconfig_down, Thread!thread_dataset_init, Thread!End
  <2>2. pc # "set password"
    BY <1>5 DEF ThreadCommand, Thread!ThreadCommands, Thread!TakeEnable, Thread!TakeDisable,
       Thread!TakeDataset, Thread!Take, Thread!ifconfig_up, Thread!thread_start,
       Thread!thread_stop, Thread!ifconfig_down, Thread!thread_dataset_init
  <2>3. UNCHANGED <<stored, sta, target, refused, interrupted>>
    BY <1>5 DEF ThreadCommand, wifiVars
  <2>. QED BY <2>1, <2>2, <2>3 DEF WifiSteps
<1>6. CASE RoleChanges \/ EventHandled
  BY <1>6, CredentialsSame DEF RoleChanges, EventHandled, Thread!ChangeRole,
                               Thread!handle_thread_event
<1>7. CASE PowerLoss
  <2>1. /\ pc' = "idle" /\ answer' = None /\ UNCHANGED stored
        /\ interrupted' = (interrupted \/ (pc = "set password" /\ ~refused))
    BY <1>7 DEF PowerLoss, Wifi!WifiPowerLoss
  <2>. QED BY <2>1
<1>8. CASE UNCHANGED vars
  BY <1>8, CredentialsSame DEF vars, wifiVars
<1>. QED BY <1>1, <1>2, <1>3, <1>4, <1>5, <1>6, <1>7, <1>8 DEF Next

(* The station is told to connect with the pair of a command, or with the  *)
(* stored one, whose SSID is not cut.                                      *)
OneNetwork(config) ==
    /\ config.ssid = config.password
    /\ config.cut => pc = "connect" /\ command = config.ssid

LEMMA ConnectStep ==
    ASSUME TypeOK, ApStaysUp, Quiet, CredentialsInv, Next,
           target' \notin {target, None}, ~interrupted
    PROVE  OneNetwork(target')
<1>1. CASE WifiStart
  <2>1. target' = Wifi!Configuration(stored.ssid, stored.password)
    BY <1>1, Zenon DEF WifiStart, Wifi!LoadAndConnect
  <2>2. pc = "idle"
    BY <1>1, BootIsQuiet
  <2>3. stored.ssid = stored.password
    BY <2>2 DEF CredentialsInv, StoredIsWhole, Wifi!StoredIsWhole
  <2>4. stored.ssid \notin Long
    BY <1>1, Zenon DEF WifiStart, Wifi!LoadAndConnect, Wifi!Found
  <2>. QED BY <2>1, <2>3, <2>4 DEF Wifi!Configuration, OneNetwork
<1>2. CASE WifiCommand
  <2>1. Wifi!Connect
    BY <1>2 DEF WifiCommand, Wifi!WifiNext, Wifi!wifi_sta_connect, Wifi!Open, Wifi!SetSsid,
         Wifi!SetPassword, Wifi!Commit, Wifi!Disconnect, Wifi!Configure, Wifi!Fail, Wifi!wifiVars
  <2>2. target' = Wifi!Configuration(command, command) /\ pc = "connect"
    BY <2>1 DEF Wifi!Connect, CredentialsInv, Saved
  <2>. QED BY <2>2 DEF Wifi!Configuration, OneNetwork
<1>3. CASE NvsInit \/ LayerInit \/ MatterInit \/ ThreadCommand \/ RoleChanges \/ EventHandled
  BY <1>3 DEF NvsInit, LayerInit, MatterInit, ThreadCommand, RoleChanges, EventHandled,
              wifiVars, Wifi!WifiErase
<1>4. CASE PowerLoss
  BY <1>4 DEF PowerLoss, Wifi!WifiPowerLoss
<1>. QED BY <1>1, <1>2, <1>3, <1>4 DEF Next

----------------------------------------------------------------------------
(* The order of Thread's calls.                                            *)

LEMMA OrderStep ==
    ASSUME TypeOK, ApStaysUp, Underway, Quiet, Ordered, OrderAccepted, [Next]_vars
    PROVE  Ordered' /\ OrderAccepted'
<1>. USE DEF Ordered, OrderAccepted, Thread!OrderAccepted
<1>1. CASE NvsInit \/ LayerInit \/ MatterInit \/ WifiStart
  <2>1. UNCHANGED <<role, ifUp>>
    BY <1>1 DEF NvsInit, LayerInit, MatterInit, WifiStart, threadVars, Thread!ThreadErase
  <2>. QED BY <1>1, <2>1, BootIsQuiet
<1>2. CASE WifiCommand
  <2>1. /\ UNCHANGED <<role, ifUp>>
        /\ pc' \notin {"start", "if down"} /\ answer' # "REFUSED"
    BY <1>2 DEF WifiCommand, threadVars, Wifi!WifiNext, Wifi!wifi_sta_connect, Wifi!Open,
         Wifi!SetSsid, Wifi!SetPassword, Wifi!Commit, Wifi!Disconnect, Wifi!Configure,
         Wifi!Connect, Wifi!Fail
  <2>. QED BY <2>1
<1>3. CASE ThreadCommand
  <2>. USE DEF Thread!End
  <2>0. answer # "REFUSED" /\ None # "REFUSED"
    OBVIOUS
  <2>1. CASE Thread!TakeEnable \/ Thread!TakeDisable \/ Thread!TakeDataset
    <3>1. /\ UNCHANGED <<role, ifUp>> /\ answer' = None
          /\ pc' \notin {"start", "if down"}
      BY <2>1 DEF Thread!TakeEnable, Thread!TakeDisable, Thread!TakeDataset, Thread!Take,
                  Thread!threadVars
    <3>. QED BY <2>0, <3>1
  <2>2. CASE Thread!ifconfig_up
    BY <2>0, <2>2 DEF Thread!ifconfig_up
  <2>3. CASE Thread!thread_start
    <3>1. ifUp /\ ifUp' = ifUp /\ pc' = "idle"
      BY <2>3 DEF Thread!thread_start
    <3>2. answer' # "REFUSED"
      BY <2>3, <3>1 DEF Thread!thread_start
    <3>. QED BY <3>1, <3>2
  <2>4. CASE Thread!thread_stop
    <3>1. /\ ifUp' = ifUp /\ pc' \in {"idle", "if down"}
          /\ pc' = "if down" => role' = "disabled"
          /\ role' \in {"disabled", role}
      BY <2>4 DEF Thread!thread_stop
    <3>2. answer' # "REFUSED"
      BY <2>0, <2>4 DEF Thread!thread_stop
    <3>. QED BY <3>1, <3>2
  <2>5. CASE Thread!ifconfig_down
    <3>1. role = "disabled" /\ role' = role /\ pc' = "idle"
      BY <2>5 DEF Thread!ifconfig_down
    <3>2. answer' # "REFUSED"
      BY <2>5, <3>1 DEF Thread!ifconfig_down
    <3>. QED BY <3>1, <3>2
  <2>6. CASE Thread!thread_dataset_init
    BY <2>6 DEF Thread!thread_dataset_init
  <2>. QED BY <1>3, <2>1, <2>2, <2>3, <2>4, <2>5, <2>6
           DEF ThreadCommand, Thread!ThreadCommands
<1>4. CASE RoleChanges \/ EventHandled
  <2>1. /\ UNCHANGED <<pc, answer, ifUp>>
        /\ role' # role => role # "disabled"
    BY <1>4 DEF RoleChanges, EventHandled, Thread!ChangeRole, Thread!handle_thread_event
  <2>. QED BY <2>1
<1>5. CASE PowerLoss
  BY <1>5 DEF PowerLoss, Thread!ThreadPowerLoss
<1>6. CASE UNCHANGED vars
  BY <1>6 DEF vars
<1>. QED BY <1>1, <1>2, <1>3, <1>4, <1>5, <1>6 DEF Next

----------------------------------------------------------------------------
(* The runtime state of Thread.                                            *)

(* A group of events that says what the new role is.                       *)
LEMMA AnnounceMirrored ==
    ASSUME TypeOK, Mirrored, NEW new, Thread!Announce(new), role' = new,
           UNCHANGED thread
    PROVE  Mirrored'
<1>. SUFFICES ASSUME ~lost'
              PROVE  Mirrored'
  BY DEF Mirrored
<1>1. PICK p \in Seq(Thread!Events) :
         Thread!Post(p) /\ Switches(new, p) /\ Links(new, p) /\ Changes(new, p)
  BY Announced
<1>2. events' = events \o p /\ ~lost
  BY <1>1, Zenon DEF Thread!Post
<1>3. events \in Seq(Thread!Events)
  BY DEF TypeOK, Thread!ThreadTypeOK
<1>4. \/ LastOf(events', OnOff, SwitchEvent(role'))
      \/ NoneOf(events', OnOff) /\ thread'.enabled = (role' # "disabled")
  <2>1. CASE role = "disabled" <=> new = "disabled"
    BY <1>1, <1>2, <1>3, <2>1, Appended DEF Switches, SwitchEvent, Mirrored
  <2>2. CASE ~(role = "disabled" <=> new = "disabled")
    BY <1>1, <1>2, <1>3, <2>2, Appended DEF Switches
  <2>. QED BY <2>1, <2>2
<1>5. \/ LastOf(events', Link, LinkEvent(role'))
      \/ NoneOf(events', Link) /\ thread'.attached = (role' \in AttachedRoles)
  <2>1. CASE role \in AttachedRoles <=> new \in AttachedRoles
    BY <1>1, <1>2, <1>3, <2>1, Appended DEF Links, LinkEvent, Mirrored
  <2>2. CASE ~(role \in AttachedRoles <=> new \in AttachedRoles)
    BY <1>1, <1>2, <1>3, <2>2, Appended DEF Links
  <2>. QED BY <2>1, <2>2
<1>6. \/ LastOf(events', Change, "ROLE_CHANGED")
      \/ NoneOf(events', Change) /\ thread'.role = role'
  BY <1>1, <1>2, <1>3, Appended DEF Changes, Mirrored
<1>. QED BY <1>4, <1>5, <1>6 DEF Mirrored

(* An event about the dataset is about nothing else.                       *)
LEMMA DatasetMirrored ==
    ASSUME TypeOK, Mirrored, Thread!Post(<<"DATASET_CHANGED">>), UNCHANGED <<role, thread>>
    PROVE  Mirrored'
<1>. SUFFICES ASSUME ~lost'
              PROVE  Mirrored'
  BY DEF Mirrored
<1>. DEFINE p == <<"DATASET_CHANGED">>
<1>1. /\ p \in Seq(Thread!Events) /\ NoneOf(p, OnOff)
      /\ NoneOf(p, Link) /\ NoneOf(p, Change)
  BY OneEvent DEF Thread!Events, OnOff, Link, Change
<1>2. events' = events \o p /\ ~lost
  BY Zenon DEF Thread!Post
<1>3. events \in Seq(Thread!Events)
  BY DEF TypeOK, Thread!ThreadTypeOK
<1>. HIDE DEF p
<1>. QED BY <1>1, <1>2, <1>3, Appended DEF Mirrored

(* An event is handled: a field whose last event it was is now right.      *)
LEMMA HandledMirrored ==
    ASSUME TypeOK, Mirrored, Thread!handle_thread_event
    PROVE  Mirrored'
<1>. SUFFICES ASSUME ~lost
              PROVE  Mirrored'
  BY DEF Mirrored, Thread!handle_thread_event
<1>. DEFINE e == Head(events)
<1>1. /\ events \in Seq(Thread!Events) /\ events # << >> /\ events' = Tail(events)
      /\ UNCHANGED <<role, lost>> /\ thread' = Thread!Recorded(e)
  BY DEF TypeOK, Thread!ThreadTypeOK, Thread!handle_thread_event
<1>2. /\ thread \in [enabled : BOOLEAN, attached : BOOLEAN, role : Thread!Roles,
                     dataset_present : BOOLEAN]
      /\ e \in Thread!Events
  BY <1>1 DEF TypeOK, Thread!ThreadTypeOK
<1>3. /\ thread'.enabled = IF e = "START" THEN TRUE
                           ELSE IF e = "STOP" THEN FALSE ELSE thread.enabled
      /\ thread'.attached = IF e = "ATTACHED" THEN TRUE
                            ELSE IF e = "DETACHED" THEN FALSE ELSE thread.attached
      /\ thread'.role = IF e = "ROLE_CHANGED" THEN role ELSE thread.role
  BY <1>1, <1>2 DEF Thread!Recorded, Thread!Events
<1>. HIDE DEF e
<1>4. \/ LastOf(events', OnOff, SwitchEvent(role'))
      \/ NoneOf(events', OnOff) /\ thread'.enabled = (role' # "disabled")
  <2>1. CASE LastOf(events, OnOff, SwitchEvent(role))
    BY <1>1, <1>3, <2>1, Taken DEF e, SwitchEvent
  <2>2. CASE NoneOf(events, OnOff) /\ thread.enabled = (role # "disabled")
    BY <1>1, <1>3, <2>2, Taken DEF e, OnOff
  <2>. QED BY <2>1, <2>2 DEF Mirrored
<1>5. \/ LastOf(events', Link, LinkEvent(role'))
      \/ NoneOf(events', Link) /\ thread'.attached = (role' \in AttachedRoles)
  <2>1. CASE LastOf(events, Link, LinkEvent(role))
    <3>1. \/ LastOf(events', Link, LinkEvent(role'))
          \/ e = LinkEvent(role') /\ NoneOf(events', Link)
      BY <1>1, <2>1, Taken DEF e
    <3>2. ASSUME e = LinkEvent(role')
          PROVE  thread'.attached = (role' \in AttachedRoles)
      <4>1. CASE role' \in AttachedRoles
        BY <1>3, <3>2, <4>1 DEF LinkEvent
      <4>2. CASE role' \notin AttachedRoles
        <5>1. thread'.attached = FALSE
          BY <1>3, <3>2, <4>2 DEF LinkEvent
        <5>2. (role' \in AttachedRoles) = FALSE
          BY <4>2
        <5>. QED BY <5>1, <5>2, Zenon
      <4>. QED BY <4>1, <4>2
    <3>. QED BY <3>1, <3>2
  <2>2. CASE NoneOf(events, Link) /\ thread.attached = (role \in AttachedRoles)
    BY <1>1, <1>3, <2>2, Taken DEF e, Link
  <2>. QED BY <2>1, <2>2 DEF Mirrored
<1>6. \/ LastOf(events', Change, "ROLE_CHANGED")
      \/ NoneOf(events', Change) /\ thread'.role = role'
  BY <1>1, <1>3, Taken DEF e, Change, Mirrored
<1>. QED BY <1>4, <1>5, <1>6 DEF Mirrored

LEMMA MirrorSame ==
    ASSUME Mirrored, UNCHANGED <<events, lost, role, thread>>
    PROVE  Mirrored'
  BY DEF Mirrored

(* A stack that has not been started, as it is mirrored.                   *)
LEMMA FreshMirror ==
    ASSUME events = << >>, role = "disabled", thread = Thread!NoThread
    PROVE  Mirrored /\ DatasetKnown
<1>1. role \notin AttachedRoles
  OBVIOUS
<1>2. \A K : NoneOf(events, K)
  BY NoEvent
<1>3. /\ thread.enabled = FALSE /\ thread.attached = FALSE
      /\ thread.role = role /\ thread.dataset_present = FALSE
  BY DEF Thread!NoThread
<1>4. (role # "disabled") = FALSE /\ (role \in AttachedRoles) = FALSE
  BY <1>1
<1>. QED BY <1>2, <1>3, <1>4, Zenon DEF Mirrored, DatasetKnown

LEMMA MirrorStep ==
    ASSUME TypeOK, ApStaysUp, Quiet, Mirrored, DatasetKnown, [Next]_vars
    PROVE  Mirrored' /\ DatasetKnown'
<1>1. CASE NvsInit \/ LayerInit \/ MatterInit \/ WifiStart
  <2>1. UNCHANGED <<events, lost, role, thread>>
    BY <1>1 DEF NvsInit, LayerInit, MatterInit, WifiStart, threadVars, Thread!ThreadErase
  <2>2. ~thread.dataset_present
    BY <1>1, BootIsQuiet DEF Thread!NoThread
  <2>. QED BY <2>1, <2>2, MirrorSame DEF DatasetKnown
<1>2. CASE WifiCommand
  BY <1>2, MirrorSame DEF WifiCommand, threadVars, DatasetKnown
<1>3. CASE ThreadCommand
  <2>1. CASE UNCHANGED <<events, lost, role, thread, dataset>>
    BY <2>1, MirrorSame DEF DatasetKnown
  <2>2. CASE Thread!thread_start /\ Thread!Announce(role')
    BY <2>2, AnnounceMirrored DEF Thread!thread_start, DatasetKnown
  <2>3. CASE Thread!thread_stop /\ role' = "disabled" /\ Thread!Announce("disabled")
    BY <2>3, AnnounceMirrored DEF Thread!thread_stop, DatasetKnown
  <2>4. CASE /\ Thread!thread_dataset_init
             /\ dataset' = TRUE /\ Thread!Post(<<"DATASET_CHANGED">>)
    BY <2>4, DatasetMirrored DEF Thread!thread_dataset_init, DatasetKnown
  <2>5. CASE Thread!thread_start
    BY <2>1, <2>2, <2>5, Zenon DEF Thread!thread_start
  <2>6. CASE Thread!thread_stop
    BY <2>1, <2>3, <2>6, Zenon DEF Thread!thread_stop
  <2>7. CASE Thread!thread_dataset_init
    BY <2>1, <2>4, <2>7, Zenon DEF Thread!thread_dataset_init
  <2>8. CASE \/ Thread!TakeEnable \/ Thread!TakeDisable \/ Thread!TakeDataset
             \/ Thread!ifconfig_up \/ Thread!ifconfig_down
    BY <2>1, <2>8 DEF Thread!TakeEnable, Thread!TakeDisable, Thread!TakeDataset,
         Thread!ifconfig_up, Thread!ifconfig_down, Thread!threadVars
  <2>. QED BY <1>3, <2>5, <2>6, <2>7, <2>8 DEF ThreadCommand, Thread!ThreadCommands
<1>4. CASE RoleChanges
  <2>1. PICK new \in Thread!Roles : role' = new /\ Thread!Announce(new)
    BY <1>4, Zenon DEF RoleChanges, Thread!ChangeRole
  <2>2. UNCHANGED <<thread, dataset>>
    BY <1>4 DEF RoleChanges, Thread!ChangeRole
  <2>. QED BY <2>1, <2>2, AnnounceMirrored DEF DatasetKnown
<1>5. CASE EventHandled
  <2>1. Thread!handle_thread_event
    BY <1>5 DEF EventHandled
  <2>2. UNCHANGED dataset /\ thread' = Thread!Recorded(Head(events))
    BY <2>1 DEF Thread!handle_thread_event
  <2>3. thread'.dataset_present => dataset \/ thread.dataset_present
    BY <2>2 DEF Thread!Recorded, TypeOK, Thread!ThreadTypeOK
  <2>. QED BY <2>1, <2>2, <2>3, HandledMirrored DEF DatasetKnown
<1>6. CASE PowerLoss
  <2>1. events' = << >> /\ role' = "disabled" /\ thread' = Thread!NoThread
    BY <1>6 DEF PowerLoss, Thread!ThreadPowerLoss
  <2>2. role' \notin AttachedRoles
    BY <2>1
  <2>3. \A K : NoneOf(events', K)
    BY <2>1, NoEvent
  <2>4. /\ thread'.enabled = FALSE /\ thread'.attached = FALSE
        /\ thread'.role = role' /\ thread'.dataset_present = FALSE
    BY <2>1 DEF Thread!NoThread
  <2>5. (role' # "disabled") = FALSE /\ (role' \in AttachedRoles) = FALSE
    BY <2>1, <2>2
  <2>. QED BY <2>3, <2>4, <2>5, Zenon DEF Mirrored, DatasetKnown
<1>7. CASE UNCHANGED vars
  BY <1>7, MirrorSame DEF vars, DatasetKnown
<1>. QED BY <1>1, <1>2, <1>3, <1>4, <1>5, <1>6, <1>7 DEF Next

----------------------------------------------------------------------------
(* The theorems.                                                           *)

LEMMA InitInv == Init => Inv
<1>. SUFFICES ASSUME Init
              PROVE  Inv
  OBVIOUS
<1>1. /\ phase = "nvs" /\ mode = "none" /\ ap = FALSE
      /\ pc = "idle" /\ command = None /\ answer = None
      /\ stored = Wifi!NoPair /\ interrupted = FALSE /\ dataset = FALSE
      /\ sta = None /\ target = None /\ refused = FALSE
      /\ ifUp = FALSE /\ role = "disabled" /\ events = << >> /\ lost = FALSE
      /\ thread = Thread!NoThread
  BY DEF Init, Idle, Wifi!WifiInit, Thread!ThreadInit
<1>2. Wifi!WifiTypeOK
  BY <1>1 DEF Wifi!WifiTypeOK, Wifi!NoPair, Wifi!Pair
<1>3. Thread!ThreadTypeOK
  <2>1. Thread!NoThread \in [enabled : BOOLEAN, attached : BOOLEAN, role : Thread!Roles,
                             dataset_present : BOOLEAN]
    BY DEF Thread!NoThread, Thread!Roles
  <2>2. "disabled" \in Thread!Roles /\ << >> \in Seq(Thread!Events) /\ Len(<< >>) <= MaxEvents
    BY DEF Thread!Roles
  <2>. QED BY <1>1, <2>1, <2>2 DEF Thread!ThreadTypeOK
<1>4. TypeOK
  BY <1>1, <1>2, <1>3 DEF TypeOK, Calls, Steps
<1>5. ApStaysUp /\ Underway /\ Quiet
  BY <1>1 DEF ApStaysUp, Underway, ThreadSteps, Quiet
<1>6. Saved /\ StoredIsWhole /\ OkIsStored
  BY <1>1 DEF Saved, StoredIsWhole, Wifi!StoredIsWhole, OkIsStored, Wifi!OkIsStored, Wifi!NoPair
<1>7. Ordered /\ OrderAccepted
  BY <1>1 DEF Ordered, OrderAccepted, Thread!OrderAccepted
<1>. QED BY <1>1, <1>4, <1>5, <1>6, <1>7, FreshMirror DEF Inv

LEMMA NextInv == Inv /\ [Next]_vars => Inv'
  BY TypeStep, ApStep, UnderwayStep, QuietStep, CredentialsStep, OrderStep, MirrorStep, Zenon
     DEF Inv, CredentialsInv

(* The invariant holds: what the boot, the two radios' commands and the    *)
(* pending events have established at every step.                          *)
THEOREM InvCorrect == Spec => []Inv
  BY InitInv, NextInv, PTL DEF Spec

(* Every variable has a value of its kind, for any networks and roles and  *)
(* any length of the event queue.                                          *)
THEOREM TypeCorrect == Spec => []TypeOK
<1>1. Inv => TypeOK
  BY DEF Inv
<1>. QED BY <1>1, InvCorrect, PTL

(* NVS never holds the SSID of one network and the password of another,    *)
(* unless a save was cut short, however often power is lost.               *)
THEOREM StoredIsWholeCorrect == Spec => []StoredIsWhole
<1>1. Inv => StoredIsWhole
  BY DEF Inv
<1>. QED BY <1>1, InvCorrect, PTL

(* A wifi.sta_connect answered with ok is in NVS and in the driver.        *)
THEOREM OkIsStoredCorrect == Spec => []OkIsStored
<1>1. Inv => OkIsStored
  BY DEF Inv
<1>. QED BY <1>1, InvCorrect, PTL

(* The station is not told to use the password of other credentials with   *)
(* an SSID, nor a cut SSID but by the command that brought the long one.   *)
THEOREM ConnectsToOneNetworkCorrect == Spec => ConnectsToOneNetwork
<1>1. Inv /\ [Next]_vars =>
        [ target' \notin {target, None} /\ ~interrupted
          => /\ target'.ssid = target'.password
             /\ target'.cut => pc = "connect" /\ command = target'.ssid ]_vars
  <2>. SUFFICES ASSUME Inv, Next, target' \notin {target, None}, ~interrupted
                PROVE  OneNetwork(target')
    BY Zenon DEF OneNetwork
  <2>. QED BY ConnectStep DEF Inv, CredentialsInv
<1>. QED BY <1>1, InvCorrect, PTL DEF Spec, ConnectsToOneNetwork

(* OpenThread accepts the order of the calls, whatever failed before.      *)
THEOREM OrderAcceptedCorrect == Spec => []OrderAccepted
<1>1. Inv => OrderAccepted
  BY DEF Inv
<1>. QED BY <1>1, InvCorrect, PTL

(* With no event pending or lost, the runtime state is that of the stack.  *)
THEOREM StateIsCurrentCorrect == Spec => []StateIsCurrent
<1>1. Inv => StateIsCurrent
  <2>. SUFFICES ASSUME Inv, events = << >>, ~lost
                PROVE  /\ thread.enabled = (role # "disabled")
                       /\ thread.attached = (role \in AttachedRoles)
                       /\ thread.role = role
                       /\ thread.dataset_present => dataset
    BY Zenon DEF StateIsCurrent, Thread!StateIsCurrent
  <2>1. \A K, e : ~LastOf(events, K, e)
    BY DEF LastOf
  <2>. QED BY <2>1 DEF Inv, Mirrored, DatasetKnown
<1>. QED BY <1>1, InvCorrect, PTL

(* Nothing that comes after the access point takes it down again.          *)
THEOREM ApStaysUpCorrect == Spec => []ApStaysUp
<1>1. Inv => ApStaysUp
  BY DEF Inv
<1>. QED BY <1>1, InvCorrect, PTL

============================================================================
