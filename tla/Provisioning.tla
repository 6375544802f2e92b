---------------------------- MODULE Provisioning ----------------------------
(***************************************************************************)
(* The start of the board and what commands set up on it: app_main of      *)
(* main/src/orchestrator.cpp composed with the credentials of the Wi-Fi    *)
(* station and with the Thread stack.                                      *)
(*                                                                         *)
(* app_main makes its calls in order.  Those wrapped in ESP_ERROR_CHECK    *)
(* restart the board if they fail, the others end app_main and leave the   *)
(* board without an access point until power is lost.  Commands come       *)
(* through the access point and are handled one at a time by httpd.  Power *)
(* may be lost at any time.                                                *)
(***************************************************************************)
EXTENDS Naturals, Sequences

CONSTANTS Credentials, Long, AttachedRoles, None, MaxEvents

ASSUME ProvisioningAssumption ==
    /\ Long \subseteq Credentials
    /\ None \notin Credentials
    /\ {"disabled", "detached"} \cap AttachedRoles = {}
    /\ Credentials \cap {"enable", "disable", "dataset"} = {}
    /\ {"OK", "FAIL", "REFUSED"} \cap {None} = {}
    /\ MaxEvents \in Nat

VARIABLES
    phase,      \* the next call of app_main, "running" or "halted"
    mode,       \* the mode of the Wi-Fi driver: "none", "sta" or "apsta"
    ap,         \* the access point is up
    pc, command, answer,
    stored, sta, target, refused, interrupted,
    ifUp, role, dataset, events, lost, thread

Wifi == INSTANCE WifiCredentials
Thread == INSTANCE ThreadStack

bootVars == <<phase, mode, ap>>
httpdVars == <<pc, command, answer>>
wifiVars == <<stored, sta, target, refused, interrupted>>
threadVars == <<ifUp, role, dataset, events, lost, thread>>
vars == <<phase, mode, ap, pc, command, answer, stored, sta, target, refused,
          interrupted, ifUp, role, dataset, events, lost, thread>>

Idle ==
    /\ pc = "idle"
    /\ command = None
    /\ answer = None

Init ==
    /\ phase = "nvs"
    /\ mode = "none"
    /\ ap = FALSE
    /\ Idle
    /\ stored = Wifi!NoPair
    /\ interrupted = FALSE
    /\ Wifi!WifiInit
    /\ dataset = FALSE
    /\ Thread!ThreadInit

----------------------------------------------------------------------------
(* app_main.                                                               *)

Call(this, next) ==
    /\ phase = this
    /\ phase' = next

(* nvs_flash_init; a partition that is full or of a newer version is       *)
(* erased, and all that was kept with it.                                  *)
NvsInit ==
    /\ Call("nvs", "state")
    /\ \/ UNCHANGED <<wifiVars, threadVars>>
       \/ Wifi!WifiErase /\ Thread!ThreadErase
    /\ UNCHANGED <<mode, ap, httpdVars>>

(* Calls that initialise a layer: the runtime state and the registry, the  *)
(* event loop, esp_netif, the handlers and the driver of Wi-Fi, and        *)
(* OpenThread.  A failure of the first two restarts the board, which then  *)
(* is as it was when it started.                                           *)
LayerInit ==
    /\ \/ Call("state", "registry")
       \/ Call("registry", "loop")
       \/ phase \in {"state", "registry"} /\ phase' = "nvs"
       \/ Call("loop", "netif")
       \/ Call("netif", "wifi init")
       \/ Call("wifi init", "thread init")
       \/ Call("thread init", "matter init")
       \/ phase \in {"loop", "netif", "wifi init", "thread init"} /\ phase' = "halted"
    /\ UNCHANGED <<mode, ap, httpdVars, wifiVars, threadVars>>

(* Mutant: Wi-Fi is started before the Matter stack.                       *)
MatterAfterWifi ==
    /\ phase = "matter init" \/ phase = "running"
    /\ phase' = IF phase = "matter init" THEN "wifi start" ELSE phase
    /\ mode' = IF phase = "running" THEN "sta" ELSE mode
    /\ UNCHANGED <<ap, httpdVars, wifiVars, threadVars>>

(* matter_interface_init: the CHIP stack takes Wi-Fi to station mode; it   *)
(* may fail before or after that.                                          *)
MatterInit ==
    /\ \/ Call("matter init", "wifi start") /\ mode' = "sta"
       \/ Call("matter init", "halted") /\ mode' \in {mode, "sta"}
    /\ UNCHANGED <<ap, httpdVars, wifiVars, threadVars>>

(* wifi_interface_start: station and access point, each with its           *)
(* configuration.  Without a station configuration the access point starts *)
(* all the same; an error of any other call ends the start, and app_main   *)
(* only logs it.                                                           *)
WifiStart ==
    /\ Call("wifi start", "running")
    /\ \/ mode' = "apsta" /\ ap' = TRUE /\ Wifi!LoadAndConnect
       \/ mode' \in {mode, "apsta"} /\ UNCHANGED <<ap, sta, target>>
    /\ UNCHANGED <<httpdVars, stored, refused, interrupted, threadVars>>

----------------------------------------------------------------------------
(* The commands, once there is an access point to reach them through, and  *)
(* OpenThread and sys_evt.                                                 *)

WifiCommand ==
    /\ ap
    /\ Wifi!WifiNext
    /\ UNCHANGED <<bootVars, threadVars>>

ThreadCommand ==
    /\ ap
    /\ Thread!ThreadCommands
    /\ UNCHANGED <<bootVars, wifiVars>>

RoleChanges == Thread!ChangeRole /\ UNCHANGED <<bootVars, wifiVars>>
EventHandled == Thread!handle_thread_event /\ UNCHANGED <<bootVars, wifiVars>>

PowerLoss ==
    /\ phase' = "nvs"
    /\ mode' = "none"
    /\ ap' = FALSE
    /\ pc' = "idle" /\ command' = None /\ answer' = None
    /\ Wifi!WifiPowerLoss
    /\ Thread!ThreadPowerLoss

Next ==
    \/ NvsInit \/ LayerInit \/ MatterInit \/ WifiStart
    \/ WifiCommand \/ ThreadCommand \/ RoleChanges \/ EventHandled
    \/ PowerLoss

Spec == Init /\ [][Next]_vars

----------------------------------------------------------------------------
(* Properties.                                                             *)

Calls ==
    {"nvs", "state", "registry", "loop", "netif", "wifi init", "thread init",
     "matter init", "wifi start"}

Steps ==
    {"idle", "open", "set ssid", "set password", "commit", "disconnect",
     "configure", "connect", "if up", "start", "stop", "if down", "set dataset"}

(* Every variable holds a value of its kind, and no more events are posted *)
(* than the event loop's queue has room for.                               *)
TypeOK ==
    /\ phase \in Calls \cup {"running", "halted"}
    /\ mode \in {"none", "sta", "apsta"}
    /\ ap \in BOOLEAN
    /\ pc \in Steps
    /\ command \in Credentials \cup {"enable", "disable", "dataset", None}
    /\ answer \in {"OK", "FAIL", "REFUSED", None}
    /\ Wifi!WifiTypeOK
    /\ Thread!ThreadTypeOK

(* NVS holds the SSID and the password of one network, or neither, across  *)
(* restarts and an erased partition (orchestrator.cpp:21), unless a save   *)
(* was cut short.                                                          *)
StoredIsWhole == Wifi!StoredIsWhole

(* A wifi.sta_connect answered with ok has its credentials in NVS and in   *)
(* the driver (wifi_interface.cpp:180).                                    *)
OkIsStored == Wifi!OkIsStored

(* Thread commands call the stack in an order it accepts, in whatever      *)
(* state failures and restarts left it (thread_commands.cpp:12).           *)
OrderAccepted == Thread!OrderAccepted

(* With no event pending or lost, the runtime state is that of the Thread  *)
(* stack (thread_event_handler.cpp:13).                                    *)
StateIsCurrent == Thread!StateIsCurrent

(* Once the access point is up it stays so: nothing after it takes Wi-Fi   *)
(* back to station mode, as the Matter stack does when it starts           *)
(* (orchestrator.cpp:74).                                                  *)
ApStaysUp == ap => mode = "apsta" /\ phase = "running"

(* The station is told to connect with an SSID and a password of the same  *)
(* credentials, across restarts (wifi_interface.cpp:160), unless a save    *)
(* was cut short and no later one was complete.  The SSID may be cut to 31 *)
(* characters (line 48) and then names another network, which is given     *)
(* this password.  That happens in the very command that brings so long an *)
(* SSID, and never at a start: its buffer (line 68) does not take it.      *)
ConnectsToOneNetwork ==
    [][ target' \notin {target, None} /\ ~interrupted
        => /\ target'.ssid = target'.password
           /\ target'.cut => pc = "connect" /\ command = target'.ssid ]_vars
=============================================================================
