-------------------------- MODULE WifiCredentials --------------------------
(***************************************************************************)
(* The credentials of the Wi-Fi station: how wifi.sta_connect stores them  *)
(* and connects with them, and how a start of Wi-Fi loads them again.      *)
(* components/wifi_interface/src/wifi_interface.cpp and wifi_nvs_util.cpp. *)
(*                                                                         *)
(* Each call into NVS or the Wi-Fi driver is a step of its own and may     *)
(* fail.  nvs_set_str has written the flash when it returns, and what it   *)
(* returns is not looked at.  An SSID and a password are each named by the *)
(* credentials they belong to, so a pair is of one network if its two      *)
(* names are the same and its SSID has not been cut.  Passwords are taken  *)
(* to be of at most 63 characters, as those of WPA are.                    *)
(***************************************************************************)
EXTENDS Naturals

CONSTANTS
    Credentials,   \* an SSID and its password, as wifi.sta_connect names them
    Long,          \* those with an SSID of 32 characters or more
    None

VARIABLES
    pc,            \* where httpd is: "idle", or the call it is to make next
    command,       \* the command it handles, or handled last
    answer,        \* what it answered: "OK", an error, or None
    stored,        \* sta_ssid and sta_password of NVS
    sta,           \* the driver's station configuration
    target,        \* what the driver was last told to connect with
    refused,       \* a write of the present command failed
    interrupted    \* a save was cut short, and no later one was complete

wifiVars == <<stored, sta, target, refused, interrupted>>

Pair == [ssid : Credentials \cup {None}, password : Credentials \cup {None}]
NoPair == [ssid |-> None, password |-> None]

(* cut: of the SSID the driver has the first 31 characters only, the name  *)
(* of another network or of none.                                          *)
Config == [ssid : Credentials, password : Credentials, cut : BOOLEAN]

(* configure_sta: the driver's SSID field has 32 bytes, and                *)
(* copy_wifi_field keeps the last one for a terminator.                    *)
Configuration(ssid, password) ==
    [ssid |-> ssid, password |-> password, cut |-> ssid \in Long]

WifiInit ==
    /\ sta = None
    /\ target = None
    /\ refused = FALSE

----------------------------------------------------------------------------
(* httpd: wifi.sta_connect.                                                *)

Fail ==
    /\ answer' = "FAIL"
    /\ pc' = "idle"

wifi_sta_connect ==
    /\ pc = "idle"
    /\ command' \in Credentials
    /\ answer' = None
    /\ refused' = FALSE
    /\ pc' = "open"
    /\ UNCHANGED <<stored, sta, target, interrupted>>

Open ==
    /\ pc = "open"
    /\ \/ pc' = "set ssid" /\ UNCHANGED answer
       \/ Fail
    /\ UNCHANGED <<command, wifiVars>>

SetSsid ==
    /\ pc = "set ssid"
    /\ \/ stored' = [stored EXCEPT !.ssid = command] /\ UNCHANGED <<refused, interrupted>>
       \/ refused' = TRUE /\ interrupted' = TRUE /\ UNCHANGED stored
    /\ pc' = "set password"
    /\ UNCHANGED <<command, answer, sta, target>>

(* Mutant: the password written to the key of the access point's.          *)
SetPasswordOfAp ==
    /\ pc = "set password"
    /\ interrupted' = refused
    /\ pc' = "commit"
    /\ UNCHANGED <<command, answer, stored, sta, target, refused>>

(* Mutant: a password that is there already is kept.                       *)
SetPasswordOnce ==
    /\ pc = "set password"
    /\ stored' = IF stored.password = None THEN [stored EXCEPT !.password = command] ELSE stored
    /\ interrupted' = refused
    /\ pc' = "commit"
    /\ UNCHANGED <<command, answer, sta, target, refused>>

SetPassword ==
    /\ pc = "set password"
    /\ \/ stored' = [stored EXCEPT !.password = command]
          /\ interrupted' = refused /\ UNCHANGED refused
       \/ refused' = TRUE /\ interrupted' = TRUE /\ UNCHANGED stored
    /\ pc' = "commit"
    /\ UNCHANGED <<command, answer, sta, target>>

Commit ==
    /\ pc = "commit"
    /\ \/ pc' = "disconnect" /\ UNCHANGED answer
       \/ Fail
    /\ UNCHANGED <<command, wifiVars>>

(* The station goes on with its connection if this fails.                  *)
Disconnect ==
    /\ pc = "disconnect"
    /\ target' \in {None, target}
    /\ pc' = "configure"
    /\ UNCHANGED <<command, answer, stored, sta, refused, interrupted>>

(* Mutant: an error of configure_sta is not looked at.                     *)
ConfigureUnchecked ==
    /\ pc = "configure"
    /\ sta' \in {sta, Configuration(command, command)}
    /\ pc' = "connect"
    /\ UNCHANGED <<command, answer, stored, target, refused, interrupted>>

Configure ==
    /\ pc = "configure"
    /\ \/ /\ sta' = Configuration(command, command)
          /\ pc' = "connect"
          /\ UNCHANGED answer
       \/ Fail /\ UNCHANGED sta
    /\ UNCHANGED <<command, stored, target, refused, interrupted>>

Connect ==
    /\ pc = "connect"
    /\ \/ /\ target' = sta
          /\ answer' = "OK"
          /\ pc' = "idle"
       \/ Fail /\ UNCHANGED target
    /\ UNCHANGED <<command, stored, sta, refused, interrupted>>

----------------------------------------------------------------------------
(* The start of Wi-Fi.                                                     *)

(* Mutant: the buffer for the SSID has room for all of it.                 *)
FoundLong == stored.ssid \in Credentials /\ stored.password \in Credentials

(* get_wifi_sta_credentials: both strings are found and fit the buffers;   *)
(* that of the SSID has 32 bytes, its terminator included.                 *)
Found == stored.ssid \in Credentials \ Long /\ stored.password \in Credentials

(* load_sta_config_from_nvs and, once Wi-Fi runs, esp_wifi_connect.        *)
LoadAndConnect ==
    \/ /\ Found
       /\ sta' = Configuration(stored.ssid, stored.password)
       /\ target' \in {sta', target}
    \/ UNCHANGED <<sta, target>>

----------------------------------------------------------------------------
(* Power is lost: NVS stays.  A save between its two writes is cut short.  *)
WifiPowerLoss ==
    /\ sta' = None
    /\ target' = None
    /\ refused' = FALSE
    /\ interrupted' = (interrupted \/ (pc = "set password" /\ ~refused))
    /\ UNCHANGED stored

(* nvs_flash_erase.                                                        *)
WifiErase ==
    /\ stored' = NoPair
    /\ interrupted' = FALSE
    /\ UNCHANGED <<sta, target, refused>>

WifiNext ==
    \/ wifi_sta_connect \/ Open \/ SetSsid \/ SetPassword \/ Commit
    \/ Disconnect \/ Configure \/ Connect

----------------------------------------------------------------------------
(* Properties.                                                             *)

WifiTypeOK ==
    /\ stored \in Pair
    /\ sta \in Config \cup {None}
    /\ target \in Config \cup {None}
    /\ refused \in BOOLEAN
    /\ interrupted \in BOOLEAN
    /\ pc \in {"open", "set ssid", "set password", "commit", "disconnect",
               "configure", "connect"} => command \in Credentials

(* NVS holds the SSID and the password of one network, or neither, unless  *)
(* power was lost between the two writes of save_wifi_sta_credentials      *)
(* (wifi_nvs_util.cpp:29), or NVS refused one of them.                     *)
StoredIsWhole ==
    pc # "set password" /\ ~interrupted => stored.ssid = stored.password

(* wifi.sta_connect is answered with ok when the credentials are in NVS    *)
(* and the driver was told to connect with them, cut to 31 characters if   *)
(* need be, until the next command - except that a write NVS refused is    *)
(* not noticed.                                                            *)
OkIsStored ==
    answer = "OK" /\ command \in Credentials =>
        /\ ~refused => stored = [ssid |-> command, password |-> command]
        /\ target = Configuration(command, command)
=============================================================================
