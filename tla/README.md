# Verification of the Orchestrator firmware

TLA+ modules, TLC configurations and TLAPS proofs for the ESP32 *Orchestrator*:
the firmware that runs a Wi-Fi access point with an HTTPS/WebSocket server, a
Thread border router and a Matter controller, and lets dashboards command them
with JSON messages. All paths below are relative to the repository.

## 1. Inventory

### Tasks

| task | runs | started by |
|---|---|---|
| `main` | `app_main`, once | boot |
| `sys_evt` | `handle_wifi_event`, `handle_thread_event` | `esp_event_loop_create_default` |
| `httpd` | `websocket_handler`, every command, queued sends, `on_client_close` | `websocket_server_start` |
| `keep_alive_task` | the keep-alive monitor (priority 1) | `wss_keep_alive_start` |
| CHIP | attribute reports, CHIP events | `matter_interface_init` |
| `ot_task` | the OpenThread main loop | `thread_interface_init` |

### Components

**Keep-alive monitor** (`components/websocket_server/src/keep_alive.cpp`).
State: a table of `max_clients` slots (descriptor, `last_seen`) that only its
task touches, and a queue of `max_clients / 2` actions. Operations: add, remove,
mark active, stop (each one `xQueueSendToBack` with no wait); the task receives
an action or, when the wait runs out, sweeps the table, closing or pinging each
client through two callbacks. Hard: a full queue refuses calls and all callers
ignore it; descriptors are reused; time is compared in unsigned arithmetic; the
sweep judges by one reading of the clock while its callbacks block.
Correct when: a descriptor has one slot; no client heard from is closed; an open
session has a slot; a silent client goes in the end.

**WebSocket server** (`websocket_server.cpp`). State: the HTTPS server handle,
the keep-alive handle, two handlers; httpd's sessions and work queue (external).
Operations: start, stop, handshake, frames, close, send to one client,
broadcast, client count. Sends may come from any task and are queued for httpd.
Hard: a stop while sessions are open or a send is under way; a refused work
item; a queued send that outlives its session.
Correct when: each message reaches each client connected throughout, or is
known to be lost; nothing uses a handle after it is gone.

**Runtime state** (`main/src/state/orchestrator_state.cpp`). State: one
structure under a mutex. Operations: setters, JSON copy, snapshot to one client
or to all, events. Hard: the lock is released between the copy and the send, and
two tasks broadcast. Correct when: no change passes a client by; what a client
saw last is the state.

**Device registry** (`main/src/registry/device_registry.cpp`). State: one NVS
blob of at most 16 devices with at most 8 capabilities each. Operations: boot,
upsert, remove, rename, get, look-ups, listing; each loads the whole blob and
may write it back. Hard: power loss and failure between load, write, commit and
answer; limits; a copy of a device changed between two loads.
Correct when: a command takes effect once or not at all; what is stored is what
the next boot accepts.

**Inbound message handler** (`main/src/messages/inbound_message_handler.cpp`)
and **commands** (`main/src/commands/`). No state; parse, dispatch, answer with a
`command_result` or a protocol error. Hard: failures between the effect of a
command and its answer. Correct when: at most one answer per request, and
success means the effect.

**Event handlers** (`main/src/event_handlers/`). No state; Wi-Fi and Thread
events set the runtime state and broadcast it, `AP_START` and `AP_STOP` start and
stop the server. Attribute reports are decoded and broadcast.

**Matter controller** (`components/matter_interface/src/matter_controller.cpp`).
State: two callbacks. Operations: initialise, read, subscribe, invoke; reports
and the end of subscriptions come back in the CHIP task. Hard: a request before
the initialisation; a report while a command rewrites the device it is about.
Correct when: a report carries the label of the capability that was asked for.

**Wi-Fi interface** (`components/wifi_interface/`). State: credentials in NVS, the
driver's configuration. Hard: SSID and password saved one after the other, cut
to the driver's fields, read back into others. Correct when: the station never
uses one network's password for another; ok means stored.

**Thread interface** (`components/thread_interface/`). State: OpenThread's, mirrored
in the runtime state by events. Hard: calls that must come in an order, each of
which may fail; the role read after the event that announced it. Correct when:
the stack never refuses a call for its order; without events pending the mirror
is true.

**Boot** (`main/src/orchestrator.cpp`) with **Matter interface**
(`components/matter_interface/`): the order of initialisation, which matters
since the CHIP stack takes Wi-Fi to station mode. **Outbound message builder**:
formatting, and the look-up that labels a report.

### How they interact

```
 Wi-Fi/Thread events --sys_evt--> event handlers --set--> runtime state
                                        |                      |copy
                                        +---- broadcast <------+
                                                 |  httpd_queue_work
 dashboards <--frames--> httpd: WebSocket server +--> async_send_task
                           |  handle_json_inbound_message      
                           +--> commands --> device registry --> NVS
                           |add/remove/active          (then broadcast)
                           v
                       queue --> keep_alive_task --trigger_close/ping--> httpd
```

The hazards of this code are listed in `PROJECT.json`, each at its line, with
the properties that would catch it going wrong or the reason why none does.

## 2. Modules

| module | what it is |
|---|---|
| `KeepAlive` | the monitor alone: table, queue, the task's steps, the four calls |
| `KeepAliveSessions` | the monitor composed with the sessions that drive it; its properties |
| `KeepAliveProofs`, `KeepAliveWatched` | proofs about the composition |
| `RegistryContents` | abstract specification: a set of devices, commands that take effect once or not at all |
| `DeviceRegistry` | the registry over its NVS blob with the commands that change it; implements `RegistryContents` |
| `DeviceRegistryProofs`, `RegistryRefinement` | proofs about `DeviceRegistry`; the second, that it implements `RegistryContents` |
| `StateDelivery` | runtime state, broadcasts of two tasks, the queued sends, connections |
| `StateDeliveryProofs` | proofs about `StateDelivery` |
| `ServerLifecycle` | start and stop of the WebSocket server against httpd, the keep-alive tasks and a task that sends |
| `ServerLifecycleProofs` | proofs about `ServerLifecycle` |
| `CommandHandler` | every command, its answer, and the Matter reports that follow |
| `CommandHandlerProofs` | proofs about `CommandHandler` |
| `WifiCredentials` | the station's credentials: saved, loaded, used |
| `ThreadStack` | OpenThread as commands drive it and events mirror it |
| `Provisioning` | boot, composed with `WifiCredentials` and `ThreadStack` |
| `ProvisioningProofs` | proofs about `Provisioning` |
| `MCKeepAlive`, `MCDeviceRegistry`, `MCCommandHandler` | the modules with TLC's symmetry sets; values are in the `.cfg` files. The other runs use their module directly |

`PROJECT.json` maps each definition to its lines.

### KeepAlive, KeepAliveSessions

`clients[i]` and `age[i]` are a slot's descriptor and the ticks since its
`last_seen` (the code only uses differences of times, so ages instead of absolute
times lose nothing; they stop at `AgeCap`, beyond every threshold). `queue` is
`h->q`. `pc` is the task's place: about to compute its wait (`loop`), blocked
(`receive`), in the sweep at slot `at` (`sweep`), ended (`done`). `overdue` is the
set of slots past `not_alive_after_ms` at the time the sweep read; since only
this task writes the table, that set is what its comparisons will find.
`CheckDelays` has the unsigned difference of `calculate_next_check` with
`Modulus` for 2^64. Time passes while the task is blocked, and for up to
`MaxLate` ticks while it is runnable.

The sessions: `Connect`, `Frame`, `CloseFrame` and `OnClientClose` are the callers
in `websocket_server.cpp`; `client_not_alive_cb` marks an open session as closing.
`quiet`, `fresh`, `lost` and `silence` are history: how long ago a call about a
descriptor was accepted, of which descriptors one was accepted since the sweep
read its time, of which descriptors an Add or the Remove at the end of a session
was refused, and how long ago a call of any kind was made (counted up to
`MaxSilence`). No guard reads them. After `StopServer` no call reaches the queue, so
every descriptor counts as lost.

### RegistryContents, DeviceRegistry

`blob` is what NVS holds, `store` the loaded copy, `record` the device being
upserted, `pc` the step of the command. Every command of the code that changes
the registry is there: `matter.pair_ble_thread`, `device.remove`,
`device.rename`, `device.capability.add`. `Restart` may come between any two
steps; each step that allocates or touches NVS may fail, the commit after the
write included. A pairing that fails before it reaches the registry touches
nothing and is left out. A boot may find no blob, one of this version, one the
validity tests reject, or one larger than `RegistryStore`: of the last the load
fails, `app_main` aborts and the device boots again, for ever; in the model as
in the code, such a registry never leaves `boot`. The write of a blob is atomic and what NVS
holds stays, as NVS promises (external); `nvs_flash_erase` on an unusable
partition is in `Provisioning`, not here.

Refinement mapping: the devices are the records of `blob` as a function from
identifiers; a command has been applied when its blob is written (`pc =
"commit"`); answers are the same.

### StateDelivery

`state` counts how often each of three fields was set: `radio` (Wi-Fi and Thread
handlers, in `sys_evt`), `matter` (`matter.controller_init`, in `httpd`), and `clients`,
which is `websocket.client_count`. Of the first two every change is broadcast
(`Announced`). The third is set by each connection, CLOSE frame and end of a session
(`inbound_message_handler.cpp:684`), and a connection sends a snapshot to the new client
alone: the others get an event with the count. A snapshot is old if a setter has run
since its copy, also one that set the value that was there. A handler is `RadioEvent` or
`Command`, then `Copy` (the copy under the mutex), `List` (`httpd_get_client_list`), a `Send`
per client and `Done`. `Upgrade` sends a snapshot to the new client alone.
`work` is httpd's queue of `async_send_task` arguments; `Deliver` does one, for
whichever session has the descriptor by then. `view` is the last snapshot a
session got, `seen` the latest change of each field in any, `lost` the sessions
a send to which failed. `overtaken` and `behind` are history that no guard
reads: the tasks between whose copy and last send another task copied a newer
state or a client connected, and the sessions whose last snapshot was queued by such
a task, or which have been sent none since another client connected.

### ServerLifecycle

Each start of the server has a generation, which names its HTTPS server
(`httpd[g]`, `sessions[g]`, `work[g]`) and its keep-alive storage (`storage[g]`,
`stop[g]`, `ctx[g]`). `server`, `keep_alive` and `handlers` are the static variables
of `websocket_server.cpp`. `events` are AP_START and AP_STOP, posted when the
access point changes (`ap`) and handled later by `sys_evt`, whose place in
`websocket_server_start` or `_stop` is `pc`; httpd, the keep-alive tasks and the
CHIP task, which broadcasts a report (`sender`), run in between. The sender reads
`server` anew for each test and each call, as the code does. Using a handle that
is null or freed sets `fault`, and the board then restarts. `create_ssl_config` makes
the keep-alive storage httpd's `global_user_ctx` and names no function to free it
with; `httpd_stop` of the ESP-IDF (external) then frees it with `free`, and the monitor's
task frees the same block. A completed stop therefore `Released` the storage: freeing it
twice, or going on with it (`UseReleased`), may fault, or nothing may come of it. `risky`
is history and no guard reads it. What a table holds is left to `KeepAlive`: here a table that may
hold a client (`watched`) may sweep.

### CommandHandler

httpd takes a message, carries it out (one action per kind of command, with its
refusals and failures) and leaves its `Result` in `handling`; `Answer` builds and
queues the answer, or fails to. `registry` keeps the capabilities of each device
in their order. `inflight` are the reads and subscriptions the CHIP stack holds;
the CHIP task looks a report up (`AttributeReport`) and broadcasts it
(`BroadcastReport`), with commands in between. The steps within a registry
command are those of `DeviceRegistry`, and those of the radios' commands
(`Control`) of the next two modules. The two modules are tied together by
`RegistryContents`: `DeviceRegistry` implements it step by step, and
`RegistryAsPromised` says that here, where a registry command is one step, the step
is one of its effects on `Devices`, or none and no ok.

### WifiCredentials, ThreadStack, Provisioning

`WifiCredentials`: `stored` is what NVS has of SSID and password, each named by the
network it belongs to; `sta` is the driver's configuration, `target` what it was
last told to connect with. `wifi_sta_connect` is followed by one step per call into
NVS or the driver. A `nvs_set_str` that fails is not noticed by the code.

`ThreadStack`: `ifUp`, `role` and `dataset` are OpenThread's (external: it refuses to
start without its interface and to take the interface down while it runs), `thread`
is the runtime state's mirror, `events` the queue between them.

`Provisioning` has `app_main`'s calls in `phase`, and lets commands come once the access
point is up. Power may be lost between any two steps: NVS stays, everything else
starts anew. `mode` is what the Wi-Fi driver was set to, by the CHIP stack among
others.

## 3. Runs

| run | expects | shows |
|---|---|---|
| `keep_alive` | pass | `UniqueSlots`, `NoFalseClose`, `OpenIsWatched`, `CheckedInTime` (no wait outlasts a client's period), the inductive invariant `Inv` |
| `keep_alive_live` | pass | `SilenceEmptiesTable`: when callers fall silent, every slot is freed; `SilenceIsBounded`: how soon |
| `keep_alive_overdue` | violation | an overdue client makes the wait the default, not the minimum |
| `keep_alive_starved` | violation | a dead client is kept while another one talks |
| `registry` | pass | `StoredWellFormed`, `Inv`, `Prepared` (what is about to be written is the command's effect on what is stored), `Implements` (the refinement), `CapabilitiesKept` (no update lost), `RetryIsHarmless` (a command may be sent again after an error) |
| `registry_pair` | violation | pairing succeeds without a registry entry |
| `state_delivery` | pass | `NoChangeMissed`, `StaleIffOvertaken` (exactly when a client's last snapshot is old), `Inv`, and `SnapshotAfterUpgrade` (liveness) |
| `state_delivery_stale` | violation | a client's last snapshot may be an old one |
| `commands` | pass | `OkIsDone`, `ReportsAreLabelled`, `RegistryAsPromised` (its registry changes as `RegistryContents` has it) |
| `provisioning` | pass | `StoredIsWhole`, `OkIsStored`, `ConnectsToOneNetwork`, `OrderAccepted`, `StateIsCurrent`, `ApStaysUp` |
| `server_lifecycle` | pass | `ServerIsWhole`, `NoTaskForgotten`, `ServerFollowsAp`, `OnlyRiskyStopsFault`, and `StoppedIsFreed` (liveness) |
| `server_stop` | violation | a stop with a session open ends in a fault |

Each passing run also checks its module's `TypeOK`, except `keep_alive_live`.

**What the properties except is in the model all the same.**

* `UniqueSlots` and `NoFalseClose` hold of every descriptor *none of whose
  calls was refused*; with a refused Remove both fail, since `register_client`
  would give a reused descriptor a second slot and `refresh_client_status` would
  then refresh only the first. `NoFalseClose` also excepts what arrived after the
  sweep read its time.
* `NoChangeMissed` excepts a client to which a send failed: nothing is sent again.
  `StaleIffOvertaken` excepts it too.
  `NoChangeMissed` is about the announced fields: a connection's change of
  `client_count` does pass the other clients by, as `StaleIffOvertaken` says.
* `StaleIffOvertaken` is the finding `LastSnapshotIsCurrent` made exact: once
  everything is delivered, a client's view is old if and only if the task that queued
  its last snapshot had been overtaken, by a newer copy or by a connection, or another
  client has connected since. So there are two things to change: keep copy and queueing in one
  critical section, and broadcast the snapshot of a connection, as the protocol
  (`docs/websocket_protocol.md:140-146`) says of `websocket.client_connected`.
* `SilenceIsBounded` and `CheckedInTime` are what holds in place of the comment
  that `OverdueWaitsMinimum` refutes and the promise that `UnresponsiveIsRemoved`
  refutes: a client *within* its period is checked on time, and a silence of
  `NotAliveAfter + DefaultTimeout + 3 * MaxLate` empties the table. The three
  latenesses are real: when the task takes what was queued, when it wakes for a sweep
  that finds a client just short of the threshold, and when it wakes for the next.
* `RetryIsHarmless` is about the registry's commands (their payload fails at
  `inbound_message_handler.cpp:330` and 345). A read or subscription requested again
  after its answer could not be built (line 212) is a second one.
* `CapabilitiesKept` lets a removal and a new pairing of the device take its
  capabilities away: pairing puts a placeholder in the record's place.
* `OnlyRiskyStopsFault` says that a handle which is null or gone is used only if
  the keep-alive monitor could not be started, or a stop found a session open, a
  message on its way or a sweep under way, or one began during the stop. Besides,
  *any* stop that comes to its end, also of a server at rest, may end in a fault of
  one other kind: httpd has freed the keep-alive storage (`websocket_server.cpp:106`)
  which the monitor frees too (`keep_alive.cpp:281`) or still uses. In all of these
  the model does reach the fault: the exceptions are the finding, and the property is
  that there is no third kind. A start after a quiet stop is as safe as the first only
  if nothing came of the storage being freed twice; a `global_user_ctx_free_fn` that
  does nothing would make it so.
* `NoTaskForgotten` and `StoppedIsFreed` are about a STOP_TASK that was sent and one that
  was accepted. One that a full queue refused leaves its monitor running for ever; of that
  monitor `keep_alive_live` shows that its table still empties (`StopServer` with a full queue).
* `ServerFollowsAp` excepts events lost in a full queue, and an old httpd that goes
  on when `httpd_ssl_stop` failed.
* `StoredIsWhole` and `ConnectsToOneNetwork` except a save that was `interrupted`:
  by a loss of power between its two writes, or by NVS refusing one of them.
  `ConnectsToOneNetwork` also allows one thing the code does: an SSID of 32 characters is
  cut to 31 for the driver (`wifi_interface.cpp:48`), which names another network, and the
  station is told to use this password for it. It allows that only to the
  `wifi.sta_connect` that brought that SSID; a start never does it, since the SSID cannot
  be read back.
  `OkIsStored` excepts a refused write, which the code does not notice.
* `ReportsAreLabelled` excepts a device whose record was written after the
  read was requested (`touched`), an earlier capability on the same path
  (`Shadowed`) and a report without a label.
* `OkIsDone` says nothing of `matter.pair_ble_thread`, whose registry entry may be
  missing (`registry_pair`), nor of requests the CHIP stack drops.

**The five violations.**

* `OverdueWaitsMinimum`: the comment at `keep_alive.cpp:113` says a delay below 0
  becomes `MIN_KEEP_ALIVE_CHECK_MS`. `time_until_check` is a `uint64_t`: below 0
  it is huge and the default of 30 s is used.
* `UnresponsiveIsRemoved`: `keep_alive.h:19` promises "timely removal of inactive
  or unresponsive clients". The sweep is the timeout branch of the receive; one
  client's frames, each within the wait, postpone it for ever. The property only
  asks for removal in the end, with no call refused and time passing.
* `PairedIsRegistered`: `docs/websocket_protocol.md:197` says pairing creates or
  updates a placeholder; `matter_commands.cpp:37` ignores whether it did.
* `LastSnapshotIsCurrent`: `docs/websocket_protocol.md:140-149` has dashboards
  follow snapshots. `orchestrator_state.cpp` copies the state at line 163 and queues the copy at
  line 188 without the lock, so `sys_evt` and `httpd` can queue theirs in the
  wrong order, and the old one stays on the screen until the next change.
* `StopHalts`: `websocket_server.h:43` says the stop "halts the WebSocket server if
  it is currently running, stops the keep-alive mechanism for the WebSocket
  connections, and deallocates resources". `websocket_server_stop` clears
  `keep_alive` at line 337 before `httpd_ssl_stop` closes the sessions at line 341;
  `on_client_close` (line 88) then passes the null handle to
  `wss_keep_alive_remove_client`, which dereferences it (`keep_alive.cpp:330`).

### Bounds

* `KeepAlive.cfg`: two descriptors (a second client is what makes the queue fill
  and the sweep have two slots to do), four slots so that the queue holds two
  actions and the table is larger than the number of sessions, as in the firmware
  (10 slots; httpd has fewer sockets). The queue does fill and refuse. `Period = NotAliveAfter = 1`
  tick: a client is overdue after its second silent tick. `DefaultTimeout = 2`,
  `MinCheck = 1` keep the order MinCheck <= Period <= DefaultTimeout of the
  code (1 s, 5 s, 30 s). `Modulus = 16` is larger than every time that occurs, so a
  wrapped difference is larger than the default, as with 2^64. `AgeCap = 2` is the first age
  past the threshold.
* `KeepAliveLive.cfg`, `KeepAliveOverdue.cfg`, `KeepAliveStarved.cfg`: two slots,
  so a queue of one: the smallest system with two clients. In `KeepAliveLive.cfg`
  the task may also be late by a tick (`MaxLate = 1`), and `MaxSilence = 7` is one
  more than the limit of `SilenceIsBounded`, which is reached: with a limit of one
  tick less TLC finds a slot in use. The other keep-alive runs do not look at the
  silence (`MaxSilence = 0`).
* `DeviceRegistry.cfg`: room for two devices of three and two capabilities of
  three: full registry, full list, first and last record, replacement and
  addition all occur. Two targets tell a replaced capability from an old one.
* `DeviceRegistryPair.cfg`: one record, so a second pairing finds it full.
* `StateDelivery.cfg`: two clients, one change of each announced field (so two tasks
  broadcast different states at the same time), three connections and disconnections (so a
  descriptor is used again, and a client connects while another is there), four changes
  in all, a work queue of two that fills. The proofs cover any number of changes.
* `StateDeliveryStale.cfg`: one client is enough for its snapshot to be old.
* `CommandHandler.cfg`: one node, two paths, two semantic types of which one has a
  read command, two capabilities (so that one can shadow the other), one request
  under way. Commands on different nodes touch different entries, and the proofs cover
  any number of all of these.
* `Provisioning.cfg`: two networks, one with an SSID of 32 characters, which is cut for
  the driver and cannot be read back; one attached role; a queue of three events,
  the largest group that one change posts, so that a second change loses its
  events.
* `ServerLifecycle.cfg`: two starts, so that an old generation meets a new one; one
  session; a queue of one event, so that the second of two quick changes is lost.
  The proofs cover any number of all three.
* `ServerLifecycleStop.cfg`: one start.

Symmetry is used in invariant runs over descriptors and over paths, and in the
registry over identifiers (its one temporal property is a safety property); no
liveness run uses it.

### Deadlock

The keep-alive runs switch the deadlock check off: after `STOP_TASK` the task is
gone and a stopped server makes no calls. The other runs check it, though by
their nature they cannot stop: power can always be lost, and in
`StateDelivery` a command that changes nothing can always come.

### Fairness

* `KeepAliveSessions!Fairness`: weak fairness of the task (FreeRTOS runs a ready
  task once those of higher priority block), of time, and of the end of a session
  that is being closed (httpd processes `httpd_sess_trigger_close` in its own
  loop). Nothing is assumed of clients: they may send for ever or never.
* `StateDelivery!Fairness`: weak fairness of both tasks' broadcasts once begun
  (no step of them waits for another task beyond the mutex, whose holder only
  copies), and strong fairness of `Deliver`: httpd's loop handles a control
  message, among them queued work, in each turn before it reads the sockets, so
  requests that keep coming cannot hold it up; weak fairness would not say so,
  since each request disables `Deliver` while it is handled.
* `ServerLifecycle!Fairness`: weak fairness of each keep-alive task (a sweep ends, a
  queued STOP_TASK is received: FreeRTOS runs a ready task) and of the restart after a
  fault (the panic handler resets the board). Nothing is assumed of the access point,
  of clients or of the sender.

## 4. Proofs

TLAPS proves the following for all values of the constants that satisfy the
modules' named assumptions.

**`KeepAliveProofs`** (`KeepAliveAssumption`): `Spec => []TypeOK`, `[]Inv`,
`[]UniqueSlots`, `[]NoFalseClose`. Neither safety property is inductive. What
makes them so is what queue and table say *together* of a descriptor none of
whose calls was refused (`Tracked`): between two queued Adds stands a Remove;
before an Add of a descriptor that has a slot stands a Remove; an ended session
has its Remove after its last Add; a slot is no older than the last accepted
call, unless that call is still queued; a call queued during the sweep is noted
in `fresh`. With `SweepConsistent` (the slots still to be closed are ahead of the
sweep and past the threshold) this is `Inv`. `SendQueued` and `ReceiveQueued`
say how a send and a receive shift the positions of queued actions; there is a
lemma per caller (`ConnectTracked`, `FrameTracked`, `RemoveTracked`) and one per
action handled (`AddTracked`, `RemoveHandled`, `UpdateHandled`).

Also `[]CheckedInTime`, which is inductive with types: the least of the
delays is no larger than what is left of a client's period, since for a client within it
the unsigned subtraction does not wrap (`WaitFacts`). And `[]SilenceIsBounded`,
the bounded form of `SilenceEmptiesTable`: the liveness property itself needs
fairness and stays with TLC, but that a silence *longer than the limit* finds no slot
in use is a safety property and is proved for any table and any times. Its
invariant is `SilenceInv`: what is queued was queued while the task was runnable; a slot
is as old as the silence, but for the time the last call lay in the queue; a task that
sleeps was not late; and at each place of the task, the longest silence that a slot
in use can have seen there. A sweep either found a silence still too short, or has every
slot among those it will close.

**`DeviceRegistryProofs`** (`RegistryAssumption`, `NoCommandAssumption`):
`Spec => []TypeOK`, `[]Inv`, `[]StoredWellFormed`. The invariant adds to
`StoredWellFormed` that the copies in RAM are well formed and that a loaded store
equals the stored one when it is changed. The lemmas say of each change of a
sequence of records (replace, append, shift down, put a capability) that it keeps
it well formed.

**`StateDeliveryProofs`** (`DeliveryAssumption`): `Spec => []TypeOK`, `[]Inv`,
`[]NoChangeMissed`, `[]StaleIffOvertaken`. `NoChangeMissed` needs that no copy, queued snapshot or
delivered one is newer than the state (`NotAhead`), so that the latest value
survives the maximum in `seen`, and that `handled` and `todo` are set only while
a broadcast runs (`TypeOK`). `StaleIffOvertaken` is about the *last* snapshot instead of
the latest value, and its invariant (`Ordered`) about `Final`, the last snapshot queued
for a client or else the last it got: a task that was overtaken sends an old state, one
that was not sends the present one or the changed field is about to be copied for
everyone (`OthersAreCurrent`); so what a client will have seen last is current, or
coming, unless an overtaken task queued it or another client connected since, and then it is
old (`BehindIsOld`), and stays so, since `state` counts what was set and only grows. `FinalAppend` and
`FinalDeliver` say what queueing and delivering do to `Final`.

**`KeepAliveWatched`** (also that the descriptors are finite and no more than the
slots: the ESP-IDF has 10 sockets by default, and the table 10 slots): `Spec => []OpenIsWatched`. The
invariant is what queue and table say of an open session: an Add behind every
queued Remove, or a slot and no Remove (`Watched`). The hard step is the Add that is
handled: a slot is free, since otherwise the table would be an injection of the slots
into the other descriptors, of which there are too few (`FreeSlotExists`).

**`RegistryRefinement`** (assumptions of `DeviceRegistryProofs`): `Spec => []Prepared` and
`Spec => Implements`. `Prepared`, checked by TLC first, says that when a command is about
to write, the devices it leaves are the command's effect on the stored ones,
although it worked on copies loaded earlier. It needs what each change of the record
sequence does to the devices it stands for (`ReplaceEffect`, `AppendEffect`,
`ShiftDownEffect`, `PutCapabilityEffect`) and that a well-formed sequence has as many
devices as elements (`KnownCardinality`, by a bijection). Then each step maps to a
step of `RegistryContents` or a stutter (`StepRefines`), the write to `TakeEffect`.
`CapabilitiesKept` (an action property) follows from that: of the abstract steps only
an effect changes the devices, and `EffectKeeps` says which capabilities it
leaves alone. `RetryIsHarmless` is inductive with `Prepared`: an effect done twice is
done once (`EffectAgain`), the limits included, since a device and a capability that are
there need no room.

**`ServerLifecycleProofs`** (`LifecycleAssumption`): `Spec => []TypeOK`,
`[]ServerIsWhole`, `[]NoTaskForgotten`, `[]OnlyRiskyStopsFault`, `[]ServerFollowsAp`, for
any number of starts, sessions and events. The invariant of the first four: objects
of starts to come do not exist (`Fresh`), `server` and `keep_alive` name what each place
of `sys_evt` says they do (`ServerHandle`, `KeepAliveHandle`), what httpd and the tasks
hold goes with their state (`Objects`), and as long as nothing risky happened, a
session, a sweep and the sender only use the current server (`Safe`). It has one lemma per
action. That the storage is freed by httpd is no part of it: the three steps at which that
may fault establish the second case of `OnlyRiskyStopsFault` themselves, and a fault ends
every step but the restart. `ServerFollowsAp` has an invariant of its own: events alternate and the last one
is the state of the access point (`EventsMatch`), between them the server is as
the last event handled wanted it (`ServerAsWanted`), and one httpd runs (`OneHttpd`).

**`CommandHandlerProofs`** (`CommandAssumption`, `NothingAssumption`): `Spec => []TypeOK`,
`[]OkIsDone`, `[]ReportsAreLabelled`, and `RegistryAsPromised` (an
action property; the nodes must be finitely many, since `RegistryContents` counts its
devices). `OkIsDone` is inductive with
types, since no step but httpd's own changes registry and controller.
`ReportsAreLabelled` needs `RequestsMatch`: a read under way is of a path on which the
device has a capability of the type asked for, until its record is written.
`RegistryAsPromised` has one lemma per registry command, over what putting a capability
in a list does to the list as a function of its places (`PutPlace`).

**`ProvisioningProofs`** (`ProvisioningAssumption`): `Spec => []TypeOK`,
`[]StoredIsWhole`, `[]OkIsStored`, `ConnectsToOneNetwork` (an action property),
`[]OrderAccepted`, `[]StateIsCurrent`, `[]ApStaysUp`. The invariant says how far a save
has come (`Saved`), which interface state each Thread call finds (`Ordered`), that
without an access point nothing is under way (`Quiet`), and of the mirrored fields
(`Mirrored`): the *last* pending event about a field is that of the present role, or
there is none and the field is right. That is what makes reading the role late
harmless. `Appended` and `Taken` say what posting and handling do to the last event
of a kind; `Announced`, that a change of role posts the right one.

Only model-checked: liveness (`SilenceEmptiesTable`, `SnapshotAfterUpgrade`,
`StoppedIsFreed`: fairness and ENABLED are beyond the prover), and the violations,
which are counterexamples.

## 5. Plan

Done, in this order: `KeepAlive` with its sessions, `DeviceRegistry` over
`RegistryContents`, `StateDelivery`, `ServerLifecycle`, `CommandHandler`,
`WifiCredentials` and `ThreadStack` in `Provisioning`, and the proofs above.

What could come next: `ServerLifecycle` composed with `StateDelivery`, to say which
messages a stop loses; the reports of `CommandHandler` against the registry's
steps instead of its effects; the order of tests and effects within a handler as
steps of its own.

## 6. Not modelled

* Formatting of messages (`*_to_json` and the stateless builders of
  `outbound_message_builder.cpp`) and the parsing of payloads: a payload is well
  formed or not, and numbers are not cast to narrower types.
* Handlers that only broadcast information and keep no state:
  `handle_chip_device_event` and some Thread events. Events and `command_result`
  messages take the way of snapshots in `StateDelivery`.
* Queries of the Thread interface, which change nothing, and its border-router
  calls, which have no state in this program; `wifi_ap_set_credentials`, which
  nothing calls.
* The ESP-IDF, which is outside the repository: that its `httpd_stop` frees a
  `global_user_ctx` that has no free function is taken for granted. What
  comes of a block freed twice is left open: a fault, or nothing; that a later allocation
  shares the block is not followed.
* The value of `websocket.client_count`, and of the other fields of the runtime state but
  those of Thread: only how often each was set.
* The order of tests and effects within one handler of `CommandHandler`: a refusal is
  modelled as coming before any effect (`Fails`), as reading each handler shows, and no
  property claims it.
* The OpenThread, CHIP and Wi-Fi stacks behind the wrappers (external: they do what
  their callers may expect, or fail), TLS, certificates and the build.
* The identifiers of the registry are values: that two long ones may share their
  first 31 characters is not seen. Memory is modelled only as failures where the
  code tests for them.
