# A TLA+ model of cuems-power-bridge

cuems-power-bridge is the HTTP service on the controller of a cuems cluster. It loads
and unloads projects through the editor, sends GO and STOP to the engine, loads a
configured project on its own after a boot, powers displays, previews NDI sources and
shuts the cluster down. It is one Python process with one asyncio event loop; what makes
it hard is that nearly every handler awaits something in the middle, and that engine
frames, editor replies, timers and other handlers run in that gap.

Throughout, **one action is the code between two awaits**. Paths below are relative to
`src/src/cuemspowerbridge/`.

## 1. Inventory

| Part | State | Operations | Hard part | What makes it correct |
|---|---|---|---|---|
| Engine client (`engine_state.py`) | `connected`, `running`, `armed`, `load`, `fresh_arm`, `cluster_warning` | frames, connect, drop | frames are late; a drop loses some; the dump comes in the middle of something | never wrong, only late; idle is never a leftover; fresh means armed by a load |
| Editor client (`editor_client.py`) | `_pending`, futures, socket | register, send, resolve, wait, close | replies come in any order, late, or not at all | one request slot; a reply reaches its own request; nobody waits on a forgotten one |
| Project operations (`project_ops.py`) | `op`, `_next`, `_lock`, `_watchdogs`, per-operation timers | load, unload, auto-load's load, abort | three sources of events end an operation; the next one is sent while they arrive | requests in order, one tracked operation, ends are final, everything ends |
| Auto-load loop, auto-play (`bridge.py`) | the two tasks, `_auto_load_done/_disabled/_unix_name` | tick, attempt, pause, restart, GO | cancelled and restarted around operations | back after every press that keeps it, gone after one that does not |
| Shutdown coordinator (`bridge.py`, `node_executor.py`, `shelly.py`) | `_shutdown_lock`, state | SSH fan-out, abort, poll, arm the mains timer, poweroff | starts during a press; fails half way | no load under it, no GO in it, mains only cut after the poweroff is sure |
| GO, STOP, cue commands (`bridge.py`) | rate limiter | gates on the cache, then one or two sends | a drop, a reconnect or another command between the two sends of `/gocue` | no GO without its cue |
| Display power (`bridge.py`, `displays/`) | on-task, off-task, device states | spawn, cancel, apply, query | on and off cancel each other | the last request wins |
| Reachability (`reachability.py`) | miss counters | poll | one lost packet, time limit | down only after three misses in a row |
| Cluster bus gate, node check (`cluster_bus.py`, `project_nodes.py`) | none kept | poll, classify | only addresses are seen, and the map's may be stale; count fallback | a refusal has a cause; the gate opens early only for the nodes |
| OSC relay (`osc_relay.py`) | link, load, held frames, cue values, dump cache, state lane, event lane | engine hooks, dump, drain, close | two lanes with caps, in the middle of reconnects and unloads | every 1 is followed by its 0; no stale value stays; the link state goes first |
| NDI preview (`ndi_preview.py`) | `_previews`, `_relays`, machine locks, requests | show, confirm from the journal, stop | five awaits in a show; journal lines come late and name no request | a verdict is about its own request; what a screen shows is on record |
| NDI relay, health (`ndi_relay.py`, `ndi_health.py`) | connections, watchdog; probes | accept, dial, pipe, close; probe | cap and state are looked at before an await | a closed relay passes nothing |
| Shelly script (`cuems-shutdown.js`) | grace timer, in-flight flag | switch, toggle, request | timers against replies | one shutdown per flip |

How they meet: `handle_load` reads the engine cache, registers at the editor client,
sends, and makes its operation current; `EngineClient._apply_status` calls
`ProjectOps.on_engine_status`; a resolved future calls `_on_editor_reply`; the end of an
operation calls `Bridge._on_op_terminal`, which may restart the auto-load loop; the loop
itself calls `ProjectOps.start_auto_load`; a shutdown calls `ProjectOps.abort` and is
looked at by every press. The GO, STOP and cue handlers send over the engine client's own
socket. The engine client's hooks feed the OSC relay, and its `load` is what the NDI preview's
guard looks at. Nothing is persisted: after a restart of the process everything
starts from the constructors. What survives a restart is outside: the nodes that were told
to halt, the display that was switched, and the Shelly's timer. `Shutdown` models that.

## 2. Modules

| Module | Models | State |
|---|---|---|
| `EngineState` | the cache record and one operator per frame | none: shared by `EngineLink` and `Operation` |
| `EngineLink` | `EngineClient` with an engine and a socket | `cache`, `feed`, `engine` and three history variables |
| `Commands` | the GO, STOP, set-next-cue and gocue handlers on that socket | adds `call`, `wire` and a history variable |
| `RequestSlot` | abstract: what the editor client promises about `project_ready` and `project_unload` | `slot`, `answered`, `outcome` |
| `EditorClient` | `editor_client.py` | `pending`, `future`, `send`, `atEditor`, `inbox`, socket flags |
| `Operation` | the `Op` record and what each event does to it | none |
| `ProjectOps` | `project_ops.py` | `cache`, `editor`, `ops`, `cur`, `lock` |
| `PowerBridge` | `bridge.py` around it | adds `loop`, `auto`, `play`, `shut`, `tear` |
| `Shutdown` | `_run_shutdown` with `node_executor.py`, `reachability.py`, `shelly.py`, the nodes, the relay and the controller | `owner`, `at`, `misses`, `tries`, ..., `node`, `relay`, `timer`, `controller` |
| `ProjectorPower` | the power tasks of the displays (`bridge.py`, `displays/`) | `tasks`, `ref`, `req`, `lock`, `sd`, `load`, `lamp` |
| `BusGate` | `cluster_bus.py`, `slave_ips`, `classify` of `project_nodes.py`, with the hosts at the hub | `address`, `map`, `wanted`, `on`, `gate`, `refused` |
| `PulseLane` | the event lane of `osc_relay.py`: a record and one operator per method | none |
| `OscRelay` | the rest of `osc_relay.py` around it, and one receiver | `connected`, `load`, `held`, `vals`, `cache`, `state`, `lane`, ... |
| `NdiPreview` | `show()`, `_confirm()`, `stop()` and the relays of `ndi_preview.py`, with the videocomposer (VC), its journal and the engine | `req`, `lock`, `previews`, `table`, `relay`, `stopping`, ... |
| `*MC` | values for the runs | |
| `EditorClientProofs`, `PowerBridgeProofs` (with `ProjectOps`), `CommandsProofs` (with `EngineLink`), `ShutdownProofs`, `ProjectorPowerProofs`, `NdiPreviewProofs`, `BusGateProofs`, `OscRelayProofs` (with `PulseLane`) | theorems (section 4) | |

```
EngineState <- EngineLink <- Commands
EngineState <- Operation <- ProjectOps <- PowerBridge      (each EXTENDS the one before)
RequestSlot <- EditorClient                                (implements)
ProjectOps  <- PowerBridge                                 (implements, proved)
PulseLane   <- OscRelay
Shutdown, ProjectorPower, BusGate, NdiPreview              (each on its own)
```

`Shutdown` and `ProjectorPower` share no state with operations: what a shutdown does to them
(the abort, the refusals, the loop that goes on) is in `PowerBridge`, where the sequence is
only under way or over, and what it does to the displays is in `ProjectorPower`.

Correspondence worth knowing before reading:

* A project is one name: its uuid and its unix_name together. Auto-load may not know
  the unix_name (`unix = ""`), as when the list request fails.
* `ops` is the sequence of operations by `seq`; `cur` is `self.op`; the operation being
  sent (`self._next`) is the newest one while `lock.at = "send"`.
* `lock` is `_lock` together with the place where its holder awaits: the list, the node
  check, the teardown, the send. In `PowerBridge`, `tear` says what the teardown waits for.
* The slot in `ProjectOps` is "some operation's request is open". That this is right,
  that a reply reaches only its own request and that a close ends every request, is what
  `EditorClient` shows.
* A finished future's callback runs in the next loop iteration; the model runs it in the
  same step.
* `loop.owned` says whether `_auto_load_task` refers to the running loop. `_pause_auto_load`
  is three steps: cancel, the task unwinds, the canceller resumes.
* `Terminal` is `_on_op_terminal`, conjoined to every action that can end an operation.
* In `Shutdown`, one poll round with its sleep is one step, and so is one attempt at the
  Shelly. An attempt may take effect and its reply be lost. `Restart` is the process killed
  and started again at any point; nodes, relay and timer go on.
* In `ProjectorPower`, one PJLink POWR exchange is one step. A task that is done answers its
  waiters and frees its id at once. An answer is a 200 or not: which of 207, 409, 502 and 504
  it was is left out.
* In `Commands`, a cue is named by the call that chose it, so that "GO fires the right cue" is
  a question about two calls. The two sends of `/gocue` and the read of a request's body are
  awaits; the gates are looked at before the body is read and not again, as in the code.
* In `BusGate` a host is where it is, and the map says where it is thought to be: any
  address, none, or another node's. Every map is an initial state. Only the controller's own
  entry is right, and two hosts never share a real address.
* In `OscRelay`, `lane.heap` has no times: what is in it may be sent at any moment, in any
  order between paths. The rate only delays, and a batch of the drain is one step per datagram.
  Cues have three kinds of values, not playing (`"0"`), playing and ended. Of the state lane's
  order only the place of the link state is kept (`state.ahead`: which addresses go before it);
  the others are sent in any order, of which the code's is one. A pulse that is dropped frees at
  least two of the three sends that a new one needs, so the loop of `_add_pulse` is two calls of
  `DropOldest` (`TwoDropsAreEnough`). Identities of pulses are used again when free.
* In `NdiPreview`, requests are numbered as they come and all are for one source, which is what
  makes journal lines of two of them look alike. `mark` is the place in the journal that a
  request reads on from, and `exact` whether it is a cursor. Where there is none (the merged
  journal of a node without an uploaded file, or a journal that is empty) the code reads from 1 s
  or 10 s before the request by the stamps of the lines, and the mark is any place: it may take in
  lines from before the request or miss its own. `seen` is how far a node's journal was uploaded.
  `rechecked` is `_confirm`'s variable: of the polls, the one that looks at the load again, after
  `LOAD_RECHECK_S`, is a step of its own. Time passes in no other way: once re-checked, a request
  may run out of time in any state. `ShowFails` and `ConfirmFails` are the errors (a send, or
  journalctl after 10 s). The sends of one step succeed or fail together: one that fails between
  the load and its record (`ndi_preview.py:1016-1026`) is not modelled. A relay is only whether it
  listens.
* External, modelled from how the code uses them: the engine in `EngineLink` (frame orders
  from `tests/test_engine_state_fresh_arm.py`) and the editor's reply. In `ProjectOps` and
  `PowerBridge` the engine and the editor may send anything at any moment, which covers
  every real one.

## 3. Runs

Every run is exhaustive over its bound. Mutants named in comments ("Mutant: ...") are
plausible bugs: with one of them in place of the definition it precedes, the run's
property fails.

| Run | Question | Bounds |
|---|---|---|
| `Commands` | is the cache only late? does it become known? does a GO ever come without its cue? | 2 projects, 5 frames in the socket: a dump and a stop, or a load and its arm, can wait together; 2 calls of any kind |
| `EditorClient` | does a late reply ever meet a later request? does the client implement the slot? | 2 loads of the *same* project, an unload, a list: the case in which only the slot tells replies apart |
| `ProjectOps` | order of requests, one tracked operation, the watchdog's target, final ends, with aborts | 2 operations, loads and unloads, an engine that loads and arms |
| `ProjectOpsLive` | does everything end? | 2 operations, fair, engine drops, an engine that never arms |
| `PowerBridge` | once-only load, lock and loop, shutdown against presses | 1 operation, all four presses, 2 projects, arming and playing engine, shutdown |
| `PowerBridgeAuto` | never behind the operator's back; back after a press that came to nothing | 2 operations, 2 projects, loads only, persistent, auto-play, an engine that loads and arms the auto project |
| `Shutdown` | are the nodes down before the mains are armed? no poweroff without a deadline? does every request end? | 2 nodes, 2 clients, 2 accepted requests, 1 restart |
| `ProjectorPower` | does the last press win? is a reported success true? is the lock brief? | 1 display, 2 requests, 2 loads, a shutdown, power-on at start |
| `OscRelay` | does an output stay on? does a value go stale? does the link state wait? | 1 cue (two pulse paths), 1 project, room for 2 pulses, 1 held frame |
| `NdiPreview` | is a reported preview its own? is everything that is up or listens on record? | 2 screens of one machine, 2 requests, 1 project load; the first may need a relay or be refused by the VC, the second may find no cursor |
| `BusGate` | is a press refused without cause? does auto-load's gate open without its nodes? | 2 nodes, the controller, 1 stranger, 4 addresses, every map |

Why two operations are enough to look at: the hazards are between an operation and the
one that replaces it. A third adds nothing that the second does not show, because only the
newest can have an open request and only the current one is tracked, and both of these are
proved for any number. Why `PowerBridge` has one: each run that combines two operations
with a shutdown, an engine and auto-play would be out of reach; they are split over
the two runs. Projects: two are needed where "the operator's other project" matters, one
elsewhere. The bounds are constants or guards and named where they are declared (`MaxOps`,
`Frames`, `Presses`, `Mishaps`, `MayShutdown`, `MaxFeed`, `MaxCalls`, `MaxShows`, `MaxLoads`,
`Early`, `Timed`, `Relayed`, `MaxPolls`, `EventCap`, `HoldCap`). Not explored in
`PowerBridge`: a second loop beside one that nobody refers to, and a second `/shutdown` after
the poweroff was issued (`Shutdown` has that one).

Bounds of `Shutdown`: the debounce is the code's, three misses, and a live node misses at most
two in a row, the worst it is meant for. The time limit is a number of rounds: a round takes
2 to 6 s, and 4 or 5 rounds are the shortest wait in which a node can be confirmed, heard of,
or left pending; more rounds repeat these. Three attempts stand for the code's four: the first,
one in the middle and the last. Two requests and a restart put a second sequence over the
leftovers of the first: halting nodes, a running timer. The proofs take any value of all of them.

Bounds of `ProjectorPower`: displays do not meet each other, except that a task waits for all;
one is enough for the races of tasks. Two requests are one of each kind, or two of a kind that
join. With these, never more than four tasks run at once, so `MaxTasks = 5` never bites
(`Room`, part of `PowerTypeOK`).

Bounds of `OscRelay`: a pulse takes three sends, so a lane of six holds two pulses, and the third
edge meets every case of the cap: a pulse that may be dropped, one whose 1 is out, none. Pulses of
one cue's two paths share the cap as those of two cues would. Every pulse that waits owes a send, so
with four identities one is always free for a pulse that fits. The code's caps are 6000 sends and
20000 held frames.

Bounds of `NdiPreview`: two requests are the one that is confirmed and the one before it, whose
lines come late. `Early` are the requests that the VC or a relay may refuse before their load has
ended, `Timed` those that may find no cursor, `Relayed` those that may need a relay. Which of them
bites where: a refusal or a relay of the first is what the second meets, and the second's mark is
what decides whether it reads the first's lines. Every request can run out of time or end in an
error. The proofs take any three sets.

Bounds of `BusGate`: two awaited nodes, so that one can stand in for the other, and a stranger. There
are as many addresses as hosts, so a stale one is always another host's; one that nobody has looks
like that of a host which is not connected.

`CHECK_DEADLOCK FALSE` is set where a bounded run really stops (all operations, requests, calls or
polls used, or the client, the relay or the bridge stopped). `Commands` checks deadlock.

### Disagreements found

One run expects a violation: it states what a comment says and the trace shows the code doing
something else. PROJECT.json quotes the line.

| Run | What happens |
|---|---|
| `ShutdownMains` | `Switch.Set` takes effect and every reply is lost: the sequence aborts with "mains stay on", the timer cuts the mains |

More of the same kind can be read off the models and are not stated as properties of their own. Of
the cache and the commands:

* On a connection that begins with the show loaded, the dump's load frame stays pending, so the
  re-arm after the next STOP counts as a load's, and the next press answers `already_loaded`
  where a reload is due (`engine_state.py:57-61`). It is the exception in `FreshIsLoaded`.
* Another call's set-next-cue between the two sends of `/gocue` makes its GO fire the other cue
  (`GoAfterItsCue` only says that the GO's own cue was taken before).
* `/setnextcue` and `/gocue` look at the engine before they read the body and not after it.

Of operations, auto-load and shutdown:

* `abort()` cancels the watchdog of the slot; when the shutdown then fails and the bridge lives
  on, a silent editor keeps the slot (against `project_ops.py:353-354`). `ProjectOpsLive`
  therefore runs without aborts.
* The auto-load loop goes on in a shutdown, and its auto-play sends GO (`bridge.py:575-577`).
  `ShutdownRefuses` speaks of what a press may do.
* An operation that ends while being sent leaves auto-load stopped (`Sent`, `Restarted`).
* An old unload's confirmation disables auto-load during a load of the auto project.
* The canceller of the loop forgets a loop that was restarted while it waited
  (`loop.owned`).
* The end of an operation that is being replaced restarts the loop while the new one is sent:
  `Restarted` looks at `self.op`, still the old one (bridge.py:762-763 says the loop is
  cancelled while an operator operation runs).
* `Awaited` records whatever is loaded as auto-load's own name, also after a failed attempt
  (bridge.py:682-685 says only on success).
* `AutoListed` does not look again whether the engine became ready during the list request
  (bridge.py:952-953).
* A power task that a load or a shutdown begins takes no lock and can run beside an opposite
  task (`SpawnOnLoad`, `Shutdown` of `ProjectorPower`): which wins is the displays' affair.
* `slave_ips` takes slaves that are not adopted, though its docstring says adopted
  (`network_map.py:124`): auto-load waits for them (`Slaves` of `BusGate`).
* A poweroff command that cannot be started (`Poweroff` of `Shutdown`) is answered as an error
  while the timer runs on, and the mains are cut under a running controller. `NoPoweroffUnarmed`
  is about the other order, a poweroff without the timer; no property is about this one.
* While auto-load does not know the unix_name of its project, an arm of another project counts as
  its own; by `accepted`, `DoneMeansArmed` means what the code accepts.

No property singles out the first of these, or the old unload's confirmation: the models have them,
and the invariants hold in spite of them.

Of the gates on the bus:

* A peer on the hub that is not awaited is counted when the polls fall back to numbers
  (`cluster_bus.py:169`), though the module says that it is "simply ignored"
  (`cluster_bus.py:18-20`): with a stranger there, auto-load goes on without a node. `GateIsTrue` has
  the hypothesis that only the awaited nodes and the controller are on the hub, so what it shows is
  that the controller's own connection and stale addresses never make up for a node.
* A node that is on the hub under another address than the map's is refused as missing when every
  peer's address is some entry's (`project_nodes.py:145-150`), as with two entries swapped and one of
  the two nodes off. `RefusalHasCause` says that some node is missing, not that the one named is.

Of NDI previews:

* The guard's answer about a loaded project is used after the awaits of the mark, the old
  relay's close and the new one's start. A load frame in one of these, with a confirmation before
  `LOAD_RECHECK_S`, leaves the preview over the loaded project (against `ndi_preview.py:18-20`).
* Without a cursor, `Journal.read` takes the lines from 1 s (local) or 10 s (a node) before the
  request (`ndi_preview.py:543-547`; `527-539` for when there is none). An earlier request's line
  that says that its load is complete then confirms a later one of the same screen and source at
  once, though the lock kept the two apart (against the comment at `ndi_preview.py:1032-1034`).
* After `CONFIRM_TIMEOUT_S` the verdict is "unconfirmed" and the machine's lock is let go, whatever
  the VC still loads and however many lines are not uploaded (`1094`, `1129-1137`, where "journal
  lag" is named as a cause); an error of journalctl or of a send does the same at once
  (`1138-1144`). The load that goes on, or its late line, can confirm the next request.
* A verdict that comes early (`unknown_output`, an unreachable upstream, a stalled relay) also
  releases the lock while the VC still loads, with the same effect.
* With three requests it spreads: the second takes the line that says that the first's load was
  cancelled for its own, ends as `superseded` with its own load still under way, and that one
  confirms the third. `VerdictIsOwn` names these cases (`exact`, `GivenUp`, `Unsettled`) and excludes
  every other: with cursors, and until a request was refused, ran out of time or ended in an error,
  a preview that is reported as on was loaded by its own request.
* A show that fails after it unloaded the old preview leaves that one's record at "frames".
* `stop()` takes no machine lock: during a show it finds nothing to stop, or marks as stopped a
  request that took the screen while it closed the old relay (`ndi_preview.py:1156-1165`).

### Fairness

Only what asyncio and the code's own timers give. `Commands`: `_run_loop` reconnects and
a connected client reads. `OscRelay`: the drain sends a pulse whose time has come (events go
before state frames, so none waits behind a flood of these). `EditorClient`: the read loop notices a closed socket.
`ProjectOps`: the list, node and send awaits end (they are bounded by `LIST_TIMEOUT_S`,
`SCAN_TIMEOUT_S` and the socket), `call_later` timers fire, and the unload's coroutine runs
on. Nothing is assumed of the engine or the editor: they may stay silent for ever, which is
what `EveryPressEnds` is about. `Budget` waits for the unload's coroutine
because the budget is at least 60 s (`Config.op_budget_s`) and the coroutine is over in 32 s.
`EveryPressEnds` is four facts in one: the operation ends, an unload is answered,
the lock comes back, the slot comes free.
`Shutdown`: the sequence's own steps only (`FairShutdown`): ssh, probes and Shelly attempts
have timeouts, and the join of the displays' power-off a budget; a node need never halt and
the Shelly never answer. The other safety runs use no fairness.

## 4. Proofs

All with tlapm (SMT, Zenon and PTL for the temporal steps), from the ASSUMEs of the modules only:

| Assumption | Says | Why the code justifies it |
|---|---|---|
| `ProjectAssumption` (`EngineState`), `ConfigAssumption` (`PowerBridge`), `BoundAssumption` (`ProjectOps`) | the constants are of their kinds, "no project" and "unknown" are no project's names | what the configuration can say |
| `RequestAssumption` (`EditorClient`) | the kinds of requests are disjoint | each action has its own entry in the table |
| `MaxFeedAssumption` (`EngineLink`) | the socket has room for a dump (three frames) | the bound is the model's; a smaller one would forbid to connect |
| `MaxCallsAssumption`, `PreviewAssumption` | bounds are numbers, 0 is no screen, `Early`, `Timed` and `Relayed` are sets of requests | 0 stands for "no request"; all requests may be in each set |
| `PowerAssumption` (`ProjectorPower`) | at least one try per device, at least five task ids | five are always enough (`PowerTyped` proves that one is free), so the bound never forbids a step |
| `ShutdownAssumption` | a live node misses fewer polls in a row than the debounce counts (`MaxBlips < Confirm`) | what the debounce of three is for |
| `GateAssumption` (`BusGate`) | finitely many hosts, the controller, the nodes and strangers apart | |
| `LaneAssumption` (`PulseLane`) | there is a path, the cap is a number, as many identities as the cap, less two, or more | a pulse that waits owes a send, so the bound never forbids one (`FreeId` proves it) |
| `RelayAssumption` (`OscRelay`) | two paths for each cue; "link" and "load" are no cues, "" and "unknown" no projects | cues are uuids; the paths are `cue_started/` and `cue_ended/` |

* **`EditorClientProofs`**, for any sets of requests and any `projectOf`. `IInv` adds to the
  properties that nothing exists without a socket (`SocketBound`) and that a request reaches
  the editor once and is answered at most once (`AnsweredOnce`): without the second, a
  duplicate answer could resolve a later request. Theorems: `TypeCorrect`, `SlotSafe`,
  `RepliesAreOwn`, `WaitersAreKnown`, and `Refinement`: every step is a step of `RequestSlot`
  or a stutter.
* **`CommandsProofs`**, for any number of calls and any room in the socket. The cache is behind by
  what is in the socket, so each property of the cache becomes one of the cache *and* the frames:
  `FeedCoherent` (the last frame of each kind, or else the cache, is what the engine is),
  `IdleIsNews`, `PendingIsShow` (a load that the cache holds pending, or will when it has read on,
  is the engine's show) and `FreshIsReady`. `ArmingIsIdle` is about the engine alone: nodes arm
  only what neither is armed nor plays. For the calls, `CueSentFirst`: the cue of a `/gocue` that has
  been sent is with the engine or ahead of its GO on the wire. Theorems: `Typed`, `Coherent`,
  `IdleIsCurrent`, `FreshLoaded`, `GoBehindCue`, and `CommandsUseLink`: every behaviour of
  `Commands` is one of `EngineLink`.
* **`PowerBridgeProofs`, `ProjectOps`**, for any number of operations, projects, frames and presses.
  It begins with what each event does to one operation: its type, that it stays `Consistent` (only an unload ends
  as unloaded; armed means accepted), and what it `Carries` on (kind, source, project,
  acceptance, and how it ended). Every step but two then only *ages* operations (`Ages`); the two are
  the send, which appends one, and `_install`. `IInv` adds `LifeOK` (an installed operation is not
  newer than the current one; only installed operations have a watchdog or a waiter), `SendsNewest`
  (what is being sent is not installed yet) and `HeldBySomeone`. Each is needed: without
  `SendsNewest` an install could go backwards, without `LifeOK` a watchdog could outlive its
  request. Theorems: `TypeCorrect`, `SlotInOrder`, `OneIsTracked`, `WatchdogOnNewest`,
  `EndsAreFinal`. The bridge builds on `Carried` (what a step leaves of every operation, and
  that only the end of its own send installs one) and `Unsent` (an operation that is being sent
  has no timer of its own yet).
* **`PowerBridgeProofs`, the bridge**, for any configuration, in layers, each with its own invariant over the
  ones before:
  * `Good`: every action is a step of `ProjectOps` and keeps `LoopInv`. Theorems
    `ImplementsProjectOps`, so all of the above holds with auto-load, auto-play and shutdown around
    it (`BridgeOps`), and `LockIsHeldInCall`: the loop is never cancelled with its frame half sent.
  * `ArmInv`: auto-load only sends the auto project (`Sources`) and only awaits operations of its own
    (`AwaitsOwn`). Theorems `DoneArmed`, `BridgeTyped`.
  * Lengths of `ops` grow only by a send, and a holder looks at the shutdown's lock right before it:
    `RefusedInShutdown`.
  * `Back`: while the loop does not run, a press is about to start it again or the operator's current
    operation may still succeed. It needs `Canceller` (a loop is being cancelled only while the press
    that cancels it waits) and `Unsent` (or an operation could fail before it is current).
    Theorem `FailuresRestart`.
  * `FirstStops`: the loop does not run while the operator's first operation is sent, and never again
    once that has loaded another project. It needs `Alone` (until then `_auto_load_task` refers to
    the loop that runs, so the press really cancels it); later operations of the operator have no
    such guarantee, as section 3 says. Theorem `NeverBehindOperator`.
* **`ShutdownProofs`**, for any nodes, clients, debounce, wait and number of attempts. `IInv`
  adds `MissesAreBlips`: a node that lives was counted at most as often as it has missed in a
  row, so that `MaxBlips < Confirm`, the one assumption about the network, is what makes the
  debounce work; `ArmedAtExec` (behind an accepted `Switch.Set` the timer runs or has run out)
  and `HeldWhileActive` (the lock is held exactly while the sequence runs). Theorems:
  `TypeCorrect`, `NodesFirst`, `DeadlineFirst`.
* **`ProjectorPowerProofs`**, for any devices, presses, loads and retries. `Covered` says that every
  task in flight is in one of the two references, or is what the lock's holder or the shutdown
  waits for, which is why five ids suffice. `OppositeGone` (what the last press does not want is in
  flight for a load only) gives `LastPressWins`. `RacersKnow` (two tasks that run and want opposite
  things both have it on record) and `DoneIsDone` (a device that a task counts as done is as the task
  wants it, unless it raced) give `ReportIsTrue`. Theorems: `PowerTyped`, `LockBrief`, `LastWins`,
  `TrueReport`.
* **`NdiPreviewProofs`**, for any screens and any number of requests. `Known` has what is on record:
  `LoadIsKnown` (a load under way is of the preview on record) and `OpenIsClear` (between the old
  preview's unload and the new load the screen is clear). `Owned` has whose line a journal line is:
  `CompletesOnce` (behind a cursor its screen's load completes once, as the request's own),
  `UnreadIsPolled` (a completion that is not yet read is of the request that is being confirmed),
  `LeftIsGiven` (a load that outlives its request was given up), and `Orderly`: until a request was
  answered early (refused, out of time, in error, or by a mark that is only a time), each has read
  all the lines of its load, and the lines behind a mark are those of the request being confirmed.
  Theorems: `PreviewTyped`, `OneRequest`, `OnRecord`, `OwnVerdict`.
* **`BusGateProofs`**, for any nodes, strangers, addresses and map. Both proofs count. A refusal: if
  every node is there, its peers are as many addresses as there are nodes, and the map has one less
  without the one that is said to be missing. The gate: the peers are at most as many as the hosts
  there, these at most the awaited nodes, and the poll saw at least as many. Theorems: `GateTyped`,
  `RefusedForCause`, `OpensForNodes`.
* **`OscRelayProofs`**, for any cues, projects, caps and identities. It begins with what `Pop`, `Append`
  and the lane's operators do to a sequence without repetitions. `LaneOK` is the event lane: the
  order and the paths' queues hold the same pulses, once each (`QueuesOK`), exactly the heads are in
  the heap (`HeapOK`), the count is the number of sends owed, and a pulse that is not the head of
  its path has sent nothing (`OneAtWork`). The last one is what `OnMeansOwed` rests on: without it a
  pulse that becomes the head could be at its trailing 0 with no 1 sent. `RelayInv` adds
  the state lane: a link state that is queued is the present one, and one that the receiver lacks
  is queued ahead of everything (`LinkOK`); the cache agrees with what is committed, so that a dump
  tells no old value (`CacheOK`); and what each cue is due to show once the lane is empty, the queued
  value or else the shown one, is its committed value (`CuesOK`). Theorems: `TwoDropsAreEnough`,
  `RelayTyped`, `LaneStaysCoherent`, `NoneStaysOn`, `SettledStaysTrue`, `LinkGoesFirst`.

Only model-checked is liveness under fairness (`KnownAgain`, `ClosingFrees`, `EveryPressEnds`,
`ShutdownEnds`, `EveryPulseEnds`), which the prover cannot do. Every other property of a passing run
is a theorem. `AbortKeepsMains` is the one that the code violates. The type invariants of
`ProjectOps`, `PowerBridge`, `NdiPreview`, `BusGate` and `OscRelay` are theorems and no run lists them.

## 5. Plan

Modelling that is left: `NdiRelay` (cap and closed state across the dial) and the health probes;
the Shelly's script with its grace timer and in-flight flag, posting to `Shutdown`; `Operation` fed
by the engine of `EngineLink`, to ask whether an operation that is `armed` was armed by its own
load; an abstract `MainsSwitch` that `Shutdown` implements.

## 6. Not modelled

Configuration parsing, reading network-map files, OSC encoding, the web page, logging and status
wording: no state that evolves. Command line scripts and the two superseded clients
(`osclistener.py`, `wsclient.py`): not part of the running bridge. `bridge.stop()`: the
process ends with it. `nextcue` and `cue_names` of the engine client: status wording, but for the
set of names a dump filters by, which is any set in `OscRelay`. Targets of the OSC relay that come
and go: each only misses frames. Discovery, screen and machine look-ups and sizes of the NDI
preview: they refuse or report. The parts named at the end of section 5.
