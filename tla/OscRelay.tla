------------------------------- MODULE OscRelay ------------------------------
(***************************************************************************)
(* The Companion relay (osc_relay.py): what it keeps of the engine's       *)
(* frames, its state lane and event lane, the drain that empties both, and *)
(* close().                                                                *)
(*                                                                         *)
(* Addresses are the link state, `load`, and cue/<uuid>; cue_enabled/ and  *)
(* cue_name/ go the way of cue/ without edges, the other keys the way of   *)
(* `load` without its effects.  Values of a cue are "0", "1" for 1..99 and *)
(* "100".  A batch of the drain is one step per datagram, so the rate only *)
(* delays.  Targets are one receiver and UDP to it loses nothing.          *)
(*                                                                         *)
(* Of the order of the state lane only the place of the link state is      *)
(* kept: which addresses are ahead of it.  The others are sent in any      *)
(* order among each other; no address is in the lane twice.                *)
(***************************************************************************)
EXTENDS PulseLane

CONSTANTS
  Cues,      \* uuids
  Project,   \* names a load frame may carry
  HoldCap    \* HOLD_CAP: held per-cue frames

Started(c) == <<"started", c>>
Ended(c)   == <<"ended", c>>

ASSUME RelayAssumption ==
  /\ HoldCap \in Nat
  /\ Paths = {Started(c) : c \in Cues} \cup {Ended(c) : c \in Cues}
  /\ Cues \cap {"link", "load"} = {} /\ Project \cap {"", "unknown"} = {}

VARIABLES
  connected,  \* _connected
  quiet,      \* _suppress_until is not over
  load,       \* _load
  held,       \* _held: how many frames, and the last value of each cue
  vals,       \* _cue_vals, as a function on the cues it has
  cache,      \* _cache, as a function on the addresses it has
  state,      \* the state lane: the value of each queued address, and which of
              \* them are ahead of the link state
  lane,       \* the event lane
  phase,      \* of close()
  shown,      \* external: last value the receiver got of the link state and each cue
  out         \* external: last value it got of each pulse path

engineVars == <<connected, quiet, load, held, vals, cache>>
vars == <<engineVars, state, lane, phase, shown, out>>

Addresses == Cues \cup {"link", "load"}
Seen      == Cues \cup {"link"}
CueValues == {"0", "1", "100"}
Values(a) == IF a = "link" THEN {"0", "1"} ELSE IF a = "load" THEN Project \cup {""} ELSE CueValues

Partial(S, T) == UNION {[D -> T] : D \in SUBSET S}

RelayTypeOK ==
  /\ connected \in BOOLEAN /\ quiet \in BOOLEAN
  /\ load \in Project \cup {"", "unknown"}
  /\ held.frames \in 0..HoldCap /\ held.last \in Partial(Cues, CueValues)
  /\ vals \in Partial(Cues, CueValues)
  /\ DOMAIN cache \subseteq Addresses \ {"link"}
  /\ \A a \in DOMAIN cache : cache[a] \in Values(a)
  /\ DOMAIN state.value \subseteq Addresses
  /\ \A a \in DOMAIN state.value : state.value[a] \in Values(a)
  /\ state.ahead \subseteq DOMAIN state.value \ {"link"}
  /\ lane \in Lane
  /\ phase \in {"open", "closing", "closed"}
  /\ shown \in [Seen -> {"none"} \cup CueValues]
  /\ out \in [Paths -> {"none", "0", "1"}]

Bit(b) == IF b THEN "1" ELSE "0"
Over(f, g) == [x \in DOMAIN f \cup DOMAIN g |-> IF x \in DOMAIN f THEN f[x] ELSE g[x]]
Update(f, k, v) == Over([x \in {k} |-> v], f)

\* ------------------- the state lane --------------------------------------

Queued(s, a) == a \in DOMAIN s.value

PutHead(s, v) == [value |-> Update(s.value, "link", v), ahead |-> {}]

\* _put_state of values that are not the link state: they go to the end.
PutAll(s, values) == [value |-> Over(values, s.value), ahead |-> s.ahead \ DOMAIN values]

Put(s, a, v) == PutAll(s, [b \in {a} |-> v])

\* Mutant: a heartbeat takes the link state to the end like any other address.
PutLinkDemoting(s, v) ==
  [value |-> Update(s.value, "link", v), ahead |-> DOMAIN s.value \ {"link"}]

\* _put_state of the link state: a queued one keeps its place.
PutLink(s, v) ==
  [value |-> Update(s.value, "link", v),
   ahead |-> IF Queued(s, "link") THEN s.ahead ELSE DOMAIN s.value]

\* The addresses that may be the first of the lane.
Firsts(s) ==
  IF ~Queued(s, "link") THEN DOMAIN s.value ELSE IF s.ahead = {} THEN {"link"} ELSE s.ahead

Taken(s, a) == [value |-> [b \in DOMAIN s.value \ {a} |-> s.value[b]], ahead |-> s.ahead \ {a}]

Resets(s) == PutAll(s, [c \in DOMAIN vals |-> "0"])   \* _synth_resets

\* ------------------- engine hooks ----------------------------------------

Playing(c) == c \in DOMAIN vals /\ vals[c] = "1"

\* The edge of a live frame, outside the window after a connect.
Edge(c, v) ==
  IF quiet THEN lane
  ELSE IF ~Playing(c) /\ v = "1" THEN AddPulse(lane, Started(c))
  ELSE IF Playing(c) /\ v = "100" THEN AddPulse(lane, Ended(c))
  ELSE lane

\* _commit and _forward of a live frame; CACHE_CAP is reached by whatever other cues.
Commit(c, v) ==
  /\ vals' = Update(vals, c, v) /\ lane' = Edge(c, v) /\ state' = Put(state, c, v)
  /\ \/ cache' = Update(cache, c, v)
     \/ c \notin DOMAIN cache /\ UNCHANGED cache

NothingHeld == [frames |-> 0, last |-> <<>>]

Init ==   \* start()
  /\ connected = FALSE /\ quiet = FALSE /\ load = "unknown"
  /\ held = NothingHeld /\ vals = <<>> /\ cache = <<>>
  /\ state = [value |-> [a \in {"link"} |-> "0"], ahead |-> {}]
  /\ lane = EmptyLane /\ phase = "open"
  /\ shown = [a \in Seen |-> "none"] /\ out = [p \in Paths |-> "none"]

EngineConnects ==
  /\ phase = "open" /\ ~connected
  /\ connected' = TRUE /\ quiet' = TRUE
  /\ state' = PutHead(state, "1")
  /\ UNCHANGED <<load, held, vals, cache, lane, phase, shown, out>>

EngineDrops ==
  /\ phase = "open" /\ connected
  /\ connected' = FALSE /\ UNCHANGED quiet
  /\ state' = PutHead(Resets(state), "0")
  /\ cache' = <<>> /\ held' = NothingHeld /\ vals' = <<>> /\ load' = "unknown"
  /\ UNCHANGED <<lane, phase, shown, out>>

QuietOver ==
  /\ quiet /\ quiet' = FALSE
  /\ UNCHANGED <<connected, load, held, vals, cache, state, lane, phase, shown, out>>

\* Mutant: an unload keeps the cached values of its cues.
UnloadFrameKeepsCache ==
  /\ phase = "open" /\ connected
  /\ load' = "" /\ held' = NothingHeld /\ vals' = <<>>
  /\ cache' = Update(cache, "load", "") /\ state' = Put(Resets(state), "load", "")
  /\ UNCHANGED <<connected, quiet, lane, phase, shown, out>>

UnloadFrame ==   \* load ""
  /\ phase = "open" /\ connected
  /\ load' = "" /\ held' = NothingHeld /\ vals' = <<>>
  /\ LET noCues == [a \in DOMAIN cache \ Cues |-> cache[a]]
     IN  /\ cache' = Update(noCues, "load", "")
         /\ state' = Put(Resets(state), "load", "")
  /\ UNCHANGED <<connected, quiet, lane, phase, shown, out>>

\* The held frames are committed without edges; of each cue the last one counts.
\* `full`: which cues find the cache full.
LoadFrame(p) ==
  /\ phase = "open" /\ connected
  /\ load' = p /\ held' = NothingHeld /\ vals' = Over(held.last, vals)
  /\ \E full \in SUBSET (DOMAIN held.last \ DOMAIN cache) :
       LET cached == [c \in DOMAIN held.last \ full |-> held.last[c]]
       IN  cache' = Update(Over(cached, cache), "load", p)
  /\ state' = Put(PutAll(state, held.last), "load", p)
  /\ UNCHANGED <<connected, quiet, lane, phase, shown, out>>

CueFrame(c, v) ==
  /\ phase = "open" /\ connected
  /\ IF load \in Project THEN Commit(c, v) /\ UNCHANGED held
     ELSE /\ held' = IF held.frames = HoldCap THEN held
                     ELSE [frames |-> held.frames + 1, last |-> Update(held.last, c, v)]
          /\ UNCHANGED <<vals, cache, state, lane>>
  /\ UNCHANGED <<connected, quiet, load, phase, shown, out>>

\* dump(), asked for or by _refresh; `names` is the engine client's cue_names,
\* which other frames change.
Dump ==
  /\ phase # "closed"
  /\ \E names \in SUBSET Cues :
       LET sent == {a \in DOMAIN cache : a \in Cues => names = {} \/ a \in names}
       IN  state' = PutAll(PutLink(state, Bit(connected)), [a \in sent |-> cache[a]])
  /\ UNCHANGED <<engineVars, lane, phase, shown, out>>

Heartbeat ==
  /\ phase = "open"
  /\ state' = PutLink(state, Bit(connected))
  /\ UNCHANGED <<engineVars, lane, phase, shown, out>>

\* ------------------- _drain ----------------------------------------------

SendEvent(i) ==
  /\ phase = "open" /\ i \in lane.heap
  /\ out' = [out EXCEPT ![lane.pulse[i].path] = Value(lane, i)]
  /\ lane' = EventSent(lane, i)
  /\ UNCHANGED <<engineVars, state, phase, shown>>

SendState(a) ==   \* by _drain, or by close() until its deadline
  /\ phase # "closed" /\ a \in Firsts(state)
  /\ shown' = [b \in Seen |-> IF b = a THEN state.value[a] ELSE shown[b]]
  /\ state' = Taken(state, a)
  /\ UNCHANGED <<engineVars, lane, phase, out>>

\* ------------------- close() ---------------------------------------------

\* Mutant: the event lane is dropped without the trailing zeros.
CloseAbruptly ==
  /\ phase = "open" /\ ~connected
  /\ shown' = [shown EXCEPT !["link"] = "0"] /\ state' = Taken(state, "link")
  /\ lane' = EmptyLane /\ phase' = "closing"
  /\ UNCHANGED <<engineVars, out>>

\* After engine.stop(): the link state, then the 0 of every pulse whose 1 is out.
Close ==
  /\ phase = "open" /\ ~connected
  /\ shown' = [shown EXCEPT !["link"] =
       IF Queued(state, "link") THEN state.value["link"] ELSE Bit(connected)]
  /\ state' = Taken(state, "link")
  /\ LET ends(p) == lane.byPath[p] # <<>> /\ lane.pulse[Head(lane.byPath[p])].stage = 2
     IN  out' = [p \in Paths |-> IF ends(p) THEN "0" ELSE out[p]]
  /\ lane' = EmptyLane /\ phase' = "closing"
  /\ UNCHANGED engineVars

CloseEnds ==   \* the lane is empty, or the deadline is over
  /\ phase = "closing" /\ phase' = "closed" /\ state' = [value |-> <<>>, ahead |-> {}]
  /\ UNCHANGED <<engineVars, lane, shown, out>>

Drain == (\E i \in Ids : SendEvent(i)) \/ (\E a \in Addresses : SendState(a))

Next ==
  \/ EngineConnects \/ EngineDrops \/ QuietOver \/ UnloadFrame
  \/ \E p \in Project : LoadFrame(p)
  \/ \E c \in Cues, v \in CueValues : CueFrame(c, v)
  \/ Dump \/ Heartbeat \/ Drain \/ Close \/ CloseEnds

Spec == Init /\ [][Next]_vars

\* The drain serves the events first, and so every one whose time has come.
Fairness == \A i \in Ids : WF_vars(SendEvent(i))

FairRelay == Spec /\ Fairness

\* ------------------- properties ------------------------------------------

\* However pulses were dropped and sent between (osc_relay.py:630-703): the
\* count that decides what is dropped is what the queues hold, both views of
\* the live pulses agree, and exactly the head of each path has an entry in the
\* heap, so that no path is stuck behind a pulse that was dropped and none
\* sends two pulses into each other.
LaneCoherent ==
  /\ lane.pending = Cardinality(Owed(lane))
  /\ \A i \in Ids : i \in Live(lane) <=> i \in ToSet(lane.byPath[lane.pulse[i].path])
  /\ \A i \in Ids : i \in lane.heap <=> i \in Live(lane) /\ IsHead(lane, i)

\* The receiver sees an output at 1 exactly while the head of that path still
\* owes its trailing 0: dropping for the cap, serialising and close() never
\* leave a trigger on.
OnMeansOwed ==
  \A p \in Paths : out[p] = "1" <=>
    lane.byPath[p] # <<>> /\ lane.pulse[Head(lane.byPath[p])].stage = 2

\* With nothing left to send the receiver shows the committed value of every
\* cue, and 0 for one that is not committed any more: "Generic OSC keeps a
\* path's last value forever" (osc_relay.py:21-23), over unloads, drops, dumps
\* and the caps.
SettledIsTrue ==
  phase = "open" /\ DOMAIN state.value = {} =>
    \A c \in Cues : IF c \in DOMAIN vals THEN shown[c] = vals[c] ELSE shown[c] \in {"none", "0"}

\* "a change jumps the queue" (osc_relay.py:24-25): no other state frame
\* reaches the receiver while the link state it has is out of date.
LinkFirst ==
  [][phase = "open" /\ (\E a \in Addresses \ {"link"} : SendState(a)) =>
       shown["link"] = Bit(connected)]_vars

\* Every 1 is followed by its 0.
EveryPulseEnds == \A p \in Paths : out[p] = "1" ~> out[p] = "0"
=============================================================================
