----------------------------- MODULE EngineLink ------------------------------
(***************************************************************************)
(* EngineClient's status cache fed by an engine over one socket.           *)
(*                                                                         *)
(* The engine is outside the repository.  It is modelled from the frame    *)
(* orders the code and its tests rely on (tests/test_engine_state_fresh_   *)
(* arm.py:7-11): a load sends `armed no`, `load <name>`, a diagnosis, and  *)
(* later `armed yes`; a STOP sends `running no`, `armed no`, and later the *)
(* nodes' re-arm `armed yes` with no load frame; a connect gets the dump   *)
(* running, armed, load.  Frames wait in the socket until _consume takes   *)
(* them; a drop loses the ones not yet taken.                              *)
(***************************************************************************)
EXTENDS EngineState, Sequences, Naturals

CONSTANT MaxFeed   \* bound: frames the socket can hold, a dump's three or more

ASSUME MaxFeedAssumption == MaxFeed \in Nat /\ MaxFeed >= 3

VARIABLES
  cache,     \* EngineClient's fields
  feed,      \* frames sent on the live connection and not yet consumed
  engine,    \* the engine's own state
  freshShow, \* history: the loaded show was armed by its load and neither
             \* played nor stopped since
  dumped,    \* history: the show was loaded and armed before this connection,
             \* and neither loaded nor played since
  idleSeen   \* history: the engine was idle at some moment of this connection

vars == <<cache, feed, engine, freshShow, dumped, idleSeen>>

Show == [running : {"no", "yes"}, armed : {"no", "yes"}, load : Loads,
         rearm : {"none", "load", "stop"}]   \* what the nodes are arming for

TypeOK ==
  /\ cache \in Cache
  /\ feed \in Seq(Frame) /\ Len(feed) <= MaxFeed
  /\ engine \in Show
  /\ freshShow \in BOOLEAN /\ dumped \in BOOLEAN /\ idleSeen \in BOOLEAN

Fr(k, v) == [key |-> k, value |-> v]

\* Frames reach the socket only while it is up; the bound stands for a client
\* that keeps consuming.
Broadcast(fs) ==
  IF cache.connected
    THEN /\ Len(feed) + Len(fs) <= MaxFeed
         /\ feed' = feed \o fs
    ELSE UNCHANGED feed

Init ==
  /\ cache = ColdCache
  /\ feed = <<>>
  /\ engine = [running |-> "no", armed |-> "no", load |-> NoProject, rearm |-> "none"]
  /\ freshShow = FALSE /\ dumped = FALSE /\ idleSeen = FALSE

\* ------------------------- the engine (external) -------------------------

Load(p) ==
  /\ engine.running = "no"
  /\ engine' = [engine EXCEPT !.armed = "no", !.load = p, !.rearm = "load"]
  /\ freshShow' = FALSE /\ dumped' = FALSE
  /\ \E w \in {"clean", "unreachable"} :
       Broadcast(<<Fr("armed", "no"), Fr("load", p), Fr("cluster_warning", w)>>)
  /\ UNCHANGED <<cache, idleSeen>>

Unload ==
  /\ engine.running = "no" /\ engine.load # NoProject
  /\ engine' = [engine EXCEPT !.armed = "no", !.load = NoProject, !.rearm = "none"]
  /\ freshShow' = FALSE /\ dumped' = FALSE
  /\ Broadcast(<<Fr("armed", "no"), Fr("load", NoProject)>>)
  /\ UNCHANGED <<cache, idleSeen>>

Arm ==
  /\ engine.rearm # "none"
  /\ engine' = [engine EXCEPT !.armed = "yes", !.rearm = "none"]
  /\ freshShow' = (engine.rearm = "load") /\ UNCHANGED dumped
  /\ Broadcast(<<Fr("armed", "yes")>>)
  /\ UNCHANGED <<cache, idleSeen>>

Go ==
  /\ engine.running = "no" /\ engine.armed = "yes"
  /\ engine' = [engine EXCEPT !.running = "yes"]
  /\ freshShow' = FALSE /\ dumped' = FALSE
  /\ Broadcast(<<Fr("running", "yes")>>)
  /\ UNCHANGED <<cache, idleSeen>>

Halt ==   \* the STOP command, or an authored stop_project cue, on a running show
  /\ engine.running = "yes"
  /\ engine' = [engine EXCEPT !.running = "no", !.armed = "no", !.rearm = "stop"]
  /\ freshShow' = FALSE
  /\ Broadcast(<<Fr("running", "no"), Fr("armed", "no")>>)
  /\ idleSeen' = cache.connected
  /\ UNCHANGED <<cache, dumped>>

\* ------------------------- the bridge's client ---------------------------

LoadedBefore == engine.load # NoProject /\ engine.rearm # "load"

\* Mutant: a dump without the `running` frame.
ConnectShortDump ==
  /\ ~cache.connected
  /\ cache' = Connected(cache)
  /\ feed' = <<Fr("armed", engine.armed), Fr("load", engine.load)>>
  /\ idleSeen' = (engine.running = "no") /\ dumped' = LoadedBefore
  /\ UNCHANGED <<engine, freshShow>>

Connect ==   \* _run_loop enters the connection; the engine sends its dump
  /\ ~cache.connected
  /\ cache' = Connected(cache)
  /\ feed' = <<Fr("running", engine.running), Fr("armed", engine.armed),
               Fr("load", engine.load)>>
  /\ idleSeen' = (engine.running = "no") /\ dumped' = LoadedBefore
  /\ UNCHANGED <<engine, freshShow>>

\* Mutant: the drop only clears `connected`.
DisconnectKeepsCache ==
  /\ cache.connected
  /\ cache' = [cache EXCEPT !.connected = FALSE]
  /\ feed' = <<>>
  /\ idleSeen' = FALSE /\ dumped' = FALSE
  /\ UNCHANGED <<engine, freshShow>>

Disconnect ==   \* _run_loop's finally block
  /\ cache.connected
  /\ cache' = ColdCache
  /\ feed' = <<>>
  /\ idleSeen' = FALSE /\ dumped' = FALSE
  /\ UNCHANGED <<engine, freshShow>>

Consume ==   \* _consume: one frame
  /\ cache.connected /\ feed # <<>>
  /\ cache' = ApplyStatus(cache, Head(feed))
  /\ feed' = Tail(feed)
  /\ UNCHANGED <<engine, freshShow, dumped, idleSeen>>

Next ==
  \/ \E p \in Project : Load(p)
  \/ Unload \/ Arm \/ Go \/ Halt
  \/ Connect \/ Disconnect \/ Consume

\* _run_loop always tries again, and a connected client reads its socket.
Fairness == WF_vars(Connect) /\ WF_vars(Consume)

Spec == Init /\ [][Next]_vars /\ Fairness

------------------------------------------------------------------------------
\* The cache is only ever behind, never wrong: with every frame consumed it
\* shows the engine's own state (_apply_status, the reset in _run_loop and the
\* dump together leave no stale field).
CacheCoherent ==
  cache.connected /\ feed = <<>> =>
    /\ cache.running = engine.running
    /\ cache.armed   = engine.armed
    /\ cache.load    = engine.load

\* /shutdown, /loadproject and /unloadproject act as soon as is_known() holds
\* and refuse while project_running().  A known, idle cache is never a leftover
\* of an earlier connection: the engine really was idle at some moment since
\* this socket opened, so no show that has played all along is cut.
KnownIdleIsCurrent ==
  IsKnown(cache) /\ ~ProjectRunning(cache) => idleSeen

\* With the frames in, fresh_arm is true only of a show that its load armed and
\* that was neither played nor stopped since: a press after a STOP reloads
\* (engine_state.py:57-61) - except on a connection that began with the show
\* loaded.  The load frame of its dump stays pending, and the re-arm after the
\* next STOP is taken for the load's.
FreshIsLoaded ==
  cache.freshArm /\ feed = <<>> =>
    /\ engine.running = "no" /\ engine.load # NoProject /\ engine.armed = "yes"
    /\ freshShow \/ dumped

\* is_known() cannot stay false on a connection that stays up: the dump carries
\* `running`, and _consume reads it.
KnownAgain == <>[]cache.connected => <>[]IsKnown(cache)
=============================================================================
