----------------------------- MODULE EngineState -----------------------------
(***************************************************************************)
(* The status cache of EngineClient (engine_state.py): what the bridge     *)
(* believes about cuems-controller-engine.  The cache is one record; each  *)
(* operator below is what one event on the engine socket does to it.       *)
(*                                                                         *)
(* The module holds no variable: EngineLink gives the cache an engine and  *)
(* a socket of its own, ProjectOps and PowerBridge read it next to the     *)
(* operations it drives.                                                   *)
(***************************************************************************)
CONSTANT Project        \* unix_names of the projects the engine can load

Unknown   == "unknown"  \* the cache value before the first frame
NoProject == ""         \* load == "" : nothing loaded

ASSUME ProjectAssumption ==
  /\ Unknown \notin Project
  /\ NoProject \notin Project

Loads == Project \cup {NoProject}

\* `warning` abstracts cluster_warning to what _degraded and _fresh_noop read:
\* no diagnosis since the last load frame, a clean one, or one that names an
\* unreachable node of the project that load frame announced.
Cache == [connected      : BOOLEAN,
          running        : {Unknown, "no", "yes"},
          armed          : {Unknown, "no", "yes"},
          load           : Loads \cup {Unknown},
          freshArm       : BOOLEAN,
          pendingLoadArm : BOOLEAN,
          warning        : {"none", "clean", "unreachable"}]

\* One /engine/status/<key> frame.
Frame ==      [key : {"running", "armed"}, value : {"no", "yes"}]
         \cup [key : {"load"}, value : Loads]
         \cup [key : {"cluster_warning"}, value : {"clean", "unreachable"}]

\* Mutant: the reset blanks `running` instead of marking it unknown.
ColdCacheBlank ==
  [connected |-> FALSE, running |-> "", armed |-> Unknown, load |-> Unknown,
   freshArm |-> FALSE, pendingLoadArm |-> FALSE, warning |-> "none"]

ColdCache == [connected |-> FALSE, running |-> Unknown, armed |-> Unknown,
              load |-> Unknown, freshArm |-> FALSE, pendingLoadArm |-> FALSE,
              warning |-> "none"]

\* The socket is up; nothing is known until the dump arrives.
Connected(c) == [c EXCEPT !.connected = TRUE]

IsKnown(c)       == c.connected /\ c.running # Unknown
ProjectRunning(c) == c.running = "yes"
ProjectLoaded(c)  == c.load \in Project
FullyReady(c)     == ProjectLoaded(c) /\ c.armed = "yes"

\* _apply_status, one operator per key it tracks.
\* Mutant: an empty payload is taken for "no change".
ApplyLoadSkipsEmpty(c, v) ==
  [c EXCEPT !.load = IF v = NoProject THEN @ ELSE v,
            !.pendingLoadArm = (v # NoProject),
            !.freshArm = FALSE, !.warning = "none"]

ApplyLoad(c, v) ==
  [c EXCEPT !.load = v, !.pendingLoadArm = (v # NoProject),
            !.freshArm = FALSE, !.warning = "none"]

ApplyArmed(c, v) ==
  LET fresh == v = "yes" /\ c.armed # "yes" /\ c.pendingLoadArm
  IN  [c EXCEPT !.armed = v, !.freshArm = @ \/ fresh,
                !.pendingLoadArm = @ /\ ~fresh]

\* Mutant: a GO leaves the arm fresh.
ApplyRunningStaysFresh(c, v) == [c EXCEPT !.running = v]

ApplyRunning(c, v) ==
  [c EXCEPT !.running = v, !.freshArm = @ /\ v # "yes",
            !.pendingLoadArm = @ /\ v # "yes"]

ApplyStatus(c, f) ==
  CASE f.key = "load"            -> ApplyLoad(c, f.value)
    [] f.key = "armed"           -> ApplyArmed(c, f.value)
    [] f.key = "running"         -> ApplyRunning(c, f.value)
    [] f.key = "cluster_warning" -> [c EXCEPT !.warning = f.value]
=============================================================================
