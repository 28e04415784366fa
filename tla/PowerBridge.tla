----------------------------- MODULE PowerBridge -----------------------------
(***************************************************************************)
(* The bridge (bridge.py) around ProjectOps: the auto-load loop, auto-play *)
(* and the part of /shutdown that meets them.  Every action is an action   *)
(* of ProjectOps, or none, together with what the bridge does in the same  *)
(* step, so PowerBridge implements ProjectOps.                             *)
(*                                                                         *)
(* Times are left out: a sleep, a wait or a node probe ends at any moment, *)
(* and a timeout may come at any moment.  bridge.stop() is not modelled.   *)
(***************************************************************************)
EXTENDS ProjectOps

CONSTANTS
  AutoProject,  \* auto_load_project, NoProject for none
  Persistent,   \* auto_load_persistent
  AutoPlay,     \* auto_play
  MayShutdown   \* bound: whether /shutdown is explored

ASSUME ConfigAssumption ==
  /\ AutoProject \in Loads
  /\ Persistent \in BOOLEAN /\ AutoPlay \in BOOLEAN /\ MayShutdown \in BOOLEAN
  /\ MayShutdown => "abort" \in Mishaps

VARIABLES
  loop,   \* the auto-load loop's task
  auto,   \* _auto_load_disabled, _done, _unix_name, _failures
  play,   \* the auto-play task; "went": it ended by sending GO
  shut,   \* where handle_shutdown stands; _shutdown_lock is held in Locked
  tear    \* what the lock holder's teardown waits for, and `paused`

bridgeVars == <<loop, auto, play, shut, tear>>
vars == <<cache, editor, ops, cur, lock, loop, auto, play, shut, tear>>

NoName == "None"

LoopTask == [at    : {"none", "sleep", "attempt", "call", "await", "cancelling", "ended"},
             op    : Nat,       \* the operation it awaits
             owned : BOOLEAN]   \* _auto_load_task refers to it
AutoState == [disabled : BOOLEAN, done : BOOLEAN,
              name : Loads \cup {Unknown, NoName}, failures : 0..3]
Tear == [on : {"none", "play", "loop"}, paused : BOOLEAN]

BridgeTypeOK ==
  /\ OpsTypeOK
  /\ loop \in LoopTask
  /\ auto \in AutoState
  /\ play \in {"none", "wait", "went"}
  /\ shut \in {"none", "ssh", "cancel", "poll", "issued"}
  /\ tear \in Tear

NoLoop    == [at |-> "none", op |-> 0, owned |-> FALSE]
FreshLoop == [at |-> "sleep", op |-> 0, owned |-> TRUE]
NoTear    == [on |-> "none", paused |-> FALSE]

Init ==   \* start(): without a project the loop returns at once
  /\ OpsInit
  /\ loop = IF AutoProject = NoProject THEN NoLoop ELSE FreshLoop
  /\ auto = [disabled |-> FALSE, done |-> FALSE, name |-> NoName, failures |-> 0]
  /\ play = "none" /\ shut = "none" /\ tear = NoTear

Locked   == shut \in {"ssh", "cancel", "poll"}
Running(l)  == l.at \in {"sleep", "attempt", "call", "await", "cancelling"}
LoopLive == loop.owned /\ Running(loop)

\* ------------------- auto-load versus operations -------------------------

\* Mutant: an overdue operation still counts as tracked.
RestartedNotOverdue(a, last) ==
  IF \/ Locked \/ AutoProject = NoProject \/ a.disabled \/ Running(loop)
     \/ \E op \in last : op.source = "operator" /\ Loading(op)
    THEN loop ELSE FreshLoop

\* _restart_auto_load_if_allowed, past the seq test; last holds self.op.  A
\* second loop beside one nobody refers to is not explored (bound).
Restarted(a, last) ==
  IF \/ Locked \/ AutoProject = NoProject \/ a.disabled \/ Running(loop)
     \/ \E op \in last : op.source = "operator" /\ Tracked(op)
    THEN loop ELSE FreshLoop

\* Mutant: only an auto-load that has loaded something is suspended.
SuspendedWhenDone(a) == IF AutoProject = NoProject \/ ~a.done THEN a ELSE [a EXCEPT !.disabled = TRUE]

\* _suspend_auto_load.
Suspended(a) == IF AutoProject = NoProject THEN a ELSE [a EXCEPT !.disabled = TRUE]

\* The operations for which this step calls _on_op_terminal.
Ends(i) ==
  /\ i \in DOMAIN ops
  /\ \/ ops'[i].overdue # ops[i].overdue
     \/ ops'[i].state # ops[i].state /\ ops'[i].state # "superseded"

\* Mutant: any load that armed counts.
CreditedAnyProject(a) ==
  IF \E i \in DOMAIN ops : Ends(i) /\ ops'[i].accepted /\ ops'[i].source = "operator"
    THEN [a EXCEPT !.done = TRUE, !.name = AutoProject, !.failures = 0] ELSE a

\* _on_op_terminal, D10: the operator loaded the auto project.
Credited(a) ==
  IF \E i \in DOMAIN ops : /\ Ends(i) /\ ops'[i].kind = "load" /\ ops'[i].accepted
                           /\ ops'[i].source = "operator"
                           /\ AutoProject # NoProject /\ ops'[i].project = AutoProject
    THEN [a EXCEPT !.done = TRUE, !.name = AutoProject, !.failures = 0] ELSE a

\* _on_op_terminal: only the current operation's end restarts the loop.
TerminalLoop(a) ==
  loop' = IF Ends(cur') /\ ops[cur'].source = "operator"
            THEN Restarted(a, {ops'[cur']}) ELSE loop

\* What _on_op_terminal changes in a step that may end operations.
Terminal ==
  /\ auto' = Credited(auto)
  /\ TerminalLoop(auto')
  /\ UNCHANGED <<play, shut, tear>>

\* ------------------------------ the loop ---------------------------------

Clobber == /\ auto.name \notin {NoName, NoProject}
           /\ cache.load \notin {NoProject, Unknown, auto.name}

RedriveBlocked == auto.done /\ (Persistent => ProjectLoaded(cache))

Tick ==   \* one wake-up that does something
  /\ loop.at = "sleep"
  /\ \/ /\ auto.disabled
        /\ loop' = [loop EXCEPT !.at = "ended"] /\ UNCHANGED auto
     \/ /\ ~auto.disabled /\ IsKnown(cache) /\ ~FullyReady(cache)
        /\ IF Clobber
             THEN /\ auto' = [auto EXCEPT !.disabled = TRUE]
                  /\ loop' = [loop EXCEPT !.at = "ended"]
             ELSE /\ ~RedriveBlocked
                  /\ loop' = [loop EXCEPT !.at = "attempt"] /\ UNCHANGED auto
  /\ UNCHANGED <<opsVars, play, shut, tear>>

Skip == loop' = [loop EXCEPT !.at = "sleep", !.op = 0]

\* Mutant: start_auto_load waits for the lock instead of skipping the round.
AttemptWaitsForLock ==
  /\ loop.at = "attempt"
  /\ IF FullyReady(cache) \/ RedriveBlocked \/ editor = "down" THEN Skip /\ UNCHANGED opsVars
     ELSE /\ loop' = [loop EXCEPT !.at = "call"]
          /\ IF lock = Idle THEN AutoCall(AutoProject) ELSE UNCHANGED opsVars
  /\ UNCHANGED <<auto, play, shut, tear>>

\* _try_auto_load after the node wait and the settle, into start_auto_load.
Attempt ==
  /\ loop.at = "attempt"
  /\ IF FullyReady(cache) \/ RedriveBlocked \/ editor = "down" \/ lock # Idle
       THEN Skip /\ UNCHANGED opsVars
       ELSE AutoCall(AutoProject) /\ loop' = [loop EXCEPT !.at = "call"]
  /\ UNCHANGED <<auto, play, shut, tear>>

AutoCalled ==   \* start_auto_load returns None unless it sends
  /\ AutoListed
  /\ IF lock' = Idle THEN Skip ELSE UNCHANGED loop
  /\ UNCHANGED <<auto, play, shut, tear>>

AutoSent ==
  /\ lock.who = "auto_load"
  /\ \/ Sent /\ loop' = [loop EXCEPT !.at = "await", !.op = Newest]
     \/ NotSent /\ Skip
  /\ UNCHANGED <<auto, play, shut, tear>>

\* _await_armed_or_error returns (done, or its timeout) and _try_auto_load
\* classifies; _maybe_auto_play.
Awaited ==
  /\ loop.at = "await"
  /\ LET op    == ops[loop.op]
         named == IF auto.name = NoName /\ ProjectLoaded(cache)
                    THEN [auto EXCEPT !.name = cache.load] ELSE auto
         fails == named.failures + 1
     IN  /\ auto' = CASE op.state \in {"armed", "degraded"} ->
                           [named EXCEPT !.done = TRUE, !.name = cache.load, !.failures = 0]
                      [] op.state = "failed" /\ op.reason = "editor_error" ->
                           [named EXCEPT !.failures = fails, !.disabled = @ \/ fails = 3]
                      [] OTHER -> named
         /\ play' = IF op.state \in {"armed", "degraded"} /\ AutoPlay THEN "wait" ELSE play
  /\ Skip
  /\ UNCHANGED <<opsVars, shut, tear>>

\* ------------------------------ auto-play --------------------------------

PlayPoll ==
  /\ play = "wait" /\ IsKnown(cache)
  /\ \/ ProjectRunning(cache) /\ play' = "none"
     \/ ~ProjectRunning(cache) /\ cache.armed = "yes" /\ play' = "went"
  /\ UNCHANGED <<opsVars, loop, auto, shut, tear>>

PlayGivesUp == play = "wait" /\ play' = "none" /\ UNCHANGED <<opsVars, loop, auto, shut, tear>>

\* -------------------- the operator's load and unload ---------------------

\* Mutant: the shutdown is not looked at again after the awaits.
BlockUnchecked(h, paused) ==
  IF BaseChecks /\ SlotFree
    THEN Send(h) /\ UNCHANGED loop /\ tear' = [NoTear EXCEPT !.paused = paused]
    ELSE /\ Free /\ tear' = NoTear
         /\ loop' = IF paused THEN Restarted(auto, Current) ELSE loop

\* The operator's synchronous block, h being its coroutine; a refusal starts a
\* paused loop again.
Block(h, paused) ==
  IF ~Locked /\ BaseChecks /\ SlotFree
    THEN Send(h) /\ UNCHANGED loop /\ tear' = [NoTear EXCEPT !.paused = paused]
    ELSE /\ Free /\ tear' = NoTear
         /\ loop' = IF paused THEN Restarted(auto, Current) ELSE loop

\* _cancel_auto_play_task, _pause_auto_load and the block, as far as they get
\* without waiting.
CancelLoop(h) ==
  /\ Teardown(h) /\ loop' = [loop EXCEPT !.at = "cancelling"]
  /\ tear' = [on |-> "loop", paused |-> TRUE]
CancelPlay(h) ==
  /\ Teardown(h) /\ play' = "none"
  /\ tear' = [on |-> "play", paused |-> FALSE]
  /\ UNCHANGED loop
Proceed(h) ==
  IF play = "wait" THEN CancelPlay(h)
  ELSE /\ UNCHANGED play
       /\ IF LoopLive THEN CancelLoop(h) ELSE Block(h, FALSE)

BridgeLoad ==   \* the press and the two answers before the teardown
  /\ \/ ~Locked /\ \E p \in Project, press \in Presses : PressLoad(p, press)
     \/ LoadListed \/ LoadUnlisted
     \/ NodesChecked(TRUE) /\ ~lock.force
  /\ UNCHANGED bridgeVars

BridgeChecked(off) ==
  /\ NodesChecked(off) /\ (off => lock.force)
  /\ Proceed([lock EXCEPT !.force = off])
  /\ UNCHANGED <<auto, shut>>

BridgeUnload ==
  /\ ~Locked /\ PressUnload
  /\ Proceed([Idle EXCEPT !.who = "operator", !.kind = "unload"])
  /\ UNCHANGED <<auto, shut>>

PlayCancelled ==   \* the auto-play task has unwound
  /\ tear.on = "play" /\ lock.at = "teardown"
  /\ IF LoopLive THEN CancelLoop(lock) ELSE Block(lock, FALSE)
  /\ UNCHANGED <<auto, play, shut>>

LoopUnwinds ==   \* the cancelled task is done, its canceller not yet awake
  /\ loop.at = "cancelling"
  /\ loop' = [loop EXCEPT !.at = "ended", !.op = 0]
  /\ UNCHANGED <<opsVars, auto, play, shut, tear>>

\* _pause_auto_load resumes: `_auto_load_task = None`, whatever it is by now.
LoopCancelled ==
  /\ tear.on = "loop" /\ lock.at = "teardown" /\ loop.at # "cancelling"
  /\ IF ~Locked /\ BaseChecks /\ SlotFree
       THEN /\ Send(lock) /\ tear' = [NoTear EXCEPT !.paused = TRUE]
            /\ loop' = IF Running(loop) THEN [loop EXCEPT !.owned = FALSE] ELSE NoLoop
       ELSE /\ Free /\ tear' = NoTear
            /\ loop' = IF Running(loop) THEN [loop EXCEPT !.owned = FALSE]
                       ELSE Restarted(auto, Current)
  /\ UNCHANGED <<auto, play, shut>>

OperatorSent ==
  /\ lock.who = "operator"
  /\ \/ /\ Sent   \* then the callback of a reply that is already there
        /\ auto' = Credited(IF lock.kind = "load" /\ lock.project # AutoProject
                              THEN Suspended(auto) ELSE auto)
        /\ TerminalLoop(auto')
     \/ /\ NotSent /\ UNCHANGED auto
        /\ loop' = IF tear.paused THEN Restarted(auto, Current) ELSE loop
  /\ tear' = NoTear
  /\ UNCHANGED <<play, shut>>

\* ------------------------- events of operations --------------------------

BridgeFrame == \E f \in Frames : EngineFrame(f) /\ Terminal

BridgeOpEvent(i) ==
  /\ \/ \E kind \in {"ok", "error", "timeout"} : EditorReplies(i, kind)
     \/ GraceOver(i) \/ Budget(i) \/ Watchdog(i)
     \/ UnloadTimesOut(i)
  /\ Terminal

\* An unload that is answered "ok" also suspends auto-load, after _finish.
BridgeUnloadEnds(i) ==
  /\ UnloadAnswered(i) \/ UnloadConfirmed(i)
  /\ LET over == ops[i].request = "ok" /\ ops'[i].waiter = "none"
     IN  auto' = IF over THEN Suspended(auto) ELSE auto
  /\ TerminalLoop(auto)
  /\ UNCHANGED <<play, shut, tear>>

BridgeSocket ==
  /\ EngineUp \/ EngineDrop \/ EditorUp \/ EditorCloses \/ EditorGone
  /\ UNCHANGED bridgeVars

\* ------------------------------ /shutdown --------------------------------

ShutPress(force) ==
  /\ MayShutdown /\ shut = "none"
  /\ ~force => IsKnown(cache) /\ ~ProjectRunning(cache)
  /\ shut' = "ssh"
  /\ UNCHANGED <<opsVars, loop, auto, play, tear>>

\* poweroff_all() is over: cancel auto-play, then abort the operation.
ShutNodesOff ==
  /\ shut = "ssh"
  /\ IF play = "wait"
       THEN play' = "none" /\ shut' = "cancel" /\ UNCHANGED <<opsVars, loop, auto, tear>>
       ELSE Abort /\ shut' = "poll" /\ UNCHANGED <<loop, auto, play, tear>>

ShutAbort ==
  /\ shut = "cancel" /\ Abort /\ shut' = "poll"
  /\ UNCHANGED <<loop, auto, play, tear>>

\* Reachability, displays and the Shelly: ends in a failure or the poweroff.
ShutEnds ==
  /\ shut = "poll" /\ shut' \in {"none", "issued"}
  /\ UNCHANGED <<opsVars, loop, auto, play, tear>>

Next ==
  \/ Tick \/ Attempt \/ AutoCalled \/ AutoSent \/ Awaited
  \/ PlayPoll \/ PlayGivesUp
  \/ BridgeLoad \/ BridgeUnload \/ \E off \in BOOLEAN : BridgeChecked(off)
  \/ PlayCancelled \/ LoopUnwinds \/ LoopCancelled \/ OperatorSent
  \/ BridgeFrame \/ BridgeSocket
  \/ \E i \in DOMAIN ops : BridgeOpEvent(i) \/ BridgeUnloadEnds(i)
  \/ \E force \in BOOLEAN : ShutPress(force)
  \/ ShutNodesOff \/ ShutAbort \/ ShutEnds

Spec == Init /\ [][Next]_vars

------------------------------------------------------------------------------
\* Auto-load counts as done, and its once-only load as spent, only when the
\* engine armed a load of the auto project (_try_auto_load, D10).
DoneMeansArmed ==
  auto.done => \E i \in DOMAIN ops : ops[i].project = AutoProject /\ ops[i].accepted

\* The loop's task is inside start_auto_load exactly while auto-load holds the
\* lock: it is never cancelled there, with the frame half sent and _next set.
CallHoldsLock == lock.who = "auto_load" <=> loop.at = "call"

\* A shutdown that starts while a press waits for the list, the nodes or the
\* teardown stops that press: no operator's operation is created under the lock.
ShutdownRefuses ==
  [][Locked /\ ops' # ops /\ Len(ops') > Len(ops) => ops'[Len(ops')].source = "auto_load"]_vars

\* Auto-load is back after every press that is refused, not sent, that failed at
\* the editor or went overdue (_restart_auto_load_if_allowed's callers).
FailedPressRestarts ==
  /\ AutoProject # NoProject /\ ~auto.disabled /\ ~MayShutdown
  /\ lock.who # "operator"
  /\ \A op \in Current : op.source = "operator" =>
       op.overdue \/ op.reason \in {"editor_error", "editor_lost", "editor_timeout", "editor_unavailable"}
  => Running(loop)

\* bridge.py:752-754: once an operator has loaded another project, auto-load never
\* sends "behind the operator's back".  (An earlier operation of the operator that
\* ends while this one is being sent does start the loop again.)
NotBehindOperator ==
  \A i, j \in DOMAIN ops :
    /\ i < j /\ ops[j].source = "auto_load"
    /\ ops[i].installed /\ ops[i].source = "operator"
    /\ ops[i].kind = "load" /\ ops[i].project # AutoProject
    => \E k \in 1..(i - 1) : ops[k].source = "operator"
=============================================================================
