----------------------------- MODULE ProjectOps ------------------------------
(***************************************************************************)
(* ProjectOps (project_ops.py): POST /loadproject, POST /unloadproject and *)
(* auto-load's own loads, tracked by events.                               *)
(*                                                                         *)
(* One action is the code between two awaits.  `lock` is ProjectOps._lock  *)
(* together with where its holder stands; the editor's one-request slot is *)
(* the operation whose request is open (EditorClient proves that there is  *)
(* one at most).  The engine and the editor may do anything: every frame,  *)
(* reply, drop and timer can come at any moment.  What the bridge does     *)
(* around an operation (pausing auto-load, auto-play, shutdown) only shows *)
(* here as a teardown that may take time and a refusal that may come from  *)
(* outside; PowerBridge adds it.                                           *)
(***************************************************************************)
EXTENDS Operation, Naturals, Sequences

CONSTANTS
  MaxOps,    \* bound: operations ever sent
  Frames,    \* bound: the engine frames explored, a subset of Frame
  Presses,   \* bound: the presses explored, a subset of Press
  Mishaps    \* bound: what may go wrong, a subset of {"engine", "abort"}: drops
             \* of the engine socket, a shutdown that later fails

Press == [kind : {"load", "unload"}, reload : BOOLEAN, force : BOOLEAN]

ASSUME BoundAssumption ==
  /\ MaxOps \in Nat /\ Frames \subseteq Frame /\ Presses \subseteq Press
  /\ Mishaps \subseteq {"engine", "abort"}

VARIABLES
  cache,     \* EngineClient's fields
  editor,    \* the editor socket: "down", "up", "closing"
  ops,       \* the operations in the order of their seq
  cur,       \* seq of self.op, 0 for none
  lock       \* _lock: who holds it and where that coroutine stands

opsVars == <<cache, editor, ops, cur, lock>>

Idle == [who |-> "none", at |-> "idle", kind |-> "load", project |-> NoProject,
         reload |-> FALSE, force |-> FALSE]

Holder == [who     : {"none", "operator", "auto_load"},
           at      : {"idle", "list", "check", "teardown", "send"},
           kind    : {"load", "unload"},
           project : Loads,
           reload  : BOOLEAN,
           force   : BOOLEAN]   \* from "teardown" on: forced past missing nodes

OpsTypeOK ==
  /\ cache \in Cache
  /\ editor \in {"down", "up", "closing"}
  /\ ops \in Seq(Op)
  /\ cur \in Nat /\ cur <= Len(ops)
  /\ lock \in Holder

OpsInit ==
  /\ cache = ColdCache
  /\ editor = "down"
  /\ ops = <<>> /\ cur = 0
  /\ lock = Idle

Newest == Len(ops)
IsOpen(i) == ops[i].request = "open"
\* Mutant: an operation that is over gives its slot back.
SlotFreeWhenOver == \A i \in DOMAIN ops : IsOpen(i) => Done(ops[i])

\* outstanding() is None.
SlotFree == \A i \in DOMAIN ops : ~IsOpen(i)
Current == IF cur = 0 THEN {} ELSE {ops[cur]}

\* self._next: the load whose frame is being sent.
IsNext(i) == lock.at = "send" /\ i = Newest /\ ops[i].kind = "load"

InFlight == \E op \in Current : Loading(op)

BaseChecks == IsKnown(cache) /\ editor # "down" /\ ~ProjectRunning(cache)

Free == lock' = Idle /\ UNCHANGED <<cache, editor, ops, cur>>

\* ------------------- the lock holder's coroutine -------------------------

\* The synchronous block of _start_load, handle_unload and start_auto_load for
\* a holder h: re-check, register, and start sending.  Auto-load may not know
\* the unix_name.
Send(h) ==
  /\ SlotFree
  /\ IF h.who = "operator" THEN BaseChecks
                           ELSE editor # "down" /\ ~ProjectRunning(cache)
  /\ \E unix \in {h.project} \cup (IF h.who = "operator" THEN {} ELSE {NoProject}) :
       ops' = Append(ops, NewOp(h.kind, h.who, h.project, unix, h.force))
  /\ lock' = [h EXCEPT !.at = "send"]
  /\ UNCHANGED <<cache, editor, cur>>

\* The teardown before an operator's block may have something to wait for, and
\* the block may be refused, by its checks or by a shutdown in progress.
Teardown(h) == lock' = [h EXCEPT !.at = "teardown"] /\ UNCHANGED <<cache, editor, ops, cur>>

PressLoad(p, press) ==   \* handle_load up to the project_list request
  /\ press.kind = "load" /\ lock = Idle /\ Newest < MaxOps
  /\ BaseChecks
  /\ lock' = [Idle EXCEPT !.who = "operator", !.at = "list", !.project = p,
                          !.reload = press.reload, !.force = press.force]
  /\ UNCHANGED <<cache, editor, ops, cur>>

\* _start_load after the list: join, refuse, no-op, or go on to the node check.
LoadListed ==
  /\ lock.who = "operator" /\ lock.at = "list"
  /\ IF \/ ~lock.reload /\ \E op \in Current : Joinable(op, lock.project)
        \/ ~SlotFree
        \/ ~lock.reload /\ FreshNoop(cache, Current, lock.project)
       THEN Free
       ELSE /\ lock' = [lock EXCEPT !.at = "check"]
            /\ UNCHANGED <<cache, editor, ops, cur>>

\* The list fails or times out, or does not have the project.
LoadUnlisted ==
  /\ lock.who = "operator" /\ lock.at = "list"
  /\ Free

\* The node check ends: off tells whether a needed node is off the bus.
NodesChecked(off) ==
  /\ lock.at = "check"
  /\ IF off /\ ~lock.force
       THEN Free
       ELSE LET h == [lock EXCEPT !.force = off]
            IN  Teardown(h) \/ Send(h) \/ Free

TornDown == lock.at = "teardown" /\ (Send(lock) \/ Free)

PressUnload ==   \* handle_unload up to its first await
  /\ \E press \in Presses : press.kind = "unload"
  /\ lock = Idle /\ Newest < MaxOps
  /\ BaseChecks /\ SlotFree
  /\ cache.load = NoProject => InFlight
  /\ LET h == [Idle EXCEPT !.who = "operator", !.kind = "unload"]
     IN  Teardown(h) \/ Send(h)

AutoCall(p) ==   \* start_auto_load up to the project_list request
  /\ lock = Idle /\ Newest < MaxOps
  /\ lock' = [Idle EXCEPT !.who = "auto_load", !.at = "list", !.project = p]
  /\ UNCHANGED <<cache, editor, ops, cur>>

AutoListed ==   \* a missing list only leaves the unix_name unknown
  /\ lock.who = "auto_load" /\ lock.at = "list"
  /\ IF SlotFree /\ editor # "down" /\ ~ProjectRunning(cache) THEN Send(lock) ELSE Free

\* Mutant: the operation being replaced is not marked.
InstallKeepsOld ==
  /\ ops' = [ops EXCEPT ![Newest] =
       [@ EXCEPT !.installed = TRUE, !.watched = IsOpen(Newest),
                 !.waiter = IF @ = "none" /\ ops[Newest].kind = "unload" THEN "reply" ELSE "none"]]
  /\ cur' = Newest /\ lock' = Idle
  /\ UNCHANGED <<cache, editor>>

\* _install: the new operation is current, a loading predecessor superseded.  A
\* reply that came while the frame was being sent is heard now.
Install ==
  /\ ops' = [i \in DOMAIN ops |->
       IF i = Newest
         THEN LET in == [ops[i] EXCEPT !.installed = TRUE, !.watched = IsOpen(i),
                           !.waiter = IF ops[i].kind = "unload" THEN "reply" ELSE "none"]
              IN  OnReply(in, TRUE)
       ELSE IF i = cur /\ Loading(ops[i])
         THEN [ops[i] EXCEPT !.state = "superseded", !.graceful = FALSE]
       ELSE ops[i]]
  /\ cur' = Newest /\ lock' = Idle
  /\ UNCHANGED <<cache, editor>>

Sent == lock.at = "send" /\ Install

\* send_registered() fails: the request is withdrawn, the record forgotten.
NotSent ==
  /\ lock.at = "send" /\ (editor # "up" \/ ops[Newest].request = "lost")
  /\ ops' = [ops EXCEPT ![Newest].request = IF @ = "open" THEN "withdrawn" ELSE @]
  /\ lock' = Idle
  /\ UNCHANGED <<cache, editor, cur>>

\* ------------------------------- the engine ------------------------------

EngineFrame(f) ==   \* _apply_status, then on_engine_status
  /\ cache.connected
  /\ cache' = ApplyStatus(cache, f)
  /\ ops' = [i \in DOMAIN ops |->
       IF IsNext(i) \/ i = cur THEN OnStatus(cache', ops[i], f) ELSE ops[i]]
  /\ UNCHANGED <<editor, cur, lock>>

EngineUp   == ~cache.connected /\ cache' = Connected(cache) /\ UNCHANGED <<editor, ops, cur, lock>>
EngineDrop == "engine" \in Mishaps /\ cache.connected /\ cache' = ColdCache /\ UNCHANGED <<editor, ops, cur, lock>>

\* ------------------------------- the editor ------------------------------

EditorUp == editor = "down" /\ editor' = "up" /\ UNCHANGED <<cache, ops, cur, lock>>

EditorCloses == editor = "up" /\ editor' = "closing" /\ UNCHANGED <<cache, ops, cur, lock>>

EditorGone ==   \* _fail_pending
  /\ editor = "closing" /\ editor' = "down"
  /\ ops' = [i \in DOMAIN ops |->
       IF IsOpen(i) THEN Resolved(ops[i], "lost", i = cur) ELSE ops[i]]
  /\ UNCHANGED <<cache, cur, lock>>

EditorReplies(i, kind) ==
  /\ IsOpen(i) /\ editor # "down"
  /\ ops' = [ops EXCEPT ![i] = Resolved(@, kind, i = cur)]
  /\ UNCHANGED <<cache, editor, cur, lock>>

\* -------------------------------- timers ---------------------------------

GraceOver(i) ==   \* _on_editor_lost
  /\ ops[i].graceful
  /\ ops' = [ops EXCEPT ![i] = OnGraceOver(@, i = cur)]
  /\ UNCHANGED <<cache, editor, cur, lock>>

\* _on_budget.  The budget is at least 60 s, an unload's coroutine is over in
\* UNLOAD_TIMEOUT_S + UNLOAD_CONFIRM_S = 32 s.
Budget(i) ==
  /\ ops[i].installed /\ Tracked(ops[i]) /\ ops[i].waiter = "none"
  /\ ops' = [ops EXCEPT ![i].overdue = TRUE]
  /\ UNCHANGED <<cache, editor, cur, lock>>

\* Mutant: the watchdog is one of the operation's own timers.
WatchdogEndsWithOp(i) ==
  /\ ops[i].watched /\ Loading(ops[i]) /\ ops[i].overdue
  /\ ops' = [ops EXCEPT ![i].watched = FALSE]
  /\ editor' = IF editor = "up" THEN "closing" ELSE editor
  /\ UNCHANGED <<cache, cur, lock>>

\* _slot_watchdog: same delay as the budget, started after it.
Watchdog(i) ==
  /\ ops[i].watched /\ Done(ops[i])
  /\ ops' = [ops EXCEPT ![i].watched = FALSE]
  /\ editor' = IF editor = "up" THEN "closing" ELSE editor
  /\ UNCHANGED <<cache, cur, lock>>

\* ----------------------- _await_unload's coroutine -----------------------

UnloadFinish(i, state, reason) ==
  ops' = [ops EXCEPT ![i] = [Finish(@, state, reason) EXCEPT !.waiter = "none"]]

UnloadAnswered(i) ==
  /\ ops[i].waiter = "reply"
  /\ \/ ops[i].request = "lost"    /\ UnloadFinish(i, "failed", "editor_unavailable")
     \/ ops[i].request = "timeout" /\ UnloadFinish(i, "failed", "editor_timeout")
     \/ /\ ops[i].request = "error"
        /\ \E why \in {"editor_error", "project_running"} : UnloadFinish(i, "failed", why)
     \/ /\ ops[i].request = "ok"
        /\ IF cache.load = NoProject THEN UnloadFinish(i, "unloaded", "none")
           ELSE ops' = [ops EXCEPT ![i].waiter = "confirm"]
  /\ UNCHANGED <<cache, editor, cur, lock>>

UnloadTimesOut(i) ==   \* the slot stays with the request
  /\ ops[i].waiter = "reply" /\ IsOpen(i)
  /\ UnloadFinish(i, "failed", "editor_timeout")
  /\ UNCHANGED <<cache, editor, cur, lock>>

UnloadConfirmed(i) ==   \* `load ""` seen, or UNLOAD_CONFIRM_S over
  /\ ops[i].waiter = "confirm"
  /\ UnloadFinish(i, "unloaded", "none")
  /\ UNCHANGED <<cache, editor, cur, lock>>

\* abort(): every watchdog is cancelled, a loading operation fails.
Abort ==
  /\ "abort" \in Mishaps
  /\ ops' = [i \in DOMAIN ops |->
       LET off == [ops[i] EXCEPT !.watched = FALSE]
       IN  IF i = cur /\ Loading(off) THEN Finish(off, "failed", "shutdown") ELSE off]
  /\ UNCHANGED <<cache, editor, cur, lock>>

------------------------------------------------------------------------------
HolderStep ==
  \/ LoadListed \/ LoadUnlisted \/ TornDown \/ AutoListed \/ Sent \/ NotSent
  \/ \E off \in BOOLEAN : NodesChecked(off)

EngineStep == EngineUp \/ EngineDrop \/ \E f \in Frames : EngineFrame(f)

OpStep(i) ==
  \/ \E kind \in {"ok", "error", "timeout"} : EditorReplies(i, kind)
  \/ GraceOver(i) \/ Budget(i) \/ Watchdog(i)
  \/ UnloadAnswered(i) \/ UnloadTimesOut(i) \/ UnloadConfirmed(i)

OpsNext ==
  \/ \E p \in Project, press \in Presses : PressLoad(p, press)
  \/ PressUnload
  \/ \E p \in Project : AutoCall(p)
  \/ HolderStep \/ EngineStep
  \/ EditorUp \/ EditorCloses \/ EditorGone
  \/ \E i \in DOMAIN ops : OpStep(i)
  \/ Abort

\* Timers fire, a request for the list or the nodes is bounded (LIST_TIMEOUT_S,
\* SCAN_TIMEOUT_S), a send ends, and the read loop notices a closed socket.
Fairness ==
  /\ WF_opsVars(LoadListed \/ LoadUnlisted) /\ WF_opsVars(AutoListed)
  /\ WF_opsVars(\E off \in BOOLEAN : NodesChecked(off)) /\ WF_opsVars(TornDown)
  /\ WF_opsVars(Sent \/ NotSent) /\ WF_opsVars(EditorGone)
  /\ \A i \in 1..MaxOps :
       /\ WF_opsVars(i \in DOMAIN ops /\ Budget(i))
       /\ WF_opsVars(i \in DOMAIN ops /\ Watchdog(i))
       /\ WF_opsVars(i \in DOMAIN ops /\ UnloadTimesOut(i))
       /\ WF_opsVars(i \in DOMAIN ops /\ UnloadAnswered(i))
       /\ WF_opsVars(i \in DOMAIN ops /\ UnloadConfirmed(i))

OpsSpec == OpsInit /\ [][OpsNext]_opsVars
FairOpsSpec == OpsSpec /\ Fairness

------------------------------------------------------------------------------
\* Only the newest operation can have an unanswered request at the editor
\* (project_ops.py:12-17): an older load can never overtake a later one on its
\* way to the engine.
SlotIsNewest == \A i \in DOMAIN ops : IsOpen(i) => i = Newest

\* One operation is tracked at a time, the current one: an installed operation
\* that is replaced never stays `loading` (_install), so no waiter of it hangs.
OneTracked == \A i \in DOMAIN ops : ops[i].installed /\ Loading(ops[i]) => i = cur

\* A watchdog guards exactly the request that may still need it: whatever it
\* closes the socket for is the newest request, never a later one's.
WatchdogIsNewest == \A i \in DOMAIN ops : ops[i].watched => i = Newest /\ IsOpen(i)

\* failed, superseded and unloaded are final: no late frame, reply, timer or
\* unload answer changes how an operation ended (_finish).
EndsStay ==
  [][\A i \in DOMAIN ops : ops[i].state \in {"failed", "superseded", "unloaded"}
       => ops'[i].state = ops[i].state]_opsVars

\* Every press comes to an end, whatever the engine and the editor keep to
\* themselves: its operation ends or is overdue, so a ?wait=1 caller is answered
\* and nothing joins it for ever (_on_budget); an unload is answered over HTTP
\* (_await_unload); the lock is given back (op_busy does not last); and the slot
\* comes free: "A silent editor would hold the one-request slot forever; the
\* reconnect fails the request and frees it" (project_ops.py:353-354).
EveryPressEnds ==
  /\ \A i \in 1..MaxOps : (i \in DOMAIN ops /\ ops[i].installed)
                              ~> (i \in DOMAIN ops /\ Done(ops[i]))
  /\ \A i \in 1..MaxOps : (i \in DOMAIN ops /\ ops[i].waiter # "none")
                              ~> (i \in DOMAIN ops /\ ops[i].waiter = "none")
  /\ lock # Idle ~> lock = Idle
  /\ ~SlotFree ~> SlotFree
=============================================================================
