------------------------------ MODULE Operation ------------------------------
(***************************************************************************)
(* The Op record of project_ops.py and what each event does to one         *)
(* operation.  No variable lives here: ProjectOps keeps the operations.    *)
(*                                                                         *)
(* A project is one name (its uuid and its unix_name together).  Texts,    *)
(* timestamps, the node lists and `ran` (which only /status reads) are left *)
(* out; `forced` stands for `forced and nodes_missing`.  `request` is the  *)
(* state of the request's future; `editor` copies it in a callback that    *)
(* runs in the next loop iteration, here in the same step.                 *)
(***************************************************************************)
EXTENDS EngineState

Op == [kind      : {"load", "unload"},
       source    : {"operator", "auto_load"},
       project   : Loads,       \* what was asked for; "" for an unload
       unix      : Loads,       \* "" while auto-load could not resolve it
       state     : {"loading", "armed", "degraded", "failed", "superseded", "unloaded"},
       reason    : {"none", "project_running", "editor_error", "editor_lost",
                    "editor_timeout", "editor_unavailable", "shutdown"},
       request   : {"open", "ok", "error", "timeout", "lost", "withdrawn"},
       notArmed  : BOOLEAN,     \* saw_not_armed
       loadSeen  : BOOLEAN,
       accepted  : BOOLEAN,
       forced    : BOOLEAN,
       installed : BOOLEAN,     \* _install has run: its timers exist
       overdue   : BOOLEAN,
       graceful  : BOOLEAN,     \* the EDITOR_LOST_GRACE_S timer is running
       watched   : BOOLEAN,     \* its slot watchdog is in _watchdogs
       waiter    : {"none", "reply", "confirm"}]   \* _await_unload's coroutine

NewOp(kind, source, project, unix, forced) ==
  [kind |-> kind, source |-> source, project |-> project, unix |-> unix,
   state |-> "loading", reason |-> "none", request |-> "open",
   notArmed |-> FALSE, loadSeen |-> FALSE, accepted |-> FALSE, forced |-> forced,
   installed |-> FALSE, overdue |-> FALSE, graceful |-> FALSE, watched |-> FALSE,
   waiter |-> "none"]

Loading(op) == op.state = "loading"
\* op.done is set.
Done(op)    == ~Loading(op) \/ op.overdue
\* A tracked load, the one in_flight() and the NDI guard look at.
Tracked(op) == Loading(op) /\ ~op.overdue

\* Mutant: a finished operation can be finished again.
FinishAgain(op, state, reason) ==
  [op EXCEPT !.state = state, !.reason = reason, !.graceful = FALSE]

\* _finish: a failed or superseded operation keeps its end.
Finish(op, state, reason) ==
  IF op.state \in {"failed", "superseded"} THEN op
  ELSE [op EXCEPT !.state = state, !.reason = reason, !.graceful = FALSE]

Degraded(c, op) ==
  IF c.warning # "none" /\ c.load = op.unix THEN c.warning = "unreachable" ELSE op.forced

\* _evaluate: the engine arms the project this load asked for.
Evaluate(c, op) ==
  IF /\ op.kind = "load" /\ ~op.accepted /\ Loading(op)
     /\ c.armed = "yes" /\ op.notArmed
     /\ IF op.unix # NoProject THEN c.load = op.unix ELSE ProjectLoaded(c)
    THEN LET named == [op EXCEPT !.unix = c.load, !.accepted = TRUE]
         IN  Finish(named, IF Degraded(c, named) THEN "degraded" ELSE "armed", "none")
    ELSE op

\* on_engine_status for one load, after the cache took frame f and became c.
OnStatus(c, op, f) ==
  IF op.kind # "load" THEN op
  ELSE IF f.key = "running" /\ f.value = "yes" /\ ~op.accepted /\ Loading(op) /\ ~op.notArmed
    THEN Finish(op, "failed", "project_running")
    ELSE Evaluate(c, [op EXCEPT
           !.notArmed = @ \/ (f.key = "armed" /\ f.value # "yes" /\ ~op.accepted),
           !.loadSeen = @ \/ f.key = "load"])

\* _on_editor_reply; isCurrent tells whether op is self.op.
OnReply(op, isCurrent) ==
  IF op.kind # "load" THEN op
  ELSE IF op.request = "error" THEN Finish(op, "failed", "editor_error")
  ELSE [op EXCEPT !.graceful = @ \/ (op.request = "lost" /\ isCurrent /\ Loading(op))]

\* The request's future is done: "timeout" is the editor's own "Timeout:" error,
\* "lost" the end of the socket.  The callback exists once _install added it;
\* the watchdog of a request that is done does nothing, so it is dropped.
Resolved(op, how, isCurrent) ==
  LET done == [op EXCEPT !.request = how, !.watched = FALSE]
  IN  IF op.installed THEN OnReply(done, isCurrent) ELSE done

\* _on_editor_lost, when the grace is over.
OnGraceOver(op, isCurrent) ==
  LET calm == [op EXCEPT !.graceful = FALSE]
  IN  IF isCurrent /\ Loading(op) /\ ~op.notArmed /\ ~op.loadSeen
        THEN Finish(calm, "failed", "editor_lost") ELSE calm

\* _joinable, for the current operation.
Joinable(op, project) ==
  op.kind = "load" /\ op.project = project /\ Tracked(op) /\ op.request \in {"open", "ok"}

\* _fresh_noop: the project is loaded, freshly armed and nothing is wrong with
\* it; `last` is the set holding self.op, or {}.
FreshNoop(c, last, project) ==
  /\ \A op \in last : ~Loading(op)
  /\ c.load = project /\ c.armed = "yes" /\ c.freshArm
  /\ c.warning # "unreachable"
  /\ \A op \in last : op.kind = "load" /\ op.unix = project /\ op.accepted
                        => ~op.forced /\ ~Degraded(c, op)
=============================================================================
