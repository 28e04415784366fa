-------------------------- MODULE PowerBridgeProofs --------------------------
(***************************************************************************)
(* Proofs about ProjectOps and PowerBridge, for any configuration, any     *)
(* projects, any number of operations and any frames and presses.          *)
(*                                                                         *)
(* First ProjectOps: its types, its slot and tracking invariants, and that *)
(* an ended operation keeps its end.  What an event does to one operation  *)
(* comes first; every step but Send and _install only ages operations      *)
(* (Ages).                                                                 *)
(*                                                                         *)
(* Then PowerBridge: it implements ProjectOps, so that what was shown of   *)
(* the operations holds with auto-load, auto-play and /shutdown around     *)
(* them, and what its auto-load loop promises the operator.                *)
(***************************************************************************)
EXTENDS PowerBridge, TLAPS

\* ------------------- one operation ---------------------------------------

OpState  == {"loading", "armed", "degraded", "failed", "superseded", "unloaded"}
OpReason == {"none", "project_running", "editor_error", "editor_lost",
             "editor_timeout", "editor_unavailable", "shutdown"}

\* Only an unload ends as "unloaded", and then its coroutine is over; an armed
\* operation was accepted; one that loads has no reason to have failed.
Consistent(op) ==
  /\ op.state = "unloaded" => op.kind = "unload" /\ op.installed /\ op.waiter = "none"
  /\ op.state \in {"armed", "degraded"} => op.accepted
  /\ Loading(op) => op.reason = "none"

\* What every step leaves of an operation: what was asked for, that it was
\* accepted, how it ended; and a reason only comes with a new state.
Carries(op, new) ==
  /\ new.kind = op.kind /\ new.source = op.source /\ new.project = op.project
  /\ op.accepted => new.accepted
  /\ op.installed => new.installed
  /\ op.state \in {"failed", "superseded", "unloaded"} => new.state = op.state
  /\ new.reason # op.reason => new.state # op.state /\ new.state # "superseded"

\* What no event but the operation's own coroutine, its budget and _install may
\* do: new is the same operation at the same place of its life.
Evolves(op, new) ==
  /\ new \in Op /\ Carries(op, new) /\ Consistent(new)
  /\ new.installed = op.installed /\ new.overdue = op.overdue /\ new.waiter = op.waiter
  /\ new.state = "loading" => op.state = "loading"
  /\ new.state = "unloaded" => op.state = "unloaded"

\* The request and its watchdog are left alone.
KeepsRequest(op, new) == new.request = op.request /\ new.watched = op.watched

LEMMA FinishFacts ==
  ASSUME NEW op \in Op, NEW s \in OpState, NEW r \in OpReason
  PROVE  /\ Finish(op, s, r) \in Op
         /\ Finish(op, s, r).kind = op.kind /\ Finish(op, s, r).source = op.source
         /\ Finish(op, s, r).project = op.project /\ Finish(op, s, r).accepted = op.accepted
         /\ Finish(op, s, r).installed = op.installed
         /\ Finish(op, s, r).overdue = op.overdue
         /\ Finish(op, s, r).waiter = op.waiter
         /\ KeepsRequest(op, Finish(op, s, r))
         /\ Finish(op, s, r).state = IF op.state \in {"failed", "superseded"} THEN op.state ELSE s
         /\ Finish(op, s, r).reason = IF op.state \in {"failed", "superseded"} THEN op.reason ELSE r
PROOF
<1>1. CASE op.state \in {"failed", "superseded"}
  BY <1>1 DEF Finish, KeepsRequest
<1>2. CASE op.state \notin {"failed", "superseded"}
  <2> DEFINE new == [op EXCEPT !.state = s, !.reason = r, !.graceful = FALSE]
  <2>1. Finish(op, s, r) = new
    BY <1>2 DEF Finish
  <2>2. new \in Op
    BY DEF Op, OpState, OpReason
  <2>3. /\ new.state = s /\ new.kind = op.kind /\ new.source = op.source
        /\ new.project = op.project /\ new.accepted = op.accepted /\ new.reason = r
        /\ new.installed = op.installed /\ new.overdue = op.overdue
        /\ new.waiter = op.waiter /\ KeepsRequest(op, new)
    BY DEF Op, KeepsRequest
  <2> HIDE DEF new
  <2> QED BY <1>2, <2>1, <2>2, <2>3 DEF KeepsRequest
<1> QED BY <1>1, <1>2

LEMMA EvaluateEvolves ==
  ASSUME NEW c \in Cache, NEW op \in Op, Consistent(op)
  PROVE  Evolves(op, Evaluate(c, op)) /\ KeepsRequest(op, Evaluate(c, op))
PROOF
<1> DEFINE named == [op EXCEPT !.unix = c.load, !.accepted = TRUE]
           arms == /\ op.kind = "load" /\ ~op.accepted /\ Loading(op)
                   /\ c.armed = "yes" /\ op.notArmed
                   /\ IF op.unix # NoProject THEN c.load = op.unix ELSE ProjectLoaded(c)
           end == IF Degraded(c, named) THEN "degraded" ELSE "armed"
<1>1. CASE arms
  <2>1. c.load \in Loads
    BY <1>1 DEF Op, ProjectLoaded, Loads
  <2>2. named \in Op /\ named.state = "loading" /\ KeepsRequest(op, named)
        /\ named.kind = op.kind /\ named.source = op.source /\ named.installed = op.installed
        /\ named.overdue = op.overdue /\ named.waiter = op.waiter
        /\ named.project = op.project /\ named.accepted /\ named.reason = op.reason
    BY <1>1, <2>1 DEF Op, Loading, KeepsRequest
  <2>3. end \in OpState /\ end \in {"degraded", "armed"} /\ "none" \in OpReason
    BY DEF OpState, OpReason
  <2>4. Evaluate(c, op) = Finish(named, end, "none")
    BY <1>1 DEF Evaluate
  <2>5. Evolves(op, Finish(named, end, "none"))
        /\ KeepsRequest(op, Finish(named, end, "none"))
    <3> HIDE DEF named, end
    <3> QED BY <1>1, <2>2, <2>3, FinishFacts DEF Evolves, Carries, Consistent, Loading, KeepsRequest
  <2> QED BY <2>4, <2>5
<1>2. CASE ~arms
  BY <1>2 DEF Evaluate, Evolves, Carries, KeepsRequest
<1> QED BY <1>1, <1>2

\* A failure of an operation that is still loading.
LEMMA FailEvolves ==
  ASSUME NEW op \in Op, Consistent(op), Loading(op), NEW r \in OpReason
  PROVE  Evolves(op, Finish(op, "failed", r)) /\ KeepsRequest(op, Finish(op, "failed", r))
PROOF
<1>1. "failed" \in OpState
  BY DEF OpState
<1> QED BY <1>1, FinishFacts DEF Evolves, Carries, Consistent, Loading

LEMMA OnStatusEvolves ==
  ASSUME NEW c \in Cache, NEW op \in Op, Consistent(op), NEW f \in Frame
  PROVE  Evolves(op, OnStatus(c, op, f)) /\ KeepsRequest(op, OnStatus(c, op, f))
PROOF
<1> DEFINE seen == [op EXCEPT
                     !.notArmed = @ \/ (f.key = "armed" /\ f.value # "yes" /\ ~op.accepted),
                     !.loadSeen = @ \/ f.key = "load"]
           raced == /\ f.key = "running" /\ f.value = "yes"
                    /\ ~op.accepted /\ Loading(op) /\ ~op.notArmed
<1>1. CASE op.kind # "load"
  BY <1>1 DEF OnStatus, Evolves, Carries, KeepsRequest
<1>2. CASE op.kind = "load" /\ raced
  <2>1. OnStatus(c, op, f) = Finish(op, "failed", "project_running") /\ Loading(op)
    BY <1>2 DEF OnStatus
  <2>2. "project_running" \in OpReason
    BY DEF OpReason
  <2> QED BY <2>1, <2>2, FailEvolves
<1>3. CASE op.kind = "load" /\ ~raced
  <2>1. OnStatus(c, op, f) = Evaluate(c, seen)
    BY <1>3 DEF OnStatus
  <2>2. /\ seen \in Op /\ KeepsRequest(op, seen)
        /\ seen.state = op.state /\ seen.reason = op.reason
        /\ seen.kind = op.kind /\ seen.source = op.source /\ seen.project = op.project
        /\ seen.accepted = op.accepted /\ seen.installed = op.installed
        /\ seen.overdue = op.overdue /\ seen.waiter = op.waiter
    BY DEF Op, KeepsRequest
  <2> HIDE DEF seen
  <2>4. Consistent(seen)
    BY <2>2 DEF Consistent, Loading
  <2>3. Evolves(seen, Evaluate(c, seen)) /\ KeepsRequest(seen, Evaluate(c, seen))
    BY <2>2, <2>4, EvaluateEvolves
  <2> QED BY <2>1, <2>2, <2>3 DEF Evolves, Carries, KeepsRequest
<1> QED BY <1>1, <1>2, <1>3

LEMMA OnReplyEvolves ==
  ASSUME NEW op \in Op, Consistent(op), NEW isCurrent \in BOOLEAN
  PROVE  Evolves(op, OnReply(op, isCurrent)) /\ KeepsRequest(op, OnReply(op, isCurrent))
PROOF
<1>1. CASE op.kind # "load"
  BY <1>1 DEF OnReply, Evolves, Carries, KeepsRequest
<1>2. CASE op.kind = "load" /\ op.request = "error"
  <2>1. OnReply(op, isCurrent) = Finish(op, "failed", "editor_error")
    BY <1>2 DEF OnReply
  <2>2. "failed" \in OpState /\ "editor_error" \in OpReason /\ op.state # "unloaded"
    BY <1>2 DEF OpState, OpReason, Consistent
  <2> QED BY <2>1, <2>2, FinishFacts DEF Evolves, Carries, Consistent, Loading
<1>3. CASE op.kind = "load" /\ op.request # "error"
  <2> DEFINE new == [op EXCEPT !.graceful = @ \/ (op.request = "lost" /\ isCurrent /\ Loading(op))]
  <2>1. OnReply(op, isCurrent) = new
    BY <1>3 DEF OnReply
  <2>2. Evolves(op, new) /\ KeepsRequest(op, new)
    BY DEF Op, KeepsRequest, Evolves, Carries, Consistent, Loading
  <2> QED BY <2>1, <2>2
<1> QED BY <1>1, <1>2, <1>3

LEMMA ResolvedEvolves ==
  ASSUME NEW op \in Op, Consistent(op), NEW isCurrent \in BOOLEAN,
         NEW how \in {"ok", "error", "timeout", "lost"}
  PROVE  /\ Evolves(op, Resolved(op, how, isCurrent))
         /\ Resolved(op, how, isCurrent).request = how
         /\ ~Resolved(op, how, isCurrent).watched
PROOF
<1> DEFINE done == [op EXCEPT !.request = how, !.watched = FALSE]
<1>1. done \in Op
  BY DEF Op
<1>2. done.request = how /\ ~done.watched /\ done.state = op.state /\ done.reason = op.reason
  BY DEF Op
<1>3. Evolves(op, done) /\ Consistent(done)
  BY <1>1 DEF Op, Evolves, Carries, Consistent, Loading
<1>4. Resolved(op, how, isCurrent) = IF op.installed THEN OnReply(done, isCurrent) ELSE done
  BY DEF Resolved
<1> HIDE DEF done
<1>5. Evolves(done, OnReply(done, isCurrent)) /\ KeepsRequest(done, OnReply(done, isCurrent))
  BY <1>1, <1>3, OnReplyEvolves
<1> QED BY <1>2, <1>3, <1>4, <1>5 DEF Evolves, Carries, KeepsRequest

LEMMA OnGraceOverEvolves ==
  ASSUME NEW op \in Op, Consistent(op), NEW isCurrent \in BOOLEAN
  PROVE  Evolves(op, OnGraceOver(op, isCurrent)) /\ KeepsRequest(op, OnGraceOver(op, isCurrent))
PROOF
<1> DEFINE calm == [op EXCEPT !.graceful = FALSE]
<1>1. Evolves(op, calm) /\ KeepsRequest(op, calm) /\ calm \in Op /\ calm.state = op.state
  BY DEF Op, Evolves, Carries, Consistent, Loading, KeepsRequest
<1>2. CASE Loading(op) /\ OnGraceOver(op, isCurrent) = Finish(calm, "failed", "editor_lost")
  <2>1. Loading(calm) /\ Consistent(calm) /\ "editor_lost" \in OpReason
    BY <1>1, <1>2 DEF Loading, OpReason, Evolves
  <2> HIDE DEF calm
  <2>2. Evolves(calm, Finish(calm, "failed", "editor_lost"))
        /\ KeepsRequest(calm, Finish(calm, "failed", "editor_lost"))
    BY <1>1, <2>1, FailEvolves
  <2> QED BY <1>1, <1>2, <2>2 DEF Evolves, Carries, KeepsRequest
<1>3. CASE OnGraceOver(op, isCurrent) = calm
  BY <1>1, <1>3
<1>4. \/ Loading(op) /\ OnGraceOver(op, isCurrent) = Finish(calm, "failed", "editor_lost")
      \/ OnGraceOver(op, isCurrent) = calm
  BY DEF OnGraceOver
<1> QED BY <1>2, <1>3, <1>4

LEMMA ApplyStatusType ==
  ASSUME NEW c \in Cache, NEW f \in Frame
  PROVE  ApplyStatus(c, f) \in Cache
PROOF
<1>1. CASE f.key = "load"
  <2>1. f.value \in Loads
    BY <1>1 DEF Frame
  <2>2. ApplyStatus(c, f) = ApplyLoad(c, f.value)
    BY <1>1 DEF ApplyStatus
  <2> QED BY <2>1, <2>2 DEF ApplyLoad, Cache
<1>2. CASE f.key = "armed"
  <2>1. f.value \in {"no", "yes"}
    BY <1>2 DEF Frame
  <2>2. ApplyStatus(c, f) = ApplyArmed(c, f.value)
    BY <1>2 DEF ApplyStatus
  <2> QED BY <2>1, <2>2 DEF ApplyArmed, Cache
<1>3. CASE f.key = "running"
  <2>1. f.value \in {"no", "yes"}
    BY <1>3 DEF Frame
  <2>2. ApplyStatus(c, f) = ApplyRunning(c, f.value)
    BY <1>3 DEF ApplyStatus
  <2> QED BY <2>1, <2>2 DEF ApplyRunning, Cache
<1>4. CASE f.key = "cluster_warning"
  <2>1. f.value \in {"clean", "unreachable"}
    BY <1>4 DEF Frame
  <2> QED BY <1>4, <2>1 DEF ApplyStatus, Cache
<1> QED BY <1>1, <1>2, <1>3, <1>4 DEF Frame

\* ------------------- all operations --------------------------------------

\* Where each operation is in its life.
LifeOK ==
  \A i \in DOMAIN ops :
    /\ ops[i].installed => i <= cur
    /\ ops[i].watched => ops[i].installed
    /\ ops[i].waiter # "none" => ops[i].installed /\ ops[i].kind = "unload"
    /\ Consistent(ops[i])

\* The operation being sent is the newest one and is not installed.
SendsNewest == lock.at = "send" => cur < Newest /\ ~ops[Newest].installed

\* The lock is somebody's.
HeldBySomeone == lock.at # "idle" => lock.who \in {"operator", "auto_load"}

\* The inductive invariant.
IInv ==
  /\ OpsTypeOK /\ LifeOK /\ SendsNewest /\ HeldBySomeone
  /\ SlotIsNewest /\ OneTracked /\ WatchdogIsNewest

\* What a step may do to an operation that it neither creates nor installs.
Ages(op, new) ==
  /\ new \in Op /\ Carries(op, new) /\ new.installed = op.installed
  /\ new.state = "loading" => op.state = "loading"
  /\ new.request = "open" => op.request = "open"
  /\ new.watched => op.watched /\ new.request = "open"
  /\ new.waiter # "none" => op.waiter # "none"
  /\ Consistent(new)

\* The lock moves on, or back, without a send being started.
CalmLock ==
  /\ lock' \in Holder
  /\ lock'.at = "send" => lock.at = "send"
  /\ lock'.at # "idle" => lock'.who \in {"operator", "auto_load"}

\* No operation is forgotten, each keeps what every step leaves of it, and only the
\* end of its send installs one.
Carried ==
  \A i \in DOMAIN ops :
    /\ i \in DOMAIN ops' /\ Carries(ops[i], ops'[i])
    /\ ops'[i].installed => ops[i].installed \/ (lock.at = "send" /\ i = Newest /\ cur' = Newest)

LEMMA OpsAreOps ==
  ASSUME OpsTypeOK
  PROVE  Newest \in Nat /\ DOMAIN ops = 1..Newest /\ \A i \in DOMAIN ops : ops[i] \in Op
PROOF
  BY DEF OpsTypeOK, Newest

LEMMA AgesSelf ==
  ASSUME IInv, NEW i \in DOMAIN ops
  PROVE  Ages(ops[i], ops[i])
PROOF
<1>1. ops[i] \in Op /\ Consistent(ops[i])
  BY OpsAreOps DEF IInv, LifeOK
<1>2. ops[i].watched => ops[i].request = "open"
  BY DEF IInv, WatchdogIsNewest, IsOpen
<1> QED BY <1>1, <1>2 DEF Ages, Carries

\* A step that only ages operations keeps the invariant, and every end.
LEMMA AgedInv ==
  ASSUME IInv, cur' = cur, cache' \in Cache, editor' \in {"down", "up", "closing"}, CalmLock,
         ops' = [i \in DOMAIN ops |-> ops'[i]],
         \A i \in DOMAIN ops : Ages(ops[i], ops'[i])
  PROVE  IInv' /\ Carried
PROOF
<1>1. DOMAIN ops' = DOMAIN ops /\ DOMAIN ops = 1..Newest /\ Newest \in Nat
  BY OpsAreOps DEF IInv
<1>2. ops' \in [1..Newest -> Op]
  BY <1>1 DEF Ages
<1>3. ops' \in Seq(Op) /\ Len(ops') = Newest
  BY <1>1, <1>2
<1>4. OpsTypeOK'
  BY <1>3 DEF IInv, OpsTypeOK, Newest, CalmLock
<1>5. LifeOK' /\ SendsNewest' /\ OneTracked' /\ HeldBySomeone'
  BY <1>1, <1>3 DEF HeldBySomeone, CalmLock, IInv, OpsTypeOK, LifeOK, SendsNewest, OneTracked, Newest, Ages, Carries, Loading
<1>6. SlotIsNewest' /\ WatchdogIsNewest'
  BY <1>1, <1>3 DEF IInv, SlotIsNewest, WatchdogIsNewest, Newest, IsOpen, Ages
<1>7. Carried
  BY <1>1 DEF Carried, Ages
<1> QED BY <1>4, <1>5, <1>6, <1>7 DEF IInv

\* A step of the lock holder that sends nothing.
LEMMA LockInv ==
  ASSUME IInv, UNCHANGED <<cache, editor, ops, cur>>, CalmLock
  PROVE  IInv' /\ Carried
PROOF
<1>1. ops' = [i \in DOMAIN ops |-> ops'[i]]
  BY DEF IInv, OpsTypeOK
<1>2. \A i \in DOMAIN ops : Ages(ops[i], ops'[i])
  BY AgesSelf
<1>3. cache' \in Cache /\ editor' \in {"down", "up", "closing"} /\ cur' = cur
  BY DEF IInv, OpsTypeOK
<1> QED BY <1>1, <1>2, <1>3, AgedInv

\* An event of one operation.
LEMMA OneAges ==
  ASSUME IInv, NEW i \in DOMAIN ops, NEW new, Ages(ops[i], new),
         ops' = [ops EXCEPT ![i] = new], cur' = cur, cache' = cache,
         editor' \in {"down", "up", "closing"}, CalmLock
  PROVE  IInv' /\ Carried
PROOF
<1>1. ops' = [j \in DOMAIN ops |-> ops'[j]] /\ \A j \in DOMAIN ops : Ages(ops[j], ops'[j])
  BY AgesSelf DEF IInv, OpsTypeOK
<1>2. cache' \in Cache
  BY DEF IInv, OpsTypeOK
<1> QED BY <1>1, <1>2, AgedInv

LEMMA SameLock ==
  ASSUME IInv, lock' = lock
  PROVE  CalmLock
PROOF
  BY DEF IInv, OpsTypeOK, HeldBySomeone, CalmLock

\* An event that leaves request and watchdog alone, or takes both, ages.
LEMMA EvolvesAges ==
  ASSUME IInv, NEW i \in DOMAIN ops, NEW new, Evolves(ops[i], new),
         KeepsRequest(ops[i], new) \/ (new.request # "open" /\ ~new.watched)
  PROVE  Ages(ops[i], new)
PROOF
<1>1. ops[i] \in Op /\ Consistent(ops[i]) /\ Ages(ops[i], ops[i])
  BY OpsAreOps, AgesSelf DEF IInv, LifeOK
<1> QED BY <1>1 DEF Ages, Evolves, KeepsRequest

\* Send: registering and starting to send.
LEMMA SendInv ==
  ASSUME IInv, NEW h \in Holder, h.who \in {"operator", "auto_load"}, Send(h)
  PROVE  IInv' /\ Carried
PROOF
<1> PICK unix \in {h.project} \cup (IF h.who = "operator" THEN {} ELSE {NoProject}) :
      ops' = Append(ops, NewOp(h.kind, h.who, h.project, unix, h.force))
  BY DEF Send
<1> DEFINE new == NewOp(h.kind, h.who, h.project, unix, h.force)
<1>1. h.kind \in {"load", "unload"} /\ h.project \in Loads /\ unix \in Loads /\ h.force \in BOOLEAN
  BY DEF Holder, Loads
<1>2. new \in Op
  BY <1>1 DEF NewOp, Op
<1>3. /\ ~new.installed /\ ~new.watched /\ new.waiter = "none" /\ new.state = "loading"
      /\ Consistent(new)
  BY DEF NewOp, Consistent, Loading
<1> HIDE DEF new
<1>4. ops \in Seq(Op) /\ Newest \in Nat /\ DOMAIN ops = 1..Newest
  BY OpsAreOps DEF IInv, OpsTypeOK
<1>5. /\ ops' \in Seq(Op) /\ Len(ops') = Newest + 1 /\ DOMAIN ops' = 1..(Newest + 1)
      /\ \A i \in 1..Newest : ops'[i] = ops[i]
      /\ ops'[Newest + 1] = new
  BY <1>2, <1>4 DEF new, Newest
<1>6. cache' = cache /\ editor' = editor /\ cur' = cur /\ cur \in Nat /\ cur <= Newest
      /\ lock' = [h EXCEPT !.at = "send"] /\ SlotFree
  BY DEF Send, IInv, OpsTypeOK, Newest
<1>7. lock' \in Holder /\ lock'.at = "send" /\ HeldBySomeone'
  BY <1>6 DEF Holder, HeldBySomeone
<1>8. OpsTypeOK'
  BY <1>5, <1>6, <1>7 DEF IInv, OpsTypeOK, Newest
<1>9. LifeOK' /\ SendsNewest'
  BY <1>3, <1>4, <1>5, <1>6 DEF IInv, LifeOK, SendsNewest, Newest
<1>10. OneTracked'
  BY <1>3, <1>4, <1>5, <1>6 DEF IInv, OneTracked, Loading
<1>11. SlotIsNewest' /\ WatchdogIsNewest'
  BY <1>3, <1>4, <1>5, <1>6 DEF IInv, SlotIsNewest, SlotFree, WatchdogIsNewest, IsOpen, Newest
<1>12. Carried
  BY <1>4, <1>5 DEF Carried, Carries
<1> QED BY <1>7, <1>8, <1>9, <1>10, <1>11, <1>12 DEF IInv

\* The operation that _install makes current, after the callback of a reply that
\* came meanwhile; and the one it supersedes.
Installs(op, new) ==
  /\ new \in Op /\ new.installed /\ new.request = op.request
  /\ new.watched => op.request = "open"
  /\ new.waiter # "none" => new.kind = "unload"
  /\ Consistent(new) /\ Carries(op, new)

LEMMA InstalledFacts ==
  ASSUME NEW op \in Op, op.state # "unloaded", Consistent(op),
         NEW w \in BOOLEAN, w => op.request = "open",
         NEW a \in {"none", "reply"}, a = "reply" => op.kind = "unload"
  PROVE  Installs(op, OnReply([op EXCEPT !.installed = TRUE, !.watched = w, !.waiter = a], TRUE))
PROOF
<1> DEFINE in == [op EXCEPT !.installed = TRUE, !.watched = w, !.waiter = a]
<1>1. in \in Op
  BY DEF Op
<1>2. /\ in.installed /\ in.kind = op.kind /\ in.state = op.state /\ in.request = op.request
      /\ in.source = op.source /\ in.project = op.project /\ in.accepted = op.accepted
      /\ in.reason = op.reason
  BY DEF Op
<1>3. in.watched => op.request = "open"
  BY DEF Op
<1>4. in.waiter # "none" => op.kind = "unload"
  BY DEF Op
<1>5. Consistent(in)
  BY <1>2 DEF Consistent, Loading
<1> HIDE DEF in
<1>6. Evolves(in, OnReply(in, TRUE)) /\ KeepsRequest(in, OnReply(in, TRUE))
  BY <1>1, <1>5, OnReplyEvolves
<1>7. Installs(op, OnReply(in, TRUE))
  BY <1>2, <1>3, <1>4, <1>5, <1>6 DEF Evolves, KeepsRequest, Carries, Installs
<1> QED BY <1>7 DEF in

LEMMA SupersededAges ==
  ASSUME NEW op \in Op, Ages(op, op), Loading(op)
  PROVE  /\ Ages(op, [op EXCEPT !.state = "superseded", !.graceful = FALSE])
         /\ ~Loading([op EXCEPT !.state = "superseded", !.graceful = FALSE])
PROOF
<1> DEFINE new == [op EXCEPT !.state = "superseded", !.graceful = FALSE]
<1>1. new \in Op
  BY DEF Op
<1>2. /\ new.state = "superseded" /\ new.kind = op.kind /\ new.installed = op.installed
      /\ new.request = op.request /\ new.watched = op.watched /\ new.waiter = op.waiter
      /\ new.source = op.source /\ new.project = op.project /\ new.accepted = op.accepted
      /\ new.reason = op.reason
  BY DEF Op
<1> HIDE DEF new
<1>3. Ages(op, new) /\ ~Loading(new)
  BY <1>1, <1>2 DEF Ages, Carries, Loading, Consistent
<1> QED BY <1>3 DEF new

\* _install: the operation that was sent becomes the current one.
LEMMA InstallInv ==
  ASSUME IInv, Sent
  PROVE  IInv' /\ Carried
PROOF
<1>1. /\ ops \in Seq(Op) /\ Newest \in Nat /\ DOMAIN ops = 1..Newest
      /\ \A i \in DOMAIN ops : ops[i] \in Op
      /\ cur \in Nat /\ cur < Newest /\ ~ops[Newest].installed
  BY OpsAreOps DEF IInv, OpsTypeOK, Sent, SendsNewest
<1>2. cur' = Newest /\ lock' = Idle /\ cache' = cache /\ editor' = editor
  BY DEF Sent, Install
<1> DEFINE in == [ops[Newest] EXCEPT !.installed = TRUE, !.watched = IsOpen(Newest),
                    !.waiter = IF ops[Newest].kind = "unload" THEN "reply" ELSE "none"]
           new == OnReply(in, TRUE)
<1>3. Newest \in DOMAIN ops /\ ops[Newest].state # "unloaded" /\ Consistent(ops[Newest])
  BY <1>1 DEF IInv, LifeOK, Consistent
<1> DEFINE a == IF ops[Newest].kind = "unload" THEN "reply" ELSE "none"
           w == IsOpen(Newest)
<1>4. /\ w \in BOOLEAN /\ (w => ops[Newest].request = "open")
      /\ a \in {"none", "reply"} /\ (a = "reply" => ops[Newest].kind = "unload")
      /\ in = [ops[Newest] EXCEPT !.installed = TRUE, !.watched = w, !.waiter = a]
  BY DEF IsOpen
<1> HIDE DEF in, a, w
<1>5. Installs(ops[Newest], new)
  <2>1. ops[Newest] \in Op /\ ops[Newest].state # "unloaded" /\ Consistent(ops[Newest])
    BY <1>1, <1>3
  <2> QED BY <1>4, <2>1, InstalledFacts
<1> DEFINE old(i) == IF i = cur /\ Loading(ops[i])
                       THEN [ops[i] EXCEPT !.state = "superseded", !.graceful = FALSE]
                       ELSE ops[i]
<1>6. ops' = [i \in DOMAIN ops |-> IF i = Newest THEN new ELSE old(i)]
  BY DEF Sent, Install, in, a, w
<1>7. \A i \in DOMAIN ops : Ages(ops[i], old(i)) /\ (Loading(old(i)) => i # cur)
  <2> TAKE i \in DOMAIN ops
  <2>1. Ages(ops[i], ops[i]) /\ ops[i] \in Op
    BY <1>1, AgesSelf
  <2> QED BY <2>1, SupersededAges
<1> HIDE DEF new, old
<1>8. \A i \in 1..Newest : ops'[i] = IF i = Newest THEN new ELSE old(i)
  BY <1>1, <1>6
<1>9. ops' \in Seq(Op) /\ Len(ops') = Newest /\ DOMAIN ops' = 1..Newest
  <2>1. ops' \in [1..Newest -> Op]
    BY <1>1, <1>5, <1>6, <1>7 DEF Ages, Installs
  <2> QED BY <1>1, <2>1
<1>10. OpsTypeOK'
  BY <1>1, <1>2, <1>9 DEF IInv, OpsTypeOK, Newest, Idle, Holder, Loads
<1>11. LifeOK' /\ SendsNewest'
  <2>1. ASSUME NEW i \in 1..Newest, i # Newest
        PROVE  /\ ops'[i].waiter # "none" => ops'[i].installed /\ ops'[i].kind = "unload"
               /\ Consistent(ops'[i])
               /\ ops'[i].watched => ops'[i].installed
    BY <2>1, <1>1, <1>7, <1>8 DEF IInv, LifeOK, Ages, Carries
  <2> QED BY <2>1, <1>1, <1>2, <1>5, <1>8, <1>9 DEF LifeOK, SendsNewest, Idle, Installs
<1>12. OneTracked'
  BY <1>1, <1>2, <1>5, <1>7, <1>8, <1>9 DEF IInv, OneTracked, Ages, Carries, Loading, Installs
<1>13. SlotIsNewest' /\ WatchdogIsNewest'
  <2>1. Newest' = Newest
    BY <1>9 DEF Newest
  <2>2. ASSUME NEW i \in 1..Newest, i # Newest
        PROVE  ops'[i].request # "open" /\ ~ops'[i].watched
    BY <2>2, <1>1, <1>7, <1>8 DEF IInv, SlotIsNewest, IsOpen, Ages
  <2>3. Newest > 0 => (ops'[Newest].watched => ops'[Newest].request = "open")
    BY <1>1, <1>5, <1>8 DEF Installs
  <2> QED BY <2>1, <2>2, <2>3, <1>1, <1>9 DEF SlotIsNewest, WatchdogIsNewest, IsOpen
<1>14. Carried
  <2>1. lock.at = "send"
    BY DEF Sent
  <2> QED BY <2>1, <1>1, <1>2, <1>5, <1>7, <1>8, <1>9 DEF Carried, Ages, Installs
<1>15. HeldBySomeone'
  BY <1>2 DEF HeldBySomeone, Idle
<1> QED BY <1>10, <1>11, <1>12, <1>13, <1>14, <1>15 DEF IInv

\* The lock holder's steps.  A holder is well typed at each of them.
LEMMA TeardownInv ==
  ASSUME IInv, NEW h \in Holder, h.who \in {"operator", "auto_load"}, Teardown(h)
  PROVE  IInv' /\ Carried
PROOF
<1>1. CalmLock
  BY DEF Teardown, Holder, CalmLock
<1> QED BY <1>1, LockInv DEF Teardown

LEMMA FreeInv ==
  ASSUME IInv, Free
  PROVE  IInv' /\ Carried
PROOF
<1>1. CalmLock
  BY DEF Free, Holder, Idle, Loads, CalmLock
<1> QED BY <1>1, LockInv DEF Free

LEMMA PressInv ==
  ASSUME IInv,
         \/ \E p \in Project, press \in Presses : PressLoad(p, press)
         \/ PressUnload
         \/ \E p \in Project : AutoCall(p)
  PROVE  IInv' /\ Carried
PROOF
<1>1. Idle \in Holder
  BY DEF Idle, Holder, Loads
<1>2. ASSUME NEW p \in Project, NEW press \in Presses, PressLoad(p, press)
      PROVE  IInv' /\ Carried
  <2>1. press \in Press
    BY BoundAssumption
  <2>2. CalmLock
    BY <1>2, <2>1 DEF CalmLock, PressLoad, Press, Idle, Holder, Loads
  <2> QED BY <1>2, <2>2, LockInv DEF PressLoad
<1>3. ASSUME PressUnload PROVE IInv' /\ Carried
  <2> DEFINE h == [Idle EXCEPT !.who = "operator", !.kind = "unload"]
  <2>1. h \in Holder /\ h.who \in {"operator", "auto_load"}
    BY DEF Idle, Holder, Loads
  <2>2. Teardown(h) \/ Send(h)
    BY <1>3 DEF PressUnload
  <2> HIDE DEF h
  <2> QED BY <2>1, <2>2, TeardownInv, SendInv
<1>4. ASSUME NEW p \in Project, AutoCall(p) PROVE IInv' /\ Carried
  <2>1. CalmLock
    BY <1>4 DEF CalmLock, AutoCall, Idle, Holder, Loads
  <2> QED BY <1>4, <2>1, LockInv DEF AutoCall
<1> QED BY <1>2, <1>3, <1>4

LEMMA HolderInv ==
  ASSUME IInv, HolderStep
  PROVE  IInv' /\ Carried
PROOF
<1>1. lock \in Holder
  BY DEF IInv, OpsTypeOK
<1>2. ASSUME LoadListed PROVE IInv' /\ Carried
  <2>1. CASE Free
    BY <2>1, FreeInv
  <2>2. CASE lock' = [lock EXCEPT !.at = "check"] /\ UNCHANGED <<cache, editor, ops, cur>>
    <3>1. CalmLock
      BY <1>1, <1>2, <2>2 DEF Holder, CalmLock, LoadListed
    <3> QED BY <2>2, <3>1, LockInv
  <2> QED BY <1>2, <2>1, <2>2 DEF LoadListed
<1>3. ASSUME LoadUnlisted PROVE IInv' /\ Carried
  BY <1>3, FreeInv DEF LoadUnlisted
<1>4. ASSUME TornDown PROVE IInv' /\ Carried
  <2>1. lock.who \in {"operator", "auto_load"} /\ (Send(lock) \/ Free)
    BY <1>4 DEF TornDown, IInv, HeldBySomeone
  <2> QED BY <1>1, <2>1, SendInv, FreeInv
<1>5. ASSUME AutoListed PROVE IInv' /\ Carried
  <2>1. lock.who \in {"operator", "auto_load"} /\ (Send(lock) \/ Free)
    BY <1>5 DEF AutoListed
  <2> QED BY <1>1, <2>1, SendInv, FreeInv
<1>6. ASSUME Sent PROVE IInv' /\ Carried
  BY <1>6, InstallInv
<1>7. ASSUME NotSent PROVE IInv' /\ Carried
  <2> DEFINE new == [ops[Newest] EXCEPT !.request = IF @ = "open" THEN "withdrawn" ELSE @]
  <2>1. Newest \in DOMAIN ops /\ ops[Newest] \in Op /\ Ages(ops[Newest], ops[Newest])
        /\ ~ops[Newest].installed
    BY <1>7, OpsAreOps, AgesSelf DEF NotSent, IInv, SendsNewest, OpsTypeOK
  <2>2. ~ops[Newest].watched
    BY <2>1 DEF IInv, LifeOK
  <2>3. Ages(ops[Newest], new)
    BY <2>1, <2>2 DEF Ages, Op, Carries, Consistent, Loading
  <2>4. ops' = [ops EXCEPT ![Newest] = new]
    BY <1>7 DEF NotSent
  <2> HIDE DEF new
  <2>5. CalmLock /\ UNCHANGED <<cache, editor, cur>>
    BY <1>7 DEF NotSent, CalmLock, Idle, Holder, Loads
  <2>6. editor' \in {"down", "up", "closing"}
    BY <2>5 DEF IInv, OpsTypeOK
  <2> QED BY <2>1, <2>3, <2>4, <2>5, <2>6, OneAges
<1>8. ASSUME NEW off \in BOOLEAN, NodesChecked(off) PROVE IInv' /\ Carried
  <2> DEFINE h == [lock EXCEPT !.force = off]
  <2>1. h \in Holder /\ h.who \in {"operator", "auto_load"}
    BY <1>1, <1>8 DEF NodesChecked, Holder, IInv, HeldBySomeone
  <2>2. Free \/ Teardown(h) \/ Send(h)
    BY <1>8 DEF NodesChecked
  <2> HIDE DEF h
  <2> QED BY <2>1, <2>2, TeardownInv, SendInv, FreeInv
<1> QED BY <1>2, <1>3, <1>4, <1>5, <1>6, <1>7, <1>8 DEF HolderStep

LEMMA EngineInv ==
  ASSUME IInv, EngineStep
  PROVE  IInv' /\ Carried
PROOF
<1>1. cache \in Cache /\ editor \in {"down", "up", "closing"} /\ ops = [i \in DOMAIN ops |-> ops[i]]
  BY DEF IInv, OpsTypeOK
<1>2. ASSUME EngineUp \/ EngineDrop PROVE IInv' /\ Carried
  <2>1. cache' \in Cache /\ UNCHANGED <<editor, ops, cur, lock>>
    <3>1. Connected(cache) \in Cache
      BY <1>1 DEF Connected, Cache
    <3>2. ColdCache \in Cache
      BY DEF ColdCache, Cache, Loads
    <3> QED BY <1>2, <3>1, <3>2 DEF EngineUp, EngineDrop
  <2>2. \A i \in DOMAIN ops : Ages(ops[i], ops'[i])
    BY <2>1, AgesSelf
  <2> QED BY <1>1, <2>1, <2>2, SameLock, AgedInv
<1>3. ASSUME NEW f \in Frames, EngineFrame(f) PROVE IInv' /\ Carried
  <2>1. f \in Frame
    BY BoundAssumption
  <2>2. cache' \in Cache /\ UNCHANGED <<editor, cur, lock>>
    BY <1>1, <1>3, <2>1, ApplyStatusType DEF EngineFrame
  <2>3. ops' = [i \in DOMAIN ops |->
                 IF IsNext(i) \/ i = cur THEN OnStatus(cache', ops[i], f) ELSE ops[i]]
    BY <1>3 DEF EngineFrame
  <2>4. \A i \in DOMAIN ops : Ages(ops[i], ops'[i])
    <3> TAKE i \in DOMAIN ops
    <3>1. ops[i] \in Op /\ Consistent(ops[i]) /\ Ages(ops[i], ops[i])
      BY OpsAreOps, AgesSelf DEF IInv, LifeOK
    <3>2. Evolves(ops[i], OnStatus(cache', ops[i], f))
          /\ KeepsRequest(ops[i], OnStatus(cache', ops[i], f))
      BY <2>1, <2>2, <3>1, OnStatusEvolves
    <3>3. Ages(ops[i], OnStatus(cache', ops[i], f))
      BY <3>2, EvolvesAges
    <3> QED BY <2>3, <3>1, <3>3
  <2>5. ops' = [i \in DOMAIN ops |-> ops'[i]] /\ editor' \in {"down", "up", "closing"}
    BY <1>1, <2>2, <2>3
  <2> QED BY <2>2, <2>4, <2>5, SameLock, AgedInv
<1> QED BY <1>2, <1>3 DEF EngineStep

LEMMA EditorInv ==
  ASSUME IInv, EditorUp \/ EditorCloses \/ EditorGone
  PROVE  IInv' /\ Carried
PROOF
<1>1. cache' = cache /\ cache \in Cache /\ editor' \in {"down", "up", "closing"} /\ cur' = cur
      /\ lock' = lock /\ ops = [i \in DOMAIN ops |-> ops[i]]
  BY DEF IInv, OpsTypeOK, EditorUp, EditorCloses, EditorGone
<1>2. CASE EditorUp \/ EditorCloses
  <2>1. ops' = ops
    BY <1>2 DEF EditorUp, EditorCloses
  <2> QED BY <1>1, <2>1, AgesSelf, SameLock, AgedInv
<1>3. CASE EditorGone
  <2>1. ops' = [i \in DOMAIN ops |->
                 IF IsOpen(i) THEN Resolved(ops[i], "lost", i = cur) ELSE ops[i]]
    BY <1>3 DEF EditorGone
  <2>2. \A i \in DOMAIN ops : Ages(ops[i], ops'[i])
    <3> TAKE i \in DOMAIN ops
    <3>1. ops[i] \in Op /\ Consistent(ops[i]) /\ Ages(ops[i], ops[i]) /\ (i = cur) \in BOOLEAN
      BY OpsAreOps, AgesSelf DEF IInv, LifeOK
    <3>2. /\ Evolves(ops[i], Resolved(ops[i], "lost", i = cur))
          /\ Resolved(ops[i], "lost", i = cur).request = "lost"
          /\ ~Resolved(ops[i], "lost", i = cur).watched
      BY <3>1, ResolvedEvolves
    <3>3. Ages(ops[i], Resolved(ops[i], "lost", i = cur))
      BY <3>2, EvolvesAges
    <3> QED BY <2>1, <3>1, <3>3
  <2>3. ops' = [i \in DOMAIN ops |-> ops'[i]]
    BY <2>1
  <2> QED BY <1>1, <2>2, <2>3, SameLock, AgedInv
<1> QED BY <1>2, <1>3

\* Dropping the watchdog.
LEMMA UnwatchedAges ==
  ASSUME NEW op \in Op, Ages(op, op)
  PROVE  Ages(op, [op EXCEPT !.watched = FALSE])
PROOF
<1> DEFINE new == [op EXCEPT !.watched = FALSE]
<1>1. new \in Op
  BY DEF Op
<1>2. /\ new.state = op.state /\ new.kind = op.kind /\ new.installed = op.installed
      /\ new.request = op.request /\ ~new.watched /\ new.waiter = op.waiter
      /\ new.source = op.source /\ new.project = op.project /\ new.accepted = op.accepted
      /\ new.reason = op.reason
  BY DEF Op
<1> HIDE DEF new
<1>3. Ages(op, new)
  BY <1>1, <1>2 DEF Ages, Carries, Consistent, Loading
<1> QED BY <1>3 DEF new

\* The end of an unload's coroutine.
LEMMA UnloadFinishAges ==
  ASSUME NEW op \in Op, Ages(op, op), Consistent(op),
         op.waiter # "none", op.installed, op.kind = "unload",
         NEW s \in {"failed", "unloaded"}, NEW r \in OpReason
  PROVE  Ages(op, [Finish(op, s, r) EXCEPT !.waiter = "none"])
PROOF
<1> DEFINE end == Finish(op, s, r)
           new == [end EXCEPT !.waiter = "none"]
<1>1. s \in OpState
  BY DEF OpState
<1>2. /\ end \in Op /\ end.kind = "unload" /\ end.installed
      /\ KeepsRequest(op, end)
      /\ end.state = IF op.state \in {"failed", "superseded"} THEN op.state ELSE s
      /\ end.source = op.source /\ end.project = op.project /\ end.accepted = op.accepted
      /\ end.reason = IF op.state \in {"failed", "superseded"} THEN op.reason ELSE r
  BY <1>1, FinishFacts
<1> HIDE DEF end
<1>3. new \in Op
  BY <1>2 DEF Op
<1>4. /\ new.state = end.state /\ new.kind = "unload" /\ new.installed
      /\ new.request = op.request /\ new.watched = op.watched /\ new.waiter = "none"
      /\ new.source = op.source /\ new.project = op.project /\ new.accepted = op.accepted
      /\ new.reason = end.reason
  BY <1>2 DEF Op, KeepsRequest
<1> HIDE DEF new
<1>5. op.state # "unloaded"
  BY DEF Consistent
<1>6. op.watched => op.request = "open"
  BY DEF Ages
<1>7. Ages(op, new)
  BY <1>2, <1>3, <1>4, <1>5, <1>6 DEF Ages, Carries, Consistent, Loading
<1> QED BY <1>7 DEF new, end

LEMMA OpInv ==
  ASSUME IInv, NEW i \in DOMAIN ops, OpStep(i)
  PROVE  IInv' /\ Carried
PROOF
<1>1. /\ ops[i] \in Op /\ Consistent(ops[i]) /\ Ages(ops[i], ops[i])
      /\ (i = cur) \in BOOLEAN /\ editor \in {"down", "up", "closing"}
  BY OpsAreOps, AgesSelf DEF IInv, LifeOK, OpsTypeOK
<1>2. ASSUME NEW kind \in {"ok", "error", "timeout"}, EditorReplies(i, kind)
      PROVE  IInv' /\ Carried
  <2>1. /\ Evolves(ops[i], Resolved(ops[i], kind, i = cur))
        /\ Resolved(ops[i], kind, i = cur).request = kind
        /\ ~Resolved(ops[i], kind, i = cur).watched
    BY <1>1, ResolvedEvolves
  <2>2. Ages(ops[i], Resolved(ops[i], kind, i = cur))
    BY <2>1, EvolvesAges
  <2> QED BY <1>1, <1>2, <2>2, SameLock, OneAges DEF EditorReplies
<1>3. ASSUME GraceOver(i) PROVE IInv' /\ Carried
  <2>1. Ages(ops[i], OnGraceOver(ops[i], i = cur))
    BY <1>1, OnGraceOverEvolves, EvolvesAges
  <2> QED BY <1>1, <1>3, <2>1, SameLock, OneAges DEF GraceOver
<1>4. ASSUME Budget(i) PROVE IInv' /\ Carried
  <2> DEFINE new == [ops[i] EXCEPT !.overdue = TRUE]
  <2>1. Ages(ops[i], new)
    <3>1. new \in Op
      BY <1>1 DEF Op
    <3>2. /\ new.state = ops[i].state /\ new.kind = ops[i].kind
          /\ new.installed = ops[i].installed /\ new.request = ops[i].request
          /\ new.watched = ops[i].watched /\ new.waiter = ops[i].waiter
          /\ new.source = ops[i].source /\ new.project = ops[i].project
          /\ new.accepted = ops[i].accepted /\ new.reason = ops[i].reason
      BY <1>1 DEF Op
    <3> HIDE DEF new
    <3> QED BY <1>1, <3>1, <3>2 DEF Ages, Carries, Consistent, Loading
  <2>2. ops' = [ops EXCEPT ![i] = new] /\ UNCHANGED <<cache, editor, cur, lock>>
    BY <1>4 DEF Budget
  <2> QED BY <1>1, <2>1, <2>2, SameLock, OneAges
<1>5. ASSUME Watchdog(i) PROVE IInv' /\ Carried
  <2> DEFINE new == [ops[i] EXCEPT !.watched = FALSE]
  <2>1. Ages(ops[i], new)
    BY <1>1, UnwatchedAges
  <2>2. ops' = [ops EXCEPT ![i] = new] /\ UNCHANGED <<cache, cur, lock>>
        /\ editor' \in {"down", "up", "closing"}
    BY <1>1, <1>5 DEF Watchdog
  <2> QED BY <2>1, <2>2, SameLock, OneAges
<1>6. ASSUME UnloadAnswered(i) \/ UnloadTimesOut(i) \/ UnloadConfirmed(i)
      PROVE  IInv' /\ Carried
  <2>1. ops[i].waiter # "none" /\ UNCHANGED <<cache, editor, cur, lock>>
    BY <1>6 DEF UnloadAnswered, UnloadTimesOut, UnloadConfirmed
  <2>2. ops[i].installed /\ ops[i].kind = "unload"
    BY <2>1 DEF IInv, LifeOK
  <2>3. CASE \E s \in {"failed", "unloaded"}, r \in OpReason : UnloadFinish(i, s, r)
    <3> PICK s \in {"failed", "unloaded"}, r \in OpReason : UnloadFinish(i, s, r)
      BY <2>3
    <3>1. Ages(ops[i], [Finish(ops[i], s, r) EXCEPT !.waiter = "none"])
      BY <1>1, <2>1, <2>2, UnloadFinishAges
    <3>2. ops' = [ops EXCEPT ![i] = [Finish(ops[i], s, r) EXCEPT !.waiter = "none"]]
      BY DEF UnloadFinish
    <3> QED BY <1>1, <2>1, <3>1, <3>2, SameLock, OneAges
  <2>4. CASE ops' = [ops EXCEPT ![i].waiter = "confirm"]
    <3> DEFINE new == [ops[i] EXCEPT !.waiter = "confirm"]
    <3>1. new \in Op
      BY <1>1 DEF Op
    <3>2. /\ new.state = ops[i].state /\ new.kind = ops[i].kind
          /\ new.installed = ops[i].installed /\ new.request = ops[i].request
          /\ new.watched = ops[i].watched
          /\ new.source = ops[i].source /\ new.project = ops[i].project
          /\ new.accepted = ops[i].accepted /\ new.reason = ops[i].reason
      BY <1>1 DEF Op
    <3>3. ops' = [ops EXCEPT ![i] = new]
      BY <2>4
    <3> HIDE DEF new
    <3>4. Ages(ops[i], new)
      BY <1>1, <2>1, <2>2, <3>1, <3>2 DEF Ages, Carries, Consistent, Loading
    <3> QED BY <1>1, <2>1, <3>3, <3>4, SameLock, OneAges
  <2>5. \/ \E s \in {"failed", "unloaded"}, r \in OpReason : UnloadFinish(i, s, r)
        \/ ops' = [ops EXCEPT ![i].waiter = "confirm"]
    BY <1>6 DEF UnloadAnswered, UnloadTimesOut, UnloadConfirmed, OpReason
  <2> QED BY <2>3, <2>4, <2>5
<1> QED BY <1>2, <1>3, <1>4, <1>5, <1>6 DEF OpStep

LEMMA AbortInv ==
  ASSUME IInv, Abort
  PROVE  IInv' /\ Carried
PROOF
<1> DEFINE off(i) == [ops[i] EXCEPT !.watched = FALSE]
           new(i) == IF i = cur /\ Loading(off(i)) THEN Finish(off(i), "failed", "shutdown") ELSE off(i)
<1>1. cache' = cache /\ cache \in Cache /\ editor' \in {"down", "up", "closing"} /\ cur' = cur
      /\ lock' = lock /\ ops' = [i \in DOMAIN ops |-> new(i)]
  BY DEF IInv, OpsTypeOK, Abort
<1>2. \A i \in DOMAIN ops : Ages(ops[i], new(i))
  <2> TAKE i \in DOMAIN ops
  <2>1. ops[i] \in Op /\ Ages(ops[i], ops[i])
    BY OpsAreOps, AgesSelf DEF IInv
  <2>2. Ages(ops[i], off(i))
    BY <2>1, UnwatchedAges
  <2>3. /\ off(i) \in Op /\ ~off(i).watched
        /\ off(i).state = ops[i].state /\ off(i).reason = ops[i].reason
    BY <2>1 DEF Op
  <2> HIDE DEF off
  <2>4. CASE i = cur /\ Loading(off(i))
    <3>1. "shutdown" \in OpReason
      BY DEF OpReason
    <3>3. Consistent(off(i))
      BY <2>2 DEF Ages
    <3>2. Evolves(off(i), new(i)) /\ KeepsRequest(off(i), new(i))
      BY <2>3, <2>4, <3>1, <3>3, FailEvolves
    <3> HIDE DEF new
    <3> QED BY <2>2, <2>3, <3>2 DEF Evolves, KeepsRequest, Ages, Carries
  <2>5. CASE ~(i = cur /\ Loading(off(i)))
    BY <2>2, <2>5
  <2> QED BY <2>4, <2>5
<1> HIDE DEF new
<1>3. ops' = [i \in DOMAIN ops |-> ops'[i]] /\ \A i \in DOMAIN ops : Ages(ops[i], ops'[i])
  BY <1>1, <1>2
<1> QED BY <1>1, <1>3, SameLock, AgedInv

LEMMA InitInv == OpsInit => IInv
PROOF
<1> SUFFICES ASSUME OpsInit PROVE IInv
  OBVIOUS
<1>1. ops = <<>> /\ cur = 0 /\ lock = Idle /\ editor = "down" /\ cache = ColdCache
  BY DEF OpsInit
<1>2. ColdCache \in Cache /\ Idle \in Holder
  BY DEF ColdCache, Cache, Idle, Holder, Loads
<1>3. ops \in Seq(Op) /\ Len(ops) = 0 /\ DOMAIN ops = {}
  BY <1>1
<1>4. OpsTypeOK
  BY <1>1, <1>2, <1>3 DEF OpsTypeOK
<1>5. LifeOK /\ SlotIsNewest /\ OneTracked /\ WatchdogIsNewest
  BY <1>3 DEF LifeOK, SlotIsNewest, OneTracked, WatchdogIsNewest
<1>6. SendsNewest /\ HeldBySomeone
  BY <1>1 DEF SendsNewest, HeldBySomeone, Idle
<1> QED BY <1>4, <1>5, <1>6 DEF IInv

LEMMA StepInv == IInv /\ [OpsNext]_opsVars => IInv' /\ Carried
PROOF
<1> SUFFICES ASSUME IInv, [OpsNext]_opsVars PROVE IInv' /\ Carried
  OBVIOUS
<1>1. CASE UNCHANGED opsVars
  BY <1>1, SameLock, LockInv DEF opsVars
<1>2. CASE OpsNext
  BY <1>2, PressInv, HolderInv, EngineInv, EditorInv, OpInv, AbortInv DEF OpsNext
<1> QED BY <1>1, <1>2

----------------------------------------------------------------------------
\* What has not been sent yet has not failed at the editor and has no timer.
FreshOp(op) == ~op.overdue /\ ~op.graceful /\ op.reason \in {"none", "project_running"}

Unsent == lock.at = "send" => FreshOp(ops[Newest])

\* An engine frame, or a reply to a request still being sent.
LEMMA StaysFresh ==
  ASSUME NEW op \in Op, FreshOp(op)
  PROVE  /\ \A c, f : FreshOp(OnStatus(c, op, f))
         /\ ~op.installed => \A how, current : FreshOp(Resolved(op, how, current))
PROOF
<1>1. ASSUME NEW new \in Op, FreshOp(new), NEW st, NEW why \in {"none", "project_running"}
      PROVE  FreshOp(Finish(new, st, why))
  BY <1>1 DEF Finish, FreshOp, Op
<1>2. ASSUME NEW new \in Op, FreshOp(new), NEW c PROVE FreshOp(Evaluate(c, new))
  <2> DEFINE named == [new EXCEPT !.unix = c.load, !.accepted = TRUE]
             st == IF Degraded(c, named) THEN "degraded" ELSE "armed"
             fin == [named EXCEPT !.state = st, !.reason = "none", !.graceful = FALSE]
  <2>1. FreshOp(named)
    BY <1>2 DEF FreshOp, Op
  <2>2. FreshOp(fin)
    BY <1>2 DEF FreshOp, Op
  <2>3. Evaluate(c, new) \in {new, named, fin}
    BY DEF Evaluate, Finish
  <2> HIDE DEF named, fin
  <2> QED BY <1>2, <2>1, <2>2, <2>3
<1>3. ASSUME NEW c, NEW f PROVE FreshOp(OnStatus(c, op, f))
  <2> DEFINE heard == [op EXCEPT
               !.notArmed = @ \/ (f.key = "armed" /\ f.value # "yes" /\ ~op.accepted),
               !.loadSeen = @ \/ f.key = "load"]
  <2>1. heard \in Op /\ FreshOp(heard)
    BY DEF FreshOp, Op
  <2>2. OnStatus(c, op, f) \in {op, Finish(op, "failed", "project_running"), Evaluate(c, heard)}
    BY DEF OnStatus
  <2> HIDE DEF heard
  <2> QED BY <1>1, <1>2, <2>1, <2>2
<1>4. ASSUME ~op.installed, NEW how, NEW current PROVE FreshOp(Resolved(op, how, current))
  <2> DEFINE done == [op EXCEPT !.request = how, !.watched = FALSE]
  <2>1. FreshOp(done) /\ ~done.installed
    BY <1>4 DEF FreshOp, Op
  <2> HIDE DEF done
  <2> QED BY <2>1 DEF Resolved, done
<1> QED BY <1>3, <1>4

LEMMA RangesDiffer ==
  ASSUME NEW m \in Nat, NEW n \in Nat, 1..m = 1..n
  PROVE  m = n
PROOF
<1>1. \A k \in Nat \ {0} : k \in 1..k /\ (k + 1) \notin 1..k
  OBVIOUS
<1>2. m # 0 => m <= n
  BY <1>1
<1>3. n # 0 => n <= m
  BY <1>1
<1> QED BY <1>2, <1>3

LEMMA NewestKept ==
  ASSUME OpsTypeOK, OpsTypeOK', DOMAIN ops' = DOMAIN ops
  PROVE  Newest' = Newest
PROOF
<1>1. Newest \in Nat /\ Newest' \in Nat /\ DOMAIN ops = 1..Newest /\ DOMAIN ops' = 1..Newest'
  BY OpsAreOps DEF OpsTypeOK, Newest
<1> HIDE DEF Newest
<1> QED BY <1>1, RangesDiffer

LEMMA UnsentStep ==
  ASSUME IInv, Unsent, [OpsNext]_opsVars
  PROVE  Unsent'
PROOF
<1> SUFFICES ASSUME lock'.at = "send" PROVE FreshOp(ops'[Newest'])
  BY DEF Unsent
<1>1. /\ OpsTypeOK /\ OpsTypeOK' /\ ops \in Seq(Op) /\ Newest \in Nat /\ lock \in Holder
      /\ ops = [i \in DOMAIN ops |-> ops[i]] /\ DOMAIN ops = 1..Newest
  BY StepInv, OpsAreOps DEF IInv, OpsTypeOK
<1>2. ASSUME NEW h \in Holder, Send(h) \/ Teardown(h) \/ Free PROVE FreshOp(ops'[Newest'])
  <2>1. Send(h)
    BY <1>2 DEF Teardown, Free, Idle, Holder
  <2>2. PICK unix : ops' = Append(ops, NewOp(h.kind, h.who, h.project, unix, h.force))
    BY <2>1 DEF Send
  <2> DEFINE new == NewOp(h.kind, h.who, h.project, unix, h.force)
  <2>3. FreshOp(new)
    BY DEF NewOp, FreshOp
  <2> HIDE DEF new
  <2>4. ops'[Newest'] = new
    BY <1>1, <2>2 DEF new, Newest
  <2> QED BY <2>3, <2>4
<1>3. ASSUME lock.at = "send"
      PROVE  /\ Newest \in DOMAIN ops /\ ops[Newest] \in Op /\ FreshOp(ops[Newest])
             /\ ~ops[Newest].installed /\ ops[Newest].waiter = "none"
             /\ ~ops[Newest].watched /\ Newest # cur
  <2>1. cur < Newest /\ ~ops[Newest].installed /\ cur \in Nat
    BY <1>1, <1>3 DEF IInv, SendsNewest, OpsTypeOK
  <2>2. Newest \in DOMAIN ops
    BY <1>1, <2>1
  <2> QED BY <1>1, <1>3, <2>1, <2>2, OpsAreOps DEF IInv, LifeOK, Unsent
<1>4. ASSUME lock' = lock, DOMAIN ops' = DOMAIN ops, FreshOp(ops'[Newest])
      PROVE  FreshOp(ops'[Newest'])
  BY <1>1, <1>4, NewestKept
<1>5. CASE UNCHANGED opsVars \/ EngineUp \/ EngineDrop \/ EditorUp \/ EditorCloses
  <2>1. lock' = lock /\ ops' = ops
    BY <1>5 DEF opsVars, EngineUp, EngineDrop, EditorUp, EditorCloses
  <2> QED BY <1>3, <1>4, <2>1
<1>6. CASE PressUnload \/ (\E p \in Project : AutoCall(p))
           \/ \E p \in Project, press \in Presses : PressLoad(p, press)
  <2> DEFINE h == [Idle EXCEPT !.who = "operator", !.kind = "unload"]
  <2>1. h \in Holder
    BY DEF Idle, Holder, Loads
  <2>2. Send(h) \/ Teardown(h)
    BY <1>6 DEF PressUnload, AutoCall, PressLoad, Idle
  <2> HIDE DEF h
  <2> QED BY <1>2, <2>1, <2>2
<1>7. CASE HolderStep
  <2>1. CASE LoadListed \/ LoadUnlisted \/ Sent \/ NotSent
    <3>1. lock' = Idle \/ lock' = [lock EXCEPT !.at = "check"]
      BY <2>1 DEF LoadListed, LoadUnlisted, Free, Sent, Install, NotSent
    <3> QED BY <1>1, <3>1 DEF Idle, Holder
  <2>2. CASE TornDown \/ AutoListed
    BY <1>1, <1>2, <2>2 DEF TornDown, AutoListed
  <2>3. ASSUME NEW off \in BOOLEAN, NodesChecked(off) PROVE FreshOp(ops'[Newest'])
    <3> DEFINE h == [lock EXCEPT !.force = off]
    <3>1. h \in Holder
      BY <1>1 DEF Holder
    <3>2. Free \/ Teardown(h) \/ Send(h)
      BY <2>3 DEF NodesChecked
    <3> HIDE DEF h
    <3> QED BY <1>2, <3>1, <3>2
  <2> QED BY <1>7, <2>1, <2>2, <2>3 DEF HolderStep
<1>8. CASE (\E f \in Frames : EngineFrame(f)) \/ EditorGone \/ Abort
  <2>1. lock' = lock /\ DOMAIN ops' = DOMAIN ops
    BY <1>8 DEF EngineFrame, EditorGone, Abort
  <2>2. Newest \in DOMAIN ops /\ ops[Newest] \in Op /\ FreshOp(ops[Newest])
        /\ ~ops[Newest].installed /\ Newest # cur
    BY <1>3, <2>1
  <2>3. ASSUME NEW f \in Frames, EngineFrame(f) PROVE FreshOp(ops'[Newest])
    <3>1. ops'[Newest] \in {ops[Newest], OnStatus(cache', ops[Newest], f)}
      BY <2>2, <2>3 DEF EngineFrame
    <3> QED BY <2>2, <3>1, StaysFresh
  <2>4. ASSUME EditorGone PROVE FreshOp(ops'[Newest])
    <3>1. \E current : ops'[Newest] \in {ops[Newest], Resolved(ops[Newest], "lost", current)}
      <4>1. ops'[Newest] = IF IsOpen(Newest) THEN Resolved(ops[Newest], "lost", Newest = cur)
                                             ELSE ops[Newest]
        BY <2>2, <2>4 DEF EditorGone
      <4> QED BY <4>1
    <3> QED BY <2>2, <3>1, StaysFresh
  <2>5. ASSUME Abort PROVE FreshOp(ops'[Newest])
    <3> DEFINE new == [ops[Newest] EXCEPT !.watched = FALSE]
    <3>1. ops'[Newest] = new
      BY <2>2, <2>5 DEF Abort
    <3>2. FreshOp(new)
      BY <2>2 DEF FreshOp, Op
    <3> HIDE DEF new
    <3> QED BY <3>1, <3>2
  <2> QED BY <1>4, <1>8, <2>1, <2>3, <2>4, <2>5
<1>9. ASSUME NEW i \in DOMAIN ops, OpStep(i) PROVE FreshOp(ops'[Newest'])
  <2>1. lock' = lock /\ DOMAIN ops' = DOMAIN ops
    BY <1>1, <1>9 DEF OpStep, EditorReplies, GraceOver, Budget, Watchdog, UnloadAnswered,
                 UnloadTimesOut, UnloadConfirmed, UnloadFinish
  <2>2. Newest \in DOMAIN ops /\ ops[Newest] \in Op /\ FreshOp(ops[Newest])
        /\ ~ops[Newest].installed /\ ops[Newest].waiter = "none" /\ ~ops[Newest].watched
    BY <1>3, <2>1
  <2>3. \/ ops'[Newest] = ops[Newest]
        \/ \E kind : ops'[Newest] = Resolved(ops[Newest], kind, Newest = cur)
    <3>1. CASE \E kind \in {"ok", "error", "timeout"} : EditorReplies(i, kind)
      BY <2>2, <3>1 DEF EditorReplies
    <3>2. CASE GraceOver(i) \/ Budget(i) \/ Watchdog(i) \/ UnloadAnswered(i)
               \/ UnloadTimesOut(i) \/ UnloadConfirmed(i)
      <4>1. i # Newest
        BY <2>2, <3>2 DEF GraceOver, Budget, Watchdog, UnloadAnswered, UnloadTimesOut,
                     UnloadConfirmed, FreshOp
      <4>2. \E new : ops' = [ops EXCEPT ![i] = new]
        BY <3>2 DEF GraceOver, Budget, Watchdog, UnloadAnswered, UnloadTimesOut,
                    UnloadConfirmed, UnloadFinish
      <4> QED BY <2>2, <4>1, <4>2
    <3> QED BY <1>9, <3>1, <3>2 DEF OpStep
  <2> QED BY <1>4, <2>1, <2>2, <2>3, StaysFresh
<1> QED BY <1>5, <1>6, <1>7, <1>8, <1>9 DEF OpsNext, EngineStep

\* The inductive invariant holds.
THEOREM Invariance == OpsSpec => []IInv
PROOF
<1> QED BY InitInv, StepInv, PTL DEF OpsSpec

\* Types, for any projects and any number of operations.
THEOREM TypeCorrect == OpsSpec => []OpsTypeOK
PROOF
<1>1. IInv => OpsTypeOK
  BY DEF IInv
<1> QED BY <1>1, Invariance, PTL

\* Only the newest operation can have an unanswered request at the editor, so an
\* older load never overtakes a later one (project_ops.py:12-17).
THEOREM SlotInOrder == OpsSpec => []SlotIsNewest
PROOF
<1>1. IInv => SlotIsNewest
  BY DEF IInv
<1> QED BY <1>1, Invariance, PTL

\* At most one installed operation is loading, and it is self.op (_install).
THEOREM OneIsTracked == OpsSpec => []OneTracked
PROOF
<1>1. IInv => OneTracked
  BY DEF IInv
<1> QED BY <1>1, Invariance, PTL

\* A slot watchdog only ever closes the socket on the newest request, while that
\* is unanswered (_slot_watchdog).
THEOREM WatchdogOnNewest == OpsSpec => []WatchdogIsNewest
PROOF
<1>1. IInv => WatchdogIsNewest
  BY DEF IInv
<1> QED BY <1>1, Invariance, PTL

\* failed, superseded and unloaded are final (_finish).
THEOREM EndsAreFinal == OpsSpec => EndsStay
PROOF
<1>1. IInv /\ [OpsNext]_opsVars =>
        [\A i \in DOMAIN ops : ops[i].state \in {"failed", "superseded", "unloaded"}
           => ops'[i].state = ops[i].state]_opsVars
  BY StepInv DEF Carried, Carries
<1> QED BY <1>1, Invariance, PTL DEF OpsSpec, EndsStay

\* ------------------- the bridge ------------------------------------------

\* There is a loop only if a project is configured.
LoopConfigured == loop \in LoopTask /\ (Running(loop) => AutoProject # NoProject)

\* Only an operator's coroutine checks nodes and tears down.
OperatorTearsDown == lock.at \in {"check", "teardown"} => lock.who = "operator"

LoopInv == LoopConfigured /\ OperatorTearsDown /\ CallHoldsLock

\* The inductive invariant.
BInv == IInv /\ LoopInv

\* What a step of the bridge has to do.
Good == [OpsNext]_opsVars /\ LoopInv'

LEMMA LockTyped ==
  ASSUME BInv
  PROVE  /\ lock \in Holder /\ loop \in LoopTask /\ Newest \in Nat
         /\ Idle \in Holder /\ Idle.who = "none" /\ Idle.at = "idle"
         /\ lock.who = "none" => lock.at = "idle"
PROOF
  BY OpsAreOps DEF BInv, IInv, OpsTypeOK, HeldBySomeone, LoopInv, LoopConfigured, Idle, Holder, Loads

LEMMA MovedTyped ==
  ASSUME NEW l \in LoopTask, NEW n \in Nat,
         NEW at \in {"none", "sleep", "attempt", "call", "await", "cancelling", "ended"}
  PROVE  [l EXCEPT !.at = at, !.op = n] \in LoopTask /\ [l EXCEPT !.at = at, !.op = n].at = at
PROOF
  BY DEF LoopTask

LEMMA RestartedFacts ==
  ASSUME BInv, NEW a, NEW last
  PROVE  /\ Restarted(a, last) \in LoopTask
         /\ Restarted(a, last) = loop
            \/ (~Running(loop) /\ AutoProject # NoProject /\ Restarted(a, last).at = "sleep")
PROOF
<1>1. FreshLoop \in LoopTask /\ FreshLoop.at = "sleep"
  BY DEF FreshLoop, LoopTask
<1> QED BY <1>1, LockTyped DEF Restarted

\* A step that leaves the lock alone may restart a loop.
LEMMA KeptLock ==
  ASSUME BInv, lock' = lock,
         \/ loop' = loop
         \/ \E a, last : loop' = Restarted(a, last)
  PROVE  LoopInv'
PROOF
<1>1. loop' \in LoopTask
      /\ (loop' = loop \/ (~Running(loop) /\ AutoProject # NoProject /\ loop'.at = "sleep"))
  BY LockTyped, RestartedFacts
<1> QED BY <1>1 DEF BInv, LoopInv, LoopConfigured, OperatorTearsDown, CallHoldsLock, Running

LEMMA TerminalGood ==
  ASSUME BInv, NEW a, TerminalLoop(a), lock' = lock
  PROVE  LoopInv'
PROOF
  BY KeptLock DEF TerminalLoop

\* A step that moves the loop's task, from where it is to where it may be.
LEMMA MovedLoop ==
  ASSUME BInv, lock' = lock, loop.at # "call",
         NEW at \in {"none", "sleep", "attempt", "await", "cancelling", "ended"},
         Running(loop) \/ ~Running([loop EXCEPT !.at = at]),
         NEW n \in Nat,
         loop' \in {[loop EXCEPT !.at = at], [loop EXCEPT !.at = at, !.op = n]}
  PROVE  LoopInv'
PROOF
<1>1. loop' \in LoopTask /\ loop'.at = at
  BY LockTyped DEF LoopTask
<1>2. Running([loop EXCEPT !.at = at]) <=> Running(loop')
  BY <1>1, LockTyped DEF Running, LoopTask
<1> QED BY <1>1, <1>2 DEF BInv, LoopInv, LoopConfigured, OperatorTearsDown, CallHoldsLock

\* A step of an operator's coroutine, which holds the lock before or after it.
LEMMA OperatorMoves ==
  ASSUME BInv, lock.who # "auto_load", lock'.who # "auto_load",
         lock'.at \in {"check", "teardown"} => lock'.who = "operator",
         loop' \in LoopTask, loop'.at # "call",
         Running(loop') => Running(loop) \/ AutoProject # NoProject
  PROVE  LoopInv'
PROOF
  BY DEF BInv, LoopInv, LoopConfigured, OperatorTearsDown, CallHoldsLock

LEMMA OperatorLock ==
  ASSUME BInv, NEW h \in Holder, h.who = "operator", Teardown(h) \/ Send(h) \/ Free
  PROVE  /\ lock'.who # "auto_load"
         /\ lock'.at \in {"check", "teardown"} => lock'.who = "operator"
PROOF
  BY DEF Teardown, Send, Free, Holder, Idle

\* Whatever the operator's block or its teardown makes of the loop.
LEMMA ProceedGood ==
  ASSUME BInv, lock.who # "auto_load", NEW h \in Holder, h.who = "operator",
         \/ Proceed(h)
         \/ CancelLoop(h) /\ LoopLive
         \/ Block(h, FALSE)
  PROVE  (Teardown(h) \/ Send(h) \/ Free) /\ LoopInv'
PROOF
<1>1. loop \in LoopTask /\ loop.at # "call"
  BY LockTyped DEF BInv, LoopInv, CallHoldsLock
<1>2. CASE CancelLoop(h) /\ LoopLive
  <2>1. Teardown(h) /\ loop' = [loop EXCEPT !.at = "cancelling"] /\ Running(loop)
    BY <1>2 DEF CancelLoop, LoopLive
  <2>2. loop' \in LoopTask /\ loop'.at = "cancelling"
    BY <1>1, <2>1 DEF LoopTask
  <2> QED BY <2>1, <2>2, OperatorLock, OperatorMoves
<1>3. CASE Block(h, FALSE)
  <2>1. (Send(h) \/ Free) /\ loop' = loop
    BY <1>3 DEF Block
  <2> QED BY <1>1, <2>1, OperatorLock, OperatorMoves
<1>4. CASE CancelPlay(h)
  <2>1. Teardown(h) /\ loop' = loop
    BY <1>4 DEF CancelPlay
  <2> QED BY <1>1, <2>1, OperatorLock, OperatorMoves
<1> QED BY <1>2, <1>3, <1>4 DEF Proceed

LEMMA LoopGood ==
  ASSUME BInv, Tick \/ Attempt \/ AutoCalled \/ AutoSent \/ Awaited \/ LoopUnwinds
  PROVE  Good
PROOF
<1>1. ASSUME Tick PROVE Good
  <2>1. UNCHANGED opsVars /\ loop.at = "sleep"
        /\ loop' \in {[loop EXCEPT !.at = "ended"], [loop EXCEPT !.at = "attempt"]}
    BY <1>1 DEF Tick
  <2>2. Running(loop) /\ lock' = lock
    BY <2>1 DEF Running, opsVars
  <2>3. LoopInv'
    BY <2>1, <2>2, MovedLoop
  <2> QED BY <2>1, <2>3 DEF Good
<1>2. ASSUME Awaited PROVE Good
  <2>1. UNCHANGED opsVars /\ loop.at = "await"
        /\ loop' = [loop EXCEPT !.at = "sleep", !.op = 0]
    BY <1>2 DEF Awaited, Skip
  <2>2. Running(loop) /\ lock' = lock /\ 0 \in Nat
    BY <2>1 DEF Running, opsVars
  <2>3. LoopInv'
    BY <2>1, <2>2, MovedLoop
  <2> QED BY <2>1, <2>3 DEF Good
<1>3. ASSUME LoopUnwinds PROVE Good
  <2>1. UNCHANGED opsVars /\ loop.at = "cancelling"
        /\ loop' = [loop EXCEPT !.at = "ended", !.op = 0]
    BY <1>3 DEF LoopUnwinds
  <2>2. Running(loop) /\ lock' = lock /\ 0 \in Nat
    BY <2>1 DEF Running, opsVars
  <2>3. LoopInv'
    BY <2>1, <2>2, MovedLoop
  <2> QED BY <2>1, <2>3 DEF Good
<1>4. ASSUME Attempt PROVE Good
  <2>1. loop.at = "attempt" /\ Running(loop) /\ lock.who # "auto_load"
    BY <1>4 DEF Attempt, Running, BInv, LoopInv, CallHoldsLock
  <2>2. CASE Skip /\ UNCHANGED opsVars
    <3>1. lock' = lock /\ 0 \in Nat
      BY <2>2 DEF opsVars
    <3>2. LoopInv'
      BY <2>1, <2>2, <3>1, MovedLoop DEF Skip
    <3> QED BY <2>2, <3>2 DEF Good
  <2>3. CASE AutoCall(AutoProject) /\ loop' = [loop EXCEPT !.at = "call"]
    <3>1. AutoProject \in Project /\ AutoProject # NoProject
      BY <2>1, ConfigAssumption DEF Loads, BInv, LoopInv, LoopConfigured
    <3>2. lock'.who = "auto_load" /\ lock'.at = "list"
      BY <2>3 DEF AutoCall, Idle
    <3>3. loop' \in LoopTask /\ loop'.at = "call"
      BY <2>3, LockTyped DEF LoopTask
    <3>4. LoopInv'
      BY <3>1, <3>2, <3>3 DEF LoopInv, LoopConfigured, OperatorTearsDown, CallHoldsLock
    <3>5. OpsNext
      BY <2>3, <3>1 DEF OpsNext
    <3> QED BY <3>4, <3>5 DEF Good
  <2> QED BY <1>4, <2>2, <2>3 DEF Attempt
<1>5. ASSUME AutoCalled PROVE Good
  <2>1. OpsNext /\ lock.who = "auto_load" /\ (Send(lock) \/ Free)
    BY <1>5 DEF AutoCalled, AutoListed, OpsNext, HolderStep
  <2>2. loop \in LoopTask /\ loop.at = "call" /\ AutoProject # NoProject /\ lock \in Holder
    BY <2>1, LockTyped DEF BInv, LoopInv, LoopConfigured, CallHoldsLock, Running
  <2>3. CASE lock' = Idle
    <3>1. loop' \in LoopTask /\ loop'.at = "sleep"
      <4>1. loop' = [loop EXCEPT !.at = "sleep", !.op = 0] /\ 0 \in Nat
        BY <1>5, <2>3 DEF AutoCalled, Skip
      <4> QED BY <2>2, <4>1, MovedTyped
    <3> QED BY <2>1, <2>2, <2>3, <3>1, LockTyped
            DEF Good, LoopInv, LoopConfigured, OperatorTearsDown, CallHoldsLock
  <2>4. CASE lock' # Idle
    <3>0. Send(lock)
      BY <2>1, <2>4 DEF Free
    <3>1. loop' = loop /\ lock'.who = "auto_load" /\ lock'.at = "send"
      <4>1. lock' = [lock EXCEPT !.at = "send"] /\ loop' = loop
        BY <1>5, <2>4, <3>0 DEF AutoCalled, Send
      <4> QED BY <2>1, <2>2, <4>1 DEF Holder
    <3> QED BY <2>1, <2>2, <3>1
            DEF Good, BInv, LoopInv, LoopConfigured, OperatorTearsDown, CallHoldsLock
  <2> QED BY <2>3, <2>4
<1>6. ASSUME AutoSent PROVE Good
  <2>1. OpsNext /\ lock.who = "auto_load" /\ lock' = Idle
    BY <1>6 DEF AutoSent, Sent, NotSent, Install, OpsNext, HolderStep
  <2>2. loop \in LoopTask /\ loop.at = "call" /\ AutoProject # NoProject /\ Newest \in Nat
    BY <2>1, LockTyped DEF BInv, LoopInv, LoopConfigured, CallHoldsLock, Running
  <2>3. loop' \in LoopTask /\ loop'.at \in {"await", "sleep"}
    <3>1. \/ loop' = [loop EXCEPT !.at = "await", !.op = Newest]
          \/ loop' = [loop EXCEPT !.at = "sleep", !.op = 0]
      BY <1>6 DEF AutoSent, Skip
    <3>2. CASE loop' = [loop EXCEPT !.at = "await", !.op = Newest]
      BY <2>2, <3>2, MovedTyped
    <3>3. CASE loop' = [loop EXCEPT !.at = "sleep", !.op = 0]
      <4>1. 0 \in Nat
        OBVIOUS
      <4> QED BY <2>2, <3>3, <4>1, MovedTyped
    <3> QED BY <3>1, <3>2, <3>3
  <2> QED BY <2>1, <2>2, <2>3, LockTyped
          DEF Good, LoopInv, LoopConfigured, OperatorTearsDown, CallHoldsLock
<1> QED BY <1>1, <1>2, <1>3, <1>4, <1>5, <1>6

LEMMA EventGood ==
  ASSUME BInv,
         \/ PlayPoll \/ PlayGivesUp \/ BridgeFrame \/ BridgeSocket
         \/ \E i \in DOMAIN ops : BridgeOpEvent(i) \/ BridgeUnloadEnds(i)
         \/ \E force \in BOOLEAN : ShutPress(force)
         \/ ShutNodesOff \/ ShutAbort \/ ShutEnds
  PROVE  Good
PROOF
<1>1. CASE \/ PlayPoll \/ PlayGivesUp \/ ShutEnds
           \/ \E force \in BOOLEAN : ShutPress(force)
  <2>1. UNCHANGED opsVars /\ lock' = lock /\ loop' = loop
    BY <1>1 DEF PlayPoll, PlayGivesUp, ShutEnds, ShutPress, opsVars
  <2> QED BY <2>1, KeptLock DEF Good
<1>2. CASE ShutNodesOff \/ ShutAbort
  <2>1. (Abort \/ UNCHANGED opsVars) /\ lock' = lock /\ loop' = loop
    BY <1>2 DEF ShutNodesOff, ShutAbort, Abort, opsVars
  <2> QED BY <2>1, KeptLock DEF Good, OpsNext
<1>3. CASE BridgeSocket
  <2>1. OpsNext /\ lock' = lock /\ loop' = loop
    BY <1>3 DEF BridgeSocket, bridgeVars, OpsNext, EngineStep, EngineUp, EngineDrop,
                EditorUp, EditorCloses, EditorGone
  <2> QED BY <2>1, KeptLock DEF Good
<1>4. CASE BridgeFrame
  <2>1. OpsNext /\ lock' = lock /\ \E a : TerminalLoop(a)
    BY <1>4 DEF BridgeFrame, Terminal, OpsNext, EngineStep, EngineFrame
  <2> QED BY <2>1, TerminalGood DEF Good
<1>5. ASSUME NEW i \in DOMAIN ops, BridgeOpEvent(i) PROVE Good
  <2>1. OpsNext /\ lock' = lock /\ \E a : TerminalLoop(a)
    BY <1>5 DEF BridgeOpEvent, Terminal, OpsNext, OpStep, EditorReplies, GraceOver, Budget,
                Watchdog, UnloadTimesOut
  <2> QED BY <2>1, TerminalGood DEF Good
<1>6. ASSUME NEW i \in DOMAIN ops, BridgeUnloadEnds(i) PROVE Good
  <2>1. OpsNext /\ lock' = lock /\ TerminalLoop(auto)
    BY <1>6 DEF BridgeUnloadEnds, OpsNext, OpStep, UnloadAnswered, UnloadConfirmed
  <2> QED BY <2>1, TerminalGood DEF Good
<1> QED BY <1>1, <1>2, <1>3, <1>4, <1>5, <1>6

LEMMA OperatorGood ==
  ASSUME BInv,
         \/ BridgeLoad \/ BridgeUnload \/ \E off \in BOOLEAN : BridgeChecked(off)
         \/ PlayCancelled \/ LoopCancelled \/ OperatorSent
  PROVE  Good
PROOF
<1>0. loop \in LoopTask /\ lock \in Holder /\ Idle \in Holder /\ Idle.who = "none" /\ Idle.at = "idle"
  BY LockTyped
<1>1. CASE BridgeLoad
  <2>1. OpsNext /\ loop' = loop
    BY <1>1 DEF BridgeLoad, bridgeVars, OpsNext, HolderStep
  <2>2. lock.who # "auto_load"
    BY <1>1, <1>0 DEF BridgeLoad, PressLoad, LoadListed, LoadUnlisted, NodesChecked,
                      BInv, LoopInv, OperatorTearsDown
  <2>3. loop.at # "call"
    BY <2>2 DEF BInv, LoopInv, CallHoldsLock
  <2>4. lock'.who # "auto_load" /\ (lock'.at \in {"check", "teardown"} => lock'.who = "operator")
    <3>1. CASE \E p \in Project, press \in Presses : PressLoad(p, press)
      BY <3>1 DEF PressLoad, Idle
    <3>2. CASE LoadListed \/ LoadUnlisted
      <4>1. lock' = Idle \/ (lock' = [lock EXCEPT !.at = "check"] /\ lock.who = "operator")
        BY <3>2 DEF LoadListed, LoadUnlisted, Free
      <4> QED BY <4>1, <1>0 DEF Holder
    <3>3. CASE NodesChecked(TRUE) /\ ~lock.force
      BY <3>3, <1>0 DEF NodesChecked, Free
    <3> QED BY <1>1, <3>1, <3>2, <3>3 DEF BridgeLoad
  <2> QED BY <1>0, <2>1, <2>2, <2>3, <2>4, OperatorMoves DEF Good
<1>2. CASE BridgeUnload
  <2> DEFINE h == [Idle EXCEPT !.who = "operator", !.kind = "unload"]
  <2>1. h \in Holder /\ h.who = "operator"
    BY DEF Idle, Holder, Loads
  <2>2. OpsNext /\ lock.who # "auto_load" /\ Proceed(h)
    BY <1>2, <1>0 DEF BridgeUnload, PressUnload, OpsNext
  <2> HIDE DEF h
  <2> QED BY <2>1, <2>2, ProceedGood DEF Good
<1>3. ASSUME NEW off \in BOOLEAN, BridgeChecked(off) PROVE Good
  <2> DEFINE h == [lock EXCEPT !.force = off]
  <2>1. lock.who = "operator"
    BY <1>3 DEF BridgeChecked, NodesChecked, BInv, LoopInv, OperatorTearsDown
  <2>2. h \in Holder /\ h.who = "operator"
    BY <1>0, <2>1 DEF Holder
  <2>3. OpsNext /\ Proceed(h)
    BY <1>3 DEF BridgeChecked, OpsNext, HolderStep
  <2> HIDE DEF h
  <2> QED BY <2>1, <2>2, <2>3, ProceedGood DEF Good
<1>4. CASE PlayCancelled
  <2>1. lock.at = "teardown" /\ lock.who = "operator"
    BY <1>4 DEF PlayCancelled, BInv, LoopInv, OperatorTearsDown
  <2>2. (CancelLoop(lock) /\ LoopLive) \/ Block(lock, FALSE)
    BY <1>4 DEF PlayCancelled
  <2>3. (Teardown(lock) \/ Send(lock) \/ Free) /\ LoopInv'
    BY <1>0, <2>1, <2>2, ProceedGood
  <2>4. CASE Teardown(lock)
    <3>1. lock' = lock
      BY <1>0, <2>1, <2>4 DEF Teardown, Holder
    <3> QED BY <2>3, <2>4, <3>1 DEF Teardown, Good, opsVars
  <2>5. CASE Send(lock) \/ Free
    BY <2>1, <2>3, <2>5 DEF Good, OpsNext, HolderStep, TornDown
  <2> QED BY <2>3, <2>4, <2>5
<1>5. CASE LoopCancelled
  <2>1. lock.at = "teardown" /\ lock.who = "operator" /\ (Send(lock) \/ Free)
    BY <1>5 DEF LoopCancelled, BInv, LoopInv, OperatorTearsDown
  <2>2. OpsNext
    BY <2>1 DEF OpsNext, HolderStep, TornDown
  <2>3. loop.at # "call"
    BY <2>1 DEF BInv, LoopInv, CallHoldsLock
  <2>4. NoLoop \in LoopTask /\ NoLoop.at = "none"
    BY DEF NoLoop, LoopTask
  <2>5. [loop EXCEPT !.owned = FALSE] \in LoopTask /\ [loop EXCEPT !.owned = FALSE].at = loop.at
    BY <1>0 DEF LoopTask
  <2>6. loop' \in {[loop EXCEPT !.owned = FALSE], NoLoop, Restarted(auto, Current)}
    BY <1>5 DEF LoopCancelled
  <2>7. loop' \in LoopTask /\ loop'.at # "call"
        /\ (Running(loop') => Running(loop) \/ AutoProject # NoProject)
    <3>1. CASE loop' = [loop EXCEPT !.owned = FALSE]
      BY <2>3, <2>5, <3>1 DEF Running
    <3>2. CASE loop' = NoLoop
      BY <2>4, <3>2 DEF Running
    <3>3. CASE loop' = Restarted(auto, Current)
      BY <1>0, <2>3, <3>3, RestartedFacts
    <3> QED BY <2>6, <3>1, <3>2, <3>3
  <2> QED BY <1>0, <2>1, <2>2, <2>7, OperatorLock, OperatorMoves DEF Good
<1>6. CASE OperatorSent
  <2>1. OpsNext /\ lock.who = "operator" /\ lock' = Idle
    BY <1>6 DEF OperatorSent, Sent, NotSent, Install, OpsNext, HolderStep
  <2>2. loop.at # "call"
    BY <2>1 DEF BInv, LoopInv, CallHoldsLock
  <2>3. loop' = loop \/ \E a, last : loop' = Restarted(a, last)
    BY <1>6 DEF OperatorSent, TerminalLoop
  <2>4. loop' \in LoopTask /\ loop'.at # "call"
        /\ (Running(loop') => Running(loop) \/ AutoProject # NoProject)
    BY <1>0, <2>2, <2>3, RestartedFacts DEF Running
  <2> QED BY <1>0, <2>1, <2>4, OperatorMoves DEF Good
<1> QED BY <1>1, <1>2, <1>3, <1>4, <1>5, <1>6

LEMMA BridgeInit == Init => BInv
PROOF
<1> SUFFICES ASSUME Init PROVE BInv
  OBVIOUS
<1>1. IInv /\ lock = Idle
  BY InitInv DEF Init, OpsInit
<1>2. loop \in LoopTask /\ loop.at \in {"none", "sleep"} /\ (loop.at = "sleep" => AutoProject # NoProject)
  BY DEF Init, NoLoop, FreshLoop, LoopTask
<1>3. LoopInv
  BY <1>1, <1>2 DEF LoopInv, LoopConfigured, OperatorTearsDown, CallHoldsLock, Running, Idle
<1> QED BY <1>1, <1>3 DEF BInv

LEMMA BridgeStep == BInv /\ [Next]_vars => [OpsNext]_opsVars /\ BInv'
PROOF
<1> SUFFICES ASSUME BInv, [Next]_vars PROVE [OpsNext]_opsVars /\ BInv'
  OBVIOUS
<1>1. CASE UNCHANGED vars
  <2>1. UNCHANGED opsVars /\ lock' = lock /\ loop' = loop
    BY <1>1 DEF vars, opsVars
  <2> QED BY <2>1, KeptLock, StepInv DEF BInv
<1>2. CASE Next
  <2>1. Good
    BY <1>2, LoopGood, EventGood, OperatorGood DEF Next
  <2> QED BY <2>1, StepInv DEF Good, BInv
<1> QED BY <1>1, <1>2

\* The bridge, with auto-load, auto-play and /shutdown, runs operations exactly
\* as ProjectOps allows.
THEOREM ImplementsProjectOps == Spec => OpsSpec
PROOF
<1>1. Init => OpsInit
  BY DEF Init
<1> QED BY <1>1, BridgeInit, BridgeStep, PTL DEF Spec, OpsSpec

\* The loop's task holds the lock exactly while it is in start_auto_load, so a
\* press never cancels it there (_pause_auto_load).
THEOREM LockIsHeldInCall == Spec => []CallHoldsLock
PROOF
<1>1. BInv => CallHoldsLock
  BY DEF BInv, LoopInv
<1> QED BY <1>1, BridgeInit, BridgeStep, PTL DEF Spec

\* The slot and tracking invariants of ProjectOps hold in the whole bridge.
THEOREM BridgeOps == Spec => [](SlotIsNewest /\ OneTracked /\ WatchdogIsNewest)
PROOF
<1>1. BInv => SlotIsNewest /\ OneTracked /\ WatchdogIsNewest
  BY DEF BInv, IInv
<1> QED BY <1>1, BridgeInit, BridgeStep, PTL DEF Spec

----------------------------------------------------------------------------
\* What the steps of the bridge do to the operations and the lock.

LEMMA BridgeCarries ==
  ASSUME BInv, [Next]_vars
  PROVE  Carried /\ BInv' /\ [OpsNext]_opsVars
PROOF
  BY BridgeStep, StepInv DEF BInv

\* A new operation is the holder's, is the newest and is not installed.
Registers(h) ==
  /\ DOMAIN ops' = DOMAIN ops \cup {Newest + 1} /\ Newest' = Newest + 1 /\ cur' = cur
  /\ \A i \in DOMAIN ops : ops'[i] = ops[i]
  /\ LET new == ops'[Newest + 1]
     IN  /\ new.source = h.who /\ new.kind = h.kind /\ new.project = h.project
         /\ ~new.installed /\ ~new.accepted
  /\ lock'.at = "send" /\ lock'.who = h.who /\ lock'.kind = h.kind /\ lock'.project = h.project

LEMMA SendRegisters ==
  ASSUME BInv, NEW h \in Holder, Send(h)
  PROVE  Registers(h)
PROOF
<1> PICK unix \in {h.project} \cup (IF h.who = "operator" THEN {} ELSE {NoProject}) :
      ops' = Append(ops, NewOp(h.kind, h.who, h.project, unix, h.force))
  BY DEF Send
<1> DEFINE new == NewOp(h.kind, h.who, h.project, unix, h.force)
<1>1. /\ new.source = h.who /\ new.kind = h.kind /\ new.project = h.project
      /\ ~new.installed /\ ~new.accepted
  BY DEF NewOp
<1> HIDE DEF new
<1>2. ops \in Seq(Op) /\ Newest \in Nat /\ DOMAIN ops = 1..Newest
  BY OpsAreOps DEF BInv, IInv, OpsTypeOK
<1>3. /\ Len(ops') = Newest + 1 /\ DOMAIN ops' = 1..(Newest + 1)
      /\ \A i \in 1..Newest : ops'[i] = ops[i] /\ ops'[Newest + 1] = new
      /\ ops'[Newest + 1] = new
  BY <1>2 DEF new, Newest
<1>4. cur' = cur /\ lock' = [h EXCEPT !.at = "send"]
  BY DEF Send
<1>5. lock'.at = "send" /\ lock'.who = h.who /\ lock'.kind = h.kind /\ lock'.project = h.project
  BY <1>4 DEF Holder
<1> QED BY <1>1, <1>2, <1>3, <1>4, <1>5 DEF Registers, Newest

\* The lock's holder is about to release a loop it cancelled, or to start one again
\* if its own frame is not sent.
Paused == /\ lock.who = "operator"
          /\ \/ tear.on = "loop" /\ lock.at = "teardown"
             \/ tear.paused /\ lock.at = "send"

\* An operator's coroutine goes as far as it gets: it cancels auto-play or the
\* loop, sends, or is refused.
OperatorBlock(h) ==
  /\ h \in Holder /\ h.who = "operator" /\ UNCHANGED <<auto, shut>> /\ tear' \in Tear
  /\ play' \in {play, "none"}
  /\ lock.who # "auto_load" /\ lock.at # "send" /\ ~(tear.on = "loop" /\ lock.at = "teardown")
  /\ \/ Teardown(h) /\ loop' = loop /\ tear'.on = "play"
     \/ /\ Teardown(h) /\ LoopLive /\ loop' = [loop EXCEPT !.at = "cancelling"]
        /\ tear' = [on |-> "loop", paused |-> TRUE]
     \/ Send(h) /\ ~Locked /\ ~LoopLive /\ loop' = loop /\ tear'.on = "none"
     \/ Free /\ loop' = loop /\ tear'.on = "none"

LEMMA ProceedBlocks ==
  ASSUME BInv, NEW h \in Holder, h.who = "operator", auto' = auto, shut' = shut,
         lock.who # "auto_load", lock.at # "send", ~(tear.on = "loop" /\ lock.at = "teardown"),
         \/ Proceed(h)
         \/ CancelLoop(h) /\ LoopLive /\ play' = play
         \/ Block(h, FALSE) /\ ~LoopLive /\ play' = play
  PROVE  OperatorBlock(h)
PROOF
<1>1. CASE CancelLoop(h) /\ LoopLive /\ play' = play
  <2>1. tear' \in Tear
    BY <1>1 DEF CancelLoop, Tear
  <2> QED BY <1>1, <2>1 DEF CancelLoop, OperatorBlock
<1>2. CASE Block(h, FALSE) /\ ~LoopLive /\ play' = play
  <2>1. tear' \in Tear /\ tear'.on = "none"
    <3>1. tear' = NoTear \/ tear' = [NoTear EXCEPT !.paused = FALSE]
      BY <1>2 DEF Block
    <3>2. NoTear \in Tear /\ NoTear.on = "none"
      BY DEF NoTear, Tear
    <3>3. [NoTear EXCEPT !.paused = FALSE] \in Tear /\ [NoTear EXCEPT !.paused = FALSE].on = "none"
      BY <3>2 DEF Tear
    <3> QED BY <3>1, <3>2, <3>3
  <2> QED BY <1>2, <2>1 DEF Block, OperatorBlock
<1>3. CASE CancelPlay(h)
  <2>1. tear' \in Tear /\ tear'.on = "play"
    BY <1>3 DEF CancelPlay, Tear
  <2> QED BY <1>3, <2>1 DEF CancelPlay, OperatorBlock
<1> QED BY <1>1, <1>2, <1>3 DEF Proceed

LEMMA OperatorBlocks ==
  ASSUME BInv, BridgeUnload \/ (\E off \in BOOLEAN : BridgeChecked(off)) \/ PlayCancelled
  PROVE  \E h \in Holder : OperatorBlock(h)
PROOF
<1>0. lock \in Holder /\ Idle \in Holder /\ Idle.who = "none" /\ Idle.at = "idle"
  BY LockTyped
<1>1. CASE BridgeUnload
  <2> DEFINE h == [Idle EXCEPT !.who = "operator", !.kind = "unload"]
  <2>1. h \in Holder /\ h.who = "operator"
    BY DEF Idle, Holder, Loads
  <2>2. lock = Idle /\ Proceed(h) /\ UNCHANGED <<auto, shut>>
    BY <1>1 DEF BridgeUnload, PressUnload
  <2> HIDE DEF h
  <2> QED BY <1>0, <2>1, <2>2, ProceedBlocks
<1>2. ASSUME NEW off \in BOOLEAN, BridgeChecked(off) PROVE \E h \in Holder : OperatorBlock(h)
  <2> DEFINE h == [lock EXCEPT !.force = off]
  <2>1. lock.who = "operator" /\ lock.at = "check" /\ UNCHANGED <<auto, shut>> /\ Proceed(h)
    BY <1>2 DEF BridgeChecked, NodesChecked, BInv, LoopInv, OperatorTearsDown
  <2>2. h \in Holder /\ h.who = "operator"
    BY <1>0, <2>1 DEF Holder
  <2> HIDE DEF h
  <2> QED BY <2>1, <2>2, ProceedBlocks
<1>3. CASE PlayCancelled
  <2>1. lock.at = "teardown" /\ lock.who = "operator" /\ tear.on = "play"
        /\ UNCHANGED <<auto, play, shut>>
    BY <1>3 DEF PlayCancelled, BInv, LoopInv, OperatorTearsDown
  <2>2. (CancelLoop(lock) /\ LoopLive) \/ (Block(lock, FALSE) /\ ~LoopLive)
    BY <1>3 DEF PlayCancelled
  <2> QED BY <1>0, <2>1, <2>2, ProceedBlocks
<1> QED BY <1>1, <1>2, <1>3

\* The press and its list and node answers only move the lock.
OperatorWaits ==
  /\ UNCHANGED <<ops, cur, loop, auto, play, shut, tear>>
  /\ lock.who # "auto_load" /\ lock.at \notin {"teardown", "send"}
  /\ lock'.who # "auto_load" /\ lock'.at \notin {"teardown", "send"}

LEMMA LoadWaits ==
  ASSUME BInv, BridgeLoad
  PROVE  OperatorWaits
PROOF
<1>0. lock \in Holder /\ Idle \in Holder /\ Idle.who = "none" /\ Idle.at = "idle"
  BY LockTyped
<1>1. UNCHANGED <<ops, cur, loop, auto, play, shut, tear>>
  BY DEF BridgeLoad, bridgeVars, PressLoad, LoadListed, LoadUnlisted, NodesChecked, Free
<1>2. CASE \E p \in Project, press \in Presses : PressLoad(p, press)
  BY <1>0, <1>1, <1>2 DEF PressLoad, Idle, OperatorWaits
<1>3. CASE LoadListed \/ LoadUnlisted
  <2>1. lock.who = "operator" /\ lock.at = "list"
        /\ (lock' = Idle \/ lock' = [lock EXCEPT !.at = "check"])
    BY <1>3 DEF LoadListed, LoadUnlisted, Free
  <2> QED BY <1>0, <1>1, <2>1 DEF Holder, OperatorWaits
<1>4. CASE NodesChecked(TRUE) /\ ~lock.force
  <2>1. lock.who = "operator" /\ lock.at = "check" /\ lock' = Idle
    BY <1>4 DEF NodesChecked, Free, BInv, LoopInv, OperatorTearsDown
  <2> QED BY <1>0, <1>1, <2>1 DEF OperatorWaits
<1> QED BY <1>2, <1>3, <1>4 DEF BridgeLoad

\* The newest operation is installed, or its frame was not sent.
SendEnds == /\ lock.at = "send" /\ lock' = Idle /\ DOMAIN ops' = DOMAIN ops
            /\ \/ cur' = Newest
               \/ /\ cur' = cur /\ ~ops'[Newest].installed
                  /\ \A i \in DOMAIN ops \ {Newest} : ops'[i] = ops[i]

LEMMA SendIsOver ==
  ASSUME BInv, Sent \/ NotSent
  PROVE  SendEnds
PROOF
<1>1. DOMAIN ops' = DOMAIN ops /\ lock' = Idle /\ lock.at = "send"
  BY DEF Sent, NotSent, Install
<1>2. Newest \in DOMAIN ops /\ ops[Newest] \in Op /\ ~ops[Newest].installed
  BY <1>1, OpsAreOps DEF BInv, IInv, SendsNewest, OpsTypeOK
<1>3. CASE NotSent
  BY <1>1, <1>2, <1>3 DEF NotSent, SendEnds, Op
<1>4. CASE Sent
  BY <1>1, <1>4 DEF Sent, Install, SendEnds
<1> QED BY <1>3, <1>4

\* An event that may end operations, heard by _on_op_terminal.
Heard ==
  /\ UNCHANGED <<lock, cur, play, shut, tear>> /\ DOMAIN ops' = DOMAIN ops
  /\ \/ auto' = Credited(auto) /\ TerminalLoop(auto')
     \/ auto' \in {auto, Suspended(auto)} /\ TerminalLoop(auto)

LEMMA EventsHeard ==
  ASSUME BInv, BridgeFrame \/ \E i \in DOMAIN ops : BridgeOpEvent(i) \/ BridgeUnloadEnds(i)
  PROVE  Heard
PROOF
<1>0. ops = [j \in DOMAIN ops |-> ops[j]]
  BY DEF BInv, IInv, OpsTypeOK
<1>1. CASE BridgeFrame
  <2>1. UNCHANGED <<lock, cur, play, shut, tear>> /\ DOMAIN ops' = DOMAIN ops
        /\ auto' = Credited(auto) /\ TerminalLoop(auto')
    BY <1>1 DEF BridgeFrame, EngineFrame, Terminal
  <2> QED BY <2>1 DEF Heard
<1>2. ASSUME NEW i \in DOMAIN ops, BridgeOpEvent(i) PROVE Heard
  <2>1. UNCHANGED <<lock, cur, play, shut, tear>> /\ auto' = Credited(auto) /\ TerminalLoop(auto')
    BY <1>2 DEF BridgeOpEvent, Terminal, EditorReplies, GraceOver, Budget, Watchdog, UnloadTimesOut
  <2>2. DOMAIN ops' = DOMAIN ops
    BY <1>0, <1>2 DEF BridgeOpEvent, EditorReplies, GraceOver, Budget, Watchdog, UnloadTimesOut,
                      UnloadFinish
  <2> QED BY <2>1, <2>2 DEF Heard
<1>3. ASSUME NEW i \in DOMAIN ops, BridgeUnloadEnds(i) PROVE Heard
  <2>1. UNCHANGED <<lock, cur, play, shut, tear>> /\ TerminalLoop(auto)
        /\ auto' \in {auto, Suspended(auto)}
    BY <1>3 DEF BridgeUnloadEnds, UnloadAnswered, UnloadConfirmed
  <2>2. DOMAIN ops' = DOMAIN ops
    BY <1>0, <1>3 DEF BridgeUnloadEnds, UnloadAnswered, UnloadConfirmed, UnloadFinish
  <2> QED BY <2>1, <2>2 DEF Heard
<1> QED BY <1>1, <1>2, <1>3

\* A step of the sockets, of auto-play or of /shutdown: no operation ends in it
\* unless a shutdown aborts it.
Apart ==
  /\ UNCHANGED <<lock, cur, loop, auto, tear>> /\ DOMAIN ops' = DOMAIN ops
  /\ play' \in {play, "none", "went"}
  /\ \/ MayShutdown /\ shut' \in {"none", "ssh", "cancel", "poll", "issued"}
     \/ /\ shut' = shut
        /\ \A i \in DOMAIN ops : /\ ops'[i].state = ops[i].state /\ ops'[i].reason = ops[i].reason
                                 /\ ops'[i].overdue = ops[i].overdue

\* A shutdown is only explored where the configuration says so.
ShutOK == /\ play \in {"none", "wait", "went"} /\ tear \in Tear
          /\ shut \in {"none", "ssh", "cancel", "poll", "issued"}
          /\ shut # "none" => MayShutdown

LEMMA StaysApart ==
  ASSUME BInv, ShutOK,
         \/ PlayPoll \/ PlayGivesUp \/ BridgeSocket
         \/ \E force \in BOOLEAN : ShutPress(force)
         \/ ShutNodesOff \/ ShutAbort \/ ShutEnds
  PROVE  Apart
PROOF
<1>0. ops = [j \in DOMAIN ops |-> ops[j]] /\ \A i \in DOMAIN ops : ops[i] \in Op
  BY OpsAreOps DEF BInv, IInv, OpsTypeOK
<1>1. CASE PlayPoll \/ PlayGivesUp
  BY <1>1 DEF PlayPoll, PlayGivesUp, opsVars, Apart
<1>2. CASE ShutEnds \/ \E force \in BOOLEAN : ShutPress(force)
  BY <1>2 DEF ShutEnds, ShutPress, opsVars, Apart, ShutOK
<1>3. CASE ShutNodesOff \/ ShutAbort
  <2>1. UNCHANGED <<lock, cur, loop, auto, tear>> /\ DOMAIN ops' = DOMAIN ops
        /\ play' \in {play, "none"} /\ shut' \in {"cancel", "poll"} /\ shut # "none"
    BY <1>3 DEF ShutNodesOff, ShutAbort, Abort, opsVars
  <2> QED BY <2>1 DEF Apart, ShutOK
<1>4. CASE EngineUp \/ EngineDrop \/ EditorUp \/ EditorCloses
  <2>1. UNCHANGED <<ops, cur, lock>>
    BY <1>4 DEF EngineUp, EngineDrop, EditorUp, EditorCloses
  <2>2. UNCHANGED bridgeVars \/ PlayPoll \/ PlayGivesUp \/ ShutEnds \/ ShutNodesOff \/ ShutAbort
        \/ \E force \in BOOLEAN : ShutPress(force)
    BY DEF BridgeSocket
  <2> QED BY <1>1, <1>2, <1>3, <2>1, <2>2 DEF bridgeVars, Apart
<1>5. CASE EditorGone /\ UNCHANGED bridgeVars
  <2>1. ops' = [i \in DOMAIN ops |->
                 IF IsOpen(i) THEN Resolved(ops[i], "lost", i = cur) ELSE ops[i]]
        /\ UNCHANGED <<cur, lock>>
    BY <1>5 DEF EditorGone
  <2>2. ASSUME NEW op \in Op, NEW c \in BOOLEAN
        PROVE  LET new == Resolved(op, "lost", c)
               IN  new.state = op.state /\ new.reason = op.reason /\ new.overdue = op.overdue
    <3> DEFINE done == [op EXCEPT !.request = "lost", !.watched = FALSE]
    <3>1. /\ done \in Op /\ done.request = "lost" /\ done.state = op.state
          /\ done.reason = op.reason /\ done.overdue = op.overdue
      BY DEF Op
    <3>2. Resolved(op, "lost", c) = IF op.installed THEN OnReply(done, c) ELSE done
      BY DEF Resolved
    <3> HIDE DEF done
    <3>3. /\ OnReply(done, c).state = done.state /\ OnReply(done, c).reason = done.reason
          /\ OnReply(done, c).overdue = done.overdue
      BY <3>1 DEF OnReply, Op
    <3> QED BY <3>1, <3>2, <3>3
  <2>3. \A i \in DOMAIN ops : (i = cur) \in BOOLEAN
    OBVIOUS
  <2>4. \A i \in DOMAIN ops : /\ ops'[i].state = ops[i].state /\ ops'[i].reason = ops[i].reason
                             /\ ops'[i].overdue = ops[i].overdue
    <3> TAKE i \in DOMAIN ops
    <3>1. LET new == Resolved(ops[i], "lost", i = cur)
          IN  new.state = ops[i].state /\ new.reason = ops[i].reason /\ new.overdue = ops[i].overdue
      BY <1>0, <2>2, <2>3
    <3> QED BY <2>1, <3>1
  <2> QED BY <1>5, <2>1, <2>4 DEF bridgeVars, Apart
<1> QED BY <1>1, <1>2, <1>3, <1>4, <1>5 DEF BridgeSocket

----------------------------------------------------------------------------
\* Auto-load's own operations.

\* Auto-load loads the configured project; the holder that sends made the newest.
Sources ==
  /\ lock.who = "auto_load" => lock.project = AutoProject
  /\ \A i \in DOMAIN ops : ops[i].source = "auto_load" => ops[i].project = AutoProject
  /\ lock.at = "send" => /\ Newest \in DOMAIN ops /\ ops[Newest].source = lock.who
                         /\ ops[Newest].kind = lock.kind /\ ops[Newest].project = lock.project

\* The loop awaits an operation of its own.
AwaitsOwn == loop.at = "await" => loop.op \in DOMAIN ops /\ ops[loop.op].source = "auto_load"

\* Three failures disable auto-load, and then the loop attempts nothing more.
AutoTyped ==
  /\ auto \in AutoState
  /\ auto.failures = 3 => auto.disabled /\ loop.at \notin {"attempt", "call", "await"}

ArmInv == ShutOK /\ Sources /\ AwaitsOwn /\ AutoTyped /\ DoneMeansArmed

LEMMA SourcesKept ==
  ASSUME BInv, BInv', Sources, Carried, DOMAIN ops' = DOMAIN ops,
         \/ lock' = lock
         \/ lock'.at # "send" /\ (lock'.who = "auto_load" => lock'.project = AutoProject)
  PROVE  Sources'
PROOF
<1>1. Newest' = Newest
  BY NewestKept DEF BInv, IInv
<1>2. \A i \in DOMAIN ops' : ops'[i].source = "auto_load" => ops'[i].project = AutoProject
  BY DEF Sources, Carried, Carries
<1>3. CASE lock' = lock
  BY <1>1, <1>2, <1>3 DEF Sources, Carried, Carries
<1>4. CASE lock'.at # "send" /\ (lock'.who = "auto_load" => lock'.project = AutoProject)
  BY <1>2, <1>4 DEF Sources
<1> QED BY <1>3, <1>4

LEMMA SourcesGrow ==
  ASSUME BInv, BInv', Sources, NEW h, Registers(h), h.who = "auto_load" => h.project = AutoProject
  PROVE  Sources'
PROOF
<1>1. \A i \in DOMAIN ops' : ops'[i].source = "auto_load" => ops'[i].project = AutoProject
  BY DEF Sources, Registers
<1>2. Newest' = Newest + 1 /\ Newest' \in DOMAIN ops'
  BY DEF Registers
<1> QED BY <1>1, <1>2 DEF Sources, Registers

\* What _on_op_terminal and _suspend_auto_load make of the auto-load state.
LEMMA AutoChanges ==
  ASSUME NEW a \in AutoState
  PROVE  /\ Suspended(a) \in AutoState /\ Credited(a) \in AutoState
         /\ a.disabled => Suspended(a).disabled
         /\ Credited(a).disabled = a.disabled
         /\ Suspended(a).done = a.done /\ Suspended(a).failures = a.failures
         /\ Credited(a).failures = 3 => a.failures = 3
         /\ Credited(a).done =>
              a.done \/ \E i \in DOMAIN ops : ops'[i].accepted /\ ops'[i].project = AutoProject
PROOF
<1> DEFINE hit == \E i \in DOMAIN ops : /\ Ends(i) /\ ops'[i].kind = "load" /\ ops'[i].accepted
                                        /\ ops'[i].source = "operator"
                                        /\ AutoProject # NoProject /\ ops'[i].project = AutoProject
           off == [a EXCEPT !.disabled = TRUE]
           got == [a EXCEPT !.done = TRUE, !.name = AutoProject, !.failures = 0]
<1>1. off \in AutoState /\ off.disabled /\ off.done = a.done /\ off.failures = a.failures
  BY DEF AutoState
<1>2. got \in AutoState /\ got.disabled = a.disabled /\ got.failures = 0
  <2>1. AutoProject \in Loads \cup {Unknown, NoName} /\ 0 \in 0..3
    BY ConfigAssumption
  <2> QED BY <2>1 DEF AutoState
<1>3. Suspended(a) \in {a, off} /\ Credited(a) = IF hit THEN got ELSE a
  BY DEF Suspended, Credited
<1>4. hit => \E i \in DOMAIN ops : ops'[i].accepted /\ ops'[i].project = AutoProject
  OBVIOUS
<1> HIDE DEF hit, off, got
<1> QED BY <1>1, <1>2, <1>3, <1>4

\* The loop and the auto-load state after a step in which the loop does not act.
Elsewhere ==
  /\ auto.disabled => auto'.disabled
  /\ auto' \in AutoState
  /\ auto'.failures = 3 => auto.failures = 3
  /\ auto'.done =>
       auto.done \/ \E i \in DOMAIN ops : ops'[i].accepted /\ ops'[i].project = AutoProject
  /\ loop' \in LoopTask
  /\ \/ loop'.at \notin {"attempt", "call", "await"}
     \/ loop'.at = loop.at /\ loop'.op = loop.op

LEMMA ElsewhereArms ==
  ASSUME ArmInv, Carried, Elsewhere
  PROVE  AwaitsOwn' /\ AutoTyped' /\ DoneMeansArmed'
PROOF
<1>1. AwaitsOwn'
  BY DEF ArmInv, AwaitsOwn, Carried, Carries, Elsewhere
<1>2. AutoTyped'
  <2>1. auto \in AutoState
    BY DEF ArmInv, AutoTyped
  <2>2. auto.disabled => auto'.disabled
    BY <2>1 DEF Elsewhere
  <2> QED BY <2>2 DEF ArmInv, AutoTyped, Elsewhere
<1>3. DoneMeansArmed'
  <2> SUFFICES ASSUME auto'.done
               PROVE  \E i \in DOMAIN ops' : ops'[i].project = AutoProject /\ ops'[i].accepted
    BY DEF DoneMeansArmed
  <2>1. CASE auto.done
    BY <2>1 DEF ArmInv, DoneMeansArmed, Carried, Carries
  <2>2. CASE \E i \in DOMAIN ops : ops'[i].accepted /\ ops'[i].project = AutoProject
    BY <2>2 DEF Carried
  <2> QED BY <2>1, <2>2 DEF Elsewhere
<1> QED BY <1>1, <1>2, <1>3

\* A loop that is left alone, restarted, cancelled or let go of.
LEMMA LoopElsewhere ==
  ASSUME BInv,
         \/ loop' = loop
         \/ \E a, last : loop' = Restarted(a, last)
         \/ loop' = [loop EXCEPT !.at = "cancelling"]
         \/ loop' = [loop EXCEPT !.owned = FALSE]
         \/ loop' = [loop EXCEPT !.at = "ended", !.op = 0]
         \/ loop' = NoLoop
  PROVE  /\ loop' \in LoopTask
         /\ \/ loop'.at \notin {"attempt", "call", "await"}
            \/ loop'.at = loop.at /\ loop'.op = loop.op
PROOF
<1>0. loop \in LoopTask
  BY LockTyped
<1>1. CASE \E a, last : loop' = Restarted(a, last)
  BY <1>0, <1>1, RestartedFacts
<1>2. CASE loop' = [loop EXCEPT !.at = "cancelling"]
  BY <1>0, <1>2 DEF LoopTask
<1>3. CASE loop' = [loop EXCEPT !.owned = FALSE]
  BY <1>0, <1>3 DEF LoopTask
<1>4. CASE loop' = [loop EXCEPT !.at = "ended", !.op = 0]
  BY <1>0, <1>4 DEF LoopTask
<1>5. CASE loop' = NoLoop
  BY <1>5 DEF NoLoop, LoopTask
<1> QED BY <1>0, <1>1, <1>2, <1>3, <1>4, <1>5

\* What every step of the operator and every event does for auto-load's operations.
LEMMA ArmElsewhere ==
  ASSUME BInv, BInv', ArmInv, Carried, Elsewhere, Sources', ShutOK'
  PROVE  ArmInv'
PROOF
  BY ElsewhereArms DEF ArmInv

LEMMA OperatorArms ==
  ASSUME BInv, BInv', ArmInv, Carried,
         \/ OperatorWaits
         \/ \E h \in Holder : OperatorBlock(h)
         \/ LoopCancelled
  PROVE  ArmInv'
PROOF
<1>0. auto \in AutoState
  BY DEF ArmInv, AutoTyped
<1>1. CASE OperatorWaits
  <2>1. Elsewhere
    BY <1>0, <1>1, LoopElsewhere DEF OperatorWaits, Elsewhere
  <2>2. Sources' /\ ShutOK'
    BY <1>1, SourcesKept DEF OperatorWaits, ArmInv, ShutOK
  <2> QED BY <2>1, <2>2, ArmElsewhere
<1>2. ASSUME NEW h \in Holder, OperatorBlock(h) PROVE ArmInv'
  <2>1. Elsewhere
    BY <1>0, <1>2, LoopElsewhere DEF OperatorBlock, Elsewhere
  <2>2. ShutOK'
    BY <1>2 DEF OperatorBlock, ArmInv, ShutOK, CancelPlay
  <2>3. Sources'
    <3>1. CASE Send(h)
      BY <1>2, <3>1, SendRegisters, SourcesGrow DEF OperatorBlock, ArmInv
    <3>2. CASE Teardown(h) \/ Free
      <4>1. DOMAIN ops' = DOMAIN ops /\ lock'.at # "send" /\ lock'.who # "auto_load"
        BY <1>2, <3>2 DEF OperatorBlock, Teardown, Free, Holder, Idle
      <4> QED BY <4>1, SourcesKept DEF ArmInv
    <3> QED BY <1>2, <3>1, <3>2 DEF OperatorBlock
  <2> QED BY <2>1, <2>2, <2>3, ArmElsewhere
<1>3. CASE LoopCancelled
  <2>1. lock \in Holder /\ lock.who = "operator"
    BY <1>3, LockTyped DEF LoopCancelled, BInv, LoopInv, OperatorTearsDown
  <2>2. Elsewhere
    <3>1. UNCHANGED auto /\ loop' \in {[loop EXCEPT !.owned = FALSE], NoLoop, Restarted(auto, Current)}
      BY <1>3 DEF LoopCancelled
    <3> QED BY <1>0, <3>1, LoopElsewhere DEF Elsewhere
  <2>3. ShutOK'
    <3>1. tear' \in {NoTear, [NoTear EXCEPT !.paused = TRUE]} /\ UNCHANGED <<play, shut>>
      BY <1>3 DEF LoopCancelled
    <3>2. NoTear \in Tear
      BY DEF NoTear, Tear
    <3>3. [NoTear EXCEPT !.paused = TRUE] \in Tear
      BY <3>2 DEF Tear
    <3> QED BY <3>1, <3>2, <3>3 DEF ArmInv, ShutOK
  <2>4. Sources'
    <3>1. CASE Send(lock)
      BY <2>1, <3>1, SendRegisters, SourcesGrow DEF ArmInv
    <3>2. CASE Free
      <4>1. DOMAIN ops' = DOMAIN ops /\ lock'.at # "send" /\ lock'.who # "auto_load"
        BY <3>2 DEF Free, Idle
      <4> QED BY <4>1, SourcesKept DEF ArmInv
    <3> QED BY <1>3, <3>1, <3>2 DEF LoopCancelled
  <2> QED BY <2>2, <2>3, <2>4, ArmElsewhere
<1> QED BY <1>1, <1>2, <1>3

\* An event that may suspend auto-load, credit it, and start its loop again.
LEMMA ChangesElsewhere ==
  ASSUME BInv, AutoTyped,
         auto' \in {auto, Suspended(auto), Credited(auto), Credited(Suspended(auto))},
         loop' = loop \/ \E a, last : loop' = Restarted(a, last)
  PROVE  Elsewhere
PROOF
<1> DEFINE Hit == \E i \in DOMAIN ops : ops'[i].accepted /\ ops'[i].project = AutoProject
           Fits(b) == /\ b \in AutoState /\ (auto.disabled => b.disabled)
                      /\ (b.failures = 3 => auto.failures = 3)
                      /\ (b.done => auto.done \/ Hit)
<1>1. auto \in AutoState /\ Fits(auto)
  BY DEF AutoTyped
<1>2. ASSUME NEW b \in AutoState, Fits(b) PROVE Fits(Suspended(b)) /\ Fits(Credited(b))
  BY <1>2, AutoChanges
<1>3. Fits(auto')
  BY <1>1, <1>2
<1>4. /\ loop' \in LoopTask
      /\ \/ loop'.at \notin {"attempt", "call", "await"}
         \/ loop'.at = loop.at /\ loop'.op = loop.op
  BY LoopElsewhere
<1>5. auto.disabled => auto'.disabled
  BY <1>3
<1> QED BY <1>3, <1>4, <1>5 DEF Elsewhere

LEMMA EventArms ==
  ASSUME BInv, BInv', ArmInv, Carried, Heard \/ Apart \/ OperatorSent \/ LoopUnwinds
  PROVE  ArmInv'
PROOF
<1>0. auto \in AutoState
  BY DEF ArmInv, AutoTyped
<1>1. CASE Heard
  <2>1. auto' \in {auto, Suspended(auto), Credited(auto), Credited(Suspended(auto))}
        /\ (loop' = loop \/ \E a, last : loop' = Restarted(a, last))
    BY <1>1 DEF Heard, TerminalLoop
  <2>2. Elsewhere
    BY <2>1, ChangesElsewhere DEF ArmInv
  <2>3. Sources' /\ ShutOK'
    BY <1>1, SourcesKept DEF Heard, ArmInv, ShutOK
  <2> QED BY <2>2, <2>3, ArmElsewhere
<1>2. CASE Apart
  <2>1. Elsewhere
    BY <1>0, <1>2, LoopElsewhere DEF Apart, Elsewhere
  <2>2. Sources'
    BY <1>2, SourcesKept DEF Apart, ArmInv
  <2>3. ShutOK'
    BY <1>2 DEF Apart, ArmInv, ShutOK
  <2> QED BY <2>1, <2>2, <2>3, ArmElsewhere
<1>3. CASE OperatorSent
  <2>1. /\ auto' \in {auto, Credited(auto), Credited(Suspended(auto))}
        /\ loop' = loop \/ \E a, last : loop' = Restarted(a, last)
        /\ tear' = NoTear /\ UNCHANGED <<play, shut>> /\ (Sent \/ NotSent)
    BY <1>3 DEF OperatorSent, TerminalLoop
  <2>3. Elsewhere
    BY <2>1, ChangesElsewhere DEF ArmInv
  <2>4. Sources'
    <3>1. DOMAIN ops' = DOMAIN ops /\ lock'.at # "send" /\ lock'.who # "auto_load"
      BY <2>1, SendIsOver, LockTyped DEF SendEnds
    <3> QED BY <3>1, SourcesKept DEF ArmInv
  <2>5. ShutOK'
    BY <2>1 DEF ArmInv, ShutOK, NoTear, Tear
  <2> QED BY <2>3, <2>4, <2>5, ArmElsewhere
<1>4. CASE LoopUnwinds
  <2>1. UNCHANGED <<ops, lock, auto, play, shut, tear>> /\ loop' = [loop EXCEPT !.at = "ended", !.op = 0]
    BY <1>4 DEF LoopUnwinds, opsVars
  <2>2. Elsewhere
    BY <1>0, <2>1, LoopElsewhere DEF Elsewhere
  <2>3. Sources' /\ ShutOK'
    BY <2>1, SourcesKept DEF ArmInv, ShutOK
  <2> QED BY <2>2, <2>3, ArmElsewhere
<1> QED BY <1>1, <1>2, <1>3, <1>4

\* The loop's own steps: a load counts as auto-load's only through an operation of
\* auto-load that the engine accepted.
LEMMA TickArms ==
  ASSUME BInv, BInv', ArmInv, Carried, Tick \/ Attempt
  PROVE  ArmInv'
PROOF
<1>0. auto \in AutoState /\ loop \in LoopTask /\ lock \in Holder
  BY LockTyped DEF ArmInv, AutoTyped
<1>1. CASE Tick
  <2>1. UNCHANGED <<ops, lock, play, shut, tear>>
    BY <1>1 DEF Tick, opsVars
  <2>2. Sources' /\ ShutOK'
    BY <2>1, SourcesKept DEF ArmInv, ShutOK
  <2>3. auto' \in AutoState /\ auto'.done = auto.done /\ auto'.failures = auto.failures
        /\ (auto.disabled => auto'.disabled)
    <3>1. auto' \in {auto, [auto EXCEPT !.disabled = TRUE]}
      BY <1>1 DEF Tick
    <3> QED BY <1>0, <3>1 DEF AutoState
  <2>4. \/ loop'.at = "ended"
        \/ loop'.at = "attempt" /\ ~auto.disabled
    <3>1. \/ loop' = [loop EXCEPT !.at = "ended"]
          \/ loop' = [loop EXCEPT !.at = "attempt"] /\ ~auto.disabled
      BY <1>1 DEF Tick
    <3> QED BY <1>0, <3>1 DEF LoopTask
  <2>5. AwaitsOwn' /\ AutoTyped'
    BY <2>3, <2>4 DEF ArmInv, AwaitsOwn, AutoTyped
  <2>6. DoneMeansArmed'
    BY <2>1, <2>3 DEF ArmInv, DoneMeansArmed
  <2> QED BY <2>2, <2>5, <2>6 DEF ArmInv
<1>2. CASE Attempt
  <2>1. UNCHANGED <<auto, play, shut, tear>> /\ loop.at = "attempt" /\ ops' = ops
    BY <1>2 DEF Attempt, AutoCall, opsVars
  <2>2. loop' \in LoopTask /\ loop'.at \in {"sleep", "call"}
    <3>1. \/ loop' = [loop EXCEPT !.at = "sleep", !.op = 0]
          \/ loop' = [loop EXCEPT !.at = "call"]
      BY <1>2 DEF Attempt, Skip
    <3>2. ASSUME loop' = [loop EXCEPT !.at = "sleep", !.op = 0]
          PROVE  loop' \in LoopTask /\ loop'.at = "sleep"
      <4>1. 0 \in Nat
        OBVIOUS
      <4> QED BY <1>0, <3>2, <4>1, MovedTyped
    <3>3. loop' = [loop EXCEPT !.at = "call"] => loop' \in LoopTask /\ loop'.at = "call"
      BY <1>0 DEF LoopTask
    <3> QED BY <3>1, <3>2, <3>3
  <2>3. AwaitsOwn' /\ AutoTyped' /\ ShutOK'
    BY <2>1, <2>2 DEF ArmInv, AwaitsOwn, AutoTyped, ShutOK
  <2>4. DoneMeansArmed'
    BY <2>1 DEF ArmInv, DoneMeansArmed
  <2>5. lock' = lock \/ (lock'.at = "list" /\ lock'.project = AutoProject)
    BY <1>2 DEF Attempt, AutoCall, Idle, opsVars
  <2>6. Sources'
    BY <2>1, <2>5, SourcesKept DEF ArmInv
  <2> QED BY <2>3, <2>4, <2>6 DEF ArmInv
<1> QED BY <1>1, <1>2

LEMMA CallArms ==
  ASSUME BInv, BInv', ArmInv, Carried, AutoCalled \/ AutoSent
  PROVE  ArmInv'
PROOF
<1>0. auto \in AutoState /\ loop \in LoopTask /\ lock \in Holder /\ 0 \in Nat
  BY LockTyped DEF ArmInv, AutoTyped
<1>1. UNCHANGED <<auto, play, shut, tear>> /\ lock.who = "auto_load" /\ loop.at = "call"
  BY DEF AutoCalled, AutoSent, AutoListed, BInv, LoopInv, CallHoldsLock
<1>2. auto.failures # 3
  BY <1>1 DEF ArmInv, AutoTyped
<1>3. AutoTyped' /\ ShutOK' /\ DoneMeansArmed'
  BY <1>0, <1>1, <1>2 DEF ArmInv, AutoTyped, ShutOK, DoneMeansArmed, Carried, Carries
<1>4. CASE AutoCalled
  <2>1. Send(lock) \/ Free
    BY <1>4 DEF AutoCalled, AutoListed
  <2>2. loop'.at # "await"
    <3>1. loop' = [loop EXCEPT !.at = "sleep", !.op = 0] \/ loop' = loop
      BY <1>4 DEF AutoCalled, Skip
    <3> QED BY <1>0, <1>1, <3>1, MovedTyped
  <2>3. Sources'
    <3>1. CASE Send(lock)
      <4>1. Registers(lock) /\ lock.project = AutoProject
        BY <1>0, <1>1, <3>1, SendRegisters DEF ArmInv, Sources
      <4> QED BY <4>1, SourcesGrow DEF ArmInv
    <3>2. CASE Free
      <4>1. DOMAIN ops' = DOMAIN ops /\ lock'.at # "send" /\ lock'.who # "auto_load"
        BY <3>2 DEF Free, Idle
      <4> QED BY <4>1, SourcesKept DEF ArmInv
    <3> QED BY <2>1, <3>1, <3>2
  <2> QED BY <1>3, <2>2, <2>3 DEF ArmInv, AwaitsOwn
<1>5. CASE AutoSent
  <2>1. SendEnds
    BY <1>5, SendIsOver DEF AutoSent
  <2>2. Sources'
    <3>1. DOMAIN ops' = DOMAIN ops /\ lock'.at # "send" /\ lock'.who # "auto_load"
      BY <2>1, LockTyped DEF SendEnds
    <3> QED BY <3>1, SourcesKept DEF ArmInv
  <2>3. Newest \in Nat /\ Newest \in DOMAIN ops' /\ ops'[Newest].source = "auto_load"
    BY <1>1, <2>1, LockTyped DEF ArmInv, Sources, SendEnds, Carried, Carries
  <2>4. AwaitsOwn'
    <3>1. \/ loop' = [loop EXCEPT !.at = "await", !.op = Newest]
          \/ loop' = [loop EXCEPT !.at = "sleep", !.op = 0]
      BY <1>5 DEF AutoSent, Skip
    <3>2. loop' = [loop EXCEPT !.at = "await", !.op = Newest] => loop'.op = Newest
      BY <1>0 DEF LoopTask
    <3>3. loop' = [loop EXCEPT !.at = "sleep", !.op = 0] => loop'.at = "sleep"
      BY <1>0 DEF LoopTask
    <3> QED BY <2>3, <3>1, <3>2, <3>3 DEF AwaitsOwn
  <2> QED BY <1>3, <2>2, <2>4 DEF ArmInv
<1> QED BY <1>4, <1>5

\* _try_auto_load's verdict on the operation it awaited.
LEMMA VerdictArms ==
  ASSUME BInv, BInv', ArmInv, Carried, Awaited
  PROVE  ArmInv'
PROOF
<1> DEFINE op    == ops[loop.op]
           armed == op.state \in {"armed", "degraded"}
           erred == op.state = "failed" /\ op.reason = "editor_error"
           named == IF auto.name = NoName /\ ProjectLoaded(cache)
                      THEN [auto EXCEPT !.name = cache.load] ELSE auto
           fails == named.failures + 1
           done  == [named EXCEPT !.done = TRUE, !.name = cache.load, !.failures = 0]
           tried == [named EXCEPT !.failures = fails, !.disabled = @ \/ fails = 3]
<1>0. auto \in AutoState /\ loop \in LoopTask /\ 0 \in Nat /\ cache.load \in Loads \cup {Unknown}
  BY LockTyped DEF ArmInv, AutoTyped, BInv, IInv, OpsTypeOK, Cache
<1>1. UNCHANGED <<ops, lock, shut, tear>> /\ loop.at = "await"
  BY DEF Awaited, opsVars
<1>2. loop' = [loop EXCEPT !.at = "sleep", !.op = 0] /\ play' \in {play, "wait"}
  BY DEF Awaited, Skip
<1>3. (armed /\ auto' = done) \/ auto' = tried \/ auto' = named
  BY DEF Awaited
<1>4. loop.op \in DOMAIN ops /\ op.project = AutoProject /\ (armed => op.accepted)
  BY <1>1 DEF ArmInv, AwaitsOwn, Sources, BInv, IInv, LifeOK, Consistent
<1> HIDE DEF op, armed
<1>5. named \in AutoState /\ named.done = auto.done /\ named.failures = auto.failures
      /\ auto.failures # 3
  <2>1. auto.failures # 3
    BY <1>1 DEF ArmInv, AutoTyped
  <2> QED BY <1>0, <2>1 DEF AutoState
<1> HIDE DEF named
<1>6. fails \in 0..3
  BY <1>5 DEF AutoState
<1>7. done \in AutoState /\ done.failures = 0
  <2>1. 0 \in 0..3 /\ TRUE \in BOOLEAN /\ cache.load \in Loads \cup {Unknown, NoName}
    BY <1>0
  <2> QED BY <1>5, <2>1 DEF AutoState
<1>8. tried \in AutoState /\ tried.done = auto.done /\ (tried.failures = 3 => tried.disabled)
  BY <1>5, <1>6 DEF AutoState
<1> HIDE DEF done, tried, fails
<1>9. auto' \in AutoState /\ (auto'.failures = 3 => auto'.disabled)
      /\ (auto'.done => auto.done \/ armed)
  BY <1>3, <1>5, <1>7, <1>8
<1>10. loop'.at = "sleep"
  BY <1>0, <1>2 DEF LoopTask
<1>11. AutoTyped' /\ AwaitsOwn'
  BY <1>9, <1>10 DEF AutoTyped, AwaitsOwn
<1>12. DoneMeansArmed'
  BY <1>1, <1>4, <1>9 DEF ArmInv, DoneMeansArmed, op
<1>13. Sources' /\ ShutOK'
  BY <1>1, <1>2, SourcesKept DEF ArmInv, ShutOK
<1> QED BY <1>11, <1>12, <1>13 DEF ArmInv

LEMMA ArmInit == Init => ArmInv
PROOF
<1> SUFFICES ASSUME Init PROVE ArmInv
  OBVIOUS
<1>1. ops = <<>> /\ lock = Idle /\ DOMAIN ops = {}
  BY DEF Init, OpsInit
<1>2. ShutOK
  BY DEF Init, ShutOK, NoTear, Tear
<1>3. auto \in AutoState /\ auto.failures = 0 /\ ~auto.done
  BY DEF Init, AutoState
<1>4. loop.at \in {"none", "sleep"}
  BY DEF Init, NoLoop, FreshLoop
<1> QED BY <1>1, <1>2, <1>3, <1>4
        DEF ArmInv, Sources, AwaitsOwn, AutoTyped, DoneMeansArmed, Idle

LEMMA ArmStep == BInv /\ ArmInv /\ [Next]_vars => ArmInv'
PROOF
<1> SUFFICES ASSUME BInv, ArmInv, [Next]_vars PROVE ArmInv'
  OBVIOUS
<1>0. Carried /\ BInv'
  BY BridgeCarries
<1>1. CASE UNCHANGED vars
  BY <1>1 DEF vars, ArmInv, ShutOK, Sources, AwaitsOwn, AutoTyped, DoneMeansArmed, Newest
<1>2. CASE Tick \/ Attempt \/ AutoCalled \/ AutoSent \/ Awaited
  BY <1>0, <1>2, TickArms, CallArms, VerdictArms
<1>3. CASE BridgeLoad
  BY <1>0, <1>3, LoadWaits, OperatorArms
<1>4. CASE BridgeUnload \/ (\E off \in BOOLEAN : BridgeChecked(off)) \/ PlayCancelled
  <2>1. \E h \in Holder : OperatorBlock(h)
    BY <1>4, OperatorBlocks
  <2> QED BY <1>0, <2>1, OperatorArms
<1>5. CASE LoopCancelled
  BY <1>0, <1>5, OperatorArms
<1>6. CASE LoopUnwinds \/ OperatorSent
  BY <1>0, <1>6, EventArms
<1>7. CASE BridgeFrame \/ \E i \in DOMAIN ops : BridgeOpEvent(i) \/ BridgeUnloadEnds(i)
  BY <1>0, <1>7, EventsHeard, EventArms
<1>8. CASE \/ PlayPoll \/ PlayGivesUp \/ BridgeSocket
           \/ \E force \in BOOLEAN : ShutPress(force)
           \/ ShutNodesOff \/ ShutAbort \/ ShutEnds
  BY <1>0, <1>8, StaysApart, EventArms DEF ArmInv
<1> QED BY <1>1, <1>2, <1>3, <1>4, <1>5, <1>6, <1>7, <1>8 DEF Next

LEMMA Arming == Spec => [](BInv /\ ArmInv)
PROOF
<1> QED BY BridgeInit, BridgeStep, ArmInit, ArmStep, PTL DEF Spec

\* Auto-load's once-only load is spent only when the engine armed a load of the auto
\* project, its own or an operator's (_try_auto_load, D10), with any number of
\* operations, restarts of the loop, failures and shutdowns in between.
THEOREM DoneArmed == Spec => []DoneMeansArmed
PROOF
<1>1. ArmInv => DoneMeansArmed
  BY DEF ArmInv
<1> QED BY <1>1, Arming, PTL

\* Types of the whole bridge; three failures are the most auto-load counts.
THEOREM BridgeTyped == Spec => []BridgeTypeOK
PROOF
<1>1. BInv /\ ArmInv => BridgeTypeOK
  BY DEF BInv, IInv, LoopInv, LoopConfigured, ArmInv, ShutOK, AutoTyped, BridgeTypeOK
<1> QED BY <1>1, Arming, PTL

----------------------------------------------------------------------------
\* Who may send while the shutdown holds its lock.

LEMMA GrowsBySend ==
  ASSUME BInv, ArmInv, [Next]_vars
  PROVE  \/ DOMAIN ops' = DOMAIN ops
         \/ \E h \in Holder : Registers(h) /\ (Locked => h.who = "auto_load")
PROOF
<1>0. lock \in Holder
  BY LockTyped
<1>1. CASE UNCHANGED vars \/ Tick \/ Attempt \/ Awaited
  <2>1. ops' = ops
    BY <1>1 DEF vars, Tick, Attempt, AutoCall, Awaited, opsVars
  <2> QED BY <2>1
<1>2. CASE AutoCalled
  <2>1. lock.who = "auto_load" /\ (Send(lock) \/ Free)
    BY <1>2 DEF AutoCalled, AutoListed
  <2> QED BY <1>0, <2>1, SendRegisters DEF Free
<1>3. CASE AutoSent \/ OperatorSent
  BY <1>3, SendIsOver DEF AutoSent, OperatorSent, SendEnds
<1>4. CASE BridgeLoad \/ LoopUnwinds
  BY <1>4, LoadWaits DEF OperatorWaits, LoopUnwinds, opsVars
<1>5. CASE BridgeUnload \/ (\E off \in BOOLEAN : BridgeChecked(off)) \/ PlayCancelled
  <2>1. PICK h \in Holder : OperatorBlock(h)
    BY <1>5, OperatorBlocks
  <2> QED BY <2>1, SendRegisters DEF OperatorBlock, Teardown, Free
<1>6. CASE LoopCancelled
  <2>1. (Send(lock) /\ ~Locked) \/ Free
    BY <1>6 DEF LoopCancelled
  <2> QED BY <1>0, <2>1, SendRegisters DEF Free
<1>7. CASE BridgeFrame \/ \E i \in DOMAIN ops : BridgeOpEvent(i) \/ BridgeUnloadEnds(i)
  BY <1>7, EventsHeard DEF Heard
<1>8. CASE \/ PlayPoll \/ PlayGivesUp \/ BridgeSocket
           \/ \E force \in BOOLEAN : ShutPress(force)
           \/ ShutNodesOff \/ ShutAbort \/ ShutEnds
  BY <1>8, StaysApart DEF Apart, ArmInv
<1> QED BY <1>1, <1>2, <1>3, <1>4, <1>5, <1>6, <1>7, <1>8 DEF Next

\* No press becomes an operation while /shutdown runs, wherever its coroutine stood
\* when the shutdown began: at the list, at the nodes or in its teardown.
THEOREM RefusedInShutdown == Spec => ShutdownRefuses
PROOF
<1>1. ASSUME BInv, ArmInv, [Next]_vars, Locked, Len(ops') > Len(ops)
      PROVE  ops'[Len(ops')].source = "auto_load"
  <2>1. BInv'
    BY <1>1, BridgeCarries
  <2>2. Newest \in Nat
    BY <1>1, LockTyped
  <2>3. DOMAIN ops' # DOMAIN ops
    BY <1>1, <2>1, <2>2, NewestKept DEF Newest, BInv, IInv
  <2> QED BY <1>1, <2>3, GrowsBySend DEF Registers, Newest
<1>2. BInv /\ ArmInv /\ [Next]_vars =>
        [Locked /\ ops' # ops /\ Len(ops') > Len(ops)
           => ops'[Len(ops')].source = "auto_load"]_vars
  BY <1>1
<1> QED BY <1>2, Arming, PTL DEF Spec, ShutdownRefuses

----------------------------------------------------------------------------
\* How auto-load comes back.

\* The four ends after which the loop has to run again.
Hopeless(op) ==
  op.overdue \/ op.reason \in {"editor_error", "editor_lost", "editor_timeout", "editor_unavailable"}

\* The loop is being cancelled only while the press that cancels it waits for that.
Canceller ==
  loop.at = "cancelling" => tear.on = "loop" /\ lock.at = "teardown" /\ lock.who = "operator"

\* While auto-load may run and its loop does not, a press is about to start it again
\* or the current operation is an operator's that went well so far.
Back ==
  AutoProject # NoProject /\ ~auto.disabled /\ ~MayShutdown /\ ~Running(loop)
    => Paused \/ \E op \in Current : op.source = "operator" /\ ~Hopeless(op)

\* A step of the loop's own task.
LoopActs ==
  /\ loop.at \in {"sleep", "attempt", "call", "await"}
  /\ loop'.at \in {"sleep", "attempt", "call", "await", "ended"}
  /\ loop'.at = "ended" => auto'.disabled
  /\ loop'.owned = loop.owned /\ tear' = tear
  /\ lock' = lock \/ lock'.at \in {"idle", "list"} \/ lock'.who = "auto_load"
  /\ DOMAIN ops' = DOMAIN ops \/ \E h \in Holder : Registers(h) /\ h.who = "auto_load"

LEMMA TaskActs ==
  ASSUME BInv, ArmInv, Tick \/ Attempt \/ AutoCalled \/ AutoSent \/ Awaited
  PROVE  LoopActs
PROOF
<1>0. loop \in LoopTask /\ lock \in Holder /\ auto \in AutoState /\ 0 \in Nat /\ Newest \in Nat
      /\ (lock.who = "auto_load" <=> loop.at = "call")
  BY LockTyped DEF ArmInv, AutoTyped, BInv, LoopInv, CallHoldsLock
<1>1. ASSUME NEW at \in {"sleep", "attempt", "call", "await", "ended"}, NEW n \in Nat,
             loop' \in {[loop EXCEPT !.at = at], [loop EXCEPT !.at = at, !.op = n]}
      PROVE  loop'.at = at /\ loop'.owned = loop.owned
  BY <1>0, <1>1 DEF LoopTask
<1>2. CASE Tick
  <2>1. UNCHANGED <<ops, cur, lock, tear>> /\ loop.at = "sleep"
    BY <1>2 DEF Tick, opsVars
  <2>2. \/ loop' = [loop EXCEPT !.at = "ended"] /\ auto'.disabled
        \/ loop' = [loop EXCEPT !.at = "attempt"]
    BY <1>0, <1>2 DEF Tick, AutoState
  <2>3. loop'.at \in {"ended", "attempt"} /\ (loop'.at = "ended" => auto'.disabled)
        /\ loop'.owned = loop.owned
    BY <1>0, <1>1, <2>2
  <2> QED BY <1>0, <2>1, <2>3 DEF LoopActs
<1>3. CASE Attempt
  <2>1. UNCHANGED <<ops, cur, tear>> /\ loop.at = "attempt"
        /\ (lock' = lock \/ lock'.at = "list")
    BY <1>3 DEF Attempt, AutoCall, Idle, opsVars
  <2>2. loop' = [loop EXCEPT !.at = "sleep", !.op = 0] \/ loop' = [loop EXCEPT !.at = "call"]
    BY <1>3 DEF Attempt, Skip
  <2>3. loop'.at \in {"sleep", "call"} /\ loop'.owned = loop.owned
    BY <1>0, <1>1, <2>2
  <2> QED BY <1>0, <2>1, <2>3 DEF LoopActs
<1>4. CASE AutoCalled
  <2>1. lock.who = "auto_load" /\ (Send(lock) \/ Free) /\ tear' = tear /\ loop.at = "call"
    BY <1>0, <1>4 DEF AutoCalled, AutoListed
  <2>2. Registers(lock) \/ (DOMAIN ops' = DOMAIN ops /\ lock'.at = "idle")
    BY <1>0, <2>1, SendRegisters DEF Free, Idle
  <2>3. loop' = [loop EXCEPT !.at = "sleep", !.op = 0] \/ loop' = loop
    BY <1>4 DEF AutoCalled, Skip
  <2>4. loop'.at \in {"sleep", "call"} /\ loop'.owned = loop.owned
    BY <1>0, <1>1, <2>1, <2>3
  <2> QED BY <1>0, <2>1, <2>2, <2>4 DEF LoopActs, Registers
<1>5. CASE AutoSent
  <2>1. lock.who = "auto_load" /\ SendEnds /\ tear' = tear /\ loop.at = "call"
    BY <1>0, <1>5, SendIsOver DEF AutoSent
  <2>2. \/ loop' = [loop EXCEPT !.at = "await", !.op = Newest]
        \/ loop' = [loop EXCEPT !.at = "sleep", !.op = 0]
    BY <1>5 DEF AutoSent, Skip
  <2>3. loop'.at \in {"await", "sleep"} /\ loop'.owned = loop.owned
    BY <1>0, <1>1, <2>2
  <2> QED BY <2>1, <2>3 DEF LoopActs, SendEnds, Idle
<1>6. CASE Awaited
  <2>1. UNCHANGED <<ops, cur, lock, tear>> /\ loop.at = "await"
        /\ loop' = [loop EXCEPT !.at = "sleep", !.op = 0]
    BY <1>6 DEF Awaited, Skip, opsVars
  <2>2. loop'.at = "sleep" /\ loop'.owned = loop.owned
    BY <1>0, <1>1, <2>1
  <2> QED BY <1>0, <2>1, <2>2 DEF LoopActs
<1> QED BY <1>2, <1>3, <1>4, <1>5, <1>6

\* What a step makes of the loop when the loop's task does not act.
LEMMA LoopStays ==
  ASSUME BInv, loop' = loop \/ \E a, last : loop' = Restarted(a, last)
  PROVE  loop'.at = loop.at \/ (loop'.at = "sleep" /\ ~Running(loop))
PROOF
  BY RestartedFacts

LEMMA CancellerStep ==
  ASSUME BInv, ArmInv, Canceller, [Next]_vars
  PROVE  Canceller'
PROOF
<1> SUFFICES ASSUME loop'.at = "cancelling"
             PROVE  tear'.on = "loop" /\ lock'.at = "teardown" /\ lock'.who = "operator"
  BY DEF Canceller
<1>0. lock \in Holder /\ loop \in LoopTask
  BY LockTyped
<1>1. CASE UNCHANGED vars
  BY <1>1 DEF vars, Canceller
<1>2. CASE Tick \/ Attempt \/ AutoCalled \/ AutoSent \/ Awaited
  BY <1>2, TaskActs DEF LoopActs
<1>3. CASE BridgeLoad
  BY <1>3, LoadWaits DEF OperatorWaits, Canceller
<1>4. CASE BridgeUnload \/ (\E off \in BOOLEAN : BridgeChecked(off)) \/ PlayCancelled
  <2>1. PICK h \in Holder : OperatorBlock(h)
    BY <1>4, OperatorBlocks
  <2>2. Teardown(h) /\ tear' = [on |-> "loop", paused |-> TRUE]
    BY <2>1 DEF OperatorBlock, Canceller
  <2>3. lock'.at = "teardown" /\ lock'.who = "operator"
    BY <2>1, <2>2 DEF Teardown, Holder, OperatorBlock
  <2> QED BY <2>2, <2>3
<1>5. CASE LoopCancelled
  <2>1. loop' \in {[loop EXCEPT !.owned = FALSE], NoLoop, Restarted(auto, Current)}
        /\ loop.at # "cancelling"
    BY <1>5 DEF LoopCancelled
  <2>2. loop'.at # "cancelling"
    <3>1. [loop EXCEPT !.owned = FALSE].at = loop.at /\ NoLoop.at = "none"
      BY <1>0 DEF LoopTask, NoLoop
    <3>2. Restarted(auto, Current).at \in {loop.at, "sleep"}
      BY RestartedFacts
    <3> QED BY <2>1, <3>1, <3>2
  <2> QED BY <2>2
<1>6. CASE LoopUnwinds
  <2>1. loop'.at = "ended"
    BY <1>0, <1>6 DEF LoopUnwinds, LoopTask
  <2> QED BY <2>1
<1>7. CASE OperatorSent
  <2>1. lock.at = "send" /\ (loop' = loop \/ \E a, last : loop' = Restarted(a, last))
    BY <1>7, SendIsOver DEF OperatorSent, TerminalLoop, SendEnds
  <2> QED BY <2>1, LoopStays DEF Canceller
<1>8. CASE BridgeFrame \/ \E i \in DOMAIN ops : BridgeOpEvent(i) \/ BridgeUnloadEnds(i)
  <2>1. lock' = lock /\ tear' = tear /\ (loop' = loop \/ \E a, last : loop' = Restarted(a, last))
    BY <1>8, EventsHeard DEF Heard, TerminalLoop
  <2> QED BY <2>1, LoopStays DEF Canceller
<1>9. CASE \/ PlayPoll \/ PlayGivesUp \/ BridgeSocket
           \/ \E force \in BOOLEAN : ShutPress(force)
           \/ ShutNodesOff \/ ShutAbort \/ ShutEnds
  BY <1>9, StaysApart DEF Apart, ArmInv, Canceller
<1> QED BY <1>1, <1>2, <1>3, <1>4, <1>5, <1>6, <1>7, <1>8, <1>9 DEF Next

\* The loop is not started again only for an operation of the operator that is still
\* tracked, and such an operation is not hopeless.
LEMMA RestartFails ==
  ASSUME BInv, ShutOK, ~MayShutdown, AutoProject # NoProject,
         NEW a, ~a.disabled, NEW last, loop' = Restarted(a, last), ~Running(loop')
  PROVE  \E op \in last : op.source = "operator" /\ Tracked(op)
PROOF
<1>1. ~Locked
  BY DEF ShutOK, Locked
<1>2. Running(FreshLoop)
  BY DEF Running, FreshLoop
<1> QED BY <1>1, <1>2 DEF Restarted

LEMMA TrackedIsHopeful ==
  ASSUME NEW op, Consistent(op), Tracked(op)
  PROVE  ~Hopeless(op)
PROOF
  BY DEF Consistent, Tracked, Hopeless

LEMMA CurrentFacts ==
  ASSUME BInv
  PROVE  /\ cur = 0 \/ cur \in DOMAIN ops
         /\ 0 \notin DOMAIN ops
         /\ \A op \in Current : cur \in DOMAIN ops /\ op = ops[cur] /\ Consistent(op)
         /\ cur \in DOMAIN ops => ops[cur] \in Current
PROOF
<1>1. DOMAIN ops = 1..Newest /\ Newest \in Nat /\ cur \in Nat /\ cur <= Newest
  BY OpsAreOps DEF BInv, IInv, OpsTypeOK, Newest
<1>2. (cur = 0 \/ cur \in DOMAIN ops) /\ 0 \notin DOMAIN ops
  BY <1>1
<1> QED BY <1>2 DEF Current, BInv, IInv, LifeOK

\* The end that makes the current operation hopeless starts the loop again.
LEMMA HopelessRestarts ==
  ASSUME BInv, BInv', Carried, ShutOK, ~MayShutdown, AutoProject # NoProject,
         cur' \in DOMAIN ops, ops[cur'].source = "operator",
         ~Hopeless(ops[cur']), Hopeless(ops'[cur']),
         NEW a, ~a.disabled, TerminalLoop(a)
  PROVE  Running(loop')
PROOF
<1>1. Carries(ops[cur'], ops'[cur']) /\ cur' \in DOMAIN ops'
  BY DEF Carried
<1>2. Ends(cur')
  BY <1>1 DEF Ends, Carries, Hopeless
<1>3. loop' = Restarted(a, {ops'[cur']})
  BY <1>2 DEF TerminalLoop
<1>4. ~Tracked(ops'[cur'])
  BY <1>1, TrackedIsHopeful DEF BInv, IInv, LifeOK
<1> QED BY <1>3, <1>4, RestartFails

\* The current operation of the operator, as hopeful after the step as before.
LEMMA KeepsHope ==
  ASSUME BInv, BInv', Carried, cur' = cur, NEW op \in Current, op.source = "operator",
         ~Hopeless(ops'[cur])
  PROVE  \E new \in Current' : new.source = "operator" /\ ~Hopeless(new)
PROOF
<1>1. cur \in DOMAIN ops /\ op = ops[cur]
  BY CurrentFacts
<1>2. cur' \in DOMAIN ops' /\ ops'[cur].source = "operator"
  BY <1>1 DEF Carried, Carries
<1>3. ops'[cur] \in Current'
  BY <1>2, CurrentFacts DEF Current
<1> QED BY <1>2, <1>3

LEMMA OperatorBack ==
  ASSUME BInv, BInv', ArmInv, Carried, Unsent, Back, Canceller,
         AutoProject # NoProject, ~auto.disabled, ~auto'.disabled, ~MayShutdown, ~Running(loop'),
         OperatorWaits \/ (\E h \in Holder : OperatorBlock(h)) \/ LoopCancelled \/ OperatorSent
  PROVE  Paused' \/ \E op \in Current' : op.source = "operator" /\ ~Hopeless(op)
PROOF
<1>0. lock \in Holder /\ loop \in LoopTask /\ ShutOK
  BY LockTyped DEF ArmInv
<1>1. CASE OperatorWaits
  <2>1. ~Paused /\ loop' = loop /\ Current' = Current
    BY <1>1 DEF OperatorWaits, Paused, Current
  <2> QED BY <2>1 DEF Back
<1>2. ASSUME NEW h \in Holder, OperatorBlock(h)
      PROVE  \E op \in Current' : op.source = "operator" /\ ~Hopeless(op)
  <2>1. loop' = loop
    <3>1. loop' = loop \/ loop' = [loop EXCEPT !.at = "cancelling"]
      BY <1>2 DEF OperatorBlock
    <3> QED BY <1>0, <3>1 DEF Running, LoopTask
  <2>2. PICK op \in Current : op.source = "operator" /\ ~Hopeless(op)
    BY <1>2, <2>1 DEF OperatorBlock, Paused, Back
  <2>3. cur' = cur /\ ops'[cur] = ops[cur]
    <3>1. Registers(h) \/ UNCHANGED <<ops, cur>>
      BY <1>2, SendRegisters DEF OperatorBlock, Teardown, Free
    <3>2. cur \in DOMAIN ops
      BY CurrentFacts
    <3> QED BY <3>1, <3>2 DEF Registers
  <2> QED BY <2>2, <2>3, CurrentFacts, KeepsHope
<1>3. CASE LoopCancelled
  <2>1. lock.who = "operator"
    BY <1>3 DEF LoopCancelled, BInv, LoopInv, OperatorTearsDown
  <2>2. CASE Send(lock) /\ tear' = [NoTear EXCEPT !.paused = TRUE]
    <3>1. tear'.paused
      BY <2>2 DEF NoTear
    <3> QED BY <1>0, <2>1, <2>2, <3>1, SendRegisters DEF Registers, Paused
  <2>3. CASE Free /\ loop' = IF Running(loop) THEN [loop EXCEPT !.owned = FALSE]
                             ELSE Restarted(auto, Current)
    <3>1. ~Running(loop)
      <4>1. [loop EXCEPT !.owned = FALSE].at = loop.at
        BY <1>0 DEF LoopTask
      <4> QED BY <2>3, <4>1 DEF Running
    <3>2. PICK op \in Current : op.source = "operator" /\ Tracked(op)
      BY <1>0, <2>3, <3>1, RestartFails
    <3>3. ~Hopeless(op)
      BY <3>2, CurrentFacts, TrackedIsHopeful
    <3>4. Current' = Current
      BY <2>3 DEF Free, Current
    <3> QED BY <3>2, <3>3, <3>4
  <2> QED BY <1>3, <2>2, <2>3 DEF LoopCancelled
<1>4. CASE OperatorSent /\ Sent /\ TerminalLoop(auto')
  <2>1. lock.who = "operator" /\ lock.at = "send" /\ cur' = Newest
    BY <1>4 DEF OperatorSent, Sent, Install
  <2>2. Newest \in DOMAIN ops /\ ops[Newest].source = "operator" /\ ~Hopeless(ops[Newest])
        /\ cur < Newest
    BY <2>1 DEF ArmInv, Sources, Unsent, FreshOp, Hopeless, BInv, IInv, SendsNewest
  <2>3. ~Hopeless(ops'[cur'])
    BY <1>0, <1>4, <2>1, <2>2, HopelessRestarts
  <2>4. cur' \in DOMAIN ops' /\ ops'[cur'].source = "operator"
    BY <2>1, <2>2 DEF Carried, Carries
  <2>5. ops'[cur'] \in Current'
    BY <2>1, <2>2, CurrentFacts DEF Current
  <2> QED BY <2>3, <2>4, <2>5
<1>5. CASE /\ OperatorSent /\ NotSent
           /\ loop' = IF tear.paused THEN Restarted(auto, Current) ELSE loop
  <2>1. lock.who = "operator" /\ lock.at = "send" /\ cur' = cur
    BY <1>5 DEF OperatorSent, NotSent
  <2>2. PICK op \in Current : op.source = "operator" /\ ~Hopeless(op)
    <3>1. CASE tear.paused
      <4>1. PICK op \in Current : op.source = "operator" /\ Tracked(op)
        BY <1>0, <1>5, <3>1, RestartFails
      <4> QED BY <4>1, CurrentFacts, TrackedIsHopeful
    <3>2. CASE ~tear.paused
      BY <1>5, <2>1, <3>2 DEF Paused, Back
    <3> QED BY <3>1, <3>2
  <2>3. ops'[cur] = ops[cur]
    <3>1. cur \in DOMAIN ops /\ cur # Newest
      BY <2>1, <2>2, LockTyped, CurrentFacts DEF BInv, IInv, SendsNewest, OpsTypeOK
    <3> QED BY <1>5, <3>1 DEF NotSent
  <2> QED BY <2>1, <2>2, <2>3, CurrentFacts, KeepsHope
<1> QED BY <1>1, <1>2, <1>3, <1>4, <1>5 DEF OperatorSent

LEMMA HeardBack ==
  ASSUME BInv, BInv', ArmInv, Carried, Back,
         AutoProject # NoProject, ~auto.disabled, ~auto'.disabled, ~MayShutdown, ~Running(loop'),
         Heard \/ Apart
  PROVE  Paused' \/ \E op \in Current' : op.source = "operator" /\ ~Hopeless(op)
PROOF
<1>1. UNCHANGED <<lock, cur, tear>> /\ (loop' = loop \/ \E a, last : loop' = Restarted(a, last))
  BY DEF Heard, Apart, TerminalLoop
<1>2. ~Running(loop)
  BY <1>1, LoopStays DEF Running
<1>3. CASE Paused
  BY <1>1, <1>3 DEF Paused
<1>4. CASE ~Paused
  <2>1. PICK op \in Current : op.source = "operator" /\ ~Hopeless(op)
    BY <1>2, <1>4 DEF Back
  <2>2. cur \in DOMAIN ops /\ op = ops[cur]
    BY CurrentFacts
  <2>3. ~Hopeless(ops'[cur])
    <3>1. CASE Apart
      BY <2>1, <2>2, <3>1 DEF Apart, Hopeless
    <3>2. CASE Heard
      <4>1. PICK a : ~a.disabled /\ TerminalLoop(a)
        BY <3>2 DEF Heard
      <4> QED BY <1>1, <2>1, <2>2, <4>1, HopelessRestarts DEF ArmInv
    <3> QED BY <3>1, <3>2
  <2> QED BY <1>1, <2>1, <2>3, KeepsHope
<1> QED BY <1>3, <1>4

LEMMA BackStep ==
  ASSUME BInv, ArmInv, Unsent, Canceller, Back, [Next]_vars
  PROVE  Back'
PROOF
<1> SUFFICES ASSUME AutoProject # NoProject, ~auto'.disabled, ~MayShutdown, ~Running(loop')
             PROVE  Paused' \/ \E op \in Current' : op.source = "operator" /\ ~Hopeless(op)
  BY DEF Back
<1>0. Carried /\ BInv' /\ auto \in AutoState
  BY BridgeCarries DEF ArmInv, AutoTyped
<1>1. CASE UNCHANGED vars
  BY <1>1 DEF vars, Back, Paused, Current
<1>2. CASE Tick \/ Attempt \/ AutoCalled \/ AutoSent \/ Awaited
  BY <1>2, TaskActs DEF LoopActs, Running
<1>3. ASSUME auto' = auto,
             OperatorWaits \/ (\E h \in Holder : OperatorBlock(h)) \/ LoopCancelled
      PROVE  Paused' \/ \E op \in Current' : op.source = "operator" /\ ~Hopeless(op)
  BY <1>0, <1>3, OperatorBack
<1>4. CASE BridgeLoad
  BY <1>3, <1>4, LoadWaits DEF OperatorWaits
<1>5. CASE BridgeUnload \/ (\E off \in BOOLEAN : BridgeChecked(off)) \/ PlayCancelled
  BY <1>3, <1>5, OperatorBlocks DEF OperatorBlock
<1>6. CASE LoopCancelled
  BY <1>3, <1>6 DEF LoopCancelled
<1>7. CASE OperatorSent \/ BridgeFrame
           \/ \E i \in DOMAIN ops : BridgeOpEvent(i) \/ BridgeUnloadEnds(i)
  <2>1. OperatorSent \/ Heard
    BY <1>7, EventsHeard
  <2>2. auto' \in {auto, Suspended(auto), Credited(auto), Credited(Suspended(auto))}
    BY <2>1 DEF OperatorSent, Heard
  <2>3. ~auto.disabled
    <3>1. Suspended(auto) \in AutoState
      BY <1>0, AutoChanges
    <3>2. auto.disabled => Suspended(auto).disabled /\ Credited(auto).disabled
      BY <1>0, AutoChanges
    <3>3. Credited(Suspended(auto)).disabled = Suspended(auto).disabled
      BY <3>1, AutoChanges
    <3> QED BY <2>2, <3>2, <3>3
  <2> QED BY <1>0, <2>1, <2>3, OperatorBack, HeardBack
<1>8. CASE LoopUnwinds
  <2>1. loop.at = "cancelling" /\ UNCHANGED <<lock, tear>>
    BY <1>8 DEF LoopUnwinds, opsVars
  <2> QED BY <2>1 DEF Canceller, Paused
<1>9. CASE \/ PlayPoll \/ PlayGivesUp \/ BridgeSocket
           \/ \E force \in BOOLEAN : ShutPress(force)
           \/ ShutNodesOff \/ ShutAbort \/ ShutEnds
  <2>1. Apart
    BY <1>9, StaysApart DEF ArmInv
  <2>2. ~auto.disabled
    BY <2>1 DEF Apart
  <2> QED BY <1>0, <2>1, <2>2, HeardBack
<1> QED BY <1>1, <1>2, <1>4, <1>5, <1>6, <1>7, <1>8, <1>9 DEF Next

LEMMA BackInit == Init => Unsent /\ Canceller /\ Back
PROOF
  BY DEF Init, OpsInit, Idle, Unsent, Canceller, Back, NoLoop, FreshLoop, Running

LEMMA Returning == Spec => [](BInv /\ ArmInv /\ Unsent /\ Canceller /\ Back)
PROOF
<1>1. BInv /\ ArmInv /\ Unsent /\ Canceller /\ Back /\ [Next]_vars
        => (BInv /\ ArmInv /\ Unsent /\ Canceller /\ Back)'
  <2>1. BInv /\ Unsent /\ [OpsNext]_opsVars => Unsent'
    BY UnsentStep DEF BInv
  <2> QED BY <2>1, BridgeStep, ArmStep, CancellerStep, BackStep
<1> QED BY <1>1, BridgeInit, ArmInit, BackInit, PTL DEF Spec

\* Without a shutdown, auto-load's loop runs whenever no press is under way and the
\* operator's last operation was refused, not sent, failed at the editor or went
\* overdue, however many presses and restarts came before.
THEOREM FailuresRestart == Spec => []FailedPressRestarts
PROOF
<1>1. Back => FailedPressRestarts
  <2> SUFFICES ASSUME Back, AutoProject # NoProject, ~auto.disabled, ~MayShutdown,
                      lock.who # "operator",
                      \A op \in Current : op.source = "operator" => Hopeless(op)
               PROVE  Running(loop)
    BY DEF FailedPressRestarts, Hopeless
  <2> QED BY DEF Back, Paused
<1> QED BY <1>1, Returning, PTL

----------------------------------------------------------------------------
\* What the first press of an operator stops for good.

NoOperatorYet == \A k \in DOMAIN ops : ops[k].source # "operator"

\* Until an operator has an operation, _auto_load_task refers to the loop that runs,
\* and a press that cancels the loop finds it ended.
Alone ==
  NoOperatorYet =>
    /\ Running(loop) => loop.owned
    /\ tear.on = "loop" /\ lock.at = "teardown" => loop.at \in {"cancelling", "ended"}

\* The first operation of an operator.
First(i) == ops[i].source = "operator" /\ \A k \in 1..(i - 1) : ops[k].source # "operator"

\* A sent load of a project that is not auto-load's.
Foreign(op) == op.installed /\ op.kind = "load" /\ op.project # AutoProject

\* The loop does not run while the first operation is sent, and never again if that
\* loads another project.
FirstStops ==
  \A i \in DOMAIN ops : First(i) =>
    /\ lock.at = "send" /\ i = Newest => ~Running(loop)
    /\ Foreign(ops[i]) => /\ ~Running(loop) /\ (auto.disabled \/ AutoProject = NoProject)
                          /\ \A j \in DOMAIN ops : j > i => ops[j].source # "auto_load"

LEMMA AloneStep ==
  ASSUME BInv, ArmInv, Alone, [Next]_vars
  PROVE  Alone'
PROOF
<1> SUFFICES ASSUME NoOperatorYet'
             PROVE  /\ Running(loop') => loop'.owned
                    /\ tear'.on = "loop" /\ lock'.at = "teardown"
                         => loop'.at \in {"cancelling", "ended"}
  BY DEF Alone
<1>0. Carried /\ BInv' /\ lock \in Holder /\ loop \in LoopTask
  BY BridgeCarries, LockTyped
<1>1. NoOperatorYet
  BY <1>0 DEF NoOperatorYet, Carried, Carries
<1>2. /\ Running(loop) => loop.owned
      /\ tear.on = "loop" /\ lock.at = "teardown" => loop.at \in {"cancelling", "ended"}
  BY <1>1 DEF Alone
<1>3. ASSUME NEW a, NEW last, loop' = loop \/ loop' = Restarted(a, last) \/ loop' = NoLoop
      PROVE  Running(loop') => loop'.owned
  BY <1>2, <1>3 DEF Restarted, FreshLoop, NoLoop, Running
<1>4. CASE UNCHANGED vars
  BY <1>2, <1>4 DEF vars, Running
<1>5. CASE Tick \/ Attempt \/ AutoCalled \/ AutoSent \/ Awaited
  <2>1. LoopActs
    BY <1>5, TaskActs
  <2>2. lock'.at = "teardown" => lock' = lock
    BY <1>0, <2>1 DEF LoopActs, BInv, LoopInv, OperatorTearsDown
  <2> QED BY <1>2, <2>1, <2>2 DEF LoopActs, Running
<1>6. CASE BridgeLoad
  BY <1>2, <1>6, LoadWaits DEF OperatorWaits, Running
<1>7. CASE BridgeUnload \/ (\E off \in BOOLEAN : BridgeChecked(off)) \/ PlayCancelled
  <2>1. PICK h \in Holder : OperatorBlock(h)
    BY <1>7, OperatorBlocks
  <2>2. CASE loop' = loop /\ tear'.on # "loop"
    BY <1>2, <2>2 DEF Running
  <2>3. CASE LoopLive /\ loop' = [loop EXCEPT !.at = "cancelling"]
    <3>1. loop'.at = "cancelling" /\ loop'.owned
      BY <1>0, <2>3 DEF LoopTask, LoopLive
    <3> QED BY <3>1
  <2> QED BY <2>1, <2>2, <2>3 DEF OperatorBlock
<1>8. CASE LoopCancelled
  <2>1. loop.at = "ended"
    BY <1>2, <1>8 DEF LoopCancelled
  <2>2. lock'.at # "teardown" /\ (loop' = NoLoop \/ loop' = Restarted(auto, Current))
    BY <1>0, <1>8, <2>1 DEF LoopCancelled, Send, Free, Idle, Holder, Running
  <2> QED BY <1>3, <2>2
<1>9. CASE LoopUnwinds
  <2>1. loop'.at = "ended"
    BY <1>0, <1>9 DEF LoopUnwinds, LoopTask
  <2> QED BY <2>1 DEF Running
<1>10. CASE OperatorSent
  <2>1. lock'.at = "idle" /\ (loop' = loop \/ \E a, last : loop' = Restarted(a, last))
    BY <1>10, SendIsOver DEF OperatorSent, TerminalLoop, SendEnds, Idle
  <2> QED BY <1>3, <2>1
<1>11. CASE BridgeFrame \/ \E i \in DOMAIN ops : BridgeOpEvent(i) \/ BridgeUnloadEnds(i)
  <2>1. UNCHANGED <<lock, tear>> /\ \E a : TerminalLoop(a)
    BY <1>11, EventsHeard DEF Heard
  <2>2. loop' = loop
    BY <1>1, <2>1 DEF TerminalLoop, Ends, NoOperatorYet
  <2> QED BY <1>2, <2>1, <2>2 DEF Running
<1>12. CASE \/ PlayPoll \/ PlayGivesUp \/ BridgeSocket
            \/ \E force \in BOOLEAN : ShutPress(force)
            \/ ShutNodesOff \/ ShutAbort \/ ShutEnds
  BY <1>2, <1>12, StaysApart DEF Apart, ArmInv, Running
<1> QED BY <1>4, <1>5, <1>6, <1>7, <1>8, <1>9, <1>10, <1>11, <1>12 DEF Next

LEMMA NoRestart ==
  ASSUME NEW a, a.disabled \/ AutoProject = NoProject, NEW last
  PROVE  Restarted(a, last) = loop
PROOF
  BY DEF Restarted

LEMMA FirstKept ==
  ASSUME BInv, BInv', Carried, NEW i \in DOMAIN ops, First(i)'
  PROVE  First(i)
PROOF
<1>1. DOMAIN ops = 1..Newest /\ Newest \in Nat /\ i \in Nat /\ i <= Newest
  BY OpsAreOps DEF BInv, IInv
<1>2. \A k \in 1..(i - 1) : k \in DOMAIN ops
  BY <1>1
<1> QED BY <1>2 DEF First, Carried, Carries

LEMMA ForeignKept ==
  ASSUME Carried, NEW i \in DOMAIN ops, Foreign(ops'[i])
  PROVE  Foreign(ops[i]) \/ (lock.at = "send" /\ i = Newest /\ cur' = Newest)
PROOF
  BY DEF Foreign, Carried, Carries

\* A new operation of the operator is the first if none was there.
LEMMA FirstRegistered ==
  ASSUME BInv, BInv', Carried, NEW h, Registers(h), NEW i \in DOMAIN ops', First(i)'
  PROVE  \/ i \in DOMAIN ops /\ First(i) /\ i # Newest' /\ ops'[i] = ops[i]
         \/ i = Newest + 1 /\ NoOperatorYet /\ h.who = "operator" /\ ~ops'[i].installed
PROOF
<1>1. DOMAIN ops = 1..Newest /\ Newest \in Nat
  BY OpsAreOps DEF BInv, IInv
<1>2. CASE i \in DOMAIN ops
  <2>1. First(i)
    BY <1>2, FirstKept
  <2> QED BY <1>1, <1>2, <2>1 DEF Registers
<1>3. CASE i \notin DOMAIN ops
  <2>1. i = Newest + 1
    BY <1>3 DEF Registers
  <2>2. \A k \in DOMAIN ops : k \in 1..(i - 1)
    BY <1>1, <2>1
  <2> QED BY <2>1, <2>2 DEF Registers, First, NoOperatorYet
<1> QED BY <1>2, <1>3

\* FirstStops for one operation, after a step.
Stopped(i) ==
  /\ lock.at = "send" /\ i = Newest => ~Running(loop)
  /\ Foreign(ops[i]) => /\ ~Running(loop) /\ (auto.disabled \/ AutoProject = NoProject)
                        /\ \A j \in DOMAIN ops : j > i => ops[j].source # "auto_load"

\* A step that sends nothing and installs nothing of the operator's.
LEMMA KeepsStopped ==
  ASSUME BInv, BInv', Carried, DOMAIN ops' = DOMAIN ops, NEW i \in DOMAIN ops, Stopped(i),
         Foreign(ops'[i]) => Foreign(ops[i]),
         auto.disabled => auto'.disabled,
         lock'.at = "send" => lock' = lock /\ (i = Newest /\ ~Running(loop) => ~Running(loop')),
         Foreign(ops[i]) /\ ~Running(loop) => ~Running(loop')
  PROVE  Stopped(i)'
PROOF
<1>1. Newest' = Newest
  BY NewestKept DEF BInv, IInv
<1>2. Foreign(ops'[i]) => \A j \in DOMAIN ops' : j > i => ops'[j].source # "auto_load"
  BY DEF Stopped, Carried, Carries
<1> QED BY <1>1, <1>2 DEF Stopped

\* A step of the operator that registers h's operation while the loop does not run.
LEMMA RegisterStops ==
  ASSUME BInv, BInv', Carried, FirstStops, NEW h, Registers(h), h.who = "operator", auto' = auto,
         NoOperatorYet => ~Running(loop'),
         ~Running(loop) => ~Running(loop'),
         NEW i \in DOMAIN ops', First(i)'
  PROVE  Stopped(i)'
PROOF
<1>1. DOMAIN ops = 1..Newest /\ Newest \in Nat
  BY OpsAreOps DEF BInv, IInv
<1>2. CASE i \in DOMAIN ops /\ First(i) /\ i # Newest' /\ ops'[i] = ops[i]
  <2>1. Stopped(i)
    BY <1>2 DEF FirstStops, Stopped
  <2>2. Foreign(ops[i]) => \A j \in DOMAIN ops' : j > i => ops'[j].source # "auto_load"
    BY <2>1 DEF Stopped, Registers
  <2> QED BY <1>2, <2>1, <2>2 DEF Stopped
<1>3. CASE i = Newest + 1 /\ NoOperatorYet /\ ~ops'[i].installed
  BY <1>3 DEF Stopped, Foreign
<1> QED BY <1>2, <1>3, FirstRegistered

LEMMA TaskStops ==
  ASSUME BInv, BInv', ArmInv, ArmInv', Carried, FirstStops, LoopActs,
         NEW i \in DOMAIN ops', First(i)'
  PROVE  Stopped(i)'
PROOF
<1>1. Running(loop) /\ Sources /\ Sources'
  BY DEF LoopActs, Running, ArmInv
<1>2. i \in DOMAIN ops /\ First(i)
  <2>1. CASE DOMAIN ops' = DOMAIN ops
    BY <2>1, FirstKept
  <2>2. ASSUME NEW h \in Holder, Registers(h), h.who = "auto_load"
        PROVE  i \in DOMAIN ops /\ First(i)
    BY <2>2, FirstRegistered
  <2> QED BY <2>1, <2>2 DEF LoopActs
<1>3. Stopped(i)
  BY <1>2 DEF FirstStops, Stopped
<1>4. ~(lock.at = "send" /\ i = Newest) /\ ~Foreign(ops[i])
  BY <1>1, <1>3 DEF Stopped
<1>5. ~Foreign(ops'[i])
  BY <1>2, <1>4, ForeignKept
<1>6. ~(lock'.at = "send" /\ i = Newest')
  <2> SUFFICES ASSUME lock'.at = "send", i = Newest' PROVE FALSE
    OBVIOUS
  <2>1. lock'.who = "operator"
    BY DEF Sources, First, ArmInv
  <2>2. lock' = lock
    BY <2>1 DEF LoopActs
  <2>3. DOMAIN ops' = DOMAIN ops
    BY <2>1 DEF LoopActs, Registers
  <2>4. Newest' = Newest
    BY <2>3, NewestKept DEF BInv, IInv
  <2> QED BY <1>4, <2>2, <2>4
<1> QED BY <1>5, <1>6 DEF Stopped

LEMMA OperatorStops ==
  ASSUME BInv, BInv', ArmInv, Carried, Alone, FirstStops,
         OperatorWaits \/ (\E h \in Holder : OperatorBlock(h)) \/ LoopCancelled,
         auto' = auto,
         NEW i \in DOMAIN ops', First(i)'
  PROVE  Stopped(i)'
PROOF
<1>0. lock \in Holder /\ loop \in LoopTask
  BY LockTyped
<1>1. ASSUME DOMAIN ops' = DOMAIN ops, cur' = cur, lock'.at # "send",
             Foreign(ops'[i]) /\ ~Running(loop) => ~Running(loop')
      PROVE  Stopped(i)'
  <2>1. First(i) /\ i \in DOMAIN ops
    BY <1>1, FirstKept
  <2>2. Stopped(i)
    BY <2>1 DEF FirstStops, Stopped
  <2>3. lock.at = "send" => cur' # Newest
    BY <1>1, LockTyped DEF BInv, IInv, SendsNewest, OpsTypeOK
  <2>4. Foreign(ops'[i]) => Foreign(ops[i])
    BY <2>1, <2>3, ForeignKept
  <2>5. Foreign(ops'[i]) => \A j \in DOMAIN ops' : j > i => ops'[j].source # "auto_load"
    BY <1>1, <2>2, <2>4 DEF Stopped, Carried, Carries
  <2> QED BY <1>1, <2>2, <2>4, <2>5 DEF Stopped
<1>2. CASE OperatorWaits
  BY <1>1, <1>2 DEF OperatorWaits, Running
<1>3. ASSUME NEW h \in Holder, OperatorBlock(h) PROVE Stopped(i)'
  <2>1. CASE Send(h) /\ ~LoopLive /\ loop' = loop
    <3>1. Registers(h) /\ h.who = "operator"
      BY <1>3, <2>1, SendRegisters DEF OperatorBlock
    <3>2. NoOperatorYet => ~Running(loop')
      BY <2>1 DEF Alone, LoopLive
    <3> QED BY <2>1, <3>1, <3>2, RegisterStops
  <2>2. CASE Teardown(h) \/ Free
    <3>1. UNCHANGED <<ops, cur>> /\ lock'.at # "send"
      BY <2>2 DEF Teardown, Free, Idle, Holder
    <3>2. ~Running(loop) => ~Running(loop')
      BY <1>3 DEF OperatorBlock, LoopLive, Running
    <3> QED BY <1>1, <3>1, <3>2
  <2> QED BY <1>3, <2>1, <2>2 DEF OperatorBlock
<1>4. CASE LoopCancelled
  <2>1. lock.who = "operator" /\ lock.at = "teardown" /\ tear.on = "loop" /\ loop.at # "cancelling"
    BY <1>4 DEF LoopCancelled, BInv, LoopInv, OperatorTearsDown
  <2>2. CASE Send(lock) /\ loop' = IF Running(loop) THEN [loop EXCEPT !.owned = FALSE] ELSE NoLoop
    <3>1. ~Running(NoLoop)
      BY DEF NoLoop, Running
    <3>2. NoOperatorYet => ~Running(loop)
      BY <2>1 DEF Alone, Running
    <3> QED BY <1>0, <2>1, <2>2, <3>1, <3>2, SendRegisters, RegisterStops
  <2>3. CASE Free /\ loop' = IF Running(loop) THEN [loop EXCEPT !.owned = FALSE]
                             ELSE Restarted(auto, Current)
    <3>1. UNCHANGED <<ops, cur>> /\ lock'.at # "send" /\ i \in DOMAIN ops
      BY <2>3 DEF Free, Idle
    <3>2. First(i)
      BY <3>1, FirstKept
    <3>3. Foreign(ops'[i]) => auto.disabled \/ AutoProject = NoProject
      BY <3>1, <3>2 DEF FirstStops
    <3>4. Foreign(ops'[i]) /\ ~Running(loop) => ~Running(loop')
      BY <2>3, <3>3, NoRestart
    <3> QED BY <1>1, <3>1, <3>4
  <2> QED BY <1>4, <2>2, <2>3 DEF LoopCancelled
<1> QED BY <1>2, <1>3, <1>4

LEMMA EventStops ==
  ASSUME BInv, BInv', ArmInv, Carried, FirstStops,
         OperatorSent \/ Heard \/ Apart \/ LoopUnwinds,
         NEW i \in DOMAIN ops', First(i)'
  PROVE  Stopped(i)'
PROOF
<1>0. loop \in LoopTask /\ auto \in AutoState /\ Sources /\ Newest \in Nat
  BY LockTyped DEF ArmInv, AutoTyped
<1>1. DOMAIN ops' = DOMAIN ops
  BY SendIsOver DEF OperatorSent, SendEnds, Heard, Apart, LoopUnwinds, opsVars
<1>2. First(i) /\ i \in DOMAIN ops
  BY <1>1, FirstKept
<1>3. Stopped(i)
  BY <1>2 DEF FirstStops, Stopped
<1>4. Suspended(auto) \in AutoState /\ (auto.disabled => Suspended(auto).disabled)
      /\ Credited(auto).disabled = auto.disabled
  BY <1>0, AutoChanges
<1>5. Credited(Suspended(auto)).disabled = Suspended(auto).disabled
  BY <1>4, AutoChanges
<1>6. lock.at = "send" => cur < Newest /\ cur \in Nat
  BY DEF BInv, IInv, SendsNewest, OpsTypeOK
<1>7. CASE Apart \/ LoopUnwinds
  <2>1. UNCHANGED <<lock, cur, auto>>
    BY <1>7 DEF Apart, LoopUnwinds, opsVars
  <2>2. ~Running(loop) => ~Running(loop')
    BY <1>0, <1>7 DEF Apart, LoopUnwinds, Running, LoopTask
  <2>3. Foreign(ops'[i]) => Foreign(ops[i])
    BY <1>2, <1>6, <2>1, ForeignKept
  <2> QED BY <1>1, <1>2, <1>3, <2>1, <2>2, <2>3, KeepsStopped
<1>8. CASE Heard
  <2>1. UNCHANGED <<lock, cur>> /\ (auto.disabled => auto'.disabled)
    BY <1>4, <1>8 DEF Heard
  <2>2. PICK a : TerminalLoop(a) /\ (auto.disabled => a.disabled)
    BY <1>8, <2>1 DEF Heard
  <2>3. lock.at = "send" /\ i = Newest => loop' = loop
    <3> SUFFICES ASSUME lock.at = "send", i = Newest PROVE ~(Ends(cur') /\ ops[cur'].source = "operator")
      BY <2>2 DEF TerminalLoop
    <3>1. Ends(cur') => cur \in 1..(i - 1)
      BY <1>0, <1>6, <2>1, CurrentFacts DEF Ends
    <3> QED BY <1>2, <2>1, <3>1 DEF First
  <2>4. Foreign(ops'[i]) => Foreign(ops[i])
    BY <1>2, <1>6, <2>1, ForeignKept
  <2>5. Foreign(ops[i]) => loop' = loop
    <3>1. Foreign(ops[i]) => a.disabled \/ AutoProject = NoProject
      BY <1>3, <2>2 DEF Stopped
    <3> QED BY <2>2, <3>1, NoRestart DEF TerminalLoop
  <2> QED BY <1>1, <1>2, <1>3, <2>1, <2>3, <2>4, <2>5, KeepsStopped DEF Running
<1>9. CASE OperatorSent
  <2>1. lock.who = "operator" /\ lock.at = "send" /\ lock'.at # "send"
    BY <1>9, SendIsOver DEF OperatorSent, SendEnds, Idle
  <2>2. auto.disabled => auto'.disabled
    BY <1>4, <1>5, <1>9 DEF OperatorSent
  <2>3. loop' = loop \/ \E last : loop' = Restarted(auto', last)
    BY <1>9 DEF OperatorSent, TerminalLoop
  <2>4. CASE Foreign(ops'[i]) => Foreign(ops[i])
    <3>1. Foreign(ops[i]) => loop' = loop
      BY <1>3, <2>2, <2>3, NoRestart DEF Stopped
    <3> QED BY <1>1, <1>2, <1>3, <2>1, <2>2, <2>4, <3>1, KeepsStopped DEF Running
  <2>5. CASE Foreign(ops'[i]) /\ ~Foreign(ops[i])
    <3>1. i = Newest /\ cur' = Newest
      BY <1>2, <2>5, ForeignKept
    <3>2. ~Running(loop)
      BY <1>3, <2>1, <3>1 DEF Stopped
    <3>3. ops[i].kind = "load" /\ ops[i].project # AutoProject
      BY <1>2, <2>5 DEF Foreign, Carried, Carries
    <3>4. lock.kind = "load" /\ lock.project # AutoProject
      BY <1>0, <2>1, <3>1, <3>3 DEF Sources
    <3>5. Sent
      BY <1>6, <1>9, <2>1, <3>1 DEF OperatorSent, NotSent
    <3>6. auto'.disabled \/ AutoProject = NoProject
      <4>1. auto' = Credited(Suspended(auto))
        BY <1>9, <2>1, <3>1, <3>4, <1>6 DEF OperatorSent, NotSent
      <4>2. AutoProject # NoProject => Suspended(auto).disabled
        BY <1>0 DEF Suspended, AutoState
      <4> QED BY <1>5, <4>1, <4>2
    <3>7. loop' = loop
      BY <2>3, <3>6, NoRestart
    <3>8. \A j \in DOMAIN ops' : ~(j > i)
      <4>1. DOMAIN ops = 1..Newest
        BY OpsAreOps DEF BInv, IInv
      <4> QED BY <1>0, <1>1, <3>1, <4>1
    <3> QED BY <2>1, <3>2, <3>6, <3>7, <3>8 DEF Stopped, Running
  <2> QED BY <2>4, <2>5
<1> QED BY <1>7, <1>8, <1>9

LEMMA FirstStep ==
  ASSUME BInv, ArmInv, Alone, FirstStops, [Next]_vars
  PROVE  FirstStops'
PROOF
<1>0. Carried /\ BInv' /\ ArmInv'
  BY BridgeCarries, ArmStep
<1> SUFFICES ASSUME NEW i \in DOMAIN ops', First(i)' PROVE Stopped(i)'
  BY DEF FirstStops, Stopped
<1>1. CASE UNCHANGED vars
  BY <1>1 DEF vars, FirstStops, First, Stopped, Foreign, Running, Newest
<1>2. CASE Tick \/ Attempt \/ AutoCalled \/ AutoSent \/ Awaited
  BY <1>0, <1>2, TaskActs, TaskStops
<1>3. CASE BridgeLoad
  BY <1>0, <1>3, LoadWaits, OperatorStops DEF OperatorWaits
<1>4. CASE BridgeUnload \/ (\E off \in BOOLEAN : BridgeChecked(off)) \/ PlayCancelled
  <2>1. auto' = auto /\ \E h \in Holder : OperatorBlock(h)
    BY <1>4, OperatorBlocks DEF OperatorBlock
  <2> QED BY <1>0, <2>1, OperatorStops
<1>5. CASE LoopCancelled
  <2>1. auto' = auto
    BY <1>5 DEF LoopCancelled
  <2> QED BY <1>0, <1>5, <2>1, OperatorStops
<1>6. CASE \/ OperatorSent \/ LoopUnwinds \/ BridgeFrame
           \/ \E i_1 \in DOMAIN ops : BridgeOpEvent(i_1) \/ BridgeUnloadEnds(i_1)
  <2>1. OperatorSent \/ LoopUnwinds \/ Heard
    BY <1>6, EventsHeard
  <2> QED BY <1>0, <2>1, EventStops
<1>7. CASE \/ PlayPoll \/ PlayGivesUp \/ BridgeSocket
           \/ \E force \in BOOLEAN : ShutPress(force)
           \/ ShutNodesOff \/ ShutAbort \/ ShutEnds
  <2>1. Apart
    BY <1>7, StaysApart DEF ArmInv
  <2> QED BY <1>0, <2>1, EventStops
<1> QED BY <1>1, <1>2, <1>3, <1>4, <1>5, <1>6, <1>7 DEF Next

LEMMA FirstInit == Init => Alone /\ FirstStops
PROOF
<1> SUFFICES ASSUME Init PROVE Alone /\ FirstStops
  OBVIOUS
<1>1. DOMAIN ops = {} /\ lock.at = "idle"
  BY DEF Init, OpsInit, Idle
<1>2. Running(loop) => loop.owned
  BY DEF Init, NoLoop, FreshLoop, Running
<1> QED BY <1>1, <1>2 DEF Alone, FirstStops

\* Once an operator's first operation has loaded another project, auto-load never
\* sends again, in any configuration (bridge.py:752-754).
THEOREM NeverBehindOperator == Spec => []NotBehindOperator
PROOF
<1>1. BInv /\ ArmInv /\ Alone /\ FirstStops /\ [Next]_vars => (BInv /\ ArmInv /\ Alone /\ FirstStops)'
  BY BridgeStep, ArmStep, AloneStep, FirstStep
<1>2. FirstStops => NotBehindOperator
  BY DEF FirstStops, First, Foreign, NotBehindOperator
<1> QED BY <1>1, <1>2, BridgeInit, ArmInit, FirstInit, PTL DEF Spec
=============================================================================
