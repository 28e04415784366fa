------------------------ MODULE ProjectorPowerProofs ------------------------
(***************************************************************************)
(* Proofs about ProjectorPower, for any fleet, any number of requests and  *)
(* any number of tries: the bound on tasks never bites, the lock is held   *)
(* only behind a cancelled task, the last press that had the lock is the   *)
(* one whose task runs, and a task that reports success is right unless    *)
(* one of the other kind ran beside it.                                    *)
(***************************************************************************)
EXTENDS ProjectorPower, TLAPS

\* The canceller that holds the lock, and its cancelled task.
HeldFor(t) == lock # "none" /\ req[lock].at = "cancel" /\ req[lock].task = t

\* Every task that is not done is in a reference, or is what the lock's
\* holder or the shutdown waits for: four at most.
Covered ==
  \A t \in TaskIds :
    tasks[t].st # "free" => t = ref["on"] \/ t = ref["off"] \/ t = sd.task \/ HeldFor(t)

\* A press that waits for a cancelled task holds the lock.
CancellerHasLock == \A r \in Requests : req[r].at = "cancel" => lock = r

\* The shutdown's task is in no reference: it is the one it cancelled, or its own.
ShutdownTask ==
  /\ sd.task # 0 =>
       /\ \A k \in Kinds : ref[k] # sd.task
       /\ IF sd.at = "join" THEN Running(sd.task) /\ tasks[sd.task].from = "shutdown"
                           ELSE tasks[sd.task].st = "cancelling"
  /\ sd.at = "join" => sd.task # 0
  /\ sd.at = "none" => sd.task = 0

\* No task of a press or of the start is in the reference for kind k.
OnlyLoads(k) == InFlight(ref[k]) => tasks[ref[k]].from \notin {"start", "press"}

\* What the last press, or the one that holds the lock, does not want is in flight
\* for a load only.
OppositeGone ==
  IF lock = "none" THEN \A k \in Kinds : last = k => OnlyLoads(Other(k))
  ELSE \A r \in Requests, k \in Kinds : lock = r /\ req[r].kind = k => OnlyLoads(Other(k))

\* Which tasks there are and who refers to them.
Tracked == /\ PowerTypeOK /\ Covered /\ LockIsBrief /\ CancellerHasLock
           /\ ShutdownTask /\ OppositeGone

\* Two tasks that run and want opposite things know that they race.
RacersKnow ==
  \A t, u \in TaskIds :
    Running(t) /\ Running(u) /\ tasks[t].want # tasks[u].want => tasks[t].raced

\* What a lamp is when a task that wants k has done its part there.
Goal(k) == IF k = "on" THEN {"warm", "on"} ELSE {"cool", "off"}

\* A device a task counts as done is as the task wants it.
DoneIsDone ==
  \A t \in TaskIds, d \in Devices :
    tasks[t].st = "send" /\ ~tasks[t].raced /\ tasks[t].result[d] = "ok"
      => lamp[d] \in Goal(tasks[t].want)

\* Only a power-off queries.
QueryIsOff == \A t \in TaskIds : tasks[t].st = "query" => tasks[t].want = "off"

Reports == RacersKnow /\ DoneIsDone /\ QueryIsOff

\* The inductive invariant.
IInv == Tracked /\ Reports

----------------------------------------------------------------------------
\* Steps of the tasks.

Stages == {"free", "query", "send", "cancelling"}

LEMMA StageSet ==
  ASSUME NEW f \in [TaskIds -> Task], NEW t \in TaskIds, NEW st \in Stages
  PROVE  /\ [f EXCEPT ![t].st = st] \in [TaskIds -> Task]
         /\ \A u \in TaskIds :
              [f EXCEPT ![t].st = st][u] = IF u = t THEN [f[t] EXCEPT !.st = st] ELSE f[u]
PROOF
<1>1. [f[t] EXCEPT !.st = st] \in Task
  BY DEF Task, Stages
<1> QED BY <1>1

LEMMA CancelledFacts ==
  ASSUME tasks \in [TaskIds -> Task], NEW t \in TaskIds
  PROVE  /\ Cancelled(t) \in [TaskIds -> Task]
         /\ Cancelled(t)[t].st = "cancelling"
         /\ \A u \in TaskIds \ {t} : Cancelled(t)[u] = tasks[u]
PROOF
<1>1. [tasks[t] EXCEPT !.st = "cancelling"].st = "cancelling"
  BY DEF Task
<1> QED BY <1>1, StageSet DEF Cancelled, Stages

LEMMA NewTyped ==
  ASSUME NEW want \in Kinds, NEW from \in {"start", "press", "load", "shutdown"},
         NEW st \in Stages
  PROVE  /\ NewTask(want, from, st) \in Task
         /\ NewTask(want, from, st).st = st /\ NewTask(want, from, st).want = want
         /\ NewTask(want, from, st).from = from
         /\ \A d \in Devices : NewTask(want, from, st).result[d] = "none"
PROOF
  BY PowerAssumption DEF NewTask, Task, Results, Stages

LEMMA FreeTyped == Free \in Task /\ Free.st = "free"
PROOF
  BY NewTyped DEF Free, Kinds, Stages

\* What create_task does to the tasks: n is the new one.
IsSpawned(n, f, want, from, st) ==
  /\ n \in TaskIds /\ tasks[n].st = "free"
  /\ f \in [TaskIds -> Task]
  /\ f[n].st = st /\ f[n].want = want /\ f[n].from = from
  /\ \A d \in Devices : f[n].result[d] = "none"
  /\ f[n].raced <=> \E u \in TaskIds : Running(u) /\ tasks[u].want # want
  /\ \A u \in TaskIds \ {n} :
       /\ f[u].st = tasks[u].st /\ f[u].want = tasks[u].want /\ f[u].from = tasks[u].from
       /\ f[u].result = tasks[u].result
       /\ f[u].raced <=> tasks[u].raced \/ (Running(u) /\ tasks[u].want # want)

LEMMA SpawnedFacts ==
  ASSUME tasks \in [TaskIds -> Task], Room,
         NEW want \in Kinds, NEW from \in {"start", "press", "load", "shutdown"},
         NEW st \in Stages
  PROVE  IsSpawned(Next1, Spawned(want, from, st), want, from, st)
PROOF
<1> DEFINE races(t) == Running(t) /\ tasks[t].want # want
           new      == NewTask(want, from, st)
           first    == [new EXCEPT !.raced = \E u \in TaskIds : races(u)]
           f        == Spawned(want, from, st)
<1>1. Next1 \in TaskIds /\ tasks[Next1].st = "free"
  BY DEF Next1, Room
<1>2. new \in Task /\ new.st = st /\ new.want = want /\ new.from = from
      /\ \A d \in Devices : new.result[d] = "none"
  BY NewTyped
<1>3. f = [t \in TaskIds |-> IF t = Next1 THEN first
                             ELSE IF races(t) THEN [tasks[t] EXCEPT !.raced = TRUE] ELSE tasks[t]]
  BY Zenon DEF Spawned
<1> HIDE DEF new
<1>4. /\ first \in Task /\ first.st = st /\ first.want = want /\ first.from = from
      /\ first.result = new.result
      /\ first.raced <=> \E u \in TaskIds : races(u)
  <2> DEFINE b == \E u \in TaskIds : races(u)
  <2>1. b \in BOOLEAN
    OBVIOUS
  <2> HIDE DEF b
  <2>2. /\ [new EXCEPT !.raced = b] \in Task /\ [new EXCEPT !.raced = b].st = st
        /\ [new EXCEPT !.raced = b].want = want /\ [new EXCEPT !.raced = b].from = from
        /\ [new EXCEPT !.raced = b].result = new.result
        /\ [new EXCEPT !.raced = b].raced = b
    BY <1>2, <2>1 DEF Task
  <2> QED BY <2>2 DEF b
<1>5. ASSUME NEW u \in TaskIds \ {Next1}
      PROVE  /\ f[u] \in Task
             /\ f[u].st = tasks[u].st /\ f[u].want = tasks[u].want /\ f[u].from = tasks[u].from
             /\ f[u].result = tasks[u].result
             /\ f[u].raced <=> tasks[u].raced \/ races(u)
  <2>1. f[u] = IF races(u) THEN [tasks[u] EXCEPT !.raced = TRUE] ELSE tasks[u]
    BY <1>3
  <2>2. tasks[u] \in Task
    OBVIOUS
  <2>3. CASE races(u)
    BY <2>1, <2>2, <2>3 DEF Task
  <2>4. CASE ~races(u)
    BY <2>1, <2>2, <2>4
  <2> QED BY <2>3, <2>4
<1>6. f[Next1] = first
  BY <1>1, <1>3
<1> HIDE DEF first
<1>7. f \in [TaskIds -> Task]
  <2>1. \A u \in TaskIds : f[u] \in Task
    BY <1>4, <1>5, <1>6
  <2>2. DOMAIN f = TaskIds /\ f = [u \in TaskIds |-> f[u]]
    BY <1>3
  <2> QED BY <2>1, <2>2
<1> HIDE DEF f
<1>8. f[Next1].raced <=> \E u \in TaskIds : Running(u) /\ tasks[u].want # want
  BY <1>4, <1>6
<1>9. \A d \in Devices : f[Next1].result[d] = "none"
  BY <1>2, <1>4, <1>6
<1>10. IsSpawned(Next1, f, want, from, st)
  BY <1>1, <1>4, <1>5, <1>6, <1>7, <1>8, <1>9 DEF IsSpawned
<1> QED BY <1>10 DEF f

----------------------------------------------------------------------------
\* What the tasks report.

\* create_task: the racers are told.
LEMMA SpawnReports ==
  ASSUME tasks \in [TaskIds -> Task], Reports, lamp' = lamp,
         NEW n, NEW want \in Kinds, NEW from, NEW st \in Stages,
         IsSpawned(n, tasks', want, from, st), st = "query" => want = "off"
  PROVE  Reports'
PROOF
<1>1. RacersKnow'
  BY DEF Reports, RacersKnow, Running, IsSpawned
<1>2. DoneIsDone'
  BY DEF Reports, DoneIsDone, IsSpawned
<1>3. QueryIsOff'
  BY DEF Reports, QueryIsOff, IsSpawned
<1> QED BY <1>1, <1>2, <1>3 DEF Reports

\* A task stops.
LEMMA StopReports ==
  ASSUME Reports, lamp' = lamp, NEW t \in TaskIds,
         tasks'[t].st \in {"free", "cancelling"},
         \A u \in TaskIds \ {t} : tasks'[u] = tasks[u]
  PROVE  Reports'
PROOF
  BY DEF Reports, RacersKnow, DoneIsDone, QueryIsOff, Running

LEMMA SettleReports ==
  ASSUME Reports, lamp \in [Devices -> {"off", "warm", "on", "cool"}],
         NEW d \in Devices, Settle(d), tasks \in [TaskIds -> Task]
  PROVE  Reports'
PROOF
<1>1. tasks' = tasks /\ \A e \in Devices, k \in Kinds : lamp[e] \in Goal(k) => lamp'[e] \in Goal(k)
  BY DEF Settle, Goal
<1>2. \A t \in TaskIds : tasks[t].want \in Kinds
  BY DEF Task
<1> QED BY <1>1, <1>2 DEF Reports, RacersKnow, DoneIsDone, QueryIsOff, Running

\* A task is as before for those who look at what it wants and whether it runs.
SameTask(t) ==
  /\ tasks'[t].want = tasks[t].want /\ tasks'[t].from = tasks[t].from
  /\ tasks'[t].raced = tasks[t].raced
  /\ Running(t) <=> tasks'[t].st \in {"query", "send"}
  /\ tasks[t].st = "free" <=> tasks'[t].st = "free"
  /\ tasks[t].st = "cancelling" <=> tasks'[t].st = "cancelling"

LEMMA QueryTyped ==
  ASSUME tasks \in [TaskIds -> Task], NEW t \in TaskIds, Query(t)
  PROVE  /\ tasks' \in [TaskIds -> Task] /\ \A u \in TaskIds : SameTask(u)
         /\ \A u \in TaskIds \ {t} : tasks'[u] = tasks[u]
         /\ tasks'[t].st = "send"
         /\ \A d \in Devices : tasks'[t].result[d] = "ok" => lamp[d] \in SkipStates
PROOF
<1>1. PICK known \in SUBSET Devices :
        LET skipped == {d \in known : lamp[d] \in SkipStates}
        IN  tasks' = [tasks EXCEPT ![t].st = "send",
                        ![t].left = [d \in Devices |-> IF d \in skipped THEN 0 ELSE Tries],
                        ![t].result = [d \in Devices |-> IF d \in skipped THEN "ok" ELSE "none"]]
  BY DEF Query
<1> DEFINE skipped == {d \in known : lamp[d] \in SkipStates}
           left    == [d \in Devices |-> IF d \in skipped THEN 0 ELSE Tries]
           result  == [d \in Devices |-> IF d \in skipped THEN "ok" ELSE "none"]
           new     == [tasks[t] EXCEPT !.st = "send", !.left = left, !.result = result]
<1>2. tasks' = [tasks EXCEPT ![t] = new]
  BY <1>1
<1>3. left \in [Devices -> 0..Tries] /\ result \in [Devices -> Results]
      /\ \A d \in Devices : result[d] = "ok" => lamp[d] \in SkipStates
  BY PowerAssumption DEF Results
<1> HIDE DEF left, result
<1>4. /\ new \in Task /\ new.st = "send" /\ new.want = tasks[t].want
      /\ new.from = tasks[t].from /\ new.raced = tasks[t].raced /\ new.result = result
  BY <1>3 DEF Task
<1> HIDE DEF new
<1>5. tasks' \in [TaskIds -> Task] /\ tasks'[t] = new
      /\ \A u \in TaskIds \ {t} : tasks'[u] = tasks[u]
  BY <1>2, <1>4
<1>6. tasks[t].st = "query"
  BY DEF Query
<1>7. SameTask(t)
  BY <1>4, <1>5, <1>6 DEF SameTask, Running
<1>8. \A u \in TaskIds : SameTask(u)
  BY <1>5, <1>7 DEF SameTask, Running
<1> QED BY <1>3, <1>4, <1>5, <1>8

LEMMA QueryReports ==
  ASSUME tasks \in [TaskIds -> Task], Reports, NEW t \in TaskIds, Query(t)
  PROVE  Reports'
PROOF
<1>1. lamp' = lamp /\ tasks[t].st = "query" /\ tasks[t].want = "off"
  BY DEF Query, Reports, QueryIsOff
<1>2. RacersKnow' /\ QueryIsOff'
  BY QueryTyped DEF Reports, RacersKnow, QueryIsOff, Running, SameTask
<1>3. DoneIsDone'
  BY <1>1, QueryTyped DEF Reports, DoneIsDone, SameTask, SkipStates, Goal
<1> QED BY <1>2, <1>3 DEF Reports

\* A POWR of task t that leaves result res for its device.
LEMMA SendTyped ==
  ASSUME tasks \in [TaskIds -> Task], NEW t \in TaskIds, NEW d \in Devices, Send(t, d),
         lamp \in [Devices -> {"off", "warm", "on", "cool"}]
  PROVE  /\ tasks' \in [TaskIds -> Task] /\ \A u \in TaskIds : SameTask(u)
         /\ \A u \in TaskIds \ {t} : tasks'[u] = tasks[u]
         /\ tasks'[t].st = "send"
         /\ \A e \in Devices \ {d} : tasks'[t].result[e] = tasks[t].result[e]
         /\ tasks'[t].result[d] = "ok" =>
              lamp' = [lamp EXCEPT ![d] = Switched(tasks[t].want, lamp[d])] /\ lamp[d] \in {"off", "on"}
         /\ lamp' \in {lamp, [lamp EXCEPT ![d] = Switched(tasks[t].want, lamp[d])]}
PROOF
<1> DEFINE ended(res)  == [tasks EXCEPT ![t].result[d] = res, ![t].left[d] = 0]
           retried     == [tasks EXCEPT ![t].left[d] = @ - 1]
<1>0. tasks[t].st = "send" /\ tasks[t].result[d] = "none" /\ tasks[t] \in Task
  BY DEF Send
<1>1. \/ tasks' = ended("ok") /\ lamp' = [lamp EXCEPT ![d] = Switched(tasks[t].want, lamp[d])]
         /\ lamp[d] \in {"off", "on"}
      \/ /\ tasks' = ended("failed") \/ (tasks[t].left[d] > 1 /\ tasks' = retried)
         /\ lamp' \in {lamp, [lamp EXCEPT ![d] = Switched(tasks[t].want, lamp[d])]}
  BY DEF Send, Outcome, Retried
<1>2. ASSUME NEW res \in {"ok", "failed"}, tasks' = ended(res)
      PROVE  /\ tasks' \in [TaskIds -> Task] /\ SameTask(t)
             /\ \A u \in TaskIds \ {t} : tasks'[u] = tasks[u]
             /\ tasks'[t].st = "send" /\ tasks'[t].result = [tasks[t].result EXCEPT ![d] = res]
  <2> DEFINE result == [tasks[t].result EXCEPT ![d] = res]
             left   == [tasks[t].left EXCEPT ![d] = 0]
             new    == [tasks[t] EXCEPT !.result = result, !.left = left]
  <2>1. tasks' = [tasks EXCEPT ![t] = new]
    BY <1>0, <1>2 DEF Task
  <2>2. result \in [Devices -> Results] /\ left \in [Devices -> 0..Tries]
    BY <1>0, PowerAssumption DEF Task, Results
  <2> HIDE DEF result, left
  <2>3. new \in Task /\ new.st = tasks[t].st /\ new.want = tasks[t].want
        /\ new.from = tasks[t].from /\ new.raced = tasks[t].raced /\ new.result = result
    BY <1>0, <2>2 DEF Task
  <2> HIDE DEF new
  <2>4. tasks' \in [TaskIds -> Task] /\ tasks'[t] = new
        /\ \A u \in TaskIds \ {t} : tasks'[u] = tasks[u]
    BY <2>1, <2>3
  <2> QED BY <1>0, <2>3, <2>4 DEF SameTask, Running, result
<1>3. ASSUME tasks[t].left[d] > 1, tasks' = retried
      PROVE  /\ tasks' \in [TaskIds -> Task] /\ SameTask(t)
             /\ \A u \in TaskIds \ {t} : tasks'[u] = tasks[u]
             /\ tasks'[t].st = "send" /\ tasks'[t].result = tasks[t].result
  <2> DEFINE left   == [tasks[t].left EXCEPT ![d] = @ - 1]
             new    == [tasks[t] EXCEPT !.left = left]
  <2>1. tasks' = [tasks EXCEPT ![t] = new]
    BY <1>0, <1>3
  <2>2. left \in [Devices -> 0..Tries]
    BY <1>0, <1>3, PowerAssumption DEF Task
  <2> HIDE DEF left
  <2>3. new \in Task /\ new.st = tasks[t].st /\ new.want = tasks[t].want
        /\ new.from = tasks[t].from /\ new.raced = tasks[t].raced /\ new.result = tasks[t].result
    BY <1>0, <2>2 DEF Task
  <2> HIDE DEF new
  <2>4. tasks' \in [TaskIds -> Task] /\ tasks'[t] = new
        /\ \A u \in TaskIds \ {t} : tasks'[u] = tasks[u]
    BY <2>1, <2>3
  <2> QED BY <1>0, <2>3, <2>4 DEF SameTask, Running
<1>4. tasks[t].result \in [Devices -> Results]
  BY <1>0 DEF Task
<1>5. CASE tasks' = ended("ok") /\ lamp' = [lamp EXCEPT ![d] = Switched(tasks[t].want, lamp[d])]
           /\ lamp[d] \in {"off", "on"}
  <2> HIDE DEF ended
  <2> QED BY <1>2, <1>4, <1>5 DEF SameTask, Running
<1>6. CASE tasks' = ended("failed")
           /\ lamp' \in {lamp, [lamp EXCEPT ![d] = Switched(tasks[t].want, lamp[d])]}
  <2> HIDE DEF ended
  <2> QED BY <1>2, <1>4, <1>6 DEF SameTask, Running
<1>7. CASE tasks[t].left[d] > 1 /\ tasks' = retried
           /\ lamp' \in {lamp, [lamp EXCEPT ![d] = Switched(tasks[t].want, lamp[d])]}
  <2> HIDE DEF retried
  <2> QED BY <1>0, <1>3, <1>4, <1>7 DEF SameTask, Running
<1> QED BY <1>1, <1>5, <1>6, <1>7

LEMMA SendReports ==
  ASSUME tasks \in [TaskIds -> Task], Reports,
         lamp \in [Devices -> {"off", "warm", "on", "cool"}],
         NEW t \in TaskIds, NEW d \in Devices, Send(t, d)
  PROVE  Reports'
PROOF
<1> DEFINE done == Switched(tasks[t].want, lamp[d])
<1>0. \A u \in TaskIds : tasks[u].want \in Kinds
  BY DEF Task
<1>1. done \in {"off", "warm", "on", "cool"}
      /\ (lamp[d] \in Goal(tasks[t].want) => done \in Goal(tasks[t].want))
      /\ (lamp[d] \in {"off", "on"} => done \in Goal(tasks[t].want))
  BY <1>0 DEF Switched, Goal, Kinds
<1>2. RacersKnow' /\ QueryIsOff'
  BY SendTyped DEF Reports, RacersKnow, QueryIsOff, Running, SameTask
<1>3. \A e \in Devices \ {d} : lamp'[e] = lamp[e]
  BY SendTyped
<1>4. ASSUME NEW u \in TaskIds, NEW e \in Devices, tasks'[u].st = "send", ~tasks'[u].raced,
             tasks'[u].result[e] = "ok"
      PROVE  lamp'[e] \in Goal(tasks'[u].want)
  <2>1. tasks'[u].want = tasks[u].want /\ ~tasks[u].raced
    BY <1>4, SendTyped DEF SameTask
  <2>2. CASE u = t /\ e = d
    BY <1>1, <1>4, <2>1, <2>2, SendTyped
  <2>3. CASE ~(u = t /\ e = d)
    <3>1. tasks[u].st = "send" /\ tasks[u].result[e] = "ok"
      BY <1>4, <2>3, SendTyped DEF Send
    <3>2. lamp[e] \in Goal(tasks[u].want)
      BY <2>1, <3>1 DEF Reports, DoneIsDone
    <3>3. tasks[u].want = tasks[t].want
      BY <2>1, <3>1 DEF Reports, RacersKnow, Running, Send
    <3>4. CASE e = d
      <4>1. lamp'[d] \in {lamp[d], done}
        BY SendTyped
      <4> QED BY <1>1, <2>1, <3>2, <3>3, <3>4, <4>1
    <3>5. CASE e # d
      BY <1>3, <2>1, <3>2, <3>5
    <3> QED BY <3>4, <3>5
  <2> QED BY <2>2, <2>3
<1>5. DoneIsDone'
  BY <1>4 DEF DoneIsDone
<1> QED BY <1>2, <1>5 DEF Reports

----------------------------------------------------------------------------
\* Who refers to the tasks.

\* PowerTypeOK, in the parts the steps disturb one at a time.
TasksOK == tasks \in [TaskIds -> Task]
RefsOK  == /\ ref \in [Kinds -> {0} \cup TaskIds]
           /\ \A k \in Kinds : InFlight(ref[k]) => Running(ref[k]) /\ tasks[ref[k]].want = k
ReqsOK  == req \in [Requests -> [at : {"none", "want", "cancel", "wait", "answered"},
                                 kind : Kinds, task : {0} \cup TaskIds]]
SdOK    == sd \in [at : {"none", "cancel", "join", "over"}, task : {0} \cup TaskIds]
RestOK  == /\ lock \in Requests \cup {"none"}
           /\ load \in [count : 0..MaxLoads, seen : BOOLEAN, recent : BOOLEAN]
           /\ lamp \in [Devices -> {"off", "warm", "on", "cool"}]
           /\ last \in Kinds \cup {"none"}

LEMMA TypeParts ==
  PowerTypeOK <=> TasksOK /\ Room /\ RefsOK /\ ReqsOK /\ SdOK /\ RestOK
PROOF
  BY DEF PowerTypeOK, TasksOK, RefsOK, ReqsOK, SdOK, RestOK

LEMMA KindFacts ==
  /\ Kinds = {"on", "off"}
  /\ \A k \in Kinds : Other(k) \in Kinds /\ Other(k) # k /\ Other(Other(k)) = k
  /\ \A k, j \in Kinds : j # k => j = Other(k)
PROOF
  BY DEF Kinds, Other

LEMMA IdFacts == TaskIds \subseteq Nat \ {0} /\ 0 \notin TaskIds /\ 1..5 \subseteq TaskIds
PROOF
  BY PowerAssumption DEF TaskIds

\* Four tasks at most are in flight, and there are five ids.
LEMMA RoomLeft == ASSUME Covered PROVE Room
PROOF
<1>1. \A a, b, c, e : \E t \in 1..5 : t # a /\ t # b /\ t # c /\ t # e
  OBVIOUS
<1>2. PICK t \in 1..5 : t # ref["on"] /\ t # ref["off"] /\ t # sd.task /\ t # req[lock].task
  BY <1>1
<1>3. t \in TaskIds /\ ~HeldFor(t)
  BY <1>2, IdFacts DEF HeldFor
<1> QED BY <1>2, <1>3 DEF Covered, Room

LEMMA RoomLeftNext == ASSUME Covered' PROVE Room'
PROOF
<1>1. \A a, b, c, e : \E t \in 1..5 : t # a /\ t # b /\ t # c /\ t # e
  OBVIOUS
<1>2. PICK t \in 1..5 : t # ref'["on"] /\ t # ref'["off"] /\ t # sd'.task /\ t # req'[lock'].task
  BY <1>1
<1>3. t \in TaskIds /\ ~(lock' # "none" /\ req'[lock'].at = "cancel" /\ req'[lock'].task = t)
  BY <1>2, IdFacts
<1> QED BY <1>2, <1>3 DEF Covered, Room, HeldFor

\* A request's record after a step.
LEMMA ReqSet ==
  ASSUME ReqsOK, NEW r \in Requests,
         NEW at \in {"none", "want", "cancel", "wait", "answered"}, NEW t \in {0} \cup TaskIds,
         req' = [req EXCEPT ![r].at = at, ![r].task = t]
  PROVE  /\ ReqsOK'
         /\ req'[r].at = at /\ req'[r].task = t /\ req'[r].kind = req[r].kind
         /\ \A q \in Requests \ {r} : req'[q] = req[q]
PROOF
<1> DEFINE new == [req[r] EXCEPT !.at = at, !.task = t]
<1>1. req[r] \in [at : {"none", "want", "cancel", "wait", "answered"},
                  kind : Kinds, task : {0} \cup TaskIds]
  BY DEF ReqsOK
<1>2. /\ new \in [at : {"none", "want", "cancel", "wait", "answered"},
                   kind : Kinds, task : {0} \cup TaskIds]
      /\ new.at = at /\ new.task = t /\ new.kind = req[r].kind
  BY <1>1
<1>3. req' = [req EXCEPT ![r] = new]
  BY <1>1 DEF ReqsOK
<1> HIDE DEF new
<1>4. req'[r] = new /\ \A q \in Requests \ {r} : req'[q] = req[q]
  BY <1>3 DEF ReqsOK
<1>5. ReqsOK'
  BY <1>2, <1>3 DEF ReqsOK
<1> QED BY <1>2, <1>4, <1>5

\* The step makes a task; a query is a power-off's.
MakesTask ==
  \E n \in TaskIds, want \in Kinds, from \in {"press", "load", "shutdown"}, st \in Stages :
    IsSpawned(n, tasks', want, from, st) /\ (st = "query" => want = "off")

LEMMA TaskMade ==
  ASSUME TasksOK, Room, NEW want \in Kinds, NEW from \in {"press", "load", "shutdown"},
         NEW st \in Stages, tasks' = Spawned(want, from, st), st = "query" => want = "off"
  PROVE  IsSpawned(Next1, tasks', want, from, st) /\ MakesTask
PROOF
<1>1. IsSpawned(Next1, tasks', want, from, st)
  BY SpawnedFacts DEF TasksOK
<1> QED BY <1>1 DEF MakesTask, IsSpawned

\* A press whose opposite is gone joins the task in flight or has its own.
LEMMA JoinTracks ==
  ASSUME Tracked, NEW r \in Requests, JoinOrSpawn(r, ref), lock' = "none",
         UNCHANGED <<sd, load, lamp>>, \A t \in TaskIds : ~HeldFor(t),
         lock \in {"none", r}, OnlyLoads(Other(req[r].kind))
  PROVE  /\ Tracked'
         /\ tasks' = tasks \/ MakesTask
PROOF
<1> DEFINE kind == req[r].kind
           joins == InFlight(ref[kind])
           mine == IF joins THEN ref[kind] ELSE Next1
           st == IF kind = "off" THEN "query" ELSE "send"
<1>0. TasksOK /\ Room /\ RefsOK /\ ReqsOK /\ SdOK /\ RestOK
  BY TypeParts DEF Tracked
<1>1. kind \in Kinds /\ st \in Stages /\ st \in {"query", "send"} /\ (st = "query" => kind = "off")
  BY <1>0 DEF ReqsOK, Stages
<1>2. /\ ref' = [ref EXCEPT ![kind] = mine]
      /\ req' = [req EXCEPT ![r].at = "wait", ![r].task = mine] /\ last' = kind
      /\ joins => tasks' = tasks
      /\ ~joins => tasks' = Spawned(kind, "press", st)
  BY DEF JoinOrSpawn
<1> HIDE DEF st
<1>3. ~joins => IsSpawned(Next1, tasks', kind, "press", st) /\ MakesTask
  BY <1>0, <1>1, <1>2, TaskMade
<1>4. mine \in TaskIds
  BY <1>0, <1>1, <1>3 DEF RefsOK, IsSpawned, InFlight
<1>5. /\ \A t \in TaskIds \ {mine} : /\ tasks'[t].st = tasks[t].st /\ tasks'[t].want = tasks[t].want
                                     /\ tasks'[t].from = tasks[t].from
      /\ tasks'[mine].st \in {"query", "send"} /\ tasks'[mine].want = kind
      /\ tasks' \in [TaskIds -> Task]
  <2>1. CASE joins
    BY <1>0, <1>1, <1>2, <2>1 DEF RefsOK, TasksOK, Running
  <2>2. CASE ~joins
    BY <1>1, <1>3, <2>2 DEF IsSpawned
  <2> QED BY <2>1, <2>2
<1>6. mine = ref[kind] \/ (tasks[mine].st = "free" /\ ref[kind] = 0)
  BY <1>3 DEF IsSpawned, InFlight
<1> HIDE DEF mine, joins
<1>7. /\ ref' \in [Kinds -> {0} \cup TaskIds] /\ ref'[kind] = mine
      /\ \A k \in Kinds \ {kind} : ref'[k] = ref[k]
  BY <1>0, <1>1, <1>2, <1>4 DEF RefsOK
<1>8. ReqsOK' /\ req'[r].at = "wait" /\ \A q \in Requests \ {r} : req'[q] = req[q]
  <2>1. req' = [req EXCEPT ![r].at = "wait", ![r].task = mine]
    BY <1>2
  <2> HIDE DEF kind
  <2> QED BY <1>0, <1>4, <2>1, ReqSet DEF ReqsOK
<1> HIDE DEF kind
<1>9. \A k \in Kinds \ {kind} : ref[k] # 0 => ref[k] # mine /\ ref[k] \in TaskIds
  BY <1>0, <1>1, <1>6 DEF RefsOK, InFlight, Running
<1>10. RefsOK'
  <2>1. ASSUME NEW k \in Kinds, ref'[k] # 0
        PROVE  tasks'[ref'[k]].st \in {"query", "send"} /\ tasks'[ref'[k]].want = k
    BY <1>0, <1>1, <1>5, <1>7, <1>9, <2>1 DEF RefsOK, InFlight, Running
  <2> QED BY <1>7, <2>1 DEF RefsOK, InFlight, Running
<1>11. Covered'
  <2>1. ASSUME NEW t \in TaskIds, tasks'[t].st # "free"
        PROVE  t = ref'["on"] \/ t = ref'["off"] \/ t = sd'.task
    <3>1. CASE t = mine
      BY <1>1, <1>7, <3>1, KindFacts
    <3>2. CASE t # mine
      <4>1. t = ref["on"] \/ t = ref["off"] \/ t = sd.task
        BY <1>5, <2>1, <3>2 DEF Tracked, Covered
      <4>2. t = ref[kind] => FALSE
        BY <1>6, <3>2, IdFacts
      <4> QED BY <1>1, <1>7, <4>1, <4>2, KindFacts
    <3> QED BY <3>1, <3>2
  <2> QED BY <2>1 DEF Covered
<1>12. ShutdownTask'
  <2>1. sd' = sd /\ sd.task \in {0} \cup TaskIds
    BY <1>0 DEF SdOK
  <2>2. ASSUME sd.task # 0 PROVE sd.task # mine
    BY <1>1, <1>6, <2>1, <2>2 DEF Tracked, ShutdownTask, Running
  <2> QED BY <1>1, <1>5, <1>7, <2>1, <2>2 DEF Tracked, ShutdownTask, Running
<1>13. LockIsBrief' /\ CancellerHasLock'
  BY <1>8 DEF Tracked, LockIsBrief, CancellerHasLock
<1>14. OppositeGone'
  <2>1. ref'[Other(kind)] = ref[Other(kind)] /\ Other(kind) \in Kinds
    BY <1>1, <1>7, KindFacts
  <2>2. ref[Other(kind)] # 0 => /\ ref[Other(kind)] # mine /\ ref[Other(kind)] \in TaskIds
                               /\ tasks[ref[Other(kind)]].from \notin {"start", "press"}
    BY <1>1, <1>9, KindFacts DEF OnlyLoads, InFlight, kind
  <2>3. ref'[Other(kind)] # 0 => tasks'[ref'[Other(kind)]].from \notin {"start", "press"}
    BY <1>5, <2>1, <2>2
  <2>4. \A k \in Kinds : last' = k => k = kind
    BY <1>2 DEF kind
  <2> QED BY <2>3, <2>4 DEF OppositeGone, OnlyLoads, InFlight
<1>15. Room' /\ TasksOK' /\ SdOK' /\ RestOK'
  BY <1>0, <1>1, <1>2, <1>5, <1>11, RoomLeftNext DEF TasksOK, SdOK, RestOK, kind
<1>16. PowerTypeOK'
  <2>1. TasksOK' /\ Room' /\ RefsOK' /\ ReqsOK' /\ SdOK' /\ RestOK'
    BY <1>8, <1>10, <1>15
  <2> QED BY <2>1 DEF PowerTypeOK, TasksOK, RefsOK, ReqsOK, SdOK, RestOK
<1>17. Tracked'
  BY <1>11, <1>12, <1>13, <1>14, <1>16 DEF Tracked
<1> QED BY <1>2, <1>3, <1>17

\* A step that starts and stops no task, and touches no canceller.
LEMMA SameTracks ==
  ASSUME Tracked, UNCHANGED <<ref, lock, sd, last>>, TasksOK', \A t \in TaskIds : SameTask(t),
         ReqsOK', RestOK',
         \A q \in Requests : req'[q] = req[q] \/ (req[q].at # "cancel" /\ req'[q].at # "cancel")
  PROVE  Tracked'
PROOF
<1>0. TasksOK /\ RefsOK /\ ReqsOK /\ SdOK /\ RestOK
  BY TypeParts DEF Tracked
<1>1. RefsOK'
  BY <1>0 DEF RefsOK, InFlight, Running, SameTask
<1>2. Covered'
  BY <1>0 DEF Tracked, Covered, SameTask, HeldFor, LockIsBrief, RestOK
<1>3. LockIsBrief'
  BY <1>0 DEF Tracked, LockIsBrief, SameTask, ReqsOK, RestOK
<1>4. CancellerHasLock'
  BY DEF Tracked, CancellerHasLock
<1>5. ShutdownTask'
  BY <1>0 DEF Tracked, ShutdownTask, SameTask, SdOK, Running
<1>6. OppositeGone'
  <2>1. \A k \in Kinds : OnlyLoads(k) => (InFlight(ref[k]) => tasks'[ref[k]].from \notin {"start", "press"})
    BY <1>0 DEF OnlyLoads, RefsOK, SameTask, InFlight
  <2>2. lock # "none" => lock \in Requests /\ req'[lock] = req[lock]
    BY <1>0 DEF Tracked, LockIsBrief, RestOK
  <2> QED BY <2>1, <2>2, KindFacts DEF Tracked, OppositeGone, OnlyLoads
<1>7. PowerTypeOK'
  <2>1. TasksOK' /\ Room' /\ RefsOK' /\ ReqsOK' /\ SdOK' /\ RestOK'
    BY <1>0, <1>1, <1>2, RoomLeftNext DEF SdOK
  <2> QED BY <2>1 DEF PowerTypeOK, TasksOK, RefsOK, ReqsOK, SdOK, RestOK
<1> QED BY <1>2, <1>3, <1>4, <1>5, <1>6, <1>7 DEF Tracked

\* A task of a load or of the shutdown is made, and referred to by k or by the shutdown.
LEMMA OtherTaskTracks ==
  ASSUME Tracked, NEW want \in Kinds, NEW from \in {"load", "shutdown"},
         IsSpawned(Next1, tasks', want, from, "send"), UNCHANGED <<req, lock, last>>, RestOK',
         \/ /\ from = "load" /\ sd' = sd /\ ref[want] = 0 /\ ref' = [ref EXCEPT ![want] = Next1]
         \/ /\ from = "shutdown" /\ sd' = [at |-> "join", task |-> Next1]
            /\ ref' = ref /\ sd.task = 0
  PROVE  Tracked'
PROOF
<1> DEFINE new == Next1
<1> HIDE DEF new
<1>0. TasksOK /\ RefsOK /\ ReqsOK /\ SdOK /\ RestOK
  BY TypeParts DEF Tracked
<1>1. /\ new \in TaskIds /\ tasks[new].st = "free" /\ TasksOK'
      /\ tasks'[new].st = "send" /\ tasks'[new].want = want /\ tasks'[new].from = from
      /\ \A t \in TaskIds \ {new} : /\ tasks'[t].st = tasks[t].st /\ tasks'[t].want = tasks[t].want
                                    /\ tasks'[t].from = tasks[t].from
  BY DEF IsSpawned, TasksOK, new
<1>2. \/ /\ from = "load" /\ sd' = sd /\ ref[want] = 0 /\ ref' = [ref EXCEPT ![want] = new]
      \/ /\ from = "shutdown" /\ sd' = [at |-> "join", task |-> new]
         /\ ref' = ref /\ sd.task = 0
  BY DEF new
<1>3. /\ ref' \in [Kinds -> {0} \cup TaskIds]
      /\ \A k \in Kinds : ref'[k] = ref[k] \/ (k = want /\ ref'[k] = new /\ from = "load")
  BY <1>0, <1>1, <1>2 DEF RefsOK
<1>4. \A k \in Kinds : ref[k] # 0 => /\ ref[k] # new /\ ref[k] \in TaskIds
                                     /\ tasks'[ref[k]].st \in {"query", "send"} /\ tasks'[ref[k]].want = k
                                     /\ tasks'[ref[k]].from = tasks[ref[k]].from
  BY <1>0, <1>1 DEF RefsOK, InFlight, Running
<1>5. RefsOK'
  <2>1. ASSUME NEW k \in Kinds, ref'[k] # 0
        PROVE  tasks'[ref'[k]].st \in {"query", "send"} /\ tasks'[ref'[k]].want = k
    BY <1>1, <1>3, <1>4, <2>1
  <2> QED BY <1>3, <2>1 DEF RefsOK, InFlight, Running
<1>6. SdOK'
  BY <1>0, <1>1, <1>2 DEF SdOK
<1>7. sd.task # 0 => sd.task # new /\ sd' = sd /\ sd.task \in TaskIds
  BY <1>0, <1>1, <1>2 DEF Tracked, ShutdownTask, Running, SdOK
<1>8. Covered'
  <2>1. ASSUME NEW t \in TaskIds, tasks'[t].st # "free"
        PROVE  t = ref'["on"] \/ t = ref'["off"] \/ t = sd'.task \/ HeldFor(t)
    <3>1. CASE t = new
      <4>1. CASE from = "load"
        BY <1>0, <1>2, <3>1, <4>1, KindFacts DEF RefsOK
      <4>2. CASE from = "shutdown"
        BY <1>2, <3>1, <4>2
      <4> QED BY <4>1, <4>2
    <3>2. CASE t # new
      <4>1. t = ref["on"] \/ t = ref["off"] \/ t = sd.task \/ HeldFor(t)
        BY <1>1, <2>1, <3>2 DEF Tracked, Covered
      <4>2. \A k \in Kinds : t = ref[k] => ref'[k] = ref[k]
        BY <1>0, <1>2, IdFacts DEF RefsOK
      <4> QED BY <1>7, <4>1, <4>2, KindFacts, IdFacts
    <3> QED BY <3>1, <3>2
  <2> QED BY <2>1 DEF Covered, HeldFor
<1>9. LockIsBrief' /\ CancellerHasLock'
  BY <1>0, <1>1 DEF Tracked, LockIsBrief, CancellerHasLock, ReqsOK, RestOK
<1>10. ShutdownTask'
  <2>1. CASE from = "load"
    BY <1>1, <1>2, <1>3, <1>7, <2>1 DEF Tracked, ShutdownTask, Running
  <2>2. CASE from = "shutdown"
    BY <1>1, <1>2, <1>4, <2>2, IdFacts DEF Tracked, ShutdownTask, Running
  <2> QED BY <2>1, <2>2
<1>11. OppositeGone'
  <2>1. \A k \in Kinds : OnlyLoads(k) => (ref'[k] # 0 => tasks'[ref'[k]].from \notin {"start", "press"})
    BY <1>1, <1>3, <1>4 DEF OnlyLoads, InFlight
  <2> QED BY <2>1, KindFacts DEF Tracked, OppositeGone, OnlyLoads, InFlight
<1>12. PowerTypeOK'
  <2>1. TasksOK' /\ Room' /\ RefsOK' /\ ReqsOK' /\ SdOK' /\ RestOK'
    BY <1>0, <1>1, <1>5, <1>6, <1>8, RoomLeftNext DEF ReqsOK
  <2> QED BY <2>1 DEF PowerTypeOK, TasksOK, RefsOK, ReqsOK, SdOK, RestOK
<1> QED BY <1>8, <1>9, <1>10, <1>11, <1>12 DEF Tracked

\* A press that finds the opposite task in flight cancels it and keeps the lock.
LEMMA CancelTracks ==
  ASSUME Tracked, NEW r \in Requests, lock = "none", InFlight(ref[Other(req[r].kind)]),
         tasks' = Cancelled(ref[Other(req[r].kind)]),
         ref' = [ref EXCEPT ![Other(req[r].kind)] = 0],
         req' = [req EXCEPT ![r].at = "cancel", ![r].task = ref[Other(req[r].kind)]],
         lock' = r, UNCHANGED <<sd, load, lamp, last>>
  PROVE  Tracked'
PROOF
<1> DEFINE kind == req[r].kind
           opp  == ref[Other(kind)]
<1>0. TasksOK /\ RefsOK /\ ReqsOK /\ SdOK /\ RestOK
  BY TypeParts DEF Tracked
<1>1. kind \in Kinds /\ Other(kind) \in Kinds /\ Other(kind) # kind
      /\ \A k \in Kinds : k # Other(kind) => k = kind
  BY <1>0, KindFacts DEF ReqsOK
<1>2. opp \in TaskIds /\ Running(opp) /\ opp # 0 /\ opp # sd.task /\ ref[kind] # opp
  BY <1>0, <1>1 DEF RefsOK, InFlight, Tracked, ShutdownTask
<1>3. ReqsOK' /\ req'[r].at = "cancel" /\ req'[r].task = opp /\ req'[r].kind = kind
      /\ \A q \in Requests \ {r} : req'[q] = req[q]
  BY <1>0, <1>2, ReqSet
<1> HIDE DEF kind
<1>4. /\ TasksOK' /\ tasks'[opp].st = "cancelling"
      /\ \A t \in TaskIds \ {opp} : tasks'[t] = tasks[t]
  BY <1>0, <1>2, CancelledFacts DEF TasksOK, kind
<1>5. ref' \in [Kinds -> {0} \cup TaskIds] /\ ref'[Other(kind)] = 0 /\ ref'[kind] = ref[kind]
  BY <1>0, <1>1 DEF RefsOK, kind
<1> HIDE DEF opp
<1>6. \A q \in Requests : req[q].at # "cancel"
  BY PowerAssumption DEF Tracked, CancellerHasLock
<1>7. RefsOK'
  BY <1>0, <1>1, <1>2, <1>4, <1>5 DEF RefsOK, InFlight, Running
<1>8. Covered'
  <2>1. ASSUME NEW t \in TaskIds, tasks'[t].st # "free", t # opp
        PROVE  t = ref'["on"] \/ t = ref'["off"] \/ t = sd.task
    <3>1. t = ref[kind] \/ t = opp \/ t = sd.task
      BY <1>1, <1>4, <2>1, KindFacts DEF Tracked, Covered, HeldFor, opp
    <3> QED BY <1>1, <1>5, <2>1, <3>1, KindFacts
  <2>2. r # "none"
    BY PowerAssumption
  <2> QED BY <1>3, <2>1, <2>2 DEF Covered, HeldFor
<1>9. LockIsBrief' /\ CancellerHasLock'
  BY <1>3, <1>4, <1>6 DEF LockIsBrief, CancellerHasLock
<1>10. ShutdownTask'
  BY <1>0, <1>1, <1>2, <1>4, <1>5 DEF Tracked, ShutdownTask, SdOK, Running
<1>11. OppositeGone'
  BY <1>3, <1>5, PowerAssumption DEF OppositeGone, OnlyLoads, InFlight
<1>12. PowerTypeOK'
  <2>1. TasksOK' /\ Room' /\ RefsOK' /\ ReqsOK' /\ SdOK' /\ RestOK'
    BY <1>0, <1>3, <1>4, <1>7, <1>8, RoomLeftNext DEF SdOK, RestOK
  <2> QED BY <2>1 DEF PowerTypeOK, TasksOK, RefsOK, ReqsOK, SdOK, RestOK
<1> QED BY <1>8, <1>9, <1>10, <1>11, <1>12 DEF Tracked

\* The shutdown cancels a power-on that is in flight, or its own task.
LEMMA ShutdownCancels ==
  ASSUME Tracked, UNCHANGED <<req, lock, load, lamp, last>>, NEW t \in TaskIds,
         tasks' = Cancelled(t), Running(t), sd'.task = t, SdOK', sd'.at \in {"cancel", "over"},
         \/ sd.task = 0 /\ ref["on"] = t /\ ref' = [ref EXCEPT !["on"] = 0]
         \/ sd.task = t /\ ref' = ref
  PROVE  Tracked'
PROOF
<1>0. TasksOK /\ RefsOK /\ ReqsOK /\ SdOK /\ RestOK
  BY TypeParts DEF Tracked
<1>1. /\ TasksOK' /\ tasks'[t].st = "cancelling"
      /\ \A u \in TaskIds \ {t} : tasks'[u] = tasks[u]
  BY <1>0, CancelledFacts DEF TasksOK
<1>2. /\ ref' \in [Kinds -> {0} \cup TaskIds]
      /\ \A k \in Kinds : ref'[k] # t /\ (ref'[k] = ref[k] \/ (ref[k] = t /\ ref'[k] = 0))
  BY <1>0, KindFacts, IdFacts DEF RefsOK, InFlight, Tracked, ShutdownTask
<1>3. RefsOK'
  BY <1>0, <1>1, <1>2 DEF RefsOK, InFlight, Running
<1>4. Covered'
  <2>1. ASSUME NEW u \in TaskIds, tasks'[u].st # "free", u # t
        PROVE  u = ref'["on"] \/ u = ref'["off"] \/ HeldFor(u)
    BY <1>1, <1>2, <2>1, KindFacts, IdFacts DEF Tracked, Covered
  <2> QED BY <2>1 DEF Covered, HeldFor
<1>5. LockIsBrief' /\ CancellerHasLock'
  BY <1>0, <1>1 DEF Tracked, LockIsBrief, CancellerHasLock, ReqsOK, RestOK
<1>6. ShutdownTask'
  BY <1>1, <1>2 DEF ShutdownTask
<1>7. OppositeGone'
  <2>1. \A k \in Kinds : OnlyLoads(k) => (ref'[k] # 0 => tasks'[ref'[k]].from \notin {"start", "press"})
    BY <1>1, <1>2 DEF OnlyLoads, InFlight
  <2> QED BY <2>1, KindFacts DEF Tracked, OppositeGone, OnlyLoads, InFlight
<1>8. PowerTypeOK'
  <2>1. TasksOK' /\ Room' /\ RefsOK' /\ ReqsOK' /\ SdOK' /\ RestOK'
    BY <1>0, <1>1, <1>3, <1>4, RoomLeftNext DEF ReqsOK, RestOK
  <2> QED BY <2>1 DEF PowerTypeOK, TasksOK, RefsOK, ReqsOK, SdOK, RestOK
<1> QED BY <1>4, <1>5, <1>6, <1>7, <1>8 DEF Tracked

\* A task is done.
LEMMA EndTracks ==
  ASSUME Tracked, NEW t \in TaskIds, Ends(t)
  PROVE  /\ Tracked' /\ lamp' = lamp
         /\ tasks'[t].st = "free" /\ \A u \in TaskIds \ {t} : tasks'[u] = tasks[u]
PROOF
<1>0. TasksOK /\ RefsOK /\ ReqsOK /\ SdOK /\ RestOK
  BY TypeParts DEF Tracked
<1>1. /\ TasksOK' /\ tasks'[t].st = "free" /\ \A u \in TaskIds \ {t} : tasks'[u] = tasks[u]
      /\ lamp' = lamp /\ lock' = lock /\ last' = last /\ load' = load
  BY <1>0, FreeTyped DEF Ends, TasksOK
<1>2. /\ ref' \in [Kinds -> {0} \cup TaskIds]
      /\ \A k \in Kinds : ref'[k] # t /\ (ref'[k] = ref[k] \/ (ref[k] = t /\ ref'[k] = 0))
  BY <1>0, IdFacts DEF Ends, RefsOK
<1>3. ASSUME NEW r \in Requests
      PROVE  /\ req'[r] \in [at : {"none", "want", "cancel", "wait", "answered"},
                             kind : Kinds, task : {0} \cup TaskIds]
             /\ req[r].task # t => req'[r] = req[r]
             /\ req'[r].task # t
             /\ req'[r].at = "cancel" <=> req[r].at = "cancel"
             /\ req[r].at = "cancel" => /\ req'[r].kind = req[r].kind
                                        /\ req'[r].task = req[r].task \/ req'[r].task = 0
  <2>1. req'[r] = IF req[r].task # t THEN req[r]
                  ELSE IF req[r].at = "wait" THEN Answered ELSE [req[r] EXCEPT !.task = 0]
    BY DEF Ends
  <2>2. req[r] \in [at : {"none", "want", "cancel", "wait", "answered"},
                    kind : Kinds, task : {0} \cup TaskIds]
    BY <1>0 DEF ReqsOK
  <2> QED BY <2>1, <2>2, KindFacts, IdFacts DEF Answered
<1>4. ReqsOK'
  <2>1. req' = [r \in Requests |-> req'[r]]
    BY DEF Ends
  <2> QED BY <1>3, <2>1 DEF ReqsOK
<1>5. /\ SdOK' /\ sd'.task # t /\ (sd.task # t => sd' = sd) /\ (sd.task = t => sd'.task = 0)
      /\ sd'.at = "join" => sd' = sd
  BY <1>0, IdFacts DEF Ends, SdOK
<1>6. RefsOK'
  BY <1>0, <1>1, <1>2 DEF RefsOK, InFlight, Running
<1>7. Covered'
  <2>1. ASSUME NEW u \in TaskIds, tasks'[u].st # "free"
        PROVE  u = ref'["on"] \/ u = ref'["off"] \/ u = sd'.task
               \/ (lock' # "none" /\ req'[lock'].at = "cancel" /\ req'[lock'].task = u)
    <3>1. u # t /\ tasks[u].st # "free"
      BY <1>1, <2>1
    <3>2. HeldFor(u) => lock' # "none" /\ req'[lock'].at = "cancel" /\ req'[lock'].task = u
      BY <1>0, <1>1, <1>3, <3>1 DEF HeldFor, RestOK
    <3> QED BY <1>2, <1>5, <3>1, <3>2, KindFacts DEF Tracked, Covered
  <2> QED BY <2>1 DEF Covered, HeldFor
<1>8. LockIsBrief' /\ CancellerHasLock'
  <2>1. LockIsBrief'
    BY <1>0, <1>1, <1>3 DEF Tracked, LockIsBrief, RestOK, ReqsOK
  <2>2. CancellerHasLock'
    BY <1>1, <1>3 DEF Tracked, CancellerHasLock
  <2> QED BY <2>1, <2>2
<1>9. ShutdownTask'
  <2>1. CASE sd.task = t
    BY <1>5, <2>1, IdFacts DEF Tracked, ShutdownTask
  <2>2. CASE sd.task # t
    BY <1>0, <1>1, <1>2, <1>5, <2>2 DEF Tracked, ShutdownTask, Running, SdOK
  <2> QED BY <2>1, <2>2
<1>10. OppositeGone'
  <2>1. \A k \in Kinds : OnlyLoads(k) => (ref'[k] # 0 => tasks'[ref'[k]].from \notin {"start", "press"})
    BY <1>0, <1>1, <1>2 DEF OnlyLoads, InFlight, RefsOK
  <2>2. lock # "none" => lock \in Requests /\ req'[lock].kind = req[lock].kind
    BY <1>0, <1>3 DEF Tracked, LockIsBrief, RestOK
  <2> QED BY <1>1, <2>1, <2>2, KindFacts DEF Tracked, OppositeGone, OnlyLoads, InFlight
<1>11. PowerTypeOK'
  <2>1. TasksOK' /\ Room' /\ RefsOK' /\ ReqsOK' /\ SdOK' /\ RestOK'
    BY <1>0, <1>1, <1>4, <1>5, <1>6, <1>7, RoomLeftNext DEF RestOK
  <2> QED BY <2>1 DEF PowerTypeOK, TasksOK, RefsOK, ReqsOK, SdOK, RestOK
<1> QED BY <1>1, <1>7, <1>8, <1>9, <1>10, <1>11 DEF Tracked

----------------------------------------------------------------------------
\* Every step preserves the invariant.

\* What a step does for the reports, once a task may have been made.
LEMMA MadeReports ==
  ASSUME IInv, lamp' = lamp, tasks' = tasks \/ MakesTask
  PROVE  Reports'
PROOF
<1>1. TasksOK
  BY TypeParts DEF IInv, Tracked
<1>2. CASE tasks' = tasks
  BY <1>2 DEF IInv, Reports, RacersKnow, DoneIsDone, QueryIsOff, Running
<1>3. CASE MakesTask
  <2>1. PICK n \in TaskIds, want \in Kinds, from \in {"press", "load", "shutdown"}, st \in Stages :
          IsSpawned(n, tasks', want, from, st) /\ (st = "query" => want = "off")
    BY <1>3 DEF MakesTask
  <2> QED BY <1>1, <2>1, SpawnReports DEF IInv, TasksOK
<1> QED BY <1>2, <1>3

LEMMA SameTasks ==
  ASSUME IInv, UNCHANGED <<tasks, ref, lock, sd, last, lamp>>, ReqsOK', RestOK',
         \A q \in Requests : req'[q] = req[q] \/ (req[q].at # "cancel" /\ req'[q].at # "cancel")
  PROVE  IInv'
PROOF
<1>1. TasksOK' /\ \A t \in TaskIds : SameTask(t)
  BY TypeParts DEF IInv, Tracked, TasksOK, SameTask, Running
<1> QED BY <1>1, SameTracks, MadeReports DEF IInv

LEMMA RequestStep ==
  ASSUME IInv, NEW r \in Requests, (\E k \in Kinds : Press(r, k)) \/ Handler(r)
  PROVE  IInv'
PROOF
<1>0. Tracked /\ TasksOK /\ RefsOK /\ ReqsOK /\ SdOK /\ RestOK
  BY TypeParts DEF IInv, Tracked
<1>1. ASSUME NEW k \in Kinds, Press(r, k) PROVE IInv'
  <2> DEFINE new == [req[r] EXCEPT !.at = "want", !.kind = k]
  <2>1. req[r] \in [at : {"none", "want", "cancel", "wait", "answered"},
                    kind : Kinds, task : {0} \cup TaskIds]
    BY <1>0 DEF ReqsOK
  <2>2. /\ new \in [at : {"none", "want", "cancel", "wait", "answered"},
                     kind : Kinds, task : {0} \cup TaskIds]
        /\ new.at = "want"
    BY <2>1
  <2>5. req[r].at = "none" /\ UNCHANGED <<tasks, ref, lock, sd, load, lamp, last>>
    BY <1>1 DEF Press
  <2>3. req' = [req EXCEPT ![r] = new]
    BY <1>0, <1>1 DEF Press, ReqsOK
  <2> HIDE DEF new
  <2>4. ReqsOK' /\ RestOK'
        /\ \A q \in Requests : req'[q] = req[q] \/ (req[q].at # "cancel" /\ req'[q].at # "cancel")
    BY <1>0, <2>2, <2>3, <2>5 DEF ReqsOK, RestOK
  <2> QED BY <1>1, <2>4, SameTasks DEF Press
<1>2. ASSUME WaitTimesOut(r) PROVE IInv'
  <2>1. Answered \in [at : {"none", "want", "cancel", "wait", "answered"},
                      kind : Kinds, task : {0} \cup TaskIds] /\ Answered.at = "answered"
    BY KindFacts DEF Answered
  <2>2. ReqsOK' /\ RestOK'
        /\ \A q \in Requests : req'[q] = req[q] \/ (req[q].at # "cancel" /\ req'[q].at # "cancel")
    BY <1>0, <1>2, <2>1 DEF WaitTimesOut, ReqsOK, RestOK
  <2> QED BY <1>2, <2>2, SameTasks DEF WaitTimesOut
<1>3. ASSUME Resume(r) PROVE IInv'
  <2>1. lock = r /\ req[r].at = "cancel" /\ req[r].task = 0
    BY <1>0, <1>3 DEF Resume, Tracked, CancellerHasLock
  <2>2. OnlyLoads(Other(req[r].kind))
    <3>1. lock # "none" /\ req[r].kind \in Kinds
      BY <1>0, <2>1, PowerAssumption DEF ReqsOK
    <3> QED BY <1>0, <2>1, <3>1 DEF Tracked, OppositeGone
  <2>3. \A t \in TaskIds : ~HeldFor(t)
    BY <2>1, IdFacts DEF HeldFor
  <2> QED BY <1>0, <1>3, <2>1, <2>2, <2>3, JoinTracks, MadeReports DEF Resume, IInv
<1>4. ASSUME Enter(r) PROVE IInv'
  <2> DEFINE kind == req[r].kind
             opp  == ref[Other(kind)]
             refs == [ref EXCEPT ![Other(kind)] = 0]
  <2>1. lock = "none" /\ UNCHANGED <<sd, load, lamp>> /\ kind \in Kinds /\ Other(kind) \in Kinds
    BY <1>0, <1>4, KindFacts DEF Enter, ReqsOK
  <2>2. CASE InFlight(opp)
    <3>1. /\ tasks' = Cancelled(opp) /\ ref' = refs /\ lock' = r
          /\ req' = [req EXCEPT ![r].at = "cancel", ![r].task = opp]
          /\ UNCHANGED last
      BY <1>4, <2>2 DEF Enter
    <3>2. Tracked'
      BY <1>0, <2>1, <2>2, <3>1, CancelTracks
    <3>3. opp \in TaskIds
      BY <1>0, <2>1, <2>2 DEF RefsOK, InFlight
    <3>4. tasks'[opp].st = "cancelling" /\ \A u \in TaskIds \ {opp} : tasks'[u] = tasks[u]
      BY <1>0, <3>1, <3>3, CancelledFacts DEF TasksOK
    <3> HIDE DEF opp
    <3> QED BY <2>1, <3>2, <3>3, <3>4, StopReports DEF IInv
  <2>3. CASE ~InFlight(opp)
    <3>1. JoinOrSpawn(r, refs) /\ lock' = lock
      BY <1>4, <2>3 DEF Enter
    <3>2. refs = ref
      BY <1>0, <2>1, <2>3 DEF InFlight, RefsOK
    <3>3. JoinOrSpawn(r, ref)
      BY <3>1, <3>2
    <3>4. OnlyLoads(Other(req[r].kind)) /\ \A t \in TaskIds : ~HeldFor(t)
      BY <2>1, <2>3 DEF OnlyLoads, HeldFor
    <3>5. Tracked' /\ (tasks' = tasks \/ MakesTask)
      BY <1>0, <2>1, <3>1, <3>3, <3>4, JoinTracks
    <3> QED BY <2>1, <3>5, MadeReports DEF IInv
  <2> QED BY <2>2, <2>3
<1> QED BY <1>1, <1>2, <1>3, <1>4 DEF Handler

LEMMA EdgeStep ==
  ASSUME IInv, Loaded \/ Unloaded \/ EngineDrops \/ DebounceOver
  PROVE  IInv'
PROOF
<1>0. Tracked /\ TasksOK /\ Room /\ RefsOK /\ ReqsOK /\ SdOK /\ RestOK
  BY TypeParts DEF IInv, Tracked
<1>1. UNCHANGED <<req, lock, sd, lamp, last>> /\ ReqsOK'
  BY <1>0 DEF Loaded, Unloaded, EngineDrops, DebounceOver, ReqsOK
<1>2. RestOK'
  <2>0. load \in [count : 0..MaxLoads, seen : BOOLEAN, recent : BOOLEAN]
    BY <1>0 DEF RestOK
  <2>1. load' \in [count : 0..MaxLoads, seen : BOOLEAN, recent : BOOLEAN]
    <3>1. CASE Loaded
      <4>1. load.count + 1 \in 0..MaxLoads
        BY <2>0, <3>1, PowerAssumption DEF Loaded
      <4> QED BY <3>1, <4>1 DEF Loaded
    <3>2. CASE ~Loaded
      BY <2>0, <3>2 DEF Unloaded, EngineDrops, DebounceOver
    <3> QED BY <3>1, <3>2
  <2> QED BY <1>0, <1>1, <2>1 DEF RestOK
<1>3. CASE UNCHANGED <<tasks, ref>>
  BY <1>1, <1>2, <1>3, SameTasks
<1>4. CASE ~UNCHANGED <<tasks, ref>>
  <2>1. /\ ref["on"] = 0 /\ tasks' = Spawned("on", "load", "send")
        /\ ref' = [ref EXCEPT !["on"] = Next1]
    BY <1>4 DEF Loaded, Unloaded, EngineDrops, DebounceOver, SpawnOnLoad, InFlight
  <2>2. IsSpawned(Next1, tasks', "on", "load", "send") /\ MakesTask
    BY <1>0, <2>1, TaskMade, KindFacts DEF Stages
  <2>3. Tracked'
    BY <1>0, <1>1, <1>2, <2>1, <2>2, OtherTaskTracks, KindFacts
  <2> QED BY <1>1, <2>2, <2>3, MadeReports DEF IInv
<1> QED BY <1>3, <1>4

LEMMA ShutdownStep ==
  ASSUME IInv, Shutdown \/ ShutdownResumes \/ JoinTimesOut
  PROVE  IInv'
PROOF
<1>0. Tracked /\ TasksOK /\ Room /\ RefsOK /\ ReqsOK /\ SdOK /\ RestOK
  BY TypeParts DEF IInv, Tracked
<1>1. UNCHANGED <<req, lock, load, lamp, last>> /\ RestOK'
  BY <1>0 DEF Shutdown, ShutdownResumes, JoinTimesOut, RestOK
<1>2. ASSUME SpawnAtShutdown, ref' = ref, sd.task = 0 PROVE IInv'
  <2>1. tasks' = Spawned("off", "shutdown", "send") /\ sd' = [at |-> "join", task |-> Next1]
    BY <1>2 DEF SpawnAtShutdown
  <2>2. IsSpawned(Next1, tasks', "off", "shutdown", "send") /\ MakesTask
    BY <1>0, <2>1, TaskMade, KindFacts DEF Stages
  <2>3. Tracked'
    BY <1>0, <1>1, <1>2, <2>1, <2>2, OtherTaskTracks, KindFacts
  <2> QED BY <1>1, <2>2, <2>3, MadeReports DEF IInv
<1>3. ASSUME NEW t \in TaskIds, tasks' = Cancelled(t), Running(t), sd'.task = t, SdOK',
             sd'.at \in {"cancel", "over"},
             \/ sd.task = 0 /\ ref["on"] = t /\ ref' = [ref EXCEPT !["on"] = 0]
             \/ sd.task = t /\ ref' = ref
      PROVE  IInv'
  <2>1. Tracked'
    BY <1>0, <1>1, <1>3, ShutdownCancels
  <2>2. tasks'[t].st = "cancelling" /\ \A u \in TaskIds \ {t} : tasks'[u] = tasks[u]
    BY <1>0, <1>3, CancelledFacts DEF TasksOK
  <2> QED BY <1>1, <2>1, <2>2, StopReports DEF IInv
<1>4. CASE Shutdown
  <2>1. sd.task = 0
    BY <1>0, <1>4 DEF Shutdown, Tracked, ShutdownTask
  <2>2. CASE ref["on"] # 0
    <3>1. ref["on"] \in TaskIds /\ Running(ref["on"])
      BY <1>0, <2>2, KindFacts DEF RefsOK, InFlight
    <3>2. /\ tasks' = Cancelled(ref["on"]) /\ sd' = [at |-> "cancel", task |-> ref["on"]]
          /\ ref' = [ref EXCEPT !["on"] = 0]
      BY <1>4, <2>2 DEF Shutdown, InFlight
    <3>3. SdOK' /\ sd'.task = ref["on"] /\ sd'.at \in {"cancel", "over"}
      BY <3>1, <3>2 DEF SdOK
    <3> QED BY <1>3, <2>1, <3>1, <3>2, <3>3
  <2>3. CASE ref["on"] = 0
    <3>1. SpawnAtShutdown /\ ref' = ref
      BY <1>0, <1>4, <2>3, KindFacts DEF Shutdown, InFlight, RefsOK
    <3> QED BY <1>2, <2>1, <3>1
  <2> QED BY <2>2, <2>3
<1>5. CASE ShutdownResumes
  BY <1>2, <1>5 DEF ShutdownResumes
<1>6. CASE JoinTimesOut
  <2>1. sd.at = "join" /\ tasks' = Cancelled(sd.task) /\ sd' = [sd EXCEPT !.at = "over"] /\ ref' = ref
    BY <1>6 DEF JoinTimesOut
  <2>2. sd.task \in TaskIds
    BY <1>0, <2>1 DEF Tracked, ShutdownTask, SdOK
  <2>3. SdOK' /\ sd'.task = sd.task /\ sd'.at \in {"cancel", "over"}
    BY <1>0, <2>1 DEF SdOK
  <2>4. CASE Running(sd.task)
    BY <1>3, <2>1, <2>2, <2>3, <2>4
  <2>5. CASE ~Running(sd.task)
    BY <1>0, <2>1, <2>2, <2>5, IdFacts DEF Tracked, ShutdownTask
  <2> QED BY <2>4, <2>5
<1> QED BY <1>4, <1>5, <1>6

LEMMA TasksStep ==
  ASSUME IInv, NEW t \in TaskIds, TaskStep(t)
  PROVE  IInv'
PROOF
<1>0. Tracked /\ TasksOK /\ RefsOK /\ ReqsOK /\ SdOK /\ RestOK
  BY TypeParts DEF IInv, Tracked
<1>1. CASE Query(t)
  <2>1. TasksOK' /\ (\A u \in TaskIds : SameTask(u))
    BY <1>0, <1>1, QueryTyped DEF TasksOK
  <2>2. UNCHANGED <<ref, req, lock, sd, last>> /\ ReqsOK' /\ RestOK'
    BY <1>0, <1>1 DEF Query, ReqsOK, RestOK
  <2>3. Reports'
    BY <1>0, <1>1, QueryReports DEF IInv, TasksOK
  <2> QED BY <1>0, <2>1, <2>2, <2>3, SameTracks DEF IInv
<1>2. ASSUME NEW d \in Devices, Send(t, d) PROVE IInv'
  <2>0. lamp \in [Devices -> {"off", "warm", "on", "cool"}]
    BY <1>0 DEF RestOK
  <2>1. TasksOK' /\ (\A u \in TaskIds : SameTask(u))
        /\ lamp' \in {lamp, [lamp EXCEPT ![d] = Switched(tasks[t].want, lamp[d])]}
    BY <1>0, <1>2, <2>0, SendTyped DEF TasksOK
  <2>2. Switched(tasks[t].want, lamp[d]) \in {"off", "warm", "on", "cool"}
    BY <2>0 DEF Switched
  <2>3. UNCHANGED <<ref, req, lock, sd, last>> /\ ReqsOK' /\ RestOK'
    BY <1>0, <1>2, <2>0, <2>1, <2>2 DEF Send, ReqsOK, RestOK
  <2>4. Reports'
    BY <1>0, <1>2, <2>0, SendReports DEF IInv, TasksOK
  <2> QED BY <1>0, <2>1, <2>3, <2>4, SameTracks DEF IInv
<1>3. CASE Finish(t) \/ Unwind(t)
  <2>1. Ends(t)
    BY <1>3 DEF Finish, Unwind
  <2> QED BY <1>0, <2>1, EndTracks, StopReports DEF IInv
<1> QED BY <1>1, <1>2, <1>3 DEF TaskStep

LEMMA SettleStep ==
  ASSUME IInv, NEW d \in Devices, Settle(d)
  PROVE  IInv'
PROOF
<1>0. Tracked /\ TasksOK /\ RefsOK /\ ReqsOK /\ SdOK /\ RestOK
  BY TypeParts DEF IInv, Tracked
<1>1. UNCHANGED <<tasks, ref, req, lock, sd, load, last>> /\ ReqsOK' /\ TasksOK'
  BY <1>0 DEF Settle, ReqsOK, TasksOK
<1>2. RestOK'
  BY <1>0, <1>1 DEF Settle, RestOK
<1>3. \A t \in TaskIds : SameTask(t)
  BY <1>1 DEF SameTask, Running
<1>4. Tracked'
  BY <1>0, <1>1, <1>2, <1>3, SameTracks
<1>5. Reports'
  BY <1>0, SettleReports DEF IInv, TasksOK, RestOK
<1> QED BY <1>4, <1>5 DEF IInv

LEMMA InitInv == Init => IInv
PROOF
<1> SUFFICES ASSUME Init PROVE IInv
  OBVIOUS
<1>1. \A st \in Stages : NewTask("on", "start", st) \in Task
  BY NewTyped, KindFacts
<1>2. Free \in Task /\ Free.st = "free"
  BY FreeTyped
<1>3. NewTask("on", "start", "send").st = "send" /\ NewTask("on", "start", "send").want = "on"
      /\ \A d \in Devices : NewTask("on", "start", "send").result[d] = "none"
  BY NewTyped, KindFacts DEF Stages
<1>4. /\ tasks \in [TaskIds -> Task]
      /\ \A t \in TaskIds : tasks[t].st = "free" \/ (t = 1 /\ OnAtStart)
      /\ \A t \in TaskIds : tasks[t].st \in {"free", "send"}
      /\ \A t \in TaskIds, d \in Devices : tasks[t].st = "send" => tasks[t].result[d] = "none"
      /\ OnAtStart => tasks[1].st = "send" /\ tasks[1].want = "on"
  <2>1. tasks = [t \in TaskIds |-> IF t = 1 /\ OnAtStart THEN NewTask("on", "start", "send") ELSE Free]
    BY DEF Init
  <2>2. "send" \in Stages /\ 1 \in TaskIds
    BY IdFacts DEF Stages
  <2> QED BY <1>1, <1>2, <1>3, <2>1, <2>2
<1>5. ref = [k \in Kinds |-> IF k = "on" /\ OnAtStart THEN 1 ELSE 0]
  BY DEF Init
<1>6. /\ req = [r \in Requests |-> [at |-> "none", kind |-> "on", task |-> 0]]
      /\ lock = "none" /\ sd = [at |-> "none", task |-> 0]
      /\ load = [count |-> 0, seen |-> FALSE, recent |-> FALSE]
      /\ lamp \in [Devices -> {"off", "on"}] /\ last = "none"
  BY DEF Init
<1>7. RefsOK
  BY <1>4, <1>5, KindFacts, IdFacts DEF RefsOK, InFlight, Running
<1>8. TasksOK /\ ReqsOK /\ SdOK /\ RestOK
  BY <1>4, <1>6, KindFacts, PowerAssumption DEF TasksOK, ReqsOK, SdOK, RestOK
<1>9. Covered
  <2>1. OnAtStart => ref["on"] = 1
    BY <1>5, KindFacts
  <2>2. \A t \in TaskIds : tasks[t].st # "free" => t = 1 /\ OnAtStart
    BY <1>4
  <2> QED BY <2>1, <2>2 DEF Covered
<1>10. LockIsBrief /\ CancellerHasLock /\ ShutdownTask /\ OppositeGone
  BY <1>6, KindFacts DEF LockIsBrief, CancellerHasLock, ShutdownTask, OppositeGone
<1>11. Reports
  <2>1. \A t \in TaskIds : tasks[t].st # "query"
    BY <1>4
  <2>2. \A t \in TaskIds : Running(t) => t = 1
    BY <1>4 DEF Running
  <2>3. \A t \in TaskIds, d \in Devices : tasks[t].st = "send" => tasks[t].result[d] # "ok"
    BY <1>4
  <2> QED BY <2>1, <2>2, <2>3 DEF Reports, RacersKnow, DoneIsDone, QueryIsOff
<1> QED BY <1>7, <1>8, <1>9, <1>10, <1>11, RoomLeft, TypeParts DEF IInv, Tracked

LEMMA StepInv == IInv /\ [Next]_vars => IInv'
PROOF
<1> SUFFICES ASSUME IInv, [Next]_vars PROVE IInv'
  OBVIOUS
<1>1. CASE UNCHANGED vars
  <2>1. ReqsOK' /\ RestOK'
    BY <1>1, TypeParts DEF IInv, Tracked, vars, ReqsOK, RestOK
  <2> QED BY <1>1, <2>1, SameTasks DEF vars
<1>2. CASE Next
  BY <1>2, RequestStep, EdgeStep, ShutdownStep, TasksStep, SettleStep DEF Next
<1> QED BY <1>1, <1>2

LEMMA Inductive == Spec => []IInv
PROOF
  BY InitInv, StepInv, PTL DEF Spec

\* Types, the references that are only to tasks in flight, and that five ids are
\* enough however many presses, loads and retries there are.
THEOREM PowerTyped == Spec => []PowerTypeOK
PROOF
<1>1. IInv => PowerTypeOK
  BY DEF IInv, Tracked
<1> QED BY <1>1, Inductive, PTL

\* Whoever holds _projector_power_lock waits for a task that was cancelled.
THEOREM LockBrief == Spec => []LockIsBrief
PROOF
<1>1. IInv => LockIsBrief
  BY DEF IInv, Tracked
<1> QED BY <1>1, Inductive, PTL

\* Outside the lock, every press's task that runs wants what the last press wanted.
THEOREM LastWins == Spec => []LastPressWins
PROOF
<1>1. IInv => LastPressWins
  <2> SUFFICES ASSUME IInv, lock = "none", last # "none", NEW t \in TaskIds,
                      Running(t), tasks[t].from \in {"start", "press"}
               PROVE  tasks[t].want = last
    BY DEF LastPressWins
  <2>1. RefsOK /\ SdOK /\ RestOK
    BY TypeParts DEF IInv, Tracked
  <2>2. last \in Kinds
    BY <2>1 DEF RestOK
  <2>3. t # sd.task
    BY IdFacts DEF IInv, Tracked, ShutdownTask, Running
  <2>4. PICK k \in Kinds : t = ref[k]
    BY <2>3, KindFacts DEF IInv, Tracked, Covered, HeldFor, Running
  <2>5. tasks[t].want = k /\ ~OnlyLoads(k)
    BY <2>1, <2>4, IdFacts DEF RefsOK, InFlight, OnlyLoads
  <2>6. OnlyLoads(Other(last))
    BY <2>2 DEF IInv, Tracked, OppositeGone
  <2> QED BY <2>2, <2>4, <2>5, <2>6, KindFacts
<1> QED BY <1>1, Inductive, PTL

\* A task that reports every device as done left every lamp so, unless one of the
\* other kind ran beside it: however many devices, retries and lost replies.
THEOREM TrueReport == Spec => []ReportIsTrue
PROOF
<1>1. IInv => ReportIsTrue
  BY DEF IInv, Reports, DoneIsDone, ReportIsTrue, AllIn, AllOk, Goal
<1> QED BY <1>1, Inductive, PTL
=============================================================================
