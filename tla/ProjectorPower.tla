--------------------------- MODULE ProjectorPower ---------------------------
(***************************************************************************)
(* The power tasks of the displays: /poweron and /poweroff with ?wait=1,   *)
(* the power-on at start and on load, and the power-off of a shutdown      *)
(* (bridge.py), over displays/manager.py and the PJLink driver.            *)
(*                                                                         *)
(* A POWR exchange is one step; its device may act although the reply is   *)
(* lost.  The parallel status queries of a power-off are one step.  A task *)
(* that ends answers its waiters and frees its id; a reference to a task   *)
(* that is done is as good as None.  The cached states, which only /status *)
(* shows, and bridge.stop() are left out, and so is which failure a device *)
(* had: an answer is a 200 or not.  Without ?wait=1 the same tasks run and *)
(* the answer is at once a 200.                                            *)
(***************************************************************************)
EXTENDS Naturals

CONSTANTS
  Devices,     \* the display fleet
  Requests,    \* /poweron and /poweroff requests
  Tries,       \* POWR attempts per device: one and a retry per delay
  OnAtStart,   \* projector_power_on_on_start
  MaxLoads,    \* bound: loads of a project
  MaxTasks     \* bound: tasks in flight at a time

ASSUME PowerAssumption ==
  /\ Tries \in Nat \ {0} /\ MaxLoads \in Nat /\ OnAtStart \in BOOLEAN
  /\ MaxTasks \in Nat /\ MaxTasks >= 5   \* the references, the lock's and the shutdown's: four
  /\ "none" \notin Requests

VARIABLES
  tasks,   \* the power tasks that are not done
  ref,     \* _projector_on_task and _projector_off_task; 0 is None
  req,     \* each request
  lock,    \* who holds _projector_power_lock
  sd,      \* the displays' part of _run_shutdown
  load,    \* the load edge: _project_loaded_seen, the debounce, and how many
  lamp,    \* external: each device
  last     \* history: what the last press that had the lock wanted

vars == <<tasks, ref, req, lock, sd, load, lamp, last>>

TaskIds  == 1..MaxTasks
Kinds    == {"on", "off"}
Other(k) == IF k = "on" THEN "off" ELSE "on"
Results  == {"none", "ok", "failed"}   \* "ok": already_off too; "failed": unconfirmed too

Task == [want : Kinds, from : {"start", "press", "load", "shutdown"},
         st : {"free", "query", "send", "cancelling"},
         raced : BOOLEAN,   \* history: one of the other kind ran beside it
         left : [Devices -> 0..Tries], result : [Devices -> Results]]

Running(t)  == tasks[t].st \in {"query", "send"}
InFlight(t) == t # 0   \* a reference to a task that is not done

\* The bound leaves an id for the next task.
Room == \E t \in TaskIds : tasks[t].st = "free"

\* With it: the bound never bites, and a reference is to a task of its kind that was not cancelled.
PowerTypeOK ==
  /\ tasks \in [TaskIds -> Task] /\ Room
  /\ ref \in [Kinds -> {0} \cup TaskIds]
  /\ \A k \in Kinds : InFlight(ref[k]) => Running(ref[k]) /\ tasks[ref[k]].want = k
  /\ req \in [Requests -> [at : {"none", "want", "cancel", "wait", "answered"},
                           kind : Kinds, task : {0} \cup TaskIds]]
  /\ lock \in Requests \cup {"none"}
  /\ sd \in [at : {"none", "cancel", "join", "over"}, task : {0} \cup TaskIds]
  /\ load \in [count : 0..MaxLoads, seen : BOOLEAN, recent : BOOLEAN]
  /\ lamp \in [Devices -> {"off", "warm", "on", "cool"}]
  /\ last \in Kinds \cup {"none"}

NewTask(want, from, st) ==
  [want |-> want, from |-> from, st |-> st, raced |-> FALSE,
   left |-> [d \in Devices |-> Tries], result |-> [d \in Devices |-> "none"]]
Free == NewTask("on", "press", "free")

Init ==   \* _maybe_power_on_at_start
  /\ tasks = [t \in TaskIds |-> IF t = 1 /\ OnAtStart THEN NewTask("on", "start", "send")
                                                     ELSE Free]
  /\ ref = [k \in Kinds |-> IF k = "on" /\ OnAtStart THEN 1 ELSE 0]
  /\ req = [r \in Requests |-> [at |-> "none", kind |-> "on", task |-> 0]]
  /\ lock = "none" /\ sd = [at |-> "none", task |-> 0]
  /\ load = [count |-> 0, seen |-> FALSE, recent |-> FALSE]
  /\ lamp \in [Devices -> {"off", "on"}]
  /\ last = "none"

Cancelled(t) == [tasks EXCEPT ![t].st = "cancelling"]

\* The id of the next task.
Next1 == CHOOSE t \in TaskIds : tasks[t].st = "free"

\* create_task; a task races with those of the other kind that still run.
Spawned(want, from, st) ==
  LET races(t) == Running(t) /\ tasks[t].want # want
  IN  [t \in TaskIds |->
         IF t = Next1 THEN [NewTask(want, from, st) EXCEPT !.raced = \E u \in TaskIds : races(u)]
         ELSE IF races(t) THEN [tasks[t] EXCEPT !.raced = TRUE] ELSE tasks[t]]

\* ------------------- /poweron and /poweroff ------------------------------

Press(r, kind) ==
  /\ req[r].at = "none"
  /\ req' = [req EXCEPT ![r].at = "want", ![r].kind = kind]
  /\ UNCHANGED <<tasks, ref, lock, sd, load, lamp, last>>

\* Joins the task in flight or spawns one; only a power-off queries first.
JoinOrSpawn(r, refs) ==
  LET kind == req[r].kind
      mine == IF InFlight(refs[kind]) THEN refs[kind] ELSE Next1
  IN  /\ IF InFlight(refs[kind]) THEN UNCHANGED tasks
            ELSE Room /\ tasks' = Spawned(kind, "press", IF kind = "off" THEN "query" ELSE "send")
      /\ ref' = [refs EXCEPT ![kind] = mine]
      /\ req' = [req EXCEPT ![r].at = "wait", ![r].task = mine]
      /\ last' = kind

\* Mutant: the opposite task is forgotten, not cancelled.
EnterForgetting(r) ==
  /\ req[r].at = "want" /\ lock = "none"
  /\ JoinOrSpawn(r, [ref EXCEPT ![Other(req[r].kind)] = 0])
  /\ UNCHANGED <<lock, sd, load, lamp>>

\* The lock is free: cancel the opposite task, and wait for it if it is in flight.
Enter(r) ==
  LET other == Other(req[r].kind)
      opp   == ref[other]
      refs  == [ref EXCEPT ![other] = 0]
  IN  /\ req[r].at = "want" /\ lock = "none"
      /\ IF InFlight(opp)
           THEN /\ tasks' = Cancelled(opp) /\ ref' = refs
                /\ req' = [req EXCEPT ![r].at = "cancel", ![r].task = opp]
                /\ lock' = r
                /\ UNCHANGED last
           ELSE JoinOrSpawn(r, refs) /\ UNCHANGED lock
      /\ UNCHANGED <<sd, load, lamp>>

\* Mutant: a request that joins leaves the lock held.
ResumeKeeping(r) ==
  /\ req[r].at = "cancel" /\ req[r].task = 0
  /\ JoinOrSpawn(r, ref)
  /\ lock' = IF InFlight(ref[req[r].kind]) THEN lock ELSE "none"
  /\ UNCHANGED <<sd, load, lamp>>

Resume(r) ==   \* the cancelled task is done
  /\ req[r].at = "cancel" /\ req[r].task = 0
  /\ JoinOrSpawn(r, ref)
  /\ lock' = "none"
  /\ UNCHANGED <<sd, load, lamp>>

Answered == [at |-> "answered", kind |-> "on", task |-> 0]

WaitTimesOut(r) ==
  /\ req[r].at = "wait" /\ req' = [req EXCEPT ![r] = Answered]   \* 504
  /\ UNCHANGED <<tasks, ref, lock, sd, load, lamp, last>>

\* ------------------- the load edge and shutdown --------------------------

SpawnOnLoad ==   \* _spawn_projector_power_on
  IF InFlight(ref["on"]) THEN UNCHANGED <<tasks, ref>>
    ELSE /\ Room /\ tasks' = Spawned("on", "load", "send")
         /\ ref' = [ref EXCEPT !["on"] = Next1]

Loaded ==   \* a `load` frame with a project; one that was seen changes nothing
  /\ ~load.seen /\ load.count < MaxLoads
  /\ load' = [count |-> load.count + 1, seen |-> TRUE, recent |-> TRUE]
  /\ IF load.recent THEN UNCHANGED <<tasks, ref>> ELSE SpawnOnLoad
  /\ UNCHANGED <<req, lock, sd, lamp, last>>

Unloaded ==
  /\ load.seen /\ load' = [load EXCEPT !.seen = FALSE]
  /\ UNCHANGED <<tasks, ref, req, lock, sd, lamp, last>>

EngineDrops ==   \* _on_engine_disconnect
  /\ load.seen \/ load.recent
  /\ load' = [load EXCEPT !.seen = FALSE, !.recent = FALSE]
  /\ UNCHANGED <<tasks, ref, req, lock, sd, lamp, last>>

DebounceOver ==
  /\ load.recent /\ load' = [load EXCEPT !.recent = FALSE]
  /\ UNCHANGED <<tasks, ref, req, lock, sd, lamp, last>>

SpawnAtShutdown ==
  /\ Room /\ tasks' = Spawned("off", "shutdown", "send")
  /\ sd' = [at |-> "join", task |-> Next1]

Shutdown ==   \* Step 6b; takes no lock, and its off task is in no reference
  /\ sd.at = "none"
  /\ ref' = [ref EXCEPT !["on"] = 0]
  /\ IF InFlight(ref["on"])
       THEN tasks' = Cancelled(ref["on"]) /\ sd' = [at |-> "cancel", task |-> ref["on"]]
       ELSE SpawnAtShutdown
  /\ UNCHANGED <<req, lock, load, lamp, last>>

ShutdownResumes ==
  /\ sd.at = "cancel" /\ sd.task = 0
  /\ SpawnAtShutdown
  /\ UNCHANGED <<ref, req, lock, load, lamp, last>>

JoinTimesOut ==   \* wait_for cancels the task
  /\ sd.at = "join"
  /\ tasks' = Cancelled(sd.task) /\ sd' = [sd EXCEPT !.at = "over"]
  /\ UNCHANGED <<ref, req, lock, load, lamp, last>>

\* ------------------- tasks and devices -----------------------------------

\* Mutant: a device that warms up counts as not on.
NotOn == {"off", "cool", "warm"}

SkipStates == {"off", "cool"}   \* of power_off_where_needed

\* status_all, and the targets of power_off_where_needed; a query may fail.
Query(t) ==
  /\ tasks[t].st = "query"
  /\ \E known \in SUBSET Devices :
       LET skipped == {d \in known : lamp[d] \in SkipStates}
       IN  tasks' = [tasks EXCEPT ![t].st = "send",
                       ![t].left = [d \in Devices |-> IF d \in skipped THEN 0 ELSE Tries],
                       ![t].result = [d \in Devices |-> IF d \in skipped THEN "ok" ELSE "none"]]
  /\ UNCHANGED <<ref, req, lock, sd, load, lamp, last>>

Switched(want, l) ==   \* what a POWR that takes effect makes of a lamp
  IF want = "on" THEN (IF l \in {"off", "cool"} THEN "warm" ELSE l)
                 ELSE (IF l \in {"on", "warm"} THEN "cool" ELSE l)

Outcome(t, d, res) == tasks' = [tasks EXCEPT ![t].result[d] = res, ![t].left[d] = 0]

Retried(t, d) ==
  IF tasks[t].left[d] > 1 THEN tasks' = [tasks EXCEPT ![t].left[d] = @ - 1]
                          ELSE Outcome(t, d, "failed")

\* One POWR: OK when the device is ready, ERR3 while it warms or cools, no
\* reply, or a hard error.  Only an OK says whether it took effect.
Send(t, d) ==
  LET busy == lamp[d] \in {"warm", "cool"}
      done == Switched(tasks[t].want, lamp[d])
  IN  /\ tasks[t].st = "send" /\ tasks[t].result[d] = "none"
      /\ \/ ~busy /\ lamp' = [lamp EXCEPT ![d] = done] /\ Outcome(t, d, "ok")
         \/ /\ lamp' \in {lamp, [lamp EXCEPT ![d] = done]}
            /\ Retried(t, d)
         \/ UNCHANGED lamp /\ Outcome(t, d, "failed")
      /\ UNCHANGED <<ref, req, lock, sd, load, last>>

AllIn(t) == tasks[t].st = "send" /\ \A d \in Devices : tasks[t].result[d] # "none"
AllOk(t) == \A d \in Devices : tasks[t].result[d] = "ok"

\* Mutant: a reference to a task that is done counts as in flight.
EndsInFlight(t) ==
  /\ tasks' = [tasks EXCEPT ![t] = Free]
  /\ req' = [r \in Requests |->
               IF req[r].task # t THEN req[r]
               ELSE IF req[r].at = "wait" THEN Answered ELSE [req[r] EXCEPT !.task = 0]]
  /\ sd' = IF sd.task # t THEN sd
           ELSE [at |-> IF sd.at = "cancel" THEN "cancel" ELSE "over", task |-> 0]
  /\ UNCHANGED <<ref, lock, load, lamp, last>>

\* Task t is done: its waiters are answered, its canceller may go on.
Ends(t) ==
  /\ tasks' = [tasks EXCEPT ![t] = Free]
  /\ ref' = [k \in Kinds |-> IF ref[k] = t THEN 0 ELSE ref[k]]
  /\ req' = [r \in Requests |->
               IF req[r].task # t THEN req[r]
               ELSE IF req[r].at = "wait" THEN Answered ELSE [req[r] EXCEPT !.task = 0]]
  /\ sd' = IF sd.task # t THEN sd
           ELSE [at |-> IF sd.at = "cancel" THEN "cancel" ELSE "over", task |-> 0]
  /\ UNCHANGED <<lock, load, lamp, last>>

Finish(t) == AllIn(t) /\ Ends(t)   \* 200 if AllOk(t)
Unwind(t) == tasks[t].st = "cancelling" /\ Ends(t)   \* 409 superseded

Settle(d) ==
  /\ lamp[d] \in {"warm", "cool"}
  /\ lamp' = [lamp EXCEPT ![d] = IF @ = "warm" THEN "on" ELSE "off"]
  /\ UNCHANGED <<tasks, ref, req, lock, sd, load, last>>

Handler(r)  == Enter(r) \/ Resume(r) \/ WaitTimesOut(r)
TaskStep(t) == Query(t) \/ (\E d \in Devices : Send(t, d)) \/ Finish(t) \/ Unwind(t)

Next ==
  \/ \E r \in Requests : (\E k \in Kinds : Press(r, k)) \/ Handler(r)
  \/ Loaded \/ Unloaded \/ EngineDrops \/ DebounceOver
  \/ Shutdown \/ ShutdownResumes \/ JoinTimesOut
  \/ \E t \in TaskIds : TaskStep(t)
  \/ \E d \in Devices : Settle(d)

Spec == Init /\ [][Next]_vars

\* ------------------- properties ------------------------------------------

\* "the last of an ON/OFF pair wins" (bridge.py:345-347): outside the lock,
\* every press's task that runs wants what the last press wanted, whatever
\* was joined or cancelled between, and so does the task of the start.  A task
\* of a load or a shutdown is outside this: they take no lock.
LastPressWins ==
  lock = "none" /\ last # "none" =>
    \A t \in TaskIds :
      Running(t) /\ tasks[t].from \in {"start", "press"} => tasks[t].want = last

\* A task that is about to report every device as done left every lamp so,
\* unless one of the other kind ran beside it: a POWR of a cancelled task, a
\* lost reply or a lamp that still warms does not make the answer wrong.
ReportIsTrue ==
  \A t \in TaskIds : AllIn(t) /\ AllOk(t) /\ ~tasks[t].raced =>
    \A d \in Devices :
      lamp[d] \in (IF tasks[t].want = "on" THEN {"warm", "on"} ELSE {"cool", "off"})

\* The lock is never kept for long: whoever holds it waits for a task that was
\* cancelled, so no press waits behind a device (bridge.py:358-362, 384-394).
LockIsBrief ==
  lock # "none" => /\ req[lock].at = "cancel"
                   /\ req[lock].task # 0 => tasks[req[lock].task].st = "cancelling"
=============================================================================
