------------------------------ MODULE Shutdown ------------------------------
(***************************************************************************)
(* The shutdown sequence: handle_shutdown and _run_shutdown (bridge.py),   *)
(* the SSH fan-out (node_executor.py), the reachability poll               *)
(* (reachability.py) and the Shelly client (shelly.py), with the nodes,    *)
(* the Shelly and the controller they act on.  What the sequence does to   *)
(* operations and auto-play is in PowerBridge.                             *)
(*                                                                         *)
(* A poll round is one step, its sleep included; so is a Shelly attempt.   *)
(* The power-off of displays only delays: its join is bounded.  A dry run  *)
(* is not modelled, nor a node that comes back.                            *)
(***************************************************************************)
EXTENDS Naturals

CONSTANTS
  Nodes,        \* the resolved slaves of network_map.xml
  Clients,      \* who posts /shutdown
  Confirm,      \* confirm_failures
  MaxBlips,     \* probes in a row that a live node may miss
  MinRounds,    \* poll rounds that shutdown_max_wait_s holds at least,
  MaxRounds,    \*   and at most: a round takes 2 to 6 s
  Attempts,     \* of call_with_retry: one and a retry per delay
  MaxRequests,  \* bound: requests that take the lock
  MaxRestarts   \* bound: restarts of the bridge process

ASSUME ShutdownAssumption ==
  /\ Confirm \in Nat /\ MaxBlips \in Nat
  /\ MaxBlips < Confirm   \* the blips the debounce is for
  /\ MinRounds \in Nat \ {0} /\ MaxRounds \in Nat /\ MinRounds <= MaxRounds
  /\ Attempts \in Nat \ {0} /\ MaxRequests \in Nat /\ MaxRestarts \in Nat
  /\ "none" \notin Clients

VARIABLES
  answer,      \* answer[c]: what the last request of c was answered
  owner,       \* the request that holds _shutdown_lock, or "none"
  state,       \* _state
  error,       \* the kind of _last_error
  at,          \* where _run_shutdown awaits
  pending,     \* _nodes_pending
  ssh,         \* nodes whose ssh runs
  misses,      \* consecutive_failures; confirmed_down at Confirm
  round,       \* rounds of this poll
  tries,       \* failed attempts of this Shelly call
  node,        \* external: each node
  blips,       \* external: probes in a row a live node has missed
  relay,       \* external: output of the Shelly
  timer,       \* external: whether its toggle_after timer runs
  controller,  \* external: this machine
  requests, restarts   \* how many so far

bridgeVars == <<owner, state, error, at, pending, ssh, misses, round, tries>>
powerVars  == <<relay, timer, controller>>
bounds     == <<requests, restarts>>
vars == <<answer, bridgeVars, node, blips, powerVars, bounds>>

Replies == {"none", "waiting", "lost", "ok", "shutdown_already_in_progress",
            "engine_state_unknown", "project_running", "shelly_unreachable",
            "internal_error"}

ShutdownTypeOK ==
  /\ answer \in [Clients -> Replies]
  /\ owner \in Clients \cup {"none"}
  /\ state \in {"idle", "checking", "polling", "arming-shelly", "poweroff-issued", "failed"}
  /\ error \in {"none", "engine", "shelly", "other"}
  /\ at \in {"idle", "ssh", "poll", "join", "status", "set", "exec"}
  /\ pending \subseteq Nodes /\ ssh \subseteq Nodes
  /\ misses \in [Nodes -> 0..Confirm]
  /\ round \in 0..MaxRounds-1
  /\ tries \in 0..Attempts-1
  /\ node \in [Nodes -> {"up", "halting", "down"}]
  /\ blips \in [Nodes -> 0..MaxBlips]
  /\ relay \in {"closed", "open"} /\ timer \in BOOLEAN
  /\ controller \in {"up", "halting", "off"}
  /\ requests \in 0..MaxRequests /\ restarts \in 0..MaxRestarts

Init ==
  /\ owner = "none" /\ state = "idle" /\ error = "none" /\ at = "idle"
  /\ pending = {} /\ ssh = {} /\ round = 0 /\ tries = 0
  /\ misses = [n \in Nodes |-> 0]
  /\ answer = [c \in Clients |-> "none"]
  /\ node \in [Nodes -> {"up", "down"}] /\ blips = [n \in Nodes |-> 0]
  /\ relay \in {"closed", "open"} /\ timer = FALSE /\ controller = "up"
  /\ requests = 0 /\ restarts = 0

Alive == controller # "off"   \* until then the process may still run

\* ------------------- handle_shutdown -------------------------------------

\* The holder of the lock is answered and leaves it.
Answered(reply, st, err) ==
  /\ answer' = [answer EXCEPT ![owner] = reply]
  /\ owner' = "none" /\ at' = "idle" /\ state' = st /\ error' = err

Refused(c) ==   \* the lock is taken
  /\ Alive /\ owner # "none" /\ answer[c] # "waiting"
  /\ answer' = [answer EXCEPT ![c] = "shutdown_already_in_progress"]
  /\ UNCHANGED <<bridgeVars, node, blips, powerVars, bounds>>

\* The gate refuses: engine_state_unknown or project_running.
Gated(c, reply) ==
  /\ Alive /\ owner = "none"
  /\ answer' = [answer EXCEPT ![c] = reply]
  /\ state' = "idle" /\ error' = "engine"
  /\ UNCHANGED <<owner, at, pending, ssh, misses, round, tries, node, blips, powerVars, bounds>>

Accepted(c) ==   \* up to the fan-out, with the counters of a new poll
  /\ Alive /\ owner = "none" /\ requests < MaxRequests
  /\ answer' = [answer EXCEPT ![c] = "waiting"]
  /\ owner' = c /\ state' = "checking" /\ at' = "ssh"
  /\ pending' = Nodes /\ ssh' = Nodes
  /\ misses' = [n \in Nodes |-> 0] /\ round' = 0 /\ tries' = 0
  /\ requests' = requests + 1
  /\ UNCHANGED <<error, node, blips, powerVars, restarts>>

\* ------------------- nodes -----------------------------------------------

\* _ssh_one returns, whatever it returns; the node may have got the command.
SshReturns(n) ==
  /\ Alive /\ at = "ssh" /\ n \in ssh
  /\ ssh' = ssh \ {n}
  /\ \/ UNCHANGED node
     \/ node[n] = "up" /\ node' = [node EXCEPT ![n] = "halting"]
  /\ UNCHANGED <<answer, owner, state, error, at, pending, misses, round, tries,
                 blips, powerVars, bounds>>

FanoutDone ==   \* Steps 6b and 7
  /\ Alive /\ at = "ssh" /\ ssh = {}
  /\ IF Nodes = {} THEN at' = "join" /\ UNCHANGED state
                   ELSE at' = "poll" /\ state' = "polling"
  /\ UNCHANGED <<answer, owner, error, pending, ssh, misses, round, tries,
                 node, blips, powerVars, bounds>>

\* Mutant: a host that was confirmed is probed again.
EveryHost == Nodes

Targets == {n \in Nodes : misses[n] < Confirm}

\* Mutant: an answer does not reset the count.
CountedOnce(probed, heard) ==
  [n \in Nodes |-> IF n \in probed \ heard THEN misses[n] + 1 ELSE misses[n]]

Counted(probed, heard) ==
  [n \in Nodes |-> IF n \in probed THEN IF n \in heard THEN 0 ELSE misses[n] + 1
                                   ELSE misses[n]]

\* Mutant: the limit is tested only once every host is down.
TimeUpWhenDown(r) == r >= MinRounds /\ Targets = {}

\* Whether max_wait_s may be over after r rounds; it is over after MaxRounds.
TimeUp(r) == r >= MinRounds

\* What the probes of a round hear: nothing of a node that is down, and a
\* live node misses at most MaxBlips in a row.
Hears(probed, heard) ==
  \A n \in probed : /\ n \in heard => node[n] # "down"
                    /\ n \notin heard => node[n] = "down" \/ blips[n] < MaxBlips

Round ==
  /\ Alive /\ at = "poll" /\ Targets # {}
  /\ \E heard \in SUBSET Targets :
       /\ Hears(Targets, heard)
       /\ misses' = Counted(Targets, heard)
       /\ blips' = [n \in Nodes |-> IF n \notin Targets THEN blips[n]
                                    ELSE IF n \in heard \/ node[n] = "down" THEN 0
                                    ELSE blips[n] + 1]
  /\ \/ /\ round + 1 < MaxRounds
        /\ round' = round + 1 /\ UNCHANGED <<at, pending>>
     \/ /\ TimeUp(round + 1)
        /\ at' = "join" /\ round' = 0
        /\ pending' = {n \in Nodes : misses'[n] < Confirm}
  /\ UNCHANGED <<answer, owner, state, error, ssh, tries, node, powerVars, bounds>>

AllDown ==
  /\ Alive /\ at = "poll" /\ Targets = {}
  /\ at' = "join" /\ pending' = {} /\ round' = 0
  /\ UNCHANGED <<answer, owner, state, error, ssh, misses, tries, node,
                 blips, powerVars, bounds>>

\* ------------------- Shelly and poweroff ---------------------------------

Joined ==   \* the displays' power-off ended or ran out of its budget
  /\ Alive /\ at = "join"
  /\ at' = "status" /\ state' = "arming-shelly" /\ tries' = 0
  /\ UNCHANGED <<answer, owner, error, pending, ssh, misses, round,
                 node, blips, powerVars, bounds>>

ShellyError ==   \* handle_shutdown's `except ShellyError`
  /\ Answered("shelly_unreachable", "failed", "shelly")
  /\ pending' = {} /\ UNCHANGED tries

\* Mutant: after its retries a failed call is only logged.
AttemptFailsSoftly(next) ==
  IF tries + 1 < Attempts
    THEN tries' = tries + 1 /\ UNCHANGED <<answer, owner, at, state, error, pending>>
    ELSE at' = next /\ tries' = 0 /\ UNCHANGED <<answer, owner, state, error, pending>>

\* An attempt of call_with_retry fails; next is what follows a success.
AttemptFails(next) ==
  IF tries + 1 < Attempts
    THEN tries' = tries + 1 /\ UNCHANGED <<answer, owner, at, state, error, pending>>
    ELSE ShellyError

Status ==   \* Switch.GetStatus; an empty body counts as output true
  /\ Alive /\ at = "status"
  /\ \/ at' = "set" /\ tries' = 0 /\ UNCHANGED <<answer, owner, state, error, pending>>
     \/ relay = "open" /\ ShellyError
     \/ AttemptFails("set")
  /\ UNCHANGED <<ssh, misses, round, node, blips, powerVars, bounds>>

Set ==   \* Switch.Set on=true toggle_after: executed or not, its reply lost or not
  /\ Alive /\ at = "set"
  /\ \/ relay' = "closed" /\ timer' = TRUE
     \/ UNCHANGED <<relay, timer>>
  /\ \/ /\ relay' = "closed" /\ timer'
        /\ at' = "exec" /\ state' = "poweroff-issued"
        /\ UNCHANGED <<answer, owner, error, pending, tries>>
     \/ AttemptFails("exec")
  /\ UNCHANGED <<ssh, misses, round, node, blips, controller, bounds>>

Poweroff ==   \* Step 10
  /\ Alive /\ at = "exec"
  /\ \/ /\ controller' = "halting"
        /\ Answered("ok", state, error)
     \/ /\ UNCHANGED controller   \* the command cannot be started
        /\ Answered("internal_error", "failed", "other")
  /\ UNCHANGED <<pending, ssh, misses, round, tries, node, blips, relay, timer, bounds>>

\* ------------------- the machines ----------------------------------------

NodeHalts(n) ==
  /\ node[n] = "halting" /\ node' = [node EXCEPT ![n] = "down"]
  /\ UNCHANGED <<answer, bridgeVars, blips, powerVars, bounds>>

ControllerHalts ==
  /\ controller = "halting" /\ controller' = "off"
  /\ UNCHANGED <<answer, bridgeVars, node, blips, relay, timer, bounds>>

MainsCut ==   \* the timer runs out
  /\ timer /\ timer' = FALSE /\ relay' = "open" /\ controller' = "off"
  /\ node' = [n \in Nodes |-> "down"]
  /\ UNCHANGED <<answer, bridgeVars, blips, bounds>>

Restart ==   \* the process is killed and started again: nothing is persisted
  /\ Alive /\ restarts < MaxRestarts
  /\ owner' = "none" /\ state' = "idle" /\ error' = "none" /\ at' = "idle"
  /\ pending' = {} /\ ssh' = {} /\ round' = 0 /\ tries' = 0
  /\ misses' = [n \in Nodes |-> 0]
  /\ answer' = [c \in Clients |-> IF answer[c] = "waiting" THEN "lost" ELSE answer[c]]
  /\ restarts' = restarts + 1
  /\ UNCHANGED <<node, blips, powerVars, requests>>

Post(c) == \/ Refused(c) \/ Accepted(c)
           \/ Gated(c, "engine_state_unknown") \/ Gated(c, "project_running")
Coordinator ==
  \/ \E n \in Nodes : SshReturns(n)
  \/ FanoutDone \/ Round \/ AllDown \/ Joined \/ Status \/ Set \/ Poweroff

Next ==
  \/ \E c \in Clients : Post(c)
  \/ Coordinator
  \/ \E n \in Nodes : NodeHalts(n)
  \/ ControllerHalts \/ MainsCut \/ Restart

Spec == Init /\ [][Next]_vars

\* Each await of the sequence ends: ssh and probes have a timeout, an attempt
\* too, and the displays' join a budget.
FairShutdown == Spec /\ WF_vars(Coordinator)

\* ------------------- properties ------------------------------------------

\* The mains timer is only set, and the poweroff only issued, when every node
\* of the map has left the network or was reported as stuck: short blips of a
\* live node do not count as down, also in a second shutdown after a failed
\* one (reachability.py:99-111, bridge.py:596).
NodesDownFirst ==
  at \in {"join", "status", "set", "exec"} =>
    \A n \in Nodes : node[n] = "down" \/ n \in pending

\* The controller never powers off without a mains-cut deadline: the timer
\* runs, or has run out (README.md "Fail-safe over availability").
NoPoweroffUnarmed == controller # "up" => timer \/ relay = "open"

\* Every accepted request is answered while the machine lives, also when a
\* node never goes down or the Shelly never answers.
ShutdownEnds ==
  \A c \in Clients : answer[c] = "waiting" ~> answer[c] # "waiting" \/ ~Alive

\* "Abort path: do NOT poweroff controller. Mains stay on." (bridge.py:529).
AbortKeepsMains == state = "failed" /\ error = "shelly" => ~timer
=============================================================================
