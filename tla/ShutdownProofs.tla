--------------------------- MODULE ShutdownProofs ---------------------------
(***************************************************************************)
(* What Shutdown promises, for any nodes, clients, debounce, wait and      *)
(* number of attempts.                                                     *)
(***************************************************************************)
EXTENDS Shutdown, TLAPS

\* The lock is held exactly while the sequence runs.
HeldWhileActive == owner = "none" <=> at = "idle"

\* A live node has been counted no more often than it has missed in a row.
MissesAreBlips == \A n \in Nodes : node[n] = "down" \/ misses[n] <= blips[n]

\* Behind the accepted Switch.Set the timer runs, or has run out.
ArmedAtExec == at = "exec" => timer \/ relay = "open"

IInv ==
  /\ ShutdownTypeOK /\ HeldWhileActive /\ MissesAreBlips /\ ArmedAtExec
  /\ NodesDownFirst /\ NoPoweroffUnarmed

-----------------------------------------------------------------------------

\* The initial state satisfies the invariant: nothing is counted, armed or off.
LEMMA InitIInv == Init => IInv
<1> SUFFICES ASSUME Init PROVE IInv
  OBVIOUS
<1>1. 0 \in 0..Confirm /\ 0 \in 0..MaxBlips /\ 0 \in 0..MaxRounds-1 /\ 0 \in 0..Attempts-1
  BY ShutdownAssumption
<1>2. ShutdownTypeOK
  <2>1. answer \in [Clients -> Replies] /\ owner \in Clients \cup {"none"}
    BY DEF Init, Replies
  <2>2. misses \in [Nodes -> 0..Confirm] /\ blips \in [Nodes -> 0..MaxBlips]
    BY <1>1 DEF Init
  <2>3. round \in 0..MaxRounds-1 /\ tries \in 0..Attempts-1
    BY <1>1 DEF Init
  <2>4. requests \in 0..MaxRequests /\ restarts \in 0..MaxRestarts
    BY ShutdownAssumption DEF Init
  <2>5. node \in [Nodes -> {"up", "halting", "down"}]
    BY DEF Init
  <2> QED
    BY <2>1, <2>2, <2>3, <2>4, <2>5 DEF Init, ShutdownTypeOK
<1>3. MissesAreBlips
  <2>1. ASSUME NEW n \in Nodes PROVE misses[n] = 0 /\ blips[n] = 0
    BY DEF Init
  <2> QED
    BY <2>1, 0 <= 0 DEF MissesAreBlips
<1> QED
  BY <1>2, <1>3 DEF Init, IInv, HeldWhileActive, ArmedAtExec, NodesDownFirst, NoPoweroffUnarmed

-----------------------------------------------------------------------------

\* A failed Shelly attempt keeps the types, whichever call it belongs to.
LEMMA AttemptTyped ==
  ASSUME NEW next \in {"set", "exec"}, ShutdownTypeOK, owner \in Clients,
         AttemptFails(next)
  PROVE  /\ answer' \in [Clients -> Replies] /\ owner' \in Clients \cup {"none"}
         /\ state' \in {state, "failed"} /\ error' \in {error, "shelly"}
         /\ at' \in {at, "idle"} /\ pending' \subseteq Nodes /\ tries' \in 0..Attempts-1
<1>1. CASE tries + 1 < Attempts
  BY <1>1, ShutdownAssumption DEF AttemptFails, ShutdownTypeOK
<1>2. CASE ~(tries + 1 < Attempts)
  BY <1>2 DEF AttemptFails, ShellyError, Answered, ShutdownTypeOK, Replies
<1> QED
  BY <1>1, <1>2

\* A round counts each probed node at most up to Confirm, and a live node's
\* misses and blips go up, or back to 0, together.
LEMMA RoundCounts ==
  ASSUME ShutdownTypeOK, MissesAreBlips, Round
  PROVE  /\ misses' \in [Nodes -> 0..Confirm] /\ blips' \in [Nodes -> 0..MaxBlips]
         /\ MissesAreBlips'
<1>1. PICK heard \in SUBSET Targets :
        /\ Hears(Targets, heard)
        /\ misses' = Counted(Targets, heard)
        /\ blips' = [n \in Nodes |-> IF n \notin Targets THEN blips[n]
                                     ELSE IF n \in heard \/ node[n] = "down" THEN 0
                                     ELSE blips[n] + 1]
  BY DEF Round
<1>2. node' = node
  BY DEF Round
<1>3. ASSUME NEW n \in Nodes
      PROVE  /\ misses'[n] \in 0..Confirm /\ blips'[n] \in 0..MaxBlips
             /\ node[n] = "down" \/ misses'[n] <= blips'[n]
  <2>1. misses[n] \in 0..Confirm /\ blips[n] \in 0..MaxBlips
    BY DEF ShutdownTypeOK
  <2>2. CASE n \notin Targets
    BY <1>1, <2>1, <2>2 DEF Counted, MissesAreBlips
  <2>3. CASE n \in heard
    BY <1>1, <2>1, <2>3, ShutdownAssumption DEF Counted, Targets
  <2>4. CASE n \in Targets \ heard
    <3>1. misses[n] < Confirm /\ misses'[n] = misses[n] + 1
      BY <1>1, <2>4 DEF Counted, Targets
    <3>2. node[n] = "down" \/ blips[n] < MaxBlips
      BY <1>1, <2>4 DEF Hears
    <3>3. blips'[n] = IF node[n] = "down" THEN 0 ELSE blips[n] + 1
      BY <1>1, <2>4
    <3> QED
      BY <2>1, <3>1, <3>2, <3>3, ShutdownAssumption DEF MissesAreBlips
  <2> QED
    BY <2>2, <2>3, <2>4
<1>4. misses' = [n \in Nodes |-> misses'[n]] /\ blips' = [n \in Nodes |-> blips'[n]]
  BY <1>1 DEF Counted
<1> QED
  BY <1>2, <1>3, <1>4 DEF MissesAreBlips

\* Whoever is counted down is down: a live node has too few blips for it.
LEMMA CountedAreDown ==
  ASSUME ShutdownTypeOK, MissesAreBlips, NEW n \in Nodes, misses[n] >= Confirm
  PROVE  node[n] = "down"
<1>1. misses[n] \in 0..Confirm /\ blips[n] \in 0..MaxBlips
  BY DEF ShutdownTypeOK
<1> QED
  BY <1>1, ShutdownAssumption DEF MissesAreBlips

-----------------------------------------------------------------------------

\* Every step keeps the types.
LEMMA TypeStep == IInv /\ [Next]_vars => ShutdownTypeOK'
<1> SUFFICES ASSUME IInv, [Next]_vars PROVE ShutdownTypeOK'
  OBVIOUS
<1> USE DEF ShutdownTypeOK
<1>0. ShutdownTypeOK /\ HeldWhileActive /\ MissesAreBlips
  BY DEF IInv
<1>1. ASSUME NEW c \in Clients, Post(c) PROVE ShutdownTypeOK'
  <2>1. CASE Refused(c)
    BY <1>0, <2>1 DEF Refused, Replies, bridgeVars, powerVars, bounds
  <2>2. CASE Accepted(c)
    <3>1. requests' \in 0..MaxRequests /\ restarts' \in 0..MaxRestarts
      BY <1>0, <2>2, ShutdownAssumption DEF Accepted
    <3>2. misses' \in [Nodes -> 0..Confirm] /\ round' \in 0..MaxRounds-1
          /\ tries' \in 0..Attempts-1
      BY <2>2, ShutdownAssumption DEF Accepted
    <3> QED
      BY <1>0, <2>2, <3>1, <3>2 DEF Accepted, Replies, powerVars, bounds
  <2>3. CASE Gated(c, "engine_state_unknown") \/ Gated(c, "project_running")
    BY <1>0, <2>3 DEF Gated, Replies, powerVars, bounds
  <2> QED
    BY <1>1, <2>1, <2>2, <2>3 DEF Post
<1>2. ASSUME NEW n \in Nodes, SshReturns(n) PROVE ShutdownTypeOK'
  BY <1>0, <1>2 DEF SshReturns, powerVars, bounds
<1>3. CASE FanoutDone
  BY <1>0, <1>3 DEF FanoutDone, powerVars, bounds
<1>4. CASE Round
  <2>1. misses' \in [Nodes -> 0..Confirm] /\ blips' \in [Nodes -> 0..MaxBlips]
    BY <1>0, <1>4, RoundCounts
  <2>2. round' \in 0..MaxRounds-1
    BY <1>0, <1>4, ShutdownAssumption DEF Round
  <2>3. at' \in {"poll", "join"} /\ pending' \subseteq Nodes
    BY <1>0, <1>4 DEF Round
  <2> QED
    BY <1>0, <1>4, <2>1, <2>2, <2>3 DEF Round, powerVars, bounds
<1>5. CASE AllDown
  BY <1>0, <1>5, ShutdownAssumption DEF AllDown, powerVars, bounds
<1>6. CASE Joined
  BY <1>0, <1>6, ShutdownAssumption DEF Joined, powerVars, bounds
<1>7. CASE Status
  <2>1. owner \in Clients
    BY <1>0, <1>7 DEF Status, HeldWhileActive
  <2>2. CASE AttemptFails("set")
    BY <1>0, <1>7, <2>1, <2>2, AttemptTyped DEF Status, powerVars, bounds
  <2>3. CASE ShellyError
    BY <1>0, <1>7, <2>1, <2>3 DEF Status, ShellyError, Answered, Replies, powerVars, bounds
  <2>4. CASE at' = "set" /\ tries' = 0 /\ UNCHANGED <<answer, owner, state, error, pending>>
    BY <1>0, <1>7, <2>4, ShutdownAssumption DEF Status, powerVars, bounds
  <2> QED
    BY <1>7, <2>2, <2>3, <2>4 DEF Status
<1>8. CASE Set
  <2>1. owner \in Clients /\ relay' \in {"closed", "open"} /\ timer' \in BOOLEAN
    BY <1>0, <1>8 DEF Set, HeldWhileActive
  <2>2. CASE AttemptFails("exec")
    BY <1>0, <1>8, <2>1, <2>2, AttemptTyped DEF Set, bounds
  <2>3. CASE /\ at' = "exec" /\ state' = "poweroff-issued"
             /\ UNCHANGED <<answer, owner, error, pending, tries>>
    BY <1>0, <1>8, <2>1, <2>3 DEF Set, bounds
  <2> QED
    BY <1>8, <2>2, <2>3 DEF Set, bounds
<1>9. CASE Poweroff
  <2>1. owner \in Clients
    BY <1>0, <1>9 DEF Poweroff, HeldWhileActive
  <2> QED
    BY <1>0, <1>9, <2>1 DEF Poweroff, Answered, Replies, bounds
<1>10. ASSUME NEW n \in Nodes, NodeHalts(n) PROVE ShutdownTypeOK'
  BY <1>0, <1>10 DEF NodeHalts, bridgeVars, powerVars, bounds
<1>11. CASE ControllerHalts
  BY <1>0, <1>11 DEF ControllerHalts, bridgeVars, bounds
<1>12. CASE MainsCut
  BY <1>0, <1>12 DEF MainsCut, bridgeVars, bounds
<1>13. CASE Restart
  <2>1. requests' \in 0..MaxRequests /\ restarts' \in 0..MaxRestarts
    BY <1>0, <1>13, ShutdownAssumption DEF Restart
  <2>2. answer' \in [Clients -> Replies]
    BY <1>0, <1>13 DEF Restart, Replies
  <2>3. misses' \in [Nodes -> 0..Confirm] /\ round' \in 0..MaxRounds-1
        /\ tries' \in 0..Attempts-1
    BY <1>13, ShutdownAssumption DEF Restart
  <2> QED
    BY <1>0, <1>13, <2>1, <2>2, <2>3 DEF Restart, powerVars, bounds
<1>14. CASE UNCHANGED vars
  BY <1>0, <1>14 DEF vars, bridgeVars, powerVars, bounds
<1> QED
  BY <1>1, <1>2, <1>3, <1>4, <1>5, <1>6, <1>7, <1>8, <1>9, <1>10, <1>11, <1>12, <1>13,
     <1>14 DEF Next, Coordinator

-----------------------------------------------------------------------------

\* Every step keeps the bond of lock and sequence.
LEMMA HeldStep == IInv /\ [Next]_vars => HeldWhileActive'
<1> SUFFICES ASSUME IInv, [Next]_vars PROVE HeldWhileActive'
  OBVIOUS
<1> USE DEF HeldWhileActive
<1>0. HeldWhileActive /\ owner \in Clients \cup {"none"}
  BY DEF IInv, ShutdownTypeOK
<1>1. ASSUME NEW c \in Clients, Post(c) PROVE HeldWhileActive'
  BY <1>0, <1>1, ShutdownAssumption DEF Post, Refused, Accepted, Gated, bridgeVars
<1>2. ASSUME Coordinator PROVE HeldWhileActive'
  BY <1>0, <1>2 DEF Coordinator, SshReturns, FanoutDone, Round, AllDown, Joined, Status, Set,
     Poweroff, AttemptFails, ShellyError, Answered
<1>3. ASSUME NEW n \in Nodes, NodeHalts(n) PROVE HeldWhileActive'
  BY <1>0, <1>3 DEF NodeHalts, bridgeVars
<1> QED
  BY <1>0, <1>1, <1>2, <1>3 DEF Next, ControllerHalts, MainsCut, Restart, vars, bridgeVars

\* Every step keeps the count of a live node within its blips: a round moves
\* both, a new sequence starts from 0, and nothing else counts.
LEMMA MissesStep == IInv /\ [Next]_vars => MissesAreBlips'
<1> SUFFICES ASSUME IInv, [Next]_vars PROVE MissesAreBlips'
  OBVIOUS
<1>0. ShutdownTypeOK /\ MissesAreBlips
  BY DEF IInv
<1>1. CASE Round
  BY <1>0, <1>1, RoundCounts
<1>2. CASE misses' = [n \in Nodes |-> 0] /\ UNCHANGED <<node, blips>>
  <2>1. \A n \in Nodes : blips[n] \in Nat /\ misses'[n] = 0
    BY <1>0, <1>2, ShutdownAssumption DEF ShutdownTypeOK
  <2> QED
    BY <1>2, <2>1 DEF MissesAreBlips
<1>3. CASE UNCHANGED <<misses, node, blips>>
  BY <1>0, <1>3 DEF MissesAreBlips
<1>4. CASE /\ UNCHANGED <<misses, blips>>
           /\ \A n \in Nodes : node'[n] = node[n] \/ node[n] # "down"
           /\ \A n \in Nodes : node'[n] # node[n] => node'[n] \in {"halting", "down"}
  <2> QED
    BY <1>0, <1>4 DEF MissesAreBlips
<1>5. ASSUME NEW c \in Clients, Post(c) PROVE MissesAreBlips'
  BY <1>2, <1>3, <1>5 DEF Post, Refused, Accepted, Gated, bridgeVars
<1>6. ASSUME NEW n \in Nodes, SshReturns(n) \/ NodeHalts(n) PROVE MissesAreBlips'
  BY <1>0, <1>4, <1>6 DEF SshReturns, NodeHalts, bridgeVars, ShutdownTypeOK
<1>7. CASE FanoutDone \/ AllDown \/ Joined \/ Status \/ Set \/ Poweroff
  BY <1>3, <1>7 DEF FanoutDone, AllDown, Joined, Status, Set, Poweroff
<1>8. CASE MainsCut
  BY <1>8 DEF MainsCut, MissesAreBlips
<1>9. CASE ControllerHalts \/ Restart \/ UNCHANGED vars
  BY <1>2, <1>3, <1>9 DEF ControllerHalts, Restart, vars, bridgeVars
<1> QED
  BY <1>1, <1>5, <1>6, <1>7, <1>8, <1>9 DEF Next, Coordinator

\* Every step keeps NodesDownFirst: the poll ends only with every node counted
\* down or reported, and a node that is down stays so.
LEMMA NodesStep == IInv /\ [Next]_vars => NodesDownFirst'
<1> SUFFICES ASSUME IInv, [Next]_vars PROVE NodesDownFirst'
  OBVIOUS
<1> USE DEF NodesDownFirst
<1>0. ShutdownTypeOK /\ MissesAreBlips /\ NodesDownFirst
  BY DEF IInv
<1>1. ShutdownTypeOK' /\ MissesAreBlips'
  BY TypeStep, MissesStep
<1>2. ASSUME NEW c \in Clients, Post(c) PROVE NodesDownFirst'
  BY <1>0, <1>2 DEF Post, Refused, Accepted, Gated, bridgeVars
<1>3. ASSUME NEW n \in Nodes, SshReturns(n) PROVE NodesDownFirst'
  BY <1>3 DEF SshReturns
<1>4. CASE FanoutDone
  BY <1>4 DEF FanoutDone
<1>5. CASE Round
  <2>1. CASE at' = "poll"
    BY <2>1
  <2>2. CASE pending' = {n \in Nodes : misses'[n] < Confirm}
    <3>1. ASSUME NEW n \in Nodes, n \notin pending' PROVE node'[n] = "down"
      <4>1. misses'[n] \in 0..Confirm /\ blips'[n] \in 0..MaxBlips
        BY <1>1 DEF ShutdownTypeOK
      <4> QED
        BY <1>1, <2>2, <3>1, <4>1, ShutdownAssumption DEF MissesAreBlips
    <3> QED
      BY <3>1
  <2> QED
    BY <1>5, <2>1, <2>2 DEF Round
<1>6. CASE AllDown
  <2>1. ASSUME NEW n \in Nodes PROVE node'[n] = "down"
    <3>1. misses[n] \in 0..Confirm
      BY <1>0 DEF ShutdownTypeOK
    <3>2. misses[n] >= Confirm
      BY <1>6, <3>1, ShutdownAssumption DEF AllDown, Targets
    <3> QED
      BY <1>0, <1>6, <3>2, CountedAreDown DEF AllDown
  <2> QED
    BY <2>1
<1>7. CASE Joined \/ Status \/ Set \/ Poweroff
  BY <1>0, <1>7 DEF Joined, Status, Set, Poweroff, AttemptFails, ShellyError, Answered
<1>8. ASSUME NEW n \in Nodes, NodeHalts(n) PROVE NodesDownFirst'
  BY <1>0, <1>8 DEF NodeHalts, bridgeVars, ShutdownTypeOK
<1>9. CASE ControllerHalts \/ UNCHANGED vars
  BY <1>0, <1>9 DEF ControllerHalts, vars, bridgeVars
<1>10. CASE MainsCut
  BY <1>10 DEF MainsCut
<1>11. CASE Restart
  BY <1>11 DEF Restart
<1> QED
  BY <1>2, <1>3, <1>4, <1>5, <1>6, <1>7, <1>8, <1>9, <1>10, <1>11 DEF Next, Coordinator

\* Every step keeps the deadline behind the poweroff: only Set leads to exec,
\* with the timer running, and only the cut ends a timer.
LEMMA ArmedStep == IInv /\ [Next]_vars => ArmedAtExec' /\ NoPoweroffUnarmed'
<1> SUFFICES ASSUME IInv, [Next]_vars PROVE ArmedAtExec' /\ NoPoweroffUnarmed'
  OBVIOUS
<1> USE DEF ArmedAtExec, NoPoweroffUnarmed
<1>0. ArmedAtExec /\ NoPoweroffUnarmed
  BY DEF IInv
<1>1. ASSUME NEW c \in Clients, Post(c) PROVE ArmedAtExec' /\ NoPoweroffUnarmed'
  BY <1>0, <1>1 DEF Post, Refused, Accepted, Gated, bridgeVars, powerVars
<1>2. ASSUME NEW n \in Nodes, SshReturns(n) \/ NodeHalts(n)
      PROVE  ArmedAtExec' /\ NoPoweroffUnarmed'
  BY <1>0, <1>2 DEF SshReturns, NodeHalts, bridgeVars, powerVars
<1>3. CASE FanoutDone \/ Round \/ AllDown \/ Joined \/ Status
  BY <1>0, <1>3 DEF FanoutDone, Round, AllDown, Joined, Status, AttemptFails, ShellyError,
     Answered, powerVars
<1>4. CASE Set
  BY <1>0, <1>4 DEF Set, AttemptFails, ShellyError, Answered
<1>5. CASE Poweroff
  BY <1>0, <1>5 DEF Poweroff, Answered
<1>6. CASE ControllerHalts \/ MainsCut \/ Restart \/ UNCHANGED vars
  BY <1>0, <1>6 DEF ControllerHalts, MainsCut, Restart, vars, bridgeVars, powerVars
<1> QED
  BY <1>1, <1>2, <1>3, <1>4, <1>5, <1>6 DEF Next, Coordinator

\* The invariant holds in every reachable state.
LEMMA Inductive == Spec => []IInv
<1>1. IInv /\ [Next]_vars => IInv'
  BY TypeStep, HeldStep, MissesStep, NodesStep, ArmedStep DEF IInv
<1> QED
  BY InitIInv, <1>1, PTL DEF Spec

-----------------------------------------------------------------------------

\* The variables keep their types, the counters of the poll included.
THEOREM TypeCorrect == Spec => []ShutdownTypeOK
BY Inductive, PTL DEF IInv

\* The mains timer and the poweroff only follow a poll that found every node
\* down or reported it, however the probes of live nodes fail within the
\* debounce (reachability.py:99-111).
THEOREM NodesFirst == Spec => []NodesDownFirst
BY Inductive, PTL DEF IInv

\* No poweroff of the controller without a mains-cut deadline, whatever is
\* lost between bridge and Shelly and whenever the bridge restarts.
THEOREM DeadlineFirst == Spec => []NoPoweroffUnarmed
BY Inductive, PTL DEF IInv
=============================================================================
