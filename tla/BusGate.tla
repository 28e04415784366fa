------------------------------- MODULE BusGate -------------------------------
(***************************************************************************)
(* Which node-engines are on the controller's hub, as auto-load's gate and *)
(* the node check of a press see it (cluster_bus.py, project_nodes.py).    *)
(*                                                                         *)
(* The bridge only sees addresses: those of the sockets at the hub and     *)
(* those that the network map gives the nodes.  An address of the map may  *)
(* be missing, stale, or another node's; other hosts may connect too.      *)
(***************************************************************************)
EXTENDS Naturals, FiniteSets

CONSTANTS
  Nodes,       \* nodes of the map other than the controller
  Controller,
  Strangers,   \* hosts that are not in the map
  Address,     \* IP addresses
  NoAddress,   \* the map has no <ip>
  MaxPolls     \* bound: polls before auto_load_node_timeout_s is over

Hosts == Nodes \cup {Controller} \cup Strangers

ASSUME GateAssumption ==
  /\ IsFiniteSet(Hosts) /\ Controller \notin Nodes
  /\ Strangers \cap (Nodes \cup {Controller}) = {}
  /\ NoAddress \notin Address /\ MaxPolls \in Nat

VARIABLES
  address,  \* external: where each host really is
  map,      \* network_map.xml
  wanted,   \* auto_load_node_ids; empty for all
  on,       \* external: the hosts connected to the hub
  gate,     \* wait_until_engines_on_bus: its place, polls, and what it awaits
  refused   \* the nodes that the last press was refused for

vars == <<address, map, wanted, on, gate, refused>>

Entry == [ip : Address \cup {NoAddress}, slave : BOOLEAN, adopted : BOOLEAN]

GateTypeOK ==
  /\ address \in [Hosts -> Address] /\ map \in [Nodes \cup {Controller} -> Entry]
  /\ wanted \subseteq Nodes /\ on \subseteq Hosts /\ refused \subseteq Nodes
  /\ gate \in [at : {"idle", "polling", "open", "degraded"}, polls : 0..MaxPolls,
               expected : SUBSET Address]

\* ------------------------- the hub ---------------------------------------

\* Mutant: a connection of the controller to itself counts.
PeersAndSelf == {address[h] : h \in on}

Peers == {address[h] : h \in on} \ {address[Controller]}   \* _peer_ips

Joins(h) ==
  /\ h \notin on /\ on' = on \cup {h}
  /\ UNCHANGED <<address, map, wanted, gate, refused>>

Leaves(h) ==
  /\ h \in on /\ on' = on \ {h}
  /\ UNCHANGED <<address, map, wanted, gate, refused>>

\* ------------------------- auto-load's gate ------------------------------

Slaves == {n \in Nodes : map[n].slave /\ map[n].ip # NoAddress}   \* slave_ips: adopted or not

Awaited == {n \in Slaves : wanted = {} \/ n \in wanted}          \* _expected_node_ips

Begin ==   \* the map is read at the beginning; without a slave nothing is polled
  /\ gate.at \in {"idle", "open", "degraded"} /\ Awaited # {}
  /\ gate' = [at |-> "polling", polls |-> 0, expected |-> {map[n].ip : n \in Awaited}]
  /\ UNCHANGED <<address, map, wanted, on, refused>>

\* Every expected address is there, or as many others.
Satisfied(peers) ==
  \/ gate.expected \subseteq peers
  \/ wanted = {} /\ Cardinality(peers) >= Cardinality(gate.expected)

Poll(peers) ==   \* a failed `ss` shows no peer
  /\ gate.at = "polling" /\ peers \in {Peers, {}}
  /\ gate' = IF Satisfied(peers)           THEN [gate EXCEPT !.at = "open"]
             ELSE IF gate.polls = MaxPolls THEN [gate EXCEPT !.at = "degraded"]
             ELSE [gate EXCEPT !.polls = @ + 1]
  /\ UNCHANGED <<address, map, wanted, on, refused>>

\* ------------------------- the node check --------------------------------

MapAddresses == {map[n].ip : n \in Nodes \cup {Controller}} \ {NoAddress}

\* Mutant: a peer that nobody in the map claims is not looked for.
OffBusStrict(project, peers) ==
  {n \in project \ {Controller} : map[n].adopted /\ map[n].ip \notin peers \cup {NoAddress}}

\* classify and off_bus: the needed nodes that are known not to be there.  A peer
\* that no address of the map claims could be any of them.
OffBus(project, peers) ==
  IF peers \subseteq MapAddresses
    THEN {n \in project \ {Controller} :
            map[n].adopted /\ map[n].ip \notin peers \cup {NoAddress}}
    ELSE {}

Press(project) ==   \* handle_load without force; a failed `ss` or scan never refuses
  /\ refused' \in {OffBus(project, Peers), {}}
  /\ UNCHANGED <<address, map, wanted, on, gate>>

\* -------------------------------------------------------------------------

\* parse() may yield any entries.  Two hosts never have one address, and the
\* controller's own entry is right.
Init ==
  /\ address \in [Hosts -> Address] /\ map \in [Nodes \cup {Controller} -> Entry]
  /\ \A g, h \in Hosts : address[g] = address[h] => g = h
  /\ map[Controller] = [ip |-> address[Controller], slave |-> FALSE, adopted |-> TRUE]
  /\ wanted \in SUBSET Nodes /\ on = {} /\ refused = {}
  /\ gate = [at |-> "idle", polls |-> 0, expected |-> {}]

Next ==
  \/ \E h \in Hosts : Joins(h) \/ Leaves(h)
  \/ Begin \/ \E peers \in SUBSET Address : Poll(peers)
  \/ \E project \in SUBSET (Nodes \cup {Controller}) : Press(project)

Spec == Init /\ [][Next]_vars

------------------------------------------------------------------------------
\* A press is only refused when some node of the map really is missing from the
\* hub, however stale the addresses: with all of them there, one that is at
\* another address than the map says leaves a peer that nobody claims ("a bus
\* state that can't be established never refuses", cluster_bus.py:109).
RefusalHasCause == [][refused' # refused /\ refused' # {} => \E n \in Nodes : n \notin on]_vars

\* While only awaited nodes are on the hub and no two of them share an address in
\* the map, the gate opens before its time only when every one of them is there:
\* the count makes up for stale addresses, not for nodes (cluster_bus.py:141-145).
GateIsTrue ==
  [][ /\ gate.at = "polling" /\ gate'.at = "open"
      /\ on \ {Controller} \subseteq Awaited
      /\ \A m, n \in Awaited : map[m].ip = map[n].ip => m = n
      => Awaited \subseteq on ]_vars
=============================================================================
