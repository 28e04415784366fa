---------------------------- MODULE BusGateProofs ----------------------------
(***************************************************************************)
(* Proofs about BusGate, for any nodes, strangers, addresses and map: a    *)
(* refused press has a node that is missing, and auto-load's gate opens    *)
(* early only for the nodes.                                               *)
(*                                                                         *)
(* Both are counts: of the peers that are nodes against the addresses of   *)
(* the map that are nodes'.                                                *)
(***************************************************************************)
EXTENDS BusGate, FunctionTheorems, FiniteSetTheorems, TLAPS

\* No two hosts are at one address, and the map is right about the controller.
AddressesOK ==
  /\ \A g, h \in Hosts : address[g] = address[h] => g = h
  /\ map[Controller].ip = address[Controller]

\* What is polled for is the addresses of the awaited nodes, and there are some.
ExpectsAwaited ==
  gate.at = "polling" => Awaited # {} /\ gate.expected = {map[n].ip : n \in Awaited}

\* The inductive invariant.
IInv == GateTypeOK /\ AddressesOK /\ ExpectsAwaited

\* ------------------- counting --------------------------------------------

\* The image of a finite set under f is finite and not larger, and as large when
\* f tells the members of the set apart.
LEMMA ImageSize ==
  ASSUME NEW S, IsFiniteSet(S), NEW f
  PROVE  LET T == {f[x] : x \in S}
         IN  /\ IsFiniteSet(T) /\ Cardinality(T) <= Cardinality(S)
             /\ (\A x, y \in S : f[x] = f[y] => x = y) => Cardinality(T) = Cardinality(S)
<1> DEFINE T == {f[x] : x \in S}
           g == [x \in S |-> f[x]]
<1>1. g \in Surjection(S, T)
  BY DEF Surjection
<1>2. /\ IsFiniteSet(T) /\ Cardinality(T) <= Cardinality(S)
      /\ Cardinality(T) = Cardinality(S) <=> g \in Injection(S, T)
  <2> HIDE DEF g, T
  <2> QED BY <1>1, FS_Surjection
<1>3. ASSUME \A x, y \in S : f[x] = f[y] => x = y
      PROVE  g \in Injection(S, T)
  BY <1>3 DEF Injection, IsInjective
<1> QED BY <1>2, <1>3

LEMMA SameSize ==
  ASSUME NEW S, IsFiniteSet(S), NEW f, \A x, y \in S : f[x] = f[y] => x = y
  PROVE  Cardinality({f[x] : x \in S}) = Cardinality(S)
BY ImageSize

LEMMA HostsFinite ==
  /\ IsFiniteSet(Nodes)
  /\ \A S \in SUBSET Hosts : IsFiniteSet(S)
  /\ Nodes \subseteq Hosts /\ Controller \in Hosts
<1>1. Nodes \subseteq Hosts /\ Controller \in Hosts
  BY DEF Hosts
<1>2. \A S \in SUBSET Hosts : IsFiniteSet(S)
  BY GateAssumption, FS_Subset
<1> QED BY <1>1, <1>2

\* There are at most as many peers as hosts other than the controller on the hub.
LEMMA PeersAreHosts ==
  ASSUME GateTypeOK
  PROVE  /\ IsFiniteSet(Peers)
         /\ Cardinality(Peers) <= Cardinality(on \ {Controller})
<1> DEFINE others == on \ {Controller}
           theirs == {address[h] : h \in others}
<1>1. IsFiniteSet(others)
  BY HostsFinite DEF GateTypeOK
<1>2. IsFiniteSet(theirs) /\ Cardinality(theirs) <= Cardinality(others)
  <2> HIDE DEF others
  <2> QED BY <1>1, ImageSize
<1>3. Peers \subseteq theirs
  BY DEF Peers
<1>4. IsFiniteSet(Peers) /\ Cardinality(Peers) <= Cardinality(theirs)
  <2> HIDE DEF theirs
  <2> QED BY <1>2, <1>3, FS_Subset
<1>5. /\ Cardinality(Peers) \in Nat /\ Cardinality(theirs) \in Nat
      /\ Cardinality(others) \in Nat
  <2> HIDE DEF theirs, others
  <2> QED BY <1>1, <1>2, <1>4, FS_CardinalityType
<1> HIDE DEF theirs
<1> QED BY <1>2, <1>4, <1>5

\* ------------------- the invariant ---------------------------------------

LEMMA InitInv == Init => IInv
BY GateAssumption DEF Init, IInv, GateTypeOK, AddressesOK, ExpectsAwaited, Hosts, Entry

LEMMA StepInv == IInv /\ [Next]_vars => IInv'
<1> SUFFICES ASSUME IInv, [Next]_vars PROVE IInv'
  OBVIOUS
<1> USE GateAssumption DEF IInv, GateTypeOK
<1>1. ASSUME UNCHANGED <<address, map, wanted>>
      PROVE  AddressesOK' /\ Awaited' = Awaited
  BY <1>1 DEF AddressesOK, Awaited, Slaves
<1>2. ASSUME NEW h \in Hosts, Joins(h) \/ Leaves(h) PROVE IInv'
  BY <1>1, <1>2 DEF Joins, Leaves, ExpectsAwaited
<1>3. CASE Begin
  <2>1. gate'.expected \in SUBSET Address
    BY <1>3 DEF Begin, Awaited, Slaves, Entry
  <2>2. gate' = [at |-> "polling", polls |-> 0, expected |-> gate'.expected]
    BY <1>3 DEF Begin
  <2>3. 0 \in 0..MaxPolls
    OBVIOUS
  <2>4. GateTypeOK'
    BY <1>3, <2>1, <2>2, <2>3 DEF Begin
  <2> QED BY <1>1, <1>3, <2>4 DEF Begin, ExpectsAwaited
<1>4. ASSUME NEW peers \in SUBSET Address, Poll(peers) PROVE IInv'
  <2>1. gate.polls # MaxPolls => gate.polls + 1 \in 0..MaxPolls
    OBVIOUS
  <2>2. /\ gate' \in [at : {"idle", "polling", "open", "degraded"}, polls : 0..MaxPolls,
                      expected : SUBSET Address]
        /\ gate'.expected = gate.expected
    BY <1>4, <2>1 DEF Poll
  <2> QED BY <1>1, <1>4, <2>2 DEF Poll, ExpectsAwaited
<1>5. ASSUME NEW project \in SUBSET (Nodes \cup {Controller}), Press(project) PROVE IInv'
  <2>1. OffBus(project, Peers) \subseteq Nodes
    BY DEF OffBus
  <2> QED BY <1>1, <1>5, <2>1 DEF Press, ExpectsAwaited
<1>6. CASE UNCHANGED vars
  BY <1>1, <1>6 DEF vars, ExpectsAwaited
<1> QED BY <1>2, <1>3, <1>4, <1>5, <1>6 DEF Next

LEMMA Inductive == Spec => []IInv
<1>1. Init => IInv
  BY InitInv
<1>2. IInv /\ [Next]_vars => IInv'
  BY StepInv
<1> QED BY <1>1, <1>2, PTL DEF Spec

\* ------------------- a press ---------------------------------------------

\* With every node on the hub nothing is off the bus: the nodes' addresses are as
\* many as the nodes, and without the missing one's the map has fewer.
LEMMA AllThere ==
  ASSUME IInv, Nodes \subseteq on, NEW project \in SUBSET (Nodes \cup {Controller})
  PROVE  OffBus(project, Peers) = {}
<1> SUFFICES ASSUME NEW n \in OffBus(project, Peers) PROVE FALSE
  OBVIOUS
<1> DEFINE rest == Nodes \ {n}
           real == {address[m] : m \in Nodes}
           said == {map[m].ip : m \in rest}
           ipOf == [m \in Nodes |-> map[m].ip]
<1>1. n \in Nodes /\ map[n].ip \notin Peers /\ Peers \subseteq MapAddresses
  BY DEF OffBus
<1>2. real \subseteq Peers
  BY GateAssumption, HostsFinite DEF IInv, AddressesOK, Peers
<1>3. real \subseteq said
  <2> SUFFICES ASSUME NEW a \in real PROVE a \in said
    OBVIOUS
  <2>1. a \in Peers /\ a \in MapAddresses
    BY <1>1, <1>2
  <2>2. a # map[n].ip /\ a # map[Controller].ip
    BY <1>1, <2>1 DEF Peers, IInv, AddressesOK
  <2> QED BY <2>1, <2>2 DEF MapAddresses
<1>4. IsFiniteSet(rest) /\ Cardinality(rest) = Cardinality(Nodes) - 1
  BY <1>1, HostsFinite, FS_RemoveElement
<1>5. Cardinality(real) = Cardinality(Nodes)
  <2>1. \A x, y \in Nodes : address[x] = address[y] => x = y
    BY HostsFinite DEF IInv, AddressesOK
  <2> QED BY <2>1, HostsFinite, SameSize
<1>6. IsFiniteSet(said) /\ Cardinality(said) <= Cardinality(rest)
  <2>1. said = {ipOf[m] : m \in rest}
    OBVIOUS
  <2> HIDE DEF said, rest, ipOf
  <2> QED BY <1>4, <2>1, ImageSize
<1>7. Cardinality(real) <= Cardinality(said)
  <2> HIDE DEF real, said
  <2> QED BY <1>3, <1>6, FS_Subset
<1>8. /\ Cardinality(Nodes) \in Nat /\ Cardinality(rest) \in Nat
      /\ Cardinality(said) \in Nat
  <2> HIDE DEF rest, said
  <2> QED BY <1>4, <1>6, HostsFinite, FS_CardinalityType
<1> HIDE DEF real, said, rest
<1> QED BY <1>4, <1>5, <1>6, <1>7, <1>8

LEMMA RefusalStep ==
  ASSUME IInv, [Next]_vars, refused' # refused, refused' # {}
  PROVE  \E n \in Nodes : n \notin on
<1>1. PICK project \in SUBSET (Nodes \cup {Controller}) : Press(project)
  BY DEF Next, vars, Joins, Leaves, Begin, Poll
<1>2. OffBus(project, Peers) # {}
  BY <1>1 DEF Press
<1> QED BY <1>2, AllThere

\* ------------------- auto-load's gate ------------------------------------

\* A poll that opens the gate saw as many peers as there are awaited addresses.
LEMMA OpenCounts ==
  ASSUME IInv, NEW peers \in SUBSET Address, Poll(peers), gate'.at = "open"
  PROVE  /\ IsFiniteSet(gate.expected)
         /\ Cardinality(gate.expected) <= Cardinality(Peers)
<1> DEFINE ipOf == [m \in Awaited |-> map[m].ip]
<1>1. gate.at = "polling" /\ Satisfied(peers) /\ peers \in {Peers, {}}
  BY DEF Poll, IInv, GateTypeOK
<1>2. Awaited # {} /\ gate.expected = {map[n].ip : n \in Awaited}
  BY <1>1 DEF IInv, ExpectsAwaited
<1>3. IsFiniteSet(Awaited)
  BY HostsFinite DEF Awaited, Slaves
<1>4. IsFiniteSet(gate.expected) /\ Cardinality(gate.expected) \in Nat
  <2>1. gate.expected = {ipOf[n] : n \in Awaited}
    BY <1>2
  <2> HIDE DEF ipOf
  <2> QED BY <1>3, <2>1, ImageSize, FS_CardinalityType
<1>5. IsFiniteSet(Peers) /\ IsFiniteSet(peers)
  BY <1>1, PeersAreHosts, FS_EmptySet DEF IInv
<1>6. Cardinality(gate.expected) <= Cardinality(peers)
  <2>1. CASE gate.expected \subseteq peers
    BY <1>5, <2>1, FS_Subset
  <2>2. CASE Cardinality(peers) >= Cardinality(gate.expected)
    BY <1>4, <1>5, <2>2, FS_CardinalityType
  <2> QED BY <1>1, <2>1, <2>2 DEF Satisfied
<1>7. peers # {}
  <2>1. gate.expected # {} /\ Cardinality(gate.expected) # 0
    BY <1>2, <1>4, FS_EmptySet
  <2> QED BY <1>4, <1>6, <2>1, FS_EmptySet
<1> QED BY <1>1, <1>4, <1>6, <1>7

LEMMA GateStep ==
  ASSUME IInv, [Next]_vars, gate.at = "polling", gate'.at = "open",
         on \ {Controller} \subseteq Awaited,
         \A m, n \in Awaited : map[m].ip = map[n].ip => m = n
  PROVE  Awaited \subseteq on
<1> DEFINE ipOf == [m \in Awaited |-> map[m].ip]
           others == on \ {Controller}
<1>1. PICK peers \in SUBSET Address : Poll(peers)
  BY DEF Next, vars, Joins, Leaves, Begin, Press
<1>2. Cardinality(gate.expected) <= Cardinality(Peers)
  BY <1>1, OpenCounts
<1>3. IsFiniteSet(Awaited)
  BY HostsFinite DEF Awaited, Slaves
<1>4. Cardinality(gate.expected) = Cardinality(Awaited)
  <2>1. gate.expected = {ipOf[n] : n \in Awaited}
    BY DEF IInv, ExpectsAwaited
  <2>2. \A x, y \in Awaited : ipOf[x] = ipOf[y] => x = y
    OBVIOUS
  <2> HIDE DEF ipOf
  <2>3. Cardinality({ipOf[x] : x \in Awaited}) = Cardinality(Awaited)
    BY <1>3, <2>2, SameSize
  <2> QED BY <2>1, <2>3
<1>5. IsFiniteSet(Peers) /\ Cardinality(Peers) <= Cardinality(others)
  BY PeersAreHosts DEF IInv
<1>6. IsFiniteSet(others) /\ Cardinality(others) <= Cardinality(Awaited)
  <2> HIDE DEF others
  <2> QED BY <1>3, FS_Subset DEF others
<1>7. /\ Cardinality(Awaited) \in Nat /\ Cardinality(Peers) \in Nat
      /\ Cardinality(others) \in Nat
  <2> HIDE DEF others
  <2> QED BY <1>3, <1>5, <1>6, FS_CardinalityType
<1>8. Cardinality(others) = Cardinality(Awaited)
  <2> HIDE DEF others
  <2> QED BY <1>2, <1>4, <1>5, <1>6, <1>7
<1>9. others = Awaited
  <2> HIDE DEF others
  <2> QED BY <1>3, <1>8, FS_Subset DEF others
<1> QED BY <1>9

\* ------------------- theorems --------------------------------------------

\* The gate, its polls and the refusals keep their types.
THEOREM GateTyped == Spec => []GateTypeOK
BY Inductive, PTL DEF IInv

\* A press is only refused for nodes when one of them is not on the hub, whatever
\* the map says and whoever else is there (project_nodes.py, classify).
THEOREM RefusedForCause == Spec => RefusalHasCause
<1>1. IInv /\ [Next]_vars =>
        [refused' # refused /\ refused' # {} => \E n \in Nodes : n \notin on]_vars
  BY RefusalStep
<1> QED BY <1>1, Inductive, PTL DEF Spec, RefusalHasCause

\* While only awaited nodes are on the hub and their addresses in the map differ,
\* the gate opens early for all of them or not at all (cluster_bus.py,
\* wait_until_engines_on_bus).
THEOREM OpensForNodes == Spec => GateIsTrue
<1>1. IInv /\ [Next]_vars =>
        [ /\ gate.at = "polling" /\ gate'.at = "open"
          /\ on \ {Controller} \subseteq Awaited
          /\ \A m, n \in Awaited : map[m].ip = map[n].ip => m = n
          => Awaited \subseteq on ]_vars
  BY GateStep
<1> QED BY <1>1, Inductive, PTL DEF Spec, GateIsTrue
=============================================================================
