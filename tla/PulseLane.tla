------------------------------ MODULE PulseLane ------------------------------
(***************************************************************************)
(* The event lane of the Companion relay (osc_relay.py): edge pulses, each *)
(* sent as 0, 1, 0, one at a time per path, capped.  One record holds what *)
(* OscRelay keeps in `_order`, `_by_path`, `_heap` and `_pending_sends`;   *)
(* each operator is what one method does to it.                            *)
(*                                                                         *)
(* Times are left out: what is in the heap may be sent at any moment.  The *)
(* entry that a dropped pulse leaves in the heap, which _drain skips, is   *)
(* taken out at once.                                                      *)
(***************************************************************************)
EXTENDS Naturals, FiniteSets, SequencesExt

CONSTANTS
  Paths,     \* the pulse paths: cue_started/<uuid> and cue_ended/<uuid>
  EventCap,  \* EVENT_CAP: pending sends
  Ids        \* identities of pulses, used again when free

\* Each pulse that waits owes a send, so there is an identity for the next one.
ASSUME LaneAssumption ==
  /\ Paths # {} /\ EventCap \in Nat
  /\ IsFiniteSet(Ids) => Cardinality(Ids) + 2 >= EventCap

Lane == [pulse   : [Ids -> [path : Paths, stage : 0..2]],
         order   : Seq(Ids),            \* live pulses, oldest first
         byPath  : [Paths -> Seq(Ids)],
         heap    : SUBSET Ids,          \* _heap
         pending : 0..EventCap]         \* _pending_sends

NoPulse == [path |-> CHOOSE p \in Paths : TRUE, stage |-> 0]

EmptyLane == [pulse   |-> [i \in Ids |-> NoPulse],
              order   |-> <<>>,
              byPath  |-> [p \in Paths |-> <<>>],
              heap    |-> {},
              pending |-> 0]

Live(l)    == ToSet(l.order)
Free(l)    == {i \in Ids \ Live(l) : \A p \in Paths : i \notin ToSet(l.byPath[p])}

\* Sequence s without x, which is in it once.
Pop(s, x) == RemoveAt(s, CHOOSE k \in DOMAIN s : s[k] = x)

Schedule(l, i) == [l EXCEPT !.heap = @ \cup {i}]

\* The next pulse of the path starts now.
StartHead(l, p) ==
  IF l.byPath[p] = <<>> THEN l ELSE Schedule(l, Head(l.byPath[p]))

\* What is left when pulse i goes, with the sends it still owes.
Gone(l, i) ==
  [pulse   |-> [l.pulse EXCEPT ![i] = NoPulse],
   order   |-> Pop(l.order, i),
   byPath  |-> [l.byPath EXCEPT ![l.pulse[i].path] = Pop(@, i)],
   heap    |-> l.heap \ {i},
   pending |-> l.pending - (3 - l.pulse[i].stage)]

IsHead(l, i) == l.byPath[l.pulse[i].path] # <<>> /\ Head(l.byPath[l.pulse[i].path]) = i

\* Mutant: the pulse behind a dropped head is not started.
DropQuietly(l, i) == Gone(l, i)

Drop(l, i) == IF IsHead(l, i) THEN StartHead(Gone(l, i), l.pulse[i].path) ELSE Gone(l, i)

\* Mutant: a pulse whose 1 is out may be dropped.
AnyStage(l, i) == TRUE

\* A pulse whose 1 is out keeps its trailing 0.
Droppable(l, i) == l.pulse[i].stage < 2

DropOldest(l) ==   \* _drop_oldest_pulse, if the new pulse does not fit
  LET may == {k \in DOMAIN l.order : Droppable(l, l.order[k])}
  IN  IF l.pending + 3 <= EventCap \/ may = {} THEN l
      ELSE Drop(l, l.order[CHOOSE k \in may : \A j \in may : k <= j])

\* The loop of _add_pulse: a pulse that is dropped frees at least two of the
\* three sends, so it is over after two.
MakeRoom(l) == DropOldest(DropOldest(l))

\* _add_pulse; without room the edge is dropped.
AddPulse(l, p) ==
  LET room == MakeRoom(l)
      i    == CHOOSE i \in Free(room) : TRUE
      new  == [pulse   |-> [room.pulse EXCEPT ![i] = [path |-> p, stage |-> 0]],
               order   |-> Append(room.order, i),
               byPath  |-> [room.byPath EXCEPT ![p] = Append(@, i)],
               heap    |-> room.heap,
               pending |-> room.pending + 3]
  IN  IF room.pending + 3 > EventCap THEN room
      ELSE IF room.byPath[p] = <<>> THEN Schedule(new, i) ELSE new

\* _send_event: what pulse i sends next, and what is left after it.
Value(l, i) == IF l.pulse[i].stage = 1 THEN "1" ELSE "0"

EventSent(l, i) ==
  LET p     == l.pulse[i].path
      later == [path |-> p, stage |-> l.pulse[i].stage + 1]
  IN  IF l.pulse[i].stage < 2
        THEN [pulse   |-> [l.pulse EXCEPT ![i] = later],
              order   |-> l.order,
              byPath  |-> l.byPath,
              heap    |-> l.heap \cup {i},
              pending |-> l.pending - 1]
        ELSE StartHead(Gone(l, i), p)

\* The sends that the live pulses still owe.
Owed(l) == {e \in Ids \X (0..2) : e[1] \in Live(l) /\ l.pulse[e[1]].stage <= e[2]}
=============================================================================
