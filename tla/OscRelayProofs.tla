---------------------------- MODULE OscRelayProofs ---------------------------
(***************************************************************************)
(* Proofs about OscRelay, for any cues, any caps and any room for pulses:  *)
(* the event lane stays in order, no output stays on, the link state goes  *)
(* first and what is settled is true.                                      *)
(***************************************************************************)
EXTENDS OscRelay, FunctionTheorems, FiniteSetTheorems, WellFoundedInduction, TLAPS

\* ------------------- sequences -------------------------------------------

\* No element is in s twice.
Once(s) == \A j, k \in DOMAIN s : s[j] = s[k] => j = k

\* The elements that are not the head of s.
Waiting(s) == {s[k] : k \in 2..Len(s)}

\* What is left of s when x has gone: t.
LosesOne(S, s, x, t) ==
  /\ t \in Seq(S) /\ Once(t) /\ ToSet(t) = ToSet(s) \ {x}
  /\ Waiting(t) \subseteq Waiting(s)
  /\ Head(s) # x => t # <<>> /\ Head(t) = Head(s)
  /\ Head(s) = x /\ t # <<>> => Head(t) \in Waiting(s)

LEMMA PopIndex ==
  ASSUME NEW S, NEW s \in Seq(S), NEW x \in ToSet(s)
  PROVE  \E k \in 1..Len(s) :
           /\ s[k] = x /\ Pop(s, x) \in Seq(S) /\ Len(Pop(s, x)) = Len(s) - 1
           /\ \A j \in 1..(Len(s) - 1) : Pop(s, x)[j] = IF j < k THEN s[j] ELSE s[j + 1]
<1> DEFINE k == CHOOSE k \in DOMAIN s : s[k] = x
           a == SubSeq(s, 1, k - 1)
           b == SubSeq(s, k + 1, Len(s))
<1>1. k \in 1..Len(s) /\ s[k] = x
  BY DEF ToSet
<1>2. Pop(s, x) = a \o b
  BY DEF Pop, RemoveAt
<1> HIDE DEF k
<1>3. /\ a \in Seq(S) /\ b \in Seq(S)
      /\ Len(a) = k - 1 /\ Len(b) = Len(s) - k
      /\ \A j \in 1..(k - 1) : a[j] = s[j]
      /\ \A j \in 1..(Len(s) - k) : b[j] = s[j + k]
  BY <1>1
<1> HIDE DEF a, b
<1>4. Len(a \o b) = Len(s) - 1 /\ a \o b \in Seq(S)
  <2>1. Len(a \o b) = Len(a) + Len(b) /\ a \o b \in Seq(S)
    BY <1>3
  <2> QED BY <1>1, <1>3, <2>1
<1>5. ASSUME NEW j \in 1..(Len(s) - 1)
      PROVE  (a \o b)[j] = IF j < k THEN s[j] ELSE s[j + 1]
  <2>1. CASE j < k
    BY <1>1, <1>3, <2>1
  <2>2. CASE ~(j < k)
    <3>1. (a \o b)[j] = b[j - Len(a)]
      BY <1>1, <1>3, <2>2
    <3>2. b[j - (k - 1)] = s[j - (k - 1) + k]
      BY <1>1, <1>3, <2>2
    <3>3. j - (k - 1) + k = j + 1
      BY <1>1
    <3> QED BY <3>1, <3>2, <3>3, <1>3, <2>2
  <2> QED BY <2>1, <2>2
<1> QED BY <1>1, <1>2, <1>4, <1>5

LEMMA PopLoses ==
  ASSUME NEW S, NEW s \in Seq(S), Once(s), NEW x \in ToSet(s)
  PROVE  LosesOne(S, s, x, Pop(s, x))
<1> DEFINE t == Pop(s, x)
<1>1. PICK k \in 1..Len(s) :
           /\ s[k] = x /\ t \in Seq(S) /\ Len(t) = Len(s) - 1
           /\ \A j \in 1..(Len(s) - 1) : t[j] = IF j < k THEN s[j] ELSE s[j + 1]
  BY PopIndex
<1> HIDE DEF t
<1>2. DOMAIN t = 1..(Len(s) - 1) /\ DOMAIN s = 1..Len(s) /\ Len(s) \in Nat /\ Len(t) \in Nat
  BY <1>1
\* The place in s of the j-th element of t.
<1> DEFINE at(j) == IF j < k THEN j ELSE j + 1
<1>3. \A j \in 1..(Len(s) - 1) : at(j) \in 1..Len(s) /\ at(j) # k /\ t[j] = s[at(j)]
  BY <1>1, <1>2
<1>4. \A i \in 1..Len(s) : i # k => \E j \in 1..(Len(s) - 1) : at(j) = i
  <2> TAKE i \in 1..Len(s)
  <2> HAVE i # k
  <2>1. CASE i < k
    <3>1. i \in 1..(Len(s) - 1) /\ at(i) = i
      BY <1>2, <2>1
    <3> QED BY <3>1
  <2>2. CASE i > k
    <3>1. i - 1 \in 1..(Len(s) - 1) /\ at(i - 1) = i
      BY <1>2, <2>2
    <3> QED BY <3>1
  <2> QED BY <1>2, <2>1, <2>2
<1>5. \A j, m \in 1..(Len(s) - 1) : at(j) = at(m) => j = m
  BY <1>2
<1>6. Once(t)
  BY <1>2, <1>3, <1>5 DEF Once
<1>7. ToSet(t) = ToSet(s) \ {x}
  <2>1. \A i \in 1..Len(s) : s[i] = x => i = k
    BY <1>1, <1>2 DEF Once
  <2>2. ASSUME NEW y \in ToSet(t) PROVE y \in ToSet(s) \ {x}
    <3>1. PICK j \in 1..(Len(s) - 1) : y = t[j]
      BY <1>2 DEF ToSet
    <3>2. y = s[at(j)] /\ at(j) \in 1..Len(s) /\ at(j) # k
      BY <1>3, <3>1
    <3> HIDE DEF at
    <3> QED BY <1>2, <2>1, <3>2 DEF ToSet
  <2>3. ASSUME NEW y \in ToSet(s) \ {x} PROVE y \in ToSet(t)
    <3>1. PICK i \in 1..Len(s) : y = s[i] /\ i # k
      BY <1>1, <1>2 DEF ToSet
    <3>2. PICK j \in 1..(Len(s) - 1) : at(j) = i
      BY <1>4, <3>1
    <3>3. t[j] = s[at(j)]
      BY <1>3
    <3> HIDE DEF at
    <3> QED BY <1>2, <3>1, <3>2, <3>3 DEF ToSet
  <2> QED BY <2>2, <2>3
<1>8. Waiting(t) \subseteq Waiting(s)
  <2> SUFFICES ASSUME NEW j \in 2..(Len(s) - 1) PROVE t[j] \in Waiting(s)
    BY <1>1 DEF Waiting
  <2>1. at(j) \in 2..Len(s)
    BY <1>2
  <2> QED BY <1>2, <1>3, <2>1 DEF Waiting
<1>9. ASSUME Head(s) # x PROVE t # <<>> /\ Head(t) = Head(s)
  BY <1>1, <1>2, <1>9
<1>10. ASSUME Head(s) = x, t # <<>> PROVE Head(t) \in Waiting(s)
  <2>1. k = 1
    BY <1>1, <1>2, <1>10 DEF Once
  <2>2. 1 \in 1..(Len(s) - 1) /\ Head(t) = t[1]
    BY <1>1, <1>2, <1>10
  <2> QED BY <1>1, <1>2, <2>1, <2>2 DEF Waiting
<1> QED BY <1>1, <1>6, <1>7, <1>8, <1>9, <1>10 DEF LosesOne, t

\* A head that goes leaves the tail.
LEMMA PopHead ==
  ASSUME NEW S, NEW s \in Seq(S), Once(s), s # <<>>
  PROVE  Pop(s, Head(s)) = Tail(s)
<1> DEFINE t == Pop(s, Head(s))
<1>1. Head(s) \in ToSet(s) /\ Head(s) = s[1] /\ 1 \in 1..Len(s)
  BY DEF ToSet
<1>2. PICK k \in 1..Len(s) :
           /\ s[k] = Head(s) /\ t \in Seq(S) /\ Len(t) = Len(s) - 1
           /\ \A j \in 1..(Len(s) - 1) : t[j] = IF j < k THEN s[j] ELSE s[j + 1]
  BY <1>1, PopIndex
<1> HIDE DEF t
<1>3. k = 1
  BY <1>1, <1>2 DEF Once
<1>4. Tail(s) \in Seq(S) /\ Len(Tail(s)) = Len(s) - 1
      /\ \A j \in 1..(Len(s) - 1) : Tail(s)[j] = s[j + 1]
  OBVIOUS
<1>5. \A j \in 1..(Len(s) - 1) : t[j] = Tail(s)[j]
  BY <1>2, <1>3, <1>4
<1>6. t = Tail(s)
  BY <1>2, <1>4, <1>5
<1> QED BY <1>6 DEF t

LEMMA AppendFacts ==
  ASSUME NEW S, NEW s \in Seq(S), Once(s), NEW x \in S, x \notin ToSet(s)
  PROVE  LET t == Append(s, x)
         IN  /\ t \in Seq(S) /\ Once(t) /\ ToSet(t) = ToSet(s) \cup {x} /\ t # <<>>
             /\ s # <<>> => Head(t) = Head(s) /\ Waiting(t) = Waiting(s) \cup {x}
             /\ s = <<>> => Head(t) = x /\ Waiting(t) = {}
<1> DEFINE t == Append(s, x)
<1>1. /\ t \in Seq(S) /\ Len(t) = Len(s) + 1 /\ t[Len(s) + 1] = x
      /\ \A j \in 1..Len(s) : t[j] = s[j]
      /\ Len(s) \in Nat /\ DOMAIN s = 1..Len(s) /\ DOMAIN t = 1..(Len(s) + 1)
  OBVIOUS
<1> HIDE DEF t
<1>2. Once(t) /\ ToSet(t) = ToSet(s) \cup {x} /\ t # <<>>
  BY <1>1 DEF Once, ToSet
<1>3. s # <<>> => Head(t) = Head(s) /\ Waiting(t) = Waiting(s) \cup {x}
  BY <1>1 DEF Waiting
<1>4. s = <<>> => Head(t) = x /\ Waiting(t) = {}
  BY <1>1 DEF Waiting
<1> QED BY <1>1, <1>2, <1>3, <1>4 DEF t

LEMMA LeastOf ==
  ASSUME NEW n \in Nat, NEW T \in SUBSET (1..n), T # {}
  PROVE  \E x \in T : \A y \in T : x <= y
<1> DEFINE Upto(x) == {y \in T : y <= x}
           R == StrictSubsetOrdering(1..n)
           D == FiniteSubsetsOf(1..n)
           U == {Upto(x) : x \in T}
<1>1. IsFiniteSet(1..n)
  BY FS_Interval
<1>2. U \subseteq D /\ U # {}
  <2>1. \A x \in T : Upto(x) \subseteq 1..n /\ IsFiniteSet(Upto(x))
    BY <1>1, FS_Subset
  <2> QED BY <2>1 DEF FiniteSubsetsOf
<1>3. PICK V \in U : \A W \in U : ~(<<W, V>> \in R)
  <2>1. IsWellFoundedOn(R, D)
    BY FS_StrictSubsetOrderingWellFounded
  <2> HIDE DEF U, R, D
  <2> QED BY <1>2, <2>1, WFMin
<1>4. PICK x \in T : V = Upto(x)
  OBVIOUS
<1>5. ASSUME NEW y \in T, y < x
      PROVE  FALSE
  <2>1. Upto(y) \subseteq Upto(x) /\ x \in Upto(x) /\ x \notin Upto(y)
    <3>1. T \subseteq Nat
      OBVIOUS
    <3>2. \A z \in T : z <= y => z <= x
      BY <1>5, <3>1
    <3>3. x <= x /\ ~(x <= y)
      BY <1>5, <3>1
    <3> QED BY <3>2, <3>3
  <2>2. Upto(y) \in U /\ Upto(y) # Upto(x)
    BY <2>1
  <2> QED BY <1>3, <1>4, <2>1, <2>2 DEF StrictSubsetOrdering
<1> QED BY <1>5

\* ------------------- the event lane --------------------------------------

\* Each pulse is once in the order and once in the queue of its own path.
QueuesOK(l) ==
  /\ Once(l.order) /\ \A p \in Paths : Once(l.byPath[p])
  /\ \A p \in Paths : \A i \in ToSet(l.byPath[p]) : i \in Live(l) /\ l.pulse[i].path = p
  /\ \A i \in Live(l) : i \in ToSet(l.byPath[l.pulse[i].path])

\* A pulse that waits behind another has sent nothing yet.
OneAtWork(l) == \A p \in Paths : \A i \in Waiting(l.byPath[p]) : l.pulse[i].stage = 0

\* The heap has the heads of the queues.
HeapOK(l) == \A i \in Ids : i \in l.heap <=> i \in Live(l) /\ IsHead(l, i)

LaneOK(l) ==
  /\ l \in Lane /\ QueuesOK(l) /\ OneAtWork(l) /\ HeapOK(l)
  /\ l.pending = Cardinality(Owed(l))

\* The outputs o that are at 1 are those whose head owes its trailing 0.
OutOK(l, o) ==
  \A p \in Paths : o[p] = "1" <=> l.byPath[p] # <<>> /\ l.pulse[Head(l.byPath[p])].stage = 2

LEMMA LaneTypes ==
  ASSUME NEW l, LaneOK(l)
  PROVE  /\ l.pulse \in [Ids -> [path : Paths, stage : 0..2]]
         /\ l.order \in Seq(Ids) /\ l.byPath \in [Paths -> Seq(Ids)]
         /\ l.heap \in SUBSET Ids /\ l.pending \in 0..EventCap
         /\ Live(l) \subseteq Ids
<1>1. l \in Lane
  BY DEF LaneOK
<1>2. ToSet(l.order) \subseteq Ids
  BY <1>1 DEF Lane, ToSet
<1> QED BY <1>1, <1>2 DEF Lane, Live

LEMMA HeadOf ==
  ASSUME NEW S, NEW s \in Seq(S), s # <<>>
  PROVE  Head(s) \in ToSet(s) /\ Head(s) \in S
BY DEF ToSet

LEMMA LiveFinite ==
  ASSUME NEW l, LaneOK(l)
  PROVE  /\ IsFiniteSet(Live(l)) /\ IsFiniteSet(Owed(l))
         /\ Cardinality(Live(l)) <= l.pending
<1>0. l.order \in Seq(Ids) /\ l.pulse \in [Ids -> [path : Paths, stage : 0..2]] /\ Live(l) \subseteq Ids
  BY LaneTypes
<1>1. IsFiniteSet(Live(l))
  <2>1. IsFiniteSet(1..Len(l.order))
    BY <1>0, FS_Interval
  <2>2. l.order \in Surjection(1..Len(l.order), Live(l))
    BY <1>0 DEF Surjection, Live, ToSet
  <2> QED BY <2>1, <2>2, FS_Surjection
<1>2. IsFiniteSet(Owed(l))
  <2>1. IsFiniteSet(0..2)
    <3>1. 0 \in Int /\ 2 \in Int
      OBVIOUS
    <3> QED BY <3>1, FS_Interval
  <2>2. IsFiniteSet(Live(l) \X (0..2))
    BY <1>1, <2>1, FS_Product
  <2>3. Owed(l) \subseteq Live(l) \X (0..2)
    BY DEF Owed
  <2> QED BY <2>2, <2>3, FS_Subset
<1>3. Cardinality(Live(l)) <= Cardinality(Owed(l))
  <2> DEFINE last == [i \in Live(l) |-> <<i, 2>>]
  <2>1. \A i \in Live(l) : <<i, 2>> \in Owed(l)
    <3> TAKE i \in Live(l)
    <3>1. i \in Ids /\ l.pulse[i].stage <= 2
      BY <1>0
    <3> QED BY <3>1 DEF Owed
  <2>2. last \in Injection(Live(l), Owed(l))
    BY <2>1 DEF Injection, IsInjective
  <2> HIDE DEF last
  <2> QED BY <1>2, <2>2, FS_Injection
<1> QED BY <1>1, <1>2, <1>3 DEF LaneOK

\* The sends that a pulse of this stage owes.
SendsOf(i, stage) == {i} \X (stage..2)

LEMMA SendsCount ==
  ASSUME NEW i, NEW stage \in 0..2
  PROVE  IsFiniteSet(SendsOf(i, stage)) /\ Cardinality(SendsOf(i, stage)) = 3 - stage
<1>1. IsFiniteSet(stage..2) /\ Cardinality(stage..2) = 3 - stage
  BY FS_Interval
<1>2. IsFiniteSet({i}) /\ Cardinality({i}) = 1
  BY FS_Singleton
<1>3. /\ IsFiniteSet(SendsOf(i, stage))
      /\ Cardinality(SendsOf(i, stage)) = Cardinality({i}) * Cardinality(stage..2)
  BY <1>1, <1>2, FS_Product DEF SendsOf
<1>4. 1 * (3 - stage) = 3 - stage
  OBVIOUS
<1> QED BY <1>1, <1>2, <1>3, <1>4

\* The lane l without pulse i, g: its queue has lost it, and the next one starts.
Without(l, i, g) ==
  LET p == l.pulse[i].path
  IN  /\ g \in [pulse : [Ids -> [path : Paths, stage : 0..2]], order : Seq(Ids),
                byPath : [Paths -> Seq(Ids)], heap : SUBSET Ids, pending : Nat]
      /\ LosesOne(Ids, l.order, i, g.order) /\ LosesOne(Ids, l.byPath[p], i, g.byPath[p])
      /\ \A q \in Paths \ {p} : g.byPath[q] = l.byPath[q]
      /\ \A j \in Ids \ {i} : g.pulse[j] = l.pulse[j]
      /\ g.pending = l.pending - (3 - l.pulse[i].stage)
      /\ g.heap = (l.heap \ {i})
           \cup {j \in Ids : Head(l.byPath[p]) = i /\ g.byPath[p] # <<>> /\ j = Head(g.byPath[p])}

LEMMA OwedWithout ==
  ASSUME NEW l, LaneOK(l), NEW i \in Live(l), NEW g, ToSet(g.order) = Live(l) \ {i},
         \A j \in Ids \ {i} : g.pulse[j] = l.pulse[j]
  PROVE  /\ IsFiniteSet(Owed(g)) /\ l.pending - (3 - l.pulse[i].stage) = Cardinality(Owed(g))
         /\ l.pending - (3 - l.pulse[i].stage) \in Nat
<1> DEFINE gone == SendsOf(i, l.pulse[i].stage)
<1>1. /\ l.pulse[i].stage \in 0..2 /\ i \in Ids /\ Live(l) \subseteq Ids
      /\ l.pending \in Nat
  BY LaneTypes, LaneAssumption
<1>2. Owed(g) = Owed(l) \ gone
  <2>1. \A e \in Ids \X (0..2) : e \in gone <=> e[1] = i /\ l.pulse[e[1]].stage <= e[2]
    BY <1>1 DEF SendsOf
  <2>2. Owed(g) \subseteq Owed(l) \ gone
    BY <2>1 DEF Owed, Live
  <2>3. Owed(l) \ gone \subseteq Owed(g)
    BY <2>1 DEF Owed, Live
  <2> QED BY <2>2, <2>3
<1>3. Owed(l) \cap gone = gone
  BY <1>1 DEF Owed, SendsOf
<1>4. IsFiniteSet(gone) /\ Cardinality(gone) = 3 - l.pulse[i].stage
  BY <1>1, SendsCount
<1>5. IsFiniteSet(Owed(l)) /\ Cardinality(Owed(l)) = l.pending
  BY LiveFinite DEF LaneOK
<1> HIDE DEF gone
<1>6. IsFiniteSet(Owed(g)) /\ Cardinality(Owed(g)) = Cardinality(Owed(l)) - Cardinality(gone)
  <2>1. /\ IsFiniteSet(Owed(l) \ gone)
        /\ Cardinality(Owed(l) \ gone) = Cardinality(Owed(l)) - Cardinality(Owed(l) \cap gone)
    BY <1>5, FS_Difference
  <2> QED BY <1>2, <1>3, <2>1
<1>7. Cardinality(Owed(g)) \in Nat
  BY <1>6, FS_CardinalityType
<1> QED BY <1>4, <1>5, <1>6, <1>7

LEMMA WithoutOK ==
  ASSUME NEW l, LaneOK(l), NEW i \in Live(l), NEW g, Without(l, i, g)
  PROVE  LaneOK(g) /\ Live(g) = Live(l) \ {i}
<1> DEFINE p == l.pulse[i].path
<1>1. /\ l.pulse \in [Ids -> [path : Paths, stage : 0..2]]
      /\ l.order \in Seq(Ids) /\ l.byPath \in [Paths -> Seq(Ids)]
      /\ l.heap \in SUBSET Ids /\ l.pending \in 0..EventCap
      /\ Live(l) \subseteq Ids /\ p \in Paths /\ i \in ToSet(l.byPath[p])
  BY LaneTypes DEF LaneOK, QueuesOK
<1>2. Live(g) = Live(l) \ {i}
  BY DEF Without, LosesOne, Live
<1>3. ToSet(g.byPath[p]) = ToSet(l.byPath[p]) \ {i}
  BY DEF Without, LosesOne
<1>4. QueuesOK(g)
  <2>1. Once(g.order) /\ \A q \in Paths : Once(g.byPath[q])
    BY DEF LaneOK, QueuesOK, Without, LosesOne
  <2>2. ASSUME NEW q \in Paths, NEW j \in ToSet(g.byPath[q])
        PROVE  j \in Live(g) /\ g.pulse[j].path = q
    <3>1. j \in ToSet(l.byPath[q]) /\ j # i
      <4>1. CASE q = p
        BY <1>3, <2>2, <4>1
      <4>2. CASE q # p
        <5>1. j \in ToSet(l.byPath[q])
          BY <2>2, <4>2 DEF Without
        <5> QED BY <4>2, <5>1 DEF LaneOK, QueuesOK
      <4> QED BY <4>1, <4>2
    <3>2. j \in Live(l) /\ l.pulse[j].path = q
      BY <3>1 DEF LaneOK, QueuesOK
    <3> QED BY <1>1, <1>2, <3>1, <3>2 DEF Without
  <2>3. ASSUME NEW j \in Live(g)
        PROVE  j \in ToSet(g.byPath[g.pulse[j].path])
    <3>1. j \in Live(l) /\ j # i /\ g.pulse[j] = l.pulse[j]
      BY <1>1, <1>2 DEF Without
    <3>2. l.pulse[j].path \in Paths /\ j \in ToSet(l.byPath[l.pulse[j].path])
      BY <1>1, <3>1 DEF LaneOK, QueuesOK
    <3> QED BY <1>3, <3>1, <3>2 DEF Without
  <2> QED BY <2>1, <2>2, <2>3 DEF QueuesOK
<1>5. OneAtWork(g)
  <2> SUFFICES ASSUME NEW q \in Paths, NEW j \in Waiting(g.byPath[q])
               PROVE  g.pulse[j].stage = 0
    BY DEF OneAtWork
  <2>1. j \in Waiting(l.byPath[q])
    BY DEF Without, LosesOne
  <2>2. j \in ToSet(g.byPath[q])
    <3>1. g.byPath[q] \in Seq(Ids)
      BY DEF Without
    <3> HIDE DEF p
    <3> QED BY <3>1 DEF Waiting, ToSet
  <2>3. j # i /\ j \in Ids
    BY <1>1, <1>2, <1>4, <2>2 DEF QueuesOK
  <2> QED BY <2>1, <2>3 DEF Without, LaneOK, OneAtWork
<1>6. HeapOK(g)
  <2> SUFFICES ASSUME NEW j \in Ids
               PROVE  j \in g.heap <=> j \in Live(g) /\ IsHead(g, j)
    BY DEF HeapOK
  <2> DEFINE q == l.pulse[j].path
  <2>1. CASE j = i
    <3>1. j \notin Live(g)
      BY <1>2, <2>1
    <3>2. j \notin g.heap
      <4>1. g.byPath[p] # <<>> => Head(g.byPath[p]) \in ToSet(g.byPath[p])
        BY <1>1, HeadOf DEF Without
      <4> QED BY <1>3, <2>1, <4>1 DEF Without
    <3> QED BY <3>1, <3>2
  <2>2. CASE j # i /\ q # p
    <3>1. g.pulse[j] = l.pulse[j] /\ q \in Paths /\ g.byPath[q] = l.byPath[q]
      BY <1>1, <2>2 DEF Without
    <3>2. j \in g.heap <=> j \in l.heap
      <4>1. g.byPath[p] # <<>> => Head(g.byPath[p]) \in ToSet(g.byPath[p])
        BY <1>1, HeadOf DEF Without
      <4>2. g.byPath[p] # <<>> => Head(g.byPath[p]) # j
        BY <1>1, <1>4, <2>2, <3>1, <4>1 DEF QueuesOK
      <4> QED BY <2>2, <4>2 DEF Without
    <3> QED BY <1>2, <2>2, <3>1, <3>2 DEF LaneOK, HeapOK, IsHead
  <2>3. CASE j # i /\ q = p
    <3>1. g.pulse[j] = l.pulse[j]
      BY <2>3 DEF Without
    <3>2. CASE Head(l.byPath[p]) = i
      <4>1. j \notin l.heap
        BY <2>3, <3>2 DEF LaneOK, HeapOK, IsHead
      <4>2. g.byPath[p] # <<>> => Head(g.byPath[p]) \in Live(g)
        <5>1. g.byPath[p] \in Seq(Ids)
          BY <1>1 DEF Without
        <5> QED BY <1>1, <1>4, <5>1, HeadOf DEF QueuesOK
      <4> QED BY <2>3, <3>1, <3>2, <4>1, <4>2 DEF Without, IsHead
    <3>3. CASE Head(l.byPath[p]) # i
      <4>1. g.byPath[p] # <<>> /\ Head(g.byPath[p]) = Head(l.byPath[p])
        BY <3>3 DEF Without, LosesOne
      <4>2. l.byPath[p] # <<>>
        BY <1>1 DEF ToSet
      <4>3. j \in g.heap <=> j \in l.heap
        BY <2>3, <3>3 DEF Without
      <4> QED BY <1>2, <2>3, <3>1, <4>1, <4>2, <4>3 DEF LaneOK, HeapOK, IsHead
    <3> QED BY <3>2, <3>3
  <2> QED BY <2>1, <2>2, <2>3
<1>7. g.pending = Cardinality(Owed(g)) /\ g.pending \in 0..EventCap
  <2>1. /\ l.pending - (3 - l.pulse[i].stage) = Cardinality(Owed(g))
        /\ l.pending - (3 - l.pulse[i].stage) \in Nat
    <3>1. ToSet(g.order) = Live(l) \ {i} /\ \A j \in Ids \ {i} : g.pulse[j] = l.pulse[j]
      BY <1>2 DEF Without, Live
    <3> QED BY <3>1, OwedWithout
  <2>2. l.pulse[i].stage \in 0..2
    BY <1>1
  <2>3. g.pending = l.pending - (3 - l.pulse[i].stage)
    BY DEF Without
  <2>4. EventCap \in Nat /\ l.pending \in 0..EventCap
    BY <1>1, LaneAssumption
  <2> QED BY <2>1, <2>2, <2>3, <2>4
<1>8. g \in Lane
  BY <1>7 DEF Without, Lane
<1> QED BY <1>2, <1>4, <1>5, <1>6, <1>7, <1>8 DEF LaneOK

\* A head that goes leaves its output at 0 or as it was.
LEMMA WithoutOut ==
  ASSUME NEW l, LaneOK(l), NEW i \in Live(l), NEW g, Without(l, i, g),
         NEW o, OutOK(l, o), NEW n,
         \A q \in Paths : IF q = l.pulse[i].path /\ IsHead(l, i) THEN n[q] # "1" ELSE n[q] = o[q]
  PROVE  OutOK(g, n)
<1> DEFINE p == l.pulse[i].path
<1>1. /\ l.pulse \in [Ids -> [path : Paths, stage : 0..2]]
      /\ l.byPath \in [Paths -> Seq(Ids)] /\ p \in Paths
      /\ l.byPath[p] # <<>> /\ Live(l) \subseteq Ids
  <2>1. /\ l.pulse \in [Ids -> [path : Paths, stage : 0..2]]
        /\ l.byPath \in [Paths -> Seq(Ids)] /\ Live(l) \subseteq Ids
    BY LaneTypes
  <2>2. p \in Paths /\ i \in ToSet(l.byPath[p])
    BY <2>1 DEF LaneOK, QueuesOK
  <2> QED BY <2>1, <2>2 DEF ToSet
<1> SUFFICES ASSUME NEW q \in Paths
             PROVE  n[q] = "1" <=> g.byPath[q] # <<>> /\ g.pulse[Head(g.byPath[q])].stage = 2
  BY DEF OutOK
<1>2. CASE q # p
  <2>1. n[q] = o[q] /\ g.byPath[q] = l.byPath[q]
    BY <1>2 DEF Without
  <2>2. l.byPath[q] # <<>> => g.pulse[Head(l.byPath[q])] = l.pulse[Head(l.byPath[q])]
    <3>1. l.byPath[q] # <<>> => /\ Head(l.byPath[q]) \in Ids
                               /\ l.pulse[Head(l.byPath[q])].path = q
      BY <1>1, HeadOf DEF LaneOK, QueuesOK
    <3> QED BY <1>2, <3>1 DEF Without
  <2>3. o[q] = "1" <=> l.byPath[q] # <<>> /\ l.pulse[Head(l.byPath[q])].stage = 2
    BY DEF OutOK
  <2> HIDE DEF p
  <2> QED BY <2>1, <2>2, <2>3
<1>3. CASE q = p /\ Head(l.byPath[p]) # i
  <2>1. n[q] = o[q] /\ g.byPath[q] # <<>> /\ Head(g.byPath[q]) = Head(l.byPath[q])
    BY <1>3 DEF Without, LosesOne, IsHead
  <2>2. Head(l.byPath[q]) \in Ids \ {i}
    BY <1>1, <1>3, HeadOf
  <2>3. g.pulse[Head(l.byPath[q])] = l.pulse[Head(l.byPath[q])]
    BY <2>2 DEF Without
  <2>4. o[q] = "1" <=> l.byPath[q] # <<>> /\ l.pulse[Head(l.byPath[q])].stage = 2
    BY DEF OutOK
  <2>5. l.byPath[q] # <<>>
    BY <1>1, <1>3
  <2> HIDE DEF p
  <2> QED BY <2>1, <2>3, <2>4, <2>5
<1>4. CASE q = p /\ Head(l.byPath[p]) = i
  <2>1. n[q] # "1"
    BY <1>1, <1>4 DEF IsHead
  <2>2. ASSUME g.byPath[q] # <<>> PROVE g.pulse[Head(g.byPath[q])].stage = 0
    <3>1. Head(g.byPath[p]) \in Waiting(l.byPath[p])
      BY <1>4, <2>2 DEF Without, LosesOne
    <3>2. /\ Head(g.byPath[p]) \in ToSet(l.byPath[p]) \ {i}
      <4>1. g.byPath[p] \in Seq(Ids) /\ ToSet(g.byPath[p]) = ToSet(l.byPath[p]) \ {i}
        BY DEF Without, LosesOne
      <4> QED BY <1>4, <2>2, <4>1, HeadOf
    <3>3. Head(g.byPath[p]) \in Ids \ {i}
      BY <1>1, <3>2 DEF LaneOK, QueuesOK
    <3>4. l.pulse[Head(g.byPath[p])].stage = 0
      BY <1>1, <3>1 DEF LaneOK, OneAtWork
    <3>5. g.pulse[Head(g.byPath[p])] = l.pulse[Head(g.byPath[p])]
      BY <3>3 DEF Without
    <3> QED BY <1>4, <3>4, <3>5
  <2> QED BY <2>1, <2>2
<1> QED BY <1>2, <1>3, <1>4

LEMMA GoneWithout ==
  ASSUME NEW l, LaneOK(l), NEW i \in Live(l)
  PROVE  Without(l, i, Drop(l, i))
<1> DEFINE p      == l.pulse[i].path
           n      == l.pending - (3 - l.pulse[i].stage)
           pulse  == [l.pulse EXCEPT ![i] = NoPulse]
           order  == Pop(l.order, i)
           queue  == Pop(l.byPath[p], i)
           byPath == [l.byPath EXCEPT ![p] = queue]
           next   == {j \in Ids : Head(l.byPath[p]) = i /\ queue # <<>> /\ j = Head(queue)}
           gone   == [pulse |-> pulse, order |-> order, byPath |-> byPath,
                      heap |-> l.heap \ {i}, pending |-> n]
           g      == [pulse |-> pulse, order |-> order, byPath |-> byPath,
                      heap |-> (l.heap \ {i}) \cup next, pending |-> n]
<1>1. /\ l.pulse \in [Ids -> [path : Paths, stage : 0..2]]
      /\ l.order \in Seq(Ids) /\ l.byPath \in [Paths -> Seq(Ids)]
      /\ l.heap \in SUBSET Ids /\ Live(l) \subseteq Ids /\ p \in Paths
      /\ i \in ToSet(l.order) /\ i \in ToSet(l.byPath[p])
      /\ Once(l.order) /\ Once(l.byPath[p])
  BY LaneTypes DEF LaneOK, QueuesOK, Live
<1>2. LosesOne(Ids, l.order, i, order) /\ LosesOne(Ids, l.byPath[p], i, queue)
  BY <1>1, PopLoses
<1>3. order \in Seq(Ids) /\ queue \in Seq(Ids)
  BY <1>2 DEF LosesOne
<1>4. pulse \in [Ids -> [path : Paths, stage : 0..2]] /\ \A j \in Ids \ {i} : pulse[j] = l.pulse[j]
  <2>1. NoPulse \in [path : Paths, stage : 0..2]
    BY <1>1 DEF NoPulse
  <2> QED BY <1>1, <2>1
<1>5. /\ byPath \in [Paths -> Seq(Ids)] /\ byPath[p] = queue
      /\ \A q \in Paths \ {p} : byPath[q] = l.byPath[q]
  BY <1>1, <1>3
<1>6. n \in Nat
  <2>1. ToSet(gone.order) = Live(l) \ {i}
    BY <1>2 DEF LosesOne, Live
  <2>2. \A j \in Ids \ {i} : gone.pulse[j] = l.pulse[j]
    BY <1>4
  <2> HIDE DEF gone
  <2> QED BY <2>1, <2>2, OwedWithout
<1>7. gone = Gone(l, i)
  BY DEF Gone
<1>8. Without(l, i, g)
  <2> HIDE DEF order, queue, pulse, byPath, n
  <2>1. g \in [pulse : [Ids -> [path : Paths, stage : 0..2]], order : Seq(Ids),
               byPath : [Paths -> Seq(Ids)], heap : SUBSET Ids, pending : Nat]
    BY <1>1, <1>3, <1>4, <1>5, <1>6
  <2> QED BY <1>2, <1>4, <1>5, <2>1 DEF Without, n
<1>9. g = Drop(l, i)
  <2> HIDE DEF order, queue, pulse, byPath, n
  <2>0. l.byPath[p] # <<>>
    BY <1>1 DEF ToSet
  <2>1. CASE Head(l.byPath[p]) = i /\ queue # <<>>
    <3>1. next = {Head(queue)}
      BY <1>3, <2>1, HeadOf
    <3>2. g = StartHead(gone, p)
      BY <1>5, <2>1, <3>1 DEF StartHead, Schedule
    <3> HIDE DEF g, gone
    <3> QED BY <1>7, <2>0, <2>1, <3>2 DEF Drop, IsHead
  <2>2. CASE Head(l.byPath[p]) = i /\ queue = <<>>
    <3>1. next = {}
      BY <2>2
    <3>2. g = StartHead(gone, p)
      BY <1>5, <2>2, <3>1 DEF StartHead
    <3> HIDE DEF g, gone
    <3> QED BY <1>7, <2>0, <2>2, <3>2 DEF Drop, IsHead
  <2>3. CASE Head(l.byPath[p]) # i
    <3>1. next = {}
      BY <2>3
    <3>2. g = gone
      BY <3>1
    <3> HIDE DEF g, gone
    <3> QED BY <1>7, <2>3, <3>2 DEF Drop, IsHead
  <2> QED BY <2>1, <2>2, <2>3
<1> HIDE DEF g
<1> QED BY <1>8, <1>9

\* The last send of a pulse: it goes as one that is dropped goes.
LEMMA LastSend ==
  ASSUME NEW l, LaneOK(l), NEW i \in l.heap, ~(l.pulse[i].stage < 2)
  PROVE  /\ i \in Live(l) /\ l.pulse[i].path \in Paths /\ IsHead(l, i)
         /\ EventSent(l, i) = Drop(l, i)
<1>1. i \in Ids /\ l.pulse \in [Ids -> [path : Paths, stage : 0..2]]
  BY LaneTypes
<1>2. i \in Live(l) /\ IsHead(l, i)
  BY <1>1 DEF LaneOK, HeapOK
<1> QED BY <1>1, <1>2 DEF EventSent, Drop

\* The first and the second send.
LEMMA NextSend ==
  ASSUME NEW l, LaneOK(l), NEW i \in l.heap, l.pulse[i].stage < 2
  PROVE  /\ i \in Live(l) /\ l.pulse[i].path \in Paths /\ IsHead(l, i)
         /\ LaneOK(EventSent(l, i)) /\ EventSent(l, i).byPath = l.byPath
         /\ \A j \in Ids \ {i} : EventSent(l, i).pulse[j] = l.pulse[j]
         /\ EventSent(l, i).pulse[i].stage = l.pulse[i].stage + 1
<1> DEFINE stage == l.pulse[i].stage
           later == [path |-> l.pulse[i].path, stage |-> stage + 1]
           pulse == [l.pulse EXCEPT ![i] = later]
           g     == [pulse |-> pulse, order |-> l.order, byPath |-> l.byPath,
                     heap |-> l.heap \cup {i}, pending |-> l.pending - 1]
<1>1. /\ l.pulse \in [Ids -> [path : Paths, stage : 0..2]]
      /\ l.order \in Seq(Ids) /\ l.byPath \in [Paths -> Seq(Ids)]
      /\ l.heap \in SUBSET Ids /\ l.pending \in 0..EventCap /\ Live(l) \subseteq Ids
  BY LaneTypes
<1>2. i \in Ids /\ i \in Live(l) /\ IsHead(l, i)
  BY <1>1 DEF LaneOK, HeapOK
<1>3. EventSent(l, i) = g
  BY DEF EventSent
<1>4. /\ pulse \in [Ids -> [path : Paths, stage : 0..2]]
      /\ \A j \in Ids \ {i} : pulse[j] = l.pulse[j]
      /\ \A j \in Ids : pulse[j].path = l.pulse[j].path
      /\ pulse[i].stage = stage + 1
  <2>1. stage + 1 \in 0..2 /\ l.pulse[i].path \in Paths
    BY <1>1, <1>2
  <2>2. later \in [path : Paths, stage : 0..2] /\ later.path = l.pulse[i].path
        /\ later.stage = stage + 1
    BY <2>1
  <2> HIDE DEF later
  <2> QED BY <1>1, <1>2, <2>2
<1>5. /\ g.pulse = pulse /\ g.order = l.order /\ g.byPath = l.byPath
       /\ g.heap = l.heap \cup {i} /\ g.pending = l.pending - 1
  <2> HIDE DEF pulse
  <2> QED OBVIOUS
<1>6. g \in [pulse : [Ids -> [path : Paths, stage : 0..2]], order : Seq(Ids),
              byPath : [Paths -> Seq(Ids)], heap : SUBSET Ids, pending : {l.pending - 1}]
  <2> HIDE DEF pulse
  <2> QED BY <1>1, <1>2, <1>4
<1> HIDE DEF g
<1> HIDE DEF pulse
<1>7. QueuesOK(g)
  <2>1. \A p \in Paths : ToSet(l.byPath[p]) \subseteq Ids
    BY <1>1 DEF ToSet
  <2> QED BY <1>1, <1>4, <1>5, <2>1 DEF LaneOK, QueuesOK, Live
<1>8. OneAtWork(g)
  <2> SUFFICES ASSUME NEW p \in Paths, NEW j \in Waiting(l.byPath[p]) PROVE pulse[j].stage = 0
    BY <1>5 DEF OneAtWork
  <2>1. l.byPath[p] \in Seq(Ids) /\ Once(l.byPath[p])
    BY <1>1 DEF LaneOK, QueuesOK
  <2>2. j \in ToSet(l.byPath[p]) /\ j \in Ids /\ j # Head(l.byPath[p])
    BY <2>1 DEF Waiting, ToSet, Once
  <2>3. l.pulse[j].path = p
    BY <2>2 DEF LaneOK, QueuesOK
  <2>4. j # i
    BY <1>2, <2>2, <2>3 DEF IsHead
  <2> QED BY <1>4, <2>2, <2>4 DEF LaneOK, OneAtWork
<1>9. HeapOK(g)
  <2>1. \A j \in Ids : IsHead(g, j) <=> IsHead(l, j)
    BY <1>4, <1>5 DEF IsHead
  <2>2. Live(g) = Live(l)
    BY <1>5 DEF Live
  <2> QED BY <1>2, <1>5, <2>1, <2>2 DEF LaneOK, HeapOK
<1>10. /\ g.pending = Cardinality(Owed(g)) /\ g.pending \in 0..EventCap
  <2>1. stage \in 0..2 /\ stage < 2
    BY <1>1, <1>2
  <2>2. <<i, stage>> \in Owed(l)
    BY <1>2, <2>1 DEF Owed
  <2>3. Owed(g) = Owed(l) \ {<<i, stage>>}
    <3>1. ASSUME NEW e \in Ids \X (0..2)
          PROVE  e \in Owed(g) <=> e \in Owed(l) /\ e # <<i, stage>>
      <4>1. CASE e[1] = i
        <5>1. e \in Owed(g) <=> stage + 1 <= e[2]
          BY <1>2, <1>4, <1>5, <4>1 DEF Owed, Live
        <5>2. e \in Owed(l) <=> stage <= e[2]
          BY <1>2, <4>1 DEF Owed
        <5>3. e # <<i, stage>> <=> e[2] # stage
          BY <4>1
        <5>4. e[2] \in 0..2
          OBVIOUS
        <5> QED BY <2>1, <5>1, <5>2, <5>3, <5>4
      <4>2. CASE e[1] # i
        BY <1>4, <1>5, <4>2 DEF Owed, Live
      <4> QED BY <4>1, <4>2
    <3>2. Owed(g) \subseteq Ids \X (0..2) /\ Owed(l) \subseteq Ids \X (0..2)
      BY DEF Owed
    <3> QED BY <3>1, <3>2
  <2>4. IsFiniteSet(Owed(l)) /\ Cardinality(Owed(l)) = l.pending /\ Cardinality(Owed(l)) \in Nat
    BY LiveFinite, FS_CardinalityType DEF LaneOK
  <2>5. IsFiniteSet(Owed(g)) /\ Cardinality(Owed(g)) = l.pending - 1
    <3>1. /\ IsFiniteSet(Owed(l) \ {<<i, stage>>})
          /\ Cardinality(Owed(l) \ {<<i, stage>>}) = Cardinality(Owed(l)) - 1
      BY <2>2, <2>4, FS_RemoveElement
    <3> QED BY <2>3, <2>4, <3>1
  <2>6. Cardinality(Owed(g)) \in Nat
    BY <2>5, FS_CardinalityType
  <2> QED BY <1>1, <1>5, <2>5, <2>6, LaneAssumption
<1>11. g \in Lane
  BY <1>10, <1>6 DEF Lane
<1>12. LaneOK(g)
  BY <1>7, <1>8, <1>9, <1>10, <1>11 DEF LaneOK
<1>13. l.pulse[i].path \in Paths
  BY <1>1, <1>2
<1> QED BY <1>2, <1>3, <1>4, <1>12, <1>5, <1>13 DEF pulse

LEMMA SentOK ==
  ASSUME NEW l, LaneOK(l), NEW o \in [Paths -> {"none", "0", "1"}], OutOK(l, o), NEW i \in l.heap
  PROVE  LET n == [o EXCEPT ![l.pulse[i].path] = Value(l, i)]
         IN  LaneOK(EventSent(l, i)) /\ OutOK(EventSent(l, i), n)
<1> DEFINE p == l.pulse[i].path
           n == [o EXCEPT ![p] = Value(l, i)]
           g == EventSent(l, i)
<1>1. /\ l.pulse \in [Ids -> [path : Paths, stage : 0..2]] /\ i \in Ids
      /\ l.byPath \in [Paths -> Seq(Ids)]
  BY LaneTypes
<1>2. i \in Live(l) /\ p \in Paths /\ IsHead(l, i)
  BY LastSend, NextSend
<1>3. n[p] = Value(l, i) /\ \A q \in Paths \ {p} : n[q] = o[q]
  BY <1>2
<1> HIDE DEF n
<1>4. ASSUME l.pulse[i].stage < 2
      PROVE  LaneOK(g) /\ OutOK(g, n)
  <2>1. /\ LaneOK(g) /\ g.byPath = l.byPath /\ g.pulse[i].stage = l.pulse[i].stage + 1
        /\ \A j \in Ids \ {i} : g.pulse[j] = l.pulse[j]
    BY <1>4, NextSend
  <2> HIDE DEF g
  <2> SUFFICES ASSUME NEW q \in Paths
               PROVE  n[q] = "1" <=> l.byPath[q] # <<>> /\ g.pulse[Head(l.byPath[q])].stage = 2
    BY <2>1 DEF OutOK
  <2>2. CASE q = p
    <3>1. l.pulse[i].stage \in 0..2
      BY <1>1
    <3> QED BY <1>2, <1>3, <2>1, <2>2, <3>1 DEF IsHead, Value
  <2>3. CASE q # p /\ l.byPath[q] # <<>>
    <3>1. Head(l.byPath[q]) \in Ids /\ l.pulse[Head(l.byPath[q])].path = q
      BY <1>1, <2>3, HeadOf DEF LaneOK, QueuesOK
    <3> QED BY <1>3, <2>1, <2>3, <3>1 DEF OutOK
  <2>4. CASE q # p /\ l.byPath[q] = <<>>
    BY <1>3, <2>4 DEF OutOK
  <2> QED BY <2>2, <2>3, <2>4
<1>5. ASSUME ~(l.pulse[i].stage < 2)
      PROVE  LaneOK(g) /\ OutOK(g, n)
  <2>1. Without(l, i, g)
    BY <1>2, <1>5, LastSend, GoneWithout
  <2>2. n[p] # "1"
    BY <1>1, <1>3, <1>5 DEF Value
  <2> HIDE DEF g
  <2> QED BY <1>2, <1>3, <2>1, <2>2, WithoutOK, WithoutOut
<1> QED BY <1>4, <1>5 DEF n

\* ------------------- room for a pulse ------------------------------------

LEMMA DropOldestOK ==
  ASSUME NEW l, LaneOK(l), NEW o, OutOK(l, o)
  PROVE  LET g == DropOldest(l)
         IN  /\ LaneOK(g) /\ OutOK(g, o)
             /\ g = l \/ g.pending + 2 <= l.pending
<1> DEFINE may == {k \in DOMAIN l.order : Droppable(l, l.order[k])}
           first == CHOOSE k \in may : \A j \in may : k <= j
           i == l.order[first]
           g == DropOldest(l)
<1>1. CASE l.pending + 3 <= EventCap \/ may = {}
  BY <1>1 DEF DropOldest
<1>2. CASE ~(l.pending + 3 <= EventCap) /\ may # {}
  <2>1. /\ l.order \in Seq(Ids) /\ l.pulse \in [Ids -> [path : Paths, stage : 0..2]]
        /\ l.pending \in 0..EventCap /\ Live(l) \subseteq Ids
    BY LaneTypes
  <2>2. first \in may
    <3>1. Len(l.order) \in Nat /\ may \subseteq 1..Len(l.order)
      BY <2>1
    <3>2. \E k \in may : \A j \in may : k <= j
      <4> HIDE DEF may
      <4> QED BY <1>2, <3>1, LeastOf
    <3> HIDE DEF may
    <3> QED BY <3>2
  <2>3. i \in Live(l) /\ i \in Ids /\ l.pulse[i].stage < 2
    <3> HIDE DEF first
    <3> QED BY <2>1, <2>2 DEF Live, ToSet, Droppable
  <2>4. g = Drop(l, i)
    BY <1>2 DEF DropOldest
  <2> HIDE DEF g, i
  <2>5. Without(l, i, g)
    BY <2>3, <2>4, GoneWithout
  <2>6. LaneOK(g)
    BY <2>3, <2>5, WithoutOK
  <2>7. OutOK(g, o)
    <3>1. l.pulse[i].stage # 2 /\ l.pulse[i].path \in Paths
      BY <2>1, <2>3
    <3>2. IsHead(l, i) => o[l.pulse[i].path] # "1"
      BY <3>1 DEF IsHead, OutOK
    <3> QED BY <2>3, <2>5, <3>2, WithoutOut
  <2>8. g.pending + 2 <= l.pending
    <3>1. g.pending = l.pending - (3 - l.pulse[i].stage)
      BY <2>5 DEF Without
    <3>2. l.pulse[i].stage \in 0..2 /\ l.pending \in 0..EventCap /\ EventCap \in Nat
      BY <2>1, <2>3, LaneAssumption
    <3> QED BY <2>3, <3>1, <3>2
  <2> QED BY <2>6, <2>7, <2>8 DEF g
<1> QED BY <1>1, <1>2

LEMMA MakeRoomOK ==
  ASSUME NEW l, LaneOK(l), NEW o, OutOK(l, o)
  PROVE  LaneOK(MakeRoom(l)) /\ OutOK(MakeRoom(l), o)
<1>1. LaneOK(DropOldest(l)) /\ OutOK(DropOldest(l), o)
  BY DropOldestOK
<1> QED BY <1>1, DropOldestOK DEF MakeRoom

\* The loop of _add_pulse is over after two drops, whatever the cap: a third
\* call would drop nothing.
THEOREM TwoDropsAreEnough ==
  ASSUME NEW l, LaneOK(l), NEW o, OutOK(l, o)
  PROVE  DropOldest(MakeRoom(l)) = MakeRoom(l)
<1> DEFINE g == DropOldest(l)
           h == DropOldest(g)
<1>1. LaneOK(g) /\ OutOK(g, o) /\ (g = l \/ g.pending + 2 <= l.pending)
  BY DropOldestOK
<1>2. LaneOK(h) /\ (h = g \/ h.pending + 2 <= g.pending)
  <2> HIDE DEF g
  <2> QED BY <1>1, DropOldestOK
<1>3. CASE h = g
  BY <1>3 DEF MakeRoom
<1>4. CASE g = l
  BY <1>4 DEF MakeRoom
<1>5. CASE g.pending + 2 <= l.pending /\ h.pending + 2 <= g.pending
  <2>1. /\ l.pending \in 0..EventCap /\ g.pending \in 0..EventCap
        /\ h.pending \in 0..EventCap /\ EventCap \in Nat
    <3> HIDE DEF g, h
    <3> QED BY <1>1, <1>2, LaneTypes, LaneAssumption
  <2>2. h.pending + 3 <= EventCap
    <3> HIDE DEF g, h
    <3> QED BY <1>5, <2>1
  <2>3. DropOldest(h) = h
    <3> HIDE DEF h
    <3> QED BY <2>2 DEF DropOldest
  <2> QED BY <2>3 DEF MakeRoom
<1> QED BY <1>1, <1>2, <1>3, <1>4, <1>5

LEMMA FreeId ==
  ASSUME NEW l, LaneOK(l), l.pending + 3 <= EventCap
  PROVE  \E i \in Ids \ Live(l) : i \in Free(l)
<1>1. Ids \ Live(l) # {}
  <2> SUFFICES ASSUME Ids \subseteq Live(l) PROVE FALSE
    OBVIOUS
  <2>1. Ids = Live(l)
    BY LaneTypes
  <2>2. IsFiniteSet(Ids) /\ Cardinality(Ids) <= l.pending /\ Cardinality(Ids) \in Nat
    BY <2>1, LiveFinite, FS_CardinalityType
  <2>3. l.pending \in 0..EventCap /\ EventCap \in Nat /\ Cardinality(Ids) + 2 >= EventCap
    BY <2>2, LaneTypes, LaneAssumption
  <2> QED BY <2>2, <2>3
<1>2. \A i \in Ids \ Live(l) : i \in Free(l)
  BY DEF Free, LaneOK, QueuesOK
<1> QED BY <1>1, <1>2

\* The lane l with pulse i, new, at the end of its order and of path p, g.
With(l, i, p, g) ==
  /\ g \in [pulse : [Ids -> [path : Paths, stage : 0..2]], order : Seq(Ids),
            byPath : [Paths -> Seq(Ids)], heap : SUBSET Ids, pending : Nat]
  /\ g.order = Append(l.order, i) /\ g.byPath[p] = Append(l.byPath[p], i)
  /\ \A q \in Paths \ {p} : g.byPath[q] = l.byPath[q]
  /\ \A j \in Ids \ {i} : g.pulse[j] = l.pulse[j]
  /\ g.pulse[i].path = p /\ g.pulse[i].stage = 0
  /\ g.pending = l.pending + 3
  /\ \A j \in Ids : j \in g.heap <=> j \in l.heap \/ (j = i /\ l.byPath[p] = <<>>)

LEMMA WithOK ==
  ASSUME NEW l, LaneOK(l), NEW o, OutOK(l, o), NEW p \in Paths, NEW i \in Ids \ Live(l),
         NEW g, With(l, i, p, g), l.pending + 3 <= EventCap
  PROVE  LaneOK(g) /\ OutOK(g, o)
<1>1. /\ l.pulse \in [Ids -> [path : Paths, stage : 0..2]]
      /\ l.order \in Seq(Ids) /\ l.byPath \in [Paths -> Seq(Ids)]
      /\ l.heap \in SUBSET Ids /\ l.pending \in 0..EventCap /\ EventCap \in Nat
      /\ Live(l) \subseteq Ids
  BY LaneTypes, LaneAssumption
<1>2. /\ \A q \in Paths : l.byPath[q] \in Seq(Ids) /\ Once(l.byPath[q])
      /\ \A q \in Paths : \A j \in ToSet(l.byPath[q]) : j \in Live(l) /\ l.pulse[j].path = q
      /\ Once(l.order) /\ i \notin ToSet(l.order)
      /\ \A q \in Paths : i \notin ToSet(l.byPath[q])
  BY <1>1 DEF LaneOK, QueuesOK, Live
<1>3. Once(g.order) /\ Live(g) = Live(l) \cup {i}
  <2>1. LET t == Append(l.order, i) IN Once(t) /\ ToSet(t) = ToSet(l.order) \cup {i}
    BY <1>1, <1>2, AppendFacts
  <2> QED BY <2>1 DEF With, Live
<1>4. /\ Once(g.byPath[p]) /\ ToSet(g.byPath[p]) = ToSet(l.byPath[p]) \cup {i}
      /\ g.byPath[p] # <<>>
      /\ l.byPath[p] # <<>> => /\ Head(g.byPath[p]) = Head(l.byPath[p])
                               /\ Waiting(g.byPath[p]) = Waiting(l.byPath[p]) \cup {i}
      /\ l.byPath[p] = <<>> => Head(g.byPath[p]) = i /\ Waiting(g.byPath[p]) = {}
  <2>1. g.byPath[p] = Append(l.byPath[p], i)
    BY DEF With
  <2> QED BY <1>1, <1>2, <2>1, AppendFacts
<1>5. QueuesOK(g)
  <2>1. \A q \in Paths : Once(g.byPath[q])
    BY <1>2, <1>4 DEF With
  <2>2. ASSUME NEW q \in Paths, NEW j \in ToSet(g.byPath[q])
        PROVE  j \in Live(g) /\ g.pulse[j].path = q
    <3>1. CASE q = p /\ j = i
      BY <1>3, <3>1 DEF With
    <3>2. CASE ~(q = p /\ j = i)
      <4>1. j \in ToSet(l.byPath[q])
        BY <1>4, <2>2, <3>2 DEF With
      <4>2. j \in Live(l) /\ l.pulse[j].path = q /\ j # i
        BY <1>2, <4>1
      <4> QED BY <1>1, <1>3, <4>2 DEF With
    <3> QED BY <3>1, <3>2
  <2>3. ASSUME NEW j \in Live(g)
        PROVE  j \in ToSet(g.byPath[g.pulse[j].path])
    <3>1. CASE j = i
      BY <1>4, <3>1 DEF With
    <3>2. CASE j # i
      <4>1. j \in Live(l) /\ g.pulse[j] = l.pulse[j] /\ l.pulse[j].path \in Paths
        BY <1>1, <1>3, <3>2 DEF With
      <4>2. j \in ToSet(l.byPath[l.pulse[j].path])
        BY <4>1 DEF LaneOK, QueuesOK
      <4> QED BY <1>4, <4>1, <4>2 DEF With
    <3> QED BY <3>1, <3>2
  <2> QED BY <1>3, <2>1, <2>2, <2>3 DEF QueuesOK
<1>6. OneAtWork(g)
  <2> SUFFICES ASSUME NEW q \in Paths, NEW j \in Waiting(g.byPath[q])
               PROVE  g.pulse[j].stage = 0
    BY DEF OneAtWork
  <2>1. CASE j = i
    BY <2>1 DEF With
  <2>2. CASE j # i
    <3>1. j \in Waiting(l.byPath[q])
      <4>1. CASE q # p
        BY <4>1 DEF With
      <4>2. CASE q = p /\ l.byPath[p] # <<>>
        BY <1>4, <2>2, <4>2
      <4>3. CASE q = p /\ l.byPath[p] = <<>>
        BY <1>4, <4>3
      <4> QED BY <4>1, <4>2, <4>3
    <3>2. j \in ToSet(l.byPath[q])
      BY <1>2, <3>1 DEF Waiting, ToSet
    <3>3. j \in Ids
      BY <1>1, <1>2, <3>2
    <3> QED BY <2>2, <3>1, <3>3 DEF With, LaneOK, OneAtWork
  <2> QED BY <2>1, <2>2
<1>7. HeapOK(g)
  <2> SUFFICES ASSUME NEW j \in Ids
               PROVE  j \in g.heap <=> j \in Live(g) /\ IsHead(g, j)
    BY DEF HeapOK
  <2>1. CASE j = i
    <3>1. i \notin l.heap
      BY DEF LaneOK, HeapOK
    <3>2. IsHead(g, i) <=> l.byPath[p] = <<>>
      <4>1. l.byPath[p] # <<>> => Head(l.byPath[p]) # i
        BY <1>2, HeadOf
      <4> QED BY <1>4, <4>1 DEF With, IsHead
    <3> QED BY <1>3, <2>1, <3>1, <3>2 DEF With
  <2>2. CASE j # i /\ j \in Live(l)
    <3> DEFINE q == l.pulse[j].path
    <3>1. q \in Paths /\ g.pulse[j].path = q /\ j \in ToSet(l.byPath[q])
      BY <1>1, <2>2 DEF With, LaneOK, QueuesOK
    <3>2. l.byPath[q] # <<>>
      BY <3>1 DEF ToSet
    <3>3. g.byPath[q] # <<>> /\ Head(g.byPath[q]) = Head(l.byPath[q])
      BY <1>4, <3>1, <3>2 DEF With
    <3>4. IsHead(g, j) <=> IsHead(l, j)
      BY <3>1, <3>2, <3>3 DEF IsHead
    <3> QED BY <1>3, <2>2, <3>4 DEF With, LaneOK, HeapOK
  <2>3. CASE j # i /\ j \notin Live(l)
    BY <1>3, <2>3 DEF With, LaneOK, HeapOK
  <2> QED BY <2>1, <2>2, <2>3
<1>8. g.pending = Cardinality(Owed(g)) /\ g.pending \in 0..EventCap
  <2>1. Owed(g) = Owed(l) \cup SendsOf(i, 0)
    <3>1. ASSUME NEW e \in Ids \X (0..2)
          PROVE  e \in Owed(g) <=> e \in Owed(l) \/ e[1] = i
      <4>1. CASE e[1] = i
        <5>1. e[2] \in 0..2
          OBVIOUS
        <5>2. 0 <= e[2]
          BY <5>1
        <5> QED BY <1>3, <4>1, <5>2 DEF Owed, With
      <4>2. CASE e[1] # i
        BY <1>3, <4>2 DEF Owed, With
      <4> QED BY <4>1, <4>2
    <3>2. Owed(g) \subseteq Ids \X (0..2) /\ Owed(l) \subseteq Ids \X (0..2)
      BY DEF Owed
    <3>3. SendsOf(i, 0) = {e \in Ids \X (0..2) : e[1] = i}
      BY DEF SendsOf
    <3> QED BY <3>1, <3>2, <3>3
  <2>2. Owed(l) \cap SendsOf(i, 0) = {}
    BY DEF Owed, SendsOf
  <2>3. IsFiniteSet(SendsOf(i, 0)) /\ Cardinality(SendsOf(i, 0)) = 3
    <3>1. 0 \in 0..2 /\ 3 - 0 = 3
      OBVIOUS
    <3> QED BY <3>1, SendsCount
  <2>4. IsFiniteSet(Owed(l)) /\ Cardinality(Owed(l)) = l.pending
    BY LiveFinite DEF LaneOK
  <2>5. Cardinality(Owed(l) \cup SendsOf(i, 0))
          = Cardinality(Owed(l)) + Cardinality(SendsOf(i, 0))
            - Cardinality(Owed(l) \cap SendsOf(i, 0))
    BY <2>3, <2>4, FS_Union
  <2>6. Cardinality({}) = 0
    BY FS_EmptySet
  <2>7. Cardinality(Owed(g)) = l.pending + 3 - 0
    BY <2>1, <2>2, <2>3, <2>4, <2>5, <2>6
  <2>8. g.pending = l.pending + 3
    BY DEF With
  <2> QED BY <1>1, <2>7, <2>8
<1>9. g \in Lane
  BY <1>8 DEF With, Lane
<1>10. OutOK(g, o)
  <2> SUFFICES ASSUME NEW q \in Paths
               PROVE  o[q] = "1" <=> g.byPath[q] # <<>> /\ g.pulse[Head(g.byPath[q])].stage = 2
    BY DEF OutOK
  <2>1. CASE l.byPath[q] # <<>>
    <3>1. g.byPath[q] # <<>> /\ Head(g.byPath[q]) = Head(l.byPath[q])
      BY <1>4, <2>1 DEF With
    <3>2. Head(l.byPath[q]) \in Ids \ {i}
      <4>1. l.byPath[q] \in Seq(Ids)
        BY <1>2
      <4>2. Head(l.byPath[q]) \in ToSet(l.byPath[q]) /\ Head(l.byPath[q]) \in Ids
        BY <2>1, <4>1, HeadOf
      <4> QED BY <1>2, <4>2
    <3>3. g.pulse[Head(l.byPath[q])] = l.pulse[Head(l.byPath[q])]
      BY <3>2 DEF With
    <3> QED BY <2>1, <3>1, <3>3 DEF OutOK
  <2>2. CASE l.byPath[q] = <<>> /\ q = p
    BY <1>4, <2>2 DEF With, OutOK
  <2>3. CASE l.byPath[q] = <<>> /\ q # p
    BY <2>3 DEF With, OutOK
  <2> QED BY <2>1, <2>2, <2>3
<1> QED BY <1>5, <1>6, <1>7, <1>8, <1>9, <1>10 DEF LaneOK

LEMMA AddPulseOK ==
  ASSUME NEW l, LaneOK(l), NEW o, OutOK(l, o), NEW p \in Paths
  PROVE  LaneOK(AddPulse(l, p)) /\ OutOK(AddPulse(l, p), o)
<1> DEFINE room == MakeRoom(l)
           i    == CHOOSE i \in Free(room) : TRUE
           pulse  == [room.pulse EXCEPT ![i] = [path |-> p, stage |-> 0]]
           order  == Append(room.order, i)
           byPath == [room.byPath EXCEPT ![p] = Append(@, i)]
           new  == [pulse |-> pulse, order |-> order, byPath |-> byPath,
                    heap |-> room.heap, pending |-> room.pending + 3]
           g    == IF room.byPath[p] = <<>> THEN Schedule(new, i) ELSE new
<1>1. LaneOK(room) /\ OutOK(room, o)
  BY MakeRoomOK
<1>2. CASE room.pending + 3 > EventCap
  <2>1. AddPulse(l, p) = room
    BY <1>2 DEF AddPulse
  <2> HIDE DEF room
  <2> QED BY <1>1, <2>1
<1>3. CASE ~(room.pending + 3 > EventCap)
  <2>1. AddPulse(l, p) = g
    BY <1>3 DEF AddPulse
  <2> HIDE DEF room
  <2>2. /\ room.pulse \in [Ids -> [path : Paths, stage : 0..2]]
        /\ room.order \in Seq(Ids) /\ room.byPath \in [Paths -> Seq(Ids)]
        /\ room.heap \in SUBSET Ids /\ room.pending \in 0..EventCap /\ EventCap \in Nat
    BY <1>1, LaneTypes, LaneAssumption
  <2>3. room.pending + 3 <= EventCap
    BY <1>3, <2>2
  <2>4. i \in Ids \ Live(room)
    <3>1. \E j \in Free(room) : TRUE
      BY <1>1, <2>3, FreeId
    <3>2. i \in Free(room)
      BY <3>1
    <3> QED BY <3>2 DEF Free
  <2> HIDE DEF i
  <2>5. /\ pulse \in [Ids -> [path : Paths, stage : 0..2]]
        /\ \A j \in Ids \ {i} : pulse[j] = room.pulse[j]
        /\ pulse[i].path = p /\ pulse[i].stage = 0
    <3>1. [path |-> p, stage |-> 0] \in [path : Paths, stage : 0..2]
      OBVIOUS
    <3> QED BY <2>2, <2>4, <3>1
  <2>6. /\ byPath \in [Paths -> Seq(Ids)] /\ byPath[p] = Append(room.byPath[p], i)
        /\ \A q \in Paths \ {p} : byPath[q] = room.byPath[q]
    <3>1. Append(room.byPath[p], i) \in Seq(Ids)
      BY <2>2, <2>4
    <3> QED BY <2>2, <3>1
  <2>7. order \in Seq(Ids)
    BY <2>2, <2>4
  <2> DEFINE h == [pulse |-> pulse, order |-> order, byPath |-> byPath,
                   heap |-> room.heap \cup {j \in {i} : room.byPath[p] = <<>>},
                   pending |-> room.pending + 3]
  <2>8. g = h
    <3> HIDE DEF pulse, order, byPath
    <3>1. CASE room.byPath[p] = <<>>
      BY <3>1 DEF Schedule
    <3>2. CASE room.byPath[p] # <<>>
      BY <3>2
    <3> QED BY <3>1, <3>2
  <2>9. With(room, i, p, h)
    <3>1. h.order = Append(room.order, i)
      OBVIOUS
    <3> HIDE DEF pulse, order, byPath
    <3>2. h \in [pulse : [Ids -> [path : Paths, stage : 0..2]], order : Seq(Ids),
                 byPath : [Paths -> Seq(Ids)], heap : SUBSET Ids, pending : Nat]
      BY <2>2, <2>4, <2>5, <2>6, <2>7
    <3> QED BY <2>5, <2>6, <3>1, <3>2 DEF With
  <2> HIDE DEF g, h
  <2>10. LaneOK(h) /\ OutOK(h, o)
    BY <1>1, <2>3, <2>4, <2>9, WithOK
  <2> QED BY <2>1, <2>8, <2>10
<1> QED BY <1>2, <1>3

LEMMA EmptyLaneOK == LaneOK(EmptyLane)
<1>1. /\ Once(<<>>) /\ ToSet(<<>>) = {} /\ Waiting(<<>>) = {}
  BY DEF Once, ToSet, Waiting
<1>2. Live(EmptyLane) = {} /\ Owed(EmptyLane) = {}
  BY <1>1 DEF EmptyLane, Live, Owed
<1>3. NoPulse \in [path : Paths, stage : 0..2]
  BY LaneAssumption DEF NoPulse
<1>4. EmptyLane \in Lane
  BY <1>3, LaneAssumption DEF EmptyLane, Lane
<1>5. QueuesOK(EmptyLane) /\ OneAtWork(EmptyLane)
  BY <1>1, <1>2 DEF EmptyLane, QueuesOK, OneAtWork
<1>6. HeapOK(EmptyLane)
  BY <1>2 DEF EmptyLane, HeapOK
<1>7. EmptyLane.pending = Cardinality(Owed(EmptyLane))
  BY <1>2, FS_EmptySet DEF EmptyLane
<1> QED BY <1>4, <1>5, <1>6, <1>7 DEF LaneOK

\* ------------------- the state lane --------------------------------------

StateOK(s) ==
  /\ DOMAIN s.value \subseteq Addresses
  /\ \A a \in DOMAIN s.value : s.value[a] \in Values(a)
  /\ s.ahead \subseteq DOMAIN s.value \ {"link"}

LEMMA NoCueIsNamed == "link" \notin Cues /\ "load" \notin Cues /\ "link" # "load"
BY RelayAssumption

LEMMA OverFacts ==
  ASSUME NEW f, NEW g
  PROVE  /\ DOMAIN Over(f, g) = DOMAIN f \cup DOMAIN g
         /\ \A x \in DOMAIN f : Over(f, g)[x] = f[x]
         /\ \A x \in DOMAIN g \ DOMAIN f : Over(f, g)[x] = g[x]
BY DEF Over

LEMMA UpdateFacts ==
  ASSUME NEW f, NEW k, NEW v
  PROVE  /\ \A x : x \in DOMAIN Update(f, k, v) <=> x = k \/ x \in DOMAIN f
         /\ Update(f, k, v)[k] = v
         /\ \A x \in DOMAIN f : x # k => Update(f, k, v)[x] = f[x]
BY DEF Update, Over

\* What PutAll keeps of the link state and what it makes of the others.
LEMMA PutAllFacts ==
  ASSUME NEW s, StateOK(s), NEW values, DOMAIN values \subseteq Addresses \ {"link"},
         \A a \in DOMAIN values : values[a] \in Values(a)
  PROVE  LET t == PutAll(s, values)
         IN  /\ StateOK(t) /\ DOMAIN t.value = DOMAIN values \cup DOMAIN s.value
             /\ \A a \in DOMAIN values : t.value[a] = values[a]
             /\ \A a \in DOMAIN s.value \ DOMAIN values : t.value[a] = s.value[a]
             /\ t.ahead \subseteq s.ahead
<1> DEFINE t == PutAll(s, values)
<1>1. t.value = Over(values, s.value) /\ t.ahead = s.ahead \ DOMAIN values
  BY DEF PutAll
<1> HIDE DEF t
<1>2. /\ DOMAIN t.value = DOMAIN values \cup DOMAIN s.value
      /\ \A a \in DOMAIN values : t.value[a] = values[a]
      /\ \A a \in DOMAIN s.value \ DOMAIN values : t.value[a] = s.value[a]
  <2>1. /\ DOMAIN Over(values, s.value) = DOMAIN values \cup DOMAIN s.value
        /\ \A a \in DOMAIN values : Over(values, s.value)[a] = values[a]
        /\ \A a \in DOMAIN s.value \ DOMAIN values : Over(values, s.value)[a] = s.value[a]
    BY OverFacts
  <2> QED BY <1>1, <2>1
<1>3. StateOK(t)
  BY <1>1, <1>2 DEF StateOK
<1> QED BY <1>1, <1>2, <1>3 DEF t

LEMMA PutFacts ==
  ASSUME NEW s, StateOK(s), NEW a \in Addresses \ {"link"}, NEW v \in Values(a)
  PROVE  LET t == Put(s, a, v)
         IN  /\ StateOK(t) /\ DOMAIN t.value = {a} \cup DOMAIN s.value
             /\ t.value[a] = v
             /\ \A b \in DOMAIN s.value \ {a} : t.value[b] = s.value[b]
             /\ t.ahead \subseteq s.ahead
<1> DEFINE one == [b \in {a} |-> v]
<1>1. DOMAIN one = {a} /\ one[a] = v
  OBVIOUS
<1> HIDE DEF one
<1>2. /\ DOMAIN one \subseteq Addresses \ {"link"}
      /\ \A b \in DOMAIN one : one[b] \in Values(b)
  BY <1>1
<1>3. Put(s, a, v) = PutAll(s, one)
  BY DEF Put, one
<1> QED BY <1>1, <1>2, <1>3, PutAllFacts

LEMMA PutLinkFacts ==
  ASSUME NEW s, StateOK(s), NEW v \in {"0", "1"}
  PROVE  \A t \in {PutLink(s, v), PutHead(s, v)} :
           /\ StateOK(t) /\ DOMAIN t.value = {"link"} \cup DOMAIN s.value
           /\ t.value["link"] = v
           /\ \A b \in DOMAIN s.value \ {"link"} : t.value[b] = s.value[b]
           /\ Queued(s, "link") => t.ahead \subseteq s.ahead
<1> TAKE t \in {PutLink(s, v), PutHead(s, v)}
<1>1. /\ t.value = Update(s.value, "link", v)
      /\ t.ahead = {} \/ t.ahead = IF Queued(s, "link") THEN s.ahead ELSE DOMAIN s.value
  BY DEF PutLink, PutHead
<1>2. /\ DOMAIN t.value = {"link"} \cup DOMAIN s.value
      /\ t.value["link"] = v
      /\ \A b \in DOMAIN s.value \ {"link"} : t.value[b] = s.value[b]
  BY <1>1, UpdateFacts
<1>3. StateOK(t)
  BY <1>1, <1>2 DEF StateOK, Queued, Values, Addresses
<1> QED BY <1>1, <1>2, <1>3

LEMMA HeadIsFirst ==
  ASSUME NEW s, NEW v
  PROVE  PutHead(s, v).ahead = {}
BY DEF PutHead

LEMMA TakenFacts ==
  ASSUME NEW s, StateOK(s), NEW a
  PROVE  LET t == Taken(s, a)
         IN  /\ StateOK(t) /\ DOMAIN t.value = DOMAIN s.value \ {a}
             /\ \A b \in DOMAIN t.value : t.value[b] = s.value[b]
             /\ t.ahead \subseteq s.ahead
<1> DEFINE t == Taken(s, a)
<1>1. /\ t.value = [b \in DOMAIN s.value \ {a} |-> s.value[b]] /\ t.ahead = s.ahead \ {a}
  BY DEF Taken
<1> HIDE DEF t
<1>2. StateOK(t) /\ DOMAIN t.value = DOMAIN s.value \ {a}
      /\ \A b \in DOMAIN t.value : t.value[b] = s.value[b]
  BY <1>1 DEF StateOK
<1> QED BY <1>1, <1>2 DEF t

\* ------------------- the invariant ---------------------------------------

EngineOK ==
  /\ connected \in BOOLEAN /\ quiet \in BOOLEAN
  /\ load \in Project \cup {"", "unknown"}
  /\ held.frames \in 0..HoldCap /\ held.last \in Partial(Cues, CueValues)
  /\ vals \in Partial(Cues, CueValues)
  /\ DOMAIN cache \subseteq Addresses \ {"link"}
  /\ \A a \in DOMAIN cache : cache[a] \in Values(a)

SentTypes ==
  /\ phase \in {"open", "closing", "closed"}
  /\ shown \in [Seen -> {"none"} \cup CueValues]
  /\ out \in [Paths -> {"none", "0", "1"}]

PulsesOK == LaneOK(lane) /\ OutOK(lane, out)

\* A queued link state is the present one, and one the receiver does not have
\* is queued before everything else.
LinkOK ==
  /\ Queued(state, "link") => state.value["link"] = Bit(connected)
  /\ phase = "open" /\ shown["link"] # Bit(connected) =>
       Queued(state, "link") /\ state.ahead = {}

\* The cache agrees with what is committed, so that a dump tells no old value.
CacheOK == \A c \in DOMAIN cache \cap Cues : c \in DOMAIN vals /\ cache[c] = vals[c]

\* What the receiver will have of cue c once the lane s is empty.
Due(s, c) == IF Queued(s, c) THEN s.value[c] ELSE shown[c]

CuesOK ==
  phase = "open" =>
    \A c \in Cues : IF c \in DOMAIN vals THEN Due(state, c) = vals[c]
              ELSE Due(state, c) \in {"none", "0"}

RelayInv ==
  /\ EngineOK /\ StateOK(state) /\ SentTypes
  /\ PulsesOK /\ LinkOK /\ CacheOK /\ CuesOK

LEMMA PartialFacts ==
  ASSUME NEW f
  PROVE  f \in Partial(Cues, CueValues) =>
           DOMAIN f \subseteq Cues /\ \A c \in DOMAIN f : f[c] \in CueValues
BY DEF Partial

LEMMA EmptyPartial == <<>> \in Partial(Cues, CueValues) /\ DOMAIN <<>> = {}
<1>1. <<>> \in [{} -> CueValues] /\ DOMAIN <<>> = {}
  OBVIOUS
<1>2. {} \in SUBSET Cues
  OBVIOUS
<1> QED BY <1>1, <1>2 DEF Partial

LEMMA OverPartial ==
  ASSUME NEW f \in Partial(Cues, CueValues), NEW g \in Partial(Cues, CueValues)
  PROVE  Over(f, g) \in Partial(Cues, CueValues)
<1> DEFINE D == DOMAIN f \cup DOMAIN g
<1>1. D \in SUBSET Cues /\ \A c \in D : (IF c \in DOMAIN f THEN f[c] ELSE g[c]) \in CueValues
  BY PartialFacts
<1>2. Over(f, g) \in [D -> CueValues]
  BY <1>1 DEF Over
<1> HIDE DEF D
<1> QED BY <1>1, <1>2 DEF Partial

LEMMA UpdatePartial ==
  ASSUME NEW f \in Partial(Cues, CueValues), NEW c \in Cues, NEW v \in CueValues
  PROVE  Update(f, c, v) \in Partial(Cues, CueValues)
<1> DEFINE one == [x \in {c} |-> v]
<1>1. one \in [{c} -> CueValues] /\ {c} \in SUBSET Cues
  OBVIOUS
<1>2. one \in Partial(Cues, CueValues)
  <2> HIDE DEF one
  <2> QED BY <1>1 DEF Partial
<1> HIDE DEF one
<1>3. Over(one, f) \in Partial(Cues, CueValues)
  BY <1>2, OverPartial
<1> QED BY <1>3 DEF Update, one

\* The parts of the invariant that read only what a step leaves alone.
LEMMA Frames ==
  ASSUME RelayInv
  PROVE  /\ UNCHANGED <<connected, quiet, load, held, vals, cache>> => EngineOK' /\ CacheOK'
         /\ UNCHANGED state => StateOK(state')
         /\ UNCHANGED <<phase, shown, out>> => SentTypes'
         /\ UNCHANGED <<lane, out>> => PulsesOK'
         /\ UNCHANGED <<state, connected, phase, shown>> => LinkOK'
         /\ UNCHANGED <<state, vals, phase, shown>> => CuesOK'
<1>1. UNCHANGED <<connected, quiet, load, held, vals, cache>> => EngineOK' /\ CacheOK'
  BY DEF RelayInv, EngineOK, CacheOK
<1>2. UNCHANGED state => StateOK(state')
  BY DEF RelayInv
<1>3. UNCHANGED <<phase, shown, out>> => SentTypes'
  BY DEF RelayInv, SentTypes
<1>4. UNCHANGED <<lane, out>> => PulsesOK'
  BY DEF RelayInv, PulsesOK
<1>5. UNCHANGED <<state, connected, phase, shown>> => LinkOK'
  BY DEF RelayInv, LinkOK, Queued
<1>6. UNCHANGED <<state, vals, phase, shown>> => CuesOK'
  BY DEF RelayInv, CuesOK, Due, Queued
<1> QED BY <1>1, <1>2, <1>3, <1>4, <1>5, <1>6

LEMMA NothingHeldOK == NothingHeld.frames \in 0..HoldCap /\ NothingHeld.last \in Partial(Cues, CueValues)
<1>1. NothingHeld.frames = 0 /\ NothingHeld.last = <<>>
  BY DEF NothingHeld
<1>2. 0 \in 0..HoldCap
  <2>1. HoldCap \in Nat
    BY RelayAssumption
  <2> QED BY <2>1
<1> QED BY <1>1, <1>2, EmptyPartial

LEMMA InitOK == Init => RelayInv
<1> SUFFICES ASSUME Init PROVE RelayInv
  OBVIOUS
<1>1. EngineOK
  <2>1. held.frames \in 0..HoldCap /\ held.last \in Partial(Cues, CueValues)
    BY NothingHeldOK DEF Init
  <2>2. vals \in Partial(Cues, CueValues) /\ DOMAIN cache = {}
    BY EmptyPartial DEF Init
  <2>3. connected \in BOOLEAN /\ quiet \in BOOLEAN /\ load \in Project \cup {"", "unknown"}
    BY DEF Init
  <2> QED BY <2>1, <2>2, <2>3 DEF EngineOK
<1>2. /\ DOMAIN state.value = {"link"} /\ state.value["link"] = "0" /\ state.ahead = {}
  BY DEF Init
<1>3. StateOK(state)
  BY <1>2 DEF StateOK, Addresses, Values
<1>4. SentTypes
  BY DEF Init, SentTypes
<1>5. PulsesOK
  <2>1. OutOK(EmptyLane, out)
    BY DEF Init, OutOK, EmptyLane
  <2> QED BY <2>1, EmptyLaneOK DEF Init, PulsesOK
<1>6. LinkOK
  BY <1>2 DEF Init, LinkOK, Queued, Bit
<1>7. CacheOK /\ CuesOK
  <2>1. \A c \in Cues : ~Queued(state, c) /\ shown[c] = "none"
    BY <1>2, NoCueIsNamed DEF Init, Queued, Seen
  <2>2. DOMAIN vals = {} /\ DOMAIN cache = {}
    BY EmptyPartial DEF Init
  <2> QED BY <2>1, <2>2 DEF CacheOK, CuesOK, Due
<1> QED BY <1>1, <1>3, <1>4, <1>5, <1>6, <1>7 DEF RelayInv

\* A lane that had something else put into it than the cues.
LEMMA SameDue ==
  ASSUME NEW s, NEW t, NEW a \in {"link", "load"}, DOMAIN t.value = {a} \cup DOMAIN s.value,
         \A b \in DOMAIN s.value \ {a} : t.value[b] = s.value[b]
  PROVE  \A c \in Cues : Due(t, c) = Due(s, c)
<1>1. a \notin Cues
  BY NoCueIsNamed
<1> QED BY <1>1 DEF Due, Queued

\* A lane t that has the link state where s has it.
LinkKept(s, t) ==
  /\ Queued(s, "link") <=> Queued(t, "link")
  /\ Queued(s, "link") => t.value["link"] = s.value["link"]
  /\ t.ahead \subseteq s.ahead

LEMMA LinkStays ==
  ASSUME RelayInv, UNCHANGED <<connected, phase, shown>>, LinkKept(state, state')
  PROVE  LinkOK'
<1>1. LinkOK
  BY DEF RelayInv
<1> QED BY <1>1 DEF LinkOK, LinkKept

\* The frame of the loaded project is put after what is in the lane.
LEMMA LoadPut ==
  ASSUME NEW s, StateOK(s), NEW p \in Project \cup {""}
  PROVE  LET t == Put(s, "load", p)
         IN  StateOK(t) /\ LinkKept(s, t) /\ \A c \in Cues : Due(t, c) = Due(s, c)
<1> DEFINE a == "load"
           t == Put(s, a, p)
<1>1. a \in Addresses \ {"link"} /\ p \in Values(a) /\ a \in {"link", "load"}
  BY DEF Addresses, Values
<1>2. a # "link"
  OBVIOUS
<1> HIDE DEF a
<1>3. /\ StateOK(t) /\ DOMAIN t.value = {a} \cup DOMAIN s.value
      /\ \A b \in DOMAIN s.value \ {a} : t.value[b] = s.value[b]
      /\ t.ahead \subseteq s.ahead
  BY <1>1, PutFacts
<1> HIDE DEF t
<1>4. \A c \in Cues : Due(t, c) = Due(s, c)
  BY <1>1, <1>3, SameDue
<1>5. LinkKept(s, t)
  BY <1>2, <1>3 DEF LinkKept, Queued
<1> QED BY <1>3, <1>4, <1>5 DEF t, a

\* Cue frames that are put into the lane.
LEMMA CuesPut ==
  ASSUME NEW s, StateOK(s), NEW f \in Partial(Cues, CueValues)
  PROVE  LET t == PutAll(s, f)
         IN  /\ StateOK(t) /\ LinkKept(s, t)
             /\ \A c \in Cues : Due(t, c) = IF c \in DOMAIN f THEN f[c] ELSE Due(s, c)
<1> DEFINE t == PutAll(s, f)
<1>1. DOMAIN f \subseteq Cues /\ \A c \in DOMAIN f : f[c] \in CueValues
  BY PartialFacts
<1>2. /\ DOMAIN f \subseteq Addresses \ {"link"}
      /\ \A c \in DOMAIN f : f[c] \in Values(c)
  BY <1>1, NoCueIsNamed DEF Addresses, Values
<1>3. /\ StateOK(t) /\ DOMAIN t.value = DOMAIN f \cup DOMAIN s.value
      /\ \A a \in DOMAIN f : t.value[a] = f[a]
      /\ \A a \in DOMAIN s.value \ DOMAIN f : t.value[a] = s.value[a]
      /\ t.ahead \subseteq s.ahead
  BY <1>2, PutAllFacts
<1> HIDE DEF t
<1>4. LinkKept(s, t)
  BY <1>2, <1>3 DEF LinkKept, Queued
<1>5. \A c \in Cues : Due(t, c) = IF c \in DOMAIN f THEN f[c] ELSE Due(s, c)
  BY <1>3 DEF Due, Queued
<1> QED BY <1>3, <1>4, <1>5 DEF t

\* _synth_resets: every cue will be at 0, or was never shown.
LEMMA ResetsOK ==
  ASSUME RelayInv, phase = "open"
  PROVE  /\ StateOK(Resets(state)) /\ LinkKept(state, Resets(state))
         /\ \A c \in Cues : Due(Resets(state), c) \in {"none", "0"}
<1> DEFINE zeros == [c \in DOMAIN vals |-> "0"]
<1>1. DOMAIN vals \subseteq Cues
  BY PartialFacts DEF RelayInv, EngineOK
<1>2. zeros \in [DOMAIN vals -> CueValues] /\ DOMAIN zeros = DOMAIN vals
      /\ \A c \in DOMAIN vals : zeros[c] = "0"
  BY DEF CueValues
<1>3. Resets(state) = PutAll(state, zeros)
  BY DEF Resets
<1> HIDE DEF zeros
<1>4. zeros \in Partial(Cues, CueValues)
  BY <1>1, <1>2 DEF Partial
<1>5. /\ StateOK(Resets(state)) /\ LinkKept(state, Resets(state))
      /\ \A c \in Cues : Due(Resets(state), c) = IF c \in DOMAIN zeros THEN zeros[c] ELSE Due(state, c)
  BY <1>3, <1>4, CuesPut DEF RelayInv
<1>6. \A c \in Cues : c \notin DOMAIN vals => Due(state, c) \in {"none", "0"}
  BY DEF RelayInv, CuesOK
<1> QED BY <1>2, <1>5, <1>6

\* The link state is put, in front or where it was.
LEMMA LinkPut ==
  ASSUME NEW s, StateOK(s), NEW b \in BOOLEAN
  PROVE  \A t \in {PutLink(s, Bit(b)), PutHead(s, Bit(b))} :
           /\ StateOK(t) /\ Queued(t, "link") /\ t.value["link"] = Bit(b)
           /\ Queued(s, "link") => t.ahead \subseteq s.ahead
           /\ \A c \in Cues : Due(t, c) = Due(s, c)
<1> TAKE t \in {PutLink(s, Bit(b)), PutHead(s, Bit(b))}
<1> DEFINE a == "link"
<1>0. Bit(b) \in {"0", "1"}
  BY DEF Bit
<1>1. /\ StateOK(t) /\ DOMAIN t.value = {a} \cup DOMAIN s.value
      /\ t.value[a] = Bit(b)
      /\ \A d \in DOMAIN s.value \ {a} : t.value[d] = s.value[d]
      /\ Queued(s, a) => t.ahead \subseteq s.ahead
  BY <1>0, PutLinkFacts
<1>2. a \in {"link", "load"}
  OBVIOUS
<1> HIDE DEF a
<1>3. \A c \in Cues : Due(t, c) = Due(s, c)
  BY <1>1, <1>2, SameDue
<1> QED BY <1>1, <1>3 DEF Queued, a

\* ------------------- the steps -------------------------------------------

LEMMA EngineStep ==
  ASSUME RelayInv, EngineConnects \/ EngineDrops \/ QuietOver
  PROVE  RelayInv'
<1>0. EngineOK /\ StateOK(state) /\ CacheOK /\ CuesOK
  BY DEF RelayInv
<1>1. ASSUME EngineConnects PROVE RelayInv'
  <2>1. state' = PutHead(state, Bit(TRUE)) /\ connected' = TRUE
    BY <1>1 DEF EngineConnects, Bit
  <2>2. /\ StateOK(state') /\ Queued(state', "link") /\ state'.value["link"] = Bit(TRUE)
        /\ \A c \in Cues : Due(state', c) = Due(state, c)
    BY <1>0, <2>1, LinkPut
  <2>3. EngineOK' /\ CacheOK'
    BY <1>0, <1>1 DEF EngineConnects, EngineOK, CacheOK
  <2>4. SentTypes' /\ PulsesOK'
    BY <1>1, Frames DEF EngineConnects
  <2>5. LinkOK'
    BY <2>1, <2>2, HeadIsFirst DEF LinkOK
  <2>6. CuesOK'
    BY <1>0, <1>1, <2>2 DEF EngineConnects, CuesOK, Due
  <2> QED BY <2>2, <2>3, <2>4, <2>5, <2>6 DEF RelayInv
<1>2. ASSUME EngineDrops PROVE RelayInv'
  <2>1. state' = PutHead(Resets(state), Bit(FALSE)) /\ connected' = FALSE
    BY <1>2 DEF EngineDrops, Bit
  <2>2. StateOK(Resets(state)) /\ \A c \in Cues : Due(Resets(state), c) \in {"none", "0"}
    BY <1>2, ResetsOK DEF EngineDrops
  <2>3. /\ StateOK(state') /\ Queued(state', "link") /\ state'.value["link"] = Bit(FALSE)
        /\ \A c \in Cues : Due(state', c) = Due(Resets(state), c)
    BY <2>1, <2>2, LinkPut
  <2>4. EngineOK' /\ CacheOK'
    <3>1. /\ held' = NothingHeld /\ vals' = <<>> /\ cache' = <<>> /\ load' = "unknown"
          /\ connected' = FALSE /\ quiet' = quiet
      BY <1>2 DEF EngineDrops
    <3>2. DOMAIN cache' = {}
      BY <3>1, EmptyPartial
    <3> QED BY <1>0, <3>1, <3>2, NothingHeldOK, EmptyPartial DEF EngineOK, CacheOK
  <2>5. SentTypes' /\ PulsesOK'
    BY <1>2, Frames DEF EngineDrops
  <2>6. LinkOK'
    BY <2>1, <2>3, HeadIsFirst DEF LinkOK
  <2>7. CuesOK'
    <3>1. DOMAIN vals' = {} /\ shown' = shown
      BY <1>2, EmptyPartial DEF EngineDrops
    <3> QED BY <2>2, <2>3, <3>1 DEF CuesOK, Due
  <2> QED BY <2>3, <2>4, <2>5, <2>6, <2>7 DEF RelayInv
<1>3. ASSUME QuietOver PROVE RelayInv'
  <2>1. EngineOK' /\ CacheOK'
    BY <1>0, <1>3 DEF QuietOver, EngineOK, CacheOK
  <2> QED BY <1>3, <2>1, Frames DEF QuietOver, RelayInv
<1> QED BY <1>1, <1>2, <1>3

LEMMA UnloadStep ==
  ASSUME RelayInv, UnloadFrame
  PROVE  RelayInv'
<1> DEFINE noCues == [a \in DOMAIN cache \ Cues |-> cache[a]]
           k == "load"
<1>1. /\ phase = "open" /\ load' = "" /\ held' = NothingHeld /\ vals' = <<>>
      /\ cache' = Update(noCues, k, "") /\ state' = Put(Resets(state), "load", "")
      /\ UNCHANGED <<connected, quiet, lane, phase, shown, out>>
  BY DEF UnloadFrame
<1>2. /\ StateOK(Resets(state)) /\ LinkKept(state, Resets(state))
      /\ \A c \in Cues : Due(Resets(state), c) \in {"none", "0"}
  BY <1>1, ResetsOK
<1>3. /\ StateOK(state') /\ LinkKept(Resets(state), state')
      /\ \A c \in Cues : Due(state', c) = Due(Resets(state), c)
  <2>1. "" \in Project \cup {""}
    OBVIOUS
  <2> QED BY <1>1, <1>2, <2>1, LoadPut
<1>4. EngineOK' /\ CacheOK'
  <2>1. EngineOK
    BY DEF RelayInv
  <2>2. k \in Addresses \ {"link"} /\ k \notin Cues /\ "" \in Values(k)
    BY NoCueIsNamed DEF Addresses, Values
  <2>3. DOMAIN noCues = DOMAIN cache \ Cues /\ \A a \in DOMAIN noCues : noCues[a] = cache[a]
    OBVIOUS
  <2> HIDE DEF noCues, k
  <2>4. /\ DOMAIN cache' = DOMAIN noCues \cup {k} /\ cache'[k] = ""
        /\ \A a \in DOMAIN noCues \ {k} : cache'[a] = noCues[a]
    <3> DEFINE empty == ""
    <3>1. cache' = Update(noCues, k, empty)
      BY <1>1
    <3> HIDE DEF empty
    <3>2. /\ DOMAIN cache' = DOMAIN noCues \cup {k} /\ cache'[k] = empty
          /\ \A a \in DOMAIN noCues \ {k} : cache'[a] = noCues[a]
      BY <3>1, UpdateFacts
    <3> QED BY <3>2 DEF empty
  <2>5. /\ DOMAIN cache' \subseteq Addresses \ {"link"}
        /\ \A a \in DOMAIN cache' : cache'[a] \in Values(a)
        /\ DOMAIN cache' \cap Cues = {}
    BY <2>1, <2>2, <2>3, <2>4 DEF EngineOK
  <2>6. held'.frames \in 0..HoldCap /\ held'.last \in Partial(Cues, CueValues)
    BY <1>1, NothingHeldOK
  <2> QED BY <1>1, <2>1, <2>5, <2>6, EmptyPartial DEF EngineOK, CacheOK
<1>5. SentTypes' /\ PulsesOK'
  BY <1>1, Frames
<1>6. LinkOK'
  BY <1>1, <1>2, <1>3, LinkStays DEF LinkKept
<1>7. CuesOK'
  <2>1. DOMAIN vals' = {} /\ shown' = shown
    BY <1>1, EmptyPartial
  <2> QED BY <1>2, <1>3, <2>1 DEF CuesOK, Due
<1> QED BY <1>3, <1>4, <1>5, <1>6, <1>7 DEF RelayInv

LEMMA LoadStep ==
  ASSUME RelayInv, NEW p \in Project, LoadFrame(p)
  PROVE  RelayInv'
<1> DEFINE k == "load"
<1>1. /\ load' = p /\ held' = NothingHeld /\ vals' = Over(held.last, vals)
      /\ state' = Put(PutAll(state, held.last), "load", p)
      /\ UNCHANGED <<connected, quiet, lane, phase, shown, out>>
  BY DEF LoadFrame
<1>2. PICK full \in SUBSET (DOMAIN held.last \ DOMAIN cache) :
           cache' = Update(Over([c \in DOMAIN held.last \ full |-> held.last[c]], cache), k, p)
  BY DEF LoadFrame
<1>3. EngineOK /\ StateOK(state) /\ CacheOK /\ CuesOK
  BY DEF RelayInv
<1>4. /\ held.last \in Partial(Cues, CueValues) /\ vals \in Partial(Cues, CueValues)
      /\ DOMAIN held.last \subseteq Cues /\ \A c \in DOMAIN held.last : held.last[c] \in CueValues
      /\ DOMAIN vals \subseteq Cues
  BY <1>3, PartialFacts DEF EngineOK
<1>5. /\ DOMAIN vals' = DOMAIN held.last \cup DOMAIN vals
      /\ \A c \in DOMAIN held.last : vals'[c] = held.last[c]
      /\ \A c \in DOMAIN vals \ DOMAIN held.last : vals'[c] = vals[c]
      /\ vals' \in Partial(Cues, CueValues)
  <2>1. vals' = Over(held.last, vals)
    BY <1>1
  <2>2. Over(held.last, vals) \in Partial(Cues, CueValues)
    BY <1>4, OverPartial
  <2>3. /\ DOMAIN Over(held.last, vals) = DOMAIN held.last \cup DOMAIN vals
        /\ \A c \in DOMAIN held.last : Over(held.last, vals)[c] = held.last[c]
        /\ \A c \in DOMAIN vals \ DOMAIN held.last : Over(held.last, vals)[c] = vals[c]
    BY OverFacts
  <2> QED BY <2>1, <2>2, <2>3
<1>6. /\ StateOK(state') /\ LinkKept(state, state')
      /\ \A c \in Cues : Due(state', c) = IF c \in DOMAIN held.last THEN held.last[c] ELSE Due(state, c)
  <2> DEFINE t == PutAll(state, held.last)
  <2>1. /\ StateOK(t) /\ LinkKept(state, t)
        /\ \A c \in Cues : Due(t, c) = IF c \in DOMAIN held.last THEN held.last[c] ELSE Due(state, c)
    BY <1>3, <1>4, CuesPut
  <2>2. state' = Put(t, "load", p)
    BY <1>1
  <2> HIDE DEF t
  <2>3. StateOK(state') /\ LinkKept(t, state') /\ \A c \in Cues : Due(state', c) = Due(t, c)
    BY <2>1, <2>2, LoadPut
  <2> QED BY <2>1, <2>3 DEF LinkKept
<1>7. EngineOK' /\ CacheOK'
  <2> DEFINE cached == [c \in DOMAIN held.last \ full |-> held.last[c]]
             both == Over(cached, cache)
  <2>1. DOMAIN cached = DOMAIN held.last \ full /\ \A c \in DOMAIN cached : cached[c] = held.last[c]
    OBVIOUS
  <2> HIDE DEF cached
  <2>2. /\ DOMAIN both = DOMAIN cached \cup DOMAIN cache
        /\ \A a \in DOMAIN cached : both[a] = cached[a]
        /\ \A a \in DOMAIN cache \ DOMAIN cached : both[a] = cache[a]
    BY OverFacts
  <2>3. cache' = Update(both, k, p)
    BY <1>2 DEF cached
  <2>4. k \in Addresses \ {"link"} /\ k \notin Cues /\ p \in Values(k)
    BY NoCueIsNamed DEF Addresses, Values
  <2> HIDE DEF both, k
  <2>5. DOMAIN cache' = DOMAIN both \cup {k} /\ cache'[k] = p
        /\ \A a \in DOMAIN both \ {k} : cache'[a] = both[a]
    BY <2>3, UpdateFacts
  <2>6. \A a \in DOMAIN both : both[a] \in Values(a) /\ a \in Addresses \ {"link"}
    <3>1. ASSUME NEW a \in DOMAIN cached
          PROVE  both[a] \in Values(a) /\ a \in Addresses \ {"link"}
      <4>1. a \in Cues /\ both[a] \in CueValues
        BY <1>4, <2>1, <2>2
      <4> QED BY <4>1, NoCueIsNamed DEF Values, Addresses
    <3>2. ASSUME NEW a \in DOMAIN cache \ DOMAIN cached
          PROVE  both[a] \in Values(a) /\ a \in Addresses \ {"link"}
      BY <1>3, <2>2 DEF EngineOK
    <3> QED BY <2>2, <3>1, <3>2
  <2>7. ASSUME NEW c \in DOMAIN both \cap Cues
        PROVE  c \in DOMAIN vals' /\ both[c] = vals'[c]
    <3>1. CASE c \in DOMAIN cached
      BY <1>5, <2>1, <2>2, <3>1
    <3>2. CASE c \notin DOMAIN cached
      <4>1. c \in DOMAIN cache /\ both[c] = cache[c] /\ c \notin DOMAIN held.last
        BY <2>1, <2>2, <2>7, <3>2
      <4>2. c \in DOMAIN vals /\ cache[c] = vals[c]
        BY <1>3, <2>7, <4>1 DEF CacheOK
      <4> QED BY <1>5, <4>1, <4>2
    <3> QED BY <3>1, <3>2
  <2>8. CacheOK'
    BY <2>4, <2>5, <2>7 DEF CacheOK
  <2>9. DOMAIN cache' \subseteq Addresses \ {"link"} /\ \A a \in DOMAIN cache' : cache'[a] \in Values(a)
    BY <2>4, <2>5, <2>6
  <2>10. held'.frames \in 0..HoldCap /\ held'.last \in Partial(Cues, CueValues)
    BY <1>1, NothingHeldOK
  <2> QED BY <1>1, <1>3, <1>5, <2>8, <2>9, <2>10 DEF EngineOK
<1>8. SentTypes' /\ PulsesOK'
  BY <1>1, Frames
<1>9. LinkOK'
  BY <1>1, <1>6, LinkStays
<1>10. CuesOK'
  <2> SUFFICES ASSUME phase = "open", NEW c \in Cues
               PROVE  IF c \in DOMAIN vals' THEN Due(state, c)' = vals'[c]
                      ELSE Due(state, c)' \in {"none", "0"}
    BY <1>1 DEF CuesOK
  <2>1. Due(state, c)' = IF c \in DOMAIN held.last THEN held.last[c] ELSE Due(state, c)
    BY <1>1, <1>6 DEF Due
  <2>2. IF c \in DOMAIN vals THEN Due(state, c) = vals[c] ELSE Due(state, c) \in {"none", "0"}
    BY <1>3 DEF CuesOK
  <2> QED BY <1>5, <2>1, <2>2
<1> QED BY <1>6, <1>7, <1>8, <1>9, <1>10 DEF RelayInv

LEMMA CueStep ==
  ASSUME RelayInv, NEW c \in Cues, NEW v \in CueValues, CueFrame(c, v)
  PROVE  RelayInv'
<1>1. EngineOK /\ StateOK(state) /\ SentTypes /\ PulsesOK /\ CacheOK /\ CuesOK
  BY DEF RelayInv
<1>2. UNCHANGED <<connected, quiet, load, phase, shown, out>>
  BY DEF CueFrame
<1>3. ASSUME ~(load \in Project) PROVE RelayInv'
  <2>1. UNCHANGED <<vals, cache, state, lane>>
    BY <1>3 DEF CueFrame
  <2>2. held'.frames \in 0..HoldCap /\ held'.last \in Partial(Cues, CueValues)
    <3>1. CASE held.frames = HoldCap
      BY <1>1, <1>3, <3>1 DEF CueFrame, EngineOK
    <3>2. CASE held.frames # HoldCap
      <4>1. held'.frames = held.frames + 1 /\ held'.last = Update(held.last, c, v)
        BY <1>3, <3>2 DEF CueFrame
      <4>2. held.frames \in 0..HoldCap /\ HoldCap \in Nat /\ held.last \in Partial(Cues, CueValues)
        BY <1>1, RelayAssumption DEF EngineOK
      <4>3. Update(held.last, c, v) \in Partial(Cues, CueValues)
        BY <4>2, UpdatePartial
      <4>4. held.frames + 1 \in 0..HoldCap
        BY <3>2, <4>2
      <4> QED BY <4>1, <4>3, <4>4
    <3> QED BY <3>1, <3>2
  <2>3. EngineOK' /\ CacheOK'
    BY <1>1, <1>2, <2>1, <2>2 DEF EngineOK, CacheOK
  <2> QED BY <1>2, <2>1, <2>3, Frames DEF RelayInv
<1>4. ASSUME load \in Project PROVE RelayInv'
  <2>1. /\ vals' = Update(vals, c, v) /\ lane' = Edge(c, v) /\ state' = Put(state, c, v)
        /\ cache' = Update(cache, c, v) \/ (c \notin DOMAIN cache /\ UNCHANGED cache)
        /\ UNCHANGED held
    BY <1>4 DEF CueFrame, Commit
  <2>2. c \in Addresses \ {"link"} /\ v \in Values(c) /\ c # "link"
    BY NoCueIsNamed DEF Addresses, Values
  <2>3. /\ DOMAIN vals' = DOMAIN vals \cup {c} /\ vals'[c] = v
        /\ \A d \in DOMAIN vals \ {c} : vals'[d] = vals[d]
        /\ vals' \in Partial(Cues, CueValues)
    <3>1. /\ DOMAIN vals' = DOMAIN vals \cup {c} /\ vals'[c] = v
          /\ \A d \in DOMAIN vals \ {c} : vals'[d] = vals[d]
      BY <2>1, UpdateFacts
    <3>2. Update(vals, c, v) \in Partial(Cues, CueValues)
      BY <1>1, UpdatePartial DEF EngineOK
    <3> QED BY <2>1, <3>1, <3>2
  <2>4. /\ StateOK(state') /\ DOMAIN state'.value = {c} \cup DOMAIN state.value
        /\ state'.value[c] = v
        /\ \A b \in DOMAIN state.value \ {c} : state'.value[b] = state.value[b]
        /\ state'.ahead \subseteq state.ahead
    BY <1>1, <2>1, <2>2, PutFacts
  <2>5. /\ DOMAIN cache' \subseteq DOMAIN cache \cup {c}
        /\ \A a \in DOMAIN cache' : (a = c /\ cache'[a] = v) \/ (a # c /\ a \in DOMAIN cache /\ cache'[a] = cache[a])
    <3>1. CASE cache' = Update(cache, c, v)
      BY <3>1, UpdateFacts
    <3>2. CASE c \notin DOMAIN cache /\ UNCHANGED cache
      BY <3>2
    <3> QED BY <2>1, <3>1, <3>2
  <2>6. EngineOK'
    BY <1>1, <1>2, <2>1, <2>2, <2>3, <2>5 DEF EngineOK
  <2>7. CacheOK'
    BY <1>1, <2>3, <2>5 DEF CacheOK
  <2>8. SentTypes'
    BY <1>2, Frames
  <2>9. PulsesOK'
    <3>1. Started(c) \in Paths /\ Ended(c) \in Paths
      BY RelayAssumption
    <3>2. LaneOK(Edge(c, v)) /\ OutOK(Edge(c, v), out)
      BY <1>1, <3>1, AddPulseOK DEF PulsesOK, Edge
    <3> QED BY <1>2, <2>1, <3>2 DEF PulsesOK
  <2>10. LinkOK'
    <3>1. LinkKept(state, state')
      BY <2>2, <2>4 DEF LinkKept, Queued
    <3> QED BY <1>2, <3>1, LinkStays
  <2>11. CuesOK'
    BY <1>1, <1>2, <2>3, <2>4 DEF CuesOK, Due, Queued
  <2> QED BY <2>4, <2>6, <2>7, <2>8, <2>9, <2>10, <2>11 DEF RelayInv
<1> QED BY <1>3, <1>4

LEMMA TellStep ==
  ASSUME RelayInv, Dump \/ Heartbeat
  PROVE  RelayInv'
<1> DEFINE s == PutLink(state, Bit(connected))
<1>1. EngineOK /\ StateOK(state) /\ LinkOK /\ CacheOK /\ CuesOK
  BY DEF RelayInv
<1>2. connected \in BOOLEAN
  BY <1>1 DEF EngineOK
<1>3. /\ StateOK(s) /\ Queued(s, "link") /\ s.value["link"] = Bit(connected)
      /\ Queued(state, "link") => s.ahead \subseteq state.ahead
      /\ \A c \in Cues : Due(s, c) = Due(state, c)
  BY <1>1, <1>2, LinkPut
<1>4. UNCHANGED <<connected, quiet, load, held, vals, cache, lane, phase, shown, out>>
  BY DEF Dump, Heartbeat, engineVars
<1> HIDE DEF s
\* A lane that the step may leave.
<1> DEFINE Told(t) == /\ StateOK(t) /\ LinkKept(s, t)
                      /\ \A c \in Cues : Due(t, c) = Due(s, c)
                                         \/ (c \in DOMAIN cache /\ Due(t, c) = cache[c])
<1>5. Told(state')
  <2>1. CASE Heartbeat
    <3>1. state' = s
      BY <2>1 DEF Heartbeat, s
    <3> QED BY <1>3, <3>1 DEF LinkKept
  <2>2. CASE Dump
    <3>1. PICK names \in SUBSET Cues :
            state' = PutAll(s, [a \in {b \in DOMAIN cache : b \in Cues => names = {} \/ b \in names} |-> cache[a]])
      BY <2>2 DEF Dump, s
    <3> DEFINE sent == {b \in DOMAIN cache : b \in Cues => names = {} \/ b \in names}
               f == [a \in sent |-> cache[a]]
    <3>2. DOMAIN f \subseteq DOMAIN cache /\ \A a \in DOMAIN f : f[a] = cache[a]
      OBVIOUS
    <3>3. state' = PutAll(s, f)
      BY <3>1
    <3> HIDE DEF f
    <3>4. DOMAIN f \subseteq Addresses \ {"link"} /\ \A a \in DOMAIN f : f[a] \in Values(a)
      BY <1>1, <3>2 DEF EngineOK
    <3>5. /\ StateOK(state') /\ DOMAIN state'.value = DOMAIN f \cup DOMAIN s.value
          /\ \A a \in DOMAIN f : state'.value[a] = f[a]
          /\ \A a \in DOMAIN s.value \ DOMAIN f : state'.value[a] = s.value[a]
          /\ state'.ahead \subseteq s.ahead
      BY <1>3, <3>3, <3>4, PutAllFacts
    <3>6. LinkKept(s, state')
      BY <3>4, <3>5 DEF LinkKept, Queued
    <3>7. \A c \in Cues : Due(state', c) = IF c \in DOMAIN f THEN f[c] ELSE Due(s, c)
      BY <3>5 DEF Due, Queued
    <3> QED BY <3>2, <3>5, <3>6, <3>7
  <2> QED BY <2>1, <2>2
<1>6. EngineOK' /\ CacheOK' /\ SentTypes' /\ PulsesOK'
  BY <1>4, Frames
<1>7. LinkOK'
  BY <1>1, <1>3, <1>4, <1>5 DEF LinkOK, LinkKept
<1>8. CuesOK'
  <2> SUFFICES ASSUME phase = "open", NEW c \in Cues
               PROVE  IF c \in DOMAIN vals THEN Due(state', c) = vals[c]
                      ELSE Due(state', c) \in {"none", "0"}
    BY <1>4 DEF CuesOK, Due
  <2>1. IF c \in DOMAIN vals THEN Due(state, c) = vals[c] ELSE Due(state, c) \in {"none", "0"}
    BY <1>1 DEF CuesOK
  <2>2. c \in DOMAIN cache => c \in DOMAIN vals /\ cache[c] = vals[c]
    BY <1>1 DEF CacheOK
  <2> QED BY <1>3, <1>5, <2>1, <2>2
<1> QED BY <1>5, <1>6, <1>7, <1>8 DEF RelayInv

LEMMA SendEventStep ==
  ASSUME RelayInv, NEW i \in Ids, SendEvent(i)
  PROVE  RelayInv'
<1>1. /\ i \in lane.heap /\ lane' = EventSent(lane, i)
      /\ out' = [out EXCEPT ![lane.pulse[i].path] = Value(lane, i)]
      /\ UNCHANGED <<connected, quiet, load, held, vals, cache, state, phase, shown>>
  BY DEF SendEvent, engineVars
<1>2. SentTypes /\ LaneOK(lane) /\ OutOK(lane, out)
  BY DEF RelayInv, PulsesOK
<1>3. out \in [Paths -> {"none", "0", "1"}]
  BY <1>2 DEF SentTypes
<1>4. PulsesOK'
  BY <1>1, <1>2, <1>3, SentOK DEF PulsesOK
<1>5. SentTypes'
  <2>1. Value(lane, i) \in {"none", "0", "1"}
    BY DEF Value
  <2>2. out' \in [Paths -> {"none", "0", "1"}]
    BY <1>1, <1>3, <2>1
  <2> QED BY <1>1, <1>2, <2>2 DEF SentTypes
<1>6. EngineOK' /\ StateOK(state') /\ LinkOK' /\ CacheOK' /\ CuesOK'
  BY <1>1, Frames
<1> QED BY <1>4, <1>5, <1>6 DEF RelayInv

LEMMA SendStateStep ==
  ASSUME RelayInv, NEW a \in Addresses, SendState(a)
  PROVE  RelayInv'
<1>1. /\ a \in Firsts(state) /\ state' = Taken(state, a)
      /\ shown' = [b \in Seen |-> IF b = a THEN state.value[a] ELSE shown[b]]
      /\ UNCHANGED <<connected, quiet, load, held, vals, cache, lane, phase, out>>
  BY DEF SendState, engineVars
<1>2. EngineOK /\ StateOK(state) /\ SentTypes /\ LinkOK /\ CuesOK
  BY DEF RelayInv
<1>3. Queued(state, a)
  BY <1>1, <1>2 DEF Firsts, StateOK, Queued
<1>4. /\ StateOK(state') /\ DOMAIN state'.value = DOMAIN state.value \ {a}
      /\ \A b \in DOMAIN state'.value : state'.value[b] = state.value[b]
      /\ state'.ahead \subseteq state.ahead
  BY <1>1, <1>2, TakenFacts
<1>5. \A b \in Seen : shown'[b] = IF b = a THEN state.value[a] ELSE shown[b]
  BY <1>1
<1>6. SentTypes'
  <2>1. ASSUME a \in Seen PROVE state.value[a] \in CueValues
    BY <1>2, <1>3, <2>1, NoCueIsNamed DEF StateOK, Queued, Values, Seen, CueValues
  <2>2. shown' \in [Seen -> {"none"} \cup CueValues]
    BY <1>1, <1>2, <2>1 DEF SentTypes
  <2> QED BY <1>1, <1>2, <2>2 DEF SentTypes
<1>7. EngineOK' /\ CacheOK' /\ PulsesOK'
  BY <1>1, Frames
<1>8. LinkOK'
  <2>1. "link" \in Seen
    BY DEF Seen
  <2>2. CASE a = "link"
    BY <1>1, <1>2, <1>3, <1>4, <1>5, <2>1, <2>2 DEF LinkOK, Queued
  <2>3. CASE a # "link"
    BY <1>1, <1>2, <1>4, <1>5, <2>1, <2>3 DEF LinkOK, Queued
  <2> QED BY <2>2, <2>3
<1>9. CuesOK'
  <2>1. \A c \in Cues : Due(state, c)' = Due(state, c)
    <3> TAKE c \in Cues
    <3>1. c \in Seen
      BY DEF Seen
    <3> QED BY <1>3, <1>4, <1>5, <3>1 DEF Due, Queued
  <2> QED BY <1>1, <1>2, <2>1 DEF CuesOK
<1> QED BY <1>4, <1>6, <1>7, <1>8, <1>9 DEF RelayInv

LEMMA CloseStep ==
  ASSUME RelayInv, Close \/ CloseEnds
  PROVE  RelayInv'
<1>1. EngineOK /\ StateOK(state) /\ SentTypes /\ PulsesOK /\ LinkOK
  BY DEF RelayInv
<1>2. ASSUME Close PROVE RelayInv'
  <2> DEFINE ends(p) == lane.byPath[p] # <<>> /\ lane.pulse[Head(lane.byPath[p])].stage = 2
             v == IF Queued(state, "link") THEN state.value["link"] ELSE Bit(connected)
             k == "link"
  <2>1. /\ shown' = [shown EXCEPT ![k] = v] /\ state' = Taken(state, k)
        /\ out' = [p \in Paths |-> IF ends(p) THEN "0" ELSE out[p]]
        /\ lane' = EmptyLane /\ phase' = "closing"
        /\ UNCHANGED <<connected, quiet, load, held, vals, cache>>
    BY <1>2 DEF Close, engineVars
  <2>2. v \in {"0", "1"}
    BY <1>1 DEF LinkOK, Bit
  <2> HIDE DEF v
  <2>3. k \in Seen
    BY DEF Seen
  <2> HIDE DEF k
  <2>4. /\ StateOK(state') /\ DOMAIN state'.value = DOMAIN state.value \ {k}
    BY <1>1, <2>1, TakenFacts
  <2>5. SentTypes'
    <3>1. shown' \in [Seen -> {"none"} \cup CueValues]
      BY <1>1, <2>1, <2>2, <2>3 DEF SentTypes, CueValues
    <3>2. out' \in [Paths -> {"none", "0", "1"}]
      BY <1>1, <2>1 DEF SentTypes
    <3> QED BY <2>1, <3>1, <3>2 DEF SentTypes
  <2>6. EngineOK' /\ CacheOK'
    BY <2>1, Frames
  <2>7. PulsesOK'
    <3>1. \A p \in Paths : out'[p] # "1"
      BY <1>1, <2>1 DEF PulsesOK, OutOK
    <3>2. OutOK(EmptyLane, out')
      BY <3>1 DEF OutOK, EmptyLane
    <3> QED BY <2>1, <3>2, EmptyLaneOK DEF PulsesOK
  <2>8. LinkOK'
    BY <2>1, <2>4 DEF LinkOK, Queued, k
  <2>9. CuesOK'
    BY <2>1 DEF CuesOK
  <2> QED BY <2>4, <2>5, <2>6, <2>7, <2>8, <2>9 DEF RelayInv
<1>3. ASSUME CloseEnds PROVE RelayInv'
  <2>1. /\ phase' = "closed" /\ state' = [value |-> <<>>, ahead |-> {}]
        /\ UNCHANGED <<connected, quiet, load, held, vals, cache, lane, shown, out>>
    BY <1>3 DEF CloseEnds, engineVars
  <2>2. DOMAIN state'.value = {} /\ state'.ahead = {}
    BY <2>1, EmptyPartial
  <2>3. StateOK(state') /\ LinkOK' /\ CuesOK'
    BY <2>1, <2>2 DEF StateOK, LinkOK, CuesOK, Queued
  <2>4. SentTypes'
    BY <1>1, <2>1 DEF SentTypes
  <2> QED BY <2>1, <2>3, <2>4, Frames DEF RelayInv
<1> QED BY <1>2, <1>3

LEMMA RelayStep == RelayInv /\ [Next]_vars => RelayInv'
<1> SUFFICES ASSUME RelayInv, [Next]_vars PROVE RelayInv'
  OBVIOUS
<1>1. ASSUME EngineConnects \/ EngineDrops \/ QuietOver PROVE RelayInv'
  BY <1>1, EngineStep
<1>2. ASSUME UnloadFrame PROVE RelayInv'
  BY <1>2, UnloadStep
<1>3. ASSUME NEW p \in Project, LoadFrame(p) PROVE RelayInv'
  BY <1>3, LoadStep
<1>4. ASSUME NEW c \in Cues, NEW v \in CueValues, CueFrame(c, v) PROVE RelayInv'
  BY <1>4, CueStep
<1>5. ASSUME Dump \/ Heartbeat PROVE RelayInv'
  BY <1>5, TellStep
<1>6. ASSUME NEW i \in Ids, SendEvent(i) PROVE RelayInv'
  BY <1>6, SendEventStep
<1>7. ASSUME NEW a \in Addresses, SendState(a) PROVE RelayInv'
  BY <1>7, SendStateStep
<1>8. ASSUME Close \/ CloseEnds PROVE RelayInv'
  BY <1>8, CloseStep
<1>9. ASSUME UNCHANGED vars PROVE RelayInv'
  <2>1. UNCHANGED <<connected, quiet, load, held, vals, cache, state, lane, phase, shown, out>>
    BY <1>9 DEF vars, engineVars
  <2> QED BY <2>1, Frames DEF RelayInv
<1> QED BY <1>1, <1>2, <1>3, <1>4, <1>5, <1>6, <1>7, <1>8, <1>9 DEF Next, Drain

LEMMA Inductive == Spec => []RelayInv
BY InitOK, RelayStep, PTL DEF Spec

\* ------------------- the theorems ----------------------------------------

\* The relay's state is always well formed: values it queues, caches and sends
\* are those of their address, and the caps are kept.
THEOREM RelayTyped == Spec => []RelayTypeOK
<1>1. RelayInv => RelayTypeOK
  BY DEF RelayInv, EngineOK, StateOK, SentTypes, PulsesOK, LaneOK, RelayTypeOK
<1> QED BY <1>1, Inductive, PTL

\* For every cap and every number of pulses: the count that decides what is
\* dropped is what the queues hold, both views of the pulses agree, and exactly
\* the heads have an entry in the heap (osc_relay.py:630-703).
THEOREM LaneStaysCoherent == Spec => []LaneCoherent
<1>1. RelayInv => LaneCoherent
  <2> SUFFICES ASSUME RelayInv PROVE LaneCoherent
    OBVIOUS
  <2>1. LaneOK(lane)
    BY DEF RelayInv, PulsesOK
  <2>2. lane.pulse \in [Ids -> [path : Paths, stage : 0..2]] /\ Live(lane) \subseteq Ids
    BY <2>1, LaneTypes
  <2>3. \A i \in Ids : i \in Live(lane) <=> i \in ToSet(lane.byPath[lane.pulse[i].path])
    BY <2>1, <2>2 DEF LaneOK, QueuesOK
  <2> QED BY <2>1, <2>3 DEF LaneOK, HeapOK, LaneCoherent
<1> QED BY <1>1, Inductive, PTL

\* An output of the receiver is at 1 exactly while the head of its path owes
\* the trailing 0, through drops for the cap and close().
THEOREM NoneStaysOn == Spec => []OnMeansOwed
<1>1. RelayInv => OnMeansOwed
  BY DEF RelayInv, PulsesOK, OutOK, OnMeansOwed
<1> QED BY <1>1, Inductive, PTL

\* With nothing left to send the receiver shows the committed value of every
\* cue: any cues, and whatever found the cache or the held list full.
THEOREM SettledStaysTrue == Spec => []SettledIsTrue
<1>1. RelayInv => SettledIsTrue
  <2> SUFFICES ASSUME RelayInv, phase = "open", DOMAIN state.value = {}, NEW c \in Cues
               PROVE  IF c \in DOMAIN vals THEN shown[c] = vals[c] ELSE shown[c] \in {"none", "0"}
    BY DEF SettledIsTrue
  <2>1. Due(state, c) = shown[c]
    BY DEF Due, Queued
  <2> QED BY <2>1 DEF RelayInv, CuesOK
<1> QED BY <1>1, Inductive, PTL

\* No other state frame goes out while the link state the receiver has is out
\* of date (osc_relay.py:24-25), however many heartbeats and dumps come between.
THEOREM LinkGoesFirst == Spec => LinkFirst
<1>1. ASSUME RelayInv, phase = "open", NEW a \in Addresses \ {"link"}, SendState(a)
      PROVE  shown["link"] = Bit(connected)
  <2>1. a \in Firsts(state) /\ a # "link"
    BY <1>1 DEF SendState
  <2>2. ~(Queued(state, "link") /\ state.ahead = {})
    BY <2>1 DEF Firsts
  <2> QED BY <1>1, <2>2 DEF RelayInv, LinkOK
<1>2. RelayInv /\ [Next]_vars =>
        [phase = "open" /\ (\E a \in Addresses \ {"link"} : SendState(a)) =>
           shown["link"] = Bit(connected)]_vars
  BY <1>1
<1> QED BY <1>2, Inductive, PTL DEF Spec, LinkFirst
=============================================================================
