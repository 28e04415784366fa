--------------------------- MODULE CommandsProofs ----------------------------
(***************************************************************************)
(* What EngineLink and Commands promise, for any projects, any length of   *)
(* the socket and any number of calls.                                     *)
(*                                                                         *)
(* The cache runs behind the engine by the frames still in the socket, so  *)
(* each part of the invariant says what those frames will make of it.      *)
(***************************************************************************)
EXTENDS Commands, SequenceTheorems, TLAPS

\* The last frame of key k in s, or else the value seen, is the value now.
Tells(s, k, seen, now) ==
  /\ (\A i \in DOMAIN s : s[i].key # k) => seen = now
  /\ \A i \in DOMAIN s :
       s[i].key = k /\ (\A j \in DOMAIN s : j > i => s[j].key # k) => s[i].value = now

\* Cache and socket together show the engine as it is.
FeedCoherent ==
  cache.connected =>
    /\ Tells(feed, "running", cache.running, engine.running)
    /\ Tells(feed, "armed", cache.armed, engine.armed)
    /\ Tells(feed, "load", cache.load, engine.load)

\* A client that is down knows nothing and has nothing to read.
DownIsCold == ~cache.connected => cache = ColdCache /\ feed = <<>>

\* `running no`, read or on its way, is news of this connection.
IdleFrame(f) == f.key = "running" /\ f.value = "no"

IdleIsNews ==
  cache.running = "no" \/ (\E i \in DOMAIN feed : IdleFrame(feed[i])) => idleSeen

\* The nodes arm only what is neither armed nor played, a show is fresh only
\* until it plays, and an arm that is owed to a STOP is not fresh.
ArmingIsIdle ==
  /\ engine.rearm # "none" => engine.armed = "no" /\ engine.running = "no"
  /\ freshShow => engine.running = "no" /\ engine.rearm # "stop"

\* Nothing behind position i of s takes a pending or a fresh arm back.
Spoils(f)   == f.key = "load" \/ (f.key = "running" /\ f.value = "yes")
Quiet(s, i) == \A j \in DOMAIN s : j > i => ~Spoils(s[j])

LoadFrame(f) == f.key = "load" /\ f.value # NoProject
ArmFrame(f)  == f.key = "armed" /\ f.value = "yes"

\* A load that the cache still holds pending, or will, is the engine's show.
Announced == engine.load # NoProject /\ (engine.rearm = "load" \/ freshShow \/ dumped)

PendingIsShow ==
  /\ (cache.pendingLoadArm \/ cache.freshArm) /\ Quiet(feed, 0) => Announced
  /\ \A i \in DOMAIN feed : LoadFrame(feed[i]) /\ Quiet(feed, i) => Announced

\* An arm that the cache takes for fresh, or will, is the show's, not yet played.
Ready ==
  /\ engine.running = "no" /\ engine.load # NoProject /\ engine.armed = "yes"
  /\ freshShow \/ dumped

FreshIsReady ==
  /\ cache.freshArm /\ Quiet(feed, 0) => Ready
  /\ \A j \in DOMAIN feed :
       cache.pendingLoadArm /\ ArmFrame(feed[j]) /\ Quiet(feed, 0) => Ready
  /\ \A i, j \in DOMAIN feed :
       i < j /\ LoadFrame(feed[i]) /\ ArmFrame(feed[j]) /\ Quiet(feed, i) => Ready

\* Frames t that the engine sends on a live connection, changing as they tell:
\* a load frame announces the new show, an arm frame makes the announced one
\* ready, and whatever else is sent spoils both or leaves them.
News(t) ==
  /\ t \in Seq(Frame) /\ feed' = feed \o t /\ cache' = cache
  /\ Tells(t, "running", engine.running, engine'.running)
  /\ Tells(t, "armed", engine.armed, engine'.armed)
  /\ Tells(t, "load", engine.load, engine'.load)
  /\ idleSeen => idleSeen'
  /\ \A i \in DOMAIN t : IdleFrame(t[i]) => idleSeen'
  /\ \A i \in DOMAIN t : LoadFrame(t[i]) => Announced'
  /\ \A i \in DOMAIN t : ArmFrame(t[i]) => (Announced => Ready')
  /\ \A i, j \in DOMAIN t : ~(LoadFrame(t[i]) /\ ArmFrame(t[j]))
  /\ \/ \E j \in DOMAIN t : Spoils(t[j])
     \/ (Announced => Announced') /\ (Ready => Ready')

LinkIInv ==
  /\ TypeOK /\ DownIsCold /\ FeedCoherent /\ IdleIsNews /\ ArmingIsIdle
  /\ PendingIsShow /\ FreshIsReady

\* Only a call that was made has commands on the wire.
WireIsCalled == \A i \in DOMAIN wire : call[wire[i].by].at # "none"

\* The cue of call r is with the engine, or ahead of position i on the wire.
CueAhead(r, i) ==
  r \in chosen \/ \E j \in DOMAIN wire : j < i /\ wire[j].cmd = "set" /\ wire[j].by = r

CueSentFirst ==
  /\ \A r \in Calls : call[r].at = "setting" => CueAhead(r, Len(wire) + 1)
  /\ \A i \in DOMAIN wire :
       wire[i].cmd = "go" /\ call[wire[i].by].kind = "gocue" => CueAhead(wire[i].by, i)

IInv == LinkIInv /\ CommandsTypeOK /\ WireIsCalled /\ CueSentFirst

-----------------------------------------------------------------------------

\* The frames behind the head keep their order, one place further up.
LEMMA TailView ==
  ASSUME NEW S, NEW s \in Seq(S), s # <<>>
  PROVE  /\ Tail(s) \in Seq(S) /\ Head(s) = s[1] /\ 1 \in DOMAIN s
         /\ \A i \in DOMAIN Tail(s) : i \in Nat \ {0} /\ i + 1 \in DOMAIN s /\ Tail(s)[i] = s[i + 1]
         /\ \A i \in DOMAIN s : i \in Nat \ {0} /\ (i # 1 => i - 1 \in DOMAIN Tail(s))
BY SMT

\* Frames sent wait behind those that wait already.
LEMMA ConcatView ==
  ASSUME NEW S, NEW s \in Seq(S), NEW t \in Seq(S)
  PROVE  /\ s \o t \in Seq(S) /\ Len(s) \in Nat
         /\ \A i \in DOMAIN s : i \in 1..Len(s) /\ i \in DOMAIN (s \o t) /\ (s \o t)[i] = s[i]
         /\ \A i \in DOMAIN t : i + Len(s) \in DOMAIN (s \o t) /\ (s \o t)[i + Len(s)] = t[i]
         /\ \A i \in DOMAIN (s \o t) :
              /\ i \in Nat \ {0}
              /\ i \notin DOMAIN s =>
                   i > Len(s) /\ i - Len(s) \in DOMAIN t /\ (s \o t)[i] = t[i - Len(s)]
<1>1. /\ Len(s \o t) = Len(s) + Len(t) /\ s \o t \in Seq(S)
      /\ \A i \in 1..Len(s) + Len(t) :
           (s \o t)[i] = IF i <= Len(s) THEN s[i] ELSE t[i - Len(s)]
  BY ConcatProperties
<1>2. /\ DOMAIN s = 1..Len(s) /\ DOMAIN t = 1..Len(t) /\ DOMAIN (s \o t) = 1..Len(s) + Len(t)
      /\ Len(s) \in Nat /\ Len(t) \in Nat
  BY <1>1
<1> QED
  BY <1>1, <1>2

\* Reading the head leaves the rest to tell the same.
LEMMA TellsLess ==
  ASSUME NEW s \in Seq(Frame), s # <<>>, NEW k, NEW seen, NEW now, Tells(s, k, seen, now)
  PROVE  Tells(Tail(s), k, IF Head(s).key = k THEN Head(s).value ELSE seen, now)
<1> DEFINE t == Tail(s)
<1>0. /\ Head(s) = s[1] /\ 1 \in DOMAIN s
      /\ \A i \in DOMAIN t : i \in Nat \ {0} /\ i + 1 \in DOMAIN s /\ t[i] = s[i + 1]
      /\ \A i \in DOMAIN s : i \in Nat \ {0} /\ (i # 1 => i - 1 \in DOMAIN t)
  BY TailView
<1>1. ASSUME \A i \in DOMAIN t : t[i].key # k
      PROVE  now = IF Head(s).key = k THEN Head(s).value ELSE seen
  <2>1. \A j \in DOMAIN s : j > 1 => s[j].key # k
    <3> SUFFICES ASSUME NEW j \in DOMAIN s, j > 1 PROVE s[j].key # k
      OBVIOUS
    <3>1. j - 1 \in DOMAIN t /\ s[(j - 1) + 1] = t[j - 1] /\ (j - 1) + 1 = j
      BY <1>0
    <3> QED
      BY <1>1, <3>1
  <2>2. CASE s[1].key = k
    BY <1>0, <2>1, <2>2 DEF Tells
  <2>3. CASE s[1].key # k
    <3>1. \A i \in DOMAIN s : s[i].key # k
      BY <1>0, <2>1, <2>3
    <3> QED
      BY <1>0, <2>3, <3>1 DEF Tells
  <2> QED
    BY <2>2, <2>3
<1>2. ASSUME NEW i \in DOMAIN t, t[i].key = k, \A j \in DOMAIN t : j > i => t[j].key # k
      PROVE  t[i].value = now
  <2>1. i \in Nat \ {0} /\ i + 1 \in DOMAIN s /\ t[i] = s[i + 1]
    BY <1>0
  <2>2. ASSUME NEW j \in DOMAIN s, j > i + 1 PROVE s[j].key # k
    <3>1. j - 1 \in DOMAIN t /\ s[(j - 1) + 1] = t[j - 1] /\ (j - 1) + 1 = j /\ j - 1 > i
      BY <1>0, <2>1, <2>2
    <3> QED
      BY <1>2, <3>1
  <2> QED
    BY <1>2, <2>1, <2>2 DEF Tells
<1> QED
  BY <1>1, <1>2 DEF Tells

\* Frames sent behind s tell the new value, or leave the old one told.
LEMMA TellsMore ==
  ASSUME NEW s \in Seq(Frame), NEW t \in Seq(Frame), NEW k, NEW seen, NEW old, NEW now,
         Tells(s, k, seen, old), Tells(t, k, old, now)
  PROVE  Tells(s \o t, k, seen, now)
<1> DEFINE st == s \o t
<1>0. /\ Len(s) \in Nat
      /\ \A i \in DOMAIN s : i \in 1..Len(s) /\ i \in DOMAIN st /\ st[i] = s[i]
      /\ \A i \in DOMAIN t : i + Len(s) \in DOMAIN st /\ st[i + Len(s)] = t[i]
      /\ \A i \in DOMAIN st :
           i \in Nat \ {0} /\ (i \notin DOMAIN s => i > Len(s) /\ i - Len(s) \in DOMAIN t)
  BY ConcatView
<1>1. ASSUME \A i \in DOMAIN st : st[i].key # k PROVE seen = now
  <2>1. \A i \in DOMAIN s : s[i].key # k
    BY <1>0, <1>1
  <2>2. \A i \in DOMAIN t : t[i].key # k
    BY <1>0, <1>1
  <2> QED
    BY <2>1, <2>2 DEF Tells
<1>2. ASSUME NEW i \in DOMAIN st, st[i].key = k, \A j \in DOMAIN st : j > i => st[j].key # k
      PROVE  st[i].value = now
  <2>1. CASE i \in DOMAIN s
    <3>1. \A j \in DOMAIN t : t[j].key # k
      <4> SUFFICES ASSUME NEW j \in DOMAIN t PROVE t[j].key # k
        OBVIOUS
      <4>1. j \in Nat \ {0} /\ j + Len(s) \in DOMAIN st /\ st[j + Len(s)] = t[j] /\ i <= Len(s)
        BY <1>0, <2>1
      <4> QED
        BY <1>2, <1>0, <4>1
    <3>2. s[i].key = k /\ \A j \in DOMAIN s : j > i => s[j].key # k
      BY <1>0, <1>2, <2>1
    <3> QED
      BY <1>0, <2>1, <3>1, <3>2 DEF Tells
  <2>2. CASE i \notin DOMAIN s
    <3>1. i - Len(s) \in DOMAIN t /\ st[(i - Len(s)) + Len(s)] = t[i - Len(s)]
          /\ (i - Len(s)) + Len(s) = i
      BY <1>0, <2>2
    <3>2. ASSUME NEW j \in DOMAIN t, j > i - Len(s) PROVE t[j].key # k
      <4>1. j \in Nat /\ j + Len(s) \in DOMAIN st /\ st[j + Len(s)] = t[j] /\ j + Len(s) > i
        BY <1>0, <2>2, <3>2
      <4> QED
        BY <1>2, <4>1
    <3> QED
      BY <1>2, <3>1, <3>2 DEF Tells
  <2> QED
    BY <2>1, <2>2
<1> QED
  BY <1>1, <1>2 DEF Tells

-----------------------------------------------------------------------------

\* What one frame does to the cache, key by key.
LEMMA ApplyView ==
  ASSUME NEW c \in Cache, NEW f \in Frame, NEW d, d = ApplyStatus(c, f)
  PROVE  /\ d \in Cache /\ d.connected = c.connected
         /\ d.running = IF f.key = "running" THEN f.value ELSE c.running
         /\ d.armed = IF f.key = "armed" THEN f.value ELSE c.armed
         /\ d.load = IF f.key = "load" THEN f.value ELSE c.load
         /\ d.freshArm => (c.freshArm /\ ~Spoils(f)) \/ (c.pendingLoadArm /\ ArmFrame(f))
         /\ d.pendingLoadArm => LoadFrame(f) \/ (c.pendingLoadArm /\ ~Spoils(f))
<1> USE DEF Cache, Frame, Loads, Spoils, ArmFrame, LoadFrame
<1>1. CASE f.key = "load"
  <2>1. d = ApplyLoad(c, f.value) /\ f.value \in Loads
    BY <1>1 DEF ApplyStatus
  <2> QED
    BY <1>1, <2>1 DEF ApplyLoad
<1>2. CASE f.key = "armed"
  <2>1. d = ApplyArmed(c, f.value) /\ f.value \in {"no", "yes"}
    BY <1>2 DEF ApplyStatus
  <2> QED
    BY <1>2, <2>1 DEF ApplyArmed
<1>3. CASE f.key = "running"
  <2>1. d = ApplyRunning(c, f.value) /\ f.value \in {"no", "yes"}
    BY <1>3 DEF ApplyStatus
  <2> QED
    BY <1>3, <2>1 DEF ApplyRunning
<1>4. CASE f.key = "cluster_warning"
  <2>1. d = [c EXCEPT !.warning = f.value] /\ f.value \in {"clean", "unreachable"}
    BY <1>4 DEF ApplyStatus
  <2> QED
    BY <1>4, <2>1
<1> QED
  BY <1>1, <1>2, <1>3, <1>4

\* A cold cache is a cache, with nothing known, pending or fresh.
LEMMA ColdIsCache ==
  /\ ColdCache \in Cache /\ ~ColdCache.connected /\ ~ColdCache.freshArm
  /\ ~ColdCache.pendingLoadArm /\ ColdCache.running = Unknown
BY DEF ColdCache, Cache

\* An empty socket is a socket.
LEMMA EmptyFeed == <<>> \in Seq(Frame) /\ Len(<<>>) = 0 /\ Len(<<>>) <= MaxFeed
BY MaxFeedAssumption

\* What a broadcast puts on a live connection, and that it fits.
LEMMA BroadcastView ==
  ASSUME TypeOK, NEW fs \in Seq(Frame), Broadcast(fs)
  PROVE  /\ feed' \in Seq(Frame) /\ Len(feed') <= MaxFeed
         /\ cache.connected => feed' = feed \o fs
         /\ ~cache.connected => feed' = feed
<1>1. Len(feed \o fs) = Len(feed) + Len(fs) /\ feed \o fs \in Seq(Frame)
  BY ConcatProperties DEF TypeOK
<1> QED
  BY <1>1 DEF Broadcast, TypeOK

\* The frames of each event are frames, and what they tell.
LEMMA LoadNews ==
  ASSUME NEW p \in Loads, NEW a, NEW l
  PROVE  /\ \A w \in {"clean", "unreachable"} :
              LET fs == <<Fr("armed", "no"), Fr("load", p), Fr("cluster_warning", w)>> IN
              /\ fs \in Seq(Frame) /\ Tells(fs, "armed", a, "no") /\ Tells(fs, "load", l, p)
              /\ \A r : Tells(fs, "running", r, r)
              /\ 2 \in DOMAIN fs /\ Spoils(fs[2])
              /\ \A i \in DOMAIN fs : ~ArmFrame(fs[i]) /\ ~IdleFrame(fs[i])
              /\ \A i \in DOMAIN fs : LoadFrame(fs[i]) => p # NoProject
         /\ LET fs == <<Fr("armed", "no"), Fr("load", p)>> IN
              /\ fs \in Seq(Frame) /\ Tells(fs, "armed", a, "no") /\ Tells(fs, "load", l, p)
              /\ \A r : Tells(fs, "running", r, r)
              /\ 2 \in DOMAIN fs /\ Spoils(fs[2])
              /\ \A i \in DOMAIN fs : ~ArmFrame(fs[i]) /\ ~IdleFrame(fs[i])
              /\ \A i \in DOMAIN fs : LoadFrame(fs[i]) => p # NoProject
<1> USE DEF Fr, Frame, Tells, Spoils, ArmFrame, LoadFrame, IdleFrame
<1>1. ASSUME NEW w \in {"clean", "unreachable"}
      PROVE  LET fs == <<Fr("armed", "no"), Fr("load", p), Fr("cluster_warning", w)>> IN
              /\ fs \in Seq(Frame) /\ Tells(fs, "armed", a, "no") /\ Tells(fs, "load", l, p)
              /\ \A r : Tells(fs, "running", r, r)
              /\ 2 \in DOMAIN fs /\ Spoils(fs[2])
              /\ \A i \in DOMAIN fs : ~ArmFrame(fs[i]) /\ ~IdleFrame(fs[i])
              /\ \A i \in DOMAIN fs : LoadFrame(fs[i]) => p # NoProject
  BY <1>1
<1>2. LET fs == <<Fr("armed", "no"), Fr("load", p)>> IN
              /\ fs \in Seq(Frame) /\ Tells(fs, "armed", a, "no") /\ Tells(fs, "load", l, p)
              /\ \A r : Tells(fs, "running", r, r)
              /\ 2 \in DOMAIN fs /\ Spoils(fs[2])
              /\ \A i \in DOMAIN fs : ~ArmFrame(fs[i]) /\ ~IdleFrame(fs[i])
              /\ \A i \in DOMAIN fs : LoadFrame(fs[i]) => p # NoProject
  OBVIOUS
<1> QED
  BY <1>1, <1>2

LEMMA ArmNews ==
  ASSUME NEW a
  PROVE  LET fs == <<Fr("armed", "yes")>> IN
         /\ fs \in Seq(Frame) /\ Tells(fs, "armed", a, "yes")
         /\ \A v : Tells(fs, "running", v, v) /\ Tells(fs, "load", v, v)
         /\ \A i \in DOMAIN fs : ~LoadFrame(fs[i]) /\ ~IdleFrame(fs[i])
BY DEF Fr, Frame, Tells, LoadFrame, IdleFrame

LEMMA GoNews ==
  ASSUME NEW r
  PROVE  LET fs == <<Fr("running", "yes")>> IN
         /\ fs \in Seq(Frame) /\ Tells(fs, "running", r, "yes")
         /\ \A v : Tells(fs, "armed", v, v) /\ Tells(fs, "load", v, v)
         /\ 1 \in DOMAIN fs /\ Spoils(fs[1])
         /\ \A i \in DOMAIN fs : ~LoadFrame(fs[i]) /\ ~ArmFrame(fs[i]) /\ ~IdleFrame(fs[i])
BY DEF Fr, Frame, Tells, LoadFrame, ArmFrame, IdleFrame, Spoils

LEMMA HaltNews ==
  ASSUME NEW r, NEW a
  PROVE  LET fs == <<Fr("running", "no"), Fr("armed", "no")>> IN
         /\ fs \in Seq(Frame) /\ Tells(fs, "running", r, "no") /\ Tells(fs, "armed", a, "no")
         /\ \A v : Tells(fs, "load", v, v)
         /\ \A i \in DOMAIN fs : ~LoadFrame(fs[i]) /\ ~ArmFrame(fs[i])
BY DEF Fr, Frame, Tells, LoadFrame, ArmFrame

LEMMA DumpNews ==
  ASSUME NEW e \in Show, NEW v
  PROVE  LET fs == <<Fr("running", e.running), Fr("armed", e.armed), Fr("load", e.load)>> IN
         /\ fs \in Seq(Frame) /\ Len(fs) = 3 /\ DOMAIN fs = 1..3
         /\ Tells(fs, "running", v, e.running) /\ Tells(fs, "armed", v, e.armed)
         /\ Tells(fs, "load", v, e.load)
         /\ \A i \in DOMAIN fs : LoadFrame(fs[i]) => i = 3 /\ e.load # NoProject
         /\ \A i \in DOMAIN fs : IdleFrame(fs[i]) => e.running = "no"
BY DEF Fr, Frame, Show, Tells, LoadFrame, IdleFrame

-----------------------------------------------------------------------------

\* What is quiet behind a place stays so when nothing, or less, is behind it.
LEMMA QuietConcat ==
  ASSUME NEW s \in Seq(Frame), NEW t \in Seq(Frame), NEW i \in Nat, Quiet(s \o t, i)
  PROVE  /\ Quiet(s, i)
         /\ i <= Len(s) => \A j \in DOMAIN t : ~Spoils(t[j])
<1>1. ASSUME NEW j \in DOMAIN s, j > i PROVE ~Spoils(s[j])
  BY <1>1, ConcatView DEF Quiet
<1>2. ASSUME i <= Len(s), NEW j \in DOMAIN t PROVE ~Spoils(t[j])
  <2>1. j + Len(s) \in DOMAIN (s \o t) /\ (s \o t)[j + Len(s)] = t[j] /\ j + Len(s) > i
    BY <1>2, ConcatView
  <2> QED
    BY <1>2, <2>1 DEF Quiet
<1> QED
  BY <1>1, <1>2 DEF Quiet

LEMMA QuietTail ==
  ASSUME NEW s \in Seq(Frame), s # <<>>, NEW i \in Nat, Quiet(Tail(s), i)
  PROVE  Quiet(s, i + 1)
<1> SUFFICES ASSUME NEW j \in DOMAIN s, j > i + 1 PROVE ~Spoils(s[j])
  BY DEF Quiet
<1>1. j - 1 \in DOMAIN Tail(s) /\ Tail(s)[j - 1] = s[(j - 1) + 1] /\ (j - 1) + 1 = j /\ j - 1 > i
  BY TailView
<1> QED
  BY <1>1 DEF Quiet

\* News of a load is of the engine's show; other news either spoils what was
\* pending or leaves it announced.
LEMMA NewsPending ==
  ASSUME TypeOK, PendingIsShow, NEW t, News(t)
  PROVE  PendingIsShow'
<1>0. /\ feed \in Seq(Frame) /\ t \in Seq(Frame) /\ Len(feed) \in Nat
      /\ feed' = feed \o t /\ cache' = cache
      /\ \A i \in DOMAIN t : LoadFrame(t[i]) => Announced'
      /\ (\E j \in DOMAIN t : Spoils(t[j])) \/ (Announced => Announced')
  BY DEF TypeOK, News
<1>1. ASSUME NEW i \in Nat, Quiet(feed \o t, i), i = 0 \/ i \in DOMAIN feed
      PROVE  Quiet(feed, i) /\ (Announced => Announced')
  <2>1. i <= Len(feed)
    BY <1>0, <1>1
  <2> QED
    BY <1>0, <1>1, <2>1, QuietConcat
<1>2. ASSUME cache'.pendingLoadArm \/ cache'.freshArm, Quiet(feed', 0) PROVE Announced'
  BY <1>0, <1>1, <1>2 DEF PendingIsShow
<1>3. ASSUME NEW i \in DOMAIN feed', LoadFrame(feed'[i]), Quiet(feed', i) PROVE Announced'
  <2>1. CASE i \in DOMAIN feed
    BY <1>0, <1>1, <1>3, <2>1, ConcatView DEF PendingIsShow
  <2>2. CASE i \notin DOMAIN feed
    <3>1. i - Len(feed) \in DOMAIN t /\ feed'[i] = t[i - Len(feed)]
      BY <1>0, <2>2, ConcatView
    <3> QED
      BY <1>0, <1>3, <3>1
  <2> QED
    BY <2>1, <2>2
<1> QED
  BY <1>2, <1>3 DEF PendingIsShow

\* News of an arm makes what was announced ready; other news either spoils what
\* was fresh or leaves it ready.
LEMMA NewsFresh ==
  ASSUME TypeOK, PendingIsShow, FreshIsReady, NEW t, News(t)
  PROVE  FreshIsReady'
<1>0. /\ feed \in Seq(Frame) /\ t \in Seq(Frame) /\ Len(feed) \in Nat
      /\ feed' = feed \o t /\ cache' = cache
      /\ \A i \in DOMAIN t : ArmFrame(t[i]) => (Announced => Ready')
      /\ \A i, j \in DOMAIN t : ~(LoadFrame(t[i]) /\ ArmFrame(t[j]))
      /\ (\E j \in DOMAIN t : Spoils(t[j])) \/ (Ready => Ready')
  BY DEF TypeOK, News
<1>1. ASSUME NEW i \in Nat, Quiet(feed \o t, i), i = 0 \/ i \in DOMAIN feed
      PROVE  Quiet(feed, i) /\ (Ready => Ready')
  <2>1. i <= Len(feed)
    BY <1>0, <1>1
  <2> QED
    BY <1>0, <1>1, <2>1, QuietConcat
<1>2. ASSUME NEW j \in DOMAIN feed', j \notin DOMAIN feed
      PROVE  j - Len(feed) \in DOMAIN t /\ feed'[j] = t[j - Len(feed)] /\ j > Len(feed)
  BY <1>0, <1>2, ConcatView
<1>3. ASSUME cache'.freshArm, Quiet(feed', 0) PROVE Ready'
  BY <1>0, <1>1, <1>3 DEF FreshIsReady
<1>4. ASSUME NEW j \in DOMAIN feed', cache'.pendingLoadArm, ArmFrame(feed'[j]), Quiet(feed', 0)
      PROVE  Ready'
  <2>1. CASE j \in DOMAIN feed
    BY <1>0, <1>1, <1>4, <2>1, ConcatView DEF FreshIsReady
  <2>2. CASE j \notin DOMAIN feed
    BY <1>0, <1>1, <1>2, <1>4, <2>2 DEF PendingIsShow
  <2> QED
    BY <2>1, <2>2
<1>5. ASSUME NEW i \in DOMAIN feed', NEW j \in DOMAIN feed', i < j, LoadFrame(feed'[i]),
             ArmFrame(feed'[j]), Quiet(feed', i)
      PROVE  Ready'
  <2>1. CASE i \in DOMAIN feed
    <3>1. i \in Nat /\ feed'[i] = feed[i] /\ Quiet(feed, i) /\ (Ready => Ready')
      BY <1>0, <1>1, <1>5, <2>1, ConcatView
    <3>2. CASE j \in DOMAIN feed
      BY <1>0, <1>5, <2>1, <3>1, <3>2, ConcatView DEF FreshIsReady
    <3>3. CASE j \notin DOMAIN feed
      BY <1>0, <1>2, <1>5, <2>1, <3>1, <3>3 DEF PendingIsShow
    <3> QED
      BY <3>2, <3>3
  <2>2. CASE i \notin DOMAIN feed
    <3>1. j \notin DOMAIN feed
      BY <1>0, <1>2, <1>5, <2>2
    <3> QED
      BY <1>0, <1>2, <1>5, <2>2, <3>1
  <2> QED
    BY <2>1, <2>2
<1> QED
  BY <1>3, <1>4, <1>5 DEF FreshIsReady

-----------------------------------------------------------------------------

\* Before the first connect nothing is known, and nothing waits.
LEMMA LinkInit == Init => LinkIInv
<1> SUFFICES ASSUME Init PROVE LinkIInv
  OBVIOUS
<1>1. TypeOK
  <2>1. cache \in Cache /\ feed \in Seq(Frame) /\ Len(feed) <= MaxFeed
    BY ColdIsCache, EmptyFeed DEF Init
  <2>2. engine \in Show
    BY DEF Init, Show, Loads
  <2> QED
    BY <2>1, <2>2 DEF Init, TypeOK
<1>2. FeedCoherent /\ DownIsCold
  BY ColdIsCache DEF Init, FeedCoherent, DownIsCold
<1>3. IdleIsNews /\ ArmingIsIdle
  BY DEF Init, IdleIsNews, ArmingIsIdle, ColdCache, Unknown
<1>4. PendingIsShow /\ FreshIsReady
  BY ColdIsCache DEF Init, PendingIsShow, FreshIsReady
<1> QED
  BY <1>1, <1>2, <1>3, <1>4 DEF LinkIInv

\* Every step of engine, client and socket keeps the types.
LEMMA LinkTypeStep == LinkIInv /\ [Next]_vars => TypeOK'
<1> SUFFICES ASSUME LinkIInv, [Next]_vars PROVE TypeOK'
  OBVIOUS
<1>0. TypeOK
  BY DEF LinkIInv
<1>1. ASSUME NEW p \in Project, Load(p) PROVE TypeOK'
  <2>1. PICK w \in {"clean", "unreachable"} :
          Broadcast(<<Fr("armed", "no"), Fr("load", p), Fr("cluster_warning", w)>>)
    BY <1>1 DEF Load
  <2>2. feed' \in Seq(Frame) /\ Len(feed') <= MaxFeed
    BY <1>0, <2>1, LoadNews, BroadcastView DEF Loads
  <2> QED
    BY <1>0, <1>1, <2>2 DEF Load, TypeOK, Show, Loads
<1>2. CASE Unload
  <2>1. feed' \in Seq(Frame) /\ Len(feed') <= MaxFeed
    BY <1>0, <1>2, LoadNews, BroadcastView DEF Loads, Unload
  <2> QED
    BY <1>0, <1>2, <2>1 DEF Unload, TypeOK, Show, Loads
<1>3. CASE Arm
  <2>1. feed' \in Seq(Frame) /\ Len(feed') <= MaxFeed
    BY <1>0, <1>3, ArmNews, BroadcastView DEF Arm
  <2> QED
    BY <1>0, <1>3, <2>1 DEF Arm, TypeOK, Show
<1>4. CASE Go
  <2>1. feed' \in Seq(Frame) /\ Len(feed') <= MaxFeed
    BY <1>0, <1>4, GoNews, BroadcastView DEF Go
  <2> QED
    BY <1>0, <1>4, <2>1 DEF Go, TypeOK, Show
<1>5. CASE Halt
  <2>1. feed' \in Seq(Frame) /\ Len(feed') <= MaxFeed
    BY <1>0, <1>5, HaltNews, BroadcastView DEF Halt
  <2> QED
    BY <1>0, <1>5, <2>1 DEF Halt, TypeOK, Show, Cache
<1>6. CASE Connect
  <2>1. feed' \in Seq(Frame) /\ Len(feed') <= MaxFeed
    BY <1>0, <1>6, DumpNews, MaxFeedAssumption DEF Connect, TypeOK
  <2>2. cache' \in Cache
    BY <1>0, <1>6 DEF Connect, Connected, TypeOK, Cache
  <2> QED
    BY <1>0, <1>6, <2>1, <2>2 DEF Connect, TypeOK, LoadedBefore
<1>7. CASE Disconnect
  BY <1>0, <1>7, ColdIsCache, EmptyFeed DEF Disconnect, TypeOK
<1>8. CASE Consume
  <2>1. Head(feed) \in Frame /\ Tail(feed) \in Seq(Frame) /\ Len(Tail(feed)) <= MaxFeed
    BY <1>0, <1>8, MaxFeedAssumption DEF Consume, TypeOK
  <2>2. cache' \in Cache
    BY <1>0, <1>8, <2>1, ApplyView DEF Consume, TypeOK
  <2> QED
    BY <1>0, <1>8, <2>1, <2>2 DEF Consume, TypeOK
<1>9. CASE UNCHANGED vars
  BY <1>0, <1>9 DEF vars, TypeOK
<1> QED
  BY <1>1, <1>2, <1>3, <1>4, <1>5, <1>6, <1>7, <1>8, <1>9 DEF Next

\* A drop forgets everything, and nothing is sent to a client that is down.
LEMMA DownStep == LinkIInv /\ [Next]_vars => DownIsCold'
<1> SUFFICES ASSUME LinkIInv, [Next]_vars PROVE DownIsCold'
  OBVIOUS
<1>0. TypeOK /\ DownIsCold
  BY DEF LinkIInv
<1>1. ASSUME cache' = cache, ~cache.connected => feed' = feed PROVE DownIsCold'
  <2>1. ~cache'.connected => cache' = ColdCache /\ feed' = <<>>
    BY <1>0, <1>1 DEF DownIsCold
  <2> QED
    BY <2>1 DEF DownIsCold, ColdCache
<1>2. ASSUME NEW p \in Project, Load(p) PROVE DownIsCold'
  BY <1>1, <1>2 DEF Load, Broadcast
<1>3. CASE Unload \/ Arm \/ Go \/ Halt \/ UNCHANGED vars
  BY <1>1, <1>3 DEF Unload, Arm, Go, Halt, Broadcast, vars
<1>4. CASE Connect
  BY <1>0, <1>4 DEF Connect, Connected, DownIsCold, TypeOK, Cache
<1>5. CASE Disconnect
  BY <1>5 DEF Disconnect, DownIsCold
<1>6. CASE Consume
  <2>1. cache'.connected
    BY <1>0, <1>6, ApplyView DEF Consume, TypeOK
  <2> QED
    BY <2>1 DEF DownIsCold
<1> QED
  BY <1>2, <1>3, <1>4, <1>5, <1>6 DEF Next

\* Every engine step seen by a live connection is news.
LEMMA EngineSpeaks ==
  ASSUME LinkIInv, cache.connected,
         (\E p \in Project : Load(p)) \/ Unload \/ Arm \/ Go \/ Halt
  PROVE  \E t : News(t)
<1>0. TypeOK /\ ArmingIsIdle /\ engine \in Show
  BY DEF LinkIInv, TypeOK
<1>1. ASSUME NEW p \in Project, Load(p) PROVE \E t : News(t)
  <2>1. PICK w \in {"clean", "unreachable"} :
          Broadcast(<<Fr("armed", "no"), Fr("load", p), Fr("cluster_warning", w)>>)
    BY <1>1 DEF Load
  <2> DEFINE fs == <<Fr("armed", "no"), Fr("load", p), Fr("cluster_warning", w)>>
  <2>2. /\ fs \in Seq(Frame) /\ Tells(fs, "armed", engine.armed, "no")
        /\ Tells(fs, "load", engine.load, p) /\ Tells(fs, "running", engine.running, engine.running)
        /\ 2 \in DOMAIN fs /\ Spoils(fs[2])
        /\ \A i \in DOMAIN fs : ~ArmFrame(fs[i]) /\ ~IdleFrame(fs[i])
    BY LoadNews DEF Loads
  <2>3. feed' = feed \o fs
    BY <2>1 DEF Broadcast
  <2>4. /\ cache' = cache /\ idleSeen' = idleSeen
        /\ engine'.running = engine.running /\ engine'.armed = "no" /\ engine'.load = p
    BY <1>0, <1>1 DEF Load, Show
  <2>5. Announced'
    BY <1>0, <1>1, ProjectAssumption DEF Load, Show, Announced
  <2> HIDE DEF fs
  <2>6. News(fs)
    BY <2>2, <2>3, <2>4, <2>5 DEF News
  <2> QED
    BY <2>6
<1>2. CASE Unload
  <2> DEFINE fs == <<Fr("armed", "no"), Fr("load", NoProject)>>
  <2>2. /\ fs \in Seq(Frame) /\ Tells(fs, "armed", engine.armed, "no")
        /\ Tells(fs, "load", engine.load, NoProject)
        /\ Tells(fs, "running", engine.running, engine.running)
        /\ 2 \in DOMAIN fs /\ Spoils(fs[2])
        /\ \A i \in DOMAIN fs : ~ArmFrame(fs[i]) /\ ~IdleFrame(fs[i]) /\ ~LoadFrame(fs[i])
    BY LoadNews DEF Loads
  <2>3. feed' = feed \o fs
    BY <1>2 DEF Unload, Broadcast
  <2>4. /\ cache' = cache /\ idleSeen' = idleSeen
        /\ engine'.running = engine.running /\ engine'.armed = "no" /\ engine'.load = NoProject
    BY <1>0, <1>2 DEF Unload, Show
  <2> HIDE DEF fs
  <2>5. News(fs)
    BY <2>2, <2>3, <2>4 DEF News
  <2> QED
    BY <2>5
<1>3. CASE Arm
  <2> DEFINE fs == <<Fr("armed", "yes")>>
  <2>2. /\ fs \in Seq(Frame) /\ Tells(fs, "armed", engine.armed, "yes")
        /\ Tells(fs, "load", engine.load, engine.load)
        /\ Tells(fs, "running", engine.running, engine.running)
        /\ \A i \in DOMAIN fs : ~LoadFrame(fs[i]) /\ ~IdleFrame(fs[i])
    BY ArmNews
  <2>3. feed' = feed \o fs
    BY <1>3 DEF Arm, Broadcast
  <2>4. /\ cache' = cache /\ idleSeen' = idleSeen
        /\ engine'.running = engine.running /\ engine'.armed = "yes" /\ engine'.load = engine.load
    BY <1>0, <1>3 DEF Arm, Show
  <2>5. ~Ready /\ (Announced => Announced' /\ Ready')
    BY <1>0, <1>3 DEF Arm, Show, ArmingIsIdle, Announced, Ready
  <2> HIDE DEF fs
  <2>6. News(fs)
    BY <2>2, <2>3, <2>4, <2>5 DEF News
  <2> QED
    BY <2>6
<1>4. CASE Go
  <2> DEFINE fs == <<Fr("running", "yes")>>
  <2>2. /\ fs \in Seq(Frame) /\ Tells(fs, "running", engine.running, "yes")
        /\ Tells(fs, "load", engine.load, engine.load)
        /\ Tells(fs, "armed", engine.armed, engine.armed)
        /\ 1 \in DOMAIN fs /\ Spoils(fs[1])
        /\ \A i \in DOMAIN fs : ~LoadFrame(fs[i]) /\ ~ArmFrame(fs[i]) /\ ~IdleFrame(fs[i])
    BY GoNews
  <2>3. feed' = feed \o fs
    BY <1>4 DEF Go, Broadcast
  <2>4. /\ cache' = cache /\ idleSeen' = idleSeen
        /\ engine'.running = "yes" /\ engine'.armed = engine.armed /\ engine'.load = engine.load
    BY <1>0, <1>4 DEF Go, Show
  <2> HIDE DEF fs
  <2>5. News(fs)
    BY <2>2, <2>3, <2>4 DEF News
  <2> QED
    BY <2>5
<1>5. CASE Halt
  <2> DEFINE fs == <<Fr("running", "no"), Fr("armed", "no")>>
  <2>2. /\ fs \in Seq(Frame) /\ Tells(fs, "running", engine.running, "no")
        /\ Tells(fs, "armed", engine.armed, "no") /\ Tells(fs, "load", engine.load, engine.load)
        /\ \A i \in DOMAIN fs : ~LoadFrame(fs[i]) /\ ~ArmFrame(fs[i])
    BY HaltNews
  <2>3. feed' = feed \o fs
    BY <1>5 DEF Halt, Broadcast
  <2>4. /\ cache' = cache /\ idleSeen'
        /\ engine'.running = "no" /\ engine'.armed = "no" /\ engine'.load = engine.load
    BY <1>0, <1>5 DEF Halt, Show
  <2>5. ~Ready /\ (Announced => Announced')
    BY <1>0, <1>5 DEF Halt, Show, ArmingIsIdle, Announced, Ready
  <2> HIDE DEF fs
  <2>6. News(fs)
    BY <2>2, <2>3, <2>4, <2>5 DEF News
  <2> QED
    BY <2>6
<1> QED
  BY <1>1, <1>2, <1>3, <1>4, <1>5

\* What a cold client knows holds whatever the engine does.
LEMMA ColdHolds ==
  ASSUME cache' = ColdCache, feed' = <<>>
  PROVE  FeedCoherent' /\ IdleIsNews' /\ PendingIsShow' /\ FreshIsReady'
<1>1. ~cache'.connected /\ ~cache'.freshArm /\ ~cache'.pendingLoadArm /\ cache'.running # "no"
  BY ColdIsCache DEF Unknown
<1>2. DOMAIN feed' = {}
  OBVIOUS
<1> QED
  BY <1>1, <1>2 DEF FeedCoherent, IdleIsNews, PendingIsShow, FreshIsReady

\* A step of the engine, told to a live connection or missed by a cold one.
LEMMA EngineStep ==
  ASSUME LinkIInv, (\E p \in Project : Load(p)) \/ Unload \/ Arm \/ Go \/ Halt
  PROVE  FeedCoherent' /\ IdleIsNews' /\ PendingIsShow' /\ FreshIsReady'
<1>1. CASE ~cache.connected
  <2>1. cache' = ColdCache /\ feed' = <<>>
    BY <1>1 DEF LinkIInv, DownIsCold, Load, Unload, Arm, Go, Halt, Broadcast
  <2> QED
    BY <2>1, ColdHolds
<1>2. CASE cache.connected
  <2>1. PICK t : News(t)
    BY <1>2, EngineSpeaks
  <2>2. FeedCoherent'
    <3>1. /\ Tells(feed', "running", cache'.running, engine'.running)
          /\ Tells(feed', "armed", cache'.armed, engine'.armed)
          /\ Tells(feed', "load", cache'.load, engine'.load)
      BY <1>2, <2>1, TellsMore DEF LinkIInv, FeedCoherent, TypeOK, News
    <3> QED
      BY <3>1 DEF FeedCoherent, Tells
  <2>3. IdleIsNews'
    <3>1. ASSUME NEW i \in DOMAIN feed', IdleFrame(feed'[i]) PROVE idleSeen'
      <4>1. CASE i \in DOMAIN feed
        BY <2>1, <3>1, <4>1, ConcatView DEF LinkIInv, TypeOK, IdleIsNews, News
      <4>2. CASE i \notin DOMAIN feed
        BY <2>1, <3>1, <4>2, ConcatView DEF LinkIInv, TypeOK, News
      <4> QED
        BY <4>1, <4>2
    <3> QED
      BY <2>1, <3>1 DEF LinkIInv, IdleIsNews, News
  <2> QED
    BY <2>1, <2>2, <2>3, NewsPending, NewsFresh DEF LinkIInv
<1> QED
  BY <1>1, <1>2

\* The dump is the engine's state, and what it announces was loaded before.
LEMMA ConnectStep ==
  ASSUME LinkIInv, Connect
  PROVE  FeedCoherent' /\ IdleIsNews' /\ PendingIsShow' /\ FreshIsReady'
<1> DEFINE fs == <<Fr("running", engine.running), Fr("armed", engine.armed),
                   Fr("load", engine.load)>>
<1>1. /\ fs \in Seq(Frame) /\ DOMAIN fs = 1..3
      /\ \A v : /\ Tells(fs, "running", v, engine.running) /\ Tells(fs, "armed", v, engine.armed)
                /\ Tells(fs, "load", v, engine.load)
      /\ \A i \in DOMAIN fs : LoadFrame(fs[i]) => i = 3 /\ engine.load # NoProject
      /\ \A i \in DOMAIN fs : IdleFrame(fs[i]) => engine.running = "no"
  BY DumpNews DEF LinkIInv, TypeOK
<1>2. /\ feed' = fs /\ engine' = engine /\ idleSeen' = (engine.running = "no")
      /\ dumped' = (engine.load # NoProject /\ engine.rearm # "load")
  BY DEF Connect, LoadedBefore
<1>3. /\ ~cache'.freshArm /\ ~cache'.pendingLoadArm /\ cache'.running # "no"
  BY ColdIsCache DEF LinkIInv, DownIsCold, Connect, Connected, ColdCache, Unknown
<1> HIDE DEF fs
<1>4. FeedCoherent'
  <2>1. /\ Tells(feed', "running", cache'.running, engine'.running)
        /\ Tells(feed', "armed", cache'.armed, engine'.armed)
        /\ Tells(feed', "load", cache'.load, engine'.load)
    BY <1>1, <1>2
  <2> QED
    BY <2>1 DEF FeedCoherent, Tells
<1>5. IdleIsNews'
  BY <1>1, <1>2, <1>3 DEF IdleIsNews
<1>6. PendingIsShow'
  BY <1>1, <1>2, <1>3 DEF PendingIsShow, Announced
<1>7. FreshIsReady'
  BY <1>1, <1>2, <1>3 DEF FreshIsReady
<1> QED
  BY <1>4, <1>5, <1>6, <1>7

\* Reading a frame moves what was on its way into the cache.
LEMMA ConsumeStep ==
  ASSUME LinkIInv, Consume
  PROVE  FeedCoherent' /\ IdleIsNews' /\ PendingIsShow' /\ FreshIsReady'
<1>1. /\ Head(feed) \in Frame /\ feed' = Tail(feed) /\ engine' = engine
      /\ cache' = ApplyStatus(cache, Head(feed)) /\ feed # <<>> /\ feed \in Seq(Frame)
      /\ cache \in Cache /\ cache.connected /\ UNCHANGED <<freshShow, dumped, idleSeen>>
  BY DEF Consume, LinkIInv, TypeOK
<1>2. /\ cache'.running = IF Head(feed).key = "running" THEN Head(feed).value ELSE cache.running
      /\ cache'.armed = IF Head(feed).key = "armed" THEN Head(feed).value ELSE cache.armed
      /\ cache'.load = IF Head(feed).key = "load" THEN Head(feed).value ELSE cache.load
      /\ cache'.freshArm => \/ cache.freshArm /\ ~Spoils(Head(feed))
                            \/ cache.pendingLoadArm /\ ArmFrame(Head(feed))
      /\ cache'.pendingLoadArm => \/ LoadFrame(Head(feed))
                                  \/ cache.pendingLoadArm /\ ~Spoils(Head(feed))
  BY <1>1, ApplyView
<1>3. /\ Head(feed) = feed[1] /\ 1 \in DOMAIN feed
      /\ \A i \in DOMAIN feed' : i \in Nat \ {0} /\ i + 1 \in DOMAIN feed /\ feed'[i] = feed[i + 1]
  BY <1>1, TailView
<1>4. FeedCoherent'
  <2>1. /\ Tells(feed, "running", cache.running, engine.running)
        /\ Tells(feed, "armed", cache.armed, engine.armed)
        /\ Tells(feed, "load", cache.load, engine.load)
    BY <1>1 DEF LinkIInv, FeedCoherent
  <2>2. /\ Tells(feed', "running", cache'.running, engine'.running)
        /\ Tells(feed', "armed", cache'.armed, engine'.armed)
        /\ Tells(feed', "load", cache'.load, engine'.load)
    BY <1>1, <1>2, <2>1, TellsLess
  <2> QED
    BY <2>2 DEF FeedCoherent, Tells
<1>5. IdleIsNews'
  BY <1>1, <1>2, <1>3 DEF LinkIInv, IdleIsNews, IdleFrame
<1>6. ASSUME NEW i \in Nat, Quiet(feed', i) PROVE Quiet(feed, i + 1)
  BY <1>1, <1>6, QuietTail
<1>7. ASSUME Quiet(feed', 0), ~Spoils(Head(feed)) PROVE Quiet(feed, 0)
  <2>1. ASSUME NEW j \in DOMAIN feed, j > 0 PROVE ~Spoils(feed[j])
    <3>1. CASE j = 1
      BY <1>3, <1>7, <3>1
    <3>2. CASE j # 1
      BY <1>6, <1>7, <2>1, <3>2, <1>1 DEF Quiet
    <3> QED
      BY <3>1, <3>2
  <2> QED
    BY <2>1 DEF Quiet
<1>8. ASSUME ArmFrame(Head(feed)) PROVE ~Spoils(Head(feed))
  BY <1>8 DEF ArmFrame, Spoils
<1>9. PendingIsShow /\ FreshIsReady /\ (Announced' <=> Announced) /\ (Ready' <=> Ready)
  BY <1>1 DEF LinkIInv, Announced, Ready
<1>10. PendingIsShow'
  <2>1. ASSUME cache'.pendingLoadArm \/ cache'.freshArm, Quiet(feed', 0) PROVE Announced
    <3>1. CASE LoadFrame(Head(feed))
      BY <1>3, <1>6, <1>9, <2>1, <3>1 DEF PendingIsShow
    <3>2. CASE ~LoadFrame(Head(feed))
      BY <1>2, <1>7, <1>8, <1>9, <2>1, <3>2 DEF PendingIsShow
    <3> QED
      BY <3>1, <3>2
  <2>2. ASSUME NEW i \in DOMAIN feed', LoadFrame(feed'[i]), Quiet(feed', i) PROVE Announced
    BY <1>3, <1>6, <1>9, <2>2 DEF PendingIsShow
  <2> QED
    BY <1>9, <2>1, <2>2 DEF PendingIsShow
<1>11. FreshIsReady'
  <2>1. ASSUME cache'.freshArm, Quiet(feed', 0) PROVE Ready
    BY <1>2, <1>3, <1>7, <1>8, <1>9, <2>1 DEF FreshIsReady
  <2>2. ASSUME NEW j \in DOMAIN feed', cache'.pendingLoadArm, ArmFrame(feed'[j]), Quiet(feed', 0)
        PROVE  Ready
    <3>1. CASE LoadFrame(Head(feed))
      <4>1. 1 < j + 1 /\ j + 1 \in DOMAIN feed /\ ArmFrame(feed[j + 1]) /\ Quiet(feed, 1)
        BY <1>3, <1>6, <2>2
      <4> QED
        BY <1>3, <1>9, <3>1, <4>1 DEF FreshIsReady
    <3>2. CASE ~LoadFrame(Head(feed))
      BY <1>2, <1>3, <1>7, <1>9, <2>2, <3>2 DEF FreshIsReady
    <3> QED
      BY <3>1, <3>2
  <2>3. ASSUME NEW i \in DOMAIN feed', NEW j \in DOMAIN feed', i < j, LoadFrame(feed'[i]),
               ArmFrame(feed'[j]), Quiet(feed', i)
        PROVE  Ready
    <3>1. /\ i + 1 \in DOMAIN feed /\ j + 1 \in DOMAIN feed /\ i + 1 < j + 1
          /\ LoadFrame(feed[i + 1]) /\ ArmFrame(feed[j + 1]) /\ Quiet(feed, i + 1)
      BY <1>3, <1>6, <2>3
    <3> QED
      BY <1>9, <3>1 DEF FreshIsReady
  <2> QED
    BY <1>9, <2>1, <2>2, <2>3 DEF FreshIsReady
<1> QED
  BY <1>4, <1>5, <1>10, <1>11

\* Every step keeps what arms, plays and is fresh apart.
LEMMA ArmingStep == LinkIInv /\ [Next]_vars => ArmingIsIdle'
<1> SUFFICES ASSUME LinkIInv, [Next]_vars PROVE ArmingIsIdle'
  OBVIOUS
<1>0. ArmingIsIdle /\ engine \in Show
  BY DEF LinkIInv, TypeOK
<1>1. ASSUME NEW p \in Project, Load(p) PROVE ArmingIsIdle'
  BY <1>0, <1>1 DEF Load, Show, ArmingIsIdle
<1>2. CASE Unload \/ Arm \/ Go \/ Halt
  BY <1>0, <1>2 DEF Unload, Arm, Go, Halt, Show, ArmingIsIdle
<1>3. CASE UNCHANGED <<engine, freshShow>>
  BY <1>0, <1>3 DEF ArmingIsIdle
<1> QED
  BY <1>1, <1>2, <1>3 DEF Next, Connect, Disconnect, Consume, vars

\* The invariant of the link is inductive.
LEMMA LinkStep == LinkIInv /\ [Next]_vars => LinkIInv'
<1> SUFFICES ASSUME LinkIInv, [Next]_vars PROVE LinkIInv'
  OBVIOUS
<1>1. TypeOK' /\ DownIsCold' /\ ArmingIsIdle'
  BY LinkTypeStep, DownStep, ArmingStep
<1>2. FeedCoherent' /\ IdleIsNews' /\ PendingIsShow' /\ FreshIsReady'
  <2>1. CASE Disconnect
    BY <2>1, ColdHolds DEF Disconnect
  <2>2. CASE UNCHANGED vars
    <3>1. FeedCoherent /\ IdleIsNews /\ PendingIsShow /\ FreshIsReady
      BY DEF LinkIInv
    <3> QED
      BY <2>2, <3>1 DEF vars, FeedCoherent, IdleIsNews, PendingIsShow, FreshIsReady, Tells,
         Announced, Ready
  <2> QED
    BY <2>1, <2>2, EngineStep, ConnectStep, ConsumeStep DEF Next
<1> QED
  BY <1>1, <1>2 DEF LinkIInv

-----------------------------------------------------------------------------

\* Calls and commands leave the link to its own steps.
LEMMA CommandsAreLink == [CommandsNext]_allVars => [Next]_vars
<1> SUFFICES ASSUME [CommandsNext]_allVars PROVE [Next]_vars
  OBVIOUS
<1>1. ASSUME NEW r \in Calls, NEW c \in {"go", "stop"}, Press(r, c) PROVE UNCHANGED vars
  BY <1>1 DEF Press, NewCall
<1>2. ASSUME NEW r \in Calls, NEW k \in {"set", "gocue"}, Ask(r, k) PROVE UNCHANGED vars
  BY <1>2 DEF Ask, NewCall
<1>3. ASSUME NEW r \in Calls, BodyRead(r) \/ CueSent(r) \/ Sent(r) PROVE UNCHANGED vars
  BY <1>3 DEF BodyRead, CueSent, Sent
<1> QED
  BY <1>1, <1>2, <1>3 DEF CommandsNext, allVars, Up, Down, Read, EngineMoves, TakesCue, TakesGo,
     TakesStop, Next

\* Before the first call nothing is sent, and the link is cold.
LEMMA CallsInit == CommandsInit => IInv
<1> SUFFICES ASSUME CommandsInit PROVE IInv
  OBVIOUS
<1>1. LinkIInv
  BY LinkInit DEF CommandsInit
<1>2. wire \in Seq(Command) /\ DOMAIN wire = {}
  BY DEF CommandsInit
<1>3. \A r \in Calls : call[r] = [kind |-> "go", at |-> "none"]
  BY DEF CommandsInit
<1>4. CommandsTypeOK
  BY <1>1, <1>2 DEF CommandsInit, CommandsTypeOK, LinkIInv, Kinds, Places
<1>5. CueSentFirst /\ WireIsCalled
  BY <1>2, <1>3 DEF CueSentFirst, WireIsCalled
<1> QED
  BY <1>1, <1>4, <1>5 DEF IInv

\* The commands behind the head move up; a command sent goes behind the last.
LEMMA AppendView ==
  ASSUME NEW S, NEW s \in Seq(S), NEW e \in S
  PROVE  /\ Append(s, e) \in Seq(S) /\ Len(s) \in Nat
         /\ Len(s) + 1 \in DOMAIN Append(s, e) /\ Append(s, e)[Len(s) + 1] = e
         /\ \A i \in DOMAIN s : i \in 1..Len(s) /\ i \in DOMAIN Append(s, e) /\ Append(s, e)[i] = s[i]
         /\ \A i \in DOMAIN Append(s, e) : i \in DOMAIN s \/ i = Len(s) + 1
         /\ Len(Append(s, e)) = Len(s) + 1
BY AppendProperties

\* A call sends its command behind all others.
LEMMA SendStep ==
  ASSUME CommandsTypeOK, WireIsCalled, CueSentFirst, NEW r \in Calls, NEW c \in {"go", "stop", "set"},
         NEW k \in Kinds, NEW p \in {"setting", "sending"},
         wire' = Append(wire, [cmd |-> c, by |-> r]),
         call' = [call EXCEPT ![r] = [kind |-> k, at |-> p]], chosen' = chosen,
         call[r].at = "none" \/ call[r].kind = k,
         p = "setting" => c = "set",
         c = "go" /\ k = "gocue" => CueAhead(r, Len(wire) + 1)
  PROVE  /\ call' \in [Calls -> [kind : Kinds, at : Places]]
         /\ wire' \in Seq(Command) /\ chosen' \subseteq Calls
         /\ WireIsCalled' /\ CueSentFirst'
<1> DEFINE e == [cmd |-> c, by |-> r]
           w == Append(wire, e)
<1>0. /\ wire \in Seq(Command) /\ e \in Command /\ e.cmd = c /\ e.by = r
      /\ call \in [Calls -> [kind : Kinds, at : Places]]
      /\ call' \in [Calls -> [kind : Kinds, at : Places]] /\ chosen' \subseteq Calls
  BY DEF CommandsTypeOK, Command, Places
<1>1. /\ call'[r].kind = k /\ call'[r].at = p
      /\ \A q \in Calls : q # r => call'[q] = call[q]
  BY <1>0
<1>2. /\ w \in Seq(Command) /\ Len(wire) \in Nat /\ Len(w) = Len(wire) + 1
      /\ Len(wire) + 1 \in DOMAIN w /\ w[Len(wire) + 1] = e
      /\ \A i \in DOMAIN wire : i \in 1..Len(wire) /\ i \in DOMAIN w /\ w[i] = wire[i]
      /\ \A i \in DOMAIN w : i \in DOMAIN wire \/ i = Len(wire) + 1
  BY <1>0, AppendView
<1>3. wire' = w
  OBVIOUS
<1> HIDE DEF e, w
<1>4. ASSUME NEW i \in DOMAIN wire PROVE wire[i].by \in Calls
  <2>1. wire[i] \in Command
    BY <1>0
  <2> QED
    BY <2>1 DEF Command
<1>5. ASSUME NEW q \in Calls, NEW i \in Nat, CueAhead(q, i) PROVE CueAhead(q, i)'
  BY <1>2, <1>3, <1>5 DEF CueAhead
<1>6. WireIsCalled'
  BY <1>0, <1>1, <1>2, <1>3, <1>4 DEF WireIsCalled
<1>7. ASSUME NEW q \in Calls, call'[q].at = "setting" PROVE CueAhead(q, Len(wire) + 1)'
  <2>1. CASE q = r
    BY <1>0, <1>1, <1>2, <1>3, <1>7, <2>1 DEF CueAhead
  <2>2. CASE q # r
    <3>1. CueAhead(q, Len(wire) + 1)
      BY <1>1, <1>7, <2>2 DEF CueSentFirst
    <3> QED
      BY <1>2, <1>3, <3>1 DEF CueAhead
  <2> QED
    BY <2>1, <2>2
<1>8. ASSUME NEW i \in DOMAIN wire', wire'[i].cmd = "go", call'[wire'[i].by].kind = "gocue"
      PROVE  CueAhead(wire[i].by, i)'
  <2>1. CASE i \in DOMAIN wire
    <3>1. wire[i].cmd = "go" /\ call[wire[i].by].kind = "gocue" /\ wire'[i] = wire[i]
      BY <1>0, <1>1, <1>2, <1>3, <1>4, <1>8, <2>1 DEF WireIsCalled
    <3>2. CueAhead(wire[i].by, i) /\ wire[i].by \in Calls /\ i \in Nat
      BY <1>2, <1>4, <2>1, <3>1 DEF CueSentFirst
    <3> QED
      BY <1>5, <3>1, <3>2 DEF CueAhead
  <2>2. CASE i = Len(wire) + 1
    <3>1. wire'[i].by = r /\ CueAhead(r, i)
      BY <1>0, <1>1, <1>2, <1>3, <1>8, <2>2
    <3>2. CueAhead(r, i)'
      BY <1>2, <1>5, <2>2, <3>1
    <3> QED
      BY <3>1, <3>2 DEF CueAhead
  <2> QED
    BY <1>2, <1>3, <1>8, <2>1, <2>2
<1> QED
  BY <1>0, <1>2, <1>3, <1>6, <1>7, <1>8 DEF CueSentFirst

\* A call that ends, or reads its body, leaves the wire alone.
LEMMA EndStep ==
  ASSUME CommandsTypeOK, WireIsCalled, CueSentFirst,
         call' \in [Calls -> [kind : Kinds, at : Places]],
         \A r \in Calls : call'[r].at # "setting" \/ call'[r] = call[r],
         \A r \in Calls : call'[r].kind = call[r].kind \/ call[r].at = "none",
         \A r \in Calls : call'[r].at # "none" \/ call[r].at = "none",
         wire' = wire, chosen' = chosen
  PROVE  WireIsCalled' /\ CueSentFirst'
<1>1. ASSUME NEW i \in DOMAIN wire PROVE wire[i].by \in Calls
  <2>1. wire[i] \in Command
    BY DEF CommandsTypeOK
  <2> QED
    BY <2>1 DEF Command
<1>2. \A r : \A i : CueAhead(r, i)' <=> CueAhead(r, i)
  BY DEF CueAhead
<1>3. WireIsCalled'
  BY <1>1 DEF WireIsCalled
<1>4. \A r \in Calls : call'[r].at = "setting" => CueAhead(r, Len(wire) + 1)'
  BY DEF CueSentFirst, CueAhead
<1>5. ASSUME NEW i \in DOMAIN wire', wire'[i].cmd = "go", call'[wire'[i].by].kind = "gocue"
      PROVE  CueAhead(wire[i].by, i)'
  <2>1. call[wire[i].by].kind = "gocue"
    BY <1>1, <1>5 DEF WireIsCalled
  <2> QED
    BY <1>5, <2>1 DEF CueSentFirst, CueAhead
<1> QED
  BY <1>3, <1>4, <1>5 DEF CueSentFirst

\* The engine takes the head of the wire.
LEMMA TakeStep ==
  ASSUME CommandsTypeOK, WireIsCalled, CueSentFirst, NEW c, Takes(c),
         chosen' = chosen \/ (c = "set" /\ chosen' = chosen \cup {Head(wire).by}),
         c = "set" => Head(wire).by \in chosen'
  PROVE  wire' \in Seq(Command) /\ chosen' \subseteq Calls /\ WireIsCalled' /\ CueSentFirst'
<1>0. /\ wire \in Seq(Command) /\ wire # <<>> /\ wire' = Tail(wire) /\ call' = call
      /\ chosen \subseteq chosen' /\ Head(wire).cmd = c
  BY DEF Takes, CommandsTypeOK
<1>1. /\ wire' \in Seq(Command) /\ Head(wire) = wire[1] /\ 1 \in DOMAIN wire
      /\ \A i \in DOMAIN wire' : i \in Nat \ {0} /\ i + 1 \in DOMAIN wire /\ wire'[i] = wire[i + 1]
      /\ \A i \in DOMAIN wire : i \in Nat \ {0} /\ (i # 1 => i - 1 \in DOMAIN wire')
  BY <1>0, TailView
<1>2. chosen' \subseteq Calls
  <2>1. wire[1] \in Command
    BY <1>0, <1>1
  <2>2. Head(wire).by \in Calls
    BY <1>1, <2>1 DEF Command
  <2> QED
    BY <2>2 DEF CommandsTypeOK
<1>3. Len(wire') + 2 = Len(wire) + 1 /\ Len(wire') \in Nat
  BY <1>0
<1>4. ASSUME NEW r, NEW i \in Nat, CueAhead(r, i + 1) PROVE CueAhead(r, i)'
  <2>1. CASE r \in chosen
    BY <1>0, <2>1 DEF CueAhead
  <2>2. ASSUME NEW j \in DOMAIN wire, j < i + 1, wire[j].cmd = "set", wire[j].by = r
        PROVE  CueAhead(r, i)'
    <3>1. CASE j = 1
      BY <1>0, <1>1, <2>2, <3>1 DEF CueAhead
    <3>2. CASE j # 1
      <4>1. j - 1 \in DOMAIN wire' /\ wire'[j - 1] = wire[(j - 1) + 1] /\ (j - 1) + 1 = j
            /\ j - 1 < i
        BY <1>1, <2>2, <3>2
      <4> QED
        BY <2>2, <4>1 DEF CueAhead
    <3> QED
      BY <3>1, <3>2
  <2> QED
    BY <1>4, <2>1, <2>2 DEF CueAhead
<1>5. WireIsCalled'
  BY <1>0, <1>1 DEF WireIsCalled
<1>6. ASSUME NEW r \in Calls, call'[r].at = "setting" PROVE CueAhead(r, Len(wire) + 1)'
  <2>1. CueAhead(r, (Len(wire') + 1) + 1)
    BY <1>0, <1>3, <1>6 DEF CueSentFirst
  <2>2. Len(wire') + 1 \in Nat
    BY <1>3
  <2> QED
    BY <1>4, <2>1, <2>2 DEF CueAhead
<1>7. ASSUME NEW i \in DOMAIN wire', wire'[i].cmd = "go", call'[wire'[i].by].kind = "gocue"
      PROVE  CueAhead(wire[i].by, i)'
  <2>1. i \in Nat /\ CueAhead(wire'[i].by, i + 1)
    BY <1>0, <1>1, <1>7 DEF CueSentFirst
  <2> QED
    BY <1>4, <2>1 DEF CueAhead
<1> QED
  BY <1>1, <1>2, <1>5, <1>6, <1>7 DEF CueSentFirst

\* Every step keeps the order of a call's two commands.
LEMMA CommandsStep == IInv /\ [CommandsNext]_allVars => IInv'
<1> SUFFICES ASSUME IInv, [CommandsNext]_allVars PROVE IInv'
  OBVIOUS
<1>0. /\ LinkIInv /\ CommandsTypeOK /\ WireIsCalled /\ CueSentFirst
      /\ call \in [Calls -> [kind : Kinds, at : Places]] /\ wire \in Seq(Command)
      /\ chosen \subseteq Calls
  BY DEF IInv, CommandsTypeOK
<1>1. LinkIInv' /\ TypeOK'
  BY <1>0, CommandsAreLink, LinkStep DEF LinkIInv
<1> DEFINE Goal == /\ call' \in [Calls -> [kind : Kinds, at : Places]]
                   /\ wire' \in Seq(Command) /\ chosen' \subseteq Calls
                   /\ WireIsCalled' /\ CueSentFirst'
<1>2. ASSUME UNCHANGED callVars PROVE Goal
  BY <1>0, <1>2, EndStep DEF callVars
<1>3. ASSUME NEW r \in Calls, NEW c \in {"go", "stop"}, Press(r, c) PROVE Goal
  <2>1. /\ call[r].at = "none" /\ chosen' = chosen
        /\ wire' = Append(wire, [cmd |-> c, by |-> r])
        /\ call' = [call EXCEPT ![r] = [kind |-> c, at |-> "sending"]]
    BY <1>3 DEF Press, NewCall
  <2>2. c \in Kinds /\ c \in {"go", "stop", "set"} /\ ~(c = "go" /\ c = "gocue") /\ "sending" # "setting"
    BY DEF Kinds
  <2> QED
    BY <1>0, <2>1, <2>2, SendStep
<1>4. ASSUME NEW r \in Calls, NEW k \in {"set", "gocue"}, Ask(r, k) PROVE Goal
  <2>1. /\ call[r].at = "none" /\ wire' = wire /\ chosen' = chosen
        /\ call' = [call EXCEPT ![r] = [kind |-> k, at |-> "body"]]
    BY <1>4 DEF Ask, NewCall
  <2>2. call' \in [Calls -> [kind : Kinds, at : Places]]
    BY <1>0, <2>1 DEF Kinds, Places
  <2>3. call'[r].at = "body" /\ \A q \in Calls : q # r => call'[q] = call[q]
    BY <1>0, <2>1
  <2> QED
    BY <1>0, <2>1, <2>2, <2>3, EndStep
<1>5. ASSUME NEW r \in Calls, call[r].at # "none", End(r), chosen' = chosen PROVE Goal
  <2>1. /\ call' \in [Calls -> [kind : Kinds, at : Places]]
        /\ call'[r].at = "ended" /\ call'[r].kind = call[r].kind
        /\ \A q \in Calls : q # r => call'[q] = call[q]
    BY <1>0, <1>5 DEF End, Places
  <2> QED
    BY <1>0, <1>5, <2>1, EndStep DEF End
<1>6. ASSUME NEW r \in Calls, NEW c \in {"set", "go"}, NEW p \in {"setting", "sending"},
             Send(r, c, p), chosen' = chosen, call[r].at # "none",
             p = "setting" => c = "set", c = "go" => CueAhead(r, Len(wire) + 1)
      PROVE  Goal
  <2>1. call[r] = [kind |-> call[r].kind, at |-> call[r].at] /\ call[r].kind \in Kinds
    BY <1>0
  <2>2. call' = [call EXCEPT ![r] = [kind |-> call[r].kind, at |-> p]]
    <3>1. [call[r] EXCEPT !.at = p] = [kind |-> call[r].kind, at |-> p]
      BY <2>1
    <3> QED
      BY <1>6, <3>1 DEF Send
  <2>3. wire' = Append(wire, [cmd |-> c, by |-> r]) /\ c \in {"go", "stop", "set"}
    BY <1>6 DEF Send
  <2> QED
    BY <1>0, <1>6, <2>1, <2>2, <2>3, SendStep
<1>7. ASSUME NEW r \in Calls, BodyRead(r) PROVE Goal
  BY <1>5, <1>6, <1>7 DEF BodyRead
<1>8. ASSUME NEW r \in Calls, CueSent(r) PROVE Goal
  <2>1. CueAhead(r, Len(wire) + 1)
    BY <1>0, <1>8 DEF CueSent, CueSentFirst
  <2> QED
    BY <1>5, <1>6, <1>8, <2>1 DEF CueSent
<1>9. ASSUME NEW r \in Calls, Sent(r) PROVE Goal
  BY <1>5, <1>9 DEF Sent
<1>10. ASSUME Down PROVE Goal
  <2>1. wire' = <<>> /\ chosen' = chosen /\ call' = Cut
    BY <1>10 DEF Down
  <2>2. /\ call' \in [Calls -> [kind : Kinds, at : Places]]
        /\ \A r \in Calls : call'[r].at # "setting"
    BY <1>0, <2>1 DEF Cut, Places
  <2>3. wire' \in Seq(Command) /\ DOMAIN wire' = {}
    BY <2>1
  <2>4. WireIsCalled' /\ CueSentFirst'
    BY <2>2, <2>3 DEF WireIsCalled, CueSentFirst
  <2> QED
    BY <1>0, <2>1, <2>2, <2>3, <2>4
<1>11. ASSUME TakesCue \/ TakesGo \/ TakesStop PROVE Goal
  <2>1. PICK c : /\ Takes(c)
                 /\ chosen' = chosen \/ (c = "set" /\ chosen' = chosen \cup {Head(wire).by})
                 /\ c = "set" => Head(wire).by \in chosen'
    BY <1>11 DEF TakesCue, TakesGo, TakesStop
  <2>2. call' = call
    BY <2>1 DEF Takes
  <2> QED
    BY <1>0, <2>1, <2>2, TakeStep
<1>12. Goal
  BY <1>2, <1>3, <1>4, <1>7, <1>8, <1>9, <1>10, <1>11
     DEF CommandsNext, allVars, Up, Read, EngineMoves
<1> QED
  BY <1>1, <1>12 DEF IInv, CommandsTypeOK

\* The invariant holds of the whole specification.
LEMMA Inductive == CommandsSpec => []IInv
<1> QED
  BY CallsInit, CommandsStep, PTL DEF CommandsSpec

-----------------------------------------------------------------------------

\* The link, its engine, the calls and the wire keep their types.
THEOREM Typed == CommandsSpec => []CommandsTypeOK
<1>1. IInv => CommandsTypeOK
  BY DEF IInv
<1> QED
  BY <1>1, Inductive, PTL

\* With every frame consumed the cache shows the engine's own state, after any
\* drops, dumps, loads, stops and plays (engine_state.py, _apply_status).
THEOREM Coherent == CommandsSpec => []CacheCoherent
<1>1. IInv => CacheCoherent
  BY DEF IInv, LinkIInv, FeedCoherent, CacheCoherent, Tells
<1> QED
  BY <1>1, Inductive, PTL

\* A known, idle cache is news of this connection: is_known() and
\* project_running() never let an operation cut a show that played all along.
THEOREM IdleIsCurrent == CommandsSpec => []KnownIdleIsCurrent
<1>1. IInv => KnownIdleIsCurrent
  <2> SUFFICES ASSUME IInv, IsKnown(cache), ~ProjectRunning(cache) PROVE idleSeen
    BY DEF KnownIdleIsCurrent
  <2>1. cache.running = "no"
    BY DEF IInv, LinkIInv, TypeOK, Cache, IsKnown, ProjectRunning
  <2> QED
    BY <2>1 DEF IInv, LinkIInv, IdleIsNews
<1> QED
  BY <1>1, Inductive, PTL

\* fresh_arm is true only of an idle, armed show whose load armed it, or that
\* this connection found loaded (engine_state.py:57-61).
THEOREM FreshLoaded == CommandsSpec => []FreshIsLoaded
<1>1. IInv => FreshIsLoaded
  BY DEF IInv, LinkIInv, FreshIsReady, FreshIsLoaded, Ready, Quiet
<1> QED
  BY <1>1, Inductive, PTL

\* The engine never takes the GO of a /gocue before its cue (bridge.py:310-316).
THEOREM GoBehindCue == CommandsSpec => []GoAfterItsCue
<1>1. IInv => GoAfterItsCue
  <2> SUFFICES ASSUME IInv, wire # <<>>, Head(wire).cmd = "go", call[Head(wire).by].kind = "gocue"
               PROVE  Head(wire).by \in chosen
    BY DEF GoAfterItsCue
  <2>1. /\ Head(wire) = wire[1] /\ 1 \in DOMAIN wire
        /\ \A j \in DOMAIN wire : j \in Nat \ {0}
    BY TailView DEF IInv, CommandsTypeOK
  <2>2. CueAhead(wire[1].by, 1)
    BY <2>1 DEF IInv, CueSentFirst
  <2> QED
    BY <2>1, <2>2 DEF CueAhead
<1> QED
  BY <1>1, Inductive, PTL

\* Commands uses the link as EngineLink specifies it: its steps are the link's or
\* leave it alone, so what holds of the link's every behaviour holds here.
THEOREM CommandsUseLink == CommandsSpec => Init /\ [][Next]_vars
<1>1. CommandsInit => Init
  BY DEF CommandsInit
<1> QED
  BY <1>1, CommandsAreLink, PTL DEF CommandsSpec
=============================================================================
