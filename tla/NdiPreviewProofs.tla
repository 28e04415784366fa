-------------------------- MODULE NdiPreviewProofs ---------------------------
(***************************************************************************)
(* What NdiPreview promises, for any screens, any number of requests and   *)
(* any of them that the VC or a relay may refuse or that find no cursor.   *)
(*                                                                         *)
(* A journal line names a screen and not a request.  The invariant says    *)
(* whose the lines behind a request's mark are, and whose are unread.      *)
(***************************************************************************)
EXTENDS NdiPreview, SequenceTheorems, TLAPS

Held   == {"route", "mark", "open", "poll", "refit"}
Polled == {"poll", "refit"}

\* A request has a screen once it came, and a load once it was sent.
Placed ==
  \A r \in Shows :
    /\ req[r].at # "none" => req[r].screen \in Screens
    /\ job[r] # "none" => req[r].at \in Polled \cup {"done"}
    /\ relay[r] = "serving" => req[r].at # "none"
    /\ req[r].verdict # "pending" => req[r].at = "done"
    /\ req[r].exact /\ req[r].at \in Polled \cup {"open"} => req[r].mark <= seen

\* A load under way is of the preview on record, and so is one being confirmed.
LoadIsKnown ==
  \A r \in Shows : job[r] = "loading" \/ req[r].at \in Polled => previews[req[r].screen] = r

\* Between the unload of the old preview and the new load the screen is clear.
OpenIsClear ==
  \A r \in Shows : req[r].at = "open" =>
    /\ up[req[r].screen] = 0 /\ table[req[r].screen] = 0
    /\ \A q \in Shows : job[q] = "loading" => req[q].screen # req[r].screen

\* A load of screen s completed although its request was answered without it.
Given(s) == \E q \in Shows : req[q].screen = s /\ GivenUp(q)

Complete(k, s) == k \in DOMAIN journal /\ journal[k] = <<"complete", s>>

\* Behind an exact mark of a request its screen's load completes once, as its own.
CompletesOnce ==
  \A r \in Shows, s \in Screens :
    req[r].screen = s /\ req[r].exact /\ req[r].at \in Polled \cup {"open"} /\ ~Given(s) =>
      \A k, l \in Nat : k > req[r].mark /\ Complete(k, s) =>
        /\ job[r] = "complete"
        /\ l > req[r].mark /\ Complete(l, s) => k = l

\* An unread completion is that of the request being confirmed.
UnreadIsPolled ==
  \A s \in Screens, k \in Nat : ~Given(s) /\ k > seen /\ Complete(k, s) =>
    \E r \in Shows : req[r].at \in Polled /\ req[r].screen = s /\ job[r] = "complete"

\* The end of a load that outlives its request will be one more that was given up.
LeftIsGiven ==
  \A r \in Shows, s \in Screens :
    req[r].screen = s /\ job[r] = "loading" /\ req[r].at = "done" =>
      ~(req[r].verdict = "frames" /\ req[r].exact) \/ Given(s)

\* A completion of screen s was read behind the mark of request r.
HasRead(r, s) == \E k \in Nat : req[r].mark < k /\ k <= seen /\ Complete(k, s)

\* A request that waits for the fit line has read a completion.
RefitHasRead ==
  \A r \in Shows, s \in Screens : req[r].screen = s /\ req[r].at = "refit" => HasRead(r, s)

\* A preview reported as on was loaded by its request, or follows one given up.
FramesAreOwn ==
  \A r \in Shows, s \in Screens :
    req[r].screen = s /\ req[r].exact /\ req[r].verdict = "frames" =>
      job[r] = "complete" \/ Given(s)

\* Until a request was answered early each has read all the lines of its load, and
\* the lines behind an exact mark are those of the request being confirmed.
Orderly ==
  ~Unsettled =>
    /\ (\A r \in Shows : req[r].at \notin Polled) => seen = Len(journal)
    /\ \A r \in Shows : req[r].at = "done" => job[r] \notin {"loading", "cancelled"}
    /\ \A r \in Shows : req[r].exact /\ req[r].at = "open" => req[r].mark = Len(journal)
    /\ \A r \in Shows : req[r].exact /\ req[r].at \in Polled =>
         \A k \in DOMAIN journal : k > req[r].mark =>
           /\ journal[k][1] = "unknown" => r \in Early
           /\ journal[k][1] # "unknown" => k = Len(journal) /\ job[r] \in {"complete", "over"}
           /\ journal[k][1] = "complete" => job[r] = "complete"
    /\ \A r \in Shows : req[r].verdict = "frames" => job[r] = "complete"

Known == OneAtATime /\ Placed /\ LoadIsKnown /\ OpenIsClear /\ ScreensAreKnown
Owned == CompletesOnce /\ UnreadIsPolled /\ LeftIsGiven /\ RefitHasRead /\ FramesAreOwn /\ Orderly

IInv == PreviewTypeOK /\ Known /\ Owned

-----------------------------------------------------------------------------

\* The lines behind a mark, where the journal has them.
LEMMA SinceView ==
  ASSUME PreviewTypeOK, NEW m \in Nat
  PROVE  /\ DOMAIN LinesSince(m) = 1..Len(LinesSince(m))
         /\ \A i \in DOMAIN LinesSince(m) :
           /\ i \in Nat \ {0} /\ m + i \in DOMAIN journal /\ m + i <= seen
           /\ LinesSince(m)[i] = journal[m + i]
<1>1. /\ seen \in Nat /\ journal \in Seq(Lines) /\ seen <= Len(journal) /\ Len(journal) \in Nat
      /\ DOMAIN journal = 1..Len(journal)
  BY DEF PreviewTypeOK
<1>2. \A i \in m + 1..seen : journal[i] \in Lines
  BY <1>1
<1>3. /\ LinesSince(m) \in Seq(Lines)
      /\ Len(LinesSince(m)) = IF m + 1 <= seen THEN seen - (m + 1) + 1 ELSE 0
      /\ \A i \in 1..seen - (m + 1) + 1 : LinesSince(m)[i] = journal[m + 1 + i - 1]
  BY <1>1, <1>2, SubSeqProperties DEF LinesSince
<1>4. ASSUME NEW i \in DOMAIN LinesSince(m)
      PROVE  /\ i \in Nat \ {0} /\ m + i \in DOMAIN journal /\ m + i <= seen
             /\ LinesSince(m)[i] = journal[m + i]
  <2>1. i \in 1..Len(LinesSince(m))
    BY <1>3
  <2>2. i \in 1..seen - (m + 1) + 1 /\ m + 1 + i - 1 = m + i
    BY <1>1, <1>3, <2>1
  <2>3. LinesSince(m)[i] = journal[m + i]
    BY <1>3, <2>2
  <2>4. i \in Nat \ {0} /\ m + i \in 1..Len(journal) /\ m + i <= seen
    BY <1>1, <2>2
  <2> QED
    BY <1>1, <2>3, <2>4
<1> QED
  BY <1>3, <1>4

\* Every line that was read behind a mark is among them.
LEMMA SinceAll ==
  ASSUME PreviewTypeOK, NEW m \in Nat, NEW k \in DOMAIN journal, m < k, k <= seen
  PROVE  \E i \in DOMAIN LinesSince(m) : LinesSince(m)[i] = journal[k]
<1>1. /\ seen \in Nat /\ journal \in Seq(Lines) /\ seen <= Len(journal) /\ Len(journal) \in Nat
      /\ DOMAIN journal = 1..Len(journal) /\ k \in Nat
  BY DEF PreviewTypeOK
<1>2. \A i \in m + 1..seen : journal[i] \in Lines
  BY <1>1
<1>3. /\ LinesSince(m) \in Seq(Lines)
      /\ Len(LinesSince(m)) = seen - (m + 1) + 1
      /\ \A i \in 1..seen - (m + 1) + 1 : LinesSince(m)[i] = journal[m + 1 + i - 1]
  BY <1>1, <1>2, SubSeqProperties DEF LinesSince
<1>4. k - m \in 1..seen - (m + 1) + 1 /\ m + 1 + (k - m) - 1 = k
  BY <1>1
<1>5. k - m \in DOMAIN LinesSince(m)
  BY <1>3, <1>4
<1>6. LinesSince(m)[k - m] = journal[m + 1 + (k - m) - 1]
  BY <1>3, <1>4
<1> QED
  BY <1>4, <1>5, <1>6

\* A verdict rests on a line that was read behind the mark.
LEMMA ClassifyView ==
  ASSUME PreviewTypeOK, NEW r \in Shows
  PROVE  LET Read(l) == \E k \in DOMAIN journal :
               req[r].mark < k /\ k <= seen /\ journal[k] = l
         IN  /\ Classify(r) \in {"pending", "frames", "failed", "unknown_output", "superseded"}
             /\ Classify(r) = "frames" => Read(<<"complete", req[r].screen>>)
             /\ Classify(r) = "failed" => Read(<<"failed", req[r].screen>>)
             /\ Classify(r) = "superseded" => Read(<<"cancelled", req[r].screen>>)
             /\ Classify(r) = "unknown_output" =>
                  \E k \in DOMAIN journal : /\ req[r].mark < k /\ k <= seen
                                            /\ journal[k][1] = "unknown"
             /\ Read(<<"complete", req[r].screen>>) => Classify(r) # "pending"
<1> DEFINE own == LinesSince(req[r].mark)
           Read(l) == \E k \in DOMAIN journal : req[r].mark < k /\ k <= seen /\ journal[k] = l
<1>0. req[r].mark \in Nat
  BY DEF PreviewTypeOK, Request
<1>1. \A i \in DOMAIN own :
        /\ i \in Nat \ {0} /\ req[r].mark + i \in DOMAIN journal /\ req[r].mark + i <= seen
        /\ own[i] = journal[req[r].mark + i]
  BY <1>0, SinceView
<1>2. ASSUME NEW l, NEW i \in DOMAIN own, own[i] = l PROVE Read(l)
  <2>1. req[r].mark + i \in DOMAIN journal /\ req[r].mark + i <= seen
        /\ journal[req[r].mark + i] = l /\ req[r].mark < req[r].mark + i
    BY <1>0, <1>1, <1>2
  <2> QED
    BY <2>1
<1>3. ASSUME NEW i \in DOMAIN own, own[i][1] = "unknown"
      PROVE  \E k \in DOMAIN journal : req[r].mark < k /\ k <= seen /\ journal[k][1] = "unknown"
  <2>1. req[r].mark + i \in DOMAIN journal /\ req[r].mark + i <= seen
        /\ journal[req[r].mark + i][1] = "unknown" /\ req[r].mark < req[r].mark + i
    BY <1>0, <1>1, <1>3
  <2> QED
    BY <2>1
<1>4. DOMAIN own = 1..Len(own)
  BY <1>0, SinceView
<1>6. ASSUME NEW l, Read(l) PROVE \E i \in DOMAIN own : own[i] = l
  <2>1. PICK k \in DOMAIN journal : req[r].mark < k /\ k <= seen /\ journal[k] = l
    BY <1>6
  <2>2. DOMAIN journal \subseteq Nat
    BY DEF PreviewTypeOK
  <2> QED
    BY <1>0, <2>1, <2>2, SinceAll
<1> HIDE DEF own, Read
<1>5. Classify(r) =
        LET s       == req[r].screen
            Said(k) == \E i \in DOMAIN own : own[i] = <<k, s>>
            failed  == \E i \in DOMAIN own :
                         /\ own[i] = <<"failed", s>>
                         /\ \A j \in DOMAIN own : j > i => own[j] # <<"complete", s>>
            unknown == \E i \in DOMAIN own : own[i][1] = "unknown"
            ended   == IF failed THEN "failed" ELSE IF Said("complete") THEN "frames"
                       ELSE IF Said("cancelled") THEN "superseded" ELSE "pending"
        IN  IF unknown /\ ended \in {"pending", "frames"} THEN "unknown_output" ELSE ended
  BY <1>4 DEF Classify, Contains, own
<1> QED
  BY <1>2, <1>3, <1>5, <1>6 DEF Read

\* Unloading a layer only stops loads.
LEMMA DiscardView ==
  ASSUME PreviewTypeOK, NEW S \in SUBSET Screens
  PROVE  /\ Discard(S) \in [Shows -> Jobs]
         /\ Down(S) \in [Screens -> 0..MaxShows]
         /\ \A r \in Shows : /\ Discard(S)[r] = IF job[r] = "loading" /\ req[r].screen \in S
                                                  THEN "cancelled" ELSE job[r]
         /\ \A s \in Screens : Down(S)[s] = IF s \in S THEN 0 ELSE up[s]
BY PreviewAssumption DEF Discard, Down, PreviewTypeOK, Jobs

\* A request stays one when one of its fields is set.
LEMMA FieldSet ==
  ASSUME NEW x \in Request
  PROVE  /\ \A v \in Places : [x EXCEPT !.at = v] \in Request
         /\ \A v \in Screens : [x EXCEPT !.screen = v] \in Request
         /\ \A v \in BOOLEAN : [x EXCEPT !.relayed = v] \in Request
         /\ \A v \in Nat : [x EXCEPT !.mark = v] \in Request
         /\ \A v \in BOOLEAN : [x EXCEPT !.exact = v] \in Request
         /\ \A v \in BOOLEAN : [x EXCEPT !.rechecked = v] \in Request
         /\ \A v \in Verdicts : [x EXCEPT !.verdict = v] \in Request
         /\ \A v \in BOOLEAN : [x EXCEPT !.stopped = v] \in Request
BY DEF Request

\* What the steps of a request r make of the requests.
LEMMA Moves ==
  ASSUME PreviewTypeOK, NEW r \in Shows
  PROVE  /\ \A p \in Places : At(r, p) =>
              /\ req' \in [Shows -> Request]
              /\ req'[r] = [req[r] EXCEPT !.at = p]
              /\ \A q \in Shows : q # r => req'[q] = req[q]
         /\ \A s \in Screens, b \in BOOLEAN :
              req' = [req EXCEPT ![r].at = "resolve", ![r].screen = s, ![r].relayed = b] =>
                /\ req' \in [Shows -> Request]
                /\ req'[r] = [req[r] EXCEPT !.at = "resolve", !.screen = s, !.relayed = b]
                /\ \A q \in Shows : q # r => req'[q] = req[q]
         /\ \A v \in Verdicts :
              req' = [req EXCEPT ![r].at = "done", ![r].rechecked = FALSE, ![r].verdict = v] =>
                /\ req' \in [Shows -> Request]
                /\ req'[r] = [req[r] EXCEPT !.at = "done", !.rechecked = FALSE, !.verdict = v]
                /\ \A q \in Shows : q # r => req'[q] = req[q]
         /\ req' = [req EXCEPT ![r].at = "refit", ![r].rechecked = FALSE] =>
              /\ req' \in [Shows -> Request]
              /\ req'[r] = [req[r] EXCEPT !.at = "refit", !.rechecked = FALSE]
              /\ \A q \in Shows : q # r => req'[q] = req[q]
         /\ req' = [req EXCEPT ![r].rechecked = TRUE] =>
              /\ req' \in [Shows -> Request]
              /\ req'[r] = [req[r] EXCEPT !.rechecked = TRUE]
              /\ \A q \in Shows : q # r => req'[q] = req[q]
<1>1. req \in [Shows -> Request] /\ req[r] \in Request
  BY DEF PreviewTypeOK
<1>2. {"done", "refit", "resolve"} \subseteq Places
  BY DEF Places
<1>3. ASSUME NEW p \in Places, At(r, p)
      PROVE  /\ req' \in [Shows -> Request] /\ req'[r] = [req[r] EXCEPT !.at = p]
             /\ \A q \in Shows : q # r => req'[q] = req[q]
  <2>1. [req[r] EXCEPT !.at = p] \in Request
    BY <1>1, FieldSet
  <2> QED
    BY <1>1, <1>3, <2>1 DEF At
<1>4. ASSUME NEW v \in Verdicts,
             req' = [req EXCEPT ![r].at = "done", ![r].rechecked = FALSE, ![r].verdict = v]
      PROVE  /\ req' \in [Shows -> Request]
             /\ req'[r] = [req[r] EXCEPT !.at = "done", !.rechecked = FALSE, !.verdict = v]
             /\ \A q \in Shows : q # r => req'[q] = req[q]
  <2>1. [req[r] EXCEPT !.at = "done"] \in Request
    BY <1>1, <1>2, FieldSet
  <2>2. [req[r] EXCEPT !.at = "done", !.rechecked = FALSE] \in Request
    BY <1>2, <2>1, FieldSet
  <2>3. [req[r] EXCEPT !.at = "done", !.rechecked = FALSE, !.verdict = v] \in Request
    BY <2>2, FieldSet
  <2> QED
    BY <1>1, <1>4, <2>3
<1>5. ASSUME req' = [req EXCEPT ![r].at = "refit", ![r].rechecked = FALSE]
      PROVE  /\ req' \in [Shows -> Request]
             /\ req'[r] = [req[r] EXCEPT !.at = "refit", !.rechecked = FALSE]
             /\ \A q \in Shows : q # r => req'[q] = req[q]
  <2>1. [req[r] EXCEPT !.at = "refit"] \in Request
    BY <1>1, <1>2, FieldSet
  <2>2. [req[r] EXCEPT !.at = "refit", !.rechecked = FALSE] \in Request
    BY <1>2, <2>1, FieldSet
  <2> QED
    BY <1>1, <1>5, <2>2
<1>6. ASSUME req' = [req EXCEPT ![r].rechecked = TRUE]
      PROVE  /\ req' \in [Shows -> Request] /\ req'[r] = [req[r] EXCEPT !.rechecked = TRUE]
             /\ \A q \in Shows : q # r => req'[q] = req[q]
  <2>1. [req[r] EXCEPT !.rechecked = TRUE] \in Request
    BY <1>1, FieldSet
  <2> QED
    BY <1>1, <1>6, <2>1
<1>7. ASSUME NEW s \in Screens, NEW b \in BOOLEAN,
             req' = [req EXCEPT ![r].at = "resolve", ![r].screen = s, ![r].relayed = b]
      PROVE  /\ req' \in [Shows -> Request]
             /\ req'[r] = [req[r] EXCEPT !.at = "resolve", !.screen = s, !.relayed = b]
             /\ \A q \in Shows : q # r => req'[q] = req[q]
  <2>1. [req[r] EXCEPT !.at = "resolve"] \in Request
    BY <1>1, <1>2, FieldSet
  <2>2. [req[r] EXCEPT !.at = "resolve", !.screen = s] \in Request
    BY <2>1, FieldSet
  <2>3. [req[r] EXCEPT !.at = "resolve", !.screen = s, !.relayed = b] \in Request
    BY <2>2, FieldSet
  <2> QED
    BY <1>1, <1>7, <2>3
<1> QED
  BY <1>3, <1>4, <1>5, <1>6, <1>7

\* A mark is set.
LEMMA MarkSet ==
  ASSUME PreviewTypeOK, NEW r \in Shows, NEW p \in Places, NEW m \in [mark : Nat, exact : BOOLEAN],
         WithMark(r, m, p)
  PROVE  /\ req' \in [Shows -> Request]
         /\ req'[r] = [req[r] EXCEPT !.mark = m.mark, !.exact = m.exact, !.at = p]
         /\ \A q \in Shows : q # r => req'[q] = req[q]
<1>1. req \in [Shows -> Request] /\ req[r] \in Request
  BY DEF PreviewTypeOK
<1>2. [req[r] EXCEPT !.mark = m.mark] \in Request
  BY <1>1, FieldSet
<1>3. [req[r] EXCEPT !.mark = m.mark, !.exact = m.exact] \in Request
  BY <1>2, FieldSet
<1>4. [req[r] EXCEPT !.mark = m.mark, !.exact = m.exact, !.at = p] \in Request
  BY <1>3, FieldSet
<1> QED
  BY <1>1, <1>4 DEF WithMark

\* A request that is marked as stopped is otherwise the same.
LEMMA MarkTyped ==
  ASSUME PreviewTypeOK, NEW s \in Screens, MarkStopped(s)
  PROVE  /\ req' \in [Shows -> Request]
         /\ \A q \in Shows : /\ req'[q].at = req[q].at /\ req'[q].screen = req[q].screen
                              /\ req'[q].mark = req[q].mark /\ req'[q].verdict = req[q].verdict
                              /\ req'[q].exact = req[q].exact
<1>1. req \in [Shows -> Request]
  BY DEF PreviewTypeOK
<1>2. \A q \in Shows : [req[q] EXCEPT !.stopped = TRUE] \in Request
  BY <1>1, FieldSet
<1>3. \A q \in Shows : req'[q] = IF q = previews[s] THEN [req[q] EXCEPT !.stopped = TRUE] ELSE req[q]
  BY DEF MarkStopped
<1>4. req' \in [Shows -> Request]
  BY <1>1, <1>2 DEF MarkStopped
<1>5. ASSUME NEW q \in Shows
      PROVE /\ req'[q].at = req[q].at /\ req'[q].screen = req[q].screen
            /\ req'[q].mark = req[q].mark /\ req'[q].verdict = req[q].verdict
            /\ req'[q].exact = req[q].exact
  <2>1. req[q] \in Request
    BY <1>1
  <2> QED
    BY <1>3, <2>1 DEF Request
<1> QED
  BY <1>4, <1>5

\* A mark is a place, exact or not; an exact one is behind all that can be read.
LEMMA MarksView ==
  ASSUME PreviewTypeOK, NEW r \in Shows, NEW m \in Marks(r)
  PROVE  m \in [mark : Nat, exact : BOOLEAN] /\ (m.exact => m.mark = seen)
<1>1. seen \in Nat /\ 0..Len(journal) \subseteq Nat
  BY DEF PreviewTypeOK
<1>2. CASE m = [mark |-> seen, exact |-> TRUE]
  BY <1>1, <1>2
<1>3. CASE \E k \in 0..Len(journal) : m = [mark |-> k, exact |-> FALSE]
  BY <1>1, <1>3
<1> QED
  BY <1>2, <1>3 DEF Marks

\* A line about one of the machine's screens is a line.
LEMMA LineTyped ==
  ASSUME PreviewTypeOK, NEW k \in {"complete", "failed", "cancelled", "unknown"}, NEW s \in Screens
  PROVE  /\ Append(journal, <<k, s>>) \in Seq(Lines)
         /\ seen \in 0..Len(Append(journal, <<k, s>>)) /\ seen \in 0..Len(journal)
<1>1. <<k, s>> \in Lines
  BY DEF Lines
<1>2. journal \in Seq(Lines) /\ seen \in Nat /\ seen <= Len(journal) /\ Len(journal) \in Nat
  BY DEF PreviewTypeOK
<1> QED
  BY <1>1, <1>2, AppendProperties

\* Closing a screen's relay keeps the types.
LEMMA CloseTyped ==
  ASSUME PreviewTypeOK, NEW s \in Screens, CloseRelay(s)
  PROVE  /\ table' \in [Screens -> 0..MaxShows]
         /\ relay' \in [Shows -> {"none", "serving", "closed"}]
BY PreviewAssumption DEF CloseRelay, PreviewTypeOK, Shows

\* So does sending a load.
LEMMA SendTyped ==
  ASSUME PreviewTypeOK, NEW r \in Shows, req[r].screen \in Screens,
         NEW j \in [Shows -> Jobs], NEW u \in [Screens -> 0..MaxShows], Send(r, j, u)
  PROVE  /\ job' \in [Shows -> Jobs] /\ up' \in [Screens -> 0..MaxShows]
         /\ journal' \in Seq(Lines) /\ seen \in 0..Len(journal')
         /\ previews' \in [Screens -> 0..MaxShows]
<1>1. journal' \in Seq(Lines) /\ seen \in 0..Len(journal')
  BY LineTyped DEF Send, PreviewTypeOK
<1>2. job' \in [Shows -> Jobs]
  BY DEF Send, Jobs
<1> QED
  BY <1>1, <1>2, PreviewAssumption DEF Send, PreviewTypeOK, Shows

\* A verdict keeps the types.
LEMMA VerdictTyped ==
  ASSUME PreviewTypeOK, NEW r \in Shows, req[r].screen \in Screens, NEW v \in Verdicts, NEW c,
         Verdict(r, v, c)
  PROVE  /\ req' \in [Shows -> Request] /\ lock' = 0
         /\ job' \in [Shows -> Jobs] /\ up' \in [Screens -> 0..MaxShows]
<1>1. req' \in [Shows -> Request] /\ lock' = 0
  BY Moves DEF Verdict
<1>2. job' \in [Shows -> Jobs] /\ up' \in [Screens -> 0..MaxShows]
  <2>1. Discard({req[r].screen}) \in [Shows -> Jobs] /\ Down({req[r].screen}) \in [Screens -> 0..MaxShows]
    BY DiscardView DEF Jobs
  <2> QED
    BY <2>1 DEF Verdict, UnloadIf, Unload, PreviewTypeOK, Jobs
<1> QED
  BY <1>1, <1>2

\* Every step keeps the types.
LEMMA TypeStep == IInv /\ [Next]_vars => PreviewTypeOK'
<1> SUFFICES ASSUME IInv, [Next]_vars PROVE PreviewTypeOK'
  OBVIOUS
<1>0. PreviewTypeOK /\ Placed
  BY DEF IInv, Known
<1>a. /\ engine \in {"idle", "loaded"} /\ loads \in 0..MaxLoads /\ known \in BOOLEAN
      /\ req \in [Shows -> Request] /\ lock \in 0..MaxShows
      /\ previews \in [Screens -> 0..MaxShows] /\ table \in [Screens -> 0..MaxShows]
      /\ relay \in [Shows -> {"none", "serving", "closed"}]
      /\ stopping \in [todo : SUBSET Screens, closing : Screens \cup {0}, all : BOOLEAN]
      /\ job \in [Shows -> Jobs] /\ up \in [Screens -> 0..MaxShows]
      /\ journal \in Seq(Lines) /\ seen \in 0..Len(journal)
  BY <1>0 DEF PreviewTypeOK
<1>b. Shows \subseteq 0..MaxShows /\ 0 \in 0..MaxShows
  BY PreviewAssumption DEF Shows
<1>1. CASE EngineLoads
  BY <1>0, <1>1, <1>a, DiscardView, PreviewAssumption DEF EngineLoads, bridgeVars, PreviewTypeOK
<1>2. CASE EngineUnloads \/ Frame \/ Drop \/ UNCHANGED vars
  BY <1>2, <1>a DEF EngineUnloads, Frame, Drop, vars, engineVars, vcVars, bridgeVars, PreviewTypeOK
<1>3. CASE Upload
  <2>1. seen' \in 0..Len(journal)
    BY <1>3, <1>a DEF Upload
  <2> QED
    BY <1>3, <1>a, <2>1 DEF Upload, engineVars, bridgeVars, PreviewTypeOK
<1>4. CASE VCRestarts
  <2>1. job' \in [Shows -> Jobs]
    BY <1>4, <1>a DEF VCRestarts, Jobs
  <2>2. up' \in [Screens -> 0..MaxShows]
    BY <1>0, <1>4, DiscardView DEF VCRestarts
  <2> QED
    BY <1>4, <1>a, <2>1, <2>2 DEF VCRestarts, engineVars, bridgeVars, PreviewTypeOK
<1>5. ASSUME NEW r \in Shows, VCEnds(r) PROVE PreviewTypeOK'
  <2>1. job[r] # "none"
    BY <1>5, <1>a DEF VCEnds, LoadEnds
  <2>2. req[r].screen \in Screens
    BY <1>0, <2>1 DEF Placed, Polled
  <2>3. journal' \in Seq(Lines) /\ seen \in 0..Len(journal')
    BY <1>0, <1>5, <2>2, LineTyped DEF VCEnds, LoadEnds, Line
  <2>4. job' \in [Shows -> Jobs] /\ up' \in [Screens -> 0..MaxShows]
    <3>1. {"complete", "over"} \subseteq Jobs
      BY DEF Jobs
    <3>2. r \in 0..MaxShows
      BY <1>b
    <3>3. \E j \in {"complete", "over"} : job' = [job EXCEPT ![r] = j]
      BY <1>5 DEF VCEnds, LoadEnds
    <3>4. up' = up \/ up' = [up EXCEPT ![req[r].screen] = r]
      BY <1>5 DEF VCEnds, LoadEnds
    <3>5. job' \in [Shows -> Jobs]
      BY <1>a, <3>1, <3>3
    <3>6. up' \in [Screens -> 0..MaxShows]
      BY <1>a, <2>2, <3>2, <3>4
    <3> QED
      BY <3>5, <3>6
  <2> QED
    BY <1>5, <1>a, <2>3, <2>4 DEF VCEnds, engineVars, bridgeVars, PreviewTypeOK
<1>6. ASSUME NEW r \in Shows, NEW s \in Screens, NEW relayed \in BOOLEAN, Show(r, s, relayed)
      PROVE  PreviewTypeOK'
  <2>1. req' \in [Shows -> Request]
    BY <1>0, <1>6, Moves DEF Show
  <2> QED
    BY <1>6, <1>a, <2>1 DEF Show, engineVars, vcVars, PreviewTypeOK
<1>7. ASSUME NEW r \in Shows, Resolved(r) \/ Routed(r) \/ ShowFails(r) PROVE PreviewTypeOK'
  <2>1. req' \in [Shows -> Request]
    <3>1. {"route", "refused", "mark"} \subseteq Places
      BY DEF Places
    <3> QED
      BY <1>0, <1>7, <3>1, Moves DEF Resolved, Routed, ShowFails, Refuse
  <2>2. lock' \in 0..MaxShows
    BY <1>7, <1>a, PreviewAssumption DEF Resolved, Routed, ShowFails, Refuse, Shows
  <2> QED
    BY <1>7, <1>a, <2>1, <2>2 DEF Resolved, Routed, ShowFails, engineVars, vcVars, PreviewTypeOK
<1>8. ASSUME NEW r \in Shows, Marked(r) PROVE PreviewTypeOK'
  <2>1. req[r].screen \in Screens /\ seen \in Nat
    BY <1>0, <1>8, <1>a DEF Marked, Placed
  <2>2. req' \in [Shows -> Request]
    <3>1. {"open", "poll"} \subseteq Places
      BY DEF Places
    <3>2. PICK m \in Marks(r) : WithMark(r, m, "open") \/ WithMark(r, m, "poll")
      BY <1>8 DEF Marked
    <3> QED
      BY <1>0, <3>1, <3>2, MarksView, MarkSet
  <2>3. /\ job' \in [Shows -> Jobs] /\ up' \in [Screens -> 0..MaxShows]
        /\ journal' \in Seq(Lines) /\ seen \in 0..Len(journal')
        /\ previews' \in [Screens -> 0..MaxShows]
    <3>1. /\ Discard({req[r].screen}) \in [Shows -> Jobs]
          /\ Down({req[r].screen}) \in [Screens -> 0..MaxShows]
      BY <1>0, <2>1, DiscardView
    <3> QED
      BY <1>0, <1>8, <1>a, <2>1, <3>1, SendTyped DEF Marked, Unload
  <2>4. table' \in [Screens -> 0..MaxShows] /\ relay' \in [Shows -> {"none", "serving", "closed"}]
    BY <1>0, <1>8, <2>1, CloseTyped DEF Marked
  <2> QED
    BY <1>8, <1>a, <2>2, <2>3, <2>4 DEF Marked, engineVars, PreviewTypeOK
<1>9. ASSUME NEW r \in Shows, Opened(r) PROVE PreviewTypeOK'
  <2>1. req[r].screen \in Screens
    BY <1>0, <1>9 DEF Opened, Placed
  <2>2. req' \in [Shows -> Request]
    <3>1. "poll" \in Places
      BY DEF Places
    <3> QED
      BY <1>0, <1>9, <3>1, Moves DEF Opened
  <2>3. /\ job' \in [Shows -> Jobs] /\ up' \in [Screens -> 0..MaxShows]
        /\ journal' \in Seq(Lines) /\ seen \in 0..Len(journal')
        /\ previews' \in [Screens -> 0..MaxShows]
    BY <1>0, <1>9, <1>a, <2>1, SendTyped DEF Opened
  <2>4. table' \in [Screens -> 0..MaxShows] /\ relay' \in [Shows -> {"none", "serving", "closed"}]
    <3>1. r \in 0..MaxShows
      BY <1>b
    <3>2. CASE req[r].relayed
      <4>1. /\ relay' = [relay EXCEPT ![r] = "serving"]
            /\ table' = [table EXCEPT ![req[r].screen] = r]
        BY <1>9, <3>2 DEF Opened
      <4> QED
        BY <1>a, <2>1, <3>1, <4>1
    <3>3. CASE ~req[r].relayed
      BY <1>9, <1>a, <3>3 DEF Opened
    <3> QED
      BY <3>2, <3>3
  <2> QED
    BY <1>9, <1>a, <2>2, <2>3, <2>4 DEF Opened, engineVars, PreviewTypeOK
<1>10. ASSUME NEW r \in Shows, Poll(r) \/ Refit(r) \/ TimesOut(r) \/ ConfirmFails(r) PROVE PreviewTypeOK'
  <2>1. req[r].screen \in Screens
    BY <1>0, <1>10 DEF Poll, Refit, TimesOut, ConfirmFails, Placed
  <2>2. Classify(r) \in Verdicts
    BY <1>0, ClassifyView DEF Verdicts
  <2>3. /\ req' \in [Shows -> Request] /\ lock' \in 0..MaxShows
        /\ job' \in [Shows -> Jobs] /\ up' \in [Screens -> 0..MaxShows]
    <3>1. ASSUME NEW v \in Verdicts, NEW c, Verdict(r, v, c)
          PROVE  /\ req' \in [Shows -> Request] /\ lock' \in 0..MaxShows
                 /\ job' \in [Shows -> Jobs] /\ up' \in [Screens -> 0..MaxShows]
      BY <1>0, <2>1, <3>1, VerdictTyped, PreviewAssumption
    <3>2. ASSUME NEW c, UnloadIf(c, req[r].screen), lock' = lock,
                 \/ req' = [req EXCEPT ![r].at = "refit", ![r].rechecked = FALSE]
                 \/ req' = [req EXCEPT ![r].rechecked = TRUE]
          PROVE  /\ req' \in [Shows -> Request] /\ lock' \in 0..MaxShows
                 /\ job' \in [Shows -> Jobs] /\ up' \in [Screens -> 0..MaxShows]
      <4>1. job' \in [Shows -> Jobs] /\ up' \in [Screens -> 0..MaxShows]
        <5>1. {req[r].screen} \in SUBSET Screens
          BY <2>1
        <5>2. \/ job' = Discard({req[r].screen}) /\ up' = Down({req[r].screen})
              \/ UNCHANGED <<job, up>>
          BY <3>2 DEF UnloadIf, Unload
        <5>3. /\ Discard({req[r].screen}) \in [Shows -> Jobs]
              /\ Down({req[r].screen}) \in [Screens -> 0..MaxShows]
          BY <1>0, <5>1, DiscardView
        <5> QED
          BY <1>a, <5>2, <5>3
      <4>2. req' \in [Shows -> Request]
        BY <1>0, <3>2, Moves
      <4> QED
        BY <1>a, <3>2, <4>1, <4>2
    <3>3. {"failed", "unconfirmed"} \subseteq Verdicts
      BY DEF Verdicts
    <3>4. CASE Poll(r)
      BY <2>2, <3>1, <3>2, <3>3, <3>4 DEF Poll
    <3>5. CASE Refit(r)
      BY <2>2, <3>1, <3>3, <3>5 DEF Refit
    <3>6. CASE TimesOut(r) \/ ConfirmFails(r)
      BY <3>1, <3>3, <3>6 DEF TimesOut, ConfirmFails
    <3> QED
      BY <1>10, <3>4, <3>5, <3>6
  <2> QED
    BY <1>10, <1>a, <2>3 DEF Poll, Refit, TimesOut, ConfirmFails, engineVars, PreviewTypeOK
<1>11. ASSUME NEW r \in Shows, Watch(r) PROVE PreviewTypeOK'
  BY <1>11, <1>a DEF Watch, engineVars, vcVars, PreviewTypeOK
<1>12. ASSUME NEW S \in SUBSET Screens, Stop(S) PROVE PreviewTypeOK'
  BY <1>12, <1>a DEF Stop, engineVars, vcVars, PreviewTypeOK
<1>13. ASSUME NEW s \in Screens, StopScreen(s) PROVE PreviewTypeOK'
  <2>1. /\ table' \in [Screens -> 0..MaxShows] /\ relay' \in [Shows -> {"none", "serving", "closed"}]
        /\ job' \in [Shows -> Jobs] /\ up' \in [Screens -> 0..MaxShows]
    BY <1>0, <1>13, DiscardView, CloseTyped DEF StopScreen, Unload
  <2>2. req' \in [Shows -> Request]
    BY <1>0, <1>13, <1>a, MarkTyped DEF StopScreen
  <2>3. stopping' \in [todo : SUBSET Screens, closing : Screens \cup {0}, all : BOOLEAN]
    <3>1. stopping.todo \ {s} \in SUBSET Screens /\ s \in Screens \cup {0}
          /\ stopping.closing \in Screens \cup {0} /\ stopping.all \in BOOLEAN
      BY <1>a
    <3>2. \/ stopping' = [stopping EXCEPT !.todo = @ \ {s}]
          \/ stopping' = [stopping EXCEPT !.todo = @ \ {s}, !.closing = s]
      BY <1>13 DEF StopScreen
    <3> QED
      BY <1>a, <3>1, <3>2
  <2> QED
    BY <1>13, <1>a, <2>1, <2>2, <2>3 DEF StopScreen, engineVars, PreviewTypeOK
<1>14. CASE RelayStopped
  <2>1. req' \in [Shows -> Request]
    BY <1>0, <1>14, <1>a, MarkTyped DEF RelayStopped
  <2> QED
    BY <1>14, <1>a, <2>1 DEF RelayStopped, engineVars, vcVars, PreviewTypeOK
<1>15. CASE StopEnds
  <2>1. table' \in [Screens -> 0..MaxShows] /\ relay' \in [Shows -> {"none", "serving", "closed"}]
    <3>1. CASE stopping.all
      <4>1. table' \in [Screens -> 0..MaxShows]
        BY <1>15, <1>b, <3>1 DEF StopEnds
      <4>2. relay' \in [Shows -> {"none", "serving", "closed"}]
        BY <1>15, <1>a, <3>1 DEF StopEnds
      <4> QED
        BY <4>1, <4>2
    <3>2. CASE ~stopping.all
      BY <1>15, <1>a, <3>2 DEF StopEnds
    <3> QED
      BY <3>1, <3>2
  <2>2. stopping' \in [todo : SUBSET Screens, closing : Screens \cup {0}, all : BOOLEAN]
    BY <1>15 DEF StopEnds, NoStop
  <2> QED
    BY <1>15, <1>a, <2>1, <2>2 DEF StopEnds, engineVars, vcVars, PreviewTypeOK
<1>16. {Screens} \cup {{s} : s \in Screens} \subseteq SUBSET Screens
  OBVIOUS
<1>17. \A r : {FALSE, (r \in Relayed)} \subseteq BOOLEAN
  OBVIOUS
<1> QED
  BY <1>1, <1>2, <1>3, <1>4, <1>5, <1>6, <1>7, <1>8, <1>9, <1>10, <1>11, <1>12, <1>13, <1>14,
     <1>15, <1>16, <1>17 DEF Next, Progress
-----------------------------------------------------------------------------

\* A job stays, or is stopped.
OnlyStops(q) ==
  \/ job'[q] = job[q]
  \/ job[q] = "loading" /\ job'[q] \in {"cancelled", "over"}
  \/ job[q] = "cancelled" /\ job'[q] = "over"

\* A step that sends, ends and decides nothing: loads and relays may stop, lines
\* may arrive, and a request that has read a completion may wait for the fit line.
Quiet ==
  /\ \A q \in Shows :
       /\ req'[q].screen = req[q].screen /\ req'[q].mark = req[q].mark
       /\ req'[q].verdict = req[q].verdict /\ req'[q].exact = req[q].exact
       /\ \/ req'[q].at = req[q].at
          \/ req[q].at = "poll" /\ req'[q].at = "refit" /\ HasRead(q, req[q].screen)
  /\ lock' = lock /\ previews' = previews /\ journal' = journal
  /\ seen' \in Nat /\ seen <= seen' /\ seen' <= Len(journal)
  /\ \A q \in Shows : OnlyStops(q)
  /\ \A s \in Screens : up'[s] \in {0, up[s]} /\ table'[s] \in {0, table[s]}
  /\ \A q \in Shows : relay'[q] = "serving" =>
       relay[q] = "serving" /\ table'[req[q].screen] = table[req[q].screen]

\* What a quiet step leaves.
LEMMA QuietKnown == IInv /\ Quiet => Known'
<1> SUFFICES ASSUME IInv, Quiet PROVE Known'
  OBVIOUS
<1>0. PreviewTypeOK /\ OneAtATime /\ Placed /\ LoadIsKnown /\ OpenIsClear /\ ScreensAreKnown
  BY DEF IInv, Known
<1>a. /\ \A q \in Shows : /\ req[q].mark \in Nat
                          /\ job'[q] = "loading" => job[q] = "loading"
                          /\ job'[q] # "none" => job[q] # "none"
      /\ seen \in Nat /\ seen <= seen' /\ seen' \in Nat
  BY <1>0 DEF PreviewTypeOK, Request, Quiet, OnlyStops
<1>b. \A q \in Shows : /\ req'[q].screen = req[q].screen /\ req'[q].mark = req[q].mark
                       /\ req'[q].verdict = req[q].verdict /\ req'[q].exact = req[q].exact
                       /\ \/ req'[q].at = req[q].at
                          \/ req[q].at = "poll" /\ req'[q].at = "refit"
  BY DEF Quiet
<1>1. OneAtATime'
  BY <1>0, <1>b DEF OneAtATime, Quiet
<1>2. Placed'
  <2>1. ASSUME NEW q \in Shows
        PROVE  /\ req'[q].at # "none" => req'[q].screen \in Screens
               /\ job'[q] # "none" => req'[q].at \in Polled \cup {"done"}
               /\ relay'[q] = "serving" => req'[q].at # "none"
               /\ req'[q].verdict # "pending" => req'[q].at = "done"
    BY <1>0, <1>a, <1>b DEF Placed, Quiet, Polled
  <2>2. ASSUME NEW q \in Shows, req'[q].exact, req'[q].at \in Polled \cup {"open"}
        PROVE  req'[q].mark <= seen'
    <3>1. req[q].mark <= seen /\ req'[q].mark = req[q].mark
      BY <1>0, <1>b, <2>2 DEF Placed, Polled
    <3> QED
      BY <1>a, <3>1
  <2> QED
    BY <2>1, <2>2 DEF Placed
<1>3. LoadIsKnown'
  <2>1. previews' = previews
    BY DEF Quiet
  <2> QED
    BY <1>0, <1>a, <1>b, <2>1 DEF LoadIsKnown, Polled
<1>4. OpenIsClear'
  <2>1. ASSUME NEW r \in Shows, req'[r].at = "open"
        PROVE  /\ up'[req'[r].screen] = 0 /\ table'[req'[r].screen] = 0
               /\ \A q \in Shows : job'[q] = "loading" => req'[q].screen # req'[r].screen
    <3>1. /\ req[r].screen \in Screens /\ up[req[r].screen] = 0 /\ table[req[r].screen] = 0
          /\ \A q \in Shows : job[q] = "loading" => req[q].screen # req[r].screen
      BY <1>0, <1>b, <2>1 DEF OpenIsClear, Placed
    <3> QED
      BY <1>a, <1>b, <3>1 DEF Quiet
  <2> QED
    BY <2>1 DEF OpenIsClear
<1>5. ScreensAreKnown'
  BY <1>0, <1>b DEF ScreensAreKnown, Quiet
<1> QED
  BY <1>1, <1>2, <1>3, <1>4, <1>5 DEF Known

LEMMA QuietOwned == IInv /\ Quiet => Owned'
<1> SUFFICES ASSUME IInv, Quiet PROVE Owned'
  OBVIOUS
<1>0. PreviewTypeOK /\ Owned
  BY DEF IInv
<1>a. /\ \A q \in Shows : /\ req[q].mark \in Nat
                          /\ job'[q] = "loading" => job[q] = "loading"
                          /\ job'[q] = "complete" <=> job[q] = "complete"
      /\ seen \in Nat /\ seen <= seen' /\ seen' \in Nat /\ seen' <= Len(journal)
      /\ Len(journal) \in Nat /\ journal' = journal
  BY <1>0 DEF PreviewTypeOK, Request, Quiet, OnlyStops
<1>b. \A q \in Shows : /\ req'[q].screen = req[q].screen /\ req'[q].mark = req[q].mark
                       /\ req'[q].verdict = req[q].verdict /\ req'[q].exact = req[q].exact
                       /\ \/ req'[q].at = req[q].at
                          \/ req[q].at = "poll" /\ req'[q].at = "refit" /\ HasRead(q, req[q].screen)
  BY DEF Quiet
<1>c. \A s : Given(s)' <=> Given(s)
  BY <1>a, <1>b DEF Given, GivenUp
<1>d. \A k, s : Complete(k, s)' <=> Complete(k, s)
  BY <1>a DEF Complete
<1>1. CompletesOnce'
  <2>1. ASSUME NEW r \in Shows, NEW s \in Screens, req'[r].screen = s, req'[r].exact,
               req'[r].at \in Polled \cup {"open"}, ~Given(s)',
               NEW k \in Nat, NEW l \in Nat, k > req'[r].mark, Complete(k, s)'
        PROVE  /\ job'[r] = "complete"
               /\ l > req'[r].mark /\ Complete(l, s)' => k = l
    <3>1. req[r].exact /\ req[r].at \in Polled \cup {"open"} /\ ~Given(s) /\ req[r].screen = s
      BY <1>b, <1>c, <2>1 DEF Polled
    <3> QED
      BY <1>0, <1>a, <1>b, <1>d, <2>1, <3>1 DEF Owned, CompletesOnce
  <2> QED
    BY <2>1 DEF CompletesOnce
<1>2. UnreadIsPolled'
  <2>1. ASSUME NEW s \in Screens, ~Given(s)', NEW k \in Nat, k > seen', Complete(k, s)'
        PROVE  \E r \in Shows : req'[r].at \in Polled /\ req'[r].screen = s /\ job'[r] = "complete"
    <3>1. \E r \in Shows : req[r].at \in Polled /\ req[r].screen = s /\ job[r] = "complete"
      BY <1>0, <1>a, <1>c, <1>d, <2>1 DEF Owned, UnreadIsPolled
    <3> QED
      BY <1>a, <1>b, <3>1 DEF Polled
  <2> QED
    BY <2>1 DEF UnreadIsPolled
<1>3. LeftIsGiven'
  BY <1>0, <1>a, <1>b, <1>c DEF Owned, LeftIsGiven
<1>4. RefitHasRead'
  <2>1. ASSUME NEW r \in Shows, NEW s \in Screens, req'[r].screen = s, req'[r].at = "refit"
        PROVE  HasRead(r, s)'
    <3>1. HasRead(r, s)
      BY <1>0, <1>b, <2>1 DEF Owned, RefitHasRead
    <3> QED
      BY <1>a, <1>b, <1>d, <3>1 DEF HasRead
  <2> QED
    BY <2>1 DEF RefitHasRead
<1>5. FramesAreOwn'
  BY <1>0, <1>a, <1>b, <1>c DEF Owned, FramesAreOwn
<1>6. Orderly'
  <2> SUFFICES ASSUME ~Unsettled' PROVE Orderly'
    BY DEF Orderly
  <2>1. ~Unsettled
    BY <1>b DEF Unsettled
  <2>2. (\A r \in Shows : req'[r].at \notin Polled) => seen' = Len(journal')
    BY <1>0, <1>a, <1>b, <2>1 DEF Owned, Orderly, Polled
  <2>3. \A r \in Shows : req'[r].at = "done" => job'[r] \notin {"loading", "cancelled"}
    BY <1>0, <1>b, <2>1 DEF Owned, Orderly, Quiet, OnlyStops
  <2>4. \A r \in Shows : req'[r].exact /\ req'[r].at = "open" => req'[r].mark = Len(journal')
    BY <1>0, <1>a, <1>b, <2>1 DEF Owned, Orderly
  <2>5. ASSUME NEW r \in Shows, req'[r].exact, req'[r].at \in Polled, NEW k \in DOMAIN journal, k > req'[r].mark
        PROVE  /\ journal[k][1] = "unknown" => r \in Early
               /\ journal[k][1] # "unknown" => k = Len(journal) /\ job'[r] \in {"complete", "over"}
               /\ journal[k][1] = "complete" => job'[r] = "complete"
    BY <1>0, <1>b, <2>1, <2>5 DEF Owned, Orderly, Polled, Quiet, OnlyStops
  <2>6. \A r \in Shows : req'[r].verdict = "frames" => job'[r] = "complete"
    BY <1>0, <1>a, <1>b, <2>1 DEF Owned, Orderly
  <2> QED
    BY <1>a, <2>2, <2>3, <2>4, <2>5, <2>6 DEF Orderly
<1> QED
  BY <1>1, <1>2, <1>3, <1>4, <1>5, <1>6 DEF Owned

\* Unloading layers only stops loads and clears screens.
LEMMA UnloadStops ==
  ASSUME PreviewTypeOK, NEW S \in SUBSET Screens,
         \/ job' = Discard(S) /\ up' = Down(S)
         \/ UNCHANGED <<job, up>>
  PROVE  /\ \A q \in Shows : OnlyStops(q)
         /\ \A s \in Screens : up'[s] \in {0, up[s]}
BY DiscardView DEF OnlyStops

\* A relay that listens is of a request with a screen.
LEMMA ServingHasScreen ==
  ASSUME IInv, NEW q \in Shows, relay[q] = "serving"
  PROVE  req[q].screen \in Screens /\ table[req[q].screen] = q
BY DEF IInv, Known, Placed, ScreensAreKnown

\* Closing a screen's relay leaves the relays of the other screens.
LEMMA ClosesOne ==
  ASSUME IInv, NEW s \in Screens, CloseRelay(s)
  PROVE  /\ table'[s] = 0 /\ \A x \in Screens : table'[x] \in {0, table[x]}
         /\ \A q \in Shows : relay'[q] = "serving" =>
              /\ relay[q] = "serving" /\ req[q].screen # s
              /\ table'[req[q].screen] = table[req[q].screen]
<1>1. /\ relay \in [Shows -> {"none", "serving", "closed"}] /\ table \in [Screens -> 0..MaxShows]
      /\ 0 \notin Shows
  BY DEF IInv, PreviewTypeOK, Shows
<1>2. table'[s] = 0 /\ \A x \in Screens : x # s => table'[x] = table[x]
  BY <1>1 DEF CloseRelay
<1>3. ASSUME NEW q \in Shows, relay'[q] = "serving"
      PROVE  relay[q] = "serving" /\ req[q].screen # s /\ req[q].screen \in Screens
  <2>1. relay[q] = "serving" /\ table[s] # q
    BY <1>1, <1>3 DEF CloseRelay
  <2> QED
    BY <2>1, ServingHasScreen
<1> QED
  BY <1>2, <1>3

\* The steps that are quiet.
LEMMA QuietSteps ==
  ASSUME IInv,
         \/ EngineLoads \/ EngineUnloads \/ Frame \/ Drop \/ Upload \/ VCRestarts
         \/ \E r \in Shows : Watch(r)
         \/ \E S \in SUBSET Screens : Stop(S)
         \/ \E s \in Screens : StopScreen(s)
         \/ RelayStopped \/ StopEnds \/ UNCHANGED vars
  PROVE  Quiet
<1>0. PreviewTypeOK /\ ScreensAreKnown
  BY DEF IInv, Known
<1>a. /\ seen \in Nat /\ seen <= Len(journal) /\ Len(journal) \in Nat
      /\ relay \in [Shows -> {"none", "serving", "closed"}] /\ job \in [Shows -> Jobs]
      /\ table \in [Screens -> 0..MaxShows] /\ up \in [Screens -> 0..MaxShows]
      /\ stopping.closing \in Screens \cup {0}
  BY <1>0 DEF PreviewTypeOK
<1>1. CASE EngineLoads
  <2>1. (\A q \in Shows : OnlyStops(q)) /\ \A s \in Screens : up'[s] \in {0, up[s]}
    BY <1>0, <1>1, UnloadStops DEF EngineLoads
  <2> QED
    BY <1>1, <1>a, <2>1 DEF Quiet, EngineLoads, bridgeVars
<1>2. CASE EngineUnloads \/ Frame \/ Drop \/ UNCHANGED vars
  BY <1>2, <1>a DEF Quiet, OnlyStops, EngineUnloads, Frame, Drop, vars, engineVars, vcVars, bridgeVars
<1>3. CASE Upload
  BY <1>3, <1>a DEF Quiet, OnlyStops, Upload, bridgeVars
<1>4. CASE VCRestarts
  <2>1. \A q \in Shows : OnlyStops(q)
    BY <1>4, <1>a DEF VCRestarts, OnlyStops
  <2>2. \A s \in Screens : up'[s] = 0
    BY <1>4 DEF VCRestarts, Down
  <2> QED
    BY <1>4, <1>a, <2>1, <2>2 DEF Quiet, VCRestarts, bridgeVars
<1>5. ASSUME NEW r \in Shows, Watch(r) PROVE Quiet
  BY <1>5, <1>a DEF Quiet, OnlyStops, Watch, vcVars
<1>6. ASSUME NEW S \in SUBSET Screens, Stop(S) PROVE Quiet
  BY <1>6, <1>a DEF Quiet, OnlyStops, Stop, vcVars
<1>7. ASSUME NEW s \in Screens, StopScreen(s) PROVE Quiet
  <2>1. (\A q \in Shows : OnlyStops(q)) /\ \A x \in Screens : up'[x] \in {0, up[x]}
    <3>1. {s} \in SUBSET Screens /\ job' = Discard({s}) /\ up' = Down({s})
      BY <1>7 DEF StopScreen, Unload
    <3> QED
      BY <1>0, <3>1, UnloadStops
  <2>2. \A q \in Shows : /\ req'[q].screen = req[q].screen /\ req'[q].mark = req[q].mark
                         /\ req'[q].verdict = req[q].verdict /\ req'[q].at = req[q].at
                         /\ req'[q].exact = req[q].exact
    BY <1>0, <1>7, MarkTyped DEF StopScreen
  <2>3. /\ \A x \in Screens : table'[x] \in {0, table[x]}
        /\ \A q \in Shows : relay'[q] = "serving" =>
             relay[q] = "serving" /\ table'[req[q].screen] = table[req[q].screen]
    BY <1>0, <1>7, <1>a, ClosesOne DEF StopScreen
  <2> QED
    <3>1. lock' = lock /\ previews' = previews /\ journal' = journal /\ seen' = seen
      BY <1>7 DEF StopScreen
    <3> QED
      BY <1>a, <2>1, <2>2, <2>3, <3>1 DEF Quiet
<1>8. CASE RelayStopped
  <2>1. \A q \in Shows : /\ req'[q].screen = req[q].screen /\ req'[q].mark = req[q].mark
                         /\ req'[q].verdict = req[q].verdict /\ req'[q].at = req[q].at
                         /\ req'[q].exact = req[q].exact
    BY <1>0, <1>8, <1>a, MarkTyped DEF RelayStopped
  <2> QED
    BY <1>8, <1>a, <2>1 DEF Quiet, OnlyStops, RelayStopped, vcVars
<1>9. CASE StopEnds
  <2>1. /\ \A x \in Screens : table'[x] \in {0, table[x]}
        /\ \A q \in Shows : relay'[q] = "serving" =>
             relay[q] = "serving" /\ table'[req[q].screen] = table[req[q].screen]
    <3>1. CASE stopping.all
      <4>1. ASSUME NEW q \in Shows, relay'[q] = "serving" PROVE FALSE
        <5>1. relay[q] = "serving" /\ ~\E s \in Screens : table[s] = q
          BY <1>9, <3>1, <4>1 DEF StopEnds
        <5> QED
          BY <1>0, <5>1, ServingHasScreen DEF ScreensAreKnown
      <4> QED
        BY <1>9, <3>1, <4>1 DEF StopEnds
    <3>2. CASE ~stopping.all
      BY <1>9, <3>2 DEF StopEnds
    <3> QED
      BY <3>1, <3>2
  <2> QED
    BY <1>9, <1>a, <2>1 DEF Quiet, OnlyStops, StopEnds, vcVars
<1> QED
  BY <1>1, <1>2, <1>3, <1>4, <1>5, <1>6, <1>7, <1>8, <1>9

-----------------------------------------------------------------------------

\* A step of request r before the old preview is touched, or one that ends it there.
Waits(r) ==
  /\ UNCHANGED <<job, up, journal, seen, previews, table, relay>>
  /\ \A q \in Shows : q # r => req'[q] = req[q]
  /\ req[r].at \in {"none", "resolve", "route", "mark", "open"}
  /\ req'[r].at \in {"resolve", "route", "mark", "refused"}
  /\ req'[r].screen \in Screens
  /\ req[r].at # "none" => req'[r].screen = req[r].screen
  /\ req'[r].verdict = req[r].verdict /\ req'[r].exact = req[r].exact
  /\ IF req'[r].at \in Held THEN lock \in {0, r} /\ lock' = r
     ELSE IF lock = r THEN lock' = 0 ELSE lock' = lock

LEMMA WaitsKnown == ASSUME IInv, NEW r \in Shows, Waits(r) PROVE Known'
<1>0. PreviewTypeOK /\ OneAtATime /\ Placed /\ LoadIsKnown /\ OpenIsClear /\ ScreensAreKnown
  BY DEF IInv, Known
<1>a. req[r].verdict = "pending" /\ job[r] = "none" /\ 0 \notin Shows
  BY <1>0 DEF Placed, Polled, Waits, Shows
<1>b. \A q \in Shows : /\ q # r => req'[q] = req[q]
                       /\ req'[q].at \in Polled \cup {"open"} => q # r
  BY DEF Waits, Polled
<1>c. UNCHANGED <<job, up, journal, seen, previews, table, relay>>
  BY DEF Waits
<1>1. OneAtATime'
  BY <1>0, <1>a DEF OneAtATime, Waits, Held
<1>2. Placed'
  BY <1>0, <1>a, <1>b, <1>c DEF Placed, Waits
<1>3. LoadIsKnown'
  BY <1>0, <1>a, <1>b, <1>c DEF LoadIsKnown
<1>4. OpenIsClear'
  BY <1>0, <1>a, <1>b, <1>c DEF OpenIsClear
<1>5. ScreensAreKnown'
  BY <1>0, <1>b, <1>c DEF ScreensAreKnown, Placed, Waits
<1> QED
  BY <1>1, <1>2, <1>3, <1>4, <1>5 DEF Known

LEMMA WaitsOwned == ASSUME IInv, NEW r \in Shows, Waits(r) PROVE Owned'
<1>0. PreviewTypeOK /\ Placed /\ Owned
  BY DEF IInv, Known
<1>a. req[r].verdict = "pending" /\ job[r] = "none" /\ req[r].at \notin Polled \cup {"done"}
  BY <1>0 DEF Placed, Polled, Waits
<1>b. \A q \in Shows : /\ q # r => req'[q] = req[q]
                       /\ req'[q].at \in Polled \cup {"open", "done", "refit"} => q # r
                       /\ req'[q].verdict = req[q].verdict /\ req'[q].exact = req[q].exact
  BY DEF Waits, Polled
<1>c. UNCHANGED <<job, journal, seen>>
  BY DEF Waits
<1>d. \A s \in Screens : Given(s)' <=> Given(s)
  BY <1>a, <1>b, <1>c DEF Given, GivenUp
<1>e. \A k, s : Complete(k, s)' <=> Complete(k, s)
  BY <1>c DEF Complete
<1>1. CompletesOnce'
  <2>1. ASSUME NEW q \in Shows, NEW s \in Screens, req'[q].screen = s, req'[q].exact,
               req'[q].at \in Polled \cup {"open"}, ~Given(s)',
               NEW k \in Nat, NEW l \in Nat, k > req'[q].mark, Complete(k, s)'
        PROVE  /\ job'[q] = "complete"
               /\ l > req'[q].mark /\ Complete(l, s)' => k = l
    <3>1. req'[q] = req[q] /\ ~Given(s) /\ Complete(k, s) /\ job' = job
      BY <1>b, <1>c, <1>d, <1>e, <2>1
    <3> QED
      BY <1>0, <1>e, <2>1, <3>1 DEF Owned, CompletesOnce
  <2> QED
    BY <2>1 DEF CompletesOnce
<1>2. UnreadIsPolled'
  <2>1. ASSUME NEW s \in Screens, ~Given(s)', NEW k \in Nat, k > seen', Complete(k, s)'
        PROVE  \E q \in Shows : req'[q].at \in Polled /\ req'[q].screen = s /\ job'[q] = "complete"
    <3>1. \E q \in Shows : req[q].at \in Polled /\ req[q].screen = s /\ job[q] = "complete"
      BY <1>0, <1>c, <1>d, <1>e, <2>1 DEF Owned, UnreadIsPolled
    <3> QED
      BY <1>a, <1>b, <1>c, <3>1
  <2> QED
    BY <2>1 DEF UnreadIsPolled
<1>3. LeftIsGiven'
  BY <1>0, <1>a, <1>b, <1>c, <1>d DEF Owned, LeftIsGiven
<1>4. RefitHasRead'
  <2>1. ASSUME NEW q \in Shows, NEW s \in Screens, req'[q].screen = s, req'[q].at = "refit"
        PROVE  HasRead(q, s)'
    <3>1. HasRead(q, s) /\ req'[q] = req[q]
      BY <1>0, <1>b, <2>1 DEF Owned, RefitHasRead
    <3> QED
      BY <1>c, <1>e, <3>1 DEF HasRead
  <2> QED
    BY <2>1 DEF RefitHasRead
<1>5. FramesAreOwn'
  BY <1>0, <1>a, <1>b, <1>c, <1>d DEF Owned, FramesAreOwn
<1>6. Orderly'
  <2> SUFFICES ASSUME ~Unsettled' PROVE Orderly'
    BY DEF Orderly
  <2>1. ~Unsettled
    BY <1>a, <1>b DEF Unsettled
  <2>2. (\A q \in Shows : req'[q].at \notin Polled) => seen' = Len(journal')
    BY <1>0, <1>a, <1>b, <1>c, <2>1 DEF Owned, Orderly
  <2>3. ASSUME NEW q \in Shows
        PROVE  /\ req'[q].at = "done" => job'[q] \notin {"loading", "cancelled"}
               /\ req'[q].exact /\ req'[q].at = "open" => req'[q].mark = Len(journal')
               /\ req'[q].verdict = "frames" => job'[q] = "complete"
    BY <1>0, <1>b, <1>c, <2>1 DEF Owned, Orderly
  <2>4. ASSUME NEW q \in Shows, req'[q].exact, req'[q].at \in Polled, NEW k \in DOMAIN journal, k > req'[q].mark
        PROVE  /\ journal[k][1] = "unknown" => q \in Early
               /\ journal[k][1] # "unknown" => k = Len(journal) /\ job[q] \in {"complete", "over"}
               /\ journal[k][1] = "complete" => job[q] = "complete"
    BY <1>0, <1>b, <2>1, <2>4 DEF Owned, Orderly
  <2> QED
    BY <1>c, <2>2, <2>3, <2>4 DEF Orderly
<1> QED
  BY <1>1, <1>2, <1>3, <1>4, <1>5, <1>6 DEF Owned

\* The steps that wait.
LEMMA WaitSteps ==
  ASSUME IInv, NEW r \in Shows,
         \/ \E s \in Screens, relayed \in BOOLEAN : Show(r, s, relayed)
         \/ Resolved(r) \/ Routed(r) \/ ShowFails(r)
  PROVE  Waits(r)
<1>0. PreviewTypeOK /\ OneAtATime /\ Placed
  BY DEF IInv, Known
<1>1. req[r] \in Request /\ {"resolve", "route", "mark", "refused"} \subseteq Places /\ r # 0
  BY <1>0 DEF PreviewTypeOK, Places, Shows
<1>2. ASSUME NEW s \in Screens, NEW relayed \in BOOLEAN, Show(r, s, relayed) PROVE Waits(r)
  <2>1. /\ req'[r] = [req[r] EXCEPT !.at = "resolve", !.screen = s, !.relayed = relayed]
        /\ \A q \in Shows : q # r => req'[q] = req[q]
    BY <1>0, <1>2, Moves DEF Show
  <2>2. req'[r].at = "resolve" /\ req'[r].screen = s /\ req'[r].verdict = req[r].verdict
        /\ req'[r].exact = req[r].exact
    BY <1>1, <2>1 DEF Request
  <2>3. lock # r
    BY <1>0, <1>2 DEF OneAtATime, Show
  <2> QED
    BY <1>2, <2>1, <2>2, <2>3 DEF Waits, Show, vcVars, Held
<1>3. ASSUME NEW p \in {"route", "mark", "refused"}, At(r, p), 
             req[r].at \in {"resolve", "route", "mark", "open"}
      PROVE  /\ req'[r].at = p /\ req'[r].screen = req[r].screen /\ req'[r].screen \in Screens
             /\ req'[r].verdict = req[r].verdict /\ req'[r].exact = req[r].exact
             /\ \A q \in Shows : q # r => req'[q] = req[q]
  <2>1. req'[r] = [req[r] EXCEPT !.at = p] /\ \A q \in Shows : q # r => req'[q] = req[q]
    BY <1>0, <1>1, <1>3, Moves
  <2>2. req'[r].at = p /\ req'[r].screen = req[r].screen /\ req'[r].verdict = req[r].verdict
        /\ req'[r].exact = req[r].exact
    BY <1>1, <2>1 DEF Request
  <2> QED
    BY <1>0, <1>3, <2>1, <2>2 DEF Placed
<1>4. CASE Resolved(r)
  <2>1. lock # r
    BY <1>0, <1>4 DEF OneAtATime, Resolved
  <2> QED
    BY <1>1, <1>3, <1>4, <2>1 DEF Waits, Resolved, vcVars, Held
<1>5. CASE Routed(r)
  <2>1. lock = r
    BY <1>0, <1>5 DEF OneAtATime, Routed
  <2>2. /\ UNCHANGED <<job, up, journal, seen, previews, table, relay>> /\ req[r].at = "route"
        /\ \/ At(r, "mark") /\ lock' = lock
           \/ At(r, "refused") /\ lock' = 0
    BY <1>5 DEF Routed, Refuse, vcVars
  <2>3. CASE At(r, "mark") /\ lock' = lock
    BY <1>3, <2>1, <2>2, <2>3 DEF Waits, Held
  <2>4. CASE At(r, "refused") /\ lock' = 0
    BY <1>3, <2>1, <2>2, <2>4 DEF Waits, Held
  <2> QED
    BY <2>2, <2>3, <2>4
<1>6. CASE ShowFails(r)
  <2>1. lock = r
    BY <1>0, <1>6 DEF OneAtATime, ShowFails
  <2>2. /\ UNCHANGED <<job, up, journal, seen, previews, table, relay>> /\ req[r].at \in {"mark", "open"}
        /\ At(r, "refused") /\ lock' = 0
    BY <1>6 DEF ShowFails, Refuse, vcVars
  <2> QED
    BY <1>3, <2>1, <2>2 DEF Waits, Held
<1> QED
  BY <1>2, <1>4, <1>5, <1>6

-----------------------------------------------------------------------------

\* The journal after one more line.
LEMMA LineView ==
  ASSUME PreviewTypeOK, NEW l \in Lines, journal' = Append(journal, l)
  PROVE  /\ Len(journal) \in Nat /\ seen \in Nat /\ seen <= Len(journal)
         /\ DOMAIN journal = 1..Len(journal) /\ DOMAIN journal' = 1..Len(journal')
         /\ Len(journal') = Len(journal) + 1 /\ journal'[Len(journal')] = l
         /\ \A k \in DOMAIN journal : k \in DOMAIN journal' /\ journal'[k] = journal[k]
         /\ \A k \in DOMAIN journal' : k \in DOMAIN journal \/ k = Len(journal')
<1>1. /\ journal \in Seq(Lines) /\ seen \in Nat /\ seen <= Len(journal) /\ Len(journal) \in Nat
      /\ DOMAIN journal = 1..Len(journal)
  BY DEF PreviewTypeOK
<1>2. /\ journal' \in Seq(Lines) /\ Len(journal') = Len(journal) + 1
      /\ journal'[Len(journal) + 1] = l
      /\ \A k \in 1..Len(journal) : journal'[k] = journal[k]
  BY <1>1, AppendProperties
<1>3. DOMAIN journal' = 1..Len(journal')
  BY <1>2
<1> QED
  BY <1>1, <1>2, <1>3

\* What the end of a load of request r leaves.
LEMMA EndView ==
  ASSUME IInv, NEW r \in Shows, VCEnds(r)
  PROVE  \E s \in Screens, k \in {"complete", "failed", "cancelled"} :
           /\ req[r].screen = s /\ journal' = Append(journal, <<k, s>>)
           /\ req[r].at \in Polled \cup {"done"}
           /\ \A q \in Shows : q # r => job'[q] = job[q]
           /\ \A x \in Screens : x # s => up'[x] = up[x]
           /\ IF k = "complete"
                THEN job[r] = "loading" /\ job'[r] = "complete" /\ up'[s] = r
                ELSE job[r] \in {"loading", "cancelled"} /\ job'[r] = "over" /\ up'[s] = up[s]
<1>1. /\ job \in [Shows -> Jobs] /\ up \in [Screens -> 0..MaxShows] /\ Placed
  BY DEF IInv, Known, PreviewTypeOK
<1>2. req[r].at \in Polled \cup {"done"} /\ req[r].screen \in Screens
  <2>1. job[r] # "none"
    BY DEF VCEnds, LoadEnds
  <2> QED
    BY <1>1, <2>1 DEF Placed, Polled
<1>3. CASE /\ job[r] = "loading" /\ job' = [job EXCEPT ![r] = "complete"]
           /\ up' = [up EXCEPT ![req[r].screen] = r] /\ Line("complete", req[r].screen)
  BY <1>1, <1>2, <1>3 DEF Line
<1>4. CASE /\ job[r] = "loading" /\ job' = [job EXCEPT ![r] = "over"]
           /\ UNCHANGED up /\ Line("failed", req[r].screen)
  BY <1>1, <1>2, <1>4 DEF Line
<1>5. CASE /\ job[r] = "cancelled" /\ job' = [job EXCEPT ![r] = "over"]
           /\ UNCHANGED up /\ Line("cancelled", req[r].screen)
  BY <1>1, <1>2, <1>5 DEF Line
<1> QED
  BY <1>3, <1>4, <1>5 DEF VCEnds, LoadEnds

LEMMA EndKnown == ASSUME IInv, NEW r \in Shows, VCEnds(r) PROVE Known'
<1>0. PreviewTypeOK /\ OneAtATime /\ Placed /\ LoadIsKnown /\ OpenIsClear /\ ScreensAreKnown
  BY DEF IInv, Known
<1>c. UNCHANGED <<seen, req, lock, previews, table, relay>>
  BY DEF VCEnds, bridgeVars
<1>1. PICK s \in Screens, k \in {"complete", "failed", "cancelled"} :
           /\ req[r].screen = s /\ journal' = Append(journal, <<k, s>>)
           /\ req[r].at \in Polled \cup {"done"}
           /\ \A q \in Shows : q # r => job'[q] = job[q]
           /\ \A x \in Screens : x # s => up'[x] = up[x]
           /\ IF k = "complete"
                THEN job[r] = "loading" /\ job'[r] = "complete" /\ up'[s] = r
                ELSE job[r] \in {"loading", "cancelled"} /\ job'[r] = "over" /\ up'[s] = up[s]
  BY EndView
<1>a. \A q \in Shows : /\ job'[q] = "loading" => job[q] = "loading"
                       /\ job'[q] # "none" => job[q] # "none"
  BY <1>1
<1>2. OneAtATime' /\ Placed' /\ LoadIsKnown'
  BY <1>0, <1>a, <1>c DEF OneAtATime, Placed, LoadIsKnown
<1>3. OpenIsClear'
  BY <1>0, <1>1, <1>a, <1>c DEF OpenIsClear, Placed
<1>4. ScreensAreKnown'
  BY <1>0, <1>1, <1>c DEF ScreensAreKnown, LoadIsKnown
<1> QED
  BY <1>2, <1>3, <1>4 DEF Known

LEMMA EndOwned == ASSUME IInv, NEW r \in Shows, VCEnds(r) PROVE Owned'
<1>0. PreviewTypeOK /\ OneAtATime /\ Placed /\ LoadIsKnown /\ OpenIsClear /\ Owned
  BY DEF IInv, Known
<1>c. UNCHANGED <<seen, req>>
  BY DEF VCEnds, bridgeVars
<1>1. PICK s \in Screens, k \in {"complete", "failed", "cancelled"} :
           /\ req[r].screen = s /\ journal' = Append(journal, <<k, s>>)
           /\ req[r].at \in Polled \cup {"done"}
           /\ \A q \in Shows : q # r => job'[q] = job[q]
           /\ \A x \in Screens : x # s => up'[x] = up[x]
           /\ IF k = "complete"
                THEN job[r] = "loading" /\ job'[r] = "complete" /\ up'[s] = r
                ELSE job[r] \in {"loading", "cancelled"} /\ job'[r] = "over" /\ up'[s] = up[s]
  BY EndView
<1>2. /\ Len(journal) \in Nat /\ seen \in Nat /\ seen <= Len(journal)
      /\ DOMAIN journal = 1..Len(journal) /\ DOMAIN journal' = 1..Len(journal')
      /\ Len(journal') = Len(journal) + 1 /\ journal'[Len(journal')] = <<k, s>>
      /\ \A i \in DOMAIN journal : i \in DOMAIN journal' /\ journal'[i] = journal[i]
      /\ \A i \in DOMAIN journal' : i \in DOMAIN journal \/ i = Len(journal')
  <2>1. <<k, s>> \in Lines
    BY DEF Lines
  <2> QED
    BY <1>0, <1>1, <2>1, LineView
<1>a. \A q \in Shows : /\ job'[q] = "loading" => job[q] = "loading"
                       /\ job[q] = "complete" => job'[q] = "complete"
  BY <1>1
<1>b. \A x \in Screens : Given(x) => Given(x)'
  BY <1>a, <1>c DEF Given, GivenUp
<1>d. \A i \in Nat, x \in Screens :
        /\ Complete(i, x) => Complete(i, x)' /\ i \in DOMAIN journal
        /\ Complete(i, x)' => \/ Complete(i, x)
                              \/ i = Len(journal') /\ x = s /\ k = "complete"
  BY <1>2 DEF Complete
<1>3. CompletesOnce'
  <2>1. ASSUME NEW q \in Shows, NEW x \in Screens, req[q].screen = x, req[q].exact,
               req[q].at \in Polled \cup {"open"}, ~Given(x)',
               NEW i \in Nat, i > req[q].mark, Complete(i, x)'
        PROVE  /\ job'[q] = "complete"
               /\ \A l \in Nat : l > req[q].mark /\ Complete(l, x)' => i = l
    <3>1. ~Given(x)
      BY <1>b, <2>1
    <3>2. CASE x = s /\ k = "complete"
      <4>1. q = r
        BY <1>0, <1>1, <2>1, <3>2 DEF OpenIsClear, LoadIsKnown, Polled
      <4>2. \A l \in Nat : l > req[q].mark => ~Complete(l, x)
        BY <1>0, <1>1, <2>1, <3>1, <3>2, <4>1 DEF Owned, CompletesOnce
      <4> QED
        BY <1>1, <1>d, <2>1, <3>2, <4>1, <4>2
    <3>3. CASE ~(x = s /\ k = "complete")
      <4>1. \A l \in Nat : Complete(l, x)' => Complete(l, x)
        BY <1>d, <3>3
      <4> QED
        BY <1>0, <1>a, <2>1, <3>1, <4>1 DEF Owned, CompletesOnce
    <3> QED
      BY <3>2, <3>3
  <2> QED
    BY <1>c, <2>1 DEF CompletesOnce
<1>4. UnreadIsPolled'
  <2>1. ASSUME NEW x \in Screens, ~Given(x)', NEW i \in Nat, i > seen, Complete(i, x)'
        PROVE  \E q \in Shows : req[q].at \in Polled /\ req[q].screen = x /\ job'[q] = "complete"
    <3>1. ~Given(x)
      BY <1>b, <2>1
    <3>2. CASE Complete(i, x)
      BY <1>0, <1>a, <2>1, <3>1, <3>2 DEF Owned, UnreadIsPolled
    <3>3. CASE x = s /\ k = "complete"
      <4>1. ASSUME req[r].at = "done" PROVE FALSE
        <5>1. ~(req[r].verdict = "frames" /\ req[r].exact)
          BY <1>0, <1>1, <3>1, <3>3, <4>1 DEF Owned, LeftIsGiven
        <5> QED
          BY <1>1, <1>c, <2>1, <3>3, <4>1, <5>1 DEF Given, GivenUp
      <4> QED
        BY <1>1, <3>3, <4>1
    <3> QED
      BY <1>d, <2>1, <3>2, <3>3
  <2> QED
    BY <1>c, <2>1 DEF UnreadIsPolled
<1>5. LeftIsGiven'
  BY <1>0, <1>a, <1>b, <1>c DEF Owned, LeftIsGiven
<1>6. RefitHasRead'
  <2>1. ASSUME NEW q \in Shows, NEW x \in Screens, req[q].screen = x, req[q].at = "refit"
        PROVE  HasRead(q, x)'
    <3>1. HasRead(q, x)
      BY <1>0, <2>1 DEF Owned, RefitHasRead
    <3> QED
      BY <1>c, <1>d, <3>1 DEF HasRead
  <2> QED
    BY <1>c, <2>1 DEF RefitHasRead
<1>7. FramesAreOwn'
  BY <1>0, <1>a, <1>b, <1>c DEF Owned, FramesAreOwn
<1>8. Orderly'
  <2> SUFFICES ASSUME ~Unsettled' PROVE Orderly'
    BY DEF Orderly
  <2>1. ~Unsettled
    BY <1>c DEF Unsettled
  <2>2. req[r].at \in Polled
    BY <1>0, <1>1, <2>1 DEF Owned, Orderly
  <2>3. ASSUME NEW q \in Shows, req[q].at \in {"open"} \cup Polled PROVE q = r
    BY <1>0, <2>2, <2>3 DEF OneAtATime, Polled
  <2>4. ASSUME NEW q \in Shows
        PROVE  /\ req[q].at = "done" => job'[q] \notin {"loading", "cancelled"}
               /\ req[q].at # "open"
               /\ req[q].verdict = "frames" => job'[q] = "complete"
    BY <1>0, <1>1, <1>a, <2>1, <2>2, <2>3 DEF Owned, Orderly, Polled
  <2>5. ASSUME req[r].exact, NEW i \in DOMAIN journal', i > req[r].mark
        PROVE  /\ journal'[i][1] = "unknown" => r \in Early
               /\ journal'[i][1] # "unknown" =>
                    i = Len(journal') /\ job'[r] \in {"complete", "over"}
               /\ journal'[i][1] = "complete" => job'[r] = "complete"
    <3>1. CASE i = Len(journal')
      BY <1>1, <1>2, <3>1
    <3>2. CASE i \in DOMAIN journal
      <4>1. job[r] \in {"loading", "cancelled"}
        BY <1>1
      <4>2. /\ journal[i][1] = "unknown" => r \in Early
            /\ journal[i][1] # "unknown" => job[r] \in {"complete", "over"}
        BY <1>0, <2>1, <2>2, <2>5, <3>2 DEF Owned, Orderly
      <4> QED
        BY <1>2, <3>2, <4>1, <4>2
    <3> QED
      BY <1>2, <2>5, <3>1, <3>2
  <2> QED
    BY <1>c, <2>2, <2>3, <2>4, <2>5 DEF Orderly
<1> QED
  BY <1>3, <1>4, <1>5, <1>6, <1>7, <1>8 DEF Owned

-----------------------------------------------------------------------------

\* The screen of request r is cleared for it.
Clears(r, s) ==
  /\ req[r].screen = s /\ req'[r].screen = s
  /\ req[r].at = "mark" /\ req'[r].at = "open" /\ (req'[r].exact => req'[r].mark = seen)
  /\ req'[r].verdict = req[r].verdict
  /\ \A q \in Shows : q # r => req'[q] = req[q]
  /\ UNCHANGED <<lock, previews, journal, seen>>
  /\ \A q \in Shows : OnlyStops(q) /\ ~(job'[q] = "loading" /\ req[q].screen = s)
  /\ up'[s] = 0 /\ \A x \in Screens : up'[x] \in {0, up[x]}
  /\ table'[s] = 0
  /\ \A q \in Shows : relay'[q] = "serving" =>
       /\ relay[q] = "serving" /\ req[q].screen # s
       /\ table'[req[q].screen] = table[req[q].screen]

\* The load of request r is sent to its screen, which is clear.
Sends(r, s) ==
  /\ req[r].screen = s /\ req'[r].screen = s
  /\ req'[r].at = "poll" /\ req'[r].verdict = req[r].verdict
  /\ \/ req[r].at = "mark" /\ (req'[r].exact => req'[r].mark = seen)
     \/ req[r].at = "open" /\ req'[r].mark = req[r].mark /\ req'[r].exact = req[r].exact
  /\ \A q \in Shows : q # r => req'[q] = req[q]
  /\ UNCHANGED <<lock, seen>>
  /\ job'[r] = "loading"
  /\ \A q \in Shows \ {r} : OnlyStops(q) /\ ~(job'[q] = "loading" /\ req[q].screen = s)
  /\ up'[s] = 0 /\ \A x \in Screens : up'[x] \in {0, up[x]}
  /\ previews'[s] = r /\ \A x \in Screens \ {s} : previews'[x] = previews[x]
  /\ \/ journal' = journal
     \/ r \in Early /\ journal' = Append(journal, <<"unknown", s>>)
  /\ \A q \in Shows \ {r} : relay'[q] = "serving" =>
       /\ relay[q] = "serving" /\ req[q].screen # s
       /\ table'[req[q].screen] = table[req[q].screen]
  /\ relay'[r] = "serving" => table'[s] = r

LEMMA ClearsKnown == ASSUME IInv, NEW r \in Shows, NEW s \in Screens, Clears(r, s) PROVE Known'
<1>0. PreviewTypeOK /\ OneAtATime /\ Placed /\ LoadIsKnown /\ OpenIsClear /\ ScreensAreKnown
  BY DEF IInv, Known
<1>a. /\ \A q \in Shows : /\ job'[q] = "loading" => job[q] = "loading"
                          /\ job'[q] # "none" => job[q] # "none"
                          /\ req'[q].screen = req[q].screen /\ req'[q].verdict = req[q].verdict
      /\ \A q \in Shows : q # r => req'[q] = req[q]
      /\ UNCHANGED <<lock, previews, seen>> /\ seen \in Nat
  <2>1. \A q \in Shows : /\ job'[q] = "loading" => job[q] = "loading"
                         /\ job'[q] # "none" => job[q] # "none"
    BY DEF Clears, OnlyStops
  <2>2. \A q \in Shows : req'[q].screen = req[q].screen /\ req'[q].verdict = req[q].verdict
    BY DEF Clears
  <2>3. seen \in Nat
    BY <1>0 DEF PreviewTypeOK
  <2> QED
    BY <2>1, <2>2, <2>3 DEF Clears
<1>b. r = lock /\ \A q \in Shows : q # r => req[q].at \notin Held
  BY <1>0 DEF OneAtATime, Clears, Held
<1>c. job[r] = "none" /\ req[r].verdict = "pending" /\ req[r].screen \in Screens
  BY <1>0 DEF Placed, Clears, Polled
<1>1. OneAtATime'
  BY <1>0, <1>a, <1>b DEF OneAtATime, Clears
<1>2. Placed'
  <2>1. ASSUME NEW q \in Shows, q # r
        PROVE  /\ req'[q].at # "none" => req'[q].screen \in Screens
               /\ job'[q] # "none" => req'[q].at \in Polled \cup {"done"}
               /\ relay'[q] = "serving" => req'[q].at # "none"
               /\ req'[q].verdict # "pending" => req'[q].at = "done"
               /\ req'[q].exact /\ req'[q].at \in Polled \cup {"open"} => req'[q].mark <= seen'
    BY <1>0, <1>a, <2>1 DEF Placed, Clears
  <2>2. /\ req'[r].screen \in Screens /\ job'[r] = "none" /\ req'[r].at = "open"
        /\ req'[r].verdict = "pending" /\ (req'[r].exact => req'[r].mark <= seen')
    BY <1>a, <1>c DEF Clears
  <2> QED
    BY <2>1, <2>2 DEF Placed
<1>3. LoadIsKnown'
  BY <1>0, <1>a DEF LoadIsKnown, Clears, Polled
<1>4. OpenIsClear'
  BY <1>a, <1>b DEF OpenIsClear, Clears, Held
<1>5. ScreensAreKnown'
  BY <1>0, <1>a DEF ScreensAreKnown, Clears
<1> QED
  BY <1>1, <1>2, <1>3, <1>4, <1>5 DEF Known

LEMMA SendsKnown == ASSUME IInv, NEW r \in Shows, NEW s \in Screens, Sends(r, s) PROVE Known'
<1>0. PreviewTypeOK /\ OneAtATime /\ Placed /\ LoadIsKnown /\ OpenIsClear /\ ScreensAreKnown
  BY DEF IInv, Known
<1>a. /\ \A q \in Shows : /\ q # r /\ job'[q] = "loading" => job[q] = "loading"
                          /\ q # r /\ job'[q] # "none" => job[q] # "none"
                          /\ req'[q].screen = req[q].screen /\ req'[q].verdict = req[q].verdict
      /\ \A q \in Shows : q # r => req'[q] = req[q]
      /\ UNCHANGED <<lock, seen>> /\ seen \in Nat
  BY <1>0 DEF Sends, OnlyStops, PreviewTypeOK
<1>b. r = lock /\ r # 0 /\ \A q \in Shows : q # r => req[q].at \notin Held
  BY <1>0 DEF OneAtATime, Sends, Held, Shows
<1>c. /\ req[r].verdict = "pending" /\ req[r].screen \in Screens
      /\ req'[r].exact => req'[r].mark <= seen
  BY <1>0, <1>a DEF Placed, Sends
<1>1. OneAtATime'
  BY <1>0, <1>a, <1>b DEF OneAtATime, Sends
<1>2. Placed'
  <2>1. ASSUME NEW q \in Shows, q # r
        PROVE  /\ req'[q].at # "none" => req'[q].screen \in Screens
               /\ job'[q] # "none" => req'[q].at \in Polled \cup {"done"}
               /\ relay'[q] = "serving" => req'[q].at # "none"
               /\ req'[q].verdict # "pending" => req'[q].at = "done"
               /\ req'[q].exact /\ req'[q].at \in Polled \cup {"open"} => req'[q].mark <= seen'
    BY <1>0, <1>a, <2>1 DEF Placed, Sends
  <2>2. /\ req'[r].screen \in Screens /\ req'[r].at = "poll"
        /\ req'[r].verdict = "pending" /\ (req'[r].exact => req'[r].mark <= seen')
    BY <1>a, <1>c DEF Sends
  <2> QED
    BY <2>1, <2>2 DEF Placed, Polled
<1>3. LoadIsKnown'
  <2>1. ASSUME NEW q \in Shows, q # r, job'[q] = "loading" \/ req'[q].at \in Polled
        PROVE  previews'[req'[q].screen] = q
    <3>1. job[q] = "loading" /\ req[q].screen # s /\ req[q].screen \in Screens
      BY <1>0, <1>a, <1>b, <2>1 DEF Sends, Placed, Polled, Held
    <3> QED
      BY <1>0, <1>a, <3>1 DEF LoadIsKnown, Sends
  <2> QED
    BY <2>1 DEF LoadIsKnown, Sends
<1>4. OpenIsClear'
  BY <1>a, <1>b DEF OpenIsClear, Sends, Held
<1>5. ScreensAreKnown'
  BY <1>0, <1>a, <1>b DEF ScreensAreKnown, Sends
<1> QED
  BY <1>1, <1>2, <1>3, <1>4, <1>5 DEF Known

LEMMA ClearsOwned == ASSUME IInv, NEW r \in Shows, NEW s \in Screens, Clears(r, s) PROVE Owned'
<1>0. PreviewTypeOK /\ OneAtATime /\ Placed /\ Owned
  BY DEF IInv, Known
<1>a. /\ \A q \in Shows : q # r => req'[q] = req[q]
      /\ req'[r].at = "open" /\ (req'[r].exact => req'[r].mark = seen) /\ req'[r].screen = s
      /\ UNCHANGED <<journal, seen>>
  BY DEF Clears
<1>b. /\ \A q \in Shows : /\ req[q].at \notin Polled
                          /\ q # r => req'[q].at \notin Polled \cup {"open"}
      /\ req[r].verdict = "pending" /\ req[r].at # "done" /\ req'[r].at # "done"
  BY <1>0, <1>a DEF OneAtATime, Clears, Polled, Placed
<1>c. \A q \in Shows : /\ job'[q] = "loading" => job[q] = "loading"
                       /\ job'[q] = "cancelled" => job[q] \in {"loading", "cancelled"}
                       /\ job'[q] = "complete" <=> job[q] = "complete"
                       /\ req'[q].screen = req[q].screen /\ req'[q].verdict = req[q].verdict
  <2>1. \A q \in Shows : OnlyStops(q)
    BY DEF Clears
  <2>2. \A q \in Shows : req'[q].screen = req[q].screen /\ req'[q].verdict = req[q].verdict
    BY DEF Clears
  <2> QED
    BY <2>1, <2>2 DEF OnlyStops
<1>d. \A x \in Screens : Given(x)' <=> Given(x)
  BY <1>a, <1>b, <1>c DEF Given, GivenUp
<1>e. \A i, x : Complete(i, x)' <=> Complete(i, x)
  BY <1>a DEF Complete
<1>f. \A x \in Screens, i \in Nat : ~Given(x) /\ i > seen => ~Complete(i, x)
  BY <1>0, <1>b DEF Owned, UnreadIsPolled
<1>1. CompletesOnce'
  BY <1>a, <1>b, <1>d, <1>e, <1>f DEF CompletesOnce
<1>2. UnreadIsPolled'
  BY <1>a, <1>d, <1>e, <1>f DEF UnreadIsPolled
<1>3. LeftIsGiven'
  BY <1>0, <1>a, <1>c, <1>d DEF Owned, LeftIsGiven
<1>4. RefitHasRead'
  BY <1>a, <1>b DEF RefitHasRead, Polled
<1>5. FramesAreOwn'
  BY <1>0, <1>a, <1>b, <1>c, <1>d DEF Owned, FramesAreOwn
<1>6. Orderly'
  <2> SUFFICES ASSUME ~Unsettled' PROVE Orderly'
    BY DEF Orderly
  <2>1. ~Unsettled
    BY <1>a, <1>b, <1>c DEF Unsettled
  <2>2. seen = Len(journal)
    BY <1>0, <1>b, <2>1 DEF Owned, Orderly
  <2>3. ASSUME NEW q \in Shows
        PROVE  /\ req'[q].at = "done" => job'[q] \notin {"loading", "cancelled"}
               /\ req'[q].exact /\ req'[q].at = "open" => req'[q].mark = Len(journal')
               /\ req'[q].at \notin Polled
               /\ req'[q].verdict = "frames" => job'[q] = "complete"
    BY <1>0, <1>a, <1>b, <1>c, <2>1, <2>2 DEF Owned, Orderly, Polled
  <2> QED
    BY <1>a, <2>2, <2>3 DEF Orderly
<1> QED
  BY <1>1, <1>2, <1>3, <1>4, <1>5, <1>6 DEF Owned

LEMMA SendsOwned == ASSUME IInv, NEW r \in Shows, NEW s \in Screens, Sends(r, s) PROVE Owned'
<1>0. PreviewTypeOK /\ OneAtATime /\ Placed /\ Owned
  BY DEF IInv, Known
<1>a. /\ \A q \in Shows : q # r => req'[q] = req[q]
      /\ req'[r].at = "poll" /\ req[r].screen = s /\ req'[r].screen = s /\ seen' = seen
  BY DEF Sends
<1>b. /\ \A q \in Shows : /\ req[q].at \notin Polled
                          /\ q # r => req'[q].at \notin Polled \cup {"open"}
      /\ req[r].verdict = "pending" /\ req[r].at # "done" /\ job[r] = "none"
  BY <1>0, <1>a DEF OneAtATime, Sends, Polled, Placed
<1>c. /\ \A q \in Shows : q # r => /\ job'[q] = "loading" => job[q] = "loading"
                                   /\ job'[q] = "cancelled" => job[q] \in {"loading", "cancelled"}
      /\ \A q \in Shows : /\ job'[q] = "complete" <=> job[q] = "complete"
                          /\ req'[q].screen = req[q].screen /\ req'[q].verdict = req[q].verdict
  <2>1. job'[r] = "loading" /\ \A q \in Shows : q # r => OnlyStops(q)
    BY DEF Sends
  <2>2. \A q \in Shows : req'[q].screen = req[q].screen /\ req'[q].verdict = req[q].verdict
    BY DEF Sends
  <2> QED
    BY <1>b, <2>1, <2>2 DEF OnlyStops
<1>d. \A x \in Screens : Given(x)' <=> Given(x)
  BY <1>a, <1>b, <1>c DEF Given, GivenUp
<1>g. /\ \A i \in DOMAIN journal : i \in DOMAIN journal' /\ journal'[i] = journal[i]
      /\ \A i \in DOMAIN journal' :
           \/ i \in DOMAIN journal
           \/ r \in Early /\ journal'[i] = <<"unknown", s>>
      /\ DOMAIN journal = 1..Len(journal) /\ Len(journal) \in Nat /\ seen \in Nat
  <2>1. DOMAIN journal = 1..Len(journal) /\ Len(journal) \in Nat /\ seen \in Nat
    BY <1>0 DEF PreviewTypeOK
  <2>2. CASE journal' = journal
    BY <2>1, <2>2
  <2>3. CASE r \in Early /\ journal' = Append(journal, <<"unknown", s>>)
    <3>1. <<"unknown", s>> \in Lines
      BY DEF Lines
    <3> QED
      BY <1>0, <2>1, <2>3, <3>1, LineView
  <2> QED
    BY <2>2, <2>3 DEF Sends
<1>e. \A i \in Nat, x \in Screens : Complete(i, x)' <=> Complete(i, x)
  BY <1>g DEF Complete
<1>f. \A x \in Screens, i \in Nat : ~Given(x) /\ i > seen => ~Complete(i, x)
  BY <1>0, <1>b DEF Owned, UnreadIsPolled
<1>1. CompletesOnce'
  <2>1. ASSUME req'[r].exact, ~Given(s), NEW i \in Nat, i > req'[r].mark, Complete(i, s) PROVE FALSE
    <3>1. CASE req[r].at = "mark" /\ (req'[r].exact => req'[r].mark = seen)
      BY <1>f, <2>1, <3>1
    <3>2. CASE req[r].at = "open" /\ req'[r].mark = req[r].mark /\ req'[r].exact = req[r].exact
      BY <1>0, <1>a, <1>b, <2>1, <3>2 DEF Owned, CompletesOnce
    <3> QED
      BY <3>1, <3>2 DEF Sends
  <2> QED
    BY <1>a, <1>b, <1>d, <1>e, <2>1 DEF CompletesOnce
<1>2. UnreadIsPolled'
  BY <1>a, <1>d, <1>e, <1>f DEF UnreadIsPolled
<1>3. LeftIsGiven'
  BY <1>0, <1>a, <1>c, <1>d DEF Owned, LeftIsGiven
<1>4. RefitHasRead'
  BY <1>a, <1>b DEF RefitHasRead, Polled
<1>5. FramesAreOwn'
  BY <1>0, <1>a, <1>b, <1>c, <1>d DEF Owned, FramesAreOwn
<1>6. Orderly'
  <2> SUFFICES ASSUME ~Unsettled' PROVE Orderly'
    BY DEF Orderly
  <2>1. ~Unsettled
    BY <1>a, <1>b, <1>c DEF Unsettled
  <2>2. seen = Len(journal)
    BY <1>0, <1>b, <2>1 DEF Owned, Orderly
  <2>3. req'[r].exact => req'[r].mark = Len(journal)
    BY <1>0, <2>1, <2>2 DEF Owned, Orderly, Sends
  <2>4. ASSUME NEW q \in Shows
        PROVE  /\ req'[q].at = "done" => job'[q] \notin {"loading", "cancelled"}
               /\ req'[q].at # "open"
               /\ req'[q].at \in Polled => q = r
               /\ req'[q].verdict = "frames" => job'[q] = "complete"
    BY <1>0, <1>a, <1>b, <1>c, <2>1, <2>2 DEF Owned, Orderly, Polled
  <2>5. ASSUME req'[r].exact, NEW i \in DOMAIN journal', i > req'[r].mark
        PROVE  r \in Early /\ journal'[i][1] = "unknown"
    BY <1>g, <2>3, <2>5
  <2>6. req'[r].at \in Polled
    BY <1>a DEF Polled
  <2> QED
    BY <2>4, <2>5, <2>6 DEF Orderly
<1> QED
  BY <1>1, <1>2, <1>3, <1>4, <1>5, <1>6 DEF Owned

\* A replaced preview is cleared, and a load that is sent is sent to a clear screen.
LEMMA MarkedSteps ==
  ASSUME IInv, NEW r \in Shows, Marked(r) \/ Opened(r)
  PROVE  \E s \in Screens : Clears(r, s) \/ Sends(r, s)
<1>0. PreviewTypeOK /\ Placed /\ OpenIsClear /\ ScreensAreKnown
  BY DEF IInv, Known
<1>1. PICK s \in Screens : req[r].screen = s
  BY <1>0 DEF Marked, Opened, Placed
<1>2. /\ req[r] \in Request /\ seen \in Nat /\ {"open", "poll"} \subseteq Places
      /\ previews \in [Screens -> 0..MaxShows] /\ relay \in [Shows -> {"none", "serving", "closed"}]
      /\ table \in [Screens -> 0..MaxShows] /\ job \in [Shows -> Jobs]
      /\ up \in [Screens -> 0..MaxShows]
  BY <1>0 DEF PreviewTypeOK, Places
<1>3. /\ Discard({s}) \in [Shows -> Jobs]
      /\ \A q \in Shows : Discard({s})[q] = IF job[q] = "loading" /\ req[q].screen = s
                                             THEN "cancelled" ELSE job[q]
      /\ Down({s})[s] = 0 /\ \A x \in Screens : Down({s})[x] \in {0, up[x]}
  BY <1>0, DiscardView
<1>4. CASE Marked(r)
  <2>1. /\ CloseRelay(s) /\ UNCHANGED <<lock, seen>> /\ req[r].at = "mark"
    BY <1>1, <1>4 DEF Marked
  <2>m. PICK m \in Marks(r) :
          \/ /\ WithMark(r, m, "open")
             /\ job' = Discard({s}) /\ up' = Down({s}) /\ UNCHANGED <<journal, previews>>
          \/ WithMark(r, m, "poll") /\ Send(r, Discard({s}), Down({s}))
    BY <1>1, <1>4 DEF Marked, Unload
  <2>2. /\ table'[s] = 0
        /\ \A q \in Shows : relay'[q] = "serving" =>
             /\ relay[q] = "serving" /\ req[q].screen # s
             /\ table'[req[q].screen] = table[req[q].screen]
    BY <2>1, ClosesOne
  <2>3. ASSUME NEW p \in {"open", "poll"}, WithMark(r, m, p)
        PROVE  /\ req'[r].at = p /\ (req'[r].exact => req'[r].mark = seen) /\ req'[r].screen = s
               /\ req'[r].verdict = req[r].verdict
               /\ \A q \in Shows : q # r => req'[q] = req[q]
    <3>1. m \in [mark : Nat, exact : BOOLEAN] /\ (m.exact => m.mark = seen)
      BY <1>0, MarksView
    <3>2. /\ req'[r] = [req[r] EXCEPT !.mark = m.mark, !.exact = m.exact, !.at = p]
          /\ \A q \in Shows : q # r => req'[q] = req[q]
      <4>1. p \in Places
        BY <1>2
      <4> QED
        BY <1>0, <2>3, <3>1, <4>1, MarkSet
    <3> QED
      BY <1>1, <1>2, <3>1, <3>2 DEF Request
  <2>4. CASE /\ WithMark(r, m, "open")
             /\ job' = Discard({s}) /\ up' = Down({s}) /\ UNCHANGED <<journal, previews>>
    <3>1. \A q \in Shows : OnlyStops(q) /\ ~(job'[q] = "loading" /\ req[q].screen = s)
      BY <1>3, <2>4 DEF OnlyStops
    <3> QED
      BY <1>1, <1>3, <2>1, <2>2, <2>3, <2>4, <3>1 DEF Clears
  <2>5. CASE WithMark(r, m, "poll") /\ Send(r, Discard({s}), Down({s}))
    <3>1. /\ job'[r] = "loading" /\ up' = Down({s})
          /\ \A q \in Shows \ {r} : job'[q] = Discard({s})[q]
          /\ previews'[s] = r /\ \A x \in Screens \ {s} : previews'[x] = previews[x]
          /\ \/ journal' = journal
             \/ r \in Early /\ journal' = Append(journal, <<"unknown", s>>)
      BY <1>1, <1>2, <1>3, <2>5 DEF Send
    <3>2. \A q \in Shows \ {r} : OnlyStops(q) /\ ~(job'[q] = "loading" /\ req[q].screen = s)
      BY <1>3, <3>1 DEF OnlyStops
    <3>3. relay'[r] # "serving"
      BY <1>1, <2>2
    <3> QED
      BY <1>1, <1>3, <2>1, <2>2, <2>3, <2>5, <3>1, <3>2, <3>3 DEF Sends
  <2> QED
    BY <2>m, <2>4, <2>5
<1>5. CASE Opened(r)
  <2>1. /\ req[r].at = "open" /\ UNCHANGED <<lock, seen>> /\ At(r, "poll") /\ Send(r, job, up)
    BY <1>5 DEF Opened
  <2>2. /\ req'[r].at = "poll" /\ req'[r].mark = req[r].mark /\ req'[r].screen = s
        /\ req'[r].exact = req[r].exact /\ req'[r].verdict = req[r].verdict
        /\ \A q \in Shows : q # r => req'[q] = req[q]
    <3>1. /\ req'[r] = [req[r] EXCEPT !.at = "poll"]
          /\ \A q \in Shows : q # r => req'[q] = req[q]
      BY <1>0, <1>2, <2>1, Moves
    <3> QED
      BY <1>1, <1>2, <3>1 DEF Request
  <2>3. /\ job'[r] = "loading" /\ up' = up
        /\ \A q \in Shows \ {r} : job'[q] = job[q]
        /\ previews'[s] = r /\ \A x \in Screens \ {s} : previews'[x] = previews[x]
        /\ \/ journal' = journal
           \/ r \in Early /\ journal' = Append(journal, <<"unknown", s>>)
    BY <1>1, <1>2, <2>1 DEF Send
  <2>4. /\ up[s] = 0 /\ table[s] = 0 /\ 0 \notin Shows
        /\ \A q \in Shows : ~(job[q] = "loading" /\ req[q].screen = s)
    BY <1>0, <1>1, <2>1 DEF OpenIsClear, Shows
  <2>5. /\ \A q \in Shows \ {r} : relay'[q] = "serving" =>
             /\ relay[q] = "serving" /\ req[q].screen # s
             /\ table'[req[q].screen] = table[req[q].screen]
        /\ relay'[r] = "serving" => table'[s] = r
    <3>1. \A q \in Shows : relay[q] = "serving" =>
            req[q].screen # s /\ req[q].screen \in Screens /\ table[req[q].screen] = q
      BY <2>4, ServingHasScreen
    <3>2. CASE req[r].relayed
      <4>1. relay' = [relay EXCEPT ![r] = "serving"] /\ table' = [table EXCEPT ![s] = r]
        BY <1>1, <1>5, <3>2 DEF Opened
      <4> QED
        BY <1>2, <3>1, <4>1
    <3>3. CASE ~req[r].relayed
      <4>1. UNCHANGED <<relay, table>>
        BY <1>5, <3>3 DEF Opened
      <4> QED
        BY <1>1, <3>1, <4>1
    <3> QED
      BY <3>2, <3>3
  <2>6. \A q \in Shows \ {r} : OnlyStops(q) /\ ~(job'[q] = "loading" /\ req[q].screen = s)
    BY <2>3, <2>4 DEF OnlyStops
  <2> QED
    BY <1>1, <2>1, <2>2, <2>3, <2>4, <2>5, <2>6 DEF Sends
<1> QED
  BY <1>4, <1>5

-----------------------------------------------------------------------------

\* A line about a load's end was read behind the mark of request r.
EndRead(r) ==
  \E k \in DOMAIN journal : req[r].mark < k /\ k <= seen /\ journal[k][1] # "unknown"

UnknownRead(r) ==
  \E k \in DOMAIN journal : req[r].mark < k /\ k <= seen /\ journal[k][1] = "unknown"

\* Request r, for screen s, ends with the verdict v, and this is why.
Ends(r, s, v) ==
  /\ req[r].screen = s /\ req'[r].screen = s /\ req[r].at \in Polled
  /\ req'[r].at = "done" /\ req'[r].verdict = v /\ req'[r].exact = req[r].exact
  /\ \A q \in Shows : q # r => req'[q] = req[q]
  /\ lock' = 0 /\ UNCHANGED <<journal, seen, previews, table, relay>>
  /\ \A q \in Shows : OnlyStops(q)
  /\ \A x \in Screens : up'[x] \in {0, up[x]}
  /\ \/ v = "frames" /\ EndRead(r) /\ HasRead(r, s)
     \/ v \in {"failed", "superseded"} /\ EndRead(r)
     \/ v = "failed" /\ r \in Early
     \/ v = "unknown_output" /\ UnknownRead(r)
     \/ v = "unconfirmed"

LEMMA EndsKnown ==
  ASSUME IInv, NEW r \in Shows, NEW s \in Screens, NEW v, Ends(r, s, v) PROVE Known'
<1>0. PreviewTypeOK /\ OneAtATime /\ Placed /\ LoadIsKnown /\ OpenIsClear /\ ScreensAreKnown
  BY DEF IInv, Known
<1>a. /\ \A q \in Shows : /\ q # r => req'[q] = req[q]
                          /\ req'[q].screen = req[q].screen
      /\ req[r].at \in Polled /\ req'[r].at = "done"
      /\ lock' = 0 /\ UNCHANGED <<seen, previews, table, relay>> /\ 0 \notin Shows
  BY DEF Ends, Shows
<1>b. \A q \in Shows : /\ job'[q] = "loading" => job[q] = "loading"
                       /\ job'[q] # "none" => job[q] # "none"
  BY DEF Ends, OnlyStops
<1>c. r = lock /\ \A q \in Shows : q # r => req[q].at \notin Held
  BY <1>0, <1>a DEF OneAtATime, Polled, Held
<1>1. OneAtATime'
  BY <1>0, <1>a, <1>c DEF OneAtATime, Held
<1>2. Placed'
  BY <1>0, <1>a, <1>b DEF Placed, Polled
<1>3. LoadIsKnown'
  BY <1>0, <1>a, <1>b DEF LoadIsKnown, Polled
<1>4. OpenIsClear'
  BY <1>a, <1>c DEF OpenIsClear, Held
<1>5. ScreensAreKnown'
  BY <1>0, <1>a DEF ScreensAreKnown, Ends
<1> QED
  BY <1>1, <1>2, <1>3, <1>4, <1>5 DEF Known

LEMMA EndsOwned ==
  ASSUME IInv, NEW r \in Shows, NEW s \in Screens, NEW v, Ends(r, s, v) PROVE Owned'
<1>0. PreviewTypeOK /\ OneAtATime /\ Placed /\ Owned
  BY DEF IInv, Known
<1>a. /\ \A q \in Shows : /\ q # r => req'[q] = req[q]
                          /\ req'[q].screen = req[q].screen
      /\ req[r].screen = s /\ req[r].at \in Polled /\ req'[r].at = "done" /\ req'[r].verdict = v
      /\ req'[r].exact = req[r].exact /\ UNCHANGED <<journal, seen>>
      /\ seen \in Nat /\ Len(journal) \in Nat /\ seen <= Len(journal) /\ req[r].mark \in Nat
      /\ DOMAIN journal = 1..Len(journal)
  BY <1>0 DEF Ends, PreviewTypeOK, Request
<1>b. \A q \in Shows : /\ job'[q] = "loading" => job[q] = "loading"
                       /\ job'[q] = "cancelled" => job[q] \in {"loading", "cancelled"}
                       /\ job'[q] = "complete" <=> job[q] = "complete"
  BY DEF Ends, OnlyStops
<1>c. /\ \A q \in Shows : /\ q # r => req[q].at \notin Held
                          /\ req'[q].at \notin Held
      /\ req[r].verdict = "pending" /\ (req[r].exact => req[r].mark <= seen)
  BY <1>0, <1>a DEF OneAtATime, Placed, Polled, Held
<1>d. \A x \in Screens : Given(x) => Given(x)'
  <2>1. ASSUME NEW x \in Screens, NEW q \in Shows, req[q].screen = x, GivenUp(q) PROVE GivenUp(q)'
    <3>1. q # r
      BY <1>a, <2>1 DEF GivenUp, Polled
    <3> QED
      BY <1>a, <1>b, <2>1, <3>1 DEF GivenUp
  <2> QED
    BY <1>a, <2>1 DEF Given
<1>e. \A i, x : Complete(i, x)' <=> Complete(i, x)
  BY <1>a DEF Complete
<1>f. ~(v = "frames" /\ req[r].exact) /\ job[r] = "complete" => Given(s)'
  BY <1>a, <1>b DEF Given, GivenUp
<1>g. v = "frames" => HasRead(r, s)
  BY DEF Ends
<1>h. ASSUME v = "frames", req[r].exact, ~Given(s) PROVE job[r] = "complete"
  BY <1>0, <1>a, <1>g, <1>h DEF Owned, CompletesOnce, HasRead
<1>1. CompletesOnce'
  BY <1>c DEF CompletesOnce, Held, Polled
<1>2. UnreadIsPolled'
  <2>1. ASSUME NEW x \in Screens, NEW k \in Nat, ~Given(x)', k > seen, Complete(k, x) PROVE FALSE
    <3>1. x = s /\ ~Given(x) /\ job[r] = "complete"
      <4>1. ~Given(x)
        BY <1>d, <2>1
      <4>2. PICK q \in Shows : req[q].at \in Polled /\ req[q].screen = x /\ job[q] = "complete"
        BY <1>0, <2>1, <4>1 DEF Owned, UnreadIsPolled
      <4> QED
        BY <1>a, <1>c, <4>1, <4>2 DEF Polled, Held
    <3>2. v = "frames" /\ req[r].exact
      BY <1>f, <2>1, <3>1
    <3>3. k > req[r].mark
      BY <1>a, <1>c, <2>1, <3>2
    <3>4. PICK l \in Nat : req[r].mark < l /\ l <= seen /\ Complete(l, s)
      BY <1>g, <3>2 DEF HasRead
    <3>5. k = l
      BY <1>0, <1>a, <2>1, <3>1, <3>2, <3>3, <3>4 DEF Owned, CompletesOnce
    <3> QED
      BY <1>a, <2>1, <3>4, <3>5
  <2> QED
    BY <1>a, <1>e, <2>1 DEF UnreadIsPolled
<1>3. LeftIsGiven'
  <2>1. job[r] = "loading" => ~(v = "frames" /\ req[r].exact) \/ Given(s)
    BY <1>h
  <2>2. ASSUME NEW q \in Shows, NEW x \in Screens, req'[q].screen = x, job'[q] = "loading",
               req'[q].at = "done"
        PROVE  ~(req'[q].verdict = "frames" /\ req'[q].exact) \/ Given(x)'
    <3>1. CASE q = r
      BY <1>a, <1>b, <1>d, <2>1, <2>2, <3>1
    <3>2. CASE q # r
      BY <1>0, <1>a, <1>b, <1>d, <2>2, <3>2 DEF Owned, LeftIsGiven
    <3> QED
      BY <3>1, <3>2
  <2> QED
    BY <2>2 DEF LeftIsGiven
<1>4. RefitHasRead'
  BY <1>c DEF RefitHasRead, Held
<1>5. FramesAreOwn'
  BY <1>0, <1>a, <1>b, <1>d, <1>h DEF Owned, FramesAreOwn
<1>6. Orderly'
  <2> SUFFICES ASSUME ~Unsettled' PROVE Orderly'
    BY DEF Orderly
  <2>1. ~Unsettled /\ req[r].exact /\ v # "unconfirmed"
        /\ ~(r \in Early /\ v \in {"failed", "unknown_output"})
    <3>1. /\ req[r].exact /\ v # "unconfirmed"
          /\ ~(r \in Early /\ v \in {"failed", "unknown_output"})
      BY <1>a DEF Unsettled
    <3>2. ~Unsettled
      BY <1>a, <1>c DEF Unsettled, Polled
    <3> QED
      BY <3>1, <3>2
  <2>2. \A k \in DOMAIN journal : k > req[r].mark =>
          /\ journal[k][1] = "unknown" => r \in Early
          /\ journal[k][1] # "unknown" => k = Len(journal) /\ job[r] \in {"complete", "over"}
          /\ journal[k][1] = "complete" => job[r] = "complete"
    BY <1>0, <1>a, <2>1 DEF Owned, Orderly
  <2>3. ~UnknownRead(r) \/ v # "unknown_output"
    BY <1>a, <2>1, <2>2 DEF UnknownRead
  <2>4. EndRead(r) => seen = Len(journal) /\ job[r] \in {"complete", "over"}
    <3>1. ASSUME NEW k \in DOMAIN journal, req[r].mark < k, k <= seen, journal[k][1] # "unknown"
          PROVE  seen = Len(journal) /\ job[r] \in {"complete", "over"}
      <4>1. k = Len(journal) /\ job[r] \in {"complete", "over"}
        BY <2>2, <3>1
      <4>2. seen \in Nat /\ Len(journal) \in Nat /\ seen <= Len(journal)
        BY <1>a
      <4> QED
        BY <3>1, <4>1, <4>2
    <3> QED
      BY <3>1 DEF EndRead
  <2>5. HasRead(r, s) => job[r] = "complete"
    <3>1. ASSUME NEW k \in Nat, req[r].mark < k, Complete(k, s) PROVE job[r] = "complete"
      BY <1>a, <2>2, <3>1 DEF Complete
    <3> QED
      BY <3>1 DEF HasRead
  <2>6. /\ seen = Len(journal) /\ job[r] \notin {"loading", "cancelled"}
        /\ v = "frames" => job[r] = "complete"
    BY <2>1, <2>3, <2>4, <2>5 DEF Ends
  <2>7. ASSUME NEW q \in Shows
        PROVE  /\ req'[q].at = "done" => job'[q] \notin {"loading", "cancelled"}
               /\ req'[q].verdict = "frames" => job'[q] = "complete"
    <3>1. CASE q = r
      BY <1>a, <1>b, <2>6, <3>1
    <3>2. CASE q # r
      BY <1>0, <1>a, <1>b, <2>1, <3>2 DEF Owned, Orderly
    <3> QED
      BY <3>1, <3>2
  <2> QED
    BY <1>a, <1>c, <2>6, <2>7 DEF Orderly, Polled, Held
<1> QED
  BY <1>1, <1>2, <1>3, <1>4, <1>5, <1>6 DEF Owned

\* The ends of a confirmation, and its steps that are quiet.
LEMMA ConfirmSteps ==
  ASSUME IInv, NEW r \in Shows, Poll(r) \/ Refit(r) \/ TimesOut(r) \/ ConfirmFails(r)
  PROVE  Quiet \/ \E s \in Screens, v \in Verdicts : Ends(r, s, v)
<1>0. PreviewTypeOK /\ Placed /\ Owned
  BY DEF IInv, Known
<1>1. /\ req[r].at \in Polled /\ UNCHANGED <<journal, seen, previews, table, relay>>
  BY DEF Poll, Refit, TimesOut, ConfirmFails, Polled
<1>2. PICK s \in Screens : req[r].screen = s
  BY <1>0, <1>1 DEF Placed, Polled
<1>3. req[r] \in Request /\ seen \in Nat /\ seen <= Len(journal) /\ DOMAIN journal \subseteq Nat
  BY <1>0 DEF PreviewTypeOK
<1>4. /\ Classify(r) \in {"pending", "frames", "failed", "unknown_output", "superseded"}
      /\ Classify(r) = "frames" => EndRead(r) /\ HasRead(r, s)
      /\ Classify(r) \in {"failed", "superseded"} => EndRead(r)
      /\ Classify(r) = "unknown_output" => UnknownRead(r)
      /\ HasRead(r, s) => Classify(r) # "pending"
  <2>1. /\ <<"complete", s>>[1] # "unknown" /\ <<"failed", s>>[1] # "unknown"
        /\ <<"cancelled", s>>[1] # "unknown"
    OBVIOUS
  <2> QED
    BY <1>0, <1>2, <1>3, <2>1, ClassifyView DEF EndRead, UnknownRead, HasRead, Complete
<1>5. ASSUME NEW c, UnloadIf(c, req[r].screen)
      PROVE  (\A q \in Shows : OnlyStops(q)) /\ \A x \in Screens : up'[x] \in {0, up[x]}
  <2>1. {s} \in SUBSET Screens
    BY <1>2
  <2>2. \/ job' = Discard({s}) /\ up' = Down({s})
        \/ UNCHANGED <<job, up>>
    BY <1>2, <1>5 DEF UnloadIf, Unload
  <2> QED
    BY <1>0, <2>1, <2>2, UnloadStops
<1>6. ASSUME NEW v \in Verdicts, NEW c, Verdict(r, v, c),
             \/ v = "frames" /\ EndRead(r) /\ HasRead(r, s)
             \/ v \in {"failed", "superseded"} /\ EndRead(r)
             \/ v = "failed" /\ r \in Early
             \/ v = "unknown_output" /\ UnknownRead(r)
             \/ v = "unconfirmed"
      PROVE  Ends(r, s, v)
  <2>1. /\ req'[r] = [req[r] EXCEPT !.at = "done", !.rechecked = FALSE, !.verdict = v]
        /\ \A q \in Shows : q # r => req'[q] = req[q]
    BY <1>0, <1>6, Moves DEF Verdict
  <2>2. /\ req'[r].screen = s /\ req'[r].at = "done" /\ req'[r].verdict = v
        /\ req'[r].exact = req[r].exact
    BY <1>2, <1>3, <2>1 DEF Request
  <2>3. (\A q \in Shows : OnlyStops(q)) /\ \A x \in Screens : up'[x] \in {0, up[x]}
    BY <1>5, <1>6 DEF Verdict
  <2>4. lock' = 0
    BY <1>6 DEF Verdict
  <2> QED
    BY <1>1, <1>2, <1>6, <2>1, <2>2, <2>3, <2>4 DEF Ends
<1>7. ASSUME NEW c, UnloadIf(c, req[r].screen), lock' = lock,
             /\ req'[r].screen = s /\ req'[r].mark = req[r].mark /\ req'[r].verdict = req[r].verdict
             /\ req'[r].exact = req[r].exact
             /\ \/ req'[r].at = req[r].at
                \/ req[r].at = "poll" /\ req'[r].at = "refit" /\ HasRead(r, s)
             /\ \A q \in Shows : q # r => req'[q] = req[q]
      PROVE  Quiet
  <2>1. (\A q \in Shows : OnlyStops(q)) /\ \A x \in Screens : up'[x] \in {0, up[x]}
    BY <1>5, <1>7
  <2> QED
    BY <1>1, <1>2, <1>3, <1>7, <2>1 DEF Quiet
<1>8. {"failed", "unconfirmed", "frames", "unknown_output", "superseded", "pending"} \subseteq Verdicts
  BY DEF Verdicts
<1>9. CASE Poll(r)
  <2>1. ASSUME NEW c, UnloadIf(c, req[r].screen), UNCHANGED lock, Classify(r) = "frames",
               req' = [req EXCEPT ![r].at = "refit", ![r].rechecked = FALSE]
        PROVE  Quiet
    <3>1. /\ req'[r] = [req[r] EXCEPT !.at = "refit", !.rechecked = FALSE]
          /\ \A q \in Shows : q # r => req'[q] = req[q]
      BY <1>0, <2>1, Moves
    <3>2. /\ req'[r].screen = s /\ req'[r].at = "refit" /\ req'[r].mark = req[r].mark
          /\ req'[r].verdict = req[r].verdict /\ req'[r].exact = req[r].exact
      BY <1>2, <1>3, <3>1 DEF Request
    <3>3. req[r].at = "poll"
      BY <1>9 DEF Poll
    <3> QED
      BY <1>4, <1>7, <2>1, <3>1, <3>2, <3>3
  <2>2. ASSUME NEW c, Classify(r) \notin {"pending", "frames"}, Verdict(r, Classify(r), c)
        PROVE  Ends(r, s, Classify(r))
    BY <1>4, <1>6, <1>8, <2>2
  <2>3. ASSUME NEW c, r \in Early, Verdict(r, "failed", c) PROVE Ends(r, s, "failed")
    BY <1>6, <1>8, <2>3
  <2>4. ASSUME req' = [req EXCEPT ![r].rechecked = TRUE],
               UnloadIf(Races(r), req[r].screen), UNCHANGED lock
        PROVE  Quiet
    <3>1. /\ req'[r] = [req[r] EXCEPT !.rechecked = TRUE]
          /\ \A q \in Shows : q # r => req'[q] = req[q]
      BY <1>0, <2>4, Moves
    <3>2. /\ req'[r].screen = s /\ req'[r].at = req[r].at /\ req'[r].mark = req[r].mark
          /\ req'[r].verdict = req[r].verdict /\ req'[r].exact = req[r].exact
      BY <1>2, <1>3, <3>1 DEF Request
    <3> QED
      BY <1>7, <2>4, <3>1, <3>2
  <2> QED
    BY <1>4, <1>8, <1>9, <2>1, <2>2, <2>3, <2>4 DEF Poll
<1>10. CASE Refit(r)
  <2>1. HasRead(r, s)
    BY <1>0, <1>2, <1>10 DEF Owned, RefitHasRead, Refit
  <2>2. PICK v \in {Classify(r)} \cup {"failed"} :
          Verdict(r, v, FALSE) /\ (v = Classify(r) \/ Classify(r) = "frames")
    BY <1>10 DEF Refit
  <2> QED
    BY <1>4, <1>6, <1>8, <2>1, <2>2
<1>11. CASE TimesOut(r) \/ ConfirmFails(r)
  BY <1>6, <1>8, <1>11 DEF TimesOut, ConfirmFails
<1> QED
  BY <1>9, <1>10, <1>11

-----------------------------------------------------------------------------

LEMMA InitInv == Init => IInv
<1> SUFFICES ASSUME Init PROVE IInv
  OBVIOUS
<1>a. /\ \A r \in Shows : /\ req[r].at = "none" /\ req[r].screen = 0 /\ req[r].mark = 0
                          /\ req[r].exact /\ req[r].verdict = "pending"
                          /\ job[r] = "none" /\ relay[r] = "none"
      /\ \A s \in Screens : up[s] = 0
      /\ lock = 0 /\ 0 \notin Shows /\ journal = <<>> /\ seen = 0
  BY DEF Init, Shows
<1>b. DOMAIN journal = {} /\ Len(journal) = 0
  BY <1>a
<1>1. PreviewTypeOK
  <2>1. req \in [Shows -> Request]
    BY DEF Init, Request, Places, Verdicts
  <2>2. journal \in Seq(Lines) /\ seen \in 0..Len(journal)
    BY <1>a, <1>b
  <2>3. /\ lock \in 0..MaxShows /\ previews \in [Screens -> 0..MaxShows]
        /\ table \in [Screens -> 0..MaxShows] /\ up \in [Screens -> 0..MaxShows]
        /\ loads \in 0..MaxLoads
    BY PreviewAssumption DEF Init
  <2> QED
    BY <2>1, <2>2, <2>3 DEF Init, PreviewTypeOK, NoStop, Jobs
<1>2. Known
  BY <1>a DEF Known, OneAtATime, Placed, LoadIsKnown, OpenIsClear, ScreensAreKnown, Polled
<1>3. Owned
  BY <1>a, <1>b DEF Owned, CompletesOnce, UnreadIsPolled, LeftIsGiven, RefitHasRead, FramesAreOwn,
     Orderly, Complete, Polled
<1> QED
  BY <1>1, <1>2, <1>3 DEF IInv

LEMMA NextInv == IInv /\ [Next]_vars => IInv'
<1> SUFFICES ASSUME IInv, [Next]_vars PROVE IInv'
  OBVIOUS
<1>1. PreviewTypeOK'
  BY TypeStep
<1>2. Known' /\ Owned'
  <2>1. CASE Quiet
    BY <2>1, QuietKnown, QuietOwned
  <2>2. ASSUME NEW r \in Shows, VCEnds(r) PROVE Known' /\ Owned'
    BY <2>2, EndKnown, EndOwned
  <2>3. ASSUME NEW r \in Shows, Waits(r) PROVE Known' /\ Owned'
    BY <2>3, WaitsKnown, WaitsOwned
  <2>4. ASSUME NEW r \in Shows, Marked(r) \/ Opened(r) PROVE Known' /\ Owned'
    BY <2>4, MarkedSteps, ClearsKnown, ClearsOwned, SendsKnown, SendsOwned
  <2>5. ASSUME NEW r \in Shows, Poll(r) \/ Refit(r) \/ TimesOut(r) \/ ConfirmFails(r)
        PROVE  Known' /\ Owned'
    BY <2>1, <2>5, ConfirmSteps, EndsKnown, EndsOwned
  <2>6. CASE \/ EngineLoads \/ EngineUnloads \/ Frame \/ Drop \/ Upload \/ VCRestarts
             \/ \E r \in Shows : Watch(r)
             \/ \E S \in SUBSET Screens : Stop(S)
             \/ \E s \in Screens : StopScreen(s)
             \/ RelayStopped \/ StopEnds \/ UNCHANGED vars
    BY <2>1, <2>6, QuietSteps
  <2>7. ASSUME NEW r \in Shows,
               \/ \E s \in Screens, relayed \in BOOLEAN : Show(r, s, relayed)
               \/ Resolved(r) \/ Routed(r) \/ ShowFails(r)
        PROVE  Known' /\ Owned'
    BY <2>3, <2>7, WaitSteps
  <2>8. {Screens} \cup {{s} : s \in Screens} \subseteq SUBSET Screens
    OBVIOUS
  <2>9. \A r : {FALSE, (r \in Relayed)} \subseteq BOOLEAN
    OBVIOUS
  <2> QED
    BY <2>2, <2>4, <2>5, <2>6, <2>7, <2>8, <2>9 DEF Next, Progress
<1> QED
  BY <1>1, <1>2 DEF IInv

LEMMA Inductive == Spec => []IInv
BY InitInv, NextInv, PTL DEF Spec

\* The types of the screens' state hold in every run.
THEOREM PreviewTyped == Spec => []PreviewTypeOK
<1>1. IInv => PreviewTypeOK
  BY DEF IInv
<1> QED
  BY Inductive, <1>1, PTL

\* One request at a time is between the look-ups and its verdict, and the lock
\* is free when none is (ndi_preview.py:987-990, 1028-1034).
THEOREM OneRequest == Spec => []OneAtATime
<1>1. IInv => OneAtATime
  BY DEF IInv, Known
<1> QED
  BY Inductive, <1>1, PTL

\* What a screen shows and which relay listens is always on record
\* (ndi_preview.py:1012-1027, 1260).
THEOREM OnRecord == Spec => []ScreensAreKnown
<1>1. IInv => ScreensAreKnown
  BY DEF IInv, Known
<1> QED
  BY Inductive, <1>1, PTL

\* A preview that is reported as on was loaded by its own request, unless its mark
\* was only a time, or an earlier request of its screen was given up while its load
\* went on and the code had answered a request early (ndi_preview.py:1032-1034, 264).
THEOREM OwnVerdict == Spec => []VerdictIsOwn
<1>1. IInv => VerdictIsOwn
  <2> SUFFICES ASSUME IInv, NEW r \in Shows, req[r].verdict = "frames", job[r] # "complete",
                      req[r].exact
               PROVE  Unsettled /\ \E q \in Shows : req[q].screen = req[r].screen /\ GivenUp(q)
    BY DEF VerdictIsOwn
  <2>1. req[r].screen \in Screens
    BY DEF IInv, Known, Placed
  <2>2. Given(req[r].screen)
    BY <2>1 DEF IInv, Owned, FramesAreOwn
  <2>3. Unsettled
    BY DEF IInv, Owned, Orderly
  <2> QED
    BY <2>2, <2>3 DEF Given
<1> QED
  BY Inductive, <1>1, PTL
=============================================================================
