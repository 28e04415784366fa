------------------------- MODULE EditorClientProofs --------------------------
(***************************************************************************)
(* Proofs about EditorClient, for any sets of requests and any projects:   *)
(* its types, the slot invariants, and that it implements RequestSlot.     *)
(***************************************************************************)
EXTENDS EditorClient, TLAPS

OneOutstanding == \A r, s \in Outstanding : r = s

\* Nothing is pending, at the editor or on its way back without a socket.
SocketBound ==
  /\ closing => connected
  /\ pending # {} \/ atEditor # {} \/ inbox # {} => connected

\* A request reaches the editor once and is answered at most once.
AnsweredOnce ==
  /\ \A f, g \in inbox : f.of = g.of => f = g
  /\ \A r \in atEditor : ~Replied(r)
  /\ \A r \in Req : future[r] = "none" \/ send[r] = "queued"
                      => r \notin atEditor /\ ~Replied(r)

\* The inductive invariant.
IInv ==
  /\ TypeOK /\ SocketBound /\ AnsweredOnce /\ OneOutstanding
  /\ NoOrphanWaiter /\ SlotHeldWhileLive /\ OwnReply

\* What Consume does with a reply, by whom the reply is for.
LEMMA HitsOfSlot ==
  ASSUME IInv, NEW f \in inbox, f.of \in SingleFlight, f.kind # "bare"
  PROVE  {r \in pending : Matches(f, r)} = {f.of}
PROOF
<1>1. Outstanding = {f.of}
  BY DEF IInv, SlotHeldWhileLive
<1>2. f.of \in Kin(f.of) /\ Kin(f.of) \subseteq SingleFlight
  BY DEF Kin, SingleFlight
<1>3. Matches(f, f.of)
  BY <1>2 DEF Matches
<1>4. ASSUME NEW r \in pending, Matches(f, r) PROVE r = f.of
  BY <1>1, <1>2, <1>4 DEF Matches, Outstanding
<1> QED BY <1>1, <1>3, <1>4 DEF Outstanding

LEMMA HitsOfOthers ==
  ASSUME IInv, NEW f \in inbox, f.of \in ListReq \/ f.kind = "bare"
  PROVE  {r \in pending : Matches(f, r)} \cap SingleFlight = {}
PROOF
  BY RequestAssumption DEF Matches, Kin, SingleFlight

LEMMA InitInv == Init => IInv
PROOF
  BY DEF Init, IInv, TypeOK, SocketBound, AnsweredOnce, OneOutstanding, Outstanding,
         NoOrphanWaiter, SlotHeldWhileLive, OwnReply, Replied, Req

LEMMA StepInv == IInv /\ [Next]_vars => IInv'
PROOF
<1> SUFFICES ASSUME IInv, [Next]_vars PROVE IInv'
  OBVIOUS
<1> USE RequestAssumption
<1>1. ASSUME NEW r \in Req, Register(r) PROVE IInv'
  <2>1. TypeOK' /\ SocketBound' /\ NoOrphanWaiter' /\ OwnReply'
    BY <1>1 DEF Register, IInv, TypeOK, SocketBound, NoOrphanWaiter, OwnReply
  <2>2. r \notin atEditor /\ ~Replied(r)
    BY <1>1 DEF Register, IInv, AnsweredOnce
  <2>3. AnsweredOnce'
    BY <1>1, <2>2 DEF Register, IInv, TypeOK, AnsweredOnce, Replied
  <2>4. OneOutstanding'
    BY <1>1 DEF Register, IInv, OneOutstanding, Outstanding
  <2>5. SlotHeldWhileLive'
    <3>1. CASE r \in SingleFlight
      BY <1>1, <2>2, <3>1 DEF Register, IInv, SlotHeldWhileLive, Outstanding, Replied
    <3>2. CASE r \notin SingleFlight
      BY <1>1, <3>2 DEF Register, IInv, SlotHeldWhileLive, Outstanding
    <3> QED BY <3>1, <3>2
  <2> QED BY <2>1, <2>3, <2>4, <2>5 DEF IInv
<1>2. ASSUME NEW r \in Req, Transmit(r) PROVE IInv'
  <2>1. TypeOK' /\ SocketBound' /\ NoOrphanWaiter' /\ OwnReply' /\ OneOutstanding'
    BY <1>2 DEF Transmit, IInv, TypeOK, SocketBound, NoOrphanWaiter, OwnReply,
                OneOutstanding, Outstanding
  <2>2. AnsweredOnce'
    BY <1>2 DEF Transmit, IInv, TypeOK, AnsweredOnce, Replied, NoOrphanWaiter
  <2>3. SlotHeldWhileLive'
    BY <1>2 DEF Transmit, IInv, SlotHeldWhileLive, Outstanding, OneOutstanding
  <2> QED BY <2>1, <2>2, <2>3 DEF IInv
<1>3. ASSUME NEW r \in Req, SendReturns(r) PROVE IInv'
  BY <1>3 DEF SendReturns, IInv, TypeOK, SocketBound, AnsweredOnce, Replied,
              NoOrphanWaiter, OwnReply, OneOutstanding, Outstanding, SlotHeldWhileLive
<1>4. ASSUME NEW r \in Req, SendFails(r) PROVE IInv'
  <2>1. TypeOK' /\ SocketBound' /\ NoOrphanWaiter' /\ OwnReply'
    BY <1>4 DEF SendFails, Unregister, IInv, TypeOK, SocketBound, NoOrphanWaiter, OwnReply
  <2>2. AnsweredOnce'
    BY <1>4 DEF SendFails, Unregister, IInv, TypeOK, AnsweredOnce, Replied
  <2>3. OneOutstanding'
    BY <1>4 DEF SendFails, Unregister, IInv, OneOutstanding, Outstanding
  <2>4. SlotHeldWhileLive'
    BY <1>4 DEF SendFails, Unregister, IInv, SlotHeldWhileLive, Outstanding, Replied
  <2> QED BY <2>1, <2>2, <2>3, <2>4 DEF IInv
<1>5. ASSUME NEW r \in Req, WaitTimesOut(r) PROVE IInv'
  <2>1. TypeOK' /\ SocketBound' /\ NoOrphanWaiter' /\ OwnReply'
    BY <1>5 DEF WaitTimesOut, Unregister, IInv, TypeOK, SocketBound, NoOrphanWaiter, OwnReply
  <2>2. AnsweredOnce'
    BY <1>5 DEF WaitTimesOut, Unregister, IInv, TypeOK, AnsweredOnce, Replied
  <2>3. Outstanding' = Outstanding
    BY <1>5 DEF WaitTimesOut, Unregister, Outstanding
  <2>4. OneOutstanding' /\ SlotHeldWhileLive'
    BY <1>5, <2>3 DEF WaitTimesOut, IInv, OneOutstanding, SlotHeldWhileLive
  <2> QED BY <2>1, <2>2, <2>4 DEF IInv
<1>6. ASSUME NEW r \in Req, NEW kind \in {"ok", "error", "bare"}, EditorReply(r, kind)
      PROVE  IInv'
  <2>1. TypeOK' /\ SocketBound' /\ NoOrphanWaiter' /\ OwnReply' /\ OneOutstanding'
    BY <1>6 DEF EditorReply, IInv, TypeOK, Reply, SocketBound, NoOrphanWaiter, OwnReply,
                OneOutstanding, Outstanding
  <2>2. AnsweredOnce'
    BY <1>6 DEF EditorReply, IInv, TypeOK, AnsweredOnce, Replied
  <2>3. SlotHeldWhileLive'
    BY <1>6 DEF EditorReply, IInv, SlotHeldWhileLive, Outstanding
  <2> QED BY <2>1, <2>2, <2>3 DEF IInv
<1>7. ASSUME NEW f \in inbox, Consume(f) PROVE IInv'
  <2> DEFINE hits == {r \in pending : Matches(f, r)}
  <2>1. PICK heard \in SUBSET hits :
          /\ f.of \in SingleFlight /\ f.kind # "bare" => heard = {f.of}
          /\ pending' = pending \ heard
          /\ future' = [r \in Req |-> IF r \in heard /\ future[r] = "open"
                                        THEN "result" ELSE future[r]]
          /\ got' = [r \in Req |-> IF r \in heard THEN {f.of} ELSE got[r]]
    BY <1>7, HitsOfSlot DEF Consume, IInv
  <2>2. f.of \in Req /\ f \in Reply
    BY DEF IInv, TypeOK, Reply
  <2>3. f.of \in ListReq \/ f.kind = "bare" => heard \cap SingleFlight = {}
    BY <2>1, HitsOfOthers
  <2>4. inbox' = inbox \ {f} /\ UNCHANGED <<connected, closing, stopped, send, atEditor>>
    BY <1>7 DEF Consume
  <2>5. TypeOK' /\ SocketBound' /\ NoOrphanWaiter'
    BY <2>1, <2>2, <2>4 DEF IInv, TypeOK, SocketBound, NoOrphanWaiter
  <2>6. OwnReply'
    BY <2>1, <2>2, <2>3 DEF IInv, TypeOK, OwnReply, Req
  <2>7. AnsweredOnce'
    BY <2>1, <2>2, <2>4 DEF IInv, TypeOK, AnsweredOnce, Replied
  <2>8. OneOutstanding'
    BY <2>1 DEF IInv, OneOutstanding, Outstanding
  <2>9. SlotHeldWhileLive'
    <3> SUFFICES ASSUME NEW s \in SingleFlight,
                        s \in atEditor \/ (\E g \in inbox' : g.of = s /\ g.kind # "bare")
                 PROVE  Outstanding' = {s}
      BY <2>4 DEF SlotHeldWhileLive
    <3>1. Outstanding = {s}
      BY <2>4 DEF IInv, SlotHeldWhileLive
    <3>2. f.of # s
      BY <2>4 DEF IInv, AnsweredOnce, Replied
    <3>3. s \notin heard
      <4>1. CASE f.of \in ListReq \/ f.kind = "bare"
        BY <2>3, <4>1
      <4>2. CASE f.of \in SingleFlight /\ f.kind # "bare"
        BY <2>1, <3>2, <4>2
      <4> QED BY <2>2, <4>1, <4>2 DEF Req
    <3> QED BY <2>1, <3>1, <3>3 DEF Outstanding
  <2> QED BY <2>5, <2>6, <2>7, <2>8, <2>9 DEF IInv
<1>8. CASE Connect
  BY <1>8 DEF Connect, IInv, TypeOK, SocketBound, AnsweredOnce, Replied,
              NoOrphanWaiter, OwnReply, OneOutstanding, Outstanding, SlotHeldWhileLive
<1>9. CASE CloseSocket
  BY <1>9 DEF CloseSocket, IInv, TypeOK, SocketBound, AnsweredOnce, Replied,
              NoOrphanWaiter, OwnReply, OneOutstanding, Outstanding, SlotHeldWhileLive
<1>10. CASE Disconnect
  BY <1>10 DEF Disconnect, IInv, TypeOK, SocketBound, AnsweredOnce, Replied,
               NoOrphanWaiter, OwnReply, OneOutstanding, Outstanding, SlotHeldWhileLive
<1>11. CASE Stop
  BY <1>11 DEF Stop, IInv, TypeOK, SocketBound, AnsweredOnce, Replied,
               NoOrphanWaiter, OwnReply, OneOutstanding, Outstanding, SlotHeldWhileLive
<1>12. CASE UNCHANGED vars
  BY <1>12 DEF vars, IInv, TypeOK, SocketBound, AnsweredOnce, Replied,
               NoOrphanWaiter, OwnReply, OneOutstanding, Outstanding, SlotHeldWhileLive
<1> QED
  BY <1>1, <1>2, <1>3, <1>4, <1>5, <1>6, <1>7, <1>8, <1>9, <1>10, <1>11, <1>12 DEF Next

THEOREM Invariance == Spec => []IInv
PROOF
  BY InitInv, StepInv, PTL DEF Spec

\* Every variable of the client keeps its type.
THEOREM TypeCorrect == Spec => []TypeOK
PROOF
<1>1. IInv => TypeOK
  BY DEF IInv
<1> QED BY <1>1, Invariance, PTL

\* At most one project_ready or project_unload is ever with the editor, and
\* its request holds the slot (register, _resolve, _fail_pending).
THEOREM SlotSafe == Spec => []SlotHeldWhileLive
PROOF
<1>1. IInv => SlotHeldWhileLive
  BY DEF IInv
<1> QED BY <1>1, Invariance, PTL

\* No load or unload is ever resolved by another request's reply (_resolve).
THEOREM RepliesAreOwn == Spec => []OwnReply
PROOF
<1>1. IInv => OwnReply
  BY DEF IInv
<1> QED BY <1>1, Invariance, PTL

\* No waiter is left on a request the table has forgotten (unregister,
\* _resolve, _fail_pending).
THEOREM WaitersAreKnown == Spec => []NoOrphanWaiter
PROOF
<1>1. IInv => NoOrphanWaiter
  BY DEF IInv
<1> QED BY <1>1, Invariance, PTL

------------------------------------------------------------------------------
\* The refinement.  Outcome is the mapped variable, for short.
Outcome == [r \in SingleFlight |-> OutcomeOf[future[r]]]

LEMMA InitRefines == Init => Slot!Init
PROOF
  BY DEF Init, Slot!Init, Outstanding, Answered, OutcomeOf, Req

LEMMA SameOutcome ==
  ASSUME \A r \in SingleFlight : future'[r] = future[r]
  PROVE  Outcome' = Outcome
PROOF
  BY DEF Outcome, OutcomeOf

LEMMA StepRefines == IInv /\ IInv' /\ [Next]_vars => [Slot!Next]_(Slot!slotVars)
PROOF
<1> SUFFICES ASSUME IInv, IInv', [Next]_vars
             PROVE  Slot!Next \/ UNCHANGED <<connected, Outstanding, Answered, Outcome>>
  BY DEF Slot!slotVars, Outcome
<1> USE RequestAssumption
<1>0. /\ TypeOK /\ Outstanding \subseteq SingleFlight /\ Answered \subseteq SingleFlight
      /\ SingleFlight \subseteq Req
      /\ \A r \in SingleFlight : future[r] = "open" <=> r \in Outstanding
  BY DEF IInv, Outstanding, Answered, Req, NoOrphanWaiter
<1>1. ASSUME NEW r \in Req, Register(r)
      PROVE  Slot!Next \/ UNCHANGED <<connected, Outstanding, Answered, Outcome>>
  <2>1. Answered' = Answered /\ connected' = connected /\ connected
    BY <1>1 DEF Register, Answered
  <2>2. CASE r \in SingleFlight
    <3>1. Outstanding = {} /\ Outstanding' = {r}
      BY <1>1, <2>2 DEF Register, Outstanding
    <3>2. Outcome[r] = "none"
      BY <1>1, <2>2 DEF Register, Outcome, OutcomeOf
    <3>3. future' = [future EXCEPT ![r] = "open"]
      BY <1>1 DEF Register
    <3>4. Outcome' = [Outcome EXCEPT ![r] = "waiting"]
      BY <1>0, <2>2, <3>3 DEF Outcome, OutcomeOf, TypeOK
    <3> QED BY <2>1, <2>2, <3>1, <3>2, <3>4 DEF Slot!Next, Slot!Take, Outcome
  <2>3. CASE r \notin SingleFlight
    <3>1. Outstanding' = Outstanding /\ \A s \in SingleFlight : future'[s] = future[s]
      BY <1>0, <1>1, <2>3 DEF Register, Outstanding, TypeOK
    <3> QED BY <2>1, <3>1, SameOutcome
  <2> QED BY <2>2, <2>3
<1>2. ASSUME NEW r \in Req, Transmit(r) \/ SendReturns(r)
      PROVE  Slot!Next \/ UNCHANGED <<connected, Outstanding, Answered, Outcome>>
  BY <1>2 DEF Transmit, SendReturns, Outstanding, Answered, Outcome
<1>3. ASSUME NEW r \in Req, SendFails(r)
      PROVE  Slot!Next \/ UNCHANGED <<connected, Outstanding, Answered, Outcome>>
  <2>1. Answered' = Answered /\ connected' = connected /\ r \notin Answered
    BY <1>3 DEF SendFails, Answered, Replied
  <2>2. CASE r \in Outstanding
    <3>1. Outstanding = {r} /\ Outstanding' = {}
      BY <1>3, <2>2 DEF SendFails, Unregister, Outstanding, IInv, OneOutstanding
    <3>2. Outcome' = [Outcome EXCEPT ![r] = "withdrawn"]
      BY <1>0, <1>3, <2>2 DEF SendFails, Unregister, Outcome, OutcomeOf, TypeOK
    <3> QED BY <1>0, <2>1, <2>2, <3>1, <3>2 DEF Slot!Next, Slot!Withdraw, Outcome
  <2>3. CASE r \notin Outstanding
    <3>1. Outstanding' = Outstanding /\ \A s \in SingleFlight : future'[s] = future[s]
      BY <1>0, <1>3, <2>3 DEF SendFails, Unregister, Outstanding, TypeOK
    <3> QED BY <2>1, <3>1, SameOutcome
  <2> QED BY <2>2, <2>3
<1>4. ASSUME NEW r \in Req, WaitTimesOut(r)
      PROVE  Slot!Next \/ UNCHANGED <<connected, Outstanding, Answered, Outcome>>
  <2>1. Answered' = Answered /\ connected' = connected /\ Outstanding' = Outstanding
    BY <1>4 DEF WaitTimesOut, Unregister, Answered, Outstanding
  <2>2. \A s \in SingleFlight : future'[s] = future[s]
    BY <1>0, <1>4 DEF WaitTimesOut, Unregister, TypeOK
  <2> QED BY <2>1, <2>2, SameOutcome
<1>5. ASSUME NEW r \in Req, NEW kind \in {"ok", "error", "bare"}, EditorReply(r, kind)
      PROVE  Slot!Next \/ UNCHANGED <<connected, Outstanding, Answered, Outcome>>
  <2>1. Outstanding' = Outstanding /\ connected' = connected /\ connected /\ Outcome' = Outcome
    BY <1>5 DEF EditorReply, Outstanding, Outcome
  <2>2. CASE r \in SingleFlight /\ kind # "bare"
    <3>1. r \in Outstanding \ Answered
      BY <1>5, <2>2 DEF EditorReply, IInv, SlotHeldWhileLive, AnsweredOnce, Answered, Replied
    <3>2. /\ inbox' = inbox \cup {[of |-> r, kind |-> kind]}
          /\ [of |-> r, kind |-> kind].of = r /\ [of |-> r, kind |-> kind].kind # "bare"
      BY <1>5, <2>2 DEF EditorReply
    <3>3. Answered' = Answered \cup {r}
      BY <2>2, <3>2 DEF Answered
    <3> QED BY <2>1, <2>2, <3>1, <3>3 DEF Slot!Next, Slot!Answer, Outcome
  <2>3. CASE r \notin SingleFlight \/ kind = "bare"
    <3>1. Answered' = Answered
      BY <1>5, <2>3 DEF EditorReply, Answered
    <3> QED BY <2>1, <3>1
  <2> QED BY <2>2, <2>3
<1>6. ASSUME NEW f \in inbox, Consume(f)
      PROVE  Slot!Next \/ UNCHANGED <<connected, Outstanding, Answered, Outcome>>
  <2> DEFINE hits == {r \in pending : Matches(f, r)}
  <2>1. PICK heard \in SUBSET hits :
          /\ f.of \in SingleFlight /\ f.kind # "bare" => heard = {f.of}
          /\ pending' = pending \ heard
          /\ future' = [r \in Req |-> IF r \in heard /\ future[r] = "open"
                                        THEN "result" ELSE future[r]]
    BY <1>6, HitsOfSlot DEF Consume
  <2>2. f.of \in Req /\ inbox' = inbox \ {f} /\ connected' = connected
    BY <1>6 DEF IInv, TypeOK, Reply, Consume
  <2>3. CASE f.of \in SingleFlight /\ f.kind # "bare"
    <3>1. Outstanding = {f.of} /\ Outstanding' = {}
      BY <2>1, <2>3 DEF IInv, SlotHeldWhileLive, Outstanding
    <3>2. Answered = {f.of} /\ Answered' = {}
      BY <2>2, <2>3, <3>1 DEF IInv, SlotHeldWhileLive, AnsweredOnce, Answered
    <3>3. Outcome' = [Outcome EXCEPT ![f.of] = "answered"]
      BY <1>0, <2>1, <2>3, <3>1 DEF Outcome, OutcomeOf, TypeOK
    <3> QED BY <2>2, <2>3, <3>1, <3>2, <3>3 DEF Slot!Next, Slot!Deliver, Outcome
  <2>4. CASE f.of \in ListReq \/ f.kind = "bare"
    <3>1. heard \cap SingleFlight = {}
      BY <2>1, <2>4, HitsOfOthers
    <3>2. Outstanding' = Outstanding /\ \A s \in SingleFlight : future'[s] = future[s]
      BY <1>0, <2>1, <3>1 DEF Outstanding
    <3>3. Answered' = Answered
      BY <2>2, <2>4 DEF Answered
    <3> QED BY <2>2, <3>2, <3>3, SameOutcome
  <2> QED BY <2>2, <2>3, <2>4 DEF Req
<1>7. CASE Connect
  <2>1. UNCHANGED <<Outstanding, Answered, Outcome>>
    BY <1>7 DEF Connect, Outstanding, Answered, Outcome
  <2> QED BY <1>7, <2>1 DEF Connect, Slot!Next, Slot!Connect, Outcome
<1>8. CASE Disconnect
  <2>1. Outstanding' = {} /\ Answered' = {} /\ connected /\ connected' = FALSE
    BY <1>8 DEF Disconnect, Outstanding, Answered
  <2>2. Outcome' = [r \in SingleFlight |-> IF r \in Outstanding THEN "lost" ELSE Outcome[r]]
    BY <1>0, <1>8 DEF Disconnect, Outstanding, Outcome, OutcomeOf, TypeOK
  <2> QED BY <2>1, <2>2 DEF Slot!Next, Slot!Lose, Outcome
<1>9. CASE CloseSocket \/ Stop \/ UNCHANGED vars
  BY <1>9 DEF CloseSocket, Stop, vars, Outstanding, Answered, Outcome
<1> QED
  BY <1>1, <1>2, <1>3, <1>4, <1>5, <1>6, <1>7, <1>8, <1>9 DEF Next

\* EditorClient implements RequestSlot: the slot is taken when free, given back
\* only by the holder's own reply, a frame that never went out, or the end of
\* the socket, and no other request's reply is ever in flight.
THEOREM Refinement == Spec => ImplementsSlot
PROOF
  BY InitRefines, StepRefines, Invariance, PTL DEF Spec, Slot!Spec, ImplementsSlot
=============================================================================
