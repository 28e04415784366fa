---------------------------- MODULE EditorClient -----------------------------
(***************************************************************************)
(* EditorClient (editor_client.py): the JSON WebSocket to the editor, its  *)
(* table of pending requests and the one slot for project_ready and        *)
(* project_unload.                                                         *)
(*                                                                         *)
(* One action is the code between two awaits of the bridge's event loop.   *)
(* Requests are identities (each registered at most once); what a reply    *)
(* says is kept only as far as _resolve reads it.  Replies wait in `inbox` *)
(* as a set: the editor answers concurrently, so their order is arbitrary. *)
(***************************************************************************)
CONSTANTS
  ReadyReq,   \* project_ready requests
  UnloadReq,  \* project_unload requests
  ListReq,    \* project_list requests
  projectOf   \* the project uuid of each project_ready

SingleFlight == ReadyReq \cup UnloadReq
Req == SingleFlight \cup ListReq

ASSUME RequestAssumption ==
  /\ ReadyReq \cap UnloadReq = {}
  /\ SingleFlight \cap ListReq = {}
  /\ DOMAIN projectOf = ReadyReq

VARIABLES
  connected,  \* _ws is set and `connected` is True
  closing,    \* that socket is closed, _consume has not noticed yet
  stopped,    \* _stop is set
  pending,    \* _pending
  future,     \* each request's future
  send,       \* where each request's ws.send() stands
  atEditor,   \* requests the editor has and has not answered
  inbox,      \* replies received and not yet consumed
  got         \* history: whose reply resolved each request

vars == <<connected, closing, stopped, pending, future, send, atEditor, inbox, got>>

\* A reply of the editor.  "bare" is an error frame without the field that says
\* whom it answers: no `action`, or no `uuid` on a project_ready error.
Reply == [of : Req, kind : {"ok", "error", "bare"}]

TypeOK ==
  /\ connected \in BOOLEAN /\ closing \in BOOLEAN /\ stopped \in BOOLEAN
  /\ pending \subseteq Req
  /\ future \in [Req -> {"none", "open", "result", "failed", "cancelled"}]
  /\ send \in [Req -> {"idle", "queued", "written"}]
  /\ atEditor \subseteq Req
  /\ inbox \subseteq Reply
  /\ got \in [Req -> SUBSET Req]

Init ==
  /\ connected = FALSE /\ closing = FALSE /\ stopped = FALSE
  /\ pending = {} /\ atEditor = {} /\ inbox = {}
  /\ future = [r \in Req |-> "none"]
  /\ send = [r \in Req |-> "idle"]
  /\ got = [r \in Req |-> {}]

Replied(r) == \E f \in inbox : f.of = r

\* outstanding(): the request holding the slot, if any.
Outstanding == pending \cap SingleFlight

\* ------------------------------ requests ---------------------------------

\* Mutant: register() does not look for an outstanding request.
RegisterAlways(r) ==
  /\ connected /\ future[r] = "none"
  /\ pending' = pending \cup {r}
  /\ future' = [future EXCEPT ![r] = "open"]
  /\ send' = [send EXCEPT ![r] = "queued"]
  /\ UNCHANGED <<connected, closing, stopped, atEditor, inbox, got>>

\* register() and the synchronous head of send_registered(): every caller
\* checks `connected` with no await before it.  A second single-flight request
\* raises RequestPending and changes nothing.
Register(r) ==
  /\ connected /\ future[r] = "none"
  /\ r \in SingleFlight => Outstanding = {}
  /\ pending' = pending \cup {r}
  /\ future' = [future EXCEPT ![r] = "open"]
  /\ send' = [send EXCEPT ![r] = "queued"]
  /\ UNCHANGED <<connected, closing, stopped, atEditor, inbox, got>>

\* The frame leaves on the socket it was registered on.
Transmit(r) ==
  /\ send[r] = "queued" /\ r \in pending /\ ~closing
  /\ send' = [send EXCEPT ![r] = "written"]
  /\ atEditor' = atEditor \cup {r}
  /\ UNCHANGED <<connected, closing, stopped, pending, future, inbox, got>>

\* await ws.send() returns and the caller goes on.
SendReturns(r) ==
  /\ send[r] = "written"
  /\ send' = [send EXCEPT ![r] = "idle"]
  /\ UNCHANGED <<connected, closing, stopped, pending, future, atEditor, inbox, got>>

\* Mutant: unregister() leaves the future open.
UnregisterLeavesFuture(r) ==
  /\ pending' = pending \ {r}
  /\ UNCHANGED future

\* Mutant: the waiter is handed None instead of a cancellation.
UnregisterGivesNone(r) ==
  /\ pending' = pending \ {r}
  /\ future' = [future EXCEPT ![r] = IF @ = "open" THEN "None" ELSE @]

\* unregister(): out of the table, and an open future is cancelled.
Unregister(r) ==
  /\ pending' = pending \ {r}
  /\ future' = [future EXCEPT ![r] = IF @ = "open" THEN "cancelled" ELSE @]

\* ws.send() raises ConnectionClosed: the editor never answers this frame.
SendFails(r) ==
  /\ send[r] # "idle" /\ (closing \/ r \notin pending) /\ ~Replied(r)
  /\ send' = [send EXCEPT ![r] = "idle"]
  /\ atEditor' = atEditor \ {r}
  /\ Unregister(r)
  /\ UNCHANGED <<connected, closing, stopped, inbox, got>>

\* Mutant: every timed-out waiter unregisters its request.
WaitTimesOutForAll(r) ==
  /\ send[r] = "idle" /\ future[r] = "open"
  /\ Unregister(r)
  /\ UNCHANGED <<connected, closing, stopped, send, atEditor, inbox, got>>

\* wait() times out.  Only _project_list then unregisters; a project_ready or
\* project_unload stays registered, which changes nothing here.
WaitTimesOut(r) ==
  /\ r \in ListReq /\ send[r] = "idle" /\ future[r] = "open"
  /\ Unregister(r)
  /\ UNCHANGED <<connected, closing, stopped, send, atEditor, inbox, got>>

\* ------------------------------ the editor -------------------------------

EditorReply(r, kind) ==
  /\ r \in atEditor /\ connected /\ ~closing
  /\ atEditor' = atEditor \ {r}
  /\ inbox' = inbox \cup {[of |-> r, kind |-> kind]}
  /\ UNCHANGED <<connected, closing, stopped, pending, future, send, got>>

Kin(r) == IF r \in ReadyReq THEN ReadyReq ELSE IF r \in UnloadReq THEN UnloadReq ELSE ListReq

\* _resolve's test: the action, and match_project_ready's uuid.
Matches(f, r) ==
  /\ f.kind # "bare"
  /\ r \in Kin(f.of)
  /\ r \in ReadyReq => projectOf[r] = projectOf[f.of]

\* _consume and _resolve: one reply, to the request it matches; a project_list
\* reply goes to every pending list request.  (hits[:1] picks the oldest match;
\* with one slot there is no other.)
Consume(f) ==
  /\ f \in inbox
  /\ inbox' = inbox \ {f}
  /\ LET hits == {r \in pending : Matches(f, r)}
     IN  \E heard \in SUBSET hits :
           /\ IF f.of \in ListReq \/ hits = {}
                THEN heard = hits ELSE \E r \in hits : heard = {r}
           /\ pending' = pending \ heard
           /\ future' = [r \in Req |-> IF r \in heard /\ future[r] = "open"
                                         THEN "result" ELSE future[r]]
           /\ got' = [r \in Req |-> IF r \in heard THEN {f.of} ELSE got[r]]
  /\ UNCHANGED <<connected, closing, stopped, send, atEditor>>

\* ------------------------------ the socket -------------------------------

Connect ==
  /\ ~connected /\ ~stopped
  /\ connected' = TRUE
  /\ UNCHANGED <<closing, stopped, pending, future, send, atEditor, inbox, got>>

\* The peer or the network ends the socket, or close_socket() does.
CloseSocket ==
  /\ connected /\ ~closing
  /\ closing' = TRUE
  /\ UNCHANGED <<connected, stopped, pending, future, send, atEditor, inbox, got>>

\* Mutant: the finally block forgets _fail_pending().
DisconnectKeepsPending ==
  /\ connected /\ closing
  /\ connected' = FALSE /\ closing' = FALSE
  /\ atEditor' = {} /\ inbox' = {}
  /\ UNCHANGED <<stopped, pending, future, send, got>>

\* _run_loop's finally block, _fail_pending() included.  The editor drops the
\* requests of a closed session.
Disconnect ==
  /\ connected /\ closing
  /\ connected' = FALSE /\ closing' = FALSE
  /\ pending' = {} /\ atEditor' = {} /\ inbox' = {}
  /\ future' = [r \in Req |-> IF r \in pending /\ future[r] = "open"
                                THEN "failed" ELSE future[r]]
  /\ UNCHANGED <<stopped, send, got>>

Stop ==   \* stop(): no reconnect from here on
  /\ ~stopped /\ stopped' = TRUE
  /\ closing' = connected
  /\ UNCHANGED <<connected, pending, future, send, atEditor, inbox, got>>

Next ==
  \/ \E r \in Req :
       \/ Register(r) \/ Transmit(r) \/ SendReturns(r) \/ SendFails(r)
       \/ WaitTimesOut(r)
       \/ \E kind \in {"ok", "error", "bare"} : EditorReply(r, kind)
  \/ \E f \in inbox : Consume(f)
  \/ Connect \/ CloseSocket \/ Disconnect \/ Stop

\* The read loop always notices a closed socket.
Fairness == WF_vars(Disconnect)

Spec == Init /\ [][Next]_vars /\ Fairness

------------------------------------------------------------------------------
\* Of project_ready and project_unload together, at most one is with the editor
\* or on its way back, and its request still holds the slot
\* (editor_client.py:15-31): a late reply can therefore not meet a later
\* request.
SlotHeldWhileLive ==
  \A r \in SingleFlight :
    r \in atEditor \/ (\E f \in inbox : f.of = r /\ f.kind # "bare")
      => Outstanding = {r}

\* A project_ready or project_unload is only ever resolved by the editor's reply
\* to that very request, also when an earlier one asked for the same project.
OwnReply == \A r \in SingleFlight : got[r] \subseteq {r}

\* An open future belongs to a pending request: a reply or the end of the
\* socket reaches every waiter, nobody waits on a forgotten request.
NoOrphanWaiter == \A r \in Req : future[r] = "open" <=> r \in pending

\* Closing the socket frees the slot: whatever was pending is failed
\* (close_socket, editor_client.py:195-204).
ClosingFrees == \A r \in Req : (closing /\ future[r] = "open") ~> future[r] # "open"

\* How a future's state reads to the owner of the slot.
OutcomeOf == [none |-> "none", open |-> "waiting", result |-> "answered",
              cancelled |-> "withdrawn", failed |-> "lost"]

Answered == {r \in SingleFlight : \E f \in inbox : f.of = r /\ f.kind # "bare"}

\* The detailed client implements the slot of RequestSlot.
Slot == INSTANCE RequestSlot WITH
  Request  <- SingleFlight,
  slot     <- Outstanding,
  answered <- Answered,
  outcome  <- [r \in SingleFlight |-> OutcomeOf[future[r]]]

\* EditorClient's promise about the slot, as one property (editor_client.py:15-31).
ImplementsSlot == Slot!Spec
=============================================================================
