----------------------------- MODULE RequestSlot -----------------------------
(***************************************************************************)
(* What EditorClient promises about project_ready and project_unload       *)
(* (editor_client.py:15-31): one slot, held from register() until the      *)
(* editor's own reply, a send that never went out, or the end of the       *)
(* socket.  EditorClient implements this specification.                    *)
(***************************************************************************)
CONSTANT Request   \* the single-flight requests ever made

VARIABLES
  connected,  \* the editor socket is up
  slot,       \* the request holding the slot: {} or a singleton
  answered,   \* holders whose reply is on its way back
  outcome     \* how each request ended

slotVars == <<connected, slot, answered, outcome>>

Outcomes == {"none", "waiting", "answered", "withdrawn", "lost"}

Init ==
  /\ connected = FALSE
  /\ slot = {} /\ answered = {}
  /\ outcome = [r \in Request |-> "none"]

Connect ==
  /\ ~connected /\ connected' = TRUE
  /\ UNCHANGED <<slot, answered, outcome>>

Take(r) ==
  /\ connected /\ slot = {} /\ outcome[r] = "none"
  /\ slot' = {r}
  /\ outcome' = [outcome EXCEPT ![r] = "waiting"]
  /\ UNCHANGED <<connected, answered>>

\* The editor answers only the holder: no reply is ever in flight for a
\* request that has given the slot up.
Answer(r) ==
  /\ connected /\ r \in slot \ answered
  /\ answered' = answered \cup {r}
  /\ UNCHANGED <<connected, slot, outcome>>

Deliver(r) ==
  /\ r \in slot \cap answered
  /\ slot' = {} /\ answered' = {}
  /\ outcome' = [outcome EXCEPT ![r] = "answered"]
  /\ UNCHANGED connected

Withdraw(r) ==
  /\ r \in slot \ answered
  /\ slot' = {}
  /\ outcome' = [outcome EXCEPT ![r] = "withdrawn"]
  /\ UNCHANGED <<connected, answered>>

Lose ==
  /\ connected /\ connected' = FALSE
  /\ slot' = {} /\ answered' = {}
  /\ outcome' = [r \in Request |-> IF r \in slot THEN "lost" ELSE outcome[r]]

Next ==
  \/ Connect \/ Lose
  \/ \E r \in Request : Take(r) \/ Answer(r) \/ Deliver(r) \/ Withdraw(r)

Spec == Init /\ [][Next]_slotVars
=============================================================================
