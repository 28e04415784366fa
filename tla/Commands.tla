------------------------------ MODULE Commands -------------------------------
(***************************************************************************)
(* GO, STOP, set-next-cue and /gocue (bridge.py): HTTP calls that send OSC *)
(* commands over the socket of EngineLink, and the engine that takes them. *)
(*                                                                         *)
(* A cue is named by the call that chose it.  Token and rate limit refuse  *)
(* a call and leave nothing behind; so does a failed gate.                 *)
(***************************************************************************)
EXTENDS EngineLink

CONSTANT MaxCalls   \* bound: calls

ASSUME MaxCallsAssumption == MaxCalls \in Nat

Calls == 1..MaxCalls

VARIABLES
  call,    \* the calls: what they ask for and where they await
  wire,    \* external: commands sent on the live connection, not yet taken
  chosen   \* history: the calls whose set-next-cue the engine took

callVars == <<call, wire, chosen>>
allVars  == <<vars, callVars>>

Kinds  == {"go", "stop", "set", "gocue"}
Places == {"none", "body", "setting", "sending", "ended"}
Command == [cmd : {"go", "stop", "set"}, by : Calls]

CommandsTypeOK ==
  /\ TypeOK
  /\ call \in [Calls -> [kind : Kinds, at : Places]]
  /\ wire \in Seq(Command) /\ chosen \subseteq Calls

\* ------------------------- the handlers ----------------------------------

\* send_osc: the frame is written, then the send waits for room in the socket.
Send(r, c, place) ==
  /\ cache.connected
  /\ wire' = Append(wire, [cmd |-> c, by |-> r])
  /\ call' = [call EXCEPT ![r].at = place]

\* send_osc on a socket that is down, or a cue that is missing or malformed.
End(r) == call' = [call EXCEPT ![r].at = "ended"] /\ UNCHANGED wire

NewCall(r, kind) ==
  /\ call[r].at = "none" /\ \A q \in 1..(r - 1) : call[q].at # "none"
  /\ IsKnown(cache)
  /\ UNCHANGED <<vars, chosen>>

\* handle_go and handle_stop await nothing between their gates and the send.
Press(r, c) ==
  /\ NewCall(r, c)
  /\ c = "go" => cache.armed = "yes"
  /\ wire' = Append(wire, [cmd |-> c, by |-> r])
  /\ call' = [call EXCEPT ![r] = [kind |-> c, at |-> "sending"]]

\* handle_setnextcue and handle_gocue look at the engine, then read the body.
Ask(r, kind) ==
  /\ NewCall(r, kind)
  /\ ProjectLoaded(cache)
  /\ kind = "gocue" => cache.armed = "yes"
  /\ call' = [call EXCEPT ![r] = [kind |-> kind, at |-> "body"]]
  /\ UNCHANGED wire

BodyRead(r) ==   \* _extract_cue returns; the gates are not looked at again
  /\ call[r].at = "body"
  /\ Send(r, "set", "setting") \/ End(r)
  /\ UNCHANGED <<vars, chosen>>

CueSent(r) ==
  /\ call[r].at = "setting"
  /\ IF call[r].kind = "gocue" THEN Send(r, "go", "sending") ELSE End(r)
  /\ UNCHANGED <<vars, chosen>>

Sent(r) ==
  /\ call[r].at = "sending" /\ End(r)
  /\ UNCHANGED <<vars, chosen>>

\* ------------------------- the socket ------------------------------------

\* Mutant: the result of the first send is not looked at.
CutLastOnly ==
  [r \in Calls |-> IF call[r].at = "sending" THEN [call[r] EXCEPT !.at = "ended"] ELSE call[r]]

Cut ==   \* ConnectionClosed in every send that waits: the call answers 502
  [r \in Calls |-> IF call[r].at \in {"setting", "sending"}
                     THEN [call[r] EXCEPT !.at = "ended"] ELSE call[r]]

Up   == Connect /\ UNCHANGED callVars
Down == Disconnect /\ wire' = <<>> /\ call' = Cut /\ UNCHANGED chosen
Read == Consume /\ UNCHANGED callVars

\* ------------------------- the engine (external) -------------------------

EngineMoves ==   \* Go: another client's
  /\ (\E p \in Project : Load(p)) \/ Unload \/ Arm \/ Go \/ Halt
  /\ UNCHANGED callVars

Takes(c) == wire # <<>> /\ Head(wire).cmd = c /\ wire' = Tail(wire) /\ UNCHANGED call

TakesCue ==
  /\ Takes("set") /\ chosen' = chosen \cup {Head(wire).by}
  /\ UNCHANGED vars

TakesGo ==   \* on a running show it fires the next cue
  /\ Takes("go") /\ UNCHANGED chosen
  /\ \/ Go
     \/ (engine.running = "yes" \/ engine.armed = "no") /\ UNCHANGED vars

TakesStop ==
  /\ Takes("stop") /\ UNCHANGED chosen
  /\ Halt \/ (engine.running = "no" /\ UNCHANGED vars)

\* -------------------------------------------------------------------------

CommandsInit ==
  /\ Init
  /\ call = [r \in Calls |-> [kind |-> "go", at |-> "none"]]
  /\ wire = <<>> /\ chosen = {}

CommandsNext ==
  \/ Up \/ Down \/ Read \/ EngineMoves
  \/ TakesCue \/ TakesGo \/ TakesStop
  \/ \E r \in Calls :
       \/ \E c \in {"go", "stop"} : Press(r, c)
       \/ \E k \in {"set", "gocue"} : Ask(r, k)
       \/ BodyRead(r) \/ CueSent(r) \/ Sent(r)

CommandsSpec ==
  CommandsInit /\ [][CommandsNext]_allVars /\ WF_allVars(Up) /\ WF_allVars(Read)

------------------------------------------------------------------------------
\* The engine never takes the GO of a /gocue whose set-next-cue it has not taken,
\* whatever drops, connects and other calls lie between the two sends: it would
\* fire a cue that nobody chose ("so the engine processes them in order",
\* bridge.py:310-316).
GoAfterItsCue ==
  wire # <<>> /\ Head(wire).cmd = "go" /\ call[Head(wire).by].kind = "gocue"
    => Head(wire).by \in chosen
=============================================================================
