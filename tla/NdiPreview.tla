----------------------------- MODULE NdiPreview -----------------------------
(***************************************************************************)
(* NDI previews on the screens of one machine (ndi_preview.py): show() and *)
(* its confirmation from the machine's journal, stop(), the relays, and    *)
(* outside the bridge the videocomposer (VC), its journal and the engine.  *)
(*                                                                         *)
(* Requests are numbered as they come.  One source is shown by all: that   *)
(* is what makes journal lines of two requests look alike.  OSC to the VC  *)
(* arrives at once; its lines may be read later (a node's are uploaded),   *)
(* and from which of them a request reads on is exact only where the       *)
(* machine's journal has a cursor.                                         *)
(***************************************************************************)
EXTENDS Naturals, SequencesExt

CONSTANTS
  Screens,        \* connectors of the machine
  MaxShows,       \* requests
  MaxLoads,       \* project loads of the engine
  Early,          \* bound: requests whose connector the VC may not drive, or
                  \* whose source may refuse the relay after start() reached it
  Timed,          \* bound: requests that may find no cursor in the journal
  Relayed         \* bound: requests that may need a relay

ASSUME PreviewAssumption ==
  /\ 0 \notin Screens /\ MaxShows \in Nat /\ MaxLoads \in Nat
  /\ Early \subseteq 1..MaxShows /\ Timed \subseteq 1..MaxShows /\ Relayed \subseteq 1..MaxShows

Shows == 1..MaxShows

VARIABLES
  engine,    \* external: "idle" or "loaded"
  loads,     \* external: project loads so far
  known,     \* EngineClient.load names a project (and is not "" or UNKNOWN)
  req,       \* the requests
  lock,      \* the machine's lock: the request that holds it, or 0
  previews,  \* _previews, 0 for none
  table,     \* _relays: the request whose relay it is, or 0
  relay,     \* the relays, by the request they were opened for
  stopping,  \* stop(): the screens left, the one whose relay is being closed
  job,       \* external: the VC's asynchronous loads, by request
  up,        \* external: the request each screen shows, or 0
  journal,   \* external: the VC's lines
  seen       \* external: how many of them can be read

engineVars == <<engine, loads, known>>
vcVars     == <<job, up, journal, seen>>
bridgeVars == <<req, lock, previews, table, relay, stopping>>
vars       == <<engineVars, vcVars, bridgeVars>>

Places   == {"none", "resolve", "route", "mark", "open", "poll", "refit", "done", "refused"}
Verdicts == {"pending", "frames", "failed", "unknown_output", "superseded", "unconfirmed"}
Lines    == {"complete", "failed", "cancelled"} \X Screens \cup {<<"unknown", s>> : s \in Screens}
Jobs     == {"none", "loading", "cancelled", "complete", "over"}
Request  == [at : Places, screen : Screens \cup {0}, relayed : BOOLEAN, mark : Nat, exact : BOOLEAN,
             rechecked : BOOLEAN, verdict : Verdicts, stopped : BOOLEAN]

NoStop == [todo |-> {}, closing |-> 0, all |-> FALSE]

PreviewTypeOK ==
  /\ engine \in {"idle", "loaded"} /\ loads \in 0..MaxLoads
  /\ known \in BOOLEAN
  /\ req \in [Shows -> Request] /\ lock \in 0..MaxShows
  /\ previews \in [Screens -> 0..MaxShows] /\ table \in [Screens -> 0..MaxShows]
  /\ relay \in [Shows -> {"none", "serving", "closed"}]
  /\ stopping \in [todo : SUBSET Screens, closing : Screens \cup {0}, all : BOOLEAN]
  /\ job \in [Shows -> Jobs] /\ up \in [Screens -> 0..MaxShows]
  /\ journal \in Seq(Lines) /\ seen \in 0..Len(journal)

\* ------------------- the VC ----------------------------------------------

\* A layer is unloaded: it is gone, and a load of it that is under way will be discarded.
Discard(S) == [r \in Shows |-> IF job[r] = "loading" /\ req[r].screen \in S THEN "cancelled" ELSE job[r]]
Down(S)    == [s \in Screens |-> IF s \in S THEN 0 ELSE up[s]]

Unload(s) == job' = Discard({s}) /\ up' = Down({s})

Line(k, s) == journal' = Append(journal, <<k, s>>)

LoadEnds(r) ==
  LET s == req[r].screen
  IN  \/ /\ job[r] = "loading" /\ job' = [job EXCEPT ![r] = "complete"]
         /\ up' = [up EXCEPT ![s] = r] /\ Line("complete", s)
      \/ /\ job[r] = "loading" /\ job' = [job EXCEPT ![r] = "over"]
         /\ UNCHANGED up /\ Line("failed", s)
      \/ /\ job[r] = "cancelled" /\ job' = [job EXCEPT ![r] = "over"]
         /\ UNCHANGED up /\ Line("cancelled", s)
VCEnds(r) == LoadEnds(r) /\ UNCHANGED <<seen, engineVars, bridgeVars>>

VCRestarts ==   \* nothing is said of the loads under way
  /\ job' = [r \in Shows |-> IF job[r] \in {"loading", "cancelled"} THEN "over" ELSE job[r]]
  /\ job' # job /\ up' = Down(Screens)
  /\ UNCHANGED <<journal, seen, engineVars, bridgeVars>>

Upload ==
  /\ seen < Len(journal) /\ seen' = seen + 1
  /\ UNCHANGED <<job, up, journal, engineVars, bridgeVars>>

\* ------------------- the engine ------------------------------------------

EngineLoads ==   \* and resets every VC
  /\ engine = "idle" /\ loads < MaxLoads
  /\ engine' = "loaded" /\ loads' = loads + 1
  /\ job' = Discard(Screens) /\ up' = Down(Screens)
  /\ UNCHANGED <<known, journal, seen, bridgeVars>>

EngineUnloads ==
  /\ engine = "loaded" /\ engine' = "idle"
  /\ UNCHANGED <<loads, known, vcVars, bridgeVars>>

Frame ==   \* also the dump after a connect
  /\ known # (engine = "loaded") /\ known' = ~known
  /\ UNCHANGED <<engine, loads, vcVars, bridgeVars>>

Drop ==
  /\ known /\ known' = FALSE
  /\ UNCHANGED <<engine, loads, vcVars, bridgeVars>>

\* ------------------- show() ----------------------------------------------

\* guard, for a request with force_unknown_engine.  Without it, while the bridge
\* tracks a load, while auto-load is active: a refusal like those in Routed.
MayShow == ~known

At(r, place) == req' = [req EXCEPT ![r].at = place]

Show(r, s, relayed) ==
  /\ req[r].at = "none" /\ \A q \in 1..(r - 1) : req[q].at # "none"
  /\ MayShow
  /\ req' = [req EXCEPT ![r].at = "resolve", ![r].screen = s, ![r].relayed = relayed]
  /\ UNCHANGED <<engineVars, vcVars, lock, previews, table, relay, stopping>>

\* Mutant: a second show waits neither for the first nor is refused.
ResolvedUnlocked(r) ==
  /\ req[r].at = "resolve" /\ At(r, "route") /\ lock' = r
  /\ UNCHANGED <<engineVars, vcVars, previews, table, relay, stopping>>

Resolved(r) ==   \* the screen, its health and its machine's address are known
  /\ req[r].at = "resolve"
  /\ \/ lock = 0 /\ lock' = r /\ At(r, "route")
     \/ UNCHANGED lock /\ At(r, "refused")     \* busy, or no such screen or machine
  /\ UNCHANGED <<engineVars, vcVars, previews, table, relay, stopping>>

Refuse(r) == At(r, "refused") /\ lock' = 0

Routed(r) ==
  /\ req[r].at = "route"
  /\ \/ MayShow /\ At(r, "mark") /\ UNCHANGED lock
     \/ Refuse(r)   \* the guard, no such source, no route
  /\ UNCHANGED <<engineVars, vcVars, previews, table, relay, stopping>>

\* The load is sent and recorded.  `bad`: the VC does not drive the connector.
Send(r, newJob, newUp) ==
  LET s == req[r].screen
  IN  /\ job' = [newJob EXCEPT ![r] = "loading"] /\ up' = newUp
      /\ \E bad \in {FALSE, (r \in Early)} :
           journal' = IF bad THEN Append(journal, <<"unknown", s>>) ELSE journal
      /\ previews' = [previews EXCEPT ![s] = r]

CloseRelay(s) ==   \* _close_relay
  /\ table' = [table EXCEPT ![s] = 0]
  /\ relay' = IF table[s] = 0 THEN relay ELSE [relay EXCEPT ![table[s]] = "closed"]

\* Mutant: the cursor is not used, lines from before the request count as its own.
MarksFromStart(r) == {[mark |-> 0, exact |-> TRUE]}

\* Journal.mark: a cursor behind all that can be read, or only a time.  read()
\* then begins 1 s or 10 s before it, by the stamps of the lines: it may take in
\* lines from before the request, and miss those that come late.
Marks(r) ==
  {[mark |-> seen, exact |-> TRUE]}
    \cup {[mark |-> k, exact |-> FALSE] : k \in {k \in 0..Len(journal) : r \in Timed}}

WithMark(r, m, place) ==
  req' = [req EXCEPT ![r].mark = m.mark, ![r].exact = m.exact, ![r].at = place]

\* Mutant: the old layer is not unloaded, a load of it that is under way goes on.
MarkedOverOld(r) ==
  LET s == req[r].screen
  IN  /\ req[r].at = "mark"
      /\ \E m \in Marks(r) :
           IF req[r].relayed \/ table[s] # 0
             THEN WithMark(r, m, "open") /\ UNCHANGED <<job, up, journal, previews>>
             ELSE WithMark(r, m, "poll") /\ Send(r, job, up)
      /\ CloseRelay(s)
      /\ UNCHANGED <<engineVars, seen, lock, stopping>>

\* The old layer is unloaded, its relay closed; without a relay to close or to
\* open, the load follows at once.
Marked(r) ==
  LET s == req[r].screen
  IN  /\ req[r].at = "mark"
      /\ \E m \in Marks(r) :
           IF req[r].relayed \/ table[s] # 0
             THEN WithMark(r, m, "open") /\ Unload(s) /\ UNCHANGED <<journal, previews>>
             ELSE WithMark(r, m, "poll") /\ Send(r, Discard({s}), Down({s}))
      /\ CloseRelay(s)
      /\ UNCHANGED <<engineVars, seen, lock, stopping>>

Opened(r) ==
  /\ req[r].at = "open"
  /\ IF req[r].relayed
       THEN /\ relay' = [relay EXCEPT ![r] = "serving"]
            /\ table' = [table EXCEPT ![req[r].screen] = r]
       ELSE UNCHANGED <<relay, table>>
  /\ Send(r, job, up) /\ At(r, "poll")
  /\ UNCHANGED <<engineVars, seen, lock, stopping>>

\* journalctl takes longer than 10 s; no relay can be opened; a send fails.
ShowFails(r) ==
  /\ req[r].at \in {"mark", "open"} /\ Refuse(r)
  /\ UNCHANGED <<engineVars, vcVars, previews, table, relay, stopping>>

\* ------------------- _confirm --------------------------------------------

\* Journal.read: the lines behind the request's mark, as far as they can be read.
LinesSince(mark) == SubSeq(journal, mark + 1, seen)

\* classify: what they say of the request; the last of its ends counts.
Classify(r) ==
  LET own     == LinesSince(req[r].mark)
      Said(k) == Contains(own, <<k, req[r].screen>>)
      failed  == \E i \in DOMAIN own :
                   /\ own[i] = <<"failed", req[r].screen>>
                   /\ \A j \in DOMAIN own : j > i => own[j] # <<"complete", req[r].screen>>
      unknown == \E i \in DOMAIN own : own[i][1] = "unknown"
      ended   == IF failed THEN "failed" ELSE IF Said("complete") THEN "frames"
                 ELSE IF Said("cancelled") THEN "superseded" ELSE "pending"
  IN  IF unknown /\ ended \in {"pending", "frames"} THEN "unknown_output" ELSE ended

\* What the re-check finds, in the first poll later than LOAD_RECHECK_S after the send.
Races(r) == ~req[r].rechecked /\ known

\* The screen's layer is unloaded, if that is called for.
UnloadIf(c, s) == IF c THEN Unload(s) ELSE UNCHANGED <<job, up>>

\* The request's verdict is v; a layer without output is unloaded.
Verdict(r, v, races) ==
  /\ req' = [req EXCEPT ![r].at = "done", ![r].rechecked = FALSE, ![r].verdict = v]
  /\ lock' = 0
  /\ UnloadIf(v = "unknown_output" \/ races, req[r].screen)

Poll(r) ==   \* pending: nothing changes but in the poll that re-checks
  LET v == Classify(r)
  IN  /\ req[r].at = "poll"
      /\ \/ /\ v = "pending" /\ ~req[r].rechecked
            /\ req' = [req EXCEPT ![r].rechecked = TRUE]
            /\ UnloadIf(Races(r), req[r].screen) /\ UNCHANGED lock
         \/ \E races \in {FALSE, Races(r)} :
              \/ /\ v = "frames"
                 /\ req' = [req EXCEPT ![r].at = "refit", ![r].rechecked = FALSE]
                 /\ UnloadIf(races, req[r].screen) /\ UNCHANGED lock
              \/ v \notin {"pending", "frames"} /\ Verdict(r, v, races)
              \/ req[r].relayed /\ r \in Early /\ Verdict(r, "failed", races)   \* upstream_errors
      /\ UNCHANGED <<engineVars, journal, seen, previews, table, relay, stopping>>

Refit(r) ==   \* a relay may have passed no byte yet: "relay_stalled"
  /\ req[r].at = "refit"
  /\ \E v \in {Classify(r)} \cup (IF req[r].relayed /\ Classify(r) = "frames" THEN {"failed"} ELSE {}) :
       Verdict(r, v, FALSE)
  /\ UNCHANGED <<engineVars, journal, seen, previews, table, relay, stopping>>

\* CONFIRM_TIMEOUT_S is over, whatever the VC still loads and the journal lacks.
TimesOut(r) ==
  /\ req[r].at = "poll" /\ req[r].rechecked
  /\ Verdict(r, "unconfirmed", FALSE)
  /\ UNCHANGED <<engineVars, journal, seen, previews, table, relay, stopping>>

\* journalctl takes longer than 10 s, or a send fails: the lock is let go at once.
ConfirmFails(r) ==
  /\ req[r].at \in {"poll", "refit"}
  /\ \E races \in {FALSE, req[r].at = "poll" /\ Races(r)} : Verdict(r, "unconfirmed", races)
  /\ UNCHANGED <<engineVars, journal, seen, previews, table, relay, stopping>>

\* ------------------- stop() ----------------------------------------------

Stop(S) ==
  /\ stopping = NoStop
  /\ stopping' = [todo |-> S, closing |-> 0, all |-> S = Screens]
  /\ UNCHANGED <<engineVars, vcVars, req, lock, previews, table, relay>>

MarkStopped(s) == req' = [r \in Shows |-> IF r = previews[s] THEN [req[r] EXCEPT !.stopped = TRUE] ELSE req[r]]

StopScreen(s) ==   \* its relay is closed before its request is marked
  /\ s \in stopping.todo /\ stopping.closing = 0
  /\ Unload(s) /\ CloseRelay(s)
  /\ IF table[s] = 0
       THEN MarkStopped(s) /\ stopping' = [stopping EXCEPT !.todo = @ \ {s}]
       ELSE UNCHANGED req /\ stopping' = [stopping EXCEPT !.todo = @ \ {s}, !.closing = s]
  /\ UNCHANGED <<engineVars, journal, seen, lock, previews>>

RelayStopped ==
  /\ stopping.closing # 0 /\ MarkStopped(stopping.closing)
  /\ stopping' = [stopping EXCEPT !.closing = 0]
  /\ UNCHANGED <<engineVars, vcVars, lock, previews, table, relay>>

StopEnds ==   \* without an argument, every relay that is left goes too
  /\ stopping # NoStop /\ stopping.todo = {} /\ stopping.closing = 0
  /\ stopping' = NoStop
  /\ IF stopping.all
       THEN /\ table' = [s \in Screens |-> 0]
            /\ relay' = [r \in Shows |-> IF \E s \in Screens : table[s] = r
                                           THEN "closed" ELSE relay[r]]
       ELSE UNCHANGED <<table, relay>>
  /\ UNCHANGED <<engineVars, vcVars, req, lock, previews>>

\* ------------------- relays ----------------------------------------------

Watch(r) ==   \* a project is loaded, or the relay is idle; the table keeps it
  /\ relay[r] = "serving" /\ relay' = [relay EXCEPT ![r] = "closed"]
  /\ UNCHANGED <<engineVars, vcVars, req, lock, previews, table, stopping>>

\* -------------------------------------------------------------------------

Init ==
  /\ engine = "idle" /\ loads = 0 /\ known = FALSE
  /\ req = [r \in Shows |-> [at |-> "none", screen |-> 0,
                             relayed |-> FALSE, mark |-> 0, exact |-> TRUE, rechecked |-> FALSE,
                             verdict |-> "pending", stopped |-> FALSE]]
  /\ lock = 0 /\ previews = [s \in Screens |-> 0] /\ table = [s \in Screens |-> 0]
  /\ relay = [r \in Shows |-> "none"] /\ stopping = NoStop
  /\ job = [r \in Shows |-> "none"] /\ up = [s \in Screens |-> 0]
  /\ journal = <<>> /\ seen = 0

Progress(r) ==   \* the awaits of show() and _confirm that end by themselves
  Resolved(r) \/ Routed(r) \/ Marked(r) \/ Opened(r) \/ ShowFails(r) \/ Poll(r) \/ Refit(r)
  \/ TimesOut(r) \/ ConfirmFails(r)

Next ==
  \/ EngineLoads \/ EngineUnloads \/ Frame \/ Drop
  \/ Upload \/ VCRestarts
  \/ \E r \in Shows :
       \/ VCEnds(r) \/ Progress(r) \/ Watch(r)
       \/ \E s \in Screens, relayed \in {FALSE, (r \in Relayed)} : Show(r, s, relayed)
  \/ \E S \in {Screens} \cup {{s} : s \in Screens} : Stop(S)
  \/ \E s \in Screens : StopScreen(s)
  \/ RelayStopped \/ StopEnds

Spec == Init /\ [][Next]_vars

\* ------------------- properties ------------------------------------------

\* Requests for one machine go one at a time, from the look-ups to the verdict,
\* and the lock is let go by each of their ends: a refusal, an error, a verdict
\* (ndi_preview.py:987-990, 1028-1034).
OneAtATime ==
  \A r \in Shows : r = lock <=> req[r].at \in {"route", "mark", "open", "poll", "refit"}

\* A load completed although its request was answered without it: failed,
\* superseded, unconfirmed, or confirmed by lines that its mark did not keep out.
GivenUp(q) ==
  /\ req[q].at = "done" /\ job[q] = "complete"
  /\ ~(req[q].verdict = "frames" /\ req[q].exact)

\* A request was answered before the journal showed how its load ended, for one of
\* the reasons that the code has: the VC or a relay refused it, time was up or the
\* journal could not be read, or its mark was only a time.
Unsettled ==
  \E p \in Shows :
    \/ p \in Early /\ req[p].verdict \in {"failed", "unknown_output"}
    \/ req[p].verdict = "unconfirmed"
    \/ req[p].at = "done" /\ ~req[p].exact

\* A preview that is reported as on (frames) was loaded by its own request: no
\* line of an earlier request of the same source and screen, read late, confirms
\* it (ndi_preview.py:1032-1034, 264).  The code has two exceptions, and this says
\* that there is no other: a mark that is only a time, and an earlier request of
\* the screen that was given up while the VC went on loading.  The first to be
\* given up is one that the code answered early, not one that read another's line.
VerdictIsOwn ==
  \A r \in Shows : req[r].verdict = "frames" =>
    \/ job[r] = "complete"
    \/ ~req[r].exact
    \/ Unsettled /\ \E q \in Shows : req[q].screen = req[r].screen /\ GivenUp(q)

\* What a screen shows is the request that the bridge has on record for it, and
\* a relay that listens is the one in the table for its screen: a stop or the
\* next show finds both, whatever was replaced, failed or stopped before
\* (ndi_preview.py:1012-1027, 1260).
ScreensAreKnown ==
  /\ \A s \in Screens : up[s] # 0 => previews[s] = up[s]
  /\ \A r \in Shows : relay[r] = "serving" => table[req[r].screen] = r
=============================================================================
