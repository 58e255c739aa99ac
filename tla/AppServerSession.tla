--------------------------- MODULE AppServerSession ---------------------------
(***************************************************************************)
(* One JSON-RPC session with a supervised `codex app-server --stdio`       *)
(* (codex-app-server-session.ts) and the owner loop of a running turn      *)
(* (codex-executor.ts).  Requests go out on one ordered lane and are never *)
(* written twice; responses, turns, items, errors and questions come back  *)
(* on one pipe of bounded capacity, in an order only the peer decides: an  *)
(* item may precede the start of its turn or outlive its end, a response   *)
(* may be late, a native turn may start by itself.  The peer here keeps    *)
(* its protocol, unless it emits one line of garbage.                      *)
(***************************************************************************)
EXTENDS Naturals, Sequences, FiniteSets, SequencesExt

CONSTANTS
  MaxTurns,    \* bound: turns of the conversation
  MaxReqs,     \* bound: requests of the client
  MaxSlots,    \* bound: progress slots
  MaxAsks,     \* bound: questions (elicitations) of the server
  MaxFaults,   \* bound: timeouts, errors and garbage
  MaxWire,     \* lines the pipe holds
  EarlyLimit,  \* items kept for turns that have not started (256 in the code)
  Focus        \* sets of optional peers' behaviour: "native" turns, "early" and
               \* late items, user "controls", "progress" slots, "asks", "faults"

Turns == 1 .. MaxTurns
Reqs == 1 .. MaxReqs
Asks == 1 .. MaxAsks

VARIABLES
  features,  \* the optional behaviour of this run, fixed from the start
  wire,      \* lines from the server that the client has not read
  stdin,     \* lines from the client that the server has not read
  server,    \* its turns, what it has told of them, its open questions
  pending,   \* the client's requests
  view,      \* what the client has observed of every turn
  notes,     \* control notifications not yet taken by the owner
  asked,     \* questions with a live callback
  reader,    \* the reading side of the session
  own,       \* the owner loop
  prog,      \* progress probes
  verdict,   \* what the evidence said when the end of a turn was taken
  faults     \* bound used

vars == <<features, wire, stdin, server, pending, view, notes, asked, reader, own, prog,
          verdict, faults>>

Msg(kind, id, t) == [kind |-> kind, id |-> id, turn |-> t]
Events == {"started", "completed", "cmdStart", "cmdEnd", "error"}

TypeOK ==
  /\ features \in Focus
  /\ Len(wire) <= MaxWire
  /\ server.turn \in [Turns -> {"none", "running", "done"}]
  /\ server.told \in [Turns -> SUBSET Events]
  /\ server.asks \in [Asks -> {"none", "open", "resolved", "accepted", "cancelled"}]
  /\ server.alive \in BOOLEAN
  /\ pending \in [Reqs -> {"none", "waiting", "answered", "refused", "late", "ambiguous"}]
  /\ view.proj \in [Turns -> {"none", "active", "sealed", "completed"}]
  /\ view.pend \in SUBSET Turns /\ view.late \in SUBSET Turns
  /\ view.evid \in [Turns -> {"clean", "command", "unknown"}]
  /\ Len(view.early) <= EarlyLimit
  /\ view.count \in 0 .. MaxTurns
  /\ asked \in [Asks -> {"none", "live", "aborted"}]
  /\ reader \in [state : {"reading", "failed", "closed"}, open : BOOLEAN]
  /\ own.step \in {"opening", "idle", "starting", "correlate", "loop", "yield", "asking",
                   "ended", "draining", "done"}
  /\ own.turn \in 0 .. MaxTurns /\ own.req \in 0 .. MaxReqs
  /\ own.control \in {"none", "steer", "interrupt"} /\ own.rejected \in BOOLEAN
  /\ prog.due \in 0 .. MaxSlots /\ prog.next \in 1 .. MaxSlots + 1
  /\ verdict \in [Turns -> {"none", "safe", "unsafe"}]
  /\ faults \in 0 .. MaxFaults

Init ==
  /\ features \in Focus
  /\ wire = <<>>
  /\ stdin = <<Msg("open", 1, 0)>>
  /\ server = [turn |-> [t \in Turns |-> "none"], told |-> [t \in Turns |-> {}],
               asks |-> [e \in Asks |-> "none"], ask |-> [e \in Asks |-> 0],
               alive |-> TRUE, garbage |-> FALSE]
  /\ pending = [r \in Reqs |-> IF r = 1 THEN "waiting" ELSE "none"]
  /\ view = [proj |-> [t \in Turns |-> "none"], pend |-> {}, late |-> {},
             evid |-> [t \in Turns |-> "clean"], early |-> <<>>, incomplete |-> FALSE,
             count |-> 0]
  /\ notes = <<>>
  /\ asked = [e \in Asks |-> "none"]
  /\ reader = [state |-> "reading", open |-> TRUE]
  /\ own = [step |-> "opening", turn |-> 0, req |-> 1, base |-> 0, active |-> {},
            known |-> {}, control |-> "none", kind |-> "none", rejected |-> FALSE]
  /\ prog = [due |-> 0, next |-> 1, probe |-> 0, req |-> 0, captured |-> 0, text |-> 0,
             shown |-> 0]
  /\ verdict = [t \in Turns |-> "none"]
  /\ faults = 0

Broken == reader.state = "failed"
Free == {r \in Reqs : pending[r] = "none"}
NewReq == CHOOSE r \in Free : \A q \in Free : r <= q
Running == {t \in Turns : server.turn[t] = "running"}
Unused == {t \in Turns : server.turn[t] = "none"}
NextTurn == CHOOSE t \in Unused : \A u \in Unused : t <= u

-----------------------------------------------------------------------------
(* The App Server, as the session uses it. *)

Room == server.alive /\ Len(wire) < MaxWire
Emit(m) == wire' = Append(wire, m)

\* A request is read and answered; a turn/start goes into a turn that already runs.
Answer ==
  /\ Room /\ stdin # <<>>
  /\ stdin' = Tail(stdin)
  /\ LET m == Head(stdin) IN
     CASE m.kind = "open" ->
            Emit(Msg("result", m.id, 0)) /\ UNCHANGED server
       [] m.kind = "start" /\ Running # {} ->
            Emit(Msg("result", m.id, CHOOSE t \in Running : TRUE)) /\ UNCHANGED server
       [] m.kind = "start" /\ Running = {} /\ Unused # {} ->
            /\ Emit(Msg("result", m.id, NextTurn))
            /\ server' = [server EXCEPT !.turn[NextTurn] = "running"]
       [] m.kind \in {"steer", "progress", "interrupt"} /\ m.turn \in Running ->
            Emit(Msg("result", m.id, m.turn)) /\ UNCHANGED server
       [] m.kind \in {"accept", "cancel"} ->
            /\ server' = IF server.asks[m.id] = "open"
                         THEN [server EXCEPT !.asks[m.id] =
                                 IF m.kind = "accept" THEN "accepted" ELSE "cancelled"]
                         ELSE server
            /\ UNCHANGED wire
       [] OTHER -> Emit(Msg("refusal", m.id, m.turn)) /\ UNCHANGED server
  /\ UNCHANGED <<features, pending, view, notes, asked, reader, own, prog, verdict, faults>>

\* A goal wakes and starts a turn of its own.
NativeTurn ==
  /\ "native" \in features /\ server.alive /\ own.step # "opening"
  /\ Running = {} /\ Unused # {}
  /\ server' = [server EXCEPT !.turn[NextTurn] = "running"]
  /\ UNCHANGED <<features, wire, stdin, pending, view, notes, asked, reader, own, prog,
                 verdict, faults>>

\* What the server may say of a turn now.  Items do not wait for the start of their
\* turn to be told, and may end after it.
Tellable(t, e) ==
  LET told == server.told[t] IN
  /\ e \notin told /\ server.turn[t] # "none"
  /\ CASE e = "started" -> TRUE
       [] e = "cmdStart" -> /\ server.turn[t] = "running" /\ "completed" \notin told
                            /\ "started" \in told \/ "early" \in features
       [] e = "cmdEnd" -> /\ "cmdStart" \in told
                          /\ "completed" \notin told \/ "early" \in features
       [] e = "error" -> /\ "started" \in told /\ server.turn[t] = "running"
                         /\ "faults" \in features /\ faults < MaxFaults
       [] e = "completed" -> "started" \in told

Tell(t, e) ==
  /\ Room /\ Tellable(t, e)
  /\ Emit(Msg(e, 0, t))
  /\ server' = [server EXCEPT !.told[t] = @ \cup {e},
                              !.turn[t] = IF e = "completed" THEN "done" ELSE @]
  /\ faults' = IF e = "error" THEN faults + 1 ELSE faults
  /\ UNCHANGED <<features, stdin, pending, view, notes, asked, reader, own, prog, verdict>>

\* The turn answers a progress probe that reached it.
Comment ==
  /\ Room /\ prog.req # 0 /\ prog.probe # 0
  /\ ~\E i \in DOMAIN stdin : stdin[i].kind = "progress"
  /\ \E s \in 1 .. prog.due : \E t \in Running :
       /\ Emit(Msg("comment", s, t)) /\ "started" \in server.told[t]
       /\ s >= prog.shown /\ ~\E i \in DOMAIN wire : wire[i].kind = "comment"
  /\ UNCHANGED <<features, stdin, server, pending, view, notes, asked, reader, own, prog,
                 verdict, faults>>

\* A question of a running turn, answered over stdin; it may be withdrawn.
Ask(e) ==
  /\ Room /\ "asks" \in features /\ server.asks[e] = "none"
  /\ \E t \in Running :
       /\ Emit(Msg("ask", e, t))
       /\ server' = [server EXCEPT !.asks[e] = "open", !.ask[e] = t]
  /\ UNCHANGED <<features, stdin, pending, view, notes, asked, reader, own, prog, verdict,
                 faults>>

Withdraw(e) ==
  /\ Room /\ server.asks[e] = "open"
  /\ Emit(Msg("resolved", e, server.ask[e]))
  /\ server' = [server EXCEPT !.asks[e] = "resolved"]
  /\ UNCHANGED <<features, stdin, pending, view, notes, asked, reader, own, prog, verdict,
                 faults>>

Garble ==
  /\ Room /\ "faults" \in features /\ faults < MaxFaults /\ faults' = faults + 1
  /\ Emit(Msg("garbage", 0, 0))
  /\ server' = [server EXCEPT !.garbage = TRUE]
  /\ UNCHANGED <<features, stdin, pending, view, notes, asked, reader, own, prog, verdict>>

\* stdin is closed, or the owner has asked for termination: the supervisor ends as
\* soon as what it still has to forward fits into the pipe.
Eof ==
  /\ Room /\ ~reader.open
  /\ Emit(Msg("eof", 0, 0))
  /\ server' = [server EXCEPT !.alive = FALSE]
  /\ UNCHANGED <<features, stdin, pending, view, notes, asked, reader, own, prog, verdict,
                 faults>>

-----------------------------------------------------------------------------
(* Projections: what the client knows of a turn from its items. *)

\* Evidence that was lost disqualifies every turn that could have owned it.
Incomplete(v) ==
  [v EXCEPT !.incomplete = TRUE, !.early = <<>>,
            !.evid = [t \in Turns |-> IF v.proj[t] = "active" THEN "unknown" ELSE @[t]]]

\* An item of a turn that is active.
ObserveItem(v, t, e) ==
  LET seen == [v EXCEPT !.evid[t] = IF @ = "clean" THEN "command" ELSE @] IN
  CASE e = "cmdStart" /\ t \notin v.pend ->
         [seen EXCEPT !.pend = @ \cup {t}, !.count = @ + 1]
    [] e = "cmdEnd" /\ t \in v.pend ->
         [seen EXCEPT !.pend = @ \ {t}, !.count = @ - 1]
    [] OTHER -> seen

\* Mutant: a full buffer drops the item and says nothing.
Forget(v, t, e) == [v EXCEPT !.early = <<>>]

\* An item whose turn has not started is kept for it, within a bound.
DeferItem(v, t, e) ==
  IF Len(v.early) >= EarlyLimit THEN Incomplete(v)
  ELSE [v EXCEPT !.early = Append(@, [turn |-> t, event |-> e])]

\* The end of an item that outlived its turn is consumed once.
LateItem(v, t) == [v EXCEPT !.late = @ \ {t}, !.count = @ - 1]

Item(v, t, e) ==
  CASE v.proj[t] = "active" -> ObserveItem(v, t, e)
    [] v.proj[t] = "none" /\ t \notin v.late -> DeferItem(v, t, e)
    [] OTHER -> IF e = "cmdEnd" /\ t \in v.late THEN LateItem(v, t) ELSE v

IsOf(t, x) == x.turn = t

\* turn/started opens a projection and replays what came too early.
Begin(v, t) ==
  LET mine == SelectSeq(v.early, LAMBDA x : IsOf(t, x))
      base == [v EXCEPT !.proj[t] = "active",
                        !.evid[t] = IF v.incomplete THEN "unknown" ELSE "clean",
                        !.early = SelectSeq(@, LAMBDA x : ~IsOf(t, x))]
  IN FoldSeq(LAMBDA x, w : ObserveItem(w, t, x.event), base, mine)

\* turn/completed seals it; items still open may end later.
Seal(v, t) ==
  LET lost == v.incomplete \/ \E i \in DOMAIN v.early : IsOf(t, v.early[i]) IN
  [v EXCEPT !.proj[t] = "sealed", !.evid[t] = IF lost THEN "unknown" ELSE @,
            !.early = SelectSeq(@, LAMBDA x : ~IsOf(t, x)),
            !.late = IF t \in v.pend THEN @ \cup {t} ELSE @, !.pend = @ \ {t}]

-----------------------------------------------------------------------------
(* The reader: one line at a time, handled to its end. *)

\* Everything that waits ends without an answer; what it did stays unknown.
AllAmbiguous == [r \in Reqs |-> IF pending[r] = "waiting" THEN "ambiguous" ELSE pending[r]]
AllAborted == [e \in Asks |-> IF asked[e] = "live" THEN "aborted" ELSE asked[e]]

FailReader ==
  /\ reader' = [reader EXCEPT !.state = "failed"]
  /\ pending' = AllAmbiguous
  /\ asked' = AllAborted

ReadsOn == reader.state = "reading" /\ wire # <<>>

\* Mutant: a failed reader leaves the pipe alone.
StopsReading == FALSE

\* After a failure the pipe is still drained, so that the supervisor can end.
Drains == Broken

Next1(kinds) == ReadsOn /\ Head(wire).kind \in kinds /\ wire' = Tail(wire)

\* A request that timed out leaves a tombstone for its late answer.
Tombstone(r) == pending[r] = "late"

TakeResponse ==
  /\ Next1({"result", "refusal"})
  /\ LET m == Head(wire) IN
     IF pending[m.id] = "waiting"
     THEN /\ pending' = [pending EXCEPT ![m.id] =
                           IF m.kind = "result" THEN "answered" ELSE "refused"]
          /\ own' = IF own.req = m.id /\ own.step = "starting" /\ m.kind = "result"
                    THEN [own EXCEPT !.turn = m.turn] ELSE own
          /\ UNCHANGED <<asked, reader>>
     ELSE /\ IF Tombstone(m.id)
             THEN /\ pending' = [pending EXCEPT ![m.id] = "ambiguous"]
                  /\ UNCHANGED <<asked, reader>>
             ELSE FailReader
          /\ UNCHANGED own
  /\ UNCHANGED <<features, stdin, server, view, notes, prog, verdict, faults>>

TakeStarted ==
  /\ Next1({"started"})
  /\ LET t == Head(wire).turn IN
     IF view.proj[t] # "none" \/ t \in view.late
     THEN FailReader /\ UNCHANGED <<view, notes>>
     ELSE /\ view' = Begin(view, t)
          /\ notes' = Append(notes, Head(wire))
          /\ UNCHANGED <<pending, asked, reader>>
  /\ UNCHANGED <<features, stdin, server, own, prog, verdict, faults>>

TakeItem ==
  /\ Next1({"cmdStart", "cmdEnd"})
  /\ view' = Item(view, Head(wire).turn, Head(wire).kind)
  /\ UNCHANGED <<features, stdin, server, pending, notes, asked, reader, own, prog, verdict,
                 faults>>

\* The questions of the turn are aborted before it is sealed.
TakeCompleted ==
  /\ Next1({"completed"})
  /\ LET t == Head(wire).turn IN
     IF view.proj[t] \in {"sealed", "completed"}
     THEN FailReader /\ UNCHANGED <<view, notes>>
     ELSE /\ view' = Seal(view, t)
          /\ notes' = Append(notes, Head(wire))
          /\ asked' = [e \in Asks |-> IF asked[e] = "live" /\ server.ask[e] = t
                                      THEN "aborted" ELSE asked[e]]
          /\ UNCHANGED <<pending, reader>>
  /\ UNCHANGED <<features, stdin, server, own, prog, verdict, faults>>

TakeError ==
  /\ Next1({"error"})
  /\ notes' = Append(notes, Head(wire))
  /\ UNCHANGED <<features, stdin, server, pending, view, asked, reader, own, prog, verdict,
                 faults>>

\* The marker ties a comment to the probe that is active.
AnswersProbe(s) == s = prog.probe

TakeComment ==
  /\ Next1({"comment"})
  /\ LET m == Head(wire) IN
     prog' = IF prog.probe # 0 /\ prog.captured = 0 /\ m.turn = own.turn /\ AnswersProbe(m.id)
             THEN [prog EXCEPT !.captured = prog.probe, !.text = m.id] ELSE prog
  /\ UNCHANGED <<features, stdin, server, pending, view, notes, asked, reader, own, verdict,
                 faults>>

\* One question at a time: another is cancelled at once.
TakeAsk ==
  /\ Next1({"ask"})
  /\ LET e == Head(wire).id IN
     IF \E f \in Asks : asked[f] # "none"
     THEN /\ stdin' = IF reader.open THEN Append(stdin, Msg("cancel", e, 0)) ELSE stdin
          /\ UNCHANGED asked
     ELSE /\ asked' = IF reader.open THEN [asked EXCEPT ![e] = "live"] ELSE asked
          /\ UNCHANGED stdin
  /\ UNCHANGED <<features, server, pending, view, notes, reader, own, prog, verdict, faults>>

TakeResolved ==
  /\ Next1({"resolved"})
  /\ asked' = [asked EXCEPT ![Head(wire).id] = IF @ = "live" THEN "aborted" ELSE @]
  /\ UNCHANGED <<features, stdin, server, pending, view, notes, reader, own, prog, verdict,
                 faults>>

TakeGarbage ==
  /\ Next1({"garbage"})
  /\ FailReader
  /\ UNCHANGED <<features, stdin, server, view, notes, own, prog, verdict, faults>>

Drain ==
  /\ Drains /\ wire # <<>> /\ Head(wire).kind # "eof"
  /\ wire' = Tail(wire)
  /\ UNCHANGED <<features, stdin, server, pending, view, notes, asked, reader, own, prog,
                 verdict, faults>>

ReaderEnds ==
  /\ reader.state # "closed" /\ wire # <<>> /\ Head(wire).kind = "eof"
  /\ ReadsOn \/ Drains
  /\ wire' = Tail(wire)
  /\ reader' = [reader EXCEPT !.state = "closed"]
  /\ pending' = AllAmbiguous /\ asked' = AllAborted
  /\ UNCHANGED <<features, stdin, server, view, notes, own, prog, verdict, faults>>

\* Mutant: the answer is written whatever became of the question.
Unchecked(e) == asked[e] # "none"

\* Only a question that nothing has aborted is still answered.
StillAsked(e) == asked[e] = "live" /\ reader.open /\ reader.state = "reading"

\* The executor's callback ends, some time later: it accepts for the turn that is current
\* and cancels otherwise (codex-executor.ts:8146); the session writes what it returned.
AskSettles(e) ==
  /\ asked[e] # "none"
  /\ asked' = [asked EXCEPT ![e] = "none"]
  /\ IF StillAsked(e)
     THEN stdin' = Append(stdin, Msg(IF view.proj[server.ask[e]] = "active" THEN "accept"
                                     ELSE "cancel", e, 0))
     ELSE UNCHANGED stdin
  /\ UNCHANGED <<features, wire, server, pending, view, notes, reader, own, prog, verdict,
                 faults>>

Timeout(r) ==
  /\ pending[r] = "waiting" /\ "faults" \in features /\ faults < MaxFaults
  /\ faults' = faults + 1
  /\ pending' = [pending EXCEPT ![r] = "late"]
  /\ UNCHANGED <<features, wire, stdin, server, view, notes, asked, reader, own, prog, verdict>>

-----------------------------------------------------------------------------
(* The owner of the turn. *)

\* A request is numbered, remembered and written; it is never written again.
Write(kind, t, r) ==
  /\ pending' = [pending EXCEPT ![r] = "waiting"]
  /\ stdin' = Append(stdin, Msg(kind, r, t))

CanWrite == Free # {} /\ reader.open /\ reader.state = "reading"

\* Whatever went wrong: terminate and close the input.
GiveUp ==
  /\ reader' = [reader EXCEPT !.open = FALSE]
  /\ own' = [own EXCEPT !.step = "draining"]
  /\ asked' = AllAborted

\* initialize, thread/start or thread/resume and its handshake.
Opened ==
  /\ own.step = "opening" /\ pending[1] # "waiting"
  /\ IF pending[1] = "answered"
     THEN own' = [own EXCEPT !.step = "idle"] /\ UNCHANGED <<reader, asked>>
     ELSE GiveUp
  /\ UNCHANGED <<features, wire, stdin, server, pending, view, notes, prog, verdict, faults>>

\* turn/start, for the task or for input that waits: the turns that are active and
\* the notifications that are there are remembered as it is sent.
StartTurn ==
  /\ own.step \in {"idle", "ended"} /\ CanWrite /\ Unused \cup Running # {}
  /\ Write("start", 0, NewReq)
  /\ own' = [own EXCEPT !.step = "starting", !.req = NewReq, !.base = Len(notes), !.turn = 0,
                        !.active = {t \in Turns : view.proj[t] = "active"}]
  /\ UNCHANGED <<features, wire, server, view, notes, asked, reader, prog, verdict, faults>>

StartAnswered ==
  /\ own.step = "starting" /\ pending[own.req] # "waiting"
  /\ IF pending[own.req] = "answered"
     THEN own' = [own EXCEPT !.step = "correlate"] /\ UNCHANGED <<reader, asked>>
     ELSE GiveUp
  /\ UNCHANGED <<features, wire, stdin, server, pending, view, notes, prog, verdict, faults>>

\* The start of the turn in the response: told after the request was sent, or of a
\* turn that was already active then.
StartOf(i) ==
  /\ notes[i].kind = "started" /\ notes[i].turn = own.turn
  /\ i > own.base \/ own.turn \in own.active

Correlate ==
  /\ own.step = "correlate"
  /\ \E i \in DOMAIN notes :
       /\ StartOf(i) /\ \A j \in 1 .. i - 1 : ~StartOf(j)
       /\ notes' = RemoveAt(notes, i)
       /\ own' = [own EXCEPT !.step = "loop", !.known = @ \cup {own.turn}, !.rejected = FALSE]
  /\ UNCHANGED <<features, wire, stdin, server, pending, view, asked, reader, prog, verdict,
                 faults>>

\* The owner leaves on a failed reader, or when the start is not told in time.
OwnerFails ==
  /\ own.step \notin {"draining", "done"}
  /\ \/ Broken
     \/ reader.state = "closed"
     \/ /\ own.step = "correlate" /\ ~\E i \in DOMAIN notes : StartOf(i)
        /\ \A i \in DOMAIN wire : wire[i].turn # own.turn
        /\ "started" \in server.told[own.turn]
  /\ GiveUp
  /\ UNCHANGED <<features, wire, stdin, server, pending, view, notes, prog, verdict, faults>>

\* The next thing that happened to the turn, in the order of the wire.
Activity(i) ==
  notes[i].kind = "error" \/ (notes[i].kind = "completed" /\ notes[i].turn = own.turn)
HasActivity == \E i \in DOMAIN notes : Activity(i)
FirstActivity == CHOOSE i \in DOMAIN notes : Activity(i) /\ \A j \in 1 .. i - 1 : ~Activity(j)

\* An error belongs to the turn, which goes on; any other is a broken protocol.
TakeTurnError ==
  /\ own.step = "loop" /\ HasActivity /\ notes[FirstActivity].kind = "error"
  /\ notes' = RemoveAt(notes, FirstActivity)
  /\ IF notes[FirstActivity].turn = own.turn THEN UNCHANGED <<own, reader, asked>> ELSE GiveUp
  /\ UNCHANGED <<features, wire, stdin, server, pending, view, prog, verdict, faults>>

\* The end of the turn: its evidence decides whether a failed one may be repeated,
\* and a probe that is still open is superseded.
TakeTerminal ==
  /\ own.step = "loop" /\ HasActivity /\ notes[FirstActivity].kind = "completed"
  /\ notes' = RemoveAt(notes, FirstActivity)
  /\ view' = [view EXCEPT !.proj[own.turn] = "completed"]
  /\ verdict' = [verdict EXCEPT ![own.turn] =
                   IF view.evid[own.turn] = "clean" THEN "safe" ELSE "unsafe"]
  /\ own' = [own EXCEPT !.step = "ended", !.control = "none"]
  /\ prog' = [prog EXCEPT !.probe = 0, !.captured = 0, !.text = 0]
  /\ UNCHANGED <<features, wire, stdin, server, pending, asked, reader, faults>>

\* A native turn that has started is taken over; starts already known are dropped.
AdoptNative ==
  /\ own.step = "ended"
  /\ \E i \in DOMAIN notes :
       /\ notes[i].kind = "started" /\ notes[i].turn \notin own.known
       /\ own' = [own EXCEPT !.step = "loop", !.turn = notes[i].turn,
                             !.known = @ \cup {notes[i].turn}, !.rejected = FALSE]
       /\ notes' = RemoveAt(notes, i)
       /\ \A j \in 1 .. i - 1 : notes[j].kind # "started"
  /\ UNCHANGED <<features, wire, stdin, server, pending, view, asked, reader, prog, verdict,
                 faults>>

\* Nothing more to do, or nothing more possible: the input is closed.
Close ==
  /\ own.step \in {"idle", "ended"}
  /\ GiveUp
  /\ UNCHANGED <<features, wire, stdin, server, pending, view, notes, prog, verdict, faults>>

OwnerDone ==
  /\ own.step = "draining" /\ reader.state = "closed"
  /\ own' = [own EXCEPT !.step = "done"]
  /\ UNCHANGED <<features, wire, stdin, server, pending, view, notes, asked, reader, prog,
                 verdict, faults>>

\* The user's input or cancellation of a running turn becomes durable.
UserInput ==
  /\ "controls" \in features /\ own.control # "interrupt"
  /\ own.step \in {"loop", "yield", "asking"}
  /\ \E c \in {"steer", "interrupt"} : c # own.control /\ own' = [own EXCEPT !.control = c]
  /\ UNCHANGED <<features, wire, stdin, server, pending, view, notes, asked, reader, prog,
                 verdict, faults>>

Quiet == own.step = "loop" /\ ~HasActivity

\* Writes share one lane: input waits for the answer to a probe.
ProbeSettled == prog.req = 0

\* dispatchControl: an interrupt at once, input only while no refused one waits for
\* the end of the turn.  The probe that was active is superseded.
Dispatch ==
  /\ Quiet \/ own.step = "yield"
  /\ own.control # "none" /\ CanWrite
  /\ own.control = "interrupt" \/ ~own.rejected
  /\ IF own.control = "interrupt" \/ ProbeSettled
     THEN /\ Write(own.control, own.turn, NewReq)
          /\ own' = [own EXCEPT !.step = "asking", !.req = NewReq, !.kind = own.control,
                                !.control = "none"]
          /\ prog' = [prog EXCEPT !.probe = 0, !.captured = 0, !.text = 0,
                                  !.next = IF prog.probe = 0 \/ @ > prog.probe THEN @
                                           ELSE prog.probe + 1]
     ELSE /\ own.step # "yield" /\ own' = [own EXCEPT !.step = "yield"]
          /\ UNCHANGED <<pending, stdin, prog>>
  /\ UNCHANGED <<features, wire, server, view, notes, asked, reader, verdict, faults>>

\* A refused input waits for the end of the turn; no answer leaves it ambiguous.
DispatchAnswered ==
  /\ own.step = "asking" /\ pending[own.req] # "waiting"
  /\ CASE pending[own.req] = "answered" ->
            own' = [own EXCEPT !.step = "loop", !.kind = "none"] /\ UNCHANGED <<reader, asked>>
       [] pending[own.req] = "refused" /\ own.kind = "steer" ->
            /\ own' = [own EXCEPT !.step = "loop", !.kind = "none", !.rejected = TRUE]
            /\ UNCHANGED <<reader, asked>>
       [] OTHER -> GiveUp
  /\ UNCHANGED <<features, wire, stdin, server, pending, view, notes, prog, verdict, faults>>

\* Time passes to the next slot of the progress schedule.
SlotDue ==
  /\ "progress" \in features /\ own.step = "loop" /\ prog.due < MaxSlots
  /\ prog' = [prog EXCEPT !.due = @ + 1]
  /\ UNCHANGED <<features, wire, stdin, server, pending, view, notes, asked, reader, own,
                 verdict, faults>>

NoPriority == Quiet /\ own.control = "none" /\ ~own.rejected

\* dispatchDueProgress: the newest due slot, superseding an older probe; the loop
\* does not wait for the answer, which comes or times out (30 s) before the next
\* slot is due.
Probe ==
  /\ NoPriority /\ CanWrite /\ prog.req = 0 /\ prog.captured = 0
  /\ prog.due >= prog.next /\ prog.due > prog.probe
  /\ Write("progress", own.turn, NewReq)
  /\ prog' = [prog EXCEPT !.probe = prog.due, !.req = NewReq,
                          !.next = IF prog.probe = 0 THEN @ ELSE prog.due]
  /\ UNCHANGED <<features, wire, server, view, notes, asked, reader, own, verdict, faults>>

\* A refused probe is dropped; one without an answer stays active, for its comment.
ProbeAnswered ==
  /\ prog.req # 0 /\ pending[prog.req] # "waiting"
  /\ prog' = IF pending[prog.req] = "refused"
             THEN [prog EXCEPT !.req = 0, !.probe = 0, !.captured = 0, !.text = 0]
             ELSE [prog EXCEPT !.req = 0]
  /\ UNCHANGED <<features, wire, stdin, server, pending, view, notes, asked, reader, own,
                 verdict, faults>>

\* publishCapturedProgress: a report that a later slot has overtaken is dropped.
Publish ==
  /\ NoPriority /\ prog.captured # 0
  /\ prog' = IF prog.due > prog.captured
             THEN [prog EXCEPT !.next = prog.due, !.captured = 0, !.text = 0, !.probe = 0]
             ELSE [prog EXCEPT !.next = IF @ > prog.captured THEN @ ELSE prog.captured + 1,
                               !.shown = prog.captured, !.captured = 0, !.text = 0, !.probe = 0]
  /\ UNCHANGED <<features, wire, stdin, server, pending, view, notes, asked, reader, own,
                 verdict, faults>>

-----------------------------------------------------------------------------
ReaderStep == TakeResponse \/ TakeStarted \/ TakeItem \/ TakeCompleted \/ TakeError
              \/ TakeComment \/ TakeAsk \/ TakeResolved \/ TakeGarbage \/ Drain \/ ReaderEnds

OwnerStep == Opened \/ StartTurn \/ StartAnswered \/ Correlate \/ OwnerFails \/ TakeTurnError
             \/ TakeTerminal \/ AdoptNative \/ Close \/ OwnerDone \/ Dispatch
             \/ DispatchAnswered \/ Probe \/ ProbeAnswered \/ Publish

\* What the peer owes: answers, the story of every turn, the end of a closed session.
ServerStep == Answer \/ Eof \/ \E t \in Turns : \E e \in {"started", "completed"} : Tell(t, e)

Next ==
  \/ ReaderStep \/ OwnerStep
  \/ Answer \/ Eof \/ NativeTurn \/ Comment \/ Garble \/ UserInput \/ SlotDue
  \/ \E t \in Turns : \E e \in Events : Tell(t, e)
  \/ \E e \in Asks : Ask(e) \/ Withdraw(e) \/ AskSettles(e)
  \/ \E r \in Reqs : Timeout(r)

Spec == Init /\ [][Next]_vars /\ WF_vars(ReaderStep) /\ WF_vars(OwnerStep) /\ WF_vars(ServerStep)

-----------------------------------------------------------------------------
(* Properties. *)

\* A peer that keeps its protocol never fails the session, however it orders what it
\* says and however late it answers.
NoFalseAlarm == Broken => server.garbage

\* The bound on pending items counts exactly the items that are pending.
CountIsExact == view.count = Cardinality(view.pend) + Cardinality(view.late)

\* Input and a probe are never on the lane together.
OneLane ==
  Cardinality({r \in Reqs : pending[r] = "waiting" /\ (r = prog.req
                            \/ (own.step = "asking" /\ own.req = r /\ own.kind = "steer"))}) <= 1

Safety == TypeOK /\ NoFalseAlarm /\ CountIsExact /\ OneLane

\* A turn is only called safe to repeat if it ran no command.
EvidenceIsSound == \A t \in Turns : verdict[t] = "safe" => "cmdStart" \notin server.told[t]

\* A question is accepted only while the client knows its turn to be running and
\* nobody has withdrawn it; a report answers the probe of its own slot.
AnswersAreCurrent ==
  [][/\ \A e \in Asks :
          Len(stdin') > Len(stdin) /\ stdin'[Len(stdin')] = Msg("accept", e, 0)
          => view.proj[server.ask[e]] = "active" /\ asked[e] = "live"
     /\ prog'.shown # prog.shown => prog'.shown > prog.shown /\ prog.text = prog.captured]_vars

\* Every session ends, and no request is left without an outcome.
Rests == own.step = "done" /\ \A r \in Reqs : pending[r] # "waiting"
SessionEnds == <>[]Rests
=============================================================================
