----------------------------- MODULE LiveInput -----------------------------
(***************************************************************************)
(* Replies and interrupts that reach a job while it runs.                  *)
(*                                                                         *)
(* A reply to the Slack thread of a running job becomes an interjection:   *)
(* the executor pauses the task turn, answers the reply in a read-only     *)
(* turn of its own, waits until the notifier has posted the answer, and    *)
(* promotes it: an answer-only reply is closed, a task-update raises the   *)
(* job's input_revision and the task runs on with it.  An interrupt        *)
(* cancels the job and everything that is still unanswered.                *)
(*                                                                         *)
(* The gateway (server.ts) admits and drains messages, the executor        *)
(* (codex-executor.ts, stage 'complete') drives the turns through the      *)
(* hooks of primary-live-controls.ts, the notifier posts answers, and the  *)
(* daemon may stop at any point.  Each action that changes a table is one  *)
(* transaction of job-runner.ts.                                           *)
(*                                                                         *)
(* One job and its thread are modelled, read-only and of the work          *)
(* workflow.  Its queue life is in JobStore.  Steers are left out: outside *)
(* audit setup and the retired approval flow no reply becomes one.  The    *)
(* executor alone raises input_revision then, so the comparisons of a      *)
(* snapshot it has just read with the row always agree.                    *)
(***************************************************************************)
EXTENDS Naturals, Sequences, FiniteSets

CONSTANTS
  Replies,     \* ordinary replies to the thread
  Stop,        \* the interrupt command
  None,
  MaxAttempts, \* bound: claims of the job
  MaxFaults    \* bound: limits, refusals, lost answers and crashes injected

ASSUME MessageAssumption == Stop \notin Replies /\ None \notin Replies \cup {Stop}
ASSUME FaultAssumption   == IsFiniteSet(Replies) /\ MaxAttempts \in Nat \ {0} /\ MaxFaults \in Nat

Messages == Replies \cup {Stop}

VARIABLES
  \* the job row and its initial dispatch receipt; staged is the revision of
  \* the result it holds, limit the attempt of its rate-limit terminal
  status, cancel, accepts, revision, turn, staged, limit, sent, attempts,
  stop,        \* the interrupt's row in job_controls
  \* job_interjections, by column
  ij,          \* status, "none" stands for: no row
  bindRev,     \* input_revision
  pausedAt,    \* paused_at IS NOT NULL
  kind,        \* disposition
  line,        \* the rows in the order of seq
  \* the inbound ledger and the gateway's drain
  inbound,     \* inbound_deliveries
  older,       \* pairs of its rows, the one with the smaller seq first
  bound,       \* expected_control_job_id is set
  held,        \* the row in status 'processing'
  fate,        \* what became of the message
  \* the executor's memory
  pc, first, current, pausedBy, rejected, ending, result,
  covers,      \* the input revision the last task turn was started with
  finished,    \* the revision of the accepted result a late answer left as it was
  \* the notifier, and what the thread has seen
  posting, told,
  \* observations
  redone,      \* the task was started again all the same
  faults

jobRow   == <<status, cancel, accepts, revision, turn, staged, limit, sent, attempts>>
rows     == <<ij, bindRev, pausedAt, kind, line>>
ingress  == <<inbound, older, bound, held, fate>>
memory   == <<first, current, pausedBy, rejected, ending, result, covers, finished,
              redone>>
notifier == <<posting, told>>
vars     == <<jobRow, stop, rows, ingress, pc, memory, notifier, faults>>

Interjection == {"none", "ready", "pausing", "paused", "answer-prepared",
                 "answering", "answered", "delivered", "promoted", "superseded",
                 "ambiguous"}
Places == {"idle", "loop", "start", "turn", "stopping", "suspending", "pausing",
           "terminal", "gap", "barrier", "decide", "stranded", "accepted",
           "answer", "prepared", "asking", "deliver", "promote", "publish",
           "sealed", "cancelling", "failing", "limited", "down", "reconciled",
           "settled"}
Endings == {"none", "completed", "failed", "limited", "network"}

Revisions == 0 .. Cardinality(Replies) + 1

JobTyped ==
  /\ status \in {"queued", "running", "completed", "failed"}
  /\ cancel \in BOOLEAN /\ accepts \in BOOLEAN /\ sent \in BOOLEAN
  /\ revision \in Revisions /\ staged \in Revisions
  /\ limit \in 0 .. MaxAttempts /\ attempts \in 1 .. MaxAttempts
  /\ turn \in {"none", "task", "answer"}
  /\ stop \in {"none", "ready", "dispatching", "acknowledged", "observed",
               "ambiguous", "superseded"}

RowsTyped ==
  /\ ij \in [Replies -> Interjection]
  /\ bindRev \in [Replies -> Revisions]
  /\ pausedAt \in [Replies -> BOOLEAN]
  /\ kind \in [Replies -> {"none", "answer-only", "task-update"}]
  /\ line \in Seq(Replies)

IngressTyped ==
  /\ inbound \subseteq Messages /\ older \subseteq inbound \X inbound
  /\ bound \in [Messages -> BOOLEAN]
  /\ held \in Messages \cup {None}
  /\ fate \in [Messages -> {"unsent", "pending", "live", "job", "notice", "retired"}]

MemoryTyped ==
  /\ first \in BOOLEAN /\ redone \in BOOLEAN
  /\ current \in Replies \cup {None} /\ pausedBy \in Replies \cup {None}
  /\ rejected \in Replies \cup {None}
  /\ ending \in Endings
  /\ result \in Revisions /\ covers \in Revisions /\ finished \in Revisions

NotifierTyped == posting \in Replies \cup {None} /\ told \subseteq Replies

TypeOK ==
  /\ JobTyped /\ RowsTyped /\ IngressTyped /\ pc \in Places /\ MemoryTyped
  /\ NotifierTyped /\ faults \in 0 .. MaxFaults

\* The job has just been claimed for the first time.
Init ==
  /\ status = "running" /\ cancel = FALSE /\ accepts = TRUE /\ revision = 1
  /\ turn = "none" /\ staged = 0 /\ limit = 0 /\ sent = FALSE
  /\ attempts = 1 /\ stop = "none"
  /\ ij = [r \in Replies |-> "none"]
  /\ bindRev = [r \in Replies |-> 0]
  /\ pausedAt = [r \in Replies |-> FALSE]
  /\ kind = [r \in Replies |-> "none"]
  /\ line = <<>> /\ inbound = {} /\ older = {}
  /\ bound = [m \in Messages |-> FALSE]
  /\ held = None
  /\ fate = [m \in Messages |-> "unsent"]
  /\ pc = "loop" /\ first = TRUE
  /\ current = None /\ pausedBy = None /\ rejected = None
  /\ ending = "none" /\ result = 0 /\ covers = 0 /\ finished = 0 /\ redone = FALSE
  /\ posting = None /\ told = {} /\ faults = 0

-----------------------------------------------------------------------------
(* What the SQL predicates read.                                           *)

Active == status \in {"queued", "running"}
Closed(r) == ij[r] \in {"none", "promoted", "superseded"}

Earlier(s, a, b) == \E i, k \in 1 .. Len(s) : i < k /\ s[i] = a /\ s[k] = b

\* No earlier interjection of the job is unfinished.
Foremost(r) == \A p \in Replies : Earlier(line, p, r) => Closed(p)

\* nextReadyLiveInput without its interrupt branch, and nextPendingInterjection.
NextReady   == {r \in Replies : ij[r] = "ready" /\ Foremost(r)}
NextPending == {r \in Replies : ij[r] \in {"ready", "paused"} /\ Foremost(r)}

Unfinished == \E r \in Replies : ~Closed(r)

\* The status a row falls back to when its answer turn left no answer.
Retryable(r) == IF pausedAt[r] THEN "paused" ELSE "ready"

Fault   == faults < MaxFaults /\ faults' = faults + 1
Goto(p) == pc' = p
Up      == pc \notin {"down", "reconciled", "settled"}

\* An error in the executor: the cancellation is looked at once more.
Throw == Goto(IF cancel THEN "cancelling" ELSE "failing")

-----------------------------------------------------------------------------
(* The gateway: admission and the single drain of the inbound ledger.      *)

\* The row takes the next seq.
Enter(m) == inbound' = inbound \cup {m} /\ older' = older \cup (inbound \X {m})

\* Rows are deleted.
Leave(S) ==
  inbound' = inbound \ S /\ older' = {p \in older : p[1] \notin S /\ p[2] \notin S}

\* deliver with active-thread authority: the target was looked up before the
\* row is staged.  A target that has closed since leaves only a notice.
AdmitBound(m) ==
  /\ fate[m] = "unsent"
  /\ IF Active /\ ~cancel /\ (m = Stop \/ accepts)
       THEN /\ fate' = [fate EXCEPT ![m] = "pending"]
            /\ bound' = [bound EXCEPT ![m] = TRUE]
            /\ Enter(m)
       ELSE /\ fate' = [fate EXCEPT ![m] = "notice"]
            /\ UNCHANGED <<bound, inbound, older>>
  /\ UNCHANGED <<jobRow, stop, rows, held, pc, memory, notifier, faults>>

\* deliver without authority: no live target was found for the message.
AdmitUnbound(m) ==
  /\ fate[m] = "unsent"
  /\ ~(Active /\ ~cancel /\ (m = Stop \/ accepts))
  /\ fate' = [fate EXCEPT ![m] = "pending"]
  /\ Enter(m)
  /\ UNCHANGED <<jobRow, stop, rows, bound, held, pc, memory, notifier, faults>>

\* claimNextInboundDelivery: the interrupt of a live job first, then the head.
ClaimInbound ==
  /\ held = None
  /\ \E m \in inbound :
       /\ held' = m
       /\ IF Stop \in inbound /\ Active /\ ~cancel
            THEN m = Stop ELSE \A o \in inbound : <<o, m>> \notin older
  /\ UNCHANGED <<jobRow, stop, rows, inbound, older, bound, fate, pc, memory,
                 notifier,
                 faults>>

\* preemptInboundDownloadForLiveControl: the interrupt aborts a reply's
\* download and the row is released.
Preempt ==
  /\ held \in Replies /\ fate[held] = "pending"
  /\ bound[Stop] /\ Stop \in inbound
  /\ held' = None
  /\ UNCHANGED <<jobRow, stop, rows, inbound, older, bound, fate, pc, memory,
                 notifier,
                 faults>>

\* completeInboundDelivery, after the message is durable elsewhere.  A second
\* pass over such a row finds the duplicate and only completes it.
CompleteInbound ==
  /\ held # None /\ fate[held] \in {"live", "job"}
  /\ Leave({held}) /\ held' = None
  /\ UNCHANGED <<jobRow, stop, rows, bound, fate, pc, memory, notifier, faults>>

\* tombstoneInboundDelivery with its notice to the thread.
Tombstone(m) ==
  /\ fate' = [fate EXCEPT ![m] = "notice"]
  /\ Leave({m}) /\ held' = None
  /\ UNCHANGED bound

\* stageThreadReply and stageLiveInterjection; a reply the job no longer takes
\* is answered with a notice when it was bound, and is a new request otherwise.
DrainReply ==
  /\ held \in Replies /\ fate[held] = "pending"
  /\ IF Active /\ accepts /\ ~cancel
       THEN /\ ij' = [ij EXCEPT ![held] = "ready"]
            /\ bindRev' = [bindRev EXCEPT ![held] = revision]
            /\ line' = Append(line, held)
            /\ fate' = [fate EXCEPT ![held] = "live"]
            /\ UNCHANGED <<pausedAt, kind, inbound, older, bound, held>>
       ELSE /\ IF bound[held] THEN Tombstone(held)
               ELSE /\ fate' = [fate EXCEPT ![held] = "job"]
                    /\ UNCHANGED <<inbound, older, bound, held>>
            /\ UNCHANGED rows
  /\ UNCHANGED <<jobRow, stop, pc, memory, notifier, faults>>

\* The attachments of a reply could not be fetched in INBOUND_MAX_ATTEMPTS.
DrainFails ==
  /\ held \in Replies /\ fate[held] = "pending"
  /\ Fault
  /\ Tombstone(held)
  /\ UNCHANGED <<jobRow, stop, rows, pc, memory, notifier>>

\* Older replies bound to the job that the interrupt overtakes.
Overtaken == {r \in Replies : bound[r] /\ <<r, Stop>> \in older}

\* Mutant: answers that are written but not yet posted survive.
SupersedeUnasked ==
  [r \in Replies |-> IF ij[r] \in {"ready", "paused", "answer-prepared"}
                       THEN "superseded" ELSE ij[r]]

\* The rows an interrupt supersedes at once.
SupersedeWaiting ==
  [r \in Replies |->
     IF ij[r] \in {"ready", "paused", "answer-prepared", "answered"}
       THEN "superseded" ELSE ij[r]]

\* stageLiveControl for an interrupt.
DrainStop ==
  /\ held = Stop /\ fate[Stop] = "pending"
  /\ IF Active /\ ~cancel
       THEN /\ cancel' = TRUE /\ accepts' = FALSE
            /\ stop' = "ready"
            /\ ij' = SupersedeWaiting
            /\ fate' = [m \in Messages |-> IF m = Stop THEN "live"
                                           ELSE IF m \in Overtaken THEN "retired"
                                           ELSE fate[m]]
            /\ Leave(Overtaken)
            /\ UNCHANGED <<status, revision, turn, staged, limit, sent, attempts,
                           bindRev, pausedAt, kind, line, bound, held>>
       ELSE Tombstone(Stop) /\ UNCHANGED <<jobRow, stop, rows>>
  /\ UNCHANGED <<pc, memory, notifier, faults>>

\* The gateway stops; recoverInboundDeliveries releases the row it held.
GatewayRestarts ==
  /\ held # None
  /\ Fault
  /\ held' = None
  /\ UNCHANGED <<jobRow, stop, rows, inbound, older, bound, fate, pc, memory,
                 notifier>>

-----------------------------------------------------------------------------
(* The executor's outer loop in stage 'complete'.                          *)

\* Pending replies are answered first, once the session is known.
ChooseWork ==
  /\ pc = "loop"
  /\ \/ /\ ~first
        /\ \E r \in NextPending : current' = r
        /\ Goto("answer")
     \/ /\ first \/ NextPending = {}
        /\ UNCHANGED current
        /\ Goto("start")
  /\ result' = 0 /\ pausedBy' = None /\ rejected' = None
  /\ UNCHANGED <<jobRow, stop, rows, ingress, first, ending, covers, finished,
                 redone, notifier, faults>>

\* beginAppServerPhaseDispatch returns 'pending-inbound'.
PhaseHeldBack == ~first /\ (inbound # {} \/ Unfinished)

\* beginInitialTurnDispatch or the phase dispatch, and its acknowledgement.
StartTask ==
  /\ pc = "start"
  /\ IF cancel THEN Goto("cancelling") /\ UNCHANGED <<turn, sent, covers, redone>>
     ELSE IF turn # "none" THEN Goto("failing") /\ UNCHANGED <<turn, sent, covers, redone>>
     ELSE IF PhaseHeldBack THEN Goto("loop") /\ UNCHANGED <<turn, sent, covers, redone>>
     ELSE /\ turn' = "task" /\ sent' = TRUE /\ covers' = revision
          /\ redone' = (redone \/ finished = revision)
          /\ Goto("turn")
  /\ UNCHANGED <<status, cancel, accepts, revision, staged, limit, attempts, stop,
                 rows, ingress, first, current, pausedBy, rejected, ending, result,
                 finished, notifier, faults>>

\* turn/start is refused or its answer is lost.
StartFails ==
  /\ pc = "start" /\ ~cancel /\ turn = "none" /\ ~PhaseHeldBack
  /\ Fault
  /\ sent' \in {sent, TRUE}
  /\ Throw
  /\ UNCHANGED <<status, cancel, accepts, revision, turn, staged, limit, attempts,
                 stop, rows, ingress, memory, notifier>>

-----------------------------------------------------------------------------
(* While a turn runs: the interrupt, and the pause of a task turn.         *)

\* dispatchControl for the interrupt.
DispatchStop ==
  /\ pc = "turn" /\ stop = "ready"
  /\ stop' = "dispatching"
  /\ Goto("stopping")
  /\ UNCHANGED <<jobRow, rows, ingress, memory, notifier, faults>>

\* The agent acknowledges it and the turn's terminal is awaited, or the
\* request fails and the cancellation is settled without it.
StopAnswered ==
  /\ pc = "stopping"
  /\ \/ stop' = "acknowledged" /\ Goto("turn") /\ UNCHANGED faults
     \/ stop' \in {"dispatching", "ambiguous"} /\ Goto("cancelling") /\ Fault
  /\ UNCHANGED <<jobRow, rows, ingress, memory, notifier>>

\* No terminal within the grace period.
StopUnconfirmed ==
  /\ pc = "turn" /\ stop = "acknowledged"
  /\ Fault
  /\ Goto("cancelling")
  /\ UNCHANGED <<jobRow, stop, rows, ingress, memory, notifier>>

\* The control loop takes up a reply; the goal is suspended first.
PickPause(r) ==
  /\ pc = "turn" /\ turn = "task" /\ stop # "ready"
  /\ pausedBy = None /\ rejected = None
  /\ r \in NextReady
  /\ current' = r
  /\ Goto("suspending")
  /\ UNCHANGED <<jobRow, stop, rows, ingress, first, pausedBy, rejected, ending,
                 result, covers, finished, redone, notifier, faults>>

\* beginInterjectionPause, or the goal could not be suspended.
BeginPause ==
  /\ pc = "suspending"
  /\ \/ /\ ~cancel /\ ij[current] = "ready"
        /\ ij' = [ij EXCEPT ![current] = "pausing"]
        /\ Goto("pausing") /\ UNCHANGED faults
     \/ /\ cancel \/ ij[current] # "ready"
        /\ Throw /\ UNCHANGED <<ij, faults>>
     \/ Fault /\ Throw /\ UNCHANGED ij
  /\ UNCHANGED <<jobRow, stop, bindRev, pausedAt, kind, line, ingress, memory,
                 notifier>>

\* turn/steer is acknowledged, definitely rejected, or its fate is unknown.
PauseAnswered ==
  /\ pc = "pausing"
  /\ \/ /\ pausedBy' = current /\ Goto("turn")
        /\ UNCHANGED <<ij, rejected, faults>>
     \/ /\ Fault
        /\ rejected' = current /\ Goto("turn")
        /\ UNCHANGED <<ij, pausedBy>>
     \/ /\ Fault
        /\ ij' = [ij EXCEPT ![current] = "ambiguous"] /\ Throw
        /\ UNCHANGED <<pausedBy, rejected>>
  /\ UNCHANGED <<jobRow, stop, bindRev, pausedAt, kind, line, ingress, first,
                 current, ending, result, covers, finished, redone, notifier>>

\* External: the agent's turn reaches a terminal.
TurnEnds(e) ==
  /\ pc = "turn"
  /\ IF e = "completed" \/ cancel THEN UNCHANGED faults ELSE Fault
  /\ ending' = e
  /\ Goto("terminal")
  /\ UNCHANGED <<jobRow, stop, rows, ingress, first, current, pausedBy, rejected,
                 result, covers, finished, redone, notifier>>

-----------------------------------------------------------------------------
(* The terminal of a turn and the barrier behind it.                       *)

\* A rejected pause is looked up in the turn's history: absent, it is due
\* again; found, it counts as acknowledged; unreadable, it is ambiguous.
ReconcileRejected ==
  /\ pc = "terminal" /\ rejected # None /\ ~cancel
  /\ rejected' = None
  /\ \/ ij' = [ij EXCEPT ![rejected] = "ready"] /\ UNCHANGED <<pc, faults>>
     \/ UNCHANGED <<ij, pc, faults>>
     \/ ij' = [ij EXCEPT ![rejected] = "ambiguous"] /\ Fault /\ Throw
  /\ UNCHANGED <<jobRow, stop, bindRev, pausedAt, kind, line, ingress, first,
                 current, pausedBy, ending, result, covers, finished, redone,
                 notifier>>

AtTerminal(t) == pc = "terminal" /\ turn = t /\ (rejected = None \/ cancel)

\* finishAppServerTurn on the interjections of the turn.
FinishRows(limited) ==
  [r \in Replies |->
     CASE ij[r] = "pausing" -> IF limited THEN "ready" ELSE "paused"
       [] ij[r] = "answering" /\ limited -> Retryable(r)
       [] OTHER -> ij[r]]

\* Input stays open for a phase that continues and for replies on their way.
StaysOpen(retain, pending) == ~cancel /\ (retain \/ pending \/ inbound # {})

\* finishAppServerTurn.
FinishTurn(limited, retain) ==
  LET pending == stop = "ready" \/ \E r \in Replies :
                   FinishRows(limited)[r] \in {"ready", "paused"}
  IN /\ ij' = FinishRows(limited)
     /\ pausedAt' = [r \in Replies |-> pausedAt[r] \/ (ij[r] = "pausing" /\ ~limited)]
     /\ stop' = IF stop = "acknowledged" THEN "observed" ELSE stop
     /\ accepts' = StaysOpen(retain, pending)
     /\ turn' = IF ~limited /\ ~cancel /\ inbound # {} THEN turn ELSE "none"
     /\ limit' = IF limited THEN attempts ELSE 0

\* The native goal is still active: the turn is finished, input stays open.
AgentContinues ==
  /\ AtTerminal("task") /\ ending = "completed" /\ pausedBy = None /\ ~cancel
  /\ FinishTurn(FALSE, TRUE)
  /\ Goto("gap")
  /\ UNCHANGED <<status, cancel, revision, staged, sent, attempts, bindRev, kind,
                 line, ingress, memory, notifier, faults>>

\* bindNativeAppServerTurn: the goal's next turn is bound to the job.
NativeTurn ==
  /\ pc = "gap"
  /\ IF cancel THEN Goto("cancelling") /\ UNCHANGED turn
               ELSE turn' = "task" /\ Goto("turn")
  /\ UNCHANGED <<status, cancel, accepts, revision, staged, limit, sent, attempts,
                 stop, rows, ingress, memory, notifier, faults>>

\* The goal ends, or is cancelled, between two turns: the terminal is bound again.
GoalEnds ==
  /\ pc = "gap"
  /\ turn' = "task"
  /\ Goto("barrier")
  /\ UNCHANGED <<status, cancel, accepts, revision, staged, limit, sent, attempts,
                 stop, rows, ingress, memory, notifier, faults>>

\* Nothing continues by itself: on to the barrier.
AgentFinishes ==
  /\ \/ AtTerminal("task")
     \/ AtTerminal("answer") /\ (ending # "completed" \/ cancel)
  /\ Goto("barrier")
  /\ UNCHANGED <<jobRow, stop, rows, ingress, memory, notifier, faults>>

\* What the executor does with the barrier's answer.
AfterBarrier ==
  LET pending == \E r \in Replies : FinishRows(FALSE)[r] \in {"ready", "paused"}
  IN CASE cancel               -> "cancelling"
       [] ~cancel /\ ending = "limited" -> "limited"
       [] ~cancel /\ ending # "limited" /\ inbound # {} -> "barrier"
       [] OTHER -> CASE turn = "answer"   -> "failing"
                     [] turn # "answer" /\ ending = "network" -> "loop"
                     [] turn # "answer" /\ ending = "failed"  -> "failing"
                     [] OTHER -> IF pausedBy = None /\ pending THEN "decide"
                                                              ELSE "accepted"

Barrier ==
  /\ pc = "barrier"
  /\ FinishTurn(ending = "limited", turn = "answer" \/ ending \in {"limited", "network"})
  /\ Goto(AfterBarrier)
  /\ first' = (first /\ AfterBarrier # "loop")
  /\ UNCHANGED <<status, cancel, revision, staged, sent, attempts, bindRev, kind,
                 line, ingress, current, pausedBy, rejected, ending, result, covers,
                 finished, redone, notifier, faults>>

\* The barrier reported pending input; nextReadyLiveInput says which.
Decide ==
  /\ pc = "decide"
  /\ Goto(IF stop = "ready" THEN "cancelling"
          ELSE IF NextReady # {} THEN "accepted" ELSE "stranded")
  /\ UNCHANGED <<jobRow, stop, rows, ingress, memory, notifier, faults>>

\* 'turn barrier reported pending input without a steer'.
Stranded ==
  /\ pc = "stranded"
  /\ Throw
  /\ UNCHANGED <<jobRow, stop, rows, ingress, memory, notifier, faults>>

\* The task's answer is accepted: a reply is answered before it is published.
Accept ==
  /\ pc = "accepted"
  /\ first' = FALSE
  /\ IF pausedBy # None
       THEN current' = pausedBy /\ result' = 0 /\ Goto("answer")
       ELSE /\ result' = covers
            /\ \/ (\E r \in NextPending : current' = r) /\ Goto("answer")
               \/ NextPending = {} /\ UNCHANGED current /\ Goto("publish")
  /\ UNCHANGED <<jobRow, stop, rows, ingress, pausedBy, rejected, ending, covers,
                 finished, redone, notifier, faults>>

\* The final message is missing, or a paused turn did not say that it paused.
AcceptFails ==
  /\ pc = "accepted"
  /\ Fault
  /\ Throw
  /\ UNCHANGED <<jobRow, stop, rows, ingress, memory, notifier>>

-----------------------------------------------------------------------------
(* The read-only turn that answers a reply.                                *)

\* prepareInterjectionAnswer.
PrepareAnswer ==
  /\ pc = "answer"
  /\ IF cancel THEN Goto("cancelling") /\ UNCHANGED <<ij, result>>
     ELSE IF turn # "none" \/ ij[current] \notin {"ready", "paused"} \/ ~Foremost(current)
       THEN Goto("failing") /\ UNCHANGED <<ij, result>>
     ELSE IF bindRev[current] # revision
       THEN Goto("loop") /\ result' = 0 /\ UNCHANGED ij
     ELSE /\ ij' = [ij EXCEPT ![current] = "answer-prepared"]
          /\ Goto("prepared") /\ UNCHANGED result
  /\ UNCHANGED <<jobRow, stop, bindRev, pausedAt, kind, line, ingress, first, current,
                 pausedBy, rejected, ending, covers, finished, redone, notifier, faults>>

\* beginInterjectionAnswer, or the agent could not be started.
BeginAnswer ==
  /\ pc = "prepared"
  /\ \/ cancel /\ Goto("cancelling") /\ UNCHANGED <<ij, faults>>
     \/ /\ ~cancel
        /\ ij' = [ij EXCEPT ![current] = "answering"]
        /\ Goto("asking") /\ UNCHANGED faults
     \/ Fault /\ Throw /\ UNCHANGED ij
  /\ UNCHANGED <<jobRow, stop, bindRev, pausedAt, kind, line, ingress, memory, notifier>>

\* turn/start of the answer is acknowledged, rejected, or its fate is unknown.
AnswerStarted ==
  /\ pc = "asking"
  /\ \/ /\ turn' = "answer" /\ Goto("turn")
        /\ UNCHANGED <<ij, result, faults>>
     \/ /\ Fault
        /\ ij' = [ij EXCEPT ![current] = Retryable(current)]
        /\ result' = 0 /\ Goto("loop")
        /\ UNCHANGED turn
     \/ /\ Fault
        /\ ij' = [ij EXCEPT ![current] = "ambiguous"]
        /\ Throw
        /\ UNCHANGED <<turn, result>>
  /\ UNCHANGED <<status, cancel, accepts, revision, staged, limit, sent, attempts, stop,
                 bindRev, pausedAt, kind, line, ingress, first, current, pausedBy,
                 rejected, ending, covers, finished, redone, notifier>>

AnswerTerminal == AtTerminal("answer") /\ ending = "completed" /\ ~cancel

\* stageInterjectionAnswer: the agent chose the disposition d.
StageAnswer(d) ==
  /\ AnswerTerminal
  /\ ij' = [ij EXCEPT ![current] = "answered"]
  /\ kind' = [kind EXCEPT ![current] = d]
  /\ turn' = "none" /\ limit' = 0
  /\ Goto("deliver")
  /\ UNCHANGED <<status, cancel, accepts, revision, staged, sent, attempts, stop,
                 bindRev, pausedAt, line, ingress, memory, notifier, faults>>

\* retryInterjectionAnswer: the answer has no valid form and is asked again.
RetryAnswer ==
  /\ AnswerTerminal
  /\ ij' = [ij EXCEPT ![current] = Retryable(current)]
  /\ turn' = "none"
  /\ Goto("answer")
  /\ UNCHANGED <<status, cancel, accepts, revision, staged, limit, sent, attempts, stop,
                 bindRev, pausedAt, kind, line, ingress, memory, notifier, faults>>

\* The executor polls until the notifier has posted the answer.
AwaitDelivery ==
  /\ pc = "deliver"
  /\ \/ cancel /\ Goto("cancelling")
     \/ ij[current] \in {"delivered", "promoted"} /\ Goto("promote")
  /\ UNCHANGED <<jobRow, stop, rows, ingress, memory, notifier, faults>>

Promotable(r) ==
  /\ Foremost(r)
  /\ kind[r] = "task-update" => status = "running" /\ ~cancel /\ bindRev[r] = revision

\* promoteDeliveredInterjection: a task update becomes part of the input, and
\* the replies behind it are bound to the new revision.
PromoteRow(r) ==
  /\ ij' = [ij EXCEPT ![r] = "promoted"]
  /\ revision' = IF kind[r] = "task-update" THEN revision + 1 ELSE revision
  /\ bindRev' = [p \in Replies |->
       IF ij[p] \in {"ready", "paused", "answer-prepared"} THEN revision' ELSE bindRev[p]]

\* Mutant: a completed answer is kept although the task was updated.
KeepsResultAlways(r) == result # 0

\* A late answer-only reply leaves the accepted result as it is.
KeepsResult(r) == result # 0 /\ kind[r] = "answer-only"

Promote ==
  /\ pc = "promote"
  /\ IF Promotable(current)
       THEN /\ PromoteRow(current)
            /\ IF KeepsResult(current)
                 THEN Goto("publish") /\ finished' = result /\ UNCHANGED result
                 ELSE Goto("loop") /\ result' = 0 /\ UNCHANGED finished
       ELSE Throw /\ UNCHANGED <<ij, revision, bindRev, result, finished>>
  /\ UNCHANGED <<status, cancel, accepts, turn, staged, limit, sent, attempts, stop,
                 pausedAt, kind, line, ingress, first, current, pausedBy, rejected,
                 ending, covers, redone, notifier, faults>>

-----------------------------------------------------------------------------
(* Publication and the other ends of an attempt.                           *)

\* sealAppServerPhaseResult returns 'pending-inbound'.
SealOpen == inbound # {} \/ Unfinished

\* sealAppServerPhaseResult: the result is staged and input is closed at once.
Publish ==
  /\ pc = "publish"
  /\ IF turn # "none" THEN Goto("failing") /\ UNCHANGED <<staged, accepts, result>>
     ELSE IF cancel THEN Goto("cancelling") /\ UNCHANGED <<staged, accepts, result>>
     ELSE IF SealOpen THEN Goto("loop") /\ result' = 0 /\ UNCHANGED <<staged, accepts>>
     ELSE /\ staged' = result /\ accepts' = FALSE
          /\ Goto("sealed") /\ UNCHANGED result
  /\ UNCHANGED <<status, cancel, revision, turn, limit, sent, attempts, stop, rows,
                 ingress, first, current, pausedBy, rejected, ending, covers, finished,
                 redone, notifier, faults>>

\* The update of completeInternal.
CompleteRow ==
  /\ status' = "completed" /\ accepts' = FALSE /\ turn' = "none"
  /\ UNCHANGED <<cancel, revision, staged, limit, sent, attempts, stop, rows>>

\* The row completes, or the result stays staged for the next start.
Commit ==
  /\ pc = "sealed"
  /\ \/ ~cancel /\ inbound = {} /\ ~Unfinished /\ CompleteRow /\ Goto("idle")
     \/ cancel /\ Goto("cancelling") /\ UNCHANGED <<jobRow, stop, rows>>
     \/ ~cancel /\ (inbound # {} \/ Unfinished)
          /\ Goto("down") /\ UNCHANGED <<jobRow, stop, rows>>
  /\ UNCHANGED <<ingress, memory, notifier, faults>>

\* The update of fail and cancel on the job itself.
Close ==
  /\ status' = "failed" /\ accepts' = FALSE /\ turn' = "none" /\ staged' = 0
  /\ UNCHANGED <<cancel, revision, limit, sent, attempts, bindRev, pausedAt, kind, line>>

CancelRow ==
  /\ Close
  /\ ij' = [r \in Replies |-> IF Closed(r) THEN ij[r] ELSE "superseded"]
  /\ stop' = CASE stop = "ready" -> "superseded" [] stop = "dispatching" -> "ambiguous"
               [] OTHER -> stop

\* Mutant: the replies whose request may have been delivered stay as they are.
FailRowUnsettled ==
  /\ Close
  /\ ij' = [r \in Replies |->
       IF ij[r] \in {"ready", "paused", "answer-prepared"} THEN "superseded" ELSE ij[r]]
  /\ UNCHANGED stop

\* fail with settleInterjectionsForTerminal: an answer-only answer that is
\* staged is still posted, an update nobody will work on is not.
FailRow ==
  /\ Close
  /\ ij' = [r \in Replies |->
       CASE ij[r] \in {"ready", "paused", "answer-prepared"} -> "superseded"
         [] ij[r] \in {"pausing", "answering"}               -> "ambiguous"
         [] ij[r] \in {"answered", "delivered"} /\ kind[r] = "task-update" -> "superseded"
         [] ij[r] = "delivered" /\ kind[r] = "answer-only"   -> "promoted"
         [] OTHER                                            -> ij[r]]
  /\ UNCHANGED stop

Cancel ==
  /\ pc = "cancelling"
  /\ CancelRow /\ Goto("idle")
  /\ UNCHANGED <<ingress, memory, notifier, faults>>

Fail ==
  /\ pc = "failing"
  /\ FailRow /\ Goto("idle")
  /\ UNCHANGED <<ingress, memory, notifier, faults>>

\* requeue and requeueAt.
QueueAgain ==
  /\ status' = "queued" /\ accepts' = ~cancel /\ turn' = "none" /\ staged' = 0
  /\ UNCHANGED <<cancel, revision, limit, sent, attempts, stop, rows>>

Limited ==
  /\ pc = "limited"
  /\ QueueAgain /\ Goto("idle")
  /\ UNCHANGED <<ingress, memory, notifier, faults>>

\* claimNext; a job cancelled while it was queued is only settled.
Claim ==
  /\ pc = "idle" /\ status = "queued"
  /\ inbound = {} /\ attempts < MaxAttempts
  /\ status' = "running" /\ attempts' = attempts + 1
  /\ accepts' = ~cancel /\ sent' = FALSE
  /\ Goto(IF cancel THEN "cancelling" ELSE "loop")
  /\ first' = TRUE
  /\ current' = None /\ pausedBy' = None /\ rejected' = None
  /\ ending' = "none" /\ result' = 0 /\ covers' = 0 /\ finished' = 0
  /\ UNCHANGED <<cancel, revision, turn, staged, limit, stop, rows, ingress, redone,
                 notifier, faults>>

-----------------------------------------------------------------------------
(* The daemon stops and starts again.                                      *)

Crash ==
  /\ Up
  /\ Fault
  /\ Goto("down") /\ posting' = None
  /\ UNCHANGED <<jobRow, stop, rows, ingress, memory, told>>

\* reconcileInterjectionsBeforeRecovery, first half.
ResetPrepared ==
  /\ pc = "down"
  /\ ij' = [r \in Replies |->
              IF ij[r] = "answer-prepared" /\ status = "running" THEN Retryable(r) ELSE ij[r]]
  /\ Goto("reconciled")
  /\ posting' = None
  /\ UNCHANGED <<jobRow, stop, bindRev, pausedAt, kind, line, ingress, memory, told,
                 faults>>

\* Its second half: answers the thread has are taken into the task.
Recoverable(r) ==
  ij[r] = "delivered" /\ status = "running" /\ ~cancel /\ Promotable(r)

PromoteAtStart(r) ==
  /\ pc = "reconciled" /\ Recoverable(r)
  /\ PromoteRow(r)
  /\ UNCHANGED <<status, cancel, accepts, turn, staged, limit, sent, attempts, stop,
                 pausedAt, kind, line, ingress, pc, memory, notifier, faults>>

\* recoverStagedExecutions.
RecoverStaged ==
  /\ pc = "reconciled" /\ \A r \in Replies : ~Recoverable(r)
  /\ IF status = "running" /\ staged # 0 /\ ~cancel /\ inbound = {} /\ ~Unfinished
       THEN CompleteRow ELSE UNCHANGED <<jobRow, stop, rows>>
  /\ Goto("settled")
  /\ UNCHANGED <<ingress, memory, notifier, faults>>

ControlMayHaveBeenDelivered ==
  \/ stop \in {"dispatching", "acknowledged", "observed", "ambiguous"}
  \/ \E r \in Replies : ij[r] \notin {"none", "ready", "superseded"}

\* The rate-limit terminal of this attempt, or of an earlier one when this
\* one has delivered nothing.
LimitCarries == limit # 0 /\ (limit = attempts \/ ~sent)

\* recoverInterrupted for a job without write permission.
RecoverRow ==
  IF cancel THEN CancelRow
  ELSE IF ~LimitCarries /\ (sent \/ ControlMayHaveBeenDelivered) THEN FailRow
  ELSE QueueAgain

RecoverInterrupted ==
  /\ pc = "settled"
  /\ IF status = "running" THEN RecoverRow ELSE UNCHANGED <<jobRow, stop, rows>>
  /\ Goto("idle")
  /\ UNCHANGED <<ingress, memory, notifier, faults>>

-----------------------------------------------------------------------------
(* The notifier: flushInterjectionNotifications.                           *)

Post(r) ==
  /\ Up /\ posting = None
  /\ ij[r] = "answered" /\ Foremost(r)
  /\ posting' = r /\ told' = told \cup {r}
  /\ UNCHANGED <<jobRow, stop, rows, ingress, pc, memory, faults>>

\* markInterjectionNotificationDelivered; a row that changed meanwhile is left.
MarkDelivered ==
  /\ Up /\ posting # None
  /\ ij' = IF ij[posting] = "answered"
             THEN [ij EXCEPT ![posting] =
                     IF kind[posting] = "answer-only" /\ ~Active THEN "promoted"
                                                                 ELSE "delivered"]
             ELSE ij
  /\ posting' = None
  /\ UNCHANGED <<jobRow, stop, bindRev, pausedAt, kind, line, ingress, pc, memory, told,
                 faults>>

-----------------------------------------------------------------------------
Admission == \E m \in Messages : AdmitBound(m) \/ AdmitUnbound(m)
Drain     == ClaimInbound \/ CompleteInbound \/ DrainReply \/ DrainStop
Control   == DispatchStop \/ StopAnswered \/ BeginPause \/ PauseAnswered
             \/ \E r \in Replies : PickPause(r)
Finish    == ReconcileRejected \/ NativeTurn \/ GoalEnds \/ Barrier \/ Decide
             \/ Stranded \/ Accept
Answering == PrepareAnswer \/ BeginAnswer \/ AnswerStarted \/ AwaitDelivery \/ Promote
Closing   == Publish \/ Commit \/ Cancel \/ Fail \/ Limited \/ Claim
Recovery  == ResetPrepared \/ RecoverStaged \/ RecoverInterrupted
             \/ \E r \in Replies : PromoteAtStart(r)
Notify    == MarkDelivered \/ \E r \in Replies : Post(r)
StageAny  == \E d \in {"answer-only", "task-update"} : StageAnswer(d)
Executor  == ChooseWork \/ StartTask \/ Control \/ Finish \/ Answering \/ Closing

Next ==
  \/ Admission \/ Drain \/ Preempt \/ DrainFails \/ GatewayRestarts
  \/ Executor \/ StartFails \/ StopUnconfirmed
  \/ \E e \in Endings \ {"none"} : TurnEnds(e)
  \/ AgentContinues \/ AgentFinishes \/ AcceptFails
  \/ StageAny \/ RetryAnswer
  \/ Crash \/ Recovery \/ Notify

\* The drain, the executor, the notifier and the restart are loops that keep
\* running; a turn ends or is timed out.  Of the agent it is assumed that a goal
\* does not continue forever and that a repeated question is once answered in
\* the required form.
Fairness ==
  /\ WF_vars(Drain) /\ WF_vars(Executor) /\ WF_vars(Notify) /\ WF_vars(Recovery)
  /\ WF_vars(TurnEnds("completed"))
  /\ SF_vars(AgentFinishes) /\ SF_vars(StageAny)

Spec == Init /\ [][Next]_vars /\ Fairness

-----------------------------------------------------------------------------
(* Properties.                                                             *)

\* A job completes (completeInternal) only when every reply that became an
\* interjection was answered in the thread and taken over: nothing a user wrote
\* before the end is dropped by a success.
NothingDropped ==
  status = "completed" =>
    \A r \in Replies : fate[r] = "live" => ij[r] = "promoted" /\ r \in told

\* The staged result was produced by a task turn that had every promoted task
\* update as input, however late the reply came (the complete loop of
\* executeCodexJob and sealAppServerPhaseResult).
ResultIsCurrent ==
  staged # 0 =>
    staged = 1 + Cardinality({r \in Replies : ij[r] = "promoted" /\ kind[r] = "task-update"})

\* The replies of a job are worked on one at a time, in the order of their rows
\* (the NOT EXISTS prior clauses), also across limits, retries and restarts.
OneConversation ==
  \A p, r \in Replies :
    Earlier(line, p, r) /\ ~Closed(p) => ij[r] \in {"ready", "superseded"}

\* A reply that still has to be answered or promoted is bound to the input as it
\* is: prepareInterjectionAnswer never sends the executor round the loop for a
\* stale one, and promoteDeliveredInterjection never refuses one.
WaitingIsBound ==
  \A r \in Replies :
    ij[r] \in {"ready", "paused", "answer-prepared", "answering", "answered", "delivered"}
      /\ Active => bindRev[r] = revision

\* A cancelled job takes no further reply: whatever transaction runs after the
\* interrupt, accepts_control stays 0 (finishAppServerTurn, requeueAt, claimNext).
CancelledIsClosed == cancel => ~accepts

\* After the interrupt is recorded the job's input never changes and no answer
\* is newly posted or staged, whatever was in flight in executor or notifier.
CancelFreezes ==
  [][cancel => /\ revision' = revision /\ told' = told
               /\ \A r \in Replies : ij'[r] = "answered" => ij[r] = "answered"]_vars

\* Every reply that became an interjection is settled in the end: promoted,
\* superseded by an interrupt or a failure, or reported ambiguous.
ReplySettles ==
  \A r \in Replies : fate[r] = "live" ~> ij[r] \in {"promoted", "superseded", "ambiguous"}

\* An interrupt that was recorded ends the job.
CancelEnds == cancel ~> status = "failed"

\* Replies are dropped by no success, answered in order, bound to the input as it is,
\* and part of the result; a cancelled job takes none.
Safety == TypeOK /\ NothingDropped /\ ResultIsCurrent /\ OneConversation /\ WaitingIsBound
          /\ CancelledIsClosed

\* Every reply is settled, and an interrupt ends the job.
EverythingSettles == ReplySettles /\ CancelEnds

\* What the executor's barrier branch takes for granted: pending input is an
\* interrupt, a steer or a ready reply (codex-executor.ts, 'turn barrier
\* reported pending input without a steer').
BarrierHasDeliverableInput == pc # "stranded"

\* "A late answer-only message must not rerun an already completed task."
LateAnswerKeepsResult == ~redone
=============================================================================
