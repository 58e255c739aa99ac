------------------------------ MODULE JobStore ------------------------------
(***************************************************************************)
(* The durable job queue of zerokun/job-runner.ts: one SQLite row per      *)
(* accepted Slack request, one serial worker that claims, executes and     *)
(* settles the rows, and the recovery the daemon runs at startup.          *)
(*                                                                         *)
(* Three actors interleave.  The gateway process (server.ts) stages        *)
(* inbound rows and turns them into jobs and interrupts.  The worker       *)
(* (runQueuedJobs) walks one job from claim to a terminal status; every    *)
(* action below that changes the tables is one IMMEDIATE transaction, and  *)
(* the daemon may stop between any two of them.  The App Server is the     *)
(* external Codex process: it may receive a prompt whether or not the      *)
(* store ever learns of it, which is what the receipts are about.          *)
(*                                                                         *)
(* Live steers, interjections and UI approvals are left out here, as are   *)
(* the order in which inbound rows drain, cloud hand-off, host publication *)
(* and monitor barriers.                                                   *)
(***************************************************************************)
EXTENDS Naturals

CONSTANTS
  Jobs,        \* requests that may be made, one row each
  NoJob,       \* the worker holds no job
  ThreadOf,    \* the Slack thread (chat_id, thread_ts) of each request
  KindOf,      \* "read", "write" (write_enabled) or "audit" (workflow)
  MaxFaults,   \* bound: crashes, limits, failures and barriers injected
  MaxAttempts  \* bound: claims of one row

ASSUME NoJobAssumption == NoJob \notin Jobs
ASSUME KindAssumption  == KindOf \in [Jobs -> {"read", "write", "audit"}]
ASSUME BoundAssumption == MaxFaults \in Nat /\ MaxAttempts \in Nat

VARIABLES
  \* the jobs table, by column
  status,      \* "absent" stands for: no row yet
  seq,         \* AUTOINCREMENT position, 0 while absent
  attempts,
  cancel,      \* cancel_requested_at IS NOT NULL
  accepts,     \* accepts_control
  notBefore,   \* not_before: "null", "future" or "due"
  turn,        \* executor_nonce and active_turn_id: "none", "active", "ended"
  staged,      \* pending_session_id and pending_result are set
  limit,       \* attempt named by rate_limit_terminal_json, 0 when NULL
  outcome,     \* terminal_outcome
  receipt,     \* job_initial_dispatches by (job, attempt)
  \* the other tables the queue reads
  inbound,     \* undrained inbound_deliveries, <<job, "request"|"interrupt">>
  replies,     \* requests that became live input of another job instead
  tombs,       \* delivery_tombstones
  lastSeq,     \* the table's AUTOINCREMENT counter
  \* process memory and the world outside
  pc, mine,    \* where the runner is and the job it holds
  engine,      \* what the App Server really did with the job's prompt
  barrier,     \* an update or identity barrier file exists (shouldPause)
  faults       \* faults injected so far

tables  == <<status, seq, attempts, cancel, accepts, notBefore, turn, staged,
             limit, outcome, receipt, lastSeq>>
ingress == <<inbound, replies, tombs>>
runner  == <<pc, mine>>
world   == <<engine, barrier, faults>>
vars    == <<tables, ingress, runner, world>>

Attempts  == 1 .. MaxAttempts
Messages  == Jobs \X {"request", "interrupt"}
Statuses  == {"absent", "queued", "running", "completed", "failed"}
Receipts  == {"none", "prepared", "dispatching", "acknowledged", "observed",
              "ambiguous", "rejected"}
Places    == {"down", "boot", "settle", "idle", "checked", "claimed", "doomed",
              "prepare", "execute", "sending", "turn", "ended", "again",
              "staged", "committing", "cancelling", "failing", "limited",
              "deferring", "interrupted"}

TypeOK ==
  /\ status \in [Jobs -> Statuses]
  /\ seq \in [Jobs -> Nat]
  /\ attempts \in [Jobs -> 0 .. MaxAttempts]
  /\ cancel \in [Jobs -> BOOLEAN]
  /\ accepts \in [Jobs -> BOOLEAN]
  /\ notBefore \in [Jobs -> {"null", "future", "due"}]
  /\ turn \in [Jobs -> {"none", "active", "ended"}]
  /\ staged \in [Jobs -> BOOLEAN]
  /\ limit \in [Jobs -> 0 .. MaxAttempts]
  /\ outcome \in [Jobs -> {"none", "completed", "failed", "cancelled"}]
  /\ receipt \in [Jobs -> [Attempts -> Receipts]]
  /\ inbound \subseteq Messages
  /\ replies \subseteq Jobs
  /\ tombs \subseteq Messages
  /\ lastSeq \in Nat
  /\ pc \in Places
  /\ mine \in Jobs \cup {NoJob}
  /\ engine \in [Jobs -> {"none", "live", "done", "limited", "killed"}]
  /\ barrier \in BOOLEAN
  /\ faults \in 0 .. MaxFaults

Init ==
  /\ status = [j \in Jobs |-> "absent"]
  /\ seq = [j \in Jobs |-> 0]
  /\ attempts = [j \in Jobs |-> 0]
  /\ cancel = [j \in Jobs |-> FALSE]
  /\ accepts = [j \in Jobs |-> FALSE]
  /\ notBefore = [j \in Jobs |-> "null"]
  /\ turn = [j \in Jobs |-> "none"]
  /\ staged = [j \in Jobs |-> FALSE]
  /\ limit = [j \in Jobs |-> 0]
  /\ outcome = [j \in Jobs |-> "none"]
  /\ receipt = [j \in Jobs |-> [a \in Attempts |-> "none"]]
  /\ inbound = {}
  /\ replies = {}
  /\ tombs = {}
  /\ lastSeq = 0
  /\ pc = "boot"
  /\ mine = NoJob
  /\ engine = [j \in Jobs |-> "none"]
  /\ barrier = FALSE
  /\ faults = 0

-----------------------------------------------------------------------------
(* What the SQL predicates read.                                           *)

Write(j) == KindOf[j] = "write"

Unsettled(j) == status[j] \in {"queued", "running"}
Settled(j)   == status[j] \in {"completed", "failed"}

InboundPending(j) == \E m \in inbound : ThreadOf[m[1]] = ThreadOf[j]

\* The receipt of the attempt in progress.
Dispatch(j) == IF attempts[j] = 0 THEN "none" ELSE receipt[j][attempts[j]]

\* initialTurnDispatchIsSafeToRetry: proof that no prompt was delivered.
Undelivered(j) == Dispatch(j) \in {"prepared", "rejected"}

\* initialTurnMayHaveBeenDelivered.
MayBeDelivered(j) ==
  Dispatch(j) \in {"dispatching", "acknowledged", "observed", "ambiguous"}

\* durableRateLimitTerminalForRunningJob: this attempt's turn is over, by an
\* authoritative rate-limit terminal that is still the row's last word.
DurableLimit(j) ==
  /\ limit[j] = attempts[j] /\ limit[j] # 0
  /\ turn[j] = "ended" /\ notBefore[j] # "null"
  /\ ~staged[j] /\ ~cancel[j]

\* carriedRateLimitTerminalForUndeliveredAttempt: an earlier attempt's
\* terminal, and the attempt made since has delivered nothing.
CarriedLimit(j) ==
  /\ limit[j] # 0 /\ limit[j] < attempts[j]
  /\ Undelivered(j)
  /\ turn[j] = "none" /\ notBefore[j] = "null"
  /\ ~staged[j] /\ ~cancel[j]

\* Mutant: the read-only retry after delivery is gone.
DeferrableAtStrict(j) == Undelivered(j) \/ DurableLimit(j)

\* The condition under which requeueAt changes its row.
DeferrableAt(j) ==
  \/ Undelivered(j)
  \/ DurableLimit(j)
  \/ ~Write(j) /\ notBefore[j] # "null"
       /\ Dispatch(j) \in {"acknowledged", "observed"}

\* Mutant: a deferred row does not hold back the rest of its thread.
ReadyIgnoringThread(j) ==
  status[j] = "queued" /\ ~InboundPending(j) /\ (cancel[j] \/ notBefore[j] # "future")

\* READY_CODEX_JOB_PREDICATE.
Ready(j) ==
  /\ status[j] = "queued"
  /\ ~InboundPending(j)
  /\ cancel[j] \/ notBefore[j] # "future"
  /\ \A i \in Jobs : ThreadOf[i] = ThreadOf[j] /\ seq[i] < seq[j]
                       => ~Unsettled(i)

-----------------------------------------------------------------------------
(* Row updates shared by several handlers.                                 *)

\* The columns every settling UPDATE clears.
ClearExecution(j) ==
  /\ accepts' = [accepts EXCEPT ![j] = FALSE]
  /\ notBefore' = [notBefore EXCEPT ![j] = "null"]
  /\ turn' = [turn EXCEPT ![j] = "none"]
  /\ staged' = [staged EXCEPT ![j] = FALSE]

\* Mutant: the commit relies on the earlier look at the cancellation.
CanCompleteUnchecked(j) ==
  /\ status[j] = "running"
  /\ turn[j] = "none" \/ (~accepts[j] /\ turn[j] = "ended")
  /\ ~InboundPending(j)

\* completeInternal, with the guard of its UPDATE.
CanComplete(j) ==
  /\ status[j] = "running"
  /\ ~cancel[j]
  /\ turn[j] = "none" \/ (~accepts[j] /\ turn[j] = "ended")
  /\ ~InboundPending(j)

CompleteRow(j) ==
  /\ status' = [status EXCEPT ![j] = "completed"]
  /\ outcome' = [outcome EXCEPT ![j] = "completed"]
  /\ ClearExecution(j)
  /\ UNCHANGED <<seq, attempts, cancel, limit, receipt, lastSeq>>

FailRow(j) ==
  /\ status[j] = "running"
  /\ status' = [status EXCEPT ![j] = "failed"]
  /\ outcome' = [outcome EXCEPT ![j] = "failed"]
  /\ ClearExecution(j)
  /\ UNCHANGED <<seq, attempts, cancel, limit, receipt, lastSeq>>

CancelRow(j) ==
  /\ status[j] = "running"
  /\ cancel[j]
  /\ status' = [status EXCEPT ![j] = "failed"]
  /\ outcome' = [outcome EXCEPT ![j] = "cancelled"]
  /\ ClearExecution(j)
  /\ UNCHANGED <<seq, attempts, cancel, limit, receipt, lastSeq>>

\* The UPDATE of requeue and requeueAt: back to the queue with a not_before.
QueueAgain(j, when) ==
  /\ status[j] = "running"
  /\ status' = [status EXCEPT ![j] = "queued"]
  /\ notBefore' = [notBefore EXCEPT ![j] = when]
  /\ accepts' = [accepts EXCEPT ![j] = ~cancel[j]]
  /\ turn' = [turn EXCEPT ![j] = "none"]
  /\ staged' = [staged EXCEPT ![j] = FALSE]
  /\ UNCHANGED <<seq, attempts, cancel, limit, outcome, receipt, lastSeq>>

Requeue(j, when) == Undelivered(j) /\ QueueAgain(j, when)
RequeueAt(j)     == DeferrableAt(j) /\ QueueAgain(j, "future")

\* releaseUnstartedClaim: the receipt goes and the attempt is uncounted.
ReleaseRow(j) ==
  /\ status[j] = "running"
  /\ Dispatch(j) = "prepared"
  /\ status' = [status EXCEPT ![j] = "queued"]
  /\ notBefore' = [notBefore EXCEPT ![j] = "null"]
  /\ turn' = [turn EXCEPT ![j] = "none"]
  /\ staged' = [staged EXCEPT ![j] = FALSE]
  /\ receipt' = [receipt EXCEPT ![j][attempts[j]] = "none"]
  /\ attempts' = [attempts EXCEPT ![j] = @ - 1]
  /\ UNCHANGED <<seq, cancel, accepts, limit, outcome, lastSeq>>

At(j, p)  == pc = p /\ mine = j
Goto(p)   == pc' = p /\ UNCHANGED mine
LetGo(p)  == pc' = p /\ mine' = NoJob
Fault     == faults < MaxFaults /\ faults' = faults + 1

SetReceipt(j, s) == receipt' = [receipt EXCEPT ![j][attempts[j]] = s]
SetEngine(j, e)  == engine' = [engine EXCEPT ![j] = e]
\* The executor reaps its child before it lets an error reach the worker.
ReapEngine(j) ==
  engine' = [engine EXCEPT ![j] = IF @ = "live" THEN "killed" ELSE @]

-----------------------------------------------------------------------------
(* The gateway.  An inbound row is durable before anything else happens;   *)
(* its conversion and its deletion are two transactions.                   *)

\* hasDurableEvent and hasLiveInput: the row's content lives in another table.
HandedOff(m) ==
  IF m[2] = "request" THEN status[m[1]] # "absent" \/ m[1] \in replies
                      ELSE cancel[m[1]]

\* liveControlTarget, and separateSecurityWorkflow: an audit neither takes nor
\* becomes live input.
Absorbs(i, j) ==
  /\ ThreadOf[i] = ThreadOf[j]
  /\ Unsettled(i) /\ accepts[i]
  /\ KindOf[i] # "audit" /\ KindOf[j] # "audit"

\* stageInboundDelivery: an event is staged once, whatever Slack redelivers.
StageRequest(j) ==
  /\ <<j, "request">> \notin inbound \cup tombs
  /\ ~HandedOff(<<j, "request">>)
  /\ inbound' = inbound \cup {<<j, "request">>}
  /\ UNCHANGED <<tables, replies, tombs, runner, world>>

\* stageInboundDeliveryForControl for an interrupt: the authority the gateway
\* saw is checked again in the transaction that stages the row.
StageInterrupt(j) ==
  LET m == <<j, "interrupt">> IN
  /\ m \notin inbound \cup tombs
  /\ ~HandedOff(m)
  /\ status[j] # "absent"
  /\ IF Unsettled(j)
       THEN inbound' = inbound \cup {m} /\ UNCHANGED tombs
       ELSE tombs' = tombs \cup {m} /\ UNCHANGED inbound
  /\ UNCHANGED <<tables, replies, runner, world>>

\* stageThreadReply: the thread's live job takes the message as its input.
Reply(j) ==
  /\ <<j, "request">> \in inbound
  /\ ~HandedOff(<<j, "request">>)
  /\ \E i \in Jobs : Absorbs(i, j)
  /\ replies' = replies \cup {j}
  /\ UNCHANGED <<tables, inbound, tombs, runner, world>>

\* enqueue.
Enqueue(j) ==
  /\ <<j, "request">> \in inbound
  /\ ~HandedOff(<<j, "request">>)
  /\ \A i \in Jobs : ~Absorbs(i, j)
  /\ status' = [status EXCEPT ![j] = "queued"]
  /\ accepts' = [accepts EXCEPT ![j] = TRUE]
  /\ lastSeq' = lastSeq + 1
  /\ seq' = [seq EXCEPT ![j] = lastSeq + 1]
  /\ UNCHANGED <<attempts, cancel, notBefore, turn, staged, limit, outcome,
                 receipt, ingress, runner, world>>

\* stageLiveControl, kind = 'interrupt'.
Interrupt(j) ==
  /\ <<j, "interrupt">> \in inbound
  /\ Unsettled(j) /\ ~cancel[j]
  /\ cancel' = [cancel EXCEPT ![j] = TRUE]
  /\ accepts' = [accepts EXCEPT ![j] = FALSE]
  /\ UNCHANGED <<status, seq, attempts, notBefore, turn, staged, limit,
                 outcome, receipt, lastSeq, ingress, runner, world>>

\* completeInboundDelivery, once the row's content lives in another table.
CompleteInbound(m) ==
  /\ m \in inbound
  /\ HandedOff(m)
  /\ inbound' = inbound \ {m}
  /\ UNCHANGED <<tables, replies, tombs, runner, world>>

\* tombstoneInboundDelivery: the job settled before its interrupt drained.
TombstoneInbound(m) ==
  /\ m \in inbound
  /\ m[2] = "interrupt" /\ ~HandedOff(m) /\ ~Unsettled(m[1])
  /\ inbound' = inbound \ {m}
  /\ tombs' = tombs \cup {m}
  /\ UNCHANGED <<tables, replies, runner, world>>

Drain(m) ==
  \/ m[2] = "request" /\ (Reply(m[1]) \/ Enqueue(m[1]))
  \/ m[2] = "interrupt" /\ Interrupt(m[1])
  \/ CompleteInbound(m)
  \/ TombstoneInbound(m)

-----------------------------------------------------------------------------
(* The worker: runQueuedJobs up to the executor.                           *)

\* The barrier is read before the claim, with awaits in between.
CheckBarrier ==
  /\ pc = "idle" /\ ~barrier
  /\ Goto("checked")
  /\ UNCHANGED <<tables, ingress, world>>

ClaimNothing ==
  /\ pc = "checked"
  /\ \/ \E j \in Jobs : status[j] = "running"
     \/ \A j \in Jobs : ~Ready(j)
  /\ Goto("idle")
  /\ UNCHANGED <<tables, ingress, world>>

Claim(j) ==
  /\ pc = "checked"
  /\ \A i \in Jobs : status[i] # "running"
  /\ Ready(j)
  /\ \A i \in Jobs : Ready(i) => seq[j] <= seq[i]
  /\ attempts[j] < MaxAttempts
  /\ status' = [status EXCEPT ![j] = "running"]
  /\ attempts' = [attempts EXCEPT ![j] = @ + 1]
  /\ notBefore' = [notBefore EXCEPT ![j] = "null"]
  /\ accepts' = [accepts EXCEPT ![j] = ~cancel[j]]
  /\ turn' = [turn EXCEPT ![j] = "none"]
  /\ staged' = [staged EXCEPT ![j] = FALSE]
  /\ outcome' = [outcome EXCEPT ![j] = "none"]
  /\ receipt' = [receipt EXCEPT ![j][attempts[j] + 1] = "prepared"]
  /\ pc' = IF cancel[j] THEN "doomed" ELSE "claimed"
  /\ mine' = j
  /\ UNCHANGED <<seq, cancel, limit, lastSeq, ingress, world>>

\* The update barrier appeared between the check and the claim.
ReleaseAtBarrier(j) ==
  /\ At(j, "claimed") \/ At(j, "doomed")
  /\ barrier
  /\ ReleaseRow(j)
  /\ LetGo("idle")
  /\ UNCHANGED <<ingress, world>>

\* The claimed row already carried a cancellation.
CancelAtClaim(j) ==
  /\ At(j, "doomed") /\ ~barrier
  /\ CancelRow(j)
  /\ LetGo("idle")
  /\ UNCHANGED <<ingress, world>>

PassBarrier(j) ==
  /\ At(j, "claimed") /\ ~barrier
  /\ Goto("prepare")
  /\ UNCHANGED <<tables, ingress, world>>

\* The monitor pane cannot be prepared: the claim is undone and the error
\* ends the daemon.
MonitorPending(j) ==
  /\ At(j, "prepare")
  /\ Fault
  /\ ReleaseRow(j)
  /\ LetGo("down")
  /\ UNCHANGED <<ingress, engine, barrier>>

\* activateJobLifecycle and stageQueuedJobStart refuse a cancelled row.
Activate(j) ==
  /\ At(j, "prepare")
  /\ Goto(IF cancel[j] THEN "cancelling" ELSE "execute")
  /\ UNCHANGED <<tables, ingress, world>>

-----------------------------------------------------------------------------
(* The executor.  beginInitialTurnDispatch commits before the bytes are    *)
(* written; what comes back decides the receipt.                           *)

BeginDispatch(j) ==
  /\ At(j, "execute")
  /\ Dispatch(j) = "prepared"
  /\ IF cancel[j]
       THEN Goto("cancelling") /\ UNCHANGED tables
       ELSE /\ Goto("sending")
            /\ SetReceipt(j, "dispatching")
            /\ UNCHANGED <<status, seq, attempts, cancel, accepts, notBefore,
                           turn, staged, limit, outcome, lastSeq>>
  /\ UNCHANGED <<ingress, world>>

\* The executor fails before it writes the prompt: a usage limit, a transient
\* model or attachment error that is retried later, a signal, or anything else.
ExecuteFails(j) ==
  /\ At(j, "execute")
  /\ Fault
  /\ \/ \E p \in {"limited", "interrupted", "failing"} :
          Goto(p) /\ UNCHANGED tables
     \/ Requeue(j, "future") /\ LetGo("idle")
  /\ UNCHANGED <<ingress, engine, barrier>>

\* External: the App Server receives turn/start and begins the turn.
Receive(j) ==
  /\ At(j, "sending")
  /\ Dispatch(j) = "dispatching"
  /\ engine[j] # "live"
  /\ SetEngine(j, "live")
  /\ UNCHANGED <<tables, ingress, runner, barrier, faults>>

\* acknowledgeInitialTurnDispatch binds the turn in one transaction.
Acknowledge(j) ==
  /\ At(j, "sending")
  /\ engine[j] = "live"
  /\ Dispatch(j) = "dispatching"
  /\ turn[j] = "none"
  /\ SetReceipt(j, "acknowledged")
  /\ turn' = [turn EXCEPT ![j] = "active"]
  /\ Goto("turn")
  /\ UNCHANGED <<status, seq, attempts, cancel, accepts, notBefore, staged,
                 limit, outcome, lastSeq, ingress, world>>

\* turn/start is answered by an error: markInitialTurnDispatchRejected.
Rejected(j) ==
  /\ At(j, "sending")
  /\ engine[j] # "live"
  /\ Fault
  /\ SetReceipt(j, "rejected")
  /\ \E p \in {"limited", "failing"} : Goto(p)
  /\ UNCHANGED <<status, seq, attempts, cancel, accepts, notBefore, turn,
                 staged, limit, outcome, lastSeq, ingress, engine, barrier>>

\* No answer, or one that does not match: markInitialTurnDispatchAmbiguous.
\* The prompt may or may not have been received.
Ambiguous(j) ==
  /\ At(j, "sending")
  /\ Fault
  /\ SetReceipt(j, "ambiguous")
  /\ ReapEngine(j)
  /\ \E p \in {"limited", "failing", "interrupted"} : Goto(p)
  /\ UNCHANGED <<status, seq, attempts, cancel, accepts, notBefore, turn,
                 staged, limit, outcome, lastSeq, ingress, barrier>>

\* External: the turn ends, completed or stopped by the account's limit.  The
\* answer to turn/start precedes it on the wire, so the executor has that first.
TurnEnds(j) ==
  /\ engine[j] = "live"
  /\ ~At(j, "sending")
  /\ \/ SetEngine(j, "done") /\ UNCHANGED faults
     \/ SetEngine(j, "limited") /\ Fault
  /\ UNCHANGED <<tables, ingress, runner, barrier>>

\* recordAppServerRateLimit: a progress notification, not the terminal.
SoftLimit(j) ==
  /\ At(j, "turn")
  /\ turn[j] = "active"
  /\ Fault
  /\ notBefore' = [notBefore EXCEPT ![j] = "future"]
  /\ accepts' = [accepts EXCEPT ![j] = ~cancel[j]]
  /\ UNCHANGED <<status, seq, attempts, cancel, turn, staged, limit, outcome,
                 receipt, lastSeq, ingress, runner, engine, barrier>>

\* The terminal reports status 'completed'.
CompletedTurn(j) == engine[j] = "done"

\* finishAppServerTurn after a completed turn.  While inbound rows of the
\* thread exist the turn stays bound and the executor calls again.  Input stays
\* open at every stage but 'complete' (retainInput).
FinishTurn(j) ==
  /\ At(j, "turn")
  /\ CompletedTurn(j)
  /\ turn[j] = "active"
  /\ SetReceipt(j, "observed")
  /\ \E retainInput \in BOOLEAN :
       accepts' = [accepts EXCEPT ![j] =
                     ~cancel[j] /\ (retainInput \/ InboundPending(j))]
  /\ turn' = [turn EXCEPT ![j] =
                IF ~cancel[j] /\ InboundPending(j) THEN "active" ELSE "ended"]
  /\ notBefore' = [notBefore EXCEPT ![j] = "null"]
  /\ limit' = [limit EXCEPT ![j] = 0]
  /\ Goto(IF cancel[j] THEN "cancelling"
          ELSE IF InboundPending(j) THEN "turn" ELSE "ended")
  /\ UNCHANGED <<status, seq, attempts, cancel, staged, outcome, lastSeq,
                 ingress, world>>

\* finishAppServerTurn after a terminal usage limit: the receipt of the
\* attempt and the resume time are written with the end of the turn, and
\* input stays open for the retry.
FinishLimited(j) ==
  /\ At(j, "turn")
  /\ engine[j] = "limited"
  /\ turn[j] = "active"
  /\ SetReceipt(j, "observed")
  /\ accepts' = [accepts EXCEPT ![j] = ~cancel[j]]
  /\ turn' = [turn EXCEPT ![j] = "ended"]
  /\ notBefore' = [notBefore EXCEPT ![j] = "future"]
  /\ limit' = [limit EXCEPT ![j] = attempts[j]]
  /\ Goto(IF cancel[j] THEN "cancelling" ELSE "limited")
  /\ UNCHANGED <<status, seq, attempts, cancel, staged, outcome, lastSeq,
                 ingress, world>>

\* The child dies, times out, is signalled, or loses its terminal.
TurnBreaks(j) ==
  /\ At(j, "turn")
  /\ Fault
  /\ ReapEngine(j)
  /\ \E p \in {"limited", "failing", "interrupted"} : Goto(p)
  /\ UNCHANGED <<tables, ingress, barrier>>

\* Mutant: a cancellation between two turns goes unnoticed.
StopTurnActiveOnly(j) ==
  /\ At(j, "turn")
  /\ cancel[j]
  /\ ReapEngine(j)
  /\ Goto("cancelling")
  /\ UNCHANGED <<tables, ingress, barrier, faults>>

\* A cancellation stops the turn without waiting for its terminal.
StopTurn(j) ==
  /\ At(j, "turn") \/ At(j, "again")
  /\ cancel[j]
  /\ ReapEngine(j)
  /\ Goto("cancelling")
  /\ UNCHANGED <<tables, ingress, barrier, faults>>

\* sealAppServerPhaseResult: the result is staged with the closing of input,
\* unless a cancellation or an inbound row of the thread got there first.
Seal(j) ==
  /\ At(j, "ended")
  /\ turn[j] = "ended"
  /\ IF cancel[j] THEN Goto("cancelling") /\ UNCHANGED tables
     ELSE IF InboundPending(j) THEN Goto("again") /\ UNCHANGED tables
     ELSE /\ Goto("staged")
          /\ staged' = [staged EXCEPT ![j] = TRUE]
          /\ accepts' = [accepts EXCEPT ![j] = FALSE]
          /\ UNCHANGED <<status, seq, attempts, cancel, notBefore, turn, limit,
                         outcome, receipt, lastSeq>>
  /\ UNCHANGED <<ingress, world>>

\* After 'pending-inbound' a further phase turn runs in the same session;
\* beginAppServerPhaseDispatch holds it back until the thread is drained.
NextTurn(j) ==
  /\ At(j, "again")
  /\ ~cancel[j] /\ ~InboundPending(j)
  /\ turn[j] = "ended"
  /\ turn' = [turn EXCEPT ![j] = "active"]
  /\ SetEngine(j, "live")
  /\ Goto("turn")
  /\ UNCHANGED <<status, seq, attempts, cancel, accepts, notBefore, staged,
                 limit, outcome, receipt, lastSeq, ingress, barrier, faults>>

-----------------------------------------------------------------------------
(* The worker settles the job: the tail and the catch of runQueuedJobs.    *)

\* The cancellation is read once after the executor's cleanup, with awaits
\* between it and the commit.
RecheckCancel(j) ==
  /\ At(j, "staged")
  /\ Goto(IF cancel[j] THEN "cancelling" ELSE "committing")
  /\ UNCHANGED <<tables, ingress, world>>

\* completeStagedExecution.  A result that cannot be committed stays staged
\* and the error ends the daemon, unless a cancellation is the reason.
Commit(j) ==
  /\ At(j, "committing")
  /\ IF CanComplete(j) THEN CompleteRow(j) /\ LetGo("idle")
     ELSE IF cancel[j] THEN Goto("cancelling") /\ UNCHANGED tables
     ELSE LetGo("down") /\ UNCHANGED tables
  /\ UNCHANGED <<ingress, world>>

CancelRun(j) ==
  /\ At(j, "cancelling")
  /\ CancelRow(j)
  /\ LetGo("idle")
  /\ UNCHANGED <<ingress, world>>

FailRun(j) ==
  /\ At(j, "failing")
  /\ FailRow(j)
  /\ LetGo("idle")
  /\ UNCHANGED <<ingress, world>>

\* CodexRateLimitError: the decision is taken before the awaits that precede
\* the transaction it leads to.
Limited(j) ==
  /\ At(j, "limited")
  /\ Goto(IF Write(j) /\ ~Undelivered(j) /\ ~DurableLimit(j)
            THEN "failing" ELSE "deferring")
  /\ UNCHANGED <<tables, ingress, world>>

\* requeueAt throws when its row may not be deferred: the daemon ends.
Defer(j) ==
  /\ At(j, "deferring")
  /\ IF DeferrableAt(j) THEN RequeueAt(j) /\ LetGo("idle")
                        ELSE LetGo("down") /\ UNCHANGED tables
  /\ UNCHANGED <<ingress, world>>

\* CodexInterruptedError, or the service is told to stop: the worker returns.
Interrupted(j) ==
  /\ At(j, "interrupted")
  /\ LetGo("down")
  /\ CASE KindOf[j] = "audit" /\ ~Undelivered(j) -> UNCHANGED tables
       [] KindOf[j] # "write" /\ Undelivered(j)  -> Requeue(j, "null")
       [] OTHER                                  -> FailRow(j)
  /\ UNCHANGED <<ingress, world>>

-----------------------------------------------------------------------------
(* The daemon stops anywhere and starts again under the instance lease.    *)

Crash ==
  /\ pc # "down"
  /\ Fault
  /\ LetGo("down")
  /\ UNCHANGED <<tables, ingress, engine, barrier>>

\* Mutant: executors of the old daemon are left running.
BootWithoutReaping ==
  pc = "down" /\ Goto("boot") /\ UNCHANGED <<tables, ingress, world>>

\* terminateTrackedExecutors: no executor of the old daemon survives.
Boot ==
  /\ pc = "down"
  /\ Goto("boot")
  /\ engine' = [j \in Jobs |-> IF engine[j] = "live" THEN "killed"
                                                    ELSE engine[j]]
  /\ UNCHANGED <<tables, ingress, barrier, faults>>

Recoverable(j) ==
  status[j] = "running" /\ staged[j] /\ ~cancel[j] /\ ~InboundPending(j)

\* recoverStagedExecutions.
RecoverStaged(j) ==
  /\ pc = "boot"
  /\ Recoverable(j)
  /\ CompleteRow(j)
  /\ UNCHANGED <<ingress, runner, world>>

\* An inbound row arrived between its SELECT and the completion, which throws.
StagedRecoveryRaces(j) ==
  /\ pc = "boot"
  /\ status[j] = "running" /\ staged[j] /\ InboundPending(j)
  /\ Fault
  /\ LetGo("down")
  /\ UNCHANGED <<tables, ingress, engine, barrier>>

StagedRecovered ==
  /\ pc = "boot"
  /\ \A j \in Jobs : ~Recoverable(j)
  /\ Goto("settle")
  /\ UNCHANGED <<tables, ingress, world>>

\* Mutant: every interrupted job without write permission starts over.
RecoverRowReplays(j) ==
  CASE cancel[j] -> CancelRow(j)
    [] ~cancel[j] /\ Write(j) -> FailRow(j)
    [] OTHER -> QueueAgain(j, "null")

\* recoverInterrupted, one row: the order of the cases is the code's.
RecoverRow(j) ==
  CASE cancel[j]                        -> CancelRow(j)
    [] ~cancel[j] /\ (DurableLimit(j) \/ CarriedLimit(j)) -> RequeueAt(j)
    [] OTHER ->
         CASE KindOf[j] = "audit"       -> QueueAgain(j, "null")
           [] Write(j)                  -> FailRow(j)
           [] OTHER ->
                IF notBefore[j] # "null" THEN RequeueAt(j)
                ELSE IF MayBeDelivered(j) \/ ~Undelivered(j) THEN FailRow(j)
                ELSE Requeue(j, "null")

RecoverInterrupted(j) ==
  /\ pc = "settle"
  /\ status[j] = "running"
  /\ RecoverRow(j)
  /\ UNCHANGED <<ingress, runner, world>>

Recovered ==
  /\ pc = "settle"
  /\ \A j \in Jobs : status[j] # "running"
  /\ Goto("idle")
  /\ UNCHANGED <<tables, ingress, world>>

\* The clock passes a not_before.
Tick(j) ==
  /\ notBefore[j] = "future"
  /\ notBefore' = [notBefore EXCEPT ![j] = "due"]
  /\ UNCHANGED <<status, seq, attempts, cancel, accepts, turn, staged, limit,
                 outcome, receipt, lastSeq, ingress, runner, world>>

\* External: an updater takes and gives back the barrier file.
RaiseBarrier ==
  /\ ~barrier
  /\ Fault
  /\ barrier' = TRUE
  /\ UNCHANGED <<tables, ingress, runner, engine>>

LowerBarrier ==
  /\ barrier
  /\ barrier' = FALSE
  /\ UNCHANGED <<tables, ingress, runner, engine, faults>>

-----------------------------------------------------------------------------
Gateway ==
  \/ \E j \in Jobs : StageRequest(j) \/ StageInterrupt(j)
  \/ \E m \in Messages : Drain(m)

\* What the runner does of its own accord, failures left out.
Work(j) ==
  \/ Claim(j) \/ ReleaseAtBarrier(j) \/ CancelAtClaim(j) \/ PassBarrier(j)
  \/ Activate(j) \/ BeginDispatch(j) \/ Acknowledge(j)
  \/ FinishTurn(j) \/ FinishLimited(j) \/ StopTurn(j) \/ Seal(j) \/ NextTurn(j)
  \/ RecheckCancel(j) \/ Commit(j) \/ CancelRun(j) \/ FailRun(j)
  \/ Limited(j) \/ Defer(j) \/ Interrupted(j)

Recovery ==
  \/ Boot \/ StagedRecovered \/ Recovered
  \/ \E j \in Jobs : RecoverStaged(j) \/ RecoverInterrupted(j)

Failure(j) ==
  \/ MonitorPending(j) \/ ExecuteFails(j) \/ Rejected(j) \/ Ambiguous(j)
  \/ SoftLimit(j) \/ TurnBreaks(j) \/ StagedRecoveryRaces(j)

AppServer(j) == Receive(j) \/ TurnEnds(j)

Next ==
  \/ Gateway
  \/ CheckBarrier \/ ClaimNothing
  \/ \E j \in Jobs : Work(j) \/ Failure(j) \/ AppServer(j) \/ Tick(j)
  \/ Recovery
  \/ Crash \/ RaiseBarrier \/ LowerBarrier

\* The runner and the gateway's drain are timer-driven loops, launchd restarts
\* a daemon that ended, an executor that gets no answer is timed out, and an
\* updater gives its barrier back.  Nobody has to post, and nothing has to fail.
Fairness ==
  /\ WF_vars(CheckBarrier) /\ WF_vars(ClaimNothing)
  /\ WF_vars(\E j \in Jobs : Work(j))
  /\ WF_vars(Recovery)
  /\ WF_vars(LowerBarrier)
  /\ \A m \in Messages : WF_vars(Drain(m))
  /\ \A j \in Jobs : WF_vars(Tick(j)) /\ WF_vars(AppServer(j))

Spec == Init /\ [][Next]_vars /\ Fairness

-----------------------------------------------------------------------------
(* Properties.                                                             *)

\* The queue is serial: claimNext starts a job only when none is running, and
\* no Codex process of one job outlives it into the next, whatever the daemon
\* and its executor went through.
SerialExecution ==
  /\ \A i, j \in Jobs :
       status[i] = "running" /\ status[j] = "running" => i = j
  /\ \A j \in Jobs : engine[j] = "live" => status[j] = "running"

\* Requests of one Slack thread are attempted in the order of their rows, and
\* never before the earlier ones are over, through every requeue, released
\* claim and recovery (READY_CODEX_JOB_PREDICATE).
ThreadOrder ==
  \A i, j \in Jobs :
    ThreadOf[i] = ThreadOf[j] /\ 0 < seq[i] /\ seq[i] < seq[j]
      => attempts[j] = 0 \/ Settled(i)

\* A write whose prompt reached Codex and was not stopped by an authoritative
\* limit never waits in the queue again: no path through the catch of
\* runQueuedJobs or through recoverInterrupted repeats uncertain effects.
NoUncertainReplay ==
  \A j \in Jobs :
    Write(j) /\ engine[j] \in {"live", "done", "killed"} => status[j] # "queued"

\* An accepted interrupt and a published success exclude each other, at
\* whatever point of staging, completion or recovery the interrupt arrives.
CancelExcludesSuccess ==
  \A j \in Jobs :
    /\ cancel[j] => status[j] # "completed"
    /\ outcome[j] = "cancelled" => cancel[j]

\* A success is published only for a turn that really ran to its end, so the
\* receipt columns never make a result out of a lost or limited turn.
SuccessIsReal ==
  \A j \in Jobs : staged[j] \/ status[j] = "completed" => engine[j] = "done"

\* What a table is never without: its types, one job at a time, and an end that is
\* what the interrupt and the turn make it.
Integrity == TypeOK /\ SerialExecution /\ CancelExcludesSuccess /\ SuccessIsReal

\* Requests of a thread keep their order, and a write is not repeated on a doubt.
OrderedOnce == ThreadOrder /\ NoUncertainReplay

\* Startup recovery is total: no reachable table makes complete or requeueAt
\* throw in it, which would stop every later daemon at the same row.
RecoveryNeverWedges ==
  /\ pc = "boot" => \A j \in Jobs : Recoverable(j) => CanComplete(j)
  /\ pc = "settle" =>
       \A j \in Jobs :
         status[j] = "running" /\ KindOf[j] = "read" /\ notBefore[j] # "null"
           => cancel[j] \/ DeferrableAt(j)

\* Every attempt after the first is owed to a failure: no cycle of claim,
\* release, deferral and recovery starts the same work again by itself.  Only
\* an audit repeats for another reason (see StagedResultSurvives).
AttemptsArePaidFor ==
  \A j \in Jobs : KindOf[j] # "audit" => attempts[j] <= faults + 1

\* Every accepted request is settled in the end, and its inbound row leaves
\* the ledger.
RequestsSettle ==
  \A j \in Jobs :
    <<j, "request">> \in inbound
      ~> Settled(j) \/ j \in replies

\* An accepted interrupt ends its job, wherever the job is, and its process.
InterruptsSettle ==
  \A j \in Jobs : cancel[j] ~> Settled(j) /\ engine[j] # "live"

\* Every accepted request and every accepted interrupt reaches its end.
EverythingSettles == RequestsSettle /\ InterruptsSettle

\* README.md: confirmed results are recovered after a runner restart.  A
\* staged result that nobody cancelled is published, never dropped or rerun.
StagedResultSurvives ==
  [][\A j \in Jobs : staged[j] /\ ~cancel[j]
       => staged'[j] \/ status'[j] = "completed"]_vars

-----------------------------------------------------------------------------
(* The store keeps the promise of JobPromise.                              *)

\* A prompt is with Codex from the commit that precedes its bytes until the
\* App Server rejects it, a terminal limit is recorded, or the row is over.
Custody(j) ==
  CASE status[j] = "absent" -> "none"
    [] status[j] = "queued" -> "queue"
    [] Settled(j) -> "over"
    [] OTHER -> IF MayBeDelivered(j) /\ limit[j] # attempts[j]
                  THEN "codex" ELSE "worker"

Promise == INSTANCE JobPromise WITH
  Requests   <- Jobs,
  Repeatable <- {j \in Jobs : ~Write(j)},
  custody    <- [j \in Jobs |-> Custody(j)],
  rank       <- seq,
  stopped    <- {j \in Jobs : cancel[j]},
  verdict    <- [j \in Jobs |-> outcome[j]]

\* The detailed queue implements the promise: custody never skips a hand-over,
\* a write never silently comes back from Codex, and every accepted request
\* ends.
KeepsPromise == Promise!Spec

=============================================================================
