------------------------------- MODULE Outbox -------------------------------
(***************************************************************************)
(* The notification outbox of the runner: what a Slack thread is told of   *)
(* its jobs, and in which order.                                           *)
(*                                                                         *)
(* Everything a job has to say is a durable row first.  Two lanes of the   *)
(* daemon post the rows: the main lane sends state replies, answers,       *)
(* results and commentary one after the other; the lifecycle lane, open    *)
(* only while a job runs, settles the "started" barrier and posts the      *)
(* progress reports of a security audit.  The serial worker claims, runs   *)
(* and settles jobs meanwhile; before it changes a job's state it closes   *)
(* the lifecycle lane and waits for the posts that have left.  The lanes   *)
(* share no lock with the worker: the order a reader sees comes from the   *)
(* eligibility predicates of the SQL queries alone.                        *)
(*                                                                         *)
(* The rows' texts, and what makes a job end one way or another, are left  *)
(* out (the latter is in JobStore).  A post is one message; a repeated     *)
(* post of a row carries the same client_msg_id and adds nothing to the    *)
(* thread.  created_at orders the rows of one lane's pass to the           *)
(* millisecond; the model takes them in any order the predicates allow.    *)
(***************************************************************************)
EXTENDS Naturals, FiniteSets

CONSTANTS
  N,           \* jobs, numbered by seq
  Thread,      \* [1..N -> threads]: the Slack thread of a job
  Broken,      \* jobs with a result file that can never be uploaded
  Kinds,       \* bound: the kinds of rows the instance stages
  None,
  MaxAttempts, \* bound: claims of a job
  MaxNotes,    \* bound: commentary rows of an attempt
  MaxSaid,     \* bound: rows the executor stages for a job
  MaxFaults    \* bound: failed posts and crashes injected

Jobs == 1..N

ASSUME OutboxAssumption ==
  /\ N \in Nat /\ MaxAttempts \in Nat \ {0} /\ MaxNotes \in Nat /\ MaxSaid \in Nat /\ MaxFaults \in Nat
  /\ Broken \subseteq Jobs /\ DOMAIN Thread = Jobs

VARIABLES
  \* the jobs table, by column; blocked says why a queued job is not claimable:
  \* an inbound delivery of its thread, or not_before
  status, cancel, blocked, attempt, epoch, active,
  row,                      \* the five notification tables, a state per row
  pc, head, mine, verdict,  \* the serial worker
  batch, sending, arrived,  \* the main lane: snapshot of results, post in flight
  open, lifeSending, lifeArrived,   \* the lifecycle lane
  posted,                   \* the messages of the thread
  faults

table  == <<status, cancel, blocked, attempt, epoch, active>>
worker == <<pc, head, mine, verdict>>
main   == <<batch, sending, arrived>>
life   == <<open, lifeSending, lifeArrived>>
vars   == <<table, row, worker, main, life, posted, faults>>

Accepted(j)    == <<"accepted", j, 0, 0>>      \* behind another job
Begun(j)       == <<"begun", j, 0, 0>>         \* execution-started
Stopping(j)    == <<"stopping", j, 0, 0>>      \* interrupt-accepted
Deferred(j, a) == <<"deferred", j, a, 0>>      \* rate-limited, requeueAt
Waiting(j, a)  == <<"waiting", j, a, 0>>       \* rate-limited, inside a turn
Answer(j)      == <<"answer", j, 0, 0>>        \* an interjection's answer
Started(j, a)  == <<"started", j, a, 0>>       \* posts nothing: a barrier only
Progress(j, a) == <<"progress", j, a, 0>>
Note(j, a, n)  == <<"note", j, a, n>>          \* commentary
Result(j)      == <<"result", j, 0, 0>>        \* terminal

Attempts == 1..MaxAttempts
Rows ==
  {Accepted(j) : j \in Jobs} \cup {Begun(j) : j \in Jobs} \cup {Stopping(j) : j \in Jobs}
    \cup {Answer(j) : j \in Jobs} \cup {Result(j) : j \in Jobs}
    \cup ({"deferred", "waiting", "started", "progress"} \X Jobs \X Attempts \X {0})
    \cup {Note(j, a, n) : j \in Jobs, a \in Attempts, n \in 1..MaxNotes}

Kind(r) == r[1]
Job(r)  == r[2]

StatusKinds    == {"accepted", "begun", "stopping", "deferred", "waiting"}
RateLimited    == {"deferred", "waiting"}
LifecycleKinds == {"started", "progress"}

TypeOK ==
  /\ status \in [Jobs -> {"absent", "queued", "running", "settled"}]
  /\ cancel \in [Jobs -> BOOLEAN] /\ epoch \in [Jobs -> BOOLEAN] /\ active \in [Jobs -> BOOLEAN]
  /\ blocked \in [Jobs -> {"no", "inbound", "timer"}]
  /\ attempt \in [Jobs -> 0..MaxAttempts]
  /\ row \in [Rows -> {"absent", "pending", "deferred", "delivered", "superseded"}]
  /\ pc \in {"loop", "head", "claimed", "activated", "running", "closing", "closed",
             "quiet", "down"}
  /\ head \in Jobs \cup {None} /\ mine \in Jobs \cup {None}
  /\ verdict \in {"none", "complete", "fail", "cancel", "limit", "retry", "release"}
  /\ batch \subseteq Jobs
  /\ sending \in Rows \cup {None} /\ lifeSending \in Rows \cup {None}
  /\ arrived \in BOOLEAN /\ lifeArrived \in BOOLEAN /\ open \in BOOLEAN
  /\ posted \subseteq Rows
  /\ faults \in 0..MaxFaults

Init ==
  /\ status = [j \in Jobs |-> "absent"] /\ blocked = [j \in Jobs |-> "no"]
  /\ cancel = [j \in Jobs |-> FALSE] /\ epoch = [j \in Jobs |-> FALSE]
  /\ active = [j \in Jobs |-> FALSE] /\ attempt = [j \in Jobs |-> 0]
  /\ row = [r \in Rows |-> "absent"]
  /\ pc = "loop" /\ head = None /\ mine = None /\ verdict = "none"
  /\ batch = {} /\ sending = None /\ arrived = FALSE
  /\ open = FALSE /\ lifeSending = None /\ lifeArrived = FALSE
  /\ posted = {} /\ faults = 0

-----------------------------------------------------------------------------
(* The rows *)

\* Not delivered and not superseded: delivered_at IS NULL AND superseded_at IS NULL.
Unsaid(r) == row[r] \in {"pending", "deferred"}
Owes(j, kinds) == \E r \in Rows : Job(r) = j /\ Kind(r) \in kinds /\ Unsaid(r)

\* The rows with r inserted, unless its idempotency key is there already.
With(rs, r) == IF rs[r] = "absent" THEN [rs EXCEPT ![r] = "pending"] ELSE rs

\* The rows with those of a job superseded: what is open, of the given kinds.
Without(j, kinds) ==
  [r \in Rows |-> IF Job(r) = j /\ Kind(r) \in kinds /\ Unsaid(r) THEN "superseded" ELSE row[r]]

\* A progress report takes the place of the barrier that is still open.
Overtaken(j, a) ==
  [r \in Rows |-> IF r = Started(j, a) /\ Unsaid(r) THEN "superseded" ELSE row[r]]

\* supersedeLifecycleNotifications: the barrier, the progress, the wait notices.
Retired(j) == Without(j, LifecycleKinds \cup RateLimited)

\* An undelivered result of an earlier job of the thread.
PriorResult(j) == \E i \in Jobs : i < j /\ Thread[i] = Thread[j] /\ Unsaid(Result(i))

\* A job the worker may claim: nothing of its thread is pending or before it.
Ready(j) ==
  /\ status[j] = "queued"
  /\ blocked[j] = "no" \/ (blocked[j] = "timer" /\ cancel[j])
  /\ \A i \in Jobs : i < j /\ Thread[i] = Thread[j] => status[i] \notin {"queued", "running"}

First(S) == CHOOSE j \in S : \A i \in S : j <= i
Claimable == {j \in Jobs : Ready(j)}

\* Something executable is ahead of the job: running, or ready and earlier.
Behind(j) == \E i \in Jobs : i < j /\ (status[i] = "running" \/ Ready(i))

\* A state reply that is still true, checked again right before it is sent.
Current(r) ==
  CASE Kind(r) = "accepted" -> status[Job(r)] = "queued" /\ Behind(Job(r))
    [] Kind(r) = "waiting" -> /\ status[Job(r)] = "running" /\ ~cancel[Job(r)]
                              /\ active[Job(r)] /\ attempt[Job(r)] = r[3]
    [] OTHER -> TRUE

EarlierNote(p, r) ==
  Kind(p) = "note" /\ Job(p) = Job(r) /\ (p[3] < r[3] \/ (p[3] = r[3] /\ p[4] < r[4]))

\* Mutant: the earlier jobs of the thread are not looked at.
NoteDeliverableAlone(r) ==
  /\ \A p \in Rows : EarlierNote(p, r) => ~Unsaid(p)
  /\ ~Unsaid(Started(Job(r), r[3]))
  /\ ~Owes(Job(r), StatusKinds \cup {"answer"})

NoteDeliverable(r) ==
  /\ \A p \in Rows : EarlierNote(p, r) => ~Unsaid(p)
  /\ ~Unsaid(Started(Job(r), r[3]))
  /\ ~Owes(Job(r), StatusKinds \cup {"answer"})
  /\ ~PriorResult(Job(r))

\* Mutant: only commentary counts.
ResultDeliverableAfterNotes(j) == ~Owes(j, {"note"})

ResultDeliverable(j) == ~Owes(j, StatusKinds \cup {"answer", "note"})

LifecycleDeliverable(r) ==
  /\ row[r] = "pending"
  /\ status[Job(r)] = "running" /\ ~cancel[Job(r)] /\ attempt[Job(r)] = r[3]
  /\ ~PriorResult(Job(r))
  /\ ~Owes(Job(r), StatusKinds \cup {"answer"})

-----------------------------------------------------------------------------
(* The gateway *)

\* A request becomes a job; its inbound row still blocks it.  Who waits behind
\* another job is told so.
Enqueue(j) ==
  /\ status[j] = "absent" /\ \A i \in Jobs : i < j => status[i] # "absent"
  /\ status' = [status EXCEPT ![j] = "queued"] /\ blocked' = [blocked EXCEPT ![j] = "inbound"]
  /\ row' = IF "accepted" \in Kinds /\ Behind(j) THEN With(row, Accepted(j)) ELSE row
  /\ UNCHANGED <<cancel, attempt, epoch, active, worker, main, life, posted, faults>>

\* The inbound delivery is settled, or not_before has passed (or was lifted by
\* the user's resume).
Unblock(j) ==
  /\ status[j] = "queued" /\ blocked[j] # "no"
  /\ blocked' = [blocked EXCEPT ![j] = "no"]
  /\ UNCHANGED <<status, cancel, attempt, epoch, active, row, worker, main, life, posted, faults>>

\* An interrupt: cancel_requested_at, the reply to it, the end of the progress reports.
Interrupt(j) ==
  /\ "stopping" \in Kinds
  /\ status[j] \in {"queued", "running"} /\ epoch[j] /\ ~cancel[j]
  /\ cancel' = [cancel EXCEPT ![j] = TRUE]
  /\ row' = With(Without(j, {"progress"}), Stopping(j))
  /\ UNCHANGED <<status, blocked, attempt, epoch, active, worker, main, life, posted, faults>>

-----------------------------------------------------------------------------
(* The serial worker *)

\* No state reply of the job is on its way (answers go the same way).
StatusSettled(j) ==
  sending # None /\ Job(sending) = j => Kind(sending) \notin StatusKinds \cup {"answer"}

\* claimNext takes the first claimable job and retires what is left of its wait
\* notices.
ClaimFirst ==
  LET j == First(Claimable) IN
    /\ status' = [status EXCEPT ![j] = "running"] /\ blocked' = [blocked EXCEPT ![j] = "no"]
    /\ attempt' = [attempt EXCEPT ![j] = @ + 1]
    /\ epoch' = [epoch EXCEPT ![j] = TRUE]
    /\ row' = Without(j, {"accepted"} \cup RateLimited)
    /\ mine' = j /\ head' = None /\ pc' = "claimed"
    /\ UNCHANGED <<cancel, active>>

\* claimableHeadId, and the claim in the same turn of the event loop: unless a
\* notice of the head is on its way, which is waited for first.
Claim ==
  /\ pc = "loop" /\ Claimable # {}
  /\ IF StatusSettled(First(Claimable))
       THEN ClaimFirst
       ELSE head' = First(Claimable) /\ pc' = "head" /\ UNCHANGED <<table, row, mine>>
  /\ UNCHANGED <<verdict, main, life, posted, faults>>
\* After that wait the choice is made anew.
ClaimAfterWait ==
  /\ pc = "head" /\ StatusSettled(head)
  /\ IF Claimable # {}
       THEN ClaimFirst
       ELSE head' = None /\ pc' = "loop" /\ UNCHANGED <<table, row, mine>>
  /\ UNCHANGED <<verdict, main, life, posted, faults>>

\* The job's row leaves 'running' for good, with its result.
Settle(j, rs) ==
  /\ status' = [status EXCEPT ![j] = "settled"] /\ active' = [active EXCEPT ![j] = FALSE]
  /\ row' = With(rs, Result(j))
  /\ UNCHANGED <<cancel, blocked, attempt, epoch>>

\* complete requires every interjection closed; fail keeps an answer that asks
\* for nothing more and drops one that updates the task; cancel drops both.
Complete(j) == ~Unsaid(Answer(j)) /\ ~cancel[j] /\ Settle(j, Retired(j))
Fail(j) == \E kinds \in {{}, {"answer"}} :
  Settle(j, Without(j, LifecycleKinds \cup RateLimited \cup kinds))
Cancel(j) == cancel[j] /\ Settle(j, Without(j, LifecycleKinds \cup RateLimited \cup {"answer"}))

\* Back to the queue: with a notice of how long (requeueAt), unless one was
\* given a moment ago, or without (requeue).
Requeue(j) ==
  /\ status' = [status EXCEPT ![j] = "queued"] /\ active' = [active EXCEPT ![j] = FALSE]
  /\ blocked' = [blocked EXCEPT ![j] = "timer"]
  /\ UNCHANGED <<cancel, attempt, epoch>>
RequeueAt(j) ==
  /\ Requeue(j)
  /\ \/ row' = Retired(j)
     \/ "deferred" \in Kinds /\ row' = With(Retired(j), Deferred(j, attempt[j]))
Retry(j) == Requeue(j) /\ row' = Retired(j)

\* releaseUnstartedClaim: the claim did not happen.
Release(j) ==
  /\ status' = [status EXCEPT ![j] = "queued"]
  /\ attempt' = [attempt EXCEPT ![j] = @ - 1]
  /\ row' = [r \in Rows |-> IF Job(r) = j /\ Kind(r) \in LifecycleKinds /\ r[3] = attempt[j]
                               /\ Unsaid(r) THEN "superseded" ELSE row[r]]
  /\ UNCHANGED <<cancel, blocked, epoch, active>>

Loop == pc' = "loop" /\ mine' = None /\ verdict' = "none"

\* Before anything has started: the update barrier or a monitor that is not
\* ready gives the claim back, a cancelled job ends at once.
ReleaseAtClaim ==
  /\ pc = "claimed" /\ faults < MaxFaults
  /\ Release(mine) /\ Loop /\ faults' = faults + 1
  /\ UNCHANGED <<head, main, life, posted>>
CancelAtClaim ==
  /\ pc = "claimed" /\ Cancel(mine) /\ Loop
  /\ UNCHANGED <<head, main, life, posted, faults>>

\* activateJobLifecycle: the barrier row is staged (again), the lane opens.
Activate ==
  /\ pc = "claimed" /\ ~cancel[mine]
  /\ row' = [row EXCEPT ![Started(mine, attempt[mine])] = "pending"]
  /\ open' = TRUE /\ pc' = "activated"
  /\ UNCHANGED <<table, head, mine, verdict, main, lifeSending, lifeArrived, posted, faults>>

\* stageQueuedJobStart: only who was told to wait is told that work begins.
Begin ==
  /\ pc = "activated" /\ ~cancel[mine]
  /\ row' = IF row[Accepted(mine)] = "delivered" THEN With(row, Begun(mine)) ELSE row
  /\ active' = [active EXCEPT ![mine] = TRUE] /\ pc' = "running"
  /\ UNCHANGED <<status, cancel, blocked, attempt, epoch, head, mine, verdict, main, life, posted,
                 faults>>
NotBegun ==
  /\ pc = "activated"
  /\ \/ cancel[mine] /\ verdict' = "cancel" /\ faults' = faults
     \/ faults < MaxFaults /\ verdict' = "release" /\ faults' = faults + 1
  /\ pc' = "closing"
  /\ UNCHANGED <<table, row, head, mine, main, life, posted>>

\* What the executor of the job has staged so far.
SaidOf(j) == {r \in Rows : /\ Kind(r) \in {"note", "waiting", "progress", "answer"}
                           /\ Job(r) = j /\ row[r] # "absent"}

\* While the executor runs: commentary in the order it is observed, a wait
\* notice for the live turn, a progress report, an answer to a reply.
Say ==
  /\ pc = "running"
  /\ LET j == mine
         a == attempt[mine]
     IN \E r \in {Note(j, a, n) : n \in 1..MaxNotes} \cup {Waiting(j, a), Progress(j, a), Answer(j)} :
          /\ Kind(r) \in Kinds /\ row[r] = "absent" /\ Cardinality(SaidOf(j)) < MaxSaid
          /\ Kind(r) = "note" => \A p \in Rows : EarlierNote(p, r) /\ p[3] = a => row[p] # "absent"
          /\ Kind(r) = "waiting" => active[j] /\ ~cancel[j]
          /\ row' = With(IF Kind(r) = "progress" THEN Overtaken(j, a) ELSE row, r)
  /\ UNCHANGED <<table, worker, main, life, posted, faults>>

\* The executor returns or throws; its turn may be over, or lost with the
\* App Server.  It does not complete past an answer that was not delivered.
Return ==
  /\ pc = "running" /\ pc' = "closing"
  /\ verdict' \in {"complete", "fail", "cancel", "limit", "retry"}
  /\ verdict' = "complete" => ~Unsaid(Answer(mine))
  /\ verdict' = "cancel" => cancel[mine]
  /\ verdict' \in {"limit", "retry"} => attempt[mine] < MaxAttempts
  /\ \E lost \in BOOLEAN : active' = [active EXCEPT ![mine] = lost /\ verdict' # "complete"]
  /\ UNCHANGED <<status, cancel, blocked, attempt, epoch, row, head, mine, main, life, posted,
                 faults>>

\* Mutant: a report that has left is not waited for.
CloseLaneAtOnce ==
  /\ pc = "closing"
  /\ sending # None => Kind(sending) # "note"
  /\ open' = FALSE /\ pc' = "closed"
  /\ UNCHANGED <<table, row, head, mine, verdict, main, lifeSending, lifeArrived, posted, faults>>

\* quiesceLifecycleBeforeStateChange, first half: the lifecycle lane is drained
\* and closed, and the commentary that has left is waited for.
CloseLane ==
  /\ pc = "closing" /\ lifeSending = None
  /\ sending # None => Kind(sending) # "note"
  /\ open' = FALSE /\ pc' = "closed"
  /\ UNCHANGED <<table, row, head, mine, verdict, main, lifeSending, lifeArrived, posted, faults>>

\* Second half: the job's state replies that have left are waited for.  A job
\* that goes back to the queue does so at once; before it ends, the monitor's
\* probe is awaited too, and the lanes go on meanwhile.
GiveBack ==
  /\ pc = "closed" /\ verdict \in {"limit", "retry", "release"} /\ StatusSettled(mine)
  /\ CASE verdict = "limit" -> RequeueAt(mine)
       [] verdict = "retry" -> Retry(mine)
       [] OTHER -> Release(mine)
  /\ Loop
  /\ UNCHANGED <<head, main, life, posted, faults>>
Quieten ==
  /\ pc = "closed" /\ verdict \in {"complete", "fail", "cancel"} /\ StatusSettled(mine)
  /\ pc' = "quiet"
  /\ UNCHANGED <<table, row, head, mine, verdict, main, life, posted, faults>>
Finish ==
  /\ pc = "quiet"
  /\ \/ verdict = "complete" /\ Complete(mine) /\ Loop
     \/ verdict = "fail" /\ Fail(mine) /\ Loop
     \/ verdict = "cancel" /\ Cancel(mine) /\ Loop
     \* cancelled while the result was being settled
     \/ verdict = "complete" /\ cancel[mine] /\ verdict' = "cancel" /\ pc' = "closing"
        /\ UNCHANGED <<table, row, mine>>
  /\ UNCHANGED <<head, main, life, posted, faults>>

\* The daemon dies.  What had left arrives, or never does.
Crash ==
  /\ pc # "down" /\ faults < MaxFaults
  /\ posted' \in {posted \cup sent : sent \in SUBSET (({sending} \ {None}) \cup ({lifeSending} \ {None}))}
  /\ pc' = "down" /\ head' = None /\ mine' = None /\ verdict' = "none"
  /\ batch' = {} /\ sending' = None /\ arrived' = FALSE
  /\ open' = FALSE /\ lifeSending' = None /\ lifeArrived' = FALSE
  /\ faults' = faults + 1
  /\ UNCHANGED <<table, row>>

\* recoverInterrupted, for the one job that was running.
Boot ==
  /\ pc = "down" /\ pc' = "loop"
  /\ \/ (\A j \in Jobs : status[j] # "running") /\ UNCHANGED <<table, row>>
     \/ \E j \in Jobs :
          /\ status[j] = "running"
          /\ \/ Cancel(j)
             \/ ~cancel[j] /\ Fail(j)
             \/ ~cancel[j] /\ attempt[j] < MaxAttempts /\ (RequeueAt(j) \/ Retry(j))
  /\ UNCHANGED <<head, mine, verdict, main, life, posted, faults>>

-----------------------------------------------------------------------------
(* The lanes *)

\* The back-off of a deferred row is over.
Due(r) ==
  /\ row[r] = "deferred" /\ row' = [row EXCEPT ![r] = "pending"]
  /\ UNCHANGED <<table, worker, main, life, posted, faults>>

Idle == pc # "down" /\ sending = None /\ batch = {}

\* A state reply, an answer or a commentary row leaves.
Send(r) ==
  /\ Idle /\ row[r] = "pending"
  /\ \/ Kind(r) \in StatusKinds /\ Current(r)
     \/ Kind(r) = "answer"
     \/ Kind(r) = "note" /\ NoteDeliverable(r)
  /\ sending' = r /\ arrived' = FALSE
  /\ UNCHANGED <<table, row, worker, batch, life, posted, faults>>

\* A state reply that is no longer true is dropped instead.
DropStale(r) ==
  /\ Idle /\ row[r] = "pending" /\ Kind(r) \in StatusKinds /\ ~Current(r)
  /\ row' = [row EXCEPT ![r] = "superseded"]
  /\ UNCHANGED <<table, worker, main, life, posted, faults>>

\* pendingTerminalNotifications: the results are read once, and not looked at
\* again before each is sent.
ReadResults ==
  /\ Idle
  /\ batch' = {j \in Jobs : row[Result(j)] = "pending" /\ ResultDeliverable(j)} /\ batch' # {}
  /\ UNCHANGED <<table, row, worker, sending, arrived, life, posted, faults>>
SendResult(j) ==
  /\ pc # "down" /\ sending = None /\ j \in batch
  /\ sending' = Result(j) /\ arrived' = FALSE /\ batch' = batch \ {j}
  /\ UNCHANGED <<table, row, worker, life, posted, faults>>

Arrive ==
  /\ sending # None /\ ~arrived /\ arrived' = TRUE /\ posted' = posted \cup {sending}
  /\ UNCHANGED <<table, row, worker, batch, sending, life, faults>>

\* A row after its post was confirmed, or failed: nothing if it was superseded
\* meanwhile.
Marked(r, state) == IF Unsaid(r) THEN [row EXCEPT ![r] = state] ELSE row

\* The files of a result follow its text.
Undeliverable(r) == Kind(r) = "result" /\ Job(r) \in Broken

Confirm ==
  /\ sending # None /\ arrived /\ ~Undeliverable(sending)
  /\ row' = Marked(sending, "delivered") /\ sending' = None /\ arrived' = FALSE
  /\ UNCHANGED <<table, worker, batch, life, posted, faults>>
Fails ==
  /\ sending # None
  /\ \/ faults < MaxFaults /\ faults' = faults + 1
     \/ arrived /\ Undeliverable(sending) /\ faults' = faults
  /\ row' = Marked(sending, "deferred") /\ sending' = None /\ arrived' = FALSE
  /\ UNCHANGED <<table, worker, batch, life, posted>>

\* The lifecycle lane: a barrier is settled on the spot, a report is posted.
PassBarrier ==
  /\ open /\ lifeSending = None
  /\ \E r \in Rows : /\ Kind(r) = "started" /\ LifecycleDeliverable(r)
                     /\ row' = [row EXCEPT ![r] = "delivered"]
  /\ UNCHANGED <<table, worker, main, life, posted, faults>>
Report ==
  /\ open /\ lifeSending = None
  /\ \E r \in Rows : Kind(r) = "progress" /\ LifecycleDeliverable(r) /\ lifeSending' = r
  /\ lifeArrived' = FALSE
  /\ UNCHANGED <<table, row, worker, main, open, posted, faults>>
ReportArrives ==
  /\ lifeSending # None /\ ~lifeArrived /\ lifeArrived' = TRUE
  /\ posted' = posted \cup {lifeSending}
  /\ UNCHANGED <<table, row, worker, main, open, lifeSending, faults>>
ReportSettles ==
  /\ lifeSending # None
  /\ \/ lifeArrived /\ row' = Marked(lifeSending, "delivered") /\ faults' = faults
     \/ faults < MaxFaults /\ row' = Marked(lifeSending, "deferred") /\ faults' = faults + 1
  /\ lifeSending' = None /\ lifeArrived' = FALSE
  /\ UNCHANGED <<table, worker, main, open, posted>>

-----------------------------------------------------------------------------
Gateway == \E j \in Jobs : Enqueue(j) \/ Unblock(j) \/ Interrupt(j)
Worker ==
  \/ Claim \/ ClaimAfterWait \/ ReleaseAtClaim \/ CancelAtClaim \/ Activate \/ Begin \/ NotBegun
  \/ Say \/ Return \/ CloseLane \/ GiveBack \/ Quieten \/ Finish \/ Crash \/ Boot
Lanes ==
  \/ \E r \in Rows : Due(r) \/ Send(r) \/ DropStale(r)
  \/ \E j \in Jobs : SendResult(j)
  \/ ReadResults \/ Arrive \/ Confirm \/ Fails
  \/ PassBarrier \/ Report \/ ReportArrives \/ ReportSettles

Next == Gateway \/ Worker \/ Lanes
Spec == Init /\ [][Next]_vars

\* A pass of the main lane tries every row that is due, one after the other,
\* and passes repeat every second; every post ends by its deadline; the
\* service manager restarts the daemon.
Serve(r) == Due(r) \/ Send(r) \/ DropStale(r)
ServeResult(j) == Due(Result(j)) \/ (ReadResults /\ j \in batch') \/ SendResult(j)
Serves == (\E r \in Rows : Kind(r) \in Kinds /\ Serve(r)) \/ \E j \in Jobs \ Broken : ServeResult(j)
Answers == Arrive \/ Confirm \/ (arrived /\ Fails)
GoesOn == Boot \/ \E j \in Broken : ServeResult(j)
Fairness == WF_vars(GoesOn) /\ WF_vars(Answers) /\ SF_vars(Serves)
FairSpec == Spec /\ Fairness

-----------------------------------------------------------------------------
(* Properties *)

Told(r) == r \in posted' \ posted

\* A result is the last thing a thread hears of a job: no commentary, state
\* reply, answer or progress report of it arrives afterwards, whatever was in
\* flight or deferred when the job ended, and across crashes.
NotAfterResult == \A r \in Rows : Told(r) /\ Kind(r) # "result" => Result(Job(r)) \notin posted
ResultIsLast == [][NotAfterResult]_vars

\* When a result arrives, all that its job had to say has arrived, or was
\* withdrawn: the lane does not look at a result again before it sends it.
AllWasSaid ==
  \A j \in Jobs : Told(Result(j)) =>
    \A r \in Rows : Job(r) = j /\ Kind(r) \notin {"started", "result"}
                      => row[r] \in {"absent", "superseded"} \/ r \in posted
NothingUnsaid == [][AllWasSaid]_vars

\* Commentary reads in the order it was observed, across attempts, and after
\* the results of the thread's earlier jobs.
FollowsTheStory ==
  \A r \in Rows : Told(r) /\ Kind(r) = "note" =>
    /\ \A p \in Rows : EarlierNote(p, r) /\ row[p] # "absent" => p \in posted
    /\ \A i \in Jobs : i < Job(r) /\ Thread[i] = Thread[Job(r)] => Result(i) \in posted
StoryInOrder == [][FollowsTheStory]_vars

\* A progress report arrives while its attempt runs, never over a job that is
\* back in the queue or at its end: the lane is closed before the row changes.
AttemptRuns ==
  \A r \in Rows : Told(r) /\ Kind(r) = "progress" =>
    status[Job(r)] = "running" /\ attempt[Job(r)] = r[3]
ReportIsLive == [][AttemptRuns]_vars

\* The notice that a turn waits for capacity arrives before the attempt is given
\* back, so that it never speaks of a job that is waiting in the queue again.
TurnStands ==
  \A r \in Rows : Told(r) /\ Kind(r) = "waiting" =>
    attempt[Job(r)] = r[3] /\ status[Job(r)] # "queued"
TurnNoticeIsLive == [][TurnStands]_vars

\* What a thread reads of a job is whole and in order: the result last, nothing unsaid,
\* the commentary as it was observed; and the tables keep their types.
ThreadReadsWell == []TypeOK /\ ResultIsLast /\ NothingUnsaid /\ StoryInOrder

\* What is said of an attempt is said while it runs.
NoticesAreLive == ReportIsLive /\ TurnNoticeIsLive

\* That work begins is said only to who was told to wait: the wait notice can be
\* overtaken by the claim, be retired by it, or get lost with the daemon.
WaitWasTold == \A j \in Jobs : Told(Begun(j)) => Accepted(j) \in posted
StartFollowsWait == [][WaitWasTold]_vars

\* A result that is due is delivered, also when another result never can be.
\* (job-runner.ts:15209: "A permanently broken artifact or Slack policy must
\* not suppress every later terminal result.")
Quiet == \A j \in Jobs \ Broken : row[Result(j)] # "pending"
OtherResultsArrive == <>[]Quiet

\* A notice that the job waits does not arrive once the job has been claimed.
\* (job-runner.ts:15401: a notice that has left is waited for before the claim.)
WaitNoticeIsCurrent ==
  [][\A r \in Rows : Told(r) /\ Kind(r) \in {"accepted", "deferred"} /\ pc # "down" =>
       status[Job(r)] = "queued"]_vars

=============================================================================
