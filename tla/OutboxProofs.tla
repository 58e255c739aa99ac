---------------------------- MODULE OutboxProofs ----------------------------
(***************************************************************************)
(* Proofs about Outbox for every number of jobs, every assignment of       *)
(* threads, every choice of rows that are staged and every bound.          *)
(*                                                                         *)
(* The eligibility predicates of the queries are read once, before a row   *)
(* leaves; what a thread sees happens later.  The inductive invariant says *)
(* what of those predicates still holds while a post is on its way: of the *)
(* worker (WorkerInv), of the jobs table (JobsInv), of the rows (RowsInv)  *)
(* and of the posts in flight (PostInv).                                   *)
(***************************************************************************)
EXTENDS Outbox, FiniteSetTheorems, WellFoundedInduction, TLAPS

-----------------------------------------------------------------------------
(* The rows *)

RowKinds == StatusKinds \cup LifecycleKinds \cup {"answer", "note", "result"}

\* What a row is: its kind and its job, and the attempt and the place of the
\* kinds that have one.
LEMMA RowParts ==
  ASSUME NEW r \in Rows
  PROVE  /\ Kind(r) \in RowKinds /\ Job(r) \in Jobs
         /\ r[3] \in Nat /\ r[4] \in Nat
         /\ Kind(r) = "accepted" => r = Accepted(Job(r))
         /\ Kind(r) = "begun" => r = Begun(Job(r))
         /\ Kind(r) = "result" => r = Result(Job(r))
         /\ Kind(r) = "started" => r = Started(Job(r), r[3])
         /\ Kind(r) = "note" => r[3] \in Attempts
<1> USE OutboxAssumption
<1> USE DEF Kind, Job, RowKinds, StatusKinds, LifecycleKinds, Accepted, Begun, Stopping, Answer,
            Result, Note, Started, Attempts
<1>1. CASE \E j \in Jobs : r \in {Accepted(j), Begun(j), Stopping(j), Answer(j), Result(j)}
  BY <1>1
<1>2. CASE r \in {"deferred", "waiting", "started", "progress"} \X Jobs \X Attempts \X {0}
  BY <1>2
<1>3. CASE \E j \in Jobs, a \in Attempts, n \in 1..MaxNotes : r = Note(j, a, n)
  BY <1>3
<1> QED BY <1>1, <1>2, <1>3 DEF Rows

\* The rows that the program names.
LEMMA RowNames ==
  ASSUME NEW j \in Jobs
  PROVE  /\ Accepted(j) \in Rows /\ Kind(Accepted(j)) = "accepted" /\ Job(Accepted(j)) = j
         /\ Begun(j) \in Rows /\ Kind(Begun(j)) = "begun" /\ Job(Begun(j)) = j
         /\ Stopping(j) \in Rows /\ Kind(Stopping(j)) = "stopping" /\ Job(Stopping(j)) = j
         /\ Answer(j) \in Rows /\ Kind(Answer(j)) = "answer" /\ Job(Answer(j)) = j
         /\ Result(j) \in Rows /\ Kind(Result(j)) = "result" /\ Job(Result(j)) = j
         /\ \A a \in Attempts :
              /\ Deferred(j, a) \in Rows /\ Kind(Deferred(j, a)) = "deferred"
              /\ Job(Deferred(j, a)) = j
              /\ Waiting(j, a) \in Rows /\ Kind(Waiting(j, a)) = "waiting" /\ Job(Waiting(j, a)) = j
              /\ Started(j, a) \in Rows /\ Kind(Started(j, a)) = "started" /\ Job(Started(j, a)) = j
              /\ Progress(j, a) \in Rows /\ Kind(Progress(j, a)) = "progress"
              /\ Job(Progress(j, a)) = j
              /\ \A n \in 1..MaxNotes :
                   /\ Note(j, a, n) \in Rows /\ Kind(Note(j, a, n)) = "note"
                   /\ Job(Note(j, a, n)) = j /\ Note(j, a, n)[3] = a
<1>1. ASSUME NEW a \in Attempts, NEW k \in {"deferred", "waiting", "started", "progress"}
      PROVE  <<k, j, a, 0>> \in Rows
  <2>1. <<k, j, a, 0>> \in {"deferred", "waiting", "started", "progress"} \X Jobs \X Attempts \X {0}
    OBVIOUS
  <2> QED BY <2>1 DEF Rows
<1> USE DEF Kind, Job, Accepted, Begun, Stopping, Answer, Result, Deferred, Waiting, Started,
           Progress, Note
<1>2. /\ Accepted(j) \in Rows /\ Begun(j) \in Rows /\ Stopping(j) \in Rows
      /\ Answer(j) \in Rows /\ Result(j) \in Rows
  BY DEF Rows
<1>3. ASSUME NEW a \in Attempts, NEW n \in 1..MaxNotes PROVE Note(j, a, n) \in Rows
  BY DEF Rows
<1>4. ASSUME NEW a \in Attempts
      PROVE  /\ Deferred(j, a) \in Rows /\ Waiting(j, a) \in Rows
             /\ Started(j, a) \in Rows /\ Progress(j, a) \in Rows
  BY <1>1
<1> QED BY <1>2, <1>3, <1>4

\* The first of some jobs is one of them.
LEMMA FirstIsOne == ASSUME NEW S \in SUBSET Jobs, S # {} PROVE First(S) \in S
<1> DEFINE Till(n) == 1..n
           T == {Till(n) : n \in S}
           R == StrictSubsetOrdering(Jobs)
<1>1. T \subseteq SUBSET Jobs /\ T # {}
  <2>1. \A n \in S : Till(n) \subseteq Jobs
    BY OutboxAssumption DEF Jobs
  <2>2. \A n \in S : Till(n) \in T
    OBVIOUS
  <2> QED BY <2>1, <2>2, Zenon
<1>2. IsFiniteSet(Jobs)
  BY FS_Interval, OutboxAssumption DEF Jobs
<1>3. IsWellFoundedOn(R, SUBSET Jobs)
  BY <1>2, FS_FiniteSubsetsOfFinite, FS_StrictSubsetOrderingWellFounded
<1>4. PICK t \in T : \A u \in T : <<u, t>> \notin R
  <2> HIDE DEF T, R
  <2> QED BY <1>1, <1>3, WFMin
<1>5. PICK m \in S : t = Till(m)
  OBVIOUS
<1>6. ASSUME NEW n \in S PROVE m <= n
  <2>1. <<Till(n), Till(m)>> \notin R
    BY <1>4, <1>5
  <2>2. Till(n) \in SUBSET Jobs /\ Till(m) \in SUBSET Jobs
    BY OutboxAssumption DEF Jobs
  <2>3. ~(Till(n) \subseteq Till(m)) \/ Till(n) = Till(m)
    BY <2>1, <2>2 DEF StrictSubsetOrdering
  <2>4. n \in Nat \ {0} /\ m \in Nat \ {0}
    BY OutboxAssumption DEF Jobs
  <2> QED BY <2>3, <2>4
<1> QED BY <1>6 DEF First

-----------------------------------------------------------------------------
(* The inductive invariant *)

Busy == {"claimed", "activated", "running", "closing", "closed", "quiet"}
Executed == {"running", "closing", "closed", "quiet"}
Ending == {"closing", "closed", "quiet"}

\* The worker has at most one job, the one that is running; its lanes are
\* empty while the daemon is down, and the lifecycle lane is open only between
\* the activation and the end of the job.
WorkerInv ==
  /\ pc \in Busy => mine \in Jobs /\ status[mine] = "running"
  /\ \A j \in Jobs : status[j] = "running" => pc = "down" \/ (pc \in Busy /\ j = mine)
  /\ \A i, j \in Jobs : status[i] = "running" /\ status[j] = "running" => i = j
  /\ pc = "down" => sending = None /\ lifeSending = None /\ batch = {} /\ ~open
  /\ open => pc \in {"activated", "running", "closing"}
  /\ \A j \in Jobs : active[j] => status[j] = "running" /\ pc \in Executed \cup {"down"}
  /\ pc \in Ending /\ verdict = "release" => ~active[mine]
  /\ pc \in Ending /\ verdict \in {"limit", "retry"} => attempt[mine] < MaxAttempts

\* A job that was claimed once stands behind settled jobs of its thread only.
JobsInv ==
  /\ \A j \in Jobs : status[j] \in {"absent", "queued"} => attempt[j] < MaxAttempts
  /\ \A j \in Jobs : status[j] = "running" => attempt[j] > 0 /\ epoch[j]
  /\ \A i, j \in Jobs : status[j] # "absent" /\ i < j => status[i] # "absent"
  /\ \A i, j \in Jobs : epoch[j] /\ i < j /\ Thread[i] = Thread[j] => status[i] = "settled"

\* The commentary of the claim that the worker may still give back: none yet.
Untouched == pc \in {"claimed", "activated"} \/ (pc \in Ending /\ verdict = "release")

\* A job has its result exactly when it is settled; commentary and results are
\* never withdrawn, commentary has no gaps, and what counts as delivered was posted.
RowsInv ==
  /\ \A j \in Jobs : row[Result(j)] # "absent" <=> status[j] = "settled"
  /\ \A r \in Rows : Kind(r) \in {"note", "result"} => row[r] # "superseded"
  /\ \A r \in Rows : Kind(r) = "note" /\ row[r] # "absent" =>
       epoch[Job(r)] /\ r[3] <= attempt[Job(r)]
  /\ \A p, r \in Rows : Kind(r) = "note" /\ EarlierNote(p, r) /\ p[3] = r[3] /\ row[r] # "absent"
       => row[p] # "absent"
  /\ Untouched => \A r \in Rows : Kind(r) = "note" /\ Job(r) = mine /\ row[r] # "absent"
       => r[3] < attempt[mine]
  /\ \A r \in Rows : status[Job(r)] = "settled" /\ Kind(r) \in LifecycleKinds => ~Unsaid(r)
  /\ \A r \in Rows : row[r] = "delivered" /\ Kind(r) # "started" => r \in posted
  /\ \A j \in Jobs : row[Begun(j)] # "absent" => Accepted(j) \in posted

\* Results that were read, are on their way or were posted.
Passed(j) == Result(j) \in posted \/ (sending # None /\ sending = Result(j)) \/ j \in batch

\* What was checked before a post left still holds while it is on its way.
PostInv ==
  /\ \A j \in Jobs : Passed(j) => status[j] = "settled" /\ ResultDeliverable(j)
  /\ sending # None => /\ row[sending] # "absent" /\ (arrived => sending \in posted)
                       /\ Kind(sending) # "progress"
  /\ sending # None /\ Kind(sending) # "result" => Result(Job(sending)) \notin posted
  /\ sending # None /\ Kind(sending) = "waiting" =>
       /\ attempt[Job(sending)] = sending[3]
       /\ status[Job(sending)] = "settled"
            \/ (status[Job(sending)] = "running" /\ pc \in Executed)
  /\ sending # None /\ Kind(sending) = "note" =>
       /\ \A p \in Rows : EarlierNote(p, sending) /\ row[p] # "absent" => p \in posted
       /\ \A i \in Jobs : i < Job(sending) /\ Thread[i] = Thread[Job(sending)] => Result(i) \in posted
  /\ lifeSending # None =>
       /\ Kind(lifeSending) = "progress" /\ pc \in {"activated", "running", "closing"}
       /\ status[Job(lifeSending)] = "running" /\ attempt[Job(lifeSending)] = lifeSending[3]
       /\ lifeArrived => lifeSending \in posted

Inv == TypeOK /\ WorkerInv /\ JobsInv /\ RowsInv /\ PostInv

-----------------------------------------------------------------------------
(* Types *)

RowStates == {"absent", "pending", "deferred", "delivered", "superseded"}

\* A row is inserted once.
LEMMA WithRow ==
  ASSUME NEW rs \in [Rows -> RowStates], NEW r \in Rows
  PROVE  /\ With(rs, r) \in [Rows -> RowStates]
         /\ \A q \in Rows :
              With(rs, r)[q] = IF q = r /\ rs[r] = "absent" THEN "pending" ELSE rs[q]
BY DEF With, RowStates

\* Rows are withdrawn while they are open.
LEMMA WithoutRow ==
  ASSUME row \in [Rows -> RowStates], NEW j, NEW kinds
  PROVE  /\ Without(j, kinds) \in [Rows -> RowStates]
         /\ \A q \in Rows : Without(j, kinds)[q] =
              IF Job(q) = j /\ Kind(q) \in kinds /\ Unsaid(q) THEN "superseded" ELSE row[q]
BY DEF Without, RowStates

\* The barrier is superseded while it is open.
LEMMA OvertakenRow ==
  ASSUME row \in [Rows -> RowStates], NEW j, NEW a
  PROVE  /\ Overtaken(j, a) \in [Rows -> RowStates]
         /\ \A q \in Rows : Overtaken(j, a)[q] =
              IF q = Started(j, a) /\ Unsaid(q) THEN "superseded" ELSE row[q]
BY DEF Overtaken, RowStates

\* What a post came to is marked on its row while that is open.
LEMMA MarkedRow ==
  ASSUME row \in [Rows -> RowStates], NEW r \in Rows, NEW state \in RowStates
  PROVE  /\ Marked(r, state) \in [Rows -> RowStates]
         /\ \A q \in Rows : Marked(r, state)[q] = IF q = r /\ Unsaid(r) THEN state ELSE row[q]
BY DEF Marked

LEMMA TypedRow == TypeOK => row \in [Rows -> RowStates]
BY DEF TypeOK, RowStates

\* The first state is well typed.
LEMMA InitTypeOK == Init => TypeOK
<1> SUFFICES ASSUME Init PROVE TypeOK
    OBVIOUS
<1>1. 0 \in 0 .. MaxFaults /\ 0 \in 0 .. MaxAttempts
  BY OutboxAssumption
<1> QED BY <1>1 DEF Init, TypeOK

\* What a step of the gateway, of a lane or of the worker does to the rows
\* leaves them well typed.
LEMMA GatewayTyped ==
  ASSUME TypeOK, NEW j \in Jobs, Enqueue(j) \/ Unblock(j) \/ Interrupt(j)
  PROVE  TypeOK'
<1>1. row' \in [Rows -> RowStates]
  <2>1. CASE Enqueue(j)
    BY <2>1, TypedRow, WithRow, RowNames DEF Enqueue
  <2>2. CASE Unblock(j)
    BY <2>2, TypedRow DEF Unblock
  <2>3. CASE Interrupt(j)
    <3>1. Without(j, {"progress"}) \in [Rows -> RowStates]
      BY TypedRow, WithoutRow
    <3> QED BY <2>3, <3>1, WithRow, RowNames DEF Interrupt
  <2> QED BY <2>1, <2>2, <2>3
<1>2. CASE Enqueue(j)
  BY <1>1, <1>2 DEF Enqueue, TypeOK, RowStates, worker, main, life
<1>3. CASE Unblock(j)
  BY <1>1, <1>3 DEF Unblock, TypeOK, RowStates, worker, main, life
<1>4. CASE Interrupt(j)
  BY <1>1, <1>4 DEF Interrupt, TypeOK, RowStates, worker, main, life
<1> QED BY <1>2, <1>3, <1>4

\* A claim is of a job that is ready, by a worker that has none.
Claimed(j) ==
  /\ pc \in {"loop", "head"} /\ Ready(j)
  /\ status' = [status EXCEPT ![j] = "running"] /\ blocked' = [blocked EXCEPT ![j] = "no"]
  /\ attempt' = [attempt EXCEPT ![j] = @ + 1] /\ epoch' = [epoch EXCEPT ![j] = TRUE]
  /\ row' = Without(j, {"accepted"} \cup RateLimited)
  /\ mine' = j /\ head' = None /\ pc' = "claimed"
  /\ UNCHANGED <<cancel, active>>
NotClaimed ==
  /\ pc \in {"loop", "head"} /\ pc' \in {"loop", "head"} /\ head' \in Jobs \cup {None}
  /\ UNCHANGED <<table, row, mine>>

LEMMA ClaimSteps ==
  ASSUME Claim \/ ClaimAfterWait
  PROVE  /\ NotClaimed \/ \E j \in Jobs : Claimed(j)
         /\ UNCHANGED <<verdict, main, life, posted, faults>>
<1>1. Claimable # {} => First(Claimable) \in Jobs /\ Ready(First(Claimable))
  BY FirstIsOne DEF Claimable
<1>2. ASSUME pc \in {"loop", "head"}, Claimable # {}, ClaimFirst
      PROVE  \E j \in Jobs : Claimed(j)
  BY <1>1, <1>2 DEF ClaimFirst, Claimed
<1>3. CASE Claim
  BY <1>1, <1>2, <1>3 DEF Claim, NotClaimed
<1>4. CASE ClaimAfterWait
  BY <1>2, <1>4 DEF ClaimAfterWait, NotClaimed
<1> QED BY <1>3, <1>4

\* How the worker lets go of a job: with a result, to be tried again, or as if
\* it had not been claimed.
Settled(j) ==
  \E kinds \in {{}, {"answer"}} : Settle(j, Without(j, LifecycleKinds \cup RateLimited \cup kinds))
Requeued(j) == RequeueAt(j) \/ Retry(j)

LEMMA EndIsSettled ==
  ASSUME NEW j \in Jobs, Complete(j) \/ Fail(j) \/ Cancel(j)
  PROVE  Settled(j)
<1>1. Retired(j) = Without(j, LifecycleKinds \cup RateLimited \cup {})
  BY DEF Retired, Without
<1> QED BY <1>1 DEF Complete, Fail, Cancel, Settled

\* So do the worker's claims.
LEMMA ClaimTyped ==
  ASSUME TypeOK, JobsInv, Claim \/ ClaimAfterWait
  PROVE  TypeOK'
<1>1. ASSUME NEW j \in Jobs, Claimed(j), UNCHANGED <<verdict, main, life, posted, faults>>
      PROVE  TypeOK'
  <2>1. row' \in [Rows -> RowStates]
    BY <1>1, TypedRow, WithoutRow DEF Claimed
  <2>2. attempt[j] + 1 \in 0 .. MaxAttempts
    BY <1>1, OutboxAssumption DEF Claimed, Ready, JobsInv, TypeOK
  <2> QED BY <1>1, <2>1, <2>2 DEF Claimed, TypeOK, RowStates, main, life
<1>2. ASSUME NotClaimed, UNCHANGED <<verdict, main, life, posted, faults>>
      PROVE  TypeOK'
  BY <1>2 DEF NotClaimed, TypeOK, table, main, life
<1> QED BY <1>1, <1>2, ClaimSteps

\* So does letting go of a job.
LEMMA LetGoTyped ==
  ASSUME TypeOK, JobsInv, NEW j \in Jobs, status[j] = "running",
         Settled(j) \/ Requeued(j) \/ Release(j)
  PROVE  /\ row' \in [Rows -> RowStates]
         /\ status' \in [Jobs -> {"absent", "queued", "running", "settled"}]
         /\ cancel' \in [Jobs -> BOOLEAN] /\ epoch' \in [Jobs -> BOOLEAN]
         /\ active' \in [Jobs -> BOOLEAN]
         /\ blocked' \in [Jobs -> {"no", "inbound", "timer"}]
         /\ attempt' \in [Jobs -> 0..MaxAttempts]
<1>1. attempt[j] \in Attempts /\ attempt[j] - 1 \in 0 .. MaxAttempts
  BY OutboxAssumption DEF TypeOK, JobsInv, Attempts
<1>2. CASE Settled(j)
  <2>1. PICK kinds : Settle(j, Without(j, kinds))
    BY <1>2 DEF Settled
  <2>2. Without(j, kinds) \in [Rows -> RowStates]
    BY TypedRow, WithoutRow
  <2>3. row' \in [Rows -> RowStates]
    BY <2>1, <2>2, WithRow, RowNames DEF Settle
  <2> QED BY <2>1, <2>3 DEF Settle, TypeOK
<1>3. CASE Requeued(j)
  <2>1. Retired(j) \in [Rows -> RowStates]
    BY TypedRow, WithoutRow DEF Retired
  <2>2. With(Retired(j), Deferred(j, attempt[j])) \in [Rows -> RowStates]
    BY <1>1, <2>1, WithRow, RowNames
  <2> QED BY <1>3, <2>1, <2>2 DEF Requeued, RequeueAt, Retry, Requeue, TypeOK
<1>4. CASE Release(j)
  <2>1. row' \in [Rows -> RowStates]
    BY <1>4, TypedRow DEF Release, RowStates
  <2> QED BY <1>1, <1>4, <2>1 DEF Release, TypeOK
<1> QED BY <1>2, <1>3, <1>4

\* No wait notice of the job is on its way.
NoWait(j) == sending # None /\ Job(sending) = j => Kind(sending) # "waiting"

\* How a step of the worker ends with its job let go of.
LetGo(j) ==
  /\ status[j] = "running" /\ pc \in {"claimed", "closed", "quiet", "down"}
  /\ \/ Settled(j)
     \/ Requeued(j) /\ attempt[j] < MaxAttempts /\ NoWait(j)
     \/ Release(j) /\ ~active[j] /\ NoWait(j) /\ Untouched /\ j = mine
  /\ pc' = "loop" /\ verdict' \in {"none", verdict} /\ UNCHANGED <<head, main, life, posted>>
  /\ faults' \in {faults, faults + 1} /\ faults' \in 0 .. MaxFaults

LEMMA LetGoSteps ==
  ASSUME Inv, ReleaseAtClaim \/ CancelAtClaim \/ GiveBack \/ (Finish /\ pc' # "closing")
  PROVE  mine \in Jobs /\ LetGo(mine) /\ mine' = None
<1> USE DEF LetGo, Loop, NoWait
<1>1. mine \in Jobs /\ status[mine] = "running"
  BY DEF Inv, WorkerInv, Busy, ReleaseAtClaim, CancelAtClaim, GiveBack, Finish
<1>2. faults \in 0 .. MaxFaults /\ (faults < MaxFaults => faults + 1 \in 0 .. MaxFaults)
  BY OutboxAssumption DEF Inv, TypeOK
<1>3. CASE ReleaseAtClaim
  <2>1. ~active[mine] /\ NoWait(mine)
    BY <1>1, <1>3 DEF ReleaseAtClaim, Inv, WorkerInv, PostInv, Executed
  <2> QED BY <1>1, <1>2, <1>3, <2>1 DEF ReleaseAtClaim, Untouched
<1>4. CASE CancelAtClaim
  BY <1>1, <1>2, <1>4, EndIsSettled DEF CancelAtClaim
<1>5. CASE GiveBack
  <2>1. NoWait(mine)
    BY <1>5 DEF GiveBack, StatusSettled, StatusKinds
  <2>2. verdict \in {"limit", "retry"} => attempt[mine] < MaxAttempts
    BY <1>5 DEF GiveBack, Inv, WorkerInv, Ending
  <2>3. verdict = "release" => ~active[mine] /\ Untouched
    BY <1>5 DEF GiveBack, Inv, WorkerInv, Ending, Untouched
  <2> QED BY <1>1, <1>2, <1>5, <2>1, <2>2, <2>3 DEF GiveBack, Requeued
<1>6. CASE Finish /\ pc' # "closing"
  BY <1>1, <1>2, <1>6, EndIsSettled DEF Finish
<1> QED BY <1>3, <1>4, <1>5, <1>6

LEMMA BootSteps ==
  ASSUME Inv, Boot
  PROVE  \/ /\ \A j \in Jobs : status[j] # "running"
            /\ UNCHANGED <<table, row>>
         \/ \E j \in Jobs : LetGo(j)
<1>1. faults \in 0 .. MaxFaults /\ sending = None
  BY DEF Inv, TypeOK, WorkerInv, Boot
<1> QED BY <1>1, EndIsSettled DEF Boot, LetGo, Requeued, NoWait

LEMMA LetGoTypeOK ==
  ASSUME Inv, NEW j \in Jobs, LetGo(j), mine' \in {mine, None}
  PROVE  TypeOK'
<1>1. status[j] = "running" /\ (Settled(j) \/ Requeued(j) \/ Release(j))
  BY DEF LetGo
<1> HIDE DEF LetGo
<1> QED BY <1>1, LetGoTyped DEF Inv, LetGo, TypeOK, RowStates, main, life

\* So do the other steps of the worker.
LEMMA WorkerTyped ==
  ASSUME Inv, Worker
  PROVE  TypeOK'
<1> USE DEF Inv
<1> USE OutboxAssumption
<1>1. CASE Claim \/ ClaimAfterWait
  BY <1>1, ClaimTyped
<1>2. CASE ReleaseAtClaim \/ CancelAtClaim \/ GiveBack \/ (Finish /\ pc' # "closing")
  BY <1>2, LetGoSteps, LetGoTypeOK
<1>3. CASE Activate
  BY <1>3 DEF Activate, TypeOK, table, main
<1>4. CASE Begin
  <2>1. row' \in [Rows -> RowStates]
    BY <1>4, TypedRow, WithRow, RowNames DEF Begin, WorkerInv, Busy
  <2> QED BY <1>4, <2>1, ZenonT(60) DEF Begin, TypeOK, RowStates, main, life
<1>5. CASE NotBegun
  BY <1>5 DEF NotBegun, TypeOK, table, main, life
<1>6. CASE Say
  <2>1. mine \in Jobs /\ status[mine] = "running" /\ attempt[mine] \in Attempts
    BY <1>6 DEF Say, WorkerInv, JobsInv, Busy, TypeOK, Attempts
  <2>2. \E r \in Rows : row' = With(row, r) \/ row' = With(Overtaken(mine, attempt[mine]), r)
    BY <1>6, <2>1, RowNames DEF Say
  <2>3. row' \in [Rows -> RowStates]
    BY <2>2, TypedRow, OvertakenRow, WithRow
  <2> QED BY <1>6, <2>3 DEF Say, TypeOK, RowStates, table, worker, main, life
<1>7. CASE Return
  BY <1>7, ZenonT(60) DEF Return, TypeOK, main, life
<1>8. CASE CloseLane
  BY <1>8 DEF CloseLane, TypeOK, table, main
<1>9. CASE Quieten
  BY <1>9 DEF Quieten, TypeOK, table, main, life
<1>10. CASE Finish /\ pc' = "closing"
  BY <1>10 DEF Finish, Loop, TypeOK, table, main, life
<1>11. CASE Crash
  <2>1. posted' \subseteq Rows
    <3>1. PICK sent : /\ sent \subseteq ({sending} \ {None}) \cup ({lifeSending} \ {None})
                      /\ posted' = posted \cup sent
      BY <1>11 DEF Crash
    <3> QED BY <3>1 DEF TypeOK
  <2>2. /\ UNCHANGED <<table, row>> /\ faults' \in 0 .. MaxFaults
        /\ pc' = "down" /\ head' = None /\ mine' = None /\ verdict' = "none"
        /\ batch' = {} /\ sending' = None /\ lifeSending' = None
        /\ arrived' = FALSE /\ lifeArrived' = FALSE /\ open' = FALSE
    BY <1>11 DEF Crash, TypeOK
  <2> QED BY <2>1, <2>2 DEF TypeOK, table
<1>12. CASE Boot
  <2>1. CASE UNCHANGED <<table, row>>
    BY <1>12, <2>1 DEF Boot, TypeOK, table, main, life
  <2>2. CASE \E j \in Jobs : LetGo(j)
    BY <1>12, <2>2, LetGoTypeOK DEF Boot
  <2> QED BY <1>12, <2>1, <2>2, BootSteps
<1> QED BY <1>1, <1>2, <1>3, <1>4, <1>5, <1>6, <1>7, <1>8, <1>9, <1>10, <1>11, <1>12 DEF Worker

\* So do the lanes.
LEMMA LanesTyped ==
  ASSUME TypeOK, Lanes
  PROVE  TypeOK'
<1> USE OutboxAssumption
<1>1. ASSUME NEW r \in Rows, Due(r) \/ Send(r) \/ DropStale(r) PROVE TypeOK'
  <2>1. CASE Due(r)
    BY <2>1 DEF Due, TypeOK, table, worker, main, life
  <2>2. CASE Send(r)
    BY <2>2, ZenonT(60) DEF Send, TypeOK, table, worker, life
  <2>3. CASE DropStale(r)
    BY <2>3 DEF DropStale, TypeOK, table, worker, main, life
  <2> QED BY <1>1, <2>1, <2>2, <2>3
<1>2. ASSUME NEW j \in Jobs, SendResult(j) PROVE TypeOK'
  <2>1. Result(j) \in Rows
    BY RowNames
  <2>2. /\ sending' = Result(j) /\ arrived' = FALSE /\ batch' = batch \ {j}
        /\ UNCHANGED <<table, row, worker, life, posted, faults>>
    BY <1>2 DEF SendResult
  <2> QED BY <2>1, <2>2, ZenonT(60) DEF TypeOK, table, worker, life
<1>3. CASE ReadResults
  BY <1>3 DEF ReadResults, TypeOK, table, worker, life
<1>4. CASE Arrive
  BY <1>4 DEF Arrive, TypeOK, table, worker, life
<1>5. CASE Confirm \/ Fails
  <2>1. sending \in Rows
    BY <1>5 DEF Confirm, Fails, TypeOK
  <2>2. row' \in [Rows -> RowStates]
    BY <1>5, <2>1, TypedRow, MarkedRow DEF Confirm, Fails, RowStates
  <2>3. /\ UNCHANGED <<table, worker, batch, life, posted>> /\ faults' \in 0 .. MaxFaults
        /\ sending' = None /\ arrived' = FALSE
    BY <1>5 DEF Confirm, Fails, TypeOK
  <2> QED BY <2>2, <2>3, ZenonT(60) DEF TypeOK, RowStates, table, worker, life
<1>6. CASE PassBarrier
  BY <1>6 DEF PassBarrier, TypeOK, table, worker, main, life
<1>7. CASE Report
  BY <1>7, ZenonT(60) DEF Report, TypeOK, table, worker, main
<1>8. CASE ReportArrives
  BY <1>8 DEF ReportArrives, TypeOK, table, worker, main
<1>9. CASE ReportSettles
  <2>1. lifeSending \in Rows
    BY <1>9 DEF ReportSettles, TypeOK
  <2>2. row' \in [Rows -> RowStates]
    BY <1>9, <2>1, TypedRow, MarkedRow DEF ReportSettles, RowStates
  <2>3. /\ UNCHANGED <<table, worker, main, open, posted>> /\ faults' \in 0 .. MaxFaults
        /\ lifeSending' = None /\ lifeArrived' = FALSE
    BY <1>9 DEF ReportSettles, TypeOK
  <2> QED BY <2>2, <2>3, ZenonT(60) DEF TypeOK, RowStates, table, worker, main
<1> QED BY <1>1, <1>2, <1>3, <1>4, <1>5, <1>6, <1>7, <1>8, <1>9 DEF Lanes

-----------------------------------------------------------------------------
(* The worker and the jobs table *)

\* What letting go of a job does to its row of the table, and to no other.
LEMMA LetGoMoves ==
  ASSUME Inv, NEW j \in Jobs, LetGo(j)
  PROVE  /\ \/ status' = [status EXCEPT ![j] = "settled"] /\ attempt' = attempt
            \/ /\ status' = [status EXCEPT ![j] = "queued"] /\ NoWait(j)
               /\ attempt'[j] < MaxAttempts
         /\ ~active'[j] /\ epoch' = epoch
         /\ \A i \in Jobs \ {j} : active'[i] = active[i] /\ attempt'[i] = attempt[i]
<1>1. attempt[j] \in 0 .. MaxAttempts /\ attempt[j] > 0 /\ active \in [Jobs -> BOOLEAN]
      /\ attempt \in [Jobs -> 0 .. MaxAttempts]
  BY DEF Inv, JobsInv, TypeOK, LetGo
<1>2. CASE Settled(j)
  BY <1>1, <1>2 DEF Settled, Settle
<1>3. CASE Requeued(j) /\ attempt[j] < MaxAttempts /\ NoWait(j)
  BY <1>1, <1>3 DEF Requeued, RequeueAt, Retry, Requeue
<1>4. CASE Release(j) /\ ~active[j] /\ NoWait(j)
  BY <1>1, <1>4, OutboxAssumption DEF Release
<1> QED BY <1>2, <1>3, <1>4 DEF LetGo

\* The worker's claims keep to what is known of it.
LEMMA WorkerInvKept ==
  ASSUME Inv, TypeOK', Next
  PROVE  WorkerInv'
<1> USE DEF Inv, WorkerInv, Busy, Executed, Ending
<1>1. ASSUME NEW j \in Jobs, Enqueue(j) \/ Unblock(j) \/ Interrupt(j) PROVE WorkerInv'
  BY <1>1 DEF Enqueue, Unblock, Interrupt, worker, main, life, TypeOK
<1>2. CASE Claim \/ ClaimAfterWait
  <2>1. UNCHANGED <<verdict, main, life>>
    BY <1>2, ClaimSteps
  <2>2. CASE NotClaimed
    BY <2>1, <2>2 DEF NotClaimed, table, main, life
  <2>3. ASSUME NEW j \in Jobs, Claimed(j) PROVE WorkerInv'
    BY <2>1, <2>3 DEF Claimed, Ready, main, life, TypeOK
  <2> QED BY <1>2, <2>2, <2>3, ClaimSteps
<1>3. ASSUME NEW j \in Jobs, LetGo(j) PROVE WorkerInv'
  BY <1>3, LetGoMoves DEF LetGo, main, life, TypeOK
<1>4. CASE ReleaseAtClaim \/ CancelAtClaim \/ GiveBack \/ (Finish /\ pc' # "closing")
  BY <1>3, <1>4, LetGoSteps
<1>5. CASE Activate
  BY <1>5 DEF Activate, table, main
<1>6. CASE Begin
  BY <1>6 DEF Begin, main, life, TypeOK
<1>7. CASE NotBegun
  BY <1>7 DEF NotBegun, table, main, life
<1>8. CASE Say
  BY <1>8 DEF Say, table, worker, main, life
<1>9. CASE Return
  BY <1>9 DEF Return, main, life, TypeOK
<1>10. CASE CloseLane
  BY <1>10 DEF CloseLane, table, main
<1>11. CASE Quieten
  BY <1>11 DEF Quieten, table, main, life
<1>12. CASE Finish /\ pc' = "closing"
  BY <1>12 DEF Finish, Loop, table, main, life
<1>13. CASE Crash
  BY <1>13 DEF Crash, table
<1>14. CASE Boot
  <2>1. CASE (\A j \in Jobs : status[j] # "running") /\ UNCHANGED <<table, row>>
    BY <1>14, <2>1 DEF Boot, table, main, life
  <2> QED BY <1>3, <1>14, <2>1, BootSteps
<1>15. CASE Lanes
  <2>1. UNCHANGED <<table, worker>>
    BY <1>15 DEF Lanes, Due, Send, DropStale, SendResult, ReadResults, Arrive, Confirm, Fails,
                 PassBarrier, Report, ReportArrives, ReportSettles, worker, table
  <2>2. open' = open /\ (pc = "down" => sending' = None /\ lifeSending' = None /\ batch' = {})
    BY <1>15 DEF Lanes, Due, Send, DropStale, SendResult, ReadResults, Arrive, Confirm, Fails, Idle,
                 PassBarrier, Report, ReportArrives, ReportSettles, worker, table, main, life
  <2> QED BY <2>1, <2>2 DEF table, worker
<1> QED BY <1>1, <1>2, <1>4, <1>5, <1>6, <1>7, <1>8, <1>9, <1>10, <1>11, <1>12, <1>13, <1>14, <1>15
        DEF Next, Gateway, Worker

\* So do the jobs: those before a claimed job of its thread have ended for good.
LEMMA JobsInvKept ==
  ASSUME Inv, TypeOK', Next
  PROVE  JobsInv'
<1>0. Jobs \subseteq Nat /\ MaxAttempts \in Nat \ {0}
  BY OutboxAssumption DEF Jobs
<1> USE <1>0
<1> USE DEF Inv, JobsInv
<1>1. ASSUME NEW j \in Jobs, Enqueue(j) PROVE JobsInv'
  BY <1>1 DEF Enqueue, TypeOK
<1>2. ASSUME NEW j \in Jobs, Claimed(j) PROVE JobsInv'
  <2>1. \A i \in Jobs : i < j /\ Thread[i] = Thread[j] => status[i] = "settled"
    BY <1>2 DEF Claimed, Ready, TypeOK
  <2> QED BY <1>2, <2>1 DEF Claimed, Ready, TypeOK
<1>3. ASSUME NEW j \in Jobs, LetGo(j) PROVE JobsInv'
  <2>1. status[j] = "running"
    BY <1>3 DEF LetGo
  <2>2. \A i \in Jobs \ {j} : status'[i] = status[i] /\ attempt'[i] = attempt[i]
    BY <1>3, LetGoMoves DEF TypeOK
  <2>3. status'[j] = "settled" \/ (status'[j] = "queued" /\ attempt'[j] < MaxAttempts)
    BY <1>3, LetGoMoves DEF TypeOK
  <2>4. epoch' = epoch
    BY <1>3, LetGoMoves
  <2> QED BY <2>1, <2>2, <2>3, <2>4
<1>4. CASE UNCHANGED <<status, attempt, epoch>>
  BY <1>4
<1>5. CASE Gateway
  BY <1>1, <1>4, <1>5 DEF Gateway, Unblock, Interrupt
<1>6. CASE Claim \/ ClaimAfterWait
  BY <1>2, <1>4, <1>6, ClaimSteps DEF NotClaimed, table
<1>7. CASE ReleaseAtClaim \/ CancelAtClaim \/ GiveBack \/ (Finish /\ pc' # "closing")
  BY <1>3, <1>7, LetGoSteps
<1>8. CASE Activate \/ Begin \/ NotBegun \/ Say \/ Return \/ CloseLane \/ Quieten \/ Crash
           \/ (Finish /\ pc' = "closing")
  BY <1>4, <1>8 DEF Activate, Begin, NotBegun, Say, Return, CloseLane, Quieten, Crash, Finish, Loop,
                    table
<1>9. CASE Boot
  BY <1>3, <1>4, <1>9, BootSteps DEF table
<1>10. CASE Lanes
  BY <1>4, <1>10 DEF Lanes, Due, Send, DropStale, SendResult, ReadResults, Arrive, Confirm, Fails,
                     PassBarrier, Report, ReportArrives, ReportSettles, table
<1> QED BY <1>5, <1>6, <1>7, <1>8, <1>9, <1>10 DEF Next, Worker

-----------------------------------------------------------------------------
(* The rows *)

\* A row is inserted for a job that has not ended, a result as it ends;
\* commentary in the order it is observed, a start only after its wait notice.
NewRow(r) ==
  /\ row[r] = "absent" /\ row'[r] = "pending" /\ status[Job(r)] # "settled"
  /\ Kind(r) = "result" <=> status'[Job(r)] = "settled"
  /\ Kind(r) = "note" =>
       /\ pc = "running" /\ UNCHANGED <<table, worker>> /\ Job(r) = mine /\ r[3] = attempt[mine]
       /\ \A p \in Rows : EarlierNote(p, r) /\ p[3] = r[3] => row[p] # "absent"
  /\ Kind(r) = "begun" => Accepted(Job(r)) \in posted

\* What a step does to a row.
RowStep(r) ==
  \/ row'[r] = row[r]
  \/ Unsaid(r) /\ row'[r] \in {"pending", "deferred"}
  \/ Unsaid(r) /\ row'[r] = "superseded" /\ Kind(r) \notin {"note", "result"}
  \/ Unsaid(r) /\ row'[r] = "delivered" /\ (Kind(r) = "started" \/ r \in posted)
  \/ NewRow(r)
  \/ /\ Kind(r) = "started" /\ row'[r] = "pending"
     /\ status[Job(r)] = "running" /\ status' = status

\* A job that ends gets its result, and what was open of its lifecycle is gone.
LEMMA SettledRows ==
  ASSUME Inv, NEW j \in Jobs, LetGo(j), Settled(j)
  PROVE  /\ status' = [status EXCEPT ![j] = "settled"] /\ row'[Result(j)] = "pending"
         /\ \A r \in Rows : RowStep(r)
         /\ \A r \in Rows : Job(r) = j /\ Kind(r) \in LifecycleKinds => ~Unsaid(r)'
<1>1. PICK kinds \in {{}, {"answer"}} :
        Settle(j, Without(j, LifecycleKinds \cup RateLimited \cup kinds))
  BY DEF Settled
<1> DEFINE K == LifecycleKinds \cup RateLimited \cup kinds
           W == Without(j, K)
<1>2. /\ W \in [Rows -> RowStates]
      /\ \A q \in Rows :
           W[q] = IF Job(q) = j /\ Kind(q) \in K /\ Unsaid(q) THEN "superseded" ELSE row[q]
  BY TypedRow, WithoutRow DEF Inv
<1>3. row' = With(W, Result(j)) /\ status' = [status EXCEPT ![j] = "settled"]
  BY <1>1 DEF Settle
<1>4. Result(j) \in Rows /\ Kind(Result(j)) = "result" /\ Job(Result(j)) = j
  BY RowNames
<1>5. "note" \notin K /\ "result" \notin K /\ LifecycleKinds \subseteq K
  BY DEF LifecycleKinds, RateLimited
<1> HIDE DEF W, K
<1>6. row[Result(j)] = "absent" /\ status[j] = "running"
  BY DEF Inv, RowsInv, LetGo
<1>7. W[Result(j)] = "absent"
  BY <1>2, <1>4, <1>5, <1>6
<1>8. \A q \in Rows : row'[q] = IF q = Result(j) THEN "pending" ELSE W[q]
  BY <1>2, <1>3, <1>4, <1>7, WithRow
<1>9. ASSUME NEW r \in Rows PROVE RowStep(r)
  <2>1. CASE r = Result(j)
    <3>1. status'[j] = "settled"
      BY <1>3 DEF Inv, TypeOK
    <3> QED BY <2>1, <3>1, <1>4, <1>6, <1>8 DEF RowStep, NewRow
  <2>2. CASE r # Result(j)
    BY <2>2, <1>2, <1>5, <1>8 DEF RowStep
  <2> QED BY <2>1, <2>2
<1>10. ASSUME NEW r \in Rows, Job(r) = j, Kind(r) \in LifecycleKinds PROVE ~Unsaid(r)'
  <2>1. r # Result(j)
    BY <1>4, <1>10 DEF LifecycleKinds
  <2> QED BY <2>1, <1>2, <1>5, <1>8, <1>10 DEF Unsaid
<1> QED BY <1>3, <1>4, <1>8, <1>9, <1>10

\* A job that goes back to the queue keeps its commentary and has no result.
LEMMA LetGoRows ==
  ASSUME Inv, NEW j \in Jobs, LetGo(j)
  PROVE  \A r \in Rows : RowStep(r)
<1>1. status[j] = "running" /\ attempt[j] \in Attempts
  BY OutboxAssumption DEF LetGo, Inv, JobsInv, TypeOK, Attempts
<1>2. CASE Settled(j)
  BY <1>2, SettledRows
<1>3. CASE Requeued(j)
  <2>1. /\ Retired(j) \in [Rows -> RowStates]
        /\ \A q \in Rows : Retired(j)[q] =
             IF Job(q) = j /\ Kind(q) \in LifecycleKinds \cup RateLimited /\ Unsaid(q)
               THEN "superseded" ELSE row[q]
    BY TypedRow, WithoutRow DEF Inv, Retired
  <2>2. /\ Deferred(j, attempt[j]) \in Rows /\ Job(Deferred(j, attempt[j])) = j
        /\ Kind(Deferred(j, attempt[j])) = "deferred"
    BY <1>1, RowNames
  <2>3. status'[j] = "queued"
    BY <1>3 DEF Requeued, RequeueAt, Retry, Requeue, Inv, TypeOK
  <2>4. CASE row' = Retired(j)
    BY <2>1, <2>4 DEF RowStep, LifecycleKinds, RateLimited
  <2>5. CASE row' = With(Retired(j), Deferred(j, attempt[j]))
    <3>1. \A q \in Rows : row'[q] = IF q = Deferred(j, attempt[j]) /\ Retired(j)[q] = "absent"
                                      THEN "pending" ELSE Retired(j)[q]
      BY <2>1, <2>2, <2>5, WithRow
    <3>2. ASSUME NEW r \in Rows, r = Deferred(j, attempt[j]), Retired(j)[r] = "absent"
          PROVE  NewRow(r)
      BY <3>1, <3>2, <1>1, <2>1, <2>2, <2>3 DEF NewRow
    <3> QED BY <3>1, <3>2, <2>1 DEF RowStep, LifecycleKinds, RateLimited
  <2> QED BY <1>3, <2>4, <2>5 DEF Requeued, RequeueAt, Retry
<1>4. CASE Release(j)
  BY <1>4 DEF Release, RowStep, LifecycleKinds
<1> QED BY <1>2, <1>3, <1>4 DEF LetGo

\* The inserted rows of the steps that are not a job's end.
LEMMA StagedRows ==
  ASSUME Inv, \/ \E j \in Jobs : Enqueue(j) \/ Interrupt(j)
              \/ Begin \/ Say
  PROVE  \A r \in Rows : RowStep(r)
<1> USE DEF RowStep, NewRow
<1>1. ASSUME NEW j \in Jobs, Enqueue(j) PROVE \A r \in Rows : RowStep(r)
  <2>1. status'[j] = "queued" /\ status[j] = "absent"
    BY <1>1 DEF Enqueue, Inv, TypeOK
  <2> QED BY <1>1, <2>1, TypedRow, WithRow, RowNames DEF Enqueue, Inv
<1>2. ASSUME NEW j \in Jobs, Interrupt(j) PROVE \A r \in Rows : RowStep(r)
  <2> DEFINE W == Without(j, {"progress"})
  <2>1. /\ W \in [Rows -> RowStates]
        /\ \A q \in Rows :
             W[q] = IF Job(q) = j /\ Kind(q) = "progress" /\ Unsaid(q) THEN "superseded" ELSE row[q]
    BY TypedRow, WithoutRow DEF Inv
  <2>2. row' = With(W, Stopping(j)) /\ status[j] \in {"queued", "running"} /\ status' = status
    BY <1>2 DEF Interrupt
  <2>3. Stopping(j) \in Rows /\ Kind(Stopping(j)) = "stopping" /\ Job(Stopping(j)) = j
    BY RowNames
  <2> HIDE DEF W
  <2>4. \A q \in Rows : row'[q] = IF q = Stopping(j) /\ W[q] = "absent" THEN "pending" ELSE W[q]
    BY <2>1, <2>2, <2>3, WithRow
  <2>5. ASSUME NEW r \in Rows, r = Stopping(j), W[r] = "absent" PROVE NewRow(r)
    BY <2>1, <2>2, <2>3, <2>4, <2>5
  <2> QED BY <2>1, <2>4, <2>5
<1>3. CASE Begin
  <2>1. mine \in Jobs /\ status[mine] = "running" /\ status' = status
    BY <1>3 DEF Begin, Inv, WorkerInv, Busy
  <2>2. Accepted(mine) \in Rows /\ Kind(Accepted(mine)) = "accepted"
    BY <2>1, RowNames
  <2>3. row[Accepted(mine)] = "delivered" => Accepted(mine) \in posted
    BY <2>2 DEF Inv, RowsInv
  <2>4. Begun(mine) \in Rows /\ Kind(Begun(mine)) = "begun" /\ Job(Begun(mine)) = mine
    BY <2>1, RowNames
  <2> QED BY <1>3, <2>1, <2>3, <2>4, TypedRow, WithRow DEF Begin, Inv
<1>4. CASE Say
  <2>1. mine \in Jobs /\ status[mine] = "running" /\ status' = status /\ UNCHANGED <<table, worker>>
    BY <1>4 DEF Say, Inv, WorkerInv, Busy, table
  <2>2. attempt[mine] \in Attempts
    BY <2>1, OutboxAssumption DEF Inv, JobsInv, TypeOK, Attempts
  <2>3. PICK s \in {Note(mine, attempt[mine], n) : n \in 1..MaxNotes}
                     \cup {Waiting(mine, attempt[mine]), Progress(mine, attempt[mine]), Answer(mine)} :
          /\ row[s] = "absent"
          /\ row' = With(IF Kind(s) = "progress" THEN Overtaken(mine, attempt[mine]) ELSE row, s)
          /\ Kind(s) = "note" =>
               \A p \in Rows : EarlierNote(p, s) /\ p[3] = attempt[mine] => row[p] # "absent"
    BY <1>4 DEF Say
  <2> DEFINE b == Started(mine, attempt[mine])
             W == IF Kind(s) = "progress" THEN Overtaken(mine, attempt[mine]) ELSE row
  <2>4. /\ s \in Rows /\ Job(s) = mine /\ Kind(s) \in {"note", "waiting", "progress", "answer"}
        /\ Kind(s) = "note" => s[3] = attempt[mine]
    BY <2>1, <2>2, <2>3, RowNames
  <2>5. b \in Rows /\ Kind(b) = "started"
    BY <2>1, <2>2, RowNames
  <2>6. /\ W \in [Rows -> RowStates]
        /\ \A q \in Rows : W[q] = row[q] \/ (q = b /\ Unsaid(q) /\ W[q] = "superseded")
    BY TypedRow, OvertakenRow DEF Inv
  <2>7. row' = With(W, s)
    BY <2>3
  <2>8. s # b
    BY <2>4, <2>5
  <2> HIDE DEF W, b
  <2>9. /\ row'[s] = "pending"
        /\ \A q \in Rows : q # s => row'[q] = W[q]
    BY <2>3, <2>4, <2>6, <2>7, <2>8, WithRow
  <2>10. NewRow(s)
    BY <1>4, <2>1, <2>3, <2>4, <2>9 DEF Say
  <2> QED BY <2>5, <2>6, <2>9, <2>10
<1> QED BY <1>1, <1>2, <1>3, <1>4

\* What the lanes do to a row: it is due again, dropped, or marked after its post.
LEMMA LaneRows ==
  ASSUME Inv, Lanes
  PROVE  /\ \A r \in Rows : RowStep(r)
         /\ UNCHANGED <<table, worker>>
<1> USE DEF RowStep
<1>1. CASE \E r \in Rows : Due(r) \/ Send(r) \/ DropStale(r)
  BY <1>1 DEF Due, Send, DropStale, Unsaid, StatusKinds, Inv, TypeOK
<1>2. CASE (\E j \in Jobs : SendResult(j)) \/ ReadResults \/ Arrive \/ Report \/ ReportArrives
  BY <1>2 DEF SendResult, ReadResults, Arrive, Report, ReportArrives
<1>3. CASE Confirm \/ Fails
  <2>1. sending \in Rows /\ sending # None
    BY <1>3 DEF Confirm, Fails, Inv, TypeOK
  <2>2. row' = Marked(sending, "deferred") \/ (row' = Marked(sending, "delivered") /\ sending \in posted)
    BY <1>3 DEF Confirm, Fails, Inv, PostInv
  <2> QED BY <1>3, <2>1, <2>2, TypedRow, MarkedRow DEF Confirm, Fails, Inv, RowStates
<1>4. CASE ReportSettles
  <2>1. lifeSending \in Rows /\ lifeSending # None
    BY <1>4 DEF ReportSettles, Inv, TypeOK
  <2>2. \/ row' = Marked(lifeSending, "deferred")
        \/ row' = Marked(lifeSending, "delivered") /\ lifeSending \in posted
    BY <1>4 DEF ReportSettles, Inv, PostInv
  <2> QED BY <1>4, <2>1, <2>2, TypedRow, MarkedRow DEF ReportSettles, Inv, RowStates
<1>5. CASE PassBarrier
  BY <1>5 DEF PassBarrier, LifecycleDeliverable, Unsaid, Inv, TypeOK
<1> QED BY <1>1, <1>2, <1>3, <1>4, <1>5 DEF Lanes

\* What any step does to a row.
LEMMA RowSteps ==
  ASSUME Inv, Next
  PROVE  \A r \in Rows : RowStep(r)
<1>1. CASE row' = row
  BY <1>1 DEF RowStep
<1>2. CASE Gateway
  BY <1>1, <1>2, StagedRows DEF Gateway, Unblock
<1>3. CASE Claim \/ ClaimAfterWait
  <2>1. ASSUME NEW j \in Jobs, Claimed(j) PROVE \A r \in Rows : RowStep(r)
    <3>1. \A q \in Rows : row'[q] =
            IF Job(q) = j /\ Kind(q) \in {"accepted"} \cup RateLimited /\ Unsaid(q)
              THEN "superseded" ELSE row[q]
      BY <2>1, TypedRow, WithoutRow DEF Claimed, Inv
    <3> QED BY <3>1 DEF RowStep, RateLimited
  <2> QED BY <1>1, <1>3, <2>1, ClaimSteps DEF NotClaimed
<1>4. CASE ReleaseAtClaim \/ CancelAtClaim \/ GiveBack \/ (Finish /\ pc' # "closing")
  BY <1>4, LetGoSteps, LetGoRows
<1>5. CASE Activate
  <2>1. mine \in Jobs /\ status[mine] = "running" /\ attempt[mine] \in Attempts
    BY <1>5, OutboxAssumption DEF Activate, Inv, WorkerInv, JobsInv, TypeOK, Busy, Attempts
  <2>2. LET s == Started(mine, attempt[mine])
        IN  s \in Rows /\ Kind(s) = "started" /\ Job(s) = mine
    BY <2>1, RowNames
  <2> QED BY <1>5, <2>1, <2>2 DEF Activate, RowStep, Inv, TypeOK, table
<1>6. CASE Begin \/ Say
  BY <1>6, StagedRows
<1>7. CASE NotBegun \/ Return \/ CloseLane \/ Quieten \/ Crash \/ (Finish /\ pc' = "closing")
  BY <1>1, <1>7 DEF NotBegun, Return, CloseLane, Quieten, Crash, Finish, Loop
<1>8. CASE Boot
  BY <1>1, <1>8, BootSteps, LetGoRows
<1>9. CASE Lanes
  BY <1>9, LaneRows
<1> QED BY <1>2, <1>3, <1>4, <1>5, <1>6, <1>7, <1>8, <1>9 DEF Next, Worker

\* A settled job stays settled, and a job that becomes it has its result.
LEMMA SettledSteps ==
  ASSUME Inv, Next, NEW j \in Jobs
  PROVE  /\ status[j] = "settled" => status'[j] = "settled"
         /\ status[j] # "settled" /\ status'[j] = "settled" =>
              /\ row'[Result(j)] = "pending"
              /\ \A r \in Rows : Job(r) = j /\ Kind(r) \in LifecycleKinds => ~Unsaid(r)'
<1>1. CASE status' = status
  BY <1>1
<1>2. ASSUME NEW i \in Jobs, LetGo(i)
      PROVE  /\ status[j] = "settled" => status'[j] = "settled"
             /\ status[j] # "settled" /\ status'[j] = "settled" => i = j /\ Settled(j)
  <2>1. status[i] = "running"
    BY <1>2 DEF LetGo
  <2>2. CASE Settled(i)
    BY <1>2, <2>1, <2>2, SettledRows DEF Inv, TypeOK
  <2>3. CASE Requeued(i) \/ Release(i)
    BY <2>1, <2>3 DEF Requeued, RequeueAt, Retry, Requeue, Release, Inv, TypeOK
  <2> QED BY <1>2, <2>2, <2>3 DEF LetGo
<1>3. CASE \E i \in Jobs : LetGo(i)
  BY <1>2, <1>3, SettledRows
<1>4. CASE Gateway
  BY <1>1, <1>4 DEF Gateway, Enqueue, Unblock, Interrupt, Inv, TypeOK
<1>5. CASE Claim \/ ClaimAfterWait
  BY <1>1, <1>5, ClaimSteps DEF Claimed, NotClaimed, Ready, table, Inv, TypeOK
<1>6. CASE ReleaseAtClaim \/ CancelAtClaim \/ GiveBack \/ (Finish /\ pc' # "closing")
  BY <1>3, <1>6, LetGoSteps
<1>7. CASE Activate \/ Begin \/ NotBegun \/ Say \/ Return \/ CloseLane \/ Quieten \/ Crash
           \/ (Finish /\ pc' = "closing")
  BY <1>1, <1>7 DEF Activate, Begin, NotBegun, Say, Return, CloseLane, Quieten, Crash, Finish, Loop,
                    table
<1>8. CASE Boot
  BY <1>1, <1>3, <1>8, BootSteps DEF table
<1>9. CASE Lanes
  BY <1>1, <1>9, LaneRows DEF table
<1> QED BY <1>4, <1>5, <1>6, <1>7, <1>8, <1>9 DEF Next, Worker

\* A claim is given back only while it is untouched, and it is untouched since
\* it was made.
LEMMA UntouchedSteps ==
  ASSUME Inv, Next, Untouched'
  PROVE  \/ Untouched /\ mine' = mine /\ UNCHANGED attempt /\ ~(pc = "running")
         \/ \E j \in Jobs : Claimed(j)
<1> USE DEF Untouched, Ending
<1>1. CASE Gateway
  BY <1>1 DEF Gateway, Enqueue, Unblock, Interrupt, worker, main, life
<1>2. CASE Claim \/ ClaimAfterWait
  BY <1>2, ClaimSteps DEF NotClaimed
<1>3. CASE ReleaseAtClaim \/ CancelAtClaim \/ GiveBack \/ (Finish /\ pc' # "closing")
  BY <1>3, LetGoSteps DEF LetGo
<1>4. CASE Activate \/ Begin \/ NotBegun \/ Say \/ Return \/ CloseLane \/ Quieten \/ Crash
           \/ (Finish /\ pc' = "closing")
  BY <1>4 DEF Activate, Begin, NotBegun, Say, Return, CloseLane, Quieten, Crash, Finish, Loop,
              table, worker
<1>5. CASE Boot
  BY <1>5 DEF Boot
<1>6. CASE Lanes
  BY <1>6, LaneRows DEF table, worker, Inv, WorkerInv
<1> QED BY <1>1, <1>2, <1>3, <1>4, <1>5, <1>6 DEF Next, Worker

\* The attempt of a job is taken back only with an untouched claim.
LEMMA AttemptSteps ==
  ASSUME Inv, Next, NEW j \in Jobs
  PROVE  /\ attempt'[j] >= attempt[j] \/ (Untouched /\ j = mine /\ attempt'[j] = attempt[j] - 1)
         /\ epoch[j] => epoch'[j]
<1>0. attempt \in [Jobs -> 0 .. MaxAttempts] /\ MaxAttempts \in Nat
  BY OutboxAssumption DEF Inv, TypeOK
<1>1. CASE UNCHANGED <<attempt, epoch>>
  BY <1>0, <1>1
<1>2. ASSUME NEW i \in Jobs, LetGo(i)
      PROVE  /\ attempt'[j] >= attempt[j] \/ (Untouched /\ j = mine /\ attempt'[j] = attempt[j] - 1)
             /\ epoch' = epoch
  <2>1. CASE Settled(i) \/ Requeued(i)
    BY <1>0, <2>1 DEF Settled, Settle, Requeued, RequeueAt, Retry, Requeue
  <2>2. CASE Release(i) /\ Untouched /\ i = mine
    BY <1>0, <2>2 DEF Release
  <2> QED BY <1>2, <2>1, <2>2 DEF LetGo
<1>3. CASE \E i \in Jobs : LetGo(i)
  BY <1>2, <1>3
<1>4. CASE Gateway
  BY <1>1, <1>4 DEF Gateway, Enqueue, Unblock, Interrupt
<1>5. CASE Claim \/ ClaimAfterWait
  BY <1>0, <1>1, <1>5, ClaimSteps DEF Claimed, NotClaimed, table, Inv, TypeOK
<1>6. CASE ReleaseAtClaim \/ CancelAtClaim \/ GiveBack \/ (Finish /\ pc' # "closing")
  BY <1>3, <1>6, LetGoSteps
<1>7. CASE Activate \/ Begin \/ NotBegun \/ Say \/ Return \/ CloseLane \/ Quieten \/ Crash
           \/ (Finish /\ pc' = "closing")
  BY <1>1, <1>7 DEF Activate, Begin, NotBegun, Say, Return, CloseLane, Quieten, Crash, Finish, Loop,
                    table
<1>8. CASE Boot
  BY <1>1, <1>3, <1>8, BootSteps DEF table
<1>9. CASE Lanes
  BY <1>1, <1>9, LaneRows DEF table
<1> QED BY <1>4, <1>5, <1>6, <1>7, <1>8, <1>9 DEF Next, Worker

\* What a thread was told is not taken back; it is told what is on its way.
LEMMA PostedSteps ==
  ASSUME Inv, Next
  PROVE  /\ posted \subseteq posted'
         /\ \A r \in posted' \ posted : \/ sending # None /\ r = sending
                                        \/ lifeSending # None /\ r = lifeSending
<1>1. CASE posted' = posted
  BY <1>1
<1>2. CASE Gateway
  BY <1>1, <1>2 DEF Gateway, Enqueue, Unblock, Interrupt
<1>3. CASE Claim \/ ClaimAfterWait
  BY <1>1, <1>3, ClaimSteps
<1>4. CASE ReleaseAtClaim \/ CancelAtClaim \/ GiveBack \/ Finish
  BY <1>1, <1>4 DEF ReleaseAtClaim, CancelAtClaim, GiveBack, Finish
<1>5. CASE Activate \/ Begin \/ NotBegun \/ Say \/ Return \/ CloseLane \/ Quieten \/ Boot
  BY <1>1, <1>5 DEF Activate, Begin, NotBegun, Say, Return, CloseLane, Quieten, Boot
<1>6. CASE Crash
  <2>1. posted' \in {posted \cup sent :
                       sent \in SUBSET (({sending} \ {None}) \cup ({lifeSending} \ {None}))}
    BY <1>6 DEF Crash
  <2> QED BY <2>1
<1>7. CASE Lanes
  BY <1>1, <1>7 DEF Lanes, Due, Send, DropStale, SendResult, ReadResults, Arrive, Confirm, Fails,
                    PassBarrier, Report, ReportArrives, ReportSettles
<1> QED BY <1>2, <1>3, <1>4, <1>5, <1>6, <1>7 DEF Next, Worker

\* The rows keep what is known of them.
LEMMA RowsInvKept ==
  ASSUME Inv, TypeOK', Next
  PROVE  RowsInv'
<1> USE RowSteps
<1>0. /\ attempt \in [Jobs -> 0 .. MaxAttempts] /\ attempt' \in [Jobs -> 0 .. MaxAttempts]
      /\ MaxAttempts \in Nat
  BY OutboxAssumption DEF Inv, TypeOK
<1>1. ASSUME NEW j \in Jobs PROVE (row[Result(j)] # "absent" <=> status[j] = "settled")'
  <2>1. Result(j) \in Rows /\ Kind(Result(j)) = "result" /\ Job(Result(j)) = j
    BY RowNames
  <2>2. row[Result(j)] # "absent" <=> status[j] = "settled"
    BY DEF Inv, RowsInv
  <2> QED BY <2>1, <2>2, SettledSteps DEF RowStep, NewRow, Unsaid
<1>2. ASSUME NEW r \in Rows, Kind(r) \in {"note", "result"} PROVE row'[r] # "superseded"
  BY <1>2 DEF RowStep, NewRow, Inv, RowsInv
<1>3. ASSUME NEW r \in Rows, Kind(r) = "note", row'[r] # "absent"
      PROVE  epoch'[Job(r)] /\ r[3] <= attempt'[Job(r)]
  <2>1. Job(r) \in Jobs /\ r[3] \in Nat
    BY RowParts
  <2>2. CASE row[r] # "absent"
    <3>1. epoch[Job(r)] /\ r[3] <= attempt[Job(r)]
      BY <1>3, <2>2 DEF Inv, RowsInv
    <3>2. Untouched /\ Job(r) = mine => r[3] < attempt[mine]
      BY <1>3, <2>2 DEF Inv, RowsInv
    <3> QED BY <1>0, <2>1, <3>1, <3>2, AttemptSteps
  <2>3. CASE row[r] = "absent"
    <3>1. NewRow(r)
      BY <1>3, <2>3 DEF RowStep, Unsaid
    <3>2. mine \in Jobs /\ status[mine] = "running"
      BY <1>3, <3>1 DEF NewRow, Inv, WorkerInv, Busy
    <3>3. epoch[mine]
      BY <3>2 DEF Inv, JobsInv
    <3> QED BY <1>0, <1>3, <3>1, <3>2, <3>3 DEF NewRow, table
  <2> QED BY <2>2, <2>3
<1>4. ASSUME NEW p \in Rows, NEW r \in Rows, Kind(r) = "note", EarlierNote(p, r), p[3] = r[3],
             row'[r] # "absent"
      PROVE  row'[p] # "absent"
  <2>1. row[p] # "absent" => row'[p] # "absent"
    BY DEF RowStep, NewRow, Unsaid
  <2>2. CASE row[r] # "absent"
    BY <1>4, <2>1, <2>2 DEF Inv, RowsInv
  <2>3. CASE row[r] = "absent"
    <3>1. NewRow(r)
      BY <1>4, <2>3 DEF RowStep, Unsaid
    <3> QED BY <1>4, <2>1, <3>1 DEF NewRow
  <2> QED BY <2>2, <2>3
<1>5. ASSUME Untouched', NEW r \in Rows, Kind(r) = "note", Job(r) = mine', row'[r] # "absent"
      PROVE  r[3] < attempt'[mine']
  <2>1. Job(r) \in Jobs /\ r[3] \in Nat
    BY RowParts
  <2>2. CASE Untouched /\ mine' = mine /\ UNCHANGED attempt /\ pc # "running"
    <3>1. row[r] # "absent"
      BY <1>5, <2>2 DEF RowStep, NewRow, Unsaid
    <3> QED BY <1>5, <2>2, <3>1 DEF Inv, RowsInv
  <2>3. ASSUME NEW j \in Jobs, Claimed(j) PROVE r[3] < attempt'[mine']
    <3>1. pc # "running" /\ attempt'[j] = attempt[j] + 1 /\ mine' = j
      BY <1>0, <2>3 DEF Claimed
    <3>2. row[r] # "absent"
      BY <1>5, <3>1 DEF RowStep, NewRow, Unsaid
    <3>3. r[3] <= attempt[j]
      BY <1>5, <3>1, <3>2 DEF Inv, RowsInv
    <3> QED BY <1>0, <2>1, <3>1, <3>3
  <2> QED BY <1>5, <2>2, <2>3, UntouchedSteps
<1>6. ASSUME NEW r \in Rows, status'[Job(r)] = "settled", Kind(r) \in LifecycleKinds
      PROVE  ~Unsaid(r)'
  <2>1. Job(r) \in Jobs
    BY RowParts
  <2>2. CASE status[Job(r)] = "settled"
    <3>1. ~Unsaid(r)
      BY <1>6, <2>2 DEF Inv, RowsInv
    <3> QED BY <2>2, <3>1 DEF RowStep, NewRow, Unsaid
  <2>3. CASE status[Job(r)] # "settled"
    BY <1>6, <2>1, <2>3, SettledSteps
  <2> QED BY <2>2, <2>3
<1>7. ASSUME NEW r \in Rows, row'[r] = "delivered", Kind(r) # "started" PROVE r \in posted'
  BY <1>7, PostedSteps DEF RowStep, NewRow, Inv, RowsInv
<1>8. ASSUME NEW j \in Jobs, row'[Begun(j)] # "absent" PROVE Accepted(j) \in posted'
  <2>1. Begun(j) \in Rows /\ Kind(Begun(j)) = "begun" /\ Job(Begun(j)) = j
    BY RowNames
  <2> QED BY <1>8, <2>1, PostedSteps DEF RowStep, NewRow, Unsaid, Inv, RowsInv
<1> QED BY <1>1, <1>2, <1>3, <1>4, <1>5, <1>6, <1>7, <1>8 DEF RowsInv, EarlierNote, Unsaid

-----------------------------------------------------------------------------
(* The posts in flight *)

\* A main-lane post is on its way, or leaves now, checked by its query.
LEMMA SendSteps ==
  ASSUME Inv, Next, sending' # None
  PROVE  \/ /\ sending # None /\ sending' = sending
            /\ arrived' => arrived \/ sending \in posted'
         \/ Send(sending') /\ sending' \in Rows
         \/ \E j \in Jobs : SendResult(j) /\ sending' = Result(j)
<1>1. CASE UNCHANGED main
  BY <1>1 DEF main
<1>2. CASE Gateway
  BY <1>1, <1>2 DEF Gateway, Enqueue, Unblock, Interrupt
<1>3. CASE Claim \/ ClaimAfterWait
  BY <1>1, <1>3, ClaimSteps
<1>4. CASE ReleaseAtClaim \/ CancelAtClaim \/ GiveBack \/ Finish
  BY <1>1, <1>4 DEF ReleaseAtClaim, CancelAtClaim, GiveBack, Finish
<1>5. CASE Activate \/ Begin \/ NotBegun \/ Say \/ Return \/ CloseLane \/ Quieten \/ Crash \/ Boot
  BY <1>1, <1>5 DEF Activate, Begin, NotBegun, Say, Return, CloseLane, Quieten, Crash, Boot, main
<1>6. CASE \E r \in Rows : Due(r) \/ Send(r) \/ DropStale(r)
  BY <1>6 DEF Due, DropStale, Send, main
<1>7. CASE \E j \in Jobs : SendResult(j)
  BY <1>7 DEF SendResult
<1>8. CASE ReadResults \/ Arrive \/ Confirm \/ Fails
  BY <1>8 DEF ReadResults, Arrive, Confirm, Fails
<1>9. CASE PassBarrier \/ Report \/ ReportArrives \/ ReportSettles
  BY <1>1, <1>9 DEF PassBarrier, Report, ReportArrives, ReportSettles
<1> QED BY <1>2, <1>3, <1>4, <1>5, <1>6, <1>7, <1>8, <1>9 DEF Next, Worker, Lanes

\* A result enters the pass when its row is read, and only then.
LEMMA PassedSteps ==
  ASSUME Inv, Next, NEW j \in Jobs, Passed(j)'
  PROVE  Passed(j) \/ (row[Result(j)] = "pending" /\ ResultDeliverable(j))
<1>0. /\ Result(j) \in Rows /\ Kind(Result(j)) = "result"
      /\ \A i \in Jobs : Result(i) = Result(j) => i = j
  BY RowNames
<1>1. Result(j) \in posted' => Passed(j)
  <2>1. lifeSending # None => lifeSending # Result(j)
    BY <1>0 DEF Inv, PostInv
  <2> QED BY <2>1, PostedSteps DEF Passed
<1>2. ASSUME sending' # None, sending' = Result(j) PROVE Passed(j)
  <2>1. ~Send(Result(j))
    BY <1>0 DEF Send, StatusKinds
  <2>2. ASSUME NEW i \in Jobs, SendResult(i), sending' = Result(i) PROVE Passed(j)
    BY <1>0, <1>2, <2>2 DEF SendResult, Passed
  <2> QED BY <1>2, <2>1, <2>2, SendSteps DEF Passed
<1>3. ASSUME j \in batch'
      PROVE  j \in batch \/ (row[Result(j)] = "pending" /\ ResultDeliverable(j))
  <2>1. CASE batch' = batch
    BY <1>3, <2>1
  <2>2. CASE Gateway
    BY <2>1, <2>2 DEF Gateway, Enqueue, Unblock, Interrupt, main
  <2>3. CASE Claim \/ ClaimAfterWait
    BY <2>1, <2>3, ClaimSteps DEF main
  <2>4. CASE ReleaseAtClaim \/ CancelAtClaim \/ GiveBack \/ Finish
    BY <2>1, <2>4 DEF ReleaseAtClaim, CancelAtClaim, GiveBack, Finish, main
  <2>5. CASE Activate \/ Begin \/ NotBegun \/ Say \/ Return \/ CloseLane \/ Quieten \/ Crash \/ Boot
    BY <1>3, <2>1, <2>5 DEF Activate, Begin, NotBegun, Say, Return, CloseLane, Quieten, Crash, Boot,
                            main
  <2>6. CASE ReadResults
    BY <1>3, <2>6 DEF ReadResults
  <2>7. CASE \E i \in Jobs : SendResult(i)
    BY <1>3, <2>7 DEF SendResult
  <2>8. CASE Lanes /\ ~ReadResults /\ ~(\E i \in Jobs : SendResult(i))
    BY <2>1, <2>8 DEF Lanes, Due, Send, DropStale, Arrive, Confirm, Fails,
                      PassBarrier, Report, ReportArrives, ReportSettles, main
  <2> QED BY <2>2, <2>3, <2>4, <2>5, <2>6, <2>7, <2>8 DEF Next, Worker
<1> QED BY <1>1, <1>2, <1>3 DEF Passed

\* Nothing is staged any more for a job that has ended.
LEMMA DeliverableStays ==
  ASSUME Inv, Next, NEW j \in Jobs, status[j] = "settled", ResultDeliverable(j)
  PROVE  ResultDeliverable(j)'
<1> DEFINE K == StatusKinds \cup {"answer", "note"}
<1>1. ASSUME NEW r \in Rows, Job(r) = j, Kind(r) \in K PROVE ~Unsaid(r)'
  <2>1. ~Unsaid(r)
    BY <1>1 DEF ResultDeliverable, Owes
  <2>2. Kind(r) # "started"
    BY <1>1 DEF StatusKinds
  <2> QED BY <1>1, <2>1, <2>2, RowSteps DEF RowStep, NewRow, Unsaid
<1> QED BY <1>1 DEF ResultDeliverable, Owes, Unsaid

\* Results in flight are of jobs that have ended and have nothing left to say.
LEMMA ResultsKept ==
  ASSUME Inv, Next, NEW j \in Jobs, Passed(j)'
  PROVE  status'[j] = "settled" /\ ResultDeliverable(j)'
<1>1. status[j] = "settled" /\ ResultDeliverable(j)
  BY PassedSteps DEF Inv, PostInv, RowsInv
<1> QED BY <1>1, SettledSteps, DeliverableStays

\* A post in flight has its row, and its job's result was not posted before it.
LEMMA SendingKept ==
  ASSUME Inv, TypeOK', Next, sending' # None
  PROVE  /\ row'[sending'] # "absent" /\ (arrived' => sending' \in posted')
         /\ Kind(sending') # "progress"
         /\ Kind(sending') # "result" => Result(Job(sending')) \notin posted'
<1>1. CASE /\ sending # None /\ sending' = sending /\ (arrived' => arrived \/ sending \in posted')
  <2>1. /\ sending \in Rows /\ row[sending] # "absent" /\ (arrived => sending \in posted)
        /\ Kind(sending) # "progress"
    BY <1>1 DEF Inv, TypeOK, PostInv
  <2>2. row'[sending] # "absent"
    BY <2>1, RowSteps DEF RowStep, NewRow, Unsaid
  <2>3. ASSUME Kind(sending) # "result" PROVE Result(Job(sending)) \notin posted'
    <3>1. Job(sending) \in Jobs
      BY <2>1, RowParts
    <3>2. Kind(Result(Job(sending))) = "result"
      BY <3>1, RowNames
    <3> QED BY <1>1, <2>3, <3>2, PostedSteps DEF Inv, PostInv
  <2> QED BY <1>1, <2>1, <2>2, <2>3, PostedSteps
<1>2. CASE Send(sending') /\ sending' \in Rows
  <2>1. /\ row' = row /\ posted' = posted /\ ~arrived' /\ row[sending'] = "pending"
        /\ Kind(sending') \in StatusKinds \cup {"answer", "note"}
    BY <1>2 DEF Send
  <2>2. Job(sending') \in Jobs
    BY <1>2, RowParts
  <2>3. ~ResultDeliverable(Job(sending'))
    BY <1>2, <2>1 DEF ResultDeliverable, Owes, Unsaid
  <2> QED BY <2>1, <2>2, <2>3 DEF Inv, PostInv, Passed, StatusKinds
<1>3. ASSUME NEW j \in Jobs, SendResult(j), sending' = Result(j)
      PROVE  /\ row'[Result(j)] # "absent" /\ (arrived' => sending' \in posted')
             /\ Kind(sending') = "result"
  <2>1. status[j] = "settled" /\ row' = row /\ ~arrived'
    BY <1>3 DEF SendResult, Inv, PostInv, Passed
  <2> QED BY <1>3, <2>1, RowNames DEF Inv, RowsInv
<1> QED BY <1>1, <1>2, <1>3, SendSteps

\* The turn that a wait notice in flight speaks of has not been given back.
LEMMA WaitingKept ==
  ASSUME Inv, TypeOK', Next, sending' # None, Kind(sending') = "waiting"
  PROVE  /\ attempt'[Job(sending')] = sending'[3]
         /\ status'[Job(sending')] = "settled"
              \/ (status'[Job(sending')] = "running" /\ pc' \in Executed)
<1>1. sending' \in Rows /\ Job(sending') \in Jobs
  BY RowParts DEF TypeOK
<1>2. CASE Send(sending')
  <2>1. Current(sending') /\ UNCHANGED <<table, worker>> /\ pc # "down"
    BY <1>2 DEF Send, Idle
  <2>2. /\ status[Job(sending')] = "running" /\ active[Job(sending')]
        /\ attempt[Job(sending')] = sending'[3]
    BY <2>1 DEF Current
  <2> QED BY <1>1, <2>1, <2>2 DEF Inv, WorkerInv, table, worker
<1>3. CASE \E j \in Jobs : SendResult(j) /\ sending' = Result(j)
  BY <1>3, RowNames
<1>4. CASE sending # None /\ sending' = sending
  <2> DEFINE i == Job(sending)
             Stands == /\ attempt[i] = sending[3]
                       /\ status[i] = "settled" \/ (status[i] = "running" /\ pc \in Executed)
  <2>0. i \in Jobs /\ Stands
    BY <1>1, <1>4 DEF Inv, PostInv
  <2>1. ASSUME NEW j \in Jobs, LetGo(j) PROVE Stands'
    <3>1. j # i => status'[i] = status[i] /\ attempt'[i] = attempt[i]
      BY <2>0, <2>1, LetGoMoves DEF Inv, TypeOK
    <3>2. status[i] = "running" => j = i
      BY <2>0, <2>1 DEF LetGo, Inv, WorkerInv
    <3>3. j = i => status'[i] = "settled" /\ attempt'[i] = attempt[i]
      BY <1>4, <2>0, <2>1, LetGoMoves DEF NoWait, Inv, TypeOK
    <3> QED BY <1>4, <2>0, <3>1, <3>2, <3>3
  <2>2. CASE Gateway
    BY <1>4, <2>0, <2>2 DEF Gateway, Enqueue, Unblock, Interrupt, worker, Inv, TypeOK
  <2>3. CASE Claim \/ ClaimAfterWait
    BY <1>4, <2>0, <2>3, ClaimSteps DEF Claimed, NotClaimed, Ready, Executed, table, Inv, TypeOK
  <2>4. CASE ReleaseAtClaim \/ CancelAtClaim \/ GiveBack \/ (Finish /\ pc' # "closing")
    BY <2>1, <2>4, LetGoSteps
  <2>5. CASE Activate \/ Begin \/ NotBegun
    BY <1>4, <2>0, <2>5 DEF Activate, Begin, NotBegun, Executed, table
  <2>6. CASE Say \/ Return \/ CloseLane \/ Quieten \/ (Finish /\ pc' = "closing")
    BY <1>4, <2>0, <2>6 DEF Say, Return, CloseLane, Quieten, Finish, Loop, Executed, table, worker
  <2>7. CASE Crash \/ Boot
    BY <1>4, <2>0, <2>7 DEF Crash, Boot, Inv, WorkerInv
  <2>8. CASE Lanes
    BY <1>4, <2>0, <2>8, LaneRows DEF table, worker
  <2> QED BY <1>4, <2>2, <2>3, <2>4, <2>5, <2>6, <2>7, <2>8 DEF Next, Worker
<1> QED BY <1>2, <1>3, <1>4, SendSteps

\* Before a commentary row in flight everything it follows was posted, and
\* nothing is staged before it.
LEMMA NoteKept ==
  ASSUME Inv, TypeOK', Next, sending' # None, Kind(sending') = "note"
  PROVE  /\ \A p \in Rows : EarlierNote(p, sending') /\ row'[p] # "absent" => p \in posted'
         /\ \A i \in Jobs : i < Job(sending') /\ Thread[i] = Thread[Job(sending')]
                              => Result(i) \in posted'
<1>1. sending' \in Rows /\ Job(sending') \in Jobs /\ sending'[3] \in Nat /\ sending'[4] \in Nat
  BY RowParts DEF TypeOK
<1>2. CASE Send(sending')
  <2>1. NoteDeliverable(sending') /\ row' = row /\ posted' = posted /\ row[sending'] = "pending"
    BY <1>2 DEF Send, StatusKinds
  <2>2. ASSUME NEW p \in Rows, EarlierNote(p, sending'), row[p] # "absent" PROVE p \in posted
    <3>1. ~Unsaid(p) /\ Kind(p) = "note"
      BY <2>1, <2>2 DEF NoteDeliverable, EarlierNote
    <3>2. row[p] \in RowStates /\ row[p] # "superseded"
      BY <3>1, TypedRow DEF Inv, RowsInv
    <3>3. row[p] = "delivered"
      BY <2>2, <3>1, <3>2 DEF Unsaid, RowStates
    <3> QED BY <3>1, <3>3 DEF Inv, RowsInv
  <2>3. ASSUME NEW i \in Jobs, i < Job(sending'), Thread[i] = Thread[Job(sending')]
        PROVE  Result(i) \in posted
    <3>1. epoch[Job(sending')]
      BY <1>1, <2>1 DEF Inv, RowsInv
    <3>2. status[i] = "settled"
      BY <1>1, <2>3, <3>1 DEF Inv, JobsInv
    <3>3. Result(i) \in Rows /\ Kind(Result(i)) = "result"
      BY RowNames
    <3>4. row[Result(i)] \in RowStates \ {"absent", "superseded"}
      BY <3>2, <3>3, TypedRow DEF Inv, RowsInv
    <3>5. ~Unsaid(Result(i))
      BY <2>1, <2>3 DEF NoteDeliverable, PriorResult
    <3>6. row[Result(i)] = "delivered"
      BY <3>4, <3>5 DEF Unsaid, RowStates
    <3> QED BY <3>3, <3>6 DEF Inv, RowsInv
  <2> QED BY <2>1, <2>2, <2>3
<1>3. CASE \E j \in Jobs : SendResult(j) /\ sending' = Result(j)
  BY <1>3, RowNames
<1>4. CASE sending # None /\ sending' = sending
  <2>1. row[sending] # "absent"
    BY <1>4 DEF Inv, PostInv
  <2>2. ASSUME NEW p \in Rows, EarlierNote(p, sending), row'[p] # "absent" PROVE p \in posted'
    <3>1. CASE row[p] # "absent"
      BY <1>4, <2>2, <3>1, PostedSteps DEF Inv, PostInv
    <3>2. CASE row[p] = "absent"
      <4>1. NewRow(p) /\ Kind(p) = "note" /\ Job(p) = Job(sending)
        BY <2>2, <3>2, RowSteps DEF RowStep, Unsaid, EarlierNote
      <4>2. Job(p) = mine /\ p[3] = attempt[mine]
        BY <4>1 DEF NewRow
      <4>3. sending[3] <= attempt[mine]
        BY <1>1, <1>4, <2>1, <4>1, <4>2 DEF Inv, RowsInv
      <4>4. p[3] # sending[3]
        BY <1>1, <1>4, <2>1, <2>2, <3>2 DEF Inv, RowsInv
      <4>5. attempt[mine] \in Nat
        BY <1>1, <1>4, <4>1, <4>2, OutboxAssumption DEF Inv, TypeOK
      <4> QED BY <1>1, <1>4, <2>2, <4>2, <4>3, <4>4, <4>5 DEF EarlierNote
    <3> QED BY <3>1, <3>2
  <2> QED BY <1>4, <2>2, PostedSteps DEF Inv, PostInv
<1> QED BY <1>2, <1>3, <1>4, SendSteps

\* A progress report in flight is of the attempt that runs.
LEMMA ReportKept ==
  ASSUME Inv, TypeOK', Next, lifeSending' # None
  PROVE  /\ Kind(lifeSending') = "progress" /\ pc' \in {"activated", "running", "closing"}
         /\ status'[Job(lifeSending')] = "running"
         /\ attempt'[Job(lifeSending')] = lifeSending'[3]
         /\ lifeArrived' => lifeSending' \in posted'
<1> DEFINE Live == /\ Kind(lifeSending) = "progress" /\ pc \in {"activated", "running", "closing"}
                   /\ status[Job(lifeSending)] = "running"
                   /\ attempt[Job(lifeSending)] = lifeSending[3]
                   /\ lifeArrived => lifeSending \in posted
<1>1. lifeSending # None => Live /\ Job(lifeSending) \in Jobs
  BY RowParts DEF Inv, TypeOK, PostInv
<1>2. posted \subseteq posted'
  BY PostedSteps
<1>3. ASSUME NEW j \in Jobs, LetGo(j) PROVE FALSE
  BY <1>1, <1>3 DEF LetGo, life
<1>4. CASE Gateway
  BY <1>1, <1>2, <1>4 DEF Gateway, Enqueue, Unblock, Interrupt, worker, life, Inv, TypeOK
<1>5. CASE Claim \/ ClaimAfterWait
  BY <1>1, <1>5, ClaimSteps DEF Claimed, NotClaimed, life
<1>6. CASE ReleaseAtClaim \/ CancelAtClaim \/ GiveBack \/ (Finish /\ pc' # "closing")
  BY <1>3, <1>6, LetGoSteps
<1>7. CASE Activate \/ Begin \/ NotBegun \/ Say \/ Return \/ CloseLane \/ Quieten
           \/ (Finish /\ pc' = "closing")
  BY <1>1, <1>2, <1>7 DEF Activate, Begin, NotBegun, Say, Return, CloseLane, Quieten, Finish, Loop,
                          table, worker, life
<1>8. CASE Crash
  BY <1>8 DEF Crash
<1>9. CASE Boot
  BY <1>1, <1>9 DEF Boot, life
<1>10. CASE Report
  <2>1. PICK r \in Rows : Kind(r) = "progress" /\ LifecycleDeliverable(r) /\ lifeSending' = r
    BY <1>10 DEF Report
  <2>2. pc \in {"activated", "running", "closing"} /\ UNCHANGED <<table, worker>> /\ ~lifeArrived'
    BY <1>10 DEF Report, Inv, WorkerInv
  <2> QED BY <2>1, <2>2 DEF LifecycleDeliverable, table, worker
<1>11. CASE ReportArrives \/ ReportSettles
  BY <1>1, <1>11 DEF ReportArrives, ReportSettles, table, worker
<1>12. CASE Lanes /\ ~Report /\ ~ReportArrives /\ ~ReportSettles
  BY <1>1, <1>2, <1>12 DEF Lanes, Due, Send, DropStale, SendResult, ReadResults, Arrive, Confirm,
                           Fails, PassBarrier, table, worker, life
<1> QED BY <1>4, <1>5, <1>6, <1>7, <1>8, <1>9, <1>10, <1>11, <1>12 DEF Next, Worker

LEMMA PostInvKept ==
  ASSUME Inv, TypeOK', Next
  PROVE  PostInv'
BY ResultsKept, SendingKept, WaitingKept, NoteKept, ReportKept
   DEF PostInv, Passed, ResultDeliverable, Owes, Unsaid, EarlierNote

-----------------------------------------------------------------------------
(* The theorems *)

LEMMA InitInv == Init => Inv
<1> SUFFICES ASSUME Init PROVE Inv
    OBVIOUS
<1>1. TypeOK
  BY InitTypeOK
<1>2. WorkerInv
  BY DEF Init, WorkerInv, Busy, Ending
<1>3. JobsInv
  BY OutboxAssumption DEF Init, JobsInv
<1>4. RowsInv
  BY RowNames DEF Init, RowsInv, Untouched, Ending, Unsaid
<1>5. PostInv
  BY DEF Init, PostInv, Passed
<1> QED BY <1>1, <1>2, <1>3, <1>4, <1>5 DEF Inv

\* The invariant is inductive: it holds always.
THEOREM Invariance == Spec => []Inv
<1>1. Inv /\ [Next]_vars => Inv'
  <2> SUFFICES ASSUME Inv, [Next]_vars PROVE Inv'
      OBVIOUS
  <2>1. CASE Next
    <3>1. TypeOK'
      BY <2>1, GatewayTyped, WorkerTyped, LanesTyped DEF Inv, Next, Gateway
    <3> QED BY <2>1, <3>1, WorkerInvKept, JobsInvKept, RowsInvKept, PostInvKept DEF Inv
  <2>2. CASE UNCHANGED vars
    BY <2>2 DEF vars, table, worker, main, life, Inv, TypeOK, WorkerInv, JobsInv, RowsInv, PostInv,
                Untouched, Passed, ResultDeliverable, Owes, Unsaid, EarlierNote
  <2> QED BY <2>1, <2>2
<1> QED BY InitInv, <1>1, PTL DEF Spec

\* The columns, the rows and the lanes keep their types: no attempt is counted
\* below zero or above its bound.
THEOREM TypeCorrect == Spec => []TypeOK
<1>1. Inv => TypeOK
  BY DEF Inv
<1> QED BY Invariance, <1>1, PTL

\* What a step tells a thread was on its way before.
LEMMA ToldWasSent ==
  ASSUME Inv, [Next]_vars, NEW r \in Rows, Told(r)
  PROVE  \/ sending # None /\ r = sending
         \/ lifeSending # None /\ r = lifeSending /\ Kind(r) = "progress"
<1>1. Next
  BY DEF Told, vars
<1> QED BY <1>1, PostedSteps DEF Told, Inv, PostInv

\* A result is the last thing a thread hears of a job.
THEOREM ResultIsLastHolds == Spec => ResultIsLast
<1>1. Inv /\ [Next]_vars => [NotAfterResult]_vars
  <2> SUFFICES ASSUME Inv, [Next]_vars, NEW r \in Rows, Told(r), Kind(r) # "result"
               PROVE  Result(Job(r)) \notin posted
      BY DEF NotAfterResult
  <2>1. CASE sending # None /\ r = sending
    BY <2>1 DEF Inv, PostInv
  <2>2. CASE lifeSending # None /\ r = lifeSending
    <3>1. Job(r) \in Jobs /\ status[Job(r)] = "running"
      BY <2>2, RowParts DEF Inv, PostInv
    <3> QED BY <3>1 DEF Inv, PostInv, Passed
  <2> QED BY <2>1, <2>2, ToldWasSent
<1> QED BY Invariance, <1>1, PTL DEF Spec, ResultIsLast

\* When a result arrives, all that its job had to say has arrived or was withdrawn.
THEOREM NothingUnsaidHolds == Spec => NothingUnsaid
<1>1. Inv /\ [Next]_vars => [AllWasSaid]_vars
  <2> SUFFICES ASSUME Inv, [Next]_vars, NEW j \in Jobs, Told(Result(j)),
                      NEW r \in Rows, Job(r) = j, Kind(r) \notin {"started", "result"}
               PROVE  row[r] \in {"absent", "superseded"} \/ r \in posted
      BY DEF AllWasSaid
  <2>1. Result(j) \in Rows /\ Kind(Result(j)) = "result"
    BY RowNames
  <2>2. status[j] = "settled" /\ ResultDeliverable(j)
    BY <2>1, ToldWasSent DEF Inv, PostInv, Passed
  <2>3. ~Unsaid(r)
    <3>1. Kind(r) \in StatusKinds \cup {"answer", "note"} \/ Kind(r) \in LifecycleKinds
      BY RowParts DEF RowKinds
    <3> QED BY <2>2, <3>1 DEF ResultDeliverable, Owes, Inv, RowsInv
  <2>4. row[r] \in {"absent", "superseded", "delivered"}
    BY <2>3, TypedRow DEF Unsaid, Inv, RowStates
  <2> QED BY <2>4 DEF Inv, RowsInv
<1> QED BY Invariance, <1>1, PTL DEF Spec, NothingUnsaid

\* Commentary reads in order, after the results of the thread's earlier jobs.
THEOREM StoryInOrderHolds == Spec => StoryInOrder
<1>1. Inv /\ [Next]_vars => [FollowsTheStory]_vars
  <2> SUFFICES ASSUME Inv, [Next]_vars, NEW r \in Rows, Told(r), Kind(r) = "note"
               PROVE  /\ \A p \in Rows : EarlierNote(p, r) /\ row[p] # "absent" => p \in posted
                      /\ \A i \in Jobs : i < Job(r) /\ Thread[i] = Thread[Job(r)]
                                           => Result(i) \in posted
      BY DEF FollowsTheStory
  <2>1. sending # None /\ r = sending
    BY ToldWasSent
  <2> QED BY <2>1 DEF Inv, PostInv
<1> QED BY Invariance, <1>1, PTL DEF Spec, StoryInOrder

\* What a thread reads of a job is whole and in order.
THEOREM ThreadReadsWellHolds == Spec => ThreadReadsWell
BY TypeCorrect, ResultIsLastHolds, NothingUnsaidHolds, StoryInOrderHolds, PTL DEF ThreadReadsWell

\* A progress report arrives while its attempt runs, a wait notice before its
\* turn is given back.
THEOREM NoticesAreLiveHolds == Spec => NoticesAreLive
<1>1. Inv /\ [Next]_vars => [AttemptRuns]_vars
  <2> SUFFICES ASSUME Inv, [Next]_vars, NEW r \in Rows, Told(r), Kind(r) = "progress"
               PROVE  status[Job(r)] = "running" /\ attempt[Job(r)] = r[3]
      BY DEF AttemptRuns
  <2>1. lifeSending # None /\ r = lifeSending
    BY ToldWasSent DEF Inv, PostInv
  <2> QED BY <2>1 DEF Inv, PostInv
<1>2. Inv /\ [Next]_vars => [TurnStands]_vars
  <2> SUFFICES ASSUME Inv, [Next]_vars, NEW r \in Rows, Told(r), Kind(r) = "waiting"
               PROVE  attempt[Job(r)] = r[3] /\ status[Job(r)] # "queued"
      BY DEF TurnStands
  <2>1. sending # None /\ r = sending
    BY ToldWasSent
  <2> QED BY <2>1 DEF Inv, PostInv
<1> QED BY Invariance, <1>1, <1>2, PTL DEF Spec, NoticesAreLive, ReportIsLive, TurnNoticeIsLive

\* That work begins is said only to who was told to wait.
THEOREM StartFollowsWaitHolds == Spec => StartFollowsWait
<1>1. Inv /\ [Next]_vars => [WaitWasTold]_vars
  <2> SUFFICES ASSUME Inv, [Next]_vars, NEW j \in Jobs, Told(Begun(j))
               PROVE  Accepted(j) \in posted
      BY DEF WaitWasTold
  <2>1. Begun(j) \in Rows /\ Kind(Begun(j)) = "begun"
    BY RowNames
  <2>2. sending = Begun(j) /\ sending # None
    BY <2>1, ToldWasSent
  <2> QED BY <2>2 DEF Inv, PostInv, RowsInv
<1> QED BY Invariance, <1>1, PTL DEF Spec, StartFollowsWait
=============================================================================
