--------------------------- MODULE JobStoreProofs ---------------------------
(***************************************************************************)
(* Proofs about JobStore for every set of jobs, every assignment of        *)
(* threads and kinds, and every bound.                                     *)
(***************************************************************************)
EXTENDS JobStore, TLAPS

\* The first state is well typed.
LEMMA InitTypeOK == Init => TypeOK
<1> SUFFICES ASSUME Init PROVE TypeOK
    OBVIOUS
<1>1. 0 \in 0 .. MaxFaults /\ 0 \in 0 .. MaxAttempts
  BY BoundAssumption
<1>2. receipt \in [Jobs -> [Attempts -> Receipts]]
  BY DEF Init, Receipts
<1> QED BY <1>1, <1>2 DEF Init, TypeOK, Statuses, Places

\* Gateway actions keep the tables well typed.
LEMMA GatewayTypeOK == TypeOK /\ Gateway => TypeOK'
<1> SUFFICES ASSUME TypeOK, Gateway PROVE TypeOK'
    OBVIOUS
<1> USE DEF TypeOK, Messages, Statuses
<1>1. CASE \E j \in Jobs : StageRequest(j)
  BY <1>1 DEF StageRequest, tables, runner, world
<1>2. CASE \E j \in Jobs : StageInterrupt(j)
  BY <1>2 DEF StageInterrupt, tables, runner, world
<1>3. CASE \E m \in Messages : Drain(m)
  <2> PICK m \in Messages : Drain(m)
      BY <1>3
  <2>1. CASE Reply(m[1])
    BY <2>1 DEF Reply, tables, runner, world
  <2>2. CASE Enqueue(m[1])
    BY <2>2 DEF Enqueue, ingress, runner, world
  <2>3. CASE Interrupt(m[1])
    BY <2>3 DEF Interrupt, ingress, runner, world
  <2>4. CASE CompleteInbound(m)
    BY <2>4 DEF CompleteInbound, tables, runner, world
  <2>5. CASE TombstoneInbound(m)
    BY <2>5 DEF TombstoneInbound, tables, runner, world
  <2> QED BY <2>1, <2>2, <2>3, <2>4, <2>5 DEF Drain
<1> QED BY <1>1, <1>2, <1>3 DEF Gateway
\* A receipt update keeps the receipts well typed, whatever attempt it is for.
LEMMA SetReceiptTyped ==
  ASSUME NEW j \in Jobs, NEW s \in Receipts, TypeOK, SetReceipt(j, s)
  PROVE  receipt' \in [Jobs -> [Attempts -> Receipts]]
<1>1. receipt \in [Jobs -> [Attempts -> Receipts]]
  BY DEF TypeOK
<1>2. [receipt[j] EXCEPT ![attempts[j]] = s] \in [Attempts -> Receipts]
  BY <1>1
<1> QED BY <1>1, <1>2 DEF SetReceipt

\* So do the updates that settle a row or queue it again.
LEMMA RowTyped ==
  ASSUME NEW j \in Jobs, TypeOK, UNCHANGED <<ingress, engine, barrier>>,
         faults' \in 0 .. MaxFaults, pc' \in Places, mine' \in Jobs \cup {NoJob},
         \/ CancelRow(j) \/ FailRow(j) \/ CompleteRow(j)
         \/ QueueAgain(j, "null") \/ QueueAgain(j, "future")
         \/ UNCHANGED tables
  PROVE  TypeOK'
<1> USE DEF TypeOK, Statuses, ClearExecution, ingress
<1>1. CASE CancelRow(j)
  BY <1>1 DEF CancelRow
<1>2. CASE FailRow(j)
  BY <1>2 DEF FailRow
<1>3. CASE CompleteRow(j)
  BY <1>3 DEF CompleteRow
<1>4. CASE QueueAgain(j, "null")
  BY <1>4 DEF QueueAgain
<1>5. CASE QueueAgain(j, "future")
  BY <1>5 DEF QueueAgain
<1>6. CASE UNCHANGED tables
  BY <1>6 DEF tables
<1> QED BY <1>1, <1>2, <1>3, <1>4, <1>5, <1>6

\* So do the worker and its executor.
LEMMA WorkTypeOK ==
  ASSUME NEW j \in Jobs, TypeOK, Work(j)
  PROVE  TypeOK'
<1> USE BoundAssumption
<1> USE DEF TypeOK, Attempts, Statuses, Receipts, Places, tables, ingress, runner,
           world, At, Goto, LetGo, Fault, SetEngine, ReapEngine
<1>1. CASE Claim(j)
  BY <1>1 DEF Claim, Ready
<1>2. CASE ReleaseAtBarrier(j)
  BY <1>2 DEF ReleaseAtBarrier, ReleaseRow, Dispatch
<1>3. CASE CancelAtClaim(j)
  BY <1>3 DEF CancelAtClaim, CancelRow, ClearExecution
<1>4. CASE PassBarrier(j)
  BY <1>4 DEF PassBarrier
<1>5. CASE Activate(j)
  BY <1>5 DEF Activate
<1>6. CASE BeginDispatch(j)
  BY <1>6, SetReceiptTyped DEF BeginDispatch
<1>7. CASE Acknowledge(j)
  BY <1>7, SetReceiptTyped DEF Acknowledge
<1>8. CASE FinishTurn(j)
  <2>1. receipt' \in [Jobs -> [Attempts -> Receipts]]
    BY <1>8, SetReceiptTyped DEF FinishTurn
  <2>2. accepts' \in [Jobs -> BOOLEAN] /\ turn' \in [Jobs -> {"none", "active", "ended"}]
    BY <1>8 DEF FinishTurn
  <2>3. pc' \in Places /\ mine' = mine
    BY <1>8 DEF FinishTurn
  <2> QED BY <1>8, <2>1, <2>2, <2>3 DEF FinishTurn
<1>9. CASE FinishLimited(j)
  BY <1>9, SetReceiptTyped DEF FinishLimited
<1>10. CASE StopTurn(j)
  BY <1>10 DEF StopTurn
<1>11. CASE Seal(j)
  <2>1. CASE UNCHANGED tables
    BY <1>11, <2>1 DEF Seal
  <2>2. CASE staged' = [staged EXCEPT ![j] = TRUE] /\ accepts' = [accepts EXCEPT ![j] = FALSE]
    BY <1>11, <2>2 DEF Seal
  <2> QED BY <1>11, <2>1, <2>2 DEF Seal
<1>12. CASE NextTurn(j)
  BY <1>12 DEF NextTurn
<1>13. CASE RecheckCancel(j)
  BY <1>13 DEF RecheckCancel
<1>14. CASE Commit(j)
  <2>1. UNCHANGED <<ingress, engine, barrier>> /\ faults' \in 0 .. MaxFaults
        /\ pc' \in Places /\ mine' \in Jobs \cup {NoJob}
    BY <1>14 DEF Commit
  <2>2. CompleteRow(j) \/ UNCHANGED tables
    BY <1>14 DEF Commit
  <2> HIDE DEF TypeOK
  <2> QED BY <2>1, <2>2, RowTyped
<1>15. CASE CancelRun(j)
  BY <1>15 DEF CancelRun, CancelRow, ClearExecution
<1>16. CASE FailRun(j)
  BY <1>16 DEF FailRun, FailRow, ClearExecution
<1>17. CASE Limited(j)
  BY <1>17 DEF Limited
<1>18. CASE Defer(j)
  <2>1. UNCHANGED <<ingress, engine, barrier>> /\ faults' \in 0 .. MaxFaults
        /\ pc' \in Places /\ mine' \in Jobs \cup {NoJob}
    BY <1>18 DEF Defer
  <2>2. QueueAgain(j, "future") \/ UNCHANGED tables
    BY <1>18 DEF Defer, RequeueAt
  <2> HIDE DEF TypeOK
  <2> QED BY <2>1, <2>2, RowTyped
<1>19. CASE Interrupted(j)
  <2>1. UNCHANGED <<ingress, engine, barrier>> /\ faults' \in 0 .. MaxFaults
        /\ pc' \in Places /\ mine' \in Jobs \cup {NoJob}
    BY <1>19 DEF Interrupted
  <2>2. QueueAgain(j, "null") \/ FailRow(j) \/ UNCHANGED tables
    BY <1>19 DEF Interrupted, Requeue
  <2> HIDE DEF TypeOK
  <2> QED BY <2>1, <2>2, RowTyped
<1> QED BY <1>1, <1>2, <1>3, <1>4, <1>5, <1>6, <1>7, <1>8, <1>9, <1>10, <1>11, <1>12, <1>13, <1>14, <1>15, <1>16, <1>17, <1>18, <1>19 DEF Work

\* So does every failure the worker meets.
LEMMA FailureTypeOK ==
  ASSUME NEW j \in Jobs, TypeOK, Failure(j)
  PROVE  TypeOK'
<1> USE BoundAssumption
<1> USE DEF TypeOK, Attempts, Statuses, Receipts, Places, tables, ingress, runner,
           world, At, Goto, LetGo, Fault, SetEngine, ReapEngine
<1>1. CASE MonitorPending(j)
  BY <1>1 DEF MonitorPending, ReleaseRow, Dispatch
<1>2. CASE ExecuteFails(j)
  <2>1. CASE Requeue(j, "future") /\ LetGo("idle")
    BY <1>2, <2>1 DEF ExecuteFails, Requeue, QueueAgain
  <2>2. CASE \E p \in {"limited", "interrupted", "failing"} :
               Goto(p) /\ UNCHANGED tables
    BY <1>2, <2>2 DEF ExecuteFails
  <2> QED BY <1>2, <2>1, <2>2 DEF ExecuteFails
<1>3. CASE Rejected(j)
  <2>1. receipt' \in [Jobs -> [Attempts -> Receipts]]
    BY <1>3, SetReceiptTyped DEF Rejected
  <2>2. pc' \in Places /\ mine' = mine
    BY <1>3 DEF Rejected
  <2> QED BY <1>3, <2>1, <2>2 DEF Rejected
<1>4. CASE Ambiguous(j)
  <2>1. receipt' \in [Jobs -> [Attempts -> Receipts]]
    BY <1>4, SetReceiptTyped DEF Ambiguous
  <2>2. pc' \in Places /\ mine' = mine
    BY <1>4 DEF Ambiguous
  <2>3. faults' \in 0 .. MaxFaults
    BY <1>4 DEF Ambiguous
  <2>4. engine' \in [Jobs -> {"none", "live", "done", "limited", "killed"}]
    BY <1>4 DEF Ambiguous
  <2> QED BY <1>4, <2>1, <2>2, <2>3, <2>4 DEF Ambiguous
<1>5. CASE SoftLimit(j)
  BY <1>5 DEF SoftLimit
<1>6. CASE TurnBreaks(j)
  BY <1>6 DEF TurnBreaks
<1>7. CASE StagedRecoveryRaces(j)
  BY <1>7 DEF StagedRecoveryRaces
<1> QED BY <1>1, <1>2, <1>3, <1>4, <1>5, <1>6, <1>7 DEF Failure

\* Recovery keeps the tables well typed, whatever row it settles.
LEMMA RecoveryTypeOK == TypeOK /\ Recovery => TypeOK'
<1> SUFFICES ASSUME TypeOK, Recovery PROVE TypeOK'
    OBVIOUS
<1> USE DEF TypeOK, Statuses, Places, tables, ingress, runner, world, Goto
<1>1. CASE Boot
  BY <1>1 DEF Boot
<1>2. CASE StagedRecovered
  BY <1>2 DEF StagedRecovered
<1>3. CASE Recovered
  BY <1>3 DEF Recovered
<1>4. ASSUME NEW j \in Jobs, RecoverStaged(j) PROVE TypeOK'
  BY <1>4 DEF RecoverStaged, CompleteRow, ClearExecution
<1>5. ASSUME NEW j \in Jobs, RecoverInterrupted(j) PROVE TypeOK'
  <2>1. UNCHANGED <<ingress, engine, barrier, faults, pc, mine>>
    BY <1>5 DEF RecoverInterrupted
  <2>2. \/ CancelRow(j) \/ FailRow(j)
        \/ QueueAgain(j, "null") \/ QueueAgain(j, "future")
    BY <1>5 DEF RecoverInterrupted, RecoverRow, Requeue, RequeueAt
  <2> QED BY <2>1, <2>2, RowTyped
<1> QED BY <1>1, <1>2, <1>3, <1>4, <1>5 DEF Recovery

\* Every step keeps the tables well typed.
LEMMA NextTypeOK == TypeOK /\ [Next]_vars => TypeOK'
<1> SUFFICES ASSUME TypeOK, [Next]_vars PROVE TypeOK'
    OBVIOUS
<1> USE BoundAssumption
<1> USE DEF Places, tables, ingress, runner, world, Goto, LetGo, Fault
<1>1. CASE Gateway
  BY <1>1, GatewayTypeOK
<1>2. CASE CheckBarrier \/ ClaimNothing
  BY <1>2 DEF TypeOK, CheckBarrier, ClaimNothing
<1>3. ASSUME NEW j \in Jobs, Work(j) PROVE TypeOK'
  BY <1>3, WorkTypeOK
<1>4. ASSUME NEW j \in Jobs, Failure(j) PROVE TypeOK'
  BY <1>4, FailureTypeOK
<1>5. ASSUME NEW j \in Jobs, AppServer(j) PROVE TypeOK'
  <2>1. engine' \in [Jobs -> {"none", "live", "done", "limited", "killed"}]
    <3>1. \E e \in {"live", "done", "limited"} : engine' = [engine EXCEPT ![j] = e]
      BY <1>5 DEF AppServer, Receive, TurnEnds, SetEngine
    <3> QED BY <3>1 DEF TypeOK
  <2>2. faults' \in 0 .. MaxFaults
    BY <1>5 DEF TypeOK, AppServer, Receive, TurnEnds
  <2> QED BY <1>5, <2>1, <2>2 DEF TypeOK, AppServer, Receive, TurnEnds
<1>6. ASSUME NEW j \in Jobs, Tick(j) PROVE TypeOK'
  BY <1>6 DEF TypeOK, Tick
<1>7. CASE Recovery
  BY <1>7, RecoveryTypeOK
<1>8. CASE Crash \/ RaiseBarrier \/ LowerBarrier
  <2>1. faults' \in 0 .. MaxFaults
    BY <1>8 DEF TypeOK, Crash, RaiseBarrier, LowerBarrier
  <2> QED BY <1>8, <2>1 DEF TypeOK, Crash, RaiseBarrier, LowerBarrier
<1>9. CASE UNCHANGED vars
  BY <1>9 DEF TypeOK, vars
<1> QED BY <1>1, <1>2, <1>3, <1>4, <1>5, <1>6, <1>7, <1>8, <1>9 DEF Next

\* The columns and the runner's memory keep their types in every behaviour.
THEOREM TypeCorrect == Spec => []TypeOK
  BY InitTypeOK, NextTypeOK, PTL DEF Spec

-----------------------------------------------------------------------------
(* The inductive invariant, in four parts.                                 *)

Before    == {"claimed", "doomed", "prepare", "execute"}
Executing == {"sending", "turn", "ended", "again"}
Closing   == {"staged", "committing", "cancelling", "failing", "limited",
              "deferring", "interrupted"}

\* The worker holds the only running row, and a live Codex process is that
\* row's: of the executor that waits for it, or left behind by a crash.
Holding ==
  /\ pc \in Before \cup Executing \cup Closing
       => mine \in Jobs /\ status[mine] = "running"
  /\ \A i, j \in Jobs :
       status[i] = "running" /\ status[j] = "running" => i = j
  /\ \A j \in Jobs : engine[j] = "live" =>
       /\ status[j] = "running"
       /\ pc = "down" \/ (pc \in {"sending", "turn"} /\ mine = j)

\* Rows are numbered as they are made, and a row is not attempted before it is.
Numbering ==
  /\ \A j \in Jobs : seq[j] <= lastSeq
  /\ \A j \in Jobs : status[j] = "absent" <=> seq[j] = 0
  /\ \A j \in Jobs : status[j] = "absent" => attempts[j] = 0
  /\ ThreadOrder

\* Nothing was delivered since the attempt that the terminal limit names.
UntouchedSince(j, last) ==
  \A a \in Attempts : limit[j] < a /\ a <= last
                        => receipt[j][a] \in {"prepared", "rejected"}

\* A terminal limit stays the last thing Codex did while nothing is delivered.
Limiting ==
  /\ \A j \in Jobs : limit[j] <= attempts[j]
  /\ \A j \in Jobs : limit[j] # 0 /\ UntouchedSince(j, attempts[j])
                       => engine[j] = "limited"
  /\ pc \in Before \cup {"sending", "turn"} => limit[mine] < attempts[mine]
  /\ pc = "sending" /\ limit[mine] # 0
       /\ UntouchedSince(mine, attempts[mine] - 1)
         => engine[mine] \in {"limited", "live"}
  /\ pc \in {"ended", "again"} => limit[mine] = 0

\* What the receipt of the attempt says of Codex, and what becomes of a write.
Prompting ==
  /\ \A j \in Jobs : status[j] = "absent" => engine[j] = "none"
  /\ \A j \in Jobs : Write(j) /\ status[j] = "running" /\ Undelivered(j)
                       => engine[j] \in {"none", "limited"}
  /\ NoUncertainReplay
  /\ pc \in Before => Dispatch(mine) = "prepared"
  /\ pc = "sending" =>
       /\ Dispatch(mine) = "dispatching"
       /\ Write(mine) => engine[mine] \in {"none", "limited", "live"}
  /\ pc \in {"turn", "ended", "again"} =>
       Dispatch(mine) \in {"acknowledged", "observed"}

\* What a result rests on, from the end of the turn to the commit.
Resulting ==
  /\ \A j \in Jobs : staged[j] =>
       /\ status[j] = "running" /\ engine[j] = "done"
       /\ turn[j] = "ended" /\ ~accepts[j]
  /\ \A j \in Jobs : status[j] = "completed" => engine[j] = "done"
  /\ \A j \in Jobs : status[j] = "running" /\ notBefore[j] # "null"
                       => Dispatch(j) \in {"acknowledged", "observed"}
  /\ pc \in Before \cup {"sending"} =>
       turn[mine] = "none" /\ notBefore[mine] = "null"
  /\ pc \in Before \cup Executing => ~staged[mine]
  /\ pc \in {"ended", "again"} => engine[mine] = "done" /\ turn[mine] = "ended"
  /\ pc \in {"staged", "committing"} => staged[mine]

Consistent ==
  /\ TypeOK /\ CancelExcludesSuccess
  /\ Holding /\ Numbering /\ Limiting /\ Prompting /\ Resulting

-----------------------------------------------------------------------------
(* Kinds of step.  Most actions matter to the invariant in one of a few    *)
(* ways only.                                                              *)

\* Neither the rows nor Codex change, and the runner at most stops or moves
\* between places where it holds nothing.
Elsewhere ==
  /\ UNCHANGED <<tables, engine>>
  /\ \/ UNCHANGED runner
     \/ pc' = "down"
     \/ /\ pc \in {"boot", "settle", "idle", "checked"}
        /\ pc' \in {"boot", "settle", "idle", "checked"}

\* A running row goes back to the queue or is settled.
Leaves(j) ==
  /\ status[j] = "running"
  /\ \E s \in {"queued", "completed", "failed"} :
       status' = [status EXCEPT ![j] = s]
  /\ status'[j] = "queued" => ~Write(j) \/ Undelivered(j) \/ DurableLimit(j)
  /\ status'[j] = "completed" => staged[j] /\ ~cancel[j]
  /\ outcome'[j] = "cancelled" => cancel[j] \/ outcome[j] = "cancelled"
  /\ \A i \in Jobs \ {j} :
       /\ outcome'[i] = outcome[i] /\ accepts'[i] = accepts[i]
       /\ notBefore'[i] = notBefore[i] /\ turn'[i] = turn[i]
  /\ staged' = [staged EXCEPT ![j] = FALSE]
  /\ pc' \in {"down", "boot", "settle", "idle"}
  /\ UNCHANGED <<seq, attempts, cancel, limit, receipt, lastSeq, engine>>
  /\ pc \notin {"down", "sending", "turn"}

\* The worker or Codex moves on within one attempt.
Attempting == UNCHANGED <<status, seq, attempts, cancel, outcome, lastSeq>>

\* The row updates that let go of a running row.
LEMMA RowUpdates ==
  ASSUME NEW j \in Jobs, TypeOK, UNCHANGED engine,
         pc \notin {"down", "sending", "turn"},
         pc' \in {"down", "boot", "settle", "idle"},
         \/ CancelRow(j) \/ FailRow(j)
         \/ CompleteRow(j) /\ status[j] = "running" /\ staged[j] /\ ~cancel[j]
         \/ Requeue(j, "null") \/ Requeue(j, "future")
         \/ RequeueAt(j) /\ (Write(j) => Undelivered(j) \/ DurableLimit(j))
         \/ (QueueAgain(j, "null") /\ KindOf[j] = "audit")
  PROVE  Leaves(j)
<1> USE DEF TypeOK, Statuses, ClearExecution, Leaves
<1>1. CASE CancelRow(j)
  BY <1>1 DEF CancelRow
<1>2. CASE FailRow(j)
  BY <1>2 DEF FailRow
<1>3. CASE CompleteRow(j) /\ status[j] = "running" /\ staged[j] /\ ~cancel[j]
  BY <1>3 DEF CompleteRow
<1>4. CASE Requeue(j, "null") \/ Requeue(j, "future")
  BY <1>4 DEF Requeue, QueueAgain
<1>5. CASE RequeueAt(j) /\ (Write(j) => Undelivered(j) \/ DurableLimit(j))
  BY <1>5 DEF RequeueAt, QueueAgain
<1>6. CASE QueueAgain(j, "null") /\ KindOf[j] = "audit"
  BY <1>6 DEF QueueAgain, Write
<1> QED BY <1>1, <1>2, <1>3, <1>4, <1>5, <1>6

\* requeueAt defers a write only on proof that nothing is uncertain.
LEMMA DeferredWrite ==
  ASSUME NEW j \in Jobs, RequeueAt(j)
  PROVE  Write(j) => Undelivered(j) \/ DurableLimit(j)
  BY DEF RequeueAt, DeferrableAt

\* Every action that ends the worker's or recovery's hold on a row lets the
\* row go in one of these ways, or stops the daemon and leaves it as it is.
LEMMA LeavingSteps ==
  ASSUME NEW j \in Jobs, TypeOK, Resulting,
         \/ CancelAtClaim(j) \/ Commit(j) \/ CancelRun(j) \/ FailRun(j)
         \/ Defer(j) \/ Interrupted(j)
         \/ RecoverStaged(j) \/ RecoverInterrupted(j)
  PROVE  Leaves(j) \/ Elsewhere \/ (Commit(j) /\ cancel[j] /\ Goto("cancelling")
                                       /\ UNCHANGED <<tables, engine>>)
<1> USE DEF At, LetGo, Goto, world, runner
<1>1. CASE CancelAtClaim(j) \/ CancelRun(j) \/ FailRun(j)
  BY <1>1, RowUpdates DEF CancelAtClaim, CancelRun, FailRun
<1>2. CASE Commit(j)
  <2>1. CASE CanComplete(j)
    BY <1>2, <2>1, RowUpdates DEF Commit, CanComplete, Resulting
  <2>2. CASE ~CanComplete(j) /\ cancel[j]
    BY <1>2, <2>2 DEF Commit
  <2>3. CASE ~CanComplete(j) /\ ~cancel[j]
    BY <1>2, <2>3 DEF Commit, Elsewhere
  <2> QED BY <2>1, <2>2, <2>3
<1>3. CASE Defer(j)
  <2>1. CASE DeferrableAt(j)
    BY <1>3, <2>1, RowUpdates, DeferredWrite DEF Defer
  <2>2. CASE ~DeferrableAt(j)
    BY <1>3, <2>2 DEF Defer, Elsewhere
  <2> QED BY <2>1, <2>2
<1>4. CASE Interrupted(j)
  <2>1. CASE KindOf[j] = "audit" /\ ~Undelivered(j)
    BY <1>4, <2>1 DEF Interrupted, Elsewhere
  <2>2. CASE ~(KindOf[j] = "audit" /\ ~Undelivered(j))
    <3>1. FailRow(j) \/ Requeue(j, "null")
      BY <1>4, <2>2 DEF Interrupted
    <3> QED BY <1>4, <3>1, RowUpdates DEF Interrupted
  <2> QED BY <2>1, <2>2
<1>5. CASE RecoverStaged(j)
  BY <1>5, RowUpdates DEF RecoverStaged, Recoverable
<1>6. CASE RecoverInterrupted(j)
  <2>1. \/ CancelRow(j) \/ FailRow(j) \/ RequeueAt(j) \/ Requeue(j, "null")
        \/ (QueueAgain(j, "null") /\ KindOf[j] = "audit")
    BY <1>6 DEF RecoverInterrupted, RecoverRow
  <2> QED BY <1>6, <2>1, RowUpdates, DeferredWrite DEF RecoverInterrupted
<1> QED BY <1>1, <1>2, <1>3, <1>4, <1>5, <1>6

\* What a step of the specification can be.
LEMMA StepKinds ==
  ASSUME Consistent, [Next]_vars
  PROVE  \/ Elsewhere
         \/ Boot
         \/ \E j \in Jobs :
              \/ Leaves(j)
              \/ Enqueue(j) \/ Interrupt(j) \/ Claim(j) \/ PassBarrier(j)
              \/ /\ ReleaseRow(j) /\ LetGo(pc') /\ pc \in Before /\ mine = j
                 /\ pc' \in {"idle", "down"} /\ UNCHANGED engine
              \/ Activate(j) \/ BeginDispatch(j) \/ Receive(j) \/ Acknowledge(j)
              \/ /\ At(j, "execute") /\ UNCHANGED <<tables, engine>>
                 /\ \E p \in {"limited", "interrupted", "failing"} : Goto(p)
              \/ Rejected(j) \/ Ambiguous(j) \/ TurnEnds(j) \/ SoftLimit(j)
              \/ FinishTurn(j) \/ FinishLimited(j) \/ TurnBreaks(j) \/ StopTurn(j)
              \/ Seal(j) \/ NextTurn(j) \/ RecheckCancel(j) \/ Limited(j) \/ Tick(j)
              \/ /\ At(j, "committing") /\ cancel[j] /\ Goto("cancelling")
                 /\ UNCHANGED <<tables, engine>>
<1> USE DEF Consistent
<1>1. CASE Gateway
  <2>1. ASSUME NEW j \in Jobs, StageRequest(j) \/ StageInterrupt(j) PROVE Elsewhere
    BY <2>1 DEF StageRequest, StageInterrupt, tables, runner, world, Elsewhere
  <2>2. ASSUME NEW m \in Messages, Drain(m)
        PROVE  Elsewhere \/ Enqueue(m[1]) \/ Interrupt(m[1])
    BY <2>2 DEF Drain, Reply, CompleteInbound, TombstoneInbound, tables, runner,
                world, Elsewhere
  <2> QED BY <1>1, <2>1, <2>2 DEF Gateway, Messages
<1>2. CASE CheckBarrier \/ ClaimNothing \/ StagedRecovered \/ Recovered \/ Crash
            \/ RaiseBarrier \/ LowerBarrier \/ UNCHANGED vars
  BY <1>2 DEF CheckBarrier, ClaimNothing, StagedRecovered, Recovered, Crash,
              RaiseBarrier, LowerBarrier, vars, tables, runner, world, Goto,
              LetGo, Elsewhere
<1>3. ASSUME NEW j \in Jobs,
             \/ CancelAtClaim(j) \/ Commit(j) \/ CancelRun(j) \/ FailRun(j)
             \/ Defer(j) \/ Interrupted(j)
             \/ RecoverStaged(j) \/ RecoverInterrupted(j)
      PROVE  \/ Leaves(j) \/ Elsewhere
             \/ /\ At(j, "committing") /\ cancel[j] /\ Goto("cancelling")
                /\ UNCHANGED <<tables, engine>>
  BY <1>3, LeavingSteps DEF Commit
<1>4. ASSUME NEW j \in Jobs, ReleaseAtBarrier(j) \/ MonitorPending(j)
      PROVE  /\ ReleaseRow(j) /\ LetGo(pc') /\ pc \in Before /\ mine = j
             /\ pc' \in {"idle", "down"} /\ UNCHANGED engine
  BY <1>4 DEF ReleaseAtBarrier, MonitorPending, At, LetGo, Before, world
<1>5. ASSUME NEW j \in Jobs, ExecuteFails(j)
      PROVE  \/ Leaves(j)
             \/ /\ At(j, "execute") /\ UNCHANGED <<tables, engine>>
                /\ \E p \in {"limited", "interrupted", "failing"} : Goto(p)
  <2>1. CASE Requeue(j, "future") /\ LetGo("idle")
    BY <1>5, <2>1, RowUpdates DEF ExecuteFails, At, LetGo
  <2> QED BY <1>5, <2>1 DEF ExecuteFails
<1>6. ASSUME NEW j \in Jobs, StagedRecoveryRaces(j) PROVE Elsewhere
  BY <1>6 DEF StagedRecoveryRaces, LetGo, Elsewhere
<1> QED BY <1>1, <1>2, <1>3, <1>4, <1>5, <1>6
        DEF Next, Work, Failure, AppServer, Recovery

\* A receipt update writes the attempt in progress and no other.
LEMMA ReceiptWritten ==
  ASSUME NEW j \in Jobs, NEW s \in Receipts, TypeOK, SetReceipt(j, s), attempts[j] # 0
  PROVE  /\ attempts[j] \in Attempts
         /\ \A i \in Jobs, a \in Attempts :
              receipt'[i][a] = IF i = j /\ a = attempts[j] THEN s ELSE receipt[i][a]
<1>1. attempts[j] \in Attempts
  BY BoundAssumption DEF TypeOK, Attempts
<1>2. receipt \in [Jobs -> [Attempts -> Receipts]]
  BY DEF TypeOK
<1> QED BY <1>1, <1>2 DEF SetReceipt

\* A claim writes the receipt of the new attempt and no other.
LEMMA ReceiptPrepared ==
  ASSUME NEW j \in Jobs, TypeOK, Claim(j)
  PROVE  /\ attempts[j] \in Nat /\ attempts[j] + 1 \in Attempts
         /\ attempts' = [attempts EXCEPT ![j] = attempts[j] + 1]
         /\ \A i \in Jobs, a \in Attempts :
              receipt'[i][a] = IF i = j /\ a = attempts[j] + 1 THEN "prepared"
                                                              ELSE receipt[i][a]
<1>1. attempts[j] \in Nat /\ attempts[j] + 1 \in Attempts
  BY BoundAssumption DEF TypeOK, Claim, Attempts
<1>2. receipt \in [Jobs -> [Attempts -> Receipts]]
  BY DEF TypeOK
<1>3. receipt' = [receipt EXCEPT ![j][attempts[j] + 1] = "prepared"]
  BY DEF Claim
<1>4. attempts' = [attempts EXCEPT ![j] = attempts[j] + 1]
  BY DEF Claim
<1> QED BY <1>1, <1>2, <1>3, <1>4

\* A released claim takes its receipt and its number back.
LEMMA ReceiptReleased ==
  ASSUME NEW j \in Jobs, TypeOK, ReleaseRow(j)
  PROVE  /\ attempts[j] \in Attempts /\ receipt[j][attempts[j]] = "prepared"
         /\ attempts' = [attempts EXCEPT ![j] = attempts[j] - 1]
         /\ \A i \in Jobs, a \in Attempts :
              receipt'[i][a] = IF i = j /\ a = attempts[j] THEN "none"
                                                          ELSE receipt[i][a]
<1>1. attempts[j] # 0 /\ receipt[j][attempts[j]] = "prepared"
  BY DEF ReleaseRow, Dispatch
<1>2. attempts[j] \in Attempts
  BY <1>1, BoundAssumption DEF TypeOK, Attempts
<1>3. receipt \in [Jobs -> [Attempts -> Receipts]]
  BY DEF TypeOK
<1>4. attempts' = [attempts EXCEPT ![j] = attempts[j] - 1]
  BY DEF ReleaseRow
<1>5. receipt' = [receipt EXCEPT ![j][attempts[j]] = "none"]
  BY DEF ReleaseRow
<1> QED BY <1>1, <1>2, <1>3, <1>4, <1>5

\* No step takes the row from the worker or leaves a Codex process behind.
LEMMA HoldingStep == Consistent /\ [Next]_vars => Holding'
<1> SUFFICES ASSUME Consistent, [Next]_vars PROVE Holding'
    OBVIOUS
<1> USE DEF Consistent, TypeOK, tables, runner, world, ingress, Holding,
           Statuses, SetEngine, ReapEngine, At, Goto, LetGo, Before,
           Executing, Closing
<1>1. CASE Elsewhere
  BY <1>1 DEF Elsewhere
<1>2. ASSUME NEW j \in Jobs, Leaves(j) PROVE Holding'
  BY <1>2 DEF Leaves
<1>3. ASSUME NEW j \in Jobs, Enqueue(j) PROVE Holding'
  BY <1>3 DEF Enqueue, HandedOff
<1>4. ASSUME NEW j \in Jobs, Interrupt(j) PROVE Holding'
  BY <1>4 DEF Interrupt, Unsettled
<1>5. ASSUME NEW j \in Jobs, Claim(j) PROVE Holding'
  BY <1>5 DEF Claim
<1>6. ASSUME NEW j \in Jobs, ReleaseRow(j), LetGo(pc'), pc \in Before, mine = j,
              pc' \in {"idle", "down"}, UNCHANGED engine
      PROVE  Holding'
  BY <1>6 DEF ReleaseRow
<1>7. ASSUME NEW j \in Jobs, PassBarrier(j) PROVE Holding'
  BY <1>7 DEF PassBarrier
<1>8. ASSUME NEW j \in Jobs, Activate(j) PROVE Holding'
  BY <1>8 DEF Activate
<1>9. ASSUME NEW j \in Jobs, BeginDispatch(j) PROVE Holding'
  BY <1>9 DEF BeginDispatch, SetReceipt
<1>10. ASSUME NEW j \in Jobs, At(j, "execute"), UNCHANGED <<tables, engine>>,
              \E p \in {"limited", "interrupted", "failing"} : Goto(p)
      PROVE  Holding'
  BY <1>10
<1>11. ASSUME NEW j \in Jobs, Receive(j) PROVE Holding'
  BY <1>11 DEF Receive
<1>12. ASSUME NEW j \in Jobs, Acknowledge(j) PROVE Holding'
  BY <1>12 DEF Acknowledge, SetReceipt
<1>13. ASSUME NEW j \in Jobs, Rejected(j) PROVE Holding'
  BY <1>13 DEF Rejected, SetReceipt
<1>14. ASSUME NEW j \in Jobs, Ambiguous(j) PROVE Holding'
  BY <1>14 DEF Ambiguous, SetReceipt
<1>15. ASSUME NEW j \in Jobs, TurnEnds(j) PROVE Holding'
  BY <1>15 DEF TurnEnds
<1>16. ASSUME NEW j \in Jobs, SoftLimit(j) PROVE Holding'
  BY <1>16 DEF SoftLimit
<1>17. ASSUME NEW j \in Jobs, FinishTurn(j) PROVE Holding'
  BY <1>17 DEF FinishTurn, SetReceipt, CompletedTurn
<1>18. ASSUME NEW j \in Jobs, FinishLimited(j) PROVE Holding'
  BY <1>18 DEF FinishLimited, SetReceipt
<1>19. ASSUME NEW j \in Jobs, TurnBreaks(j) PROVE Holding'
  BY <1>19 DEF TurnBreaks
<1>20. ASSUME NEW j \in Jobs, StopTurn(j) PROVE Holding'
  BY <1>20 DEF StopTurn
<1>21. ASSUME NEW j \in Jobs, Seal(j) PROVE Holding'
  BY <1>21 DEF Seal
<1>22. ASSUME NEW j \in Jobs, NextTurn(j) PROVE Holding'
  BY <1>22 DEF NextTurn
<1>23. ASSUME NEW j \in Jobs, RecheckCancel(j) PROVE Holding'
  BY <1>23 DEF RecheckCancel
<1>24. ASSUME NEW j \in Jobs, At(j, "committing"), cancel[j], Goto("cancelling"),
              UNCHANGED <<tables, engine>>
      PROVE  Holding'
  BY <1>24
<1>25. ASSUME NEW j \in Jobs, Limited(j) PROVE Holding'
  BY <1>25 DEF Limited
<1>26. ASSUME NEW j \in Jobs, Tick(j) PROVE Holding'
  BY <1>26 DEF Tick
<1>27. CASE Boot
  BY <1>27 DEF Boot
<1> QED
  BY <1>1, <1>2, <1>3, <1>4, <1>5, <1>6, <1>7, <1>8, <1>9, <1>10, <1>11,
     <1>12, <1>13, <1>14, <1>15, <1>16, <1>17, <1>18, <1>19, <1>20, <1>21,
     <1>22, <1>23, <1>24, <1>25, <1>26, <1>27, StepKinds

\* A terminal limit is forgotten by no step that leaves Codex alone.
LEMMA LimitingStep == Consistent /\ [Next]_vars => Limiting'
<1> SUFFICES ASSUME Consistent, [Next]_vars PROVE Limiting'
    OBVIOUS
<1> USE DEF Consistent, TypeOK, tables, runner, world, ingress, Holding,
           Limiting, Prompting, UntouchedSince, Attempts, Dispatch,
           Receipts, Statuses, SetEngine, ReapEngine, At, Goto, LetGo,
           Before, Executing, Closing
<1>1. CASE Elsewhere
  BY <1>1 DEF Elsewhere
<1>2. ASSUME NEW j \in Jobs, Leaves(j) PROVE Limiting'
  BY <1>2 DEF Leaves
<1>3. ASSUME NEW j \in Jobs, Enqueue(j) PROVE Limiting'
  BY <1>3 DEF Enqueue, HandedOff
<1>4. ASSUME NEW j \in Jobs, Interrupt(j) PROVE Limiting'
  BY <1>4 DEF Interrupt, Unsettled
<1>5. ASSUME NEW j \in Jobs, Claim(j) PROVE Limiting'
  <2>1. /\ attempts[j] \in Nat /\ attempts[j] + 1 \in Attempts
        /\ attempts' = [attempts EXCEPT ![j] = attempts[j] + 1]
        /\ \A i \in Jobs, a \in Attempts :
             receipt'[i][a] = IF i = j /\ a = attempts[j] + 1 THEN "prepared"
                                                             ELSE receipt[i][a]
    BY <1>5, ReceiptPrepared
  <2>2. pc' \in Before /\ mine' = j /\ UNCHANGED <<limit, engine>>
    BY <1>5 DEF Claim
  <2>0. /\ limit \in [Jobs -> Nat] /\ attempts \in [Jobs -> Nat]
        /\ Attempts \subseteq Nat
        /\ Limiting
    BY BoundAssumption
  <2> HIDE DEF Consistent, Attempts
  <2>3. ASSUME NEW i \in Jobs, limit'[i] # 0, UntouchedSince(i, attempts[i])'
        PROVE  engine'[i] = "limited"
    <3>1. UntouchedSince(i, attempts[i])
      BY <2>0, <2>1, <2>2, <2>3
    <3> QED BY <2>0, <2>2, <2>3, <3>1
  <2> QED BY <2>0, <2>1, <2>2, <2>3
<1>6. ASSUME NEW j \in Jobs, ReleaseRow(j), LetGo(pc'), pc \in Before, mine = j,
              pc' \in {"idle", "down"}, UNCHANGED engine
      PROVE  Limiting'
  <2>1. /\ attempts[j] \in Attempts /\ receipt[j][attempts[j]] = "prepared"
        /\ attempts' = [attempts EXCEPT ![j] = attempts[j] - 1]
        /\ \A i \in Jobs, a \in Attempts :
             receipt'[i][a] = IF i = j /\ a = attempts[j] THEN "none"
                                                         ELSE receipt[i][a]
    BY <1>6, ReceiptReleased
  <2>2. UNCHANGED limit /\ limit[j] < attempts[j]
    BY <1>6 DEF ReleaseRow
  <2>0. /\ limit \in [Jobs -> Nat] /\ attempts \in [Jobs -> Nat]
        /\ Attempts \subseteq Nat
        /\ Limiting
    BY BoundAssumption
  <2> HIDE DEF Consistent, Attempts
  <2>3. ASSUME NEW i \in Jobs, limit'[i] # 0, UntouchedSince(i, attempts[i])'
        PROVE  engine'[i] = "limited"
    <3>1. UntouchedSince(i, attempts[i])
      <4>1. CASE i = j
        <5> SUFFICES ASSUME NEW a \in Attempts, limit[j] < a, a <= attempts[j]
                     PROVE  receipt[j][a] \in {"prepared", "rejected"}
            BY <4>1
        <5>1. CASE a = attempts[j]
          BY <2>1, <5>1
        <5>2. CASE a # attempts[j]
          <6>1. a \in Nat /\ attempts[j] \in Nat /\ attempts'[j] = attempts[j] - 1
            BY <2>0, <2>1
          <6>2. a <= attempts'[j]
            BY <5>2, <6>1
          <6> QED BY <2>1, <2>2, <2>3, <4>1, <5>2, <6>2
        <5> QED BY <5>1, <5>2
      <4>2. CASE i # j
        BY <2>0, <2>1, <2>2, <2>3, <4>2
      <4> QED BY <4>1, <4>2
    <3> QED BY <1>6, <2>0, <2>2, <2>3, <3>1
  <2>4. \A i \in Jobs : limit'[i] <= attempts'[i]
    BY <2>0, <2>1, <2>2
  <2> QED BY <1>6, <2>0, <2>3, <2>4
<1>7. ASSUME NEW j \in Jobs, PassBarrier(j) PROVE Limiting'
  BY <1>7 DEF PassBarrier
<1>8. ASSUME NEW j \in Jobs, Activate(j) PROVE Limiting'
  BY <1>8 DEF Activate
<1>9. ASSUME NEW j \in Jobs, BeginDispatch(j) PROVE Limiting'
  <2>1. CASE cancel[j]
    BY <1>9, <2>1 DEF BeginDispatch
  <2>2. CASE ~cancel[j]
    <3>1. attempts[j] # 0 /\ receipt[j][attempts[j]] = "prepared" /\ pc = "execute" /\ mine = j
      BY <1>9 DEF BeginDispatch
    <3>2. /\ attempts[j] \in Attempts
          /\ \A i \in Jobs, a \in Attempts :
               receipt'[i][a] = IF i = j /\ a = attempts[j] THEN "dispatching"
                                                           ELSE receipt[i][a]
      BY <1>9, <2>2, <3>1, ReceiptWritten DEF BeginDispatch
    <3>3. pc' = "sending" /\ mine' = j /\ UNCHANGED <<limit, attempts, engine>>
      BY <1>9, <2>2 DEF BeginDispatch
    <3>0. /\ limit \in [Jobs -> Nat] /\ attempts \in [Jobs -> Nat]
          /\ Attempts \subseteq Nat
          /\ Limiting
      BY BoundAssumption
    <3> HIDE DEF Consistent, Attempts
    <3>4. ASSUME NEW i \in Jobs, limit'[i] # 0, UntouchedSince(i, attempts[i])'
          PROVE  engine'[i] = "limited"
      BY <3>0, <3>1, <3>2, <3>3, <3>4
    <3>5. ASSUME limit'[j] # 0, UntouchedSince(j, attempts[j] - 1)'
          PROVE  engine'[j] = "limited"
      <4>1. UntouchedSince(j, attempts[j])
        BY <3>0, <3>1, <3>2, <3>3, <3>5
      <4> QED BY <3>0, <3>3, <3>5, <4>1
    <3> QED BY <3>0, <3>1, <3>3, <3>4, <3>5
  <2> QED BY <2>1, <2>2
<1>10. ASSUME NEW j \in Jobs, At(j, "execute"), UNCHANGED <<tables, engine>>,
              \E p \in {"limited", "interrupted", "failing"} : Goto(p)
      PROVE  Limiting'
  BY <1>10
<1>11. ASSUME NEW j \in Jobs, Receive(j) PROVE Limiting'
  <2>1. pc = "sending" /\ mine = j /\ attempts[j] # 0
        /\ receipt[j][attempts[j]] = "dispatching" /\ engine' = [engine EXCEPT ![j] = "live"]
    BY <1>11 DEF Receive
  <2>2. ~UntouchedSince(j, attempts[j]) \/ limit[j] = 0
    <3>1. attempts[j] \in Attempts /\ limit[j] < attempts[j] /\ attempts[j] <= attempts[j]
      BY <2>1, BoundAssumption
    <3> HIDE DEF Consistent, Attempts
    <3> QED BY <2>1, <3>1
  <2>3. UNCHANGED <<limit, attempts, receipt, runner>>
        /\ \A i \in Jobs \ {j} : engine'[i] = engine[i]
    BY <1>11 DEF Receive
  <2> QED BY <1>11, <2>1, <2>2, <2>3
<1>12. ASSUME NEW j \in Jobs, Acknowledge(j) PROVE Limiting'
  <2>1. attempts[j] # 0 /\ pc = "sending" /\ mine = j
    BY <1>12 DEF Acknowledge
  <2>2. /\ attempts[j] \in Attempts
        /\ \A i \in Jobs, a \in Attempts :
             receipt'[i][a] = IF i = j /\ a = attempts[j] THEN "acknowledged"
                                                         ELSE receipt[i][a]
    BY <1>12, <2>1, ReceiptWritten DEF Acknowledge
  <2>3. pc' = "turn" /\ mine' = j /\ UNCHANGED <<limit, attempts, engine>>
    BY <1>12 DEF Acknowledge
  <2>0. /\ limit \in [Jobs -> Nat] /\ attempts \in [Jobs -> Nat]
        /\ Attempts \subseteq Nat
        /\ Limiting
    BY BoundAssumption
  <2> HIDE DEF Consistent, Attempts
  <2> QED BY <2>0, <2>1, <2>2, <2>3
<1>13. ASSUME NEW j \in Jobs, Rejected(j) PROVE Limiting'
  BY <1>13 DEF Rejected, SetReceipt
<1>14. ASSUME NEW j \in Jobs, Ambiguous(j) PROVE Limiting'
  <2>1. attempts[j] # 0 /\ pc = "sending" /\ mine = j
    BY <1>14 DEF Ambiguous
  <2>2. /\ attempts[j] \in Attempts
        /\ \A i \in Jobs, a \in Attempts :
             receipt'[i][a] = IF i = j /\ a = attempts[j] THEN "ambiguous"
                                                         ELSE receipt[i][a]
    BY <1>14, <2>1, ReceiptWritten DEF Ambiguous
  <2>3. pc' \in Closing /\ mine' = j /\ UNCHANGED <<limit, attempts>>
        /\ \A i \in Jobs \ {j} : engine'[i] = engine[i]
    BY <1>14 DEF Ambiguous
  <2>0. /\ limit \in [Jobs -> Nat] /\ attempts \in [Jobs -> Nat]
        /\ Attempts \subseteq Nat
        /\ Limiting
    BY BoundAssumption
  <2> HIDE DEF Consistent, Attempts
  <2> QED BY <2>0, <2>1, <2>2, <2>3
<1>15. ASSUME NEW j \in Jobs, TurnEnds(j) PROVE Limiting'
  <2>1. engine[j] = "live" /\ ~At(j, "sending")
    BY <1>15 DEF TurnEnds
  <2>2. ~UntouchedSince(j, attempts[j]) \/ limit[j] = 0
    BY <2>1
  <2>3. UNCHANGED <<limit, attempts, receipt, runner>>
        /\ \A i \in Jobs \ {j} : engine'[i] = engine[i]
    BY <1>15 DEF TurnEnds
  <2> QED BY <1>15, <2>1, <2>2, <2>3
<1>16. ASSUME NEW j \in Jobs, SoftLimit(j) PROVE Limiting'
  BY <1>16 DEF SoftLimit
<1>17. ASSUME NEW j \in Jobs, FinishTurn(j) PROVE Limiting'
  BY <1>17 DEF FinishTurn, SetReceipt, CompletedTurn
<1>18. ASSUME NEW j \in Jobs, FinishLimited(j) PROVE Limiting'
  BY <1>18 DEF FinishLimited, SetReceipt
<1>19. ASSUME NEW j \in Jobs, TurnBreaks(j) PROVE Limiting'
  BY <1>19 DEF TurnBreaks
<1>20. ASSUME NEW j \in Jobs, StopTurn(j) PROVE Limiting'
  BY <1>20 DEF StopTurn
<1>21. ASSUME NEW j \in Jobs, Seal(j) PROVE Limiting'
  <2>1. CASE UNCHANGED tables
    BY <1>21, <2>1 DEF Seal
  <2>2. CASE ~cancel[j] /\ ~InboundPending(j)
    <3>1. staged' = [staged EXCEPT ![j] = TRUE] /\ accepts' = [accepts EXCEPT ![j] = FALSE]
      BY <1>21, <2>2 DEF Seal
    <3>2. pc' = "staged" /\ mine' = j /\ UNCHANGED <<status, engine, turn, notBefore>>
          /\ UNCHANGED <<attempts, limit, receipt>>
      BY <1>21, <2>2 DEF Seal
    <3>3. pc = "ended" /\ mine = j
      BY <1>21 DEF Seal
    <3> QED BY <3>1, <3>2, <3>3
  <2> QED BY <1>21, <2>1, <2>2 DEF Seal
<1>22. ASSUME NEW j \in Jobs, NextTurn(j) PROVE Limiting'
  BY <1>22 DEF NextTurn
<1>23. ASSUME NEW j \in Jobs, RecheckCancel(j) PROVE Limiting'
  BY <1>23 DEF RecheckCancel
<1>24. ASSUME NEW j \in Jobs, At(j, "committing"), cancel[j], Goto("cancelling"),
              UNCHANGED <<tables, engine>>
      PROVE  Limiting'
  BY <1>24
<1>25. ASSUME NEW j \in Jobs, Limited(j) PROVE Limiting'
  BY <1>25 DEF Limited
<1>26. ASSUME NEW j \in Jobs, Tick(j) PROVE Limiting'
  BY <1>26 DEF Tick
<1>27. CASE Boot
  BY <1>27 DEF Boot
<1> QED
  BY <1>1, <1>2, <1>3, <1>4, <1>5, <1>6, <1>7, <1>8, <1>9, <1>10, <1>11,
     <1>12, <1>13, <1>14, <1>15, <1>16, <1>17, <1>18, <1>19, <1>20, <1>21,
     <1>22, <1>23, <1>24, <1>25, <1>26, <1>27, StepKinds

\* Receipts stay ahead of what Codex may have received.
LEMMA PromptingStep == Consistent /\ [Next]_vars => Prompting'
<1> SUFFICES ASSUME Consistent, [Next]_vars PROVE Prompting'
    OBVIOUS
<1> USE DEF Consistent, TypeOK, tables, runner, world, ingress, Holding,
           Prompting, NoUncertainReplay, Attempts, Dispatch, Undelivered,
           Receipts, Statuses, SetEngine, ReapEngine, At, Goto, LetGo,
           Before, Executing, Closing
<1>1. CASE Elsewhere
  BY <1>1 DEF Elsewhere
<1>2. ASSUME NEW j \in Jobs, Leaves(j) PROVE Prompting'
  BY <1>2 DEF Leaves, DurableLimit, Limiting, UntouchedSince
<1>3. ASSUME NEW j \in Jobs, Enqueue(j) PROVE Prompting'
  BY <1>3 DEF Enqueue, HandedOff
<1>4. ASSUME NEW j \in Jobs, Interrupt(j) PROVE Prompting'
  BY <1>4 DEF Interrupt, Unsettled
<1>5. ASSUME NEW j \in Jobs, Claim(j) PROVE Prompting'
  <2>1. /\ attempts[j] \in Nat /\ attempts[j] + 1 \in Attempts
        /\ attempts' = [attempts EXCEPT ![j] = attempts[j] + 1]
        /\ \A i \in Jobs, a \in Attempts :
             receipt'[i][a] = IF i = j /\ a = attempts[j] + 1 THEN "prepared"
                                                             ELSE receipt[i][a]
    BY <1>5, ReceiptPrepared
  <2>2. /\ pc' \in Before /\ mine' = j /\ UNCHANGED engine
        /\ status' = [status EXCEPT ![j] = "running"] /\ status[j] = "queued"
    BY <1>5 DEF Claim, Ready
  <2>0. attempts \in [Jobs -> 0 .. MaxAttempts]
    OBVIOUS
  <2>3. /\ \A i \in Jobs \ {j} : Dispatch(i)' = Dispatch(i)
        /\ Dispatch(j)' = "prepared"
    <3> HIDE DEF Consistent
    <3> QED BY <2>0, <2>1, BoundAssumption
  <2> HIDE DEF Dispatch
  <2> QED BY <2>2, <2>3
<1>6. ASSUME NEW j \in Jobs, ReleaseRow(j), LetGo(pc'), pc \in Before, mine = j,
              pc' \in {"idle", "down"}, UNCHANGED engine
      PROVE  Prompting'
  BY <1>6 DEF ReleaseRow
<1>7. ASSUME NEW j \in Jobs, PassBarrier(j) PROVE Prompting'
  BY <1>7 DEF PassBarrier
<1>8. ASSUME NEW j \in Jobs, Activate(j) PROVE Prompting'
  BY <1>8 DEF Activate
<1>9. ASSUME NEW j \in Jobs, BeginDispatch(j) PROVE Prompting'
  <2>1. CASE cancel[j]
    BY <1>9, <2>1 DEF BeginDispatch
  <2>2. CASE ~cancel[j]
    <3>1. attempts[j] # 0 /\ mine = j /\ Dispatch(j) = "prepared"
      BY <1>9 DEF BeginDispatch
    <3>2. /\ attempts[j] \in Attempts
          /\ \A i \in Jobs, a \in Attempts :
               receipt'[i][a] = IF i = j /\ a = attempts[j] THEN "dispatching"
                                                           ELSE receipt[i][a]
      BY <1>9, <2>2, <3>1, ReceiptWritten DEF BeginDispatch
    <3>3. pc' = "sending" /\ mine' = j /\ UNCHANGED <<attempts, engine, status>>
      BY <1>9, <2>2 DEF BeginDispatch
    <3>4. /\ Dispatch(j)' = "dispatching"
          /\ \A i \in Jobs \ {j} : Dispatch(i)' = Dispatch(i)
      BY <3>1, <3>2, <3>3
    <3> QED BY <1>9, <3>1, <3>3, <3>4 DEF BeginDispatch
  <2> QED BY <2>1, <2>2
<1>10. ASSUME NEW j \in Jobs, At(j, "execute"), UNCHANGED <<tables, engine>>,
              \E p \in {"limited", "interrupted", "failing"} : Goto(p)
      PROVE  Prompting'
  BY <1>10
<1>11. ASSUME NEW j \in Jobs, Receive(j) PROVE Prompting'
  BY <1>11 DEF Receive
<1>12. ASSUME NEW j \in Jobs, Acknowledge(j) PROVE Prompting'
  <2>1. attempts[j] # 0 /\ status[j] = "running"
    BY <1>12 DEF Acknowledge
  <2>2. /\ attempts[j] \in Attempts
        /\ \A i \in Jobs, a \in Attempts :
             receipt'[i][a] = IF i = j /\ a = attempts[j] THEN "acknowledged"
                                                         ELSE receipt[i][a]
    BY <1>12, <2>1, ReceiptWritten DEF Acknowledge
  <2> QED BY <1>12, <2>1, <2>2 DEF Acknowledge
<1>13. ASSUME NEW j \in Jobs, Rejected(j) PROVE Prompting'
  BY <1>13 DEF Rejected, SetReceipt
<1>14. ASSUME NEW j \in Jobs, Ambiguous(j) PROVE Prompting'
  BY <1>14 DEF Ambiguous, SetReceipt
<1>15. ASSUME NEW j \in Jobs, TurnEnds(j) PROVE Prompting'
  BY <1>15 DEF TurnEnds
<1>16. ASSUME NEW j \in Jobs, SoftLimit(j) PROVE Prompting'
  BY <1>16 DEF SoftLimit
<1>17. ASSUME NEW j \in Jobs, FinishTurn(j) PROVE Prompting'
  BY <1>17 DEF FinishTurn, SetReceipt, CompletedTurn
<1>18. ASSUME NEW j \in Jobs, FinishLimited(j) PROVE Prompting'
  BY <1>18 DEF FinishLimited, SetReceipt
<1>19. ASSUME NEW j \in Jobs, TurnBreaks(j) PROVE Prompting'
  BY <1>19 DEF TurnBreaks
<1>20. ASSUME NEW j \in Jobs, StopTurn(j) PROVE Prompting'
  BY <1>20 DEF StopTurn
<1>21. ASSUME NEW j \in Jobs, Seal(j) PROVE Prompting'
  BY <1>21 DEF Seal
<1>22. ASSUME NEW j \in Jobs, NextTurn(j) PROVE Prompting'
  BY <1>22 DEF NextTurn
<1>23. ASSUME NEW j \in Jobs, RecheckCancel(j) PROVE Prompting'
  BY <1>23 DEF RecheckCancel
<1>24. ASSUME NEW j \in Jobs, At(j, "committing"), cancel[j], Goto("cancelling"),
              UNCHANGED <<tables, engine>>
      PROVE  Prompting'
  BY <1>24
<1>25. ASSUME NEW j \in Jobs, Limited(j) PROVE Prompting'
  BY <1>25 DEF Limited
<1>26. ASSUME NEW j \in Jobs, Tick(j) PROVE Prompting'
  BY <1>26 DEF Tick
<1>27. CASE Boot
  BY <1>27 DEF Boot
<1> QED
  BY <1>1, <1>2, <1>3, <1>4, <1>5, <1>6, <1>7, <1>8, <1>9, <1>10, <1>11,
     <1>12, <1>13, <1>14, <1>15, <1>16, <1>17, <1>18, <1>19, <1>20, <1>21,
     <1>22, <1>23, <1>24, <1>25, <1>26, <1>27, StepKinds

\* A result rests on a finished turn until it is committed or dropped.
LEMMA ResultingStep == Consistent /\ [Next]_vars => Resulting'
<1> SUFFICES ASSUME Consistent, [Next]_vars PROVE Resulting'
    OBVIOUS
<1> USE DEF Consistent, TypeOK, tables, runner, world, ingress, Holding,
           Prompting, Resulting, Attempts, Dispatch, Statuses, SetEngine,
           ReapEngine, At, Goto, LetGo, Before, Executing, Closing
<1>1. CASE Elsewhere
  BY <1>1 DEF Elsewhere
<1>2. ASSUME NEW j \in Jobs, Leaves(j) PROVE Resulting'
  BY <1>2 DEF Leaves
<1>3. ASSUME NEW j \in Jobs, Enqueue(j) PROVE Resulting'
  BY <1>3 DEF Enqueue, HandedOff
<1>4. ASSUME NEW j \in Jobs, Interrupt(j) PROVE Resulting'
  BY <1>4 DEF Interrupt, Unsettled
<1>5. ASSUME NEW j \in Jobs, Claim(j) PROVE Resulting'
  BY <1>5 DEF Claim
<1>6. ASSUME NEW j \in Jobs, ReleaseRow(j), LetGo(pc'), pc \in Before, mine = j,
              pc' \in {"idle", "down"}, UNCHANGED engine
      PROVE  Resulting'
  BY <1>6 DEF ReleaseRow
<1>7. ASSUME NEW j \in Jobs, PassBarrier(j) PROVE Resulting'
  BY <1>7 DEF PassBarrier
<1>8. ASSUME NEW j \in Jobs, Activate(j) PROVE Resulting'
  BY <1>8 DEF Activate
<1>9. ASSUME NEW j \in Jobs, BeginDispatch(j) PROVE Resulting'
  BY <1>9 DEF BeginDispatch, SetReceipt
<1>10. ASSUME NEW j \in Jobs, At(j, "execute"), UNCHANGED <<tables, engine>>,
              \E p \in {"limited", "interrupted", "failing"} : Goto(p)
      PROVE  Resulting'
  BY <1>10
<1>11. ASSUME NEW j \in Jobs, Receive(j) PROVE Resulting'
  BY <1>11 DEF Receive
<1>12. ASSUME NEW j \in Jobs, Acknowledge(j) PROVE Resulting'
  BY <1>12 DEF Acknowledge, SetReceipt
<1>13. ASSUME NEW j \in Jobs, Rejected(j) PROVE Resulting'
  BY <1>13 DEF Rejected, SetReceipt
<1>14. ASSUME NEW j \in Jobs, Ambiguous(j) PROVE Resulting'
  BY <1>14 DEF Ambiguous, SetReceipt
<1>15. ASSUME NEW j \in Jobs, TurnEnds(j) PROVE Resulting'
  BY <1>15 DEF TurnEnds
<1>16. ASSUME NEW j \in Jobs, SoftLimit(j) PROVE Resulting'
  BY <1>16 DEF SoftLimit
<1>17. ASSUME NEW j \in Jobs, FinishTurn(j) PROVE Resulting'
  BY <1>17 DEF FinishTurn, SetReceipt, CompletedTurn
<1>18. ASSUME NEW j \in Jobs, FinishLimited(j) PROVE Resulting'
  BY <1>18 DEF FinishLimited, SetReceipt
<1>19. ASSUME NEW j \in Jobs, TurnBreaks(j) PROVE Resulting'
  BY <1>19 DEF TurnBreaks
<1>20. ASSUME NEW j \in Jobs, StopTurn(j) PROVE Resulting'
  BY <1>20 DEF StopTurn
<1>21. ASSUME NEW j \in Jobs, Seal(j) PROVE Resulting'
  <2>1. CASE UNCHANGED tables
    BY <1>21, <2>1 DEF Seal
  <2>2. CASE ~cancel[j] /\ ~InboundPending(j)
    <3>1. staged' = [staged EXCEPT ![j] = TRUE] /\ accepts' = [accepts EXCEPT ![j] = FALSE]
      BY <1>21, <2>2 DEF Seal
    <3>2. pc' = "staged" /\ mine' = j /\ UNCHANGED <<status, engine, turn, notBefore>>
          /\ UNCHANGED <<attempts, limit, receipt>>
      BY <1>21, <2>2 DEF Seal
    <3>3. pc = "ended" /\ mine = j
      BY <1>21 DEF Seal
    <3> QED BY <3>1, <3>2, <3>3
  <2> QED BY <1>21, <2>1, <2>2 DEF Seal
<1>22. ASSUME NEW j \in Jobs, NextTurn(j) PROVE Resulting'
  BY <1>22 DEF NextTurn
<1>23. ASSUME NEW j \in Jobs, RecheckCancel(j) PROVE Resulting'
  BY <1>23 DEF RecheckCancel
<1>24. ASSUME NEW j \in Jobs, At(j, "committing"), cancel[j], Goto("cancelling"),
              UNCHANGED <<tables, engine>>
      PROVE  Resulting'
  BY <1>24
<1>25. ASSUME NEW j \in Jobs, Limited(j) PROVE Resulting'
  BY <1>25 DEF Limited
<1>26. ASSUME NEW j \in Jobs, Tick(j) PROVE Resulting'
  BY <1>26 DEF Tick
<1>27. CASE Boot
  BY <1>27 DEF Boot
<1> QED
  BY <1>1, <1>2, <1>3, <1>4, <1>5, <1>6, <1>7, <1>8, <1>9, <1>10, <1>11,
     <1>12, <1>13, <1>14, <1>15, <1>16, <1>17, <1>18, <1>19, <1>20, <1>21,
     <1>22, <1>23, <1>24, <1>25, <1>26, <1>27, StepKinds

\* The columns that name a request and its verdict change only when a row is
\* made, claimed, released, let go or cancelled.
LEMMA AttemptingSteps ==
  ASSUME NEW j \in Jobs,
         \/ PassBarrier(j) \/ Activate(j) \/ BeginDispatch(j) \/ Receive(j)
         \/ Acknowledge(j) \/ Rejected(j) \/ Ambiguous(j) \/ TurnEnds(j)
         \/ SoftLimit(j) \/ FinishTurn(j) \/ FinishLimited(j) \/ TurnBreaks(j)
         \/ StopTurn(j) \/ Seal(j) \/ NextTurn(j) \/ RecheckCancel(j)
         \/ Limited(j) \/ Tick(j) \/ Boot \/ Elsewhere \/ UNCHANGED tables
  PROVE  Attempting
  BY DEF PassBarrier, Activate, BeginDispatch, Receive, Acknowledge, Rejected,
         Ambiguous, TurnEnds, SoftLimit, FinishTurn, FinishLimited, TurnBreaks,
         StopTurn, Seal, NextTurn, RecheckCancel, Limited, Tick, Boot, Elsewhere,
         tables, Attempting

\* No step lets a row overtake an earlier one of its thread.
LEMMA NumberingStep == Consistent /\ [Next]_vars => Numbering'
<1> SUFFICES ASSUME Consistent, [Next]_vars PROVE Numbering'
    OBVIOUS
<1> USE DEF Consistent, TypeOK, Numbering, ThreadOrder, Settled
<1>1. CASE Attempting
  BY <1>1 DEF Attempting
<1>2. ASSUME NEW j \in Jobs, Leaves(j) PROVE Numbering'
  BY <1>2 DEF Leaves
<1>3. ASSUME NEW j \in Jobs, Enqueue(j) PROVE Numbering'
  BY <1>3 DEF Enqueue, HandedOff
<1>4. ASSUME NEW j \in Jobs, Interrupt(j) PROVE Numbering'
  BY <1>4 DEF Interrupt
<1>5. ASSUME NEW j \in Jobs, Claim(j) PROVE Numbering'
  BY <1>5 DEF Claim, Ready, Unsettled, Statuses
<1>6. ASSUME NEW j \in Jobs, ReleaseRow(j) PROVE Numbering'
  <2>1. /\ status[j] = "running" /\ status' = [status EXCEPT ![j] = "queued"]
        /\ attempts' = [attempts EXCEPT ![j] = attempts[j] - 1]
        /\ attempts[j] # 0 /\ UNCHANGED <<seq, lastSeq>>
    BY <1>6 DEF ReleaseRow, Dispatch
  <2>2. ThreadOrder'
    BY <2>1
  <2> QED BY <2>1, <2>2
<1> QED BY <1>1, <1>2, <1>3, <1>4, <1>5, <1>6, StepKinds, AttemptingSteps

\* No step publishes a cancelled job as a success, or cancels without a reason.
LEMMA CancelStep == Consistent /\ [Next]_vars => CancelExcludesSuccess'
<1> SUFFICES ASSUME Consistent, [Next]_vars PROVE CancelExcludesSuccess'
    OBVIOUS
<1> USE DEF Consistent, TypeOK, CancelExcludesSuccess
<1>1. CASE Attempting
  BY <1>1 DEF Attempting
<1>2. ASSUME NEW j \in Jobs, Leaves(j) PROVE CancelExcludesSuccess'
  BY <1>2 DEF Leaves
<1>3. ASSUME NEW j \in Jobs, Enqueue(j) PROVE CancelExcludesSuccess'
  BY <1>3 DEF Enqueue
<1>4. ASSUME NEW j \in Jobs, Interrupt(j) PROVE CancelExcludesSuccess'
  BY <1>4 DEF Interrupt, Unsettled
<1>5. ASSUME NEW j \in Jobs, Claim(j) PROVE CancelExcludesSuccess'
  BY <1>5 DEF Claim
<1>6. ASSUME NEW j \in Jobs, ReleaseRow(j) PROVE CancelExcludesSuccess'
  BY <1>6 DEF ReleaseRow
<1> QED BY <1>1, <1>2, <1>3, <1>4, <1>5, <1>6, StepKinds, AttemptingSteps

\* The invariant holds at first.
LEMMA InitConsistent == Init => Consistent
<1> SUFFICES ASSUME Init PROVE Consistent
    OBVIOUS
<1>1. TypeOK
  BY InitTypeOK
<1>2. CancelExcludesSuccess /\ Holding /\ Numbering
  BY DEF Init, CancelExcludesSuccess, Holding, Numbering, ThreadOrder, Before,
         Executing, Closing
<1>3. Limiting /\ Prompting /\ Resulting
  BY DEF Init, Limiting, Prompting, Resulting, NoUncertainReplay, Before, Executing
<1> QED BY <1>1, <1>2, <1>3 DEF Consistent

\* The invariant holds always: it is inductive.
THEOREM Invariance == Spec => []Consistent
<1>1. Consistent /\ [Next]_vars => Consistent'
  BY NextTypeOK, CancelStep, HoldingStep, NumberingStep, LimitingStep,
     PromptingStep, ResultingStep DEF Consistent
<1> QED BY InitConsistent, <1>1, PTL DEF Spec

\* One job runs at a time and no Codex process outlives its job, for any number
\* of requests, crashes and restarts.
THEOREM SerialExecutionHolds == Spec => []SerialExecution
<1>1. Consistent => SerialExecution
  BY DEF Consistent, Holding, SerialExecution
<1> QED BY Invariance, <1>1, PTL

\* Requests of a thread are attempted in order.
THEOREM ThreadOrderHolds == Spec => []ThreadOrder
<1>1. Consistent => ThreadOrder
  BY DEF Consistent, Numbering
<1> QED BY Invariance, <1>1, PTL

\* A write with uncertain effects is never queued again.
THEOREM NoUncertainReplayHolds == Spec => []NoUncertainReplay
<1>1. Consistent => NoUncertainReplay
  BY DEF Consistent, Prompting
<1> QED BY Invariance, <1>1, PTL

\* A cancelled job is never published as a success.
THEOREM CancelExcludesSuccessHolds == Spec => []CancelExcludesSuccess
<1>1. Consistent => CancelExcludesSuccess
  BY DEF Consistent
<1> QED BY Invariance, <1>1, PTL

\* A published success is the result of a turn that ran to its end.
THEOREM SuccessIsRealHolds == Spec => []SuccessIsReal
<1>1. Consistent => SuccessIsReal
  BY DEF Consistent, Resulting, SuccessIsReal
<1> QED BY Invariance, <1>1, PTL

\* Startup recovery never meets a row it cannot settle.
THEOREM RecoveryNeverWedgesHolds == Spec => []RecoveryNeverWedges
<1>1. Consistent => RecoveryNeverWedges
  <2> SUFFICES ASSUME Consistent PROVE RecoveryNeverWedges
      OBVIOUS
  <2>1. ASSUME NEW j \in Jobs, Recoverable(j) PROVE CanComplete(j)
    BY <2>1 DEF Consistent, Resulting, Recoverable, CanComplete
  <2>2. ASSUME NEW j \in Jobs, status[j] = "running", KindOf[j] = "read",
               notBefore[j] # "null"
        PROVE  DeferrableAt(j)
    BY <2>2 DEF Consistent, Resulting, DeferrableAt, Write
  <2> QED BY <2>1, <2>2 DEF RecoveryNeverWedges
<1> QED BY Invariance, <1>1, PTL

\* The table is never without its types, one job at a time, and a true end.
THEOREM IntegrityHolds == Spec => []Integrity
  BY TypeCorrect, SerialExecutionHolds, CancelExcludesSuccessHolds, SuccessIsRealHolds, PTL
  DEF Integrity

\* Requests of a thread keep their order, and a write is not repeated on a doubt.
THEOREM OrderedOnceHolds == Spec => []OrderedOnce
  BY ThreadOrderHolds, NoUncertainReplayHolds, PTL DEF OrderedOnce
-----------------------------------------------------------------------------
(* Every attempt is paid for.  The argument needs a second invariant, on   *)
(* top of Consistent: which attempts are paid for already.                 *)

Owed(j) == KindOf[j] # "audit"
Paid(j) == attempts[j] <= faults
Held(j) == pc \in Before \cup Executing \cup Closing /\ mine = j

\* At most the attempt in progress is unpaid, and only while the worker has it
\* in hand or its result is staged.
PaidRows ==
  \A j \in Jobs : Owed(j) =>
    /\ attempts[j] <= faults + 1
    /\ status[j] \in {"absent", "queued"} => Paid(j)
    /\ status[j] = "running" /\ ~Held(j) => Paid(j) \/ staged[j]

\* The worker is about to give the row back only after a failure.
PaidHere ==
  /\ pc \in {"limited", "deferring", "interrupted"} /\ Owed(mine) => Paid(mine)
  /\ pc = "turn" /\ Owed(mine) /\ engine[mine] = "limited" => Paid(mine)

\* A staged result waits for nothing and was delivered, so no recovery defers it.
StagedStays ==
  /\ \A j \in Jobs : staged[j] =>
       notBefore[j] = "null" /\ Dispatch(j) \in {"acknowledged", "observed"}
  /\ pc \in {"ended", "again"} => notBefore[mine] = "null"

Paying == PaidRows /\ PaidHere /\ StagedStays

\* Failures are only ever added.
LEMMA FaultsGrow ==
  ASSUME TypeOK, [Next]_vars
  PROVE  faults \in Nat /\ faults' \in Nat /\ faults <= faults'
<1>1. faults \in Nat /\ faults' \in Nat
  BY NextTypeOK, BoundAssumption DEF TypeOK
<1>2. faults' = faults \/ Fault
  <2> USE DEF vars, world, Fault
  <2>1. CASE Gateway
    BY <2>1 DEF Gateway, StageRequest, StageInterrupt, Drain, Reply, Enqueue,
                Interrupt, CompleteInbound, TombstoneInbound
  <2>2. CASE CheckBarrier \/ ClaimNothing \/ Recovery
    BY <2>2 DEF CheckBarrier, ClaimNothing, Recovery, Boot, StagedRecovered,
                Recovered, RecoverStaged, RecoverInterrupted
  <2>3. ASSUME NEW j \in Jobs, Work(j) PROVE faults' = faults
    BY <2>3 DEF Work, Claim, ReleaseAtBarrier, CancelAtClaim, PassBarrier, Activate,
                BeginDispatch, Acknowledge, FinishTurn, FinishLimited, StopTurn, Seal,
                NextTurn, RecheckCancel, Commit, CancelRun, FailRun, Limited, Defer,
                Interrupted
  <2>4. ASSUME NEW j \in Jobs, Failure(j) PROVE faults' = faults \/ Fault
    BY <2>4 DEF Failure, MonitorPending, ExecuteFails, Rejected, Ambiguous, SoftLimit,
                TurnBreaks, StagedRecoveryRaces
  <2>5. ASSUME NEW j \in Jobs, AppServer(j) \/ Tick(j) PROVE faults' = faults \/ Fault
    BY <2>5 DEF AppServer, Receive, TurnEnds, Tick
  <2>6. CASE Crash \/ RaiseBarrier \/ LowerBarrier
    BY <2>6 DEF Crash, RaiseBarrier, LowerBarrier
  <2> QED BY <2>1, <2>2, <2>3, <2>4, <2>5, <2>6 DEF Next
<1> QED BY <1>1, <1>2 DEF Fault

\* A step that settles or frees no row and makes no attempt keeps what is paid.
LEMMA RowsUntouched ==
  ASSUME TypeOK, PaidRows, faults \in Nat, faults' \in Nat, faults <= faults',
         UNCHANGED <<status, attempts>>,
         \A j \in Jobs : staged[j] => staged'[j],
         \A j \in Jobs : status[j] = "running" /\ Held(j) /\ ~Held(j)' /\ Owed(j)
                           => faults < faults' \/ Paid(j) \/ staged[j]
  PROVE  PaidRows'
  BY BoundAssumption DEF TypeOK, PaidRows, Paid, Owed

\* A row that leaves for the queue must be paid for; one that is settled need not.
LEMMA RowLeft ==
  ASSUME NEW j \in Jobs, Consistent, PaidRows, faults \in Nat, faults' \in Nat,
         faults <= faults', Leaves(j), pc' \in {"down", "boot", "settle", "idle"},
         status'[j] = "queued" /\ Owed(j) => attempts[j] <= faults'
  PROVE  PaidRows'
<1> USE DEF Consistent, TypeOK, Leaves, Paid, Owed
<1>1. \A i \in Jobs : attempts[i] \in Nat
  BY BoundAssumption
<1>2. \A i \in Jobs \ {j} : status'[i] = status[i] /\ staged'[i] = staged[i]
  OBVIOUS
<1>3. \A i \in Jobs \ {j} : status[i] # "running"
  BY DEF Holding
<1>4. status'[j] \in {"queued", "completed", "failed"}
  OBVIOUS
<1> QED BY <1>1, <1>2, <1>3, <1>4 DEF PaidRows, Statuses

\* The places of the worker, as sets of names.
LEMMA PlaceNames ==
  /\ Before \cup Executing \cup Closing =
       {"claimed", "doomed", "prepare", "execute", "sending", "turn", "ended",
        "again", "staged", "committing", "cancelling", "failing", "limited",
        "deferring", "interrupted"}
  BY DEF Before, Executing, Closing

\* Only a failure, a recorded limit or a staged result lets an attempt go.
LEMMA PaidRowsStep == Consistent /\ Paying /\ [Next]_vars => PaidRows'
<1> SUFFICES ASSUME Consistent, Paying, [Next]_vars PROVE PaidRows'
    OBVIOUS
<1>0. faults \in Nat /\ faults' \in Nat /\ faults <= faults'
  BY FaultsGrow DEF Consistent
<1>00. TypeOK /\ PaidRows /\ (\A j \in Jobs : attempts[j] \in Nat)
  BY BoundAssumption DEF Consistent, Paying, TypeOK
<1>1. CASE Gateway
  <2>1. ASSUME NEW j \in Jobs, StageRequest(j) \/ StageInterrupt(j) PROVE PaidRows'
    BY <2>1, <1>0, <1>00, RowsUntouched DEF StageRequest, StageInterrupt, tables, runner, world, Held
  <2>2. ASSUME NEW m \in Messages, Drain(m) PROVE PaidRows'
    <3>1. CASE Enqueue(m[1])
      <4>1. m[1] \in Jobs
        BY DEF Messages
      <4>2. attempts[m[1]] = 0
        BY <3>1, <4>1 DEF Enqueue, HandedOff, Consistent, Numbering
      <4> QED BY <3>1, <4>1, <4>2, <1>0, <1>00 DEF Enqueue, PaidRows, Paid, Held, Owed, runner, world, TypeOK
    <3>2. CASE ~Enqueue(m[1])
      BY <3>2, <2>2, <1>0, <1>00, RowsUntouched DEF Drain, Reply, Interrupt, CompleteInbound,
         TombstoneInbound, tables, runner, world, Held
    <3> QED BY <3>1, <3>2
  <2> QED BY <1>1, <2>1, <2>2 DEF Gateway
<1>2. CASE CheckBarrier \/ ClaimNothing \/ StagedRecovered \/ Recovered \/ Boot
           \/ RaiseBarrier \/ LowerBarrier \/ UNCHANGED vars
  BY <1>2, <1>0, <1>00, RowsUntouched, PlaceNames DEF CheckBarrier, ClaimNothing, StagedRecovered, Recovered,
     Boot, RaiseBarrier, LowerBarrier, vars, tables, runner, world, Goto, Held
<1>3. CASE Crash \/ \E j \in Jobs : StagedRecoveryRaces(j)
  BY <1>3, <1>0, <1>00, RowsUntouched DEF Crash, StagedRecoveryRaces, tables, Fault
<1>4. ASSUME NEW j \in Jobs, Claim(j) PROVE PaidRows'
  <2>1. Owed(j) => attempts[j] <= faults
    BY <1>4, <1>00 DEF Claim, Ready, PaidRows, Paid
  <2>2. /\ attempts' = [attempts EXCEPT ![j] = attempts[j] + 1]
        /\ status' = [status EXCEPT ![j] = "running"]
        /\ faults' = faults /\ staged' = [staged EXCEPT ![j] = FALSE]
        /\ \A i \in Jobs : status[i] # "running"
    BY <1>4 DEF Claim, world
  <2>3. Held(j)'
    BY <1>4 DEF Claim, Held, Before
  <2>4. ASSUME NEW i \in Jobs, i # j
        PROVE  attempts'[i] = attempts[i] /\ status'[i] = status[i] /\ status'[i] # "running"
    BY <2>2, <2>4, <1>00 DEF TypeOK
  <2>5. attempts'[j] = attempts[j] + 1 /\ status'[j] = "running"
    BY <2>2, <1>00 DEF TypeOK
  <2> QED BY <2>1, <2>2, <2>3, <2>4, <2>5, <1>0, <1>00 DEF PaidRows, Paid, Owed
<1>5. ASSUME NEW j \in Jobs, ReleaseAtBarrier(j) \/ MonitorPending(j) PROVE PaidRows'
  <2>1. ReleaseRow(j) /\ attempts' = [attempts EXCEPT ![j] = attempts[j] - 1]
    BY <1>5, ReceiptReleased, <1>00 DEF ReleaseAtBarrier, MonitorPending
  <2>2. status' = [status EXCEPT ![j] = "queued"] /\ status[j] = "running"
    BY <2>1 DEF ReleaseRow
  <2>3. attempts'[j] = attempts[j] - 1 /\ status'[j] = "queued"
    BY <2>1, <2>2, <1>00 DEF TypeOK
  <2>4. ASSUME NEW i \in Jobs, i # j
        PROVE  attempts'[i] = attempts[i] /\ status'[i] = status[i] /\ status'[i] # "running"
    BY <2>1, <2>2, <2>4, <1>00 DEF TypeOK, Consistent, Holding
  <2>5. Owed(j) => attempts[j] <= faults + 1
    BY <1>00 DEF PaidRows
  <2> QED BY <2>3, <2>4, <2>5, <1>0, <1>00 DEF PaidRows, Paid, Owed
<1>6. ASSUME NEW j \in Jobs,
             \/ CancelAtClaim(j) \/ CancelRun(j) \/ FailRun(j) \/ RecoverStaged(j)
             \/ (Commit(j) /\ CanComplete(j))
      PROVE PaidRows'
  <2>1. CancelRow(j) \/ FailRow(j) \/ CompleteRow(j)
    BY <1>6 DEF CancelAtClaim, CancelRun, FailRun, RecoverStaged, Commit
  <2>2. status'[j] # "queued"
    BY <2>1, <1>00 DEF TypeOK, CancelRow, FailRow, CompleteRow
  <2>3. Leaves(j) /\ pc' \in {"down", "boot", "settle", "idle"}
    <3>1. pc' \in {"down", "boot", "settle", "idle"} /\ UNCHANGED engine
          /\ pc \notin {"down", "sending", "turn"}
      BY <1>6 DEF CancelAtClaim, CancelRun, FailRun, RecoverStaged, Commit, LetGo, At, runner, world
    <3>2. CompleteRow(j) /\ ~FailRow(j) /\ ~CancelRow(j)
            => status[j] = "running" /\ staged[j] /\ ~cancel[j]
      BY <1>6 DEF CancelAtClaim, CancelRun, FailRun, RecoverStaged, Recoverable, Commit, CanComplete, At, Consistent, Resulting
    <3> QED BY <2>1, <3>1, <3>2, <1>00, RowUpdates
  <2> QED BY <2>2, <2>3, <1>0, <1>00, RowLeft
<1>7. ASSUME NEW j \in Jobs, Commit(j), ~CanComplete(j) PROVE PaidRows'
  BY <1>7, <1>0, <1>00, RowsUntouched, PlaceNames DEF Commit, Consistent, Resulting, At, Goto, LetGo, tables, Held
<1>8. ASSUME NEW j \in Jobs, Defer(j) \/ Interrupted(j) PROVE PaidRows'
  <2>1. Owed(j) => attempts[j] <= faults
    BY <1>8 DEF Defer, Interrupted, At, Paying, PaidHere, Paid
  <2>2. Leaves(j) \/ Elsewhere
    BY <1>8, <1>00, LeavingSteps DEF Consistent, Defer, Interrupted, Commit, At
  <2>3. pc' \in {"down", "idle"}
    BY <1>8 DEF Defer, Interrupted, LetGo
  <2>4. CASE Leaves(j)
    BY <2>1, <2>3, <2>4, <1>0, <1>00, RowLeft
  <2>5. CASE Elsewhere
    BY <1>8, <2>1, <2>5, <1>0, <1>00, RowsUntouched DEF Elsewhere, tables, Held, Paid, Defer, Interrupted, At
  <2> QED BY <2>2, <2>4, <2>5
<1>9. ASSUME NEW j \in Jobs, RecoverInterrupted(j) PROVE PaidRows'
  <2>1. status[j] = "running" /\ pc = "settle" /\ pc' = pc /\ faults' = faults /\ UNCHANGED engine
    BY <1>9 DEF RecoverInterrupted, runner, world
  <2>2. ~Held(j)
    BY <2>1, PlaceNames DEF Held
  <2>3. staged[j] => status'[j] # "queued" \/ ~Owed(j)
    <3> SUFFICES ASSUME staged[j], Owed(j) PROVE status'[j] # "queued"
        OBVIOUS
    <3>1. notBefore[j] = "null" /\ Dispatch(j) \in {"acknowledged", "observed"}
      BY DEF Paying, StagedStays
    <3>2. CancelRow(j) \/ FailRow(j)
      BY <1>9, <3>1 DEF RecoverInterrupted, RecoverRow, DurableLimit, CarriedLimit, MayBeDelivered, Owed
    <3> QED BY <3>2, <1>00 DEF CancelRow, FailRow, TypeOK
  <2>4. status'[j] = "queued" /\ Owed(j) => attempts[j] <= faults'
    BY <2>1, <2>2, <2>3, <1>00 DEF PaidRows, Paid
  <2>5. Leaves(j) \/ Elsewhere
    BY <1>9, <2>1, <1>00, LeavingSteps DEF Consistent, Commit, At
  <2>6. Leaves(j)
    <3>1. \/ CancelRow(j) \/ FailRow(j) \/ RequeueAt(j) \/ Requeue(j, "null")
          \/ (QueueAgain(j, "null") /\ KindOf[j] = "audit")
      BY <1>9 DEF RecoverInterrupted, RecoverRow
    <3> QED BY <2>1, <3>1, <1>00, RowUpdates, DeferredWrite
  <2> QED BY <2>1, <2>4, <2>6, <1>0, <1>00, RowLeft
<1>10. ASSUME NEW j \in Jobs, ExecuteFails(j) PROVE PaidRows'
  <2>1. faults' = faults + 1
    BY <1>10 DEF ExecuteFails, Fault
  <2>2. CASE UNCHANGED tables
    BY <2>1, <2>2, <1>0, <1>00, RowsUntouched DEF tables
  <2>3. CASE Requeue(j, "future") /\ LetGo("idle")
    <3>1. Leaves(j) /\ pc' \in {"down", "boot", "settle", "idle"}
      BY <1>10, <2>3, <1>00, RowUpdates DEF ExecuteFails, At, LetGo
    <3>2. Owed(j) => attempts[j] <= faults'
      BY <2>1, <1>0, <1>00 DEF PaidRows
    <3> QED BY <3>1, <3>2, <1>0, <1>00, RowLeft
  <2> QED BY <1>10, <2>2, <2>3 DEF ExecuteFails
<1>11. ASSUME NEW j \in Jobs,
              \/ PassBarrier(j) \/ Activate(j) \/ BeginDispatch(j) \/ Acknowledge(j)
              \/ FinishTurn(j) \/ FinishLimited(j) \/ StopTurn(j) \/ NextTurn(j)
              \/ RecheckCancel(j) \/ Limited(j)
              \/ Rejected(j) \/ Ambiguous(j) \/ SoftLimit(j) \/ TurnBreaks(j)
              \/ Receive(j) \/ TurnEnds(j) \/ Tick(j)
       PROVE  PaidRows'
  <2>1. UNCHANGED <<status, attempts, staged>>
    BY <1>11 DEF PassBarrier, Activate, BeginDispatch, Acknowledge, FinishTurn, FinishLimited,
       StopTurn, NextTurn, RecheckCancel, Limited, Rejected, Ambiguous, SoftLimit, TurnBreaks,
       Receive, TurnEnds, Tick, tables
  <2>2. mine' = mine
    BY <1>11 DEF PassBarrier, Activate, BeginDispatch, Acknowledge, FinishTurn, FinishLimited,
       StopTurn, NextTurn, RecheckCancel, Limited, Rejected, Ambiguous, SoftLimit, TurnBreaks,
       Receive, TurnEnds, Tick, tables, runner, Goto
  <2>3. pc' = pc \/ pc' \in Before \cup Executing \cup Closing
    BY <1>11, PlaceNames DEF PassBarrier, Activate, BeginDispatch, Acknowledge, FinishTurn, FinishLimited,
       StopTurn, NextTurn, RecheckCancel, Limited, Rejected, Ambiguous, SoftLimit, TurnBreaks,
       Receive, TurnEnds, Tick, runner, Goto
  <2> QED BY <2>1, <2>2, <2>3, <1>0, <1>00, RowsUntouched DEF Held
<1>12. ASSUME NEW j \in Jobs, Seal(j) PROVE PaidRows'
  <2>1. UNCHANGED <<status, attempts, mine>> /\ \A i \in Jobs : staged[i] => staged'[i]
    BY <1>12, <1>00 DEF Seal, tables, Goto, TypeOK
  <2>2. pc' \in Before \cup Executing \cup Closing
    BY <1>12, PlaceNames DEF Seal, Goto
  <2> QED BY <2>1, <2>2, <1>0, <1>00, RowsUntouched DEF Held
<1> QED
  BY <1>1, <1>2, <1>3, <1>4, <1>5, <1>6, <1>7, <1>8, <1>9, <1>10, <1>11, <1>12
  DEF Next, Work, Failure, AppServer, Recovery

\* The worker reaches a place that gives the row back only through a failure.
LEMMA PaidHereStep == Consistent /\ Paying /\ [Next]_vars => PaidHere'
<1> SUFFICES ASSUME Consistent, Paying, [Next]_vars PROVE PaidHere'
    OBVIOUS
<1>0. /\ faults \in Nat /\ faults' \in Nat /\ faults <= faults'
      /\ TypeOK /\ PaidRows /\ PaidHere
      /\ pc \in Before \cup Executing \cup Closing => mine \in Jobs
      /\ \A j \in Jobs : attempts[j] \in Nat
  BY FaultsGrow, BoundAssumption DEF Consistent, Paying, Holding, TypeOK
<1> USE DEF PaidHere, Paid, Owed
<1>1. ASSUME pc' \notin {"limited", "deferring", "interrupted", "turn"} PROVE PaidHere'
  BY <1>1
<1>2. ASSUME UNCHANGED <<pc, mine, attempts, engine>> PROVE PaidHere'
  BY <1>0, <1>2, PlaceNames
<1>3. CASE Gateway
  <2>1. UNCHANGED <<pc, mine, attempts, engine>>
    BY <1>3 DEF Gateway, StageRequest, StageInterrupt, Drain, Reply, Enqueue, Interrupt,
       CompleteInbound, TombstoneInbound, tables, runner, world
  <2> QED BY <1>2, <2>1
<1>4. CASE CheckBarrier \/ ClaimNothing \/ Recovery \/ Crash \/ RaiseBarrier
           \/ LowerBarrier \/ UNCHANGED vars
  <2>1. \/ pc' \in {"down", "boot", "settle", "idle", "checked"}
        \/ UNCHANGED <<pc, mine, attempts, engine>>
    BY <1>4 DEF CheckBarrier, ClaimNothing, Recovery, Boot, StagedRecovered, Recovered,
       RecoverStaged, RecoverInterrupted, Crash, RaiseBarrier, LowerBarrier, vars, tables,
       runner, world, Goto, LetGo
  <2> QED BY <1>1, <1>2, <2>1
<1>5. ASSUME NEW j \in Jobs,
             \/ Claim(j) \/ ReleaseAtBarrier(j) \/ CancelAtClaim(j) \/ PassBarrier(j)
             \/ Activate(j) \/ BeginDispatch(j) \/ Receive(j) \/ StopTurn(j) \/ Seal(j)
             \/ RecheckCancel(j) \/ Commit(j) \/ CancelRun(j) \/ FailRun(j) \/ Defer(j)
             \/ Interrupted(j) \/ MonitorPending(j) \/ StagedRecoveryRaces(j)
      PROVE  PaidHere'
  <2>1. pc' \in {"claimed", "doomed", "idle", "prepare", "cancelling", "execute", "sending",
                 "again", "staged", "committing", "down"}
    BY <1>5 DEF Claim, ReleaseAtBarrier, CancelAtClaim, PassBarrier, Activate, BeginDispatch,
       Receive, StopTurn, Seal, RecheckCancel, Commit, CancelRun, FailRun, Defer, Interrupted,
       MonitorPending, StagedRecoveryRaces, At, Goto, LetGo, runner
  <2> QED BY <1>1, <2>1
<1>6. ASSUME NEW j \in Jobs, Tick(j) PROVE PaidHere'
  BY <1>2, <1>6 DEF Tick, runner, world
<1>7. ASSUME NEW j \in Jobs, Acknowledge(j) \/ FinishTurn(j) \/ NextTurn(j) PROVE PaidHere'
  <2>1. pc' \in {"turn", "ended", "cancelling"} /\ mine' = j /\ j \in Jobs
    BY <1>7 DEF Acknowledge, FinishTurn, NextTurn, Goto, At
  <2>2. engine'[j] # "limited"
    BY <1>0, <1>7 DEF Acknowledge, FinishTurn, NextTurn, CompletedTurn, SetEngine, world, TypeOK
  <2> QED BY <2>1, <2>2
<1>8. ASSUME NEW j \in Jobs, Limited(j) \/ FinishLimited(j) PROVE PaidHere'
  <2>1. pc' \in {"limited", "deferring", "failing", "cancelling"} /\ mine' = j /\ mine = j
        /\ UNCHANGED <<attempts, faults>>
    BY <1>8 DEF Limited, FinishLimited, Goto, At, tables, world
  <2>2. Owed(j) => Paid(j)
    BY <1>0, <1>8 DEF Limited, FinishLimited, At
  <2> QED BY <2>1, <2>2
<1>9. ASSUME NEW j \in Jobs,
             \/ ExecuteFails(j) \/ Rejected(j) \/ Ambiguous(j) \/ SoftLimit(j)
             \/ TurnBreaks(j)
      PROVE  PaidHere'
  <2>1. faults' = faults + 1 /\ attempts' = attempts
    BY <1>9 DEF ExecuteFails, Rejected, Ambiguous, SoftLimit, TurnBreaks, Fault, tables,
                Requeue, QueueAgain
  <2>2. (pc' \in {"idle", "down"}) \/ mine' = j
    BY <1>9 DEF ExecuteFails, Rejected, Ambiguous, SoftLimit, TurnBreaks, At, Goto, LetGo, runner
  <2> QED BY <1>0, <2>1, <2>2 DEF PaidRows
<1>10. ASSUME NEW j \in Jobs, TurnEnds(j) PROVE PaidHere'
  <2>1. UNCHANGED <<attempts, pc, mine>>
    BY <1>10 DEF TurnEnds, tables, runner
  <2>2. CASE faults' = faults + 1
    BY <1>0, <2>1, <2>2 DEF PaidRows, Executing, Closing
  <2>3. CASE engine' = [engine EXCEPT ![j] = "done"] /\ faults' = faults
    BY <1>0, <2>1, <2>3 DEF TypeOK, Executing
  <2> QED BY <1>10, <2>2, <2>3 DEF TurnEnds, SetEngine, Fault
<1> QED
  BY <1>3, <1>4, <1>5, <1>6, <1>7, <1>8, <1>9, <1>10
  DEF Next, Work, Failure, AppServer

\* What is staged stays delivered and waits for nothing.
LEMMA StagedStaysStep == Consistent /\ Paying /\ [Next]_vars => StagedStays'
<1> SUFFICES ASSUME Consistent, Paying, [Next]_vars PROVE StagedStays'
    OBVIOUS
<1>0. /\ TypeOK /\ Resulting /\ StagedStays
      /\ pc \in Before \cup Executing \cup Closing => mine \in Jobs
      /\ pc \in Before \cup Executing => ~staged[mine]
  BY DEF Consistent, Paying, Holding, Resulting
<1>1. ASSUME NEW j \in Jobs, \A i \in Jobs : staged'[i] => staged[i] /\ i # j,
             \A i \in Jobs : i # j => notBefore'[i] = notBefore[i]
                                      /\ Dispatch(i)' = Dispatch(i),
             pc' \notin {"ended", "again"}
      PROVE  StagedStays'
  BY <1>0, <1>1 DEF StagedStays
<1>2. ASSUME \A i \in Jobs : staged'[i] => staged[i],
             \A i \in Jobs : notBefore'[i] = notBefore[i] /\ Dispatch(i)' = Dispatch(i),
             pc' \notin {"ended", "again"} \/ UNCHANGED <<pc, mine>>
      PROVE  StagedStays'
  BY <1>0, <1>2, PlaceNames DEF StagedStays
<1>3. CASE Gateway
  <2>1. UNCHANGED <<staged, notBefore, attempts, receipt, pc, mine>>
    BY <1>3 DEF Gateway, StageRequest, StageInterrupt, Drain, Reply, Enqueue, Interrupt,
       CompleteInbound, TombstoneInbound, tables, runner, world
  <2> QED BY <1>2, <2>1 DEF Dispatch
<1>4. CASE \/ CheckBarrier \/ ClaimNothing \/ Boot \/ StagedRecovered \/ Recovered
           \/ Crash \/ RaiseBarrier \/ LowerBarrier \/ UNCHANGED vars
           \/ \E j \in Jobs : \/ PassBarrier(j) \/ Activate(j) \/ Receive(j)
                              \/ RecheckCancel(j) \/ StagedRecoveryRaces(j) \/ TurnBreaks(j)
                              \/ Limited(j) \/ StopTurn(j) \/ TurnEnds(j)
                              \/ (Commit(j) /\ ~CanComplete(j))
  <2>1. UNCHANGED <<staged, notBefore, attempts, receipt>>
    BY <1>4 DEF CheckBarrier, ClaimNothing, Boot, StagedRecovered, Recovered,
       Crash, RaiseBarrier, LowerBarrier, vars, tables, PassBarrier, Activate, Receive,
       RecheckCancel, StagedRecoveryRaces, TurnBreaks, Limited, StopTurn, TurnEnds, Commit
  <2>2. pc' \notin {"ended", "again"} \/ UNCHANGED <<pc, mine>>
    BY <1>4 DEF CheckBarrier, ClaimNothing, Boot, StagedRecovered, Recovered,
       Crash, RaiseBarrier, LowerBarrier, vars, PassBarrier, Activate, Receive,
       RecheckCancel, StagedRecoveryRaces, TurnBreaks, Limited, StopTurn, TurnEnds, Commit,
       Goto, LetGo, runner
  <2> QED BY <1>2, <2>1, <2>2 DEF Dispatch
<1>5. ASSUME NEW j \in Jobs, Leaves(j) PROVE StagedStays'
  <2>1. \A i \in Jobs : staged'[i] => staged[i] /\ i # j
    BY <1>0, <1>5 DEF Leaves, TypeOK
  <2>2. \A i \in Jobs : i # j => notBefore'[i] = notBefore[i] /\ Dispatch(i)' = Dispatch(i)
    BY <1>5 DEF Leaves, Dispatch
  <2> QED BY <1>1, <1>5, <2>1, <2>2 DEF Leaves
<1>6. ASSUME NEW j \in Jobs, Claim(j) PROVE StagedStays'
  <2>1. /\ staged' = [staged EXCEPT ![j] = FALSE]
        /\ notBefore' = [notBefore EXCEPT ![j] = "null"]
        /\ attempts' = [attempts EXCEPT ![j] = attempts[j] + 1]
        /\ pc' \in {"doomed", "claimed"}
        /\ receipt' = [receipt EXCEPT ![j][attempts[j] + 1] = "prepared"]
    BY <1>6 DEF Claim
  <2>2. \A i \in Jobs : i # j => attempts'[i] = attempts[i] /\ receipt'[i] = receipt[i]
                                 /\ notBefore'[i] = notBefore[i]
    BY <1>0, <2>1 DEF TypeOK
  <2>3. \A i \in Jobs : staged'[i] => staged[i] /\ i # j
    BY <1>0, <2>1 DEF TypeOK
  <2> QED BY <1>1, <2>1, <2>2, <2>3 DEF Dispatch
<1>7. ASSUME NEW j \in Jobs, ReleaseAtBarrier(j) \/ MonitorPending(j) PROVE StagedStays'
  <2>1. /\ staged' = [staged EXCEPT ![j] = FALSE]
        /\ notBefore' = [notBefore EXCEPT ![j] = "null"]
        /\ attempts' = [attempts EXCEPT ![j] = attempts[j] - 1]
        /\ pc' \in {"idle", "down"}
        /\ receipt' = [receipt EXCEPT ![j][attempts[j]] = "none"]
    BY <1>7 DEF ReleaseAtBarrier, MonitorPending, ReleaseRow, LetGo
  <2>2. \A i \in Jobs : i # j => attempts'[i] = attempts[i] /\ receipt'[i] = receipt[i]
                                 /\ notBefore'[i] = notBefore[i]
    BY <1>0, <2>1 DEF TypeOK
  <2>3. \A i \in Jobs : staged'[i] => staged[i] /\ i # j
    BY <1>0, <2>1 DEF TypeOK
  <2> QED BY <1>1, <2>1, <2>2, <2>3 DEF Dispatch
<1>8. ASSUME NEW j \in Jobs,
             \/ BeginDispatch(j) \/ Acknowledge(j) \/ Rejected(j) \/ Ambiguous(j)
             \/ FinishTurn(j) \/ FinishLimited(j)
      PROVE  StagedStays'
  <2>1. /\ UNCHANGED <<staged, attempts>> /\ mine = j /\ mine' = j /\ ~staged[j]
    BY <1>0, <1>8 DEF BeginDispatch, Acknowledge, Rejected, Ambiguous, FinishTurn,
       FinishLimited, At, Goto, Before, Executing, tables
  <2>2. UNCHANGED receipt \/ \E r \in Receipts : SetReceipt(j, r)
    BY <1>8 DEF BeginDispatch, Acknowledge, Rejected, Ambiguous, FinishTurn,
       FinishLimited, tables, Receipts
  <2>3. \A i \in Jobs : i # j => receipt'[i] = receipt[i]
    BY <1>0, <2>2 DEF SetReceipt, TypeOK
  <2>4. \A i \in Jobs : i # j => notBefore'[i] = notBefore[i]
    BY <1>0, <1>8 DEF BeginDispatch, Acknowledge, Rejected, Ambiguous, FinishTurn,
       FinishLimited, tables, TypeOK
  <2>5. pc' \in {"ended", "again"} => notBefore'[j] = "null"
    BY <1>0, <1>8 DEF BeginDispatch, Acknowledge, Rejected, Ambiguous, FinishTurn,
       FinishLimited, Goto, TypeOK
  <2> QED BY <1>0, <2>1, <2>3, <2>4, <2>5 DEF StagedStays, Dispatch
<1>9. ASSUME NEW j \in Jobs, SoftLimit(j) \/ Tick(j) PROVE StagedStays'
  <2>1. /\ UNCHANGED <<staged, attempts, receipt, pc, mine>>
        /\ \A i \in Jobs : i # j => notBefore'[i] = notBefore[i]
        /\ SoftLimit(j) => mine = j /\ pc = "turn"
        /\ Tick(j) => notBefore[j] = "future"
    BY <1>0, <1>9 DEF SoftLimit, Tick, At, runner, TypeOK
  <2>2. ~staged[j] /\ (pc \in {"ended", "again"} => mine # j)
    BY <1>0, <1>9, <2>1 DEF StagedStays, Executing
  <2>3. pc \in {"ended", "again"} => mine \in Jobs
    BY <1>0, PlaceNames
  <2> QED BY <1>0, <2>1, <2>2, <2>3 DEF StagedStays, Dispatch
<1>10. ASSUME NEW j \in Jobs, Seal(j) PROVE StagedStays'
  <2>1. /\ UNCHANGED <<notBefore, attempts, receipt>> /\ mine = j /\ mine' = j
        /\ \A i \in Jobs : staged'[i] => staged[i] \/ i = j
        /\ pc = "ended"
    BY <1>0, <1>10 DEF Seal, At, Goto, tables, TypeOK
  <2>2. notBefore[j] = "null" /\ Dispatch(j) \in {"acknowledged", "observed"}
    BY <1>0, <2>1 DEF StagedStays, Consistent, Prompting
  <2> QED BY <1>0, <2>1, <2>2 DEF StagedStays, Dispatch
<1>11. ASSUME NEW j \in Jobs, NextTurn(j) PROVE StagedStays'
  BY <1>2, <1>11 DEF NextTurn, Goto, Dispatch
<1>12. ASSUME NEW j \in Jobs, ExecuteFails(j) PROVE StagedStays'
  <2>1. CASE UNCHANGED tables
    BY <1>2, <1>12, <2>1 DEF ExecuteFails, tables, Dispatch, Goto, LetGo
  <2>2. CASE Requeue(j, "future") /\ LetGo("idle")
    BY <1>0, <1>5, <1>12, <2>2, RowUpdates DEF ExecuteFails, At, LetGo
  <2> QED BY <1>12, <2>1, <2>2 DEF ExecuteFails
<1>13. ASSUME NEW j \in Jobs,
              \/ CancelAtClaim(j) \/ (Commit(j) /\ CanComplete(j)) \/ CancelRun(j)
              \/ FailRun(j) \/ Defer(j) \/ Interrupted(j)
              \/ RecoverStaged(j) \/ RecoverInterrupted(j)
       PROVE  StagedStays'
  <2>1. Leaves(j) \/ Elsewhere
    <3>1. ~(Commit(j) /\ CanComplete(j) /\ cancel[j])
      BY DEF CanComplete
    <3>2. ~(Commit(j) /\ CanComplete(j) /\ pc' = "cancelling")
      BY DEF Commit, LetGo
    <3> QED BY <1>0, <1>13, <3>1, <3>2, LeavingSteps DEF Goto, Commit, At, CancelAtClaim,
            CancelRun, FailRun, Defer, Interrupted, RecoverStaged, RecoverInterrupted
  <2>2. CASE Elsewhere
    BY <1>2, <2>2 DEF Elsewhere, tables, Dispatch, runner
  <2> QED BY <1>5, <2>1, <2>2
<1> QED
  BY <1>3, <1>4, <1>6, <1>7, <1>8, <1>9, <1>10, <1>11, <1>12, <1>13
  DEF Next, Work, Failure, AppServer, Recovery

\* No attempt is made for nothing: the second invariant holds in every behaviour.
THEOREM PayingInvariance == Spec => []Paying
<1>1. Init => Paying
  BY BoundAssumption DEF Init, Paying, PaidRows, PaidHere, StagedStays, Paid, Held
<1>2. Consistent /\ Paying /\ [Next]_vars => Paying'
  BY PaidRowsStep, PaidHereStep, StagedStaysStep DEF Paying
<1> QED BY <1>1, <1>2, Invariance, PTL DEF Spec

\* Every attempt after the first is owed to a failure.
THEOREM AttemptsArePaidForHolds == Spec => []AttemptsArePaidFor
<1>1. Paying => AttemptsArePaidFor
  BY DEF Paying, PaidRows, Owed, AttemptsArePaidFor
<1> QED BY PayingInvariance, <1>1, PTL

-----------------------------------------------------------------------------
(* The queue implements the safety of JobPromise, step by step.            *)

\* A row that is not over has no verdict, and a staged result is the last word
\* of the attempt that made it.
Ending ==
  /\ \A j \in Jobs : ~Settled(j) => outcome[j] = "none"
  /\ \A j \in Jobs : staged[j] => limit[j] = 0

\* Only the end of a row gives a verdict, and only the seal stages a result.
LEMMA EndingStep == Consistent /\ Paying /\ Ending /\ [Next]_vars => Ending'
<1> SUFFICES ASSUME Consistent, Paying, Ending, [Next]_vars PROVE Ending'
    OBVIOUS
<1>0. TypeOK /\ Resulting /\ Limiting
  BY DEF Consistent
<1>1. ASSUME UNCHANGED <<status, outcome, staged, limit>> PROVE Ending'
  BY <1>1 DEF Ending, Settled
<1>2. CASE Gateway
  <2>1. ASSUME NEW j \in Jobs, Enqueue(j) PROVE Ending'
    BY <1>0, <2>1 DEF Enqueue, HandedOff, Ending, Settled, TypeOK
  <2>2. CASE \A j \in Jobs : ~Enqueue(j)
    BY <1>1, <1>2, <2>2 DEF Gateway, StageRequest, StageInterrupt, Drain, Reply, Interrupt,
       CompleteInbound, TombstoneInbound, tables, Messages
  <2> QED BY <2>1, <2>2
<1>3. CASE \/ CheckBarrier \/ ClaimNothing \/ Boot \/ StagedRecovered \/ Recovered
           \/ Crash \/ RaiseBarrier \/ LowerBarrier \/ UNCHANGED vars
           \/ \E j \in Jobs : \/ PassBarrier(j) \/ Activate(j) \/ BeginDispatch(j)
                              \/ Acknowledge(j) \/ Receive(j) \/ Rejected(j) \/ Ambiguous(j)
                              \/ SoftLimit(j) \/ TurnBreaks(j) \/ StagedRecoveryRaces(j)
                              \/ StopTurn(j) \/ NextTurn(j) \/ RecheckCancel(j) \/ Limited(j)
                              \/ TurnEnds(j) \/ Tick(j)
  BY <1>1, <1>3 DEF CheckBarrier, ClaimNothing, Boot, StagedRecovered, Recovered, Crash,
     RaiseBarrier, LowerBarrier, vars, tables, PassBarrier, Activate, BeginDispatch,
     Acknowledge, Receive, Rejected, Ambiguous, SoftLimit, TurnBreaks, StagedRecoveryRaces,
     StopTurn, NextTurn, RecheckCancel, Limited, TurnEnds, Tick
<1>4. ASSUME NEW j \in Jobs, Claim(j) PROVE Ending'
  BY <1>0, <1>4 DEF Claim, Ready, Ending, Settled, TypeOK
<1>5. ASSUME NEW j \in Jobs, FinishTurn(j) \/ FinishLimited(j) PROVE Ending'
  <2>1. ~staged[j] /\ UNCHANGED <<status, outcome, staged>>
    BY <1>0, <1>5 DEF FinishTurn, FinishLimited, At, Resulting, Executing
  <2>2. \A i \in Jobs : i # j => limit'[i] = limit[i]
    BY <1>0, <1>5 DEF FinishTurn, FinishLimited, TypeOK
  <2> QED BY <2>1, <2>2 DEF Ending, Settled
<1>6. ASSUME NEW j \in Jobs, Seal(j) PROVE Ending'
  <2>1. limit[j] = 0
    BY <1>0, <1>6 DEF Seal, At, Limiting
  <2>2. UNCHANGED <<status, outcome, limit>> /\ \A i \in Jobs : staged'[i] => staged[i] \/ i = j
    BY <1>0, <1>6 DEF Seal, tables, TypeOK
  <2> QED BY <2>1, <2>2 DEF Ending, Settled
<1>7. ASSUME NEW j \in Jobs, CancelRow(j) \/ FailRow(j) \/ CompleteRow(j) PROVE Ending'
  <2>1. /\ limit' = limit /\ staged' = [staged EXCEPT ![j] = FALSE]
        /\ status' \in {[status EXCEPT ![j] = "failed"], [status EXCEPT ![j] = "completed"]}
        /\ \A i \in Jobs : i # j => outcome'[i] = outcome[i]
    BY <1>0, <1>7 DEF CancelRow, FailRow, CompleteRow, ClearExecution, TypeOK
  <2>2. status'[j] \in {"failed", "completed"} /\ \A i \in Jobs : i # j => status'[i] = status[i]
    BY <1>0, <2>1 DEF TypeOK
  <2>3. \A i \in Jobs : staged'[i] => staged[i]
    BY <1>0, <2>1 DEF TypeOK
  <2> QED BY <2>1, <2>2, <2>3 DEF Ending, Settled
<1>8. ASSUME NEW j \in Jobs, ReleaseRow(j) PROVE Ending'
  BY <1>0, <1>8 DEF ReleaseRow, Ending, Settled, TypeOK
<1>9. ASSUME NEW j \in Jobs, NEW w, QueueAgain(j, w) PROVE Ending'
  BY <1>0, <1>9 DEF QueueAgain, Ending, Settled, TypeOK
<1>10. ASSUME NEW j \in Jobs,
              \/ ReleaseAtBarrier(j) \/ MonitorPending(j) \/ CancelAtClaim(j)
              \/ ExecuteFails(j) \/ Commit(j) \/ CancelRun(j) \/ FailRun(j) \/ Defer(j)
              \/ Interrupted(j) \/ RecoverStaged(j) \/ RecoverInterrupted(j)
       PROVE  Ending'
  <2>1. \/ ReleaseRow(j) \/ CancelRow(j) \/ FailRow(j) \/ CompleteRow(j) \/ UNCHANGED tables
        \/ QueueAgain(j, "null") \/ QueueAgain(j, "future")
    BY <1>10 DEF ReleaseAtBarrier, MonitorPending, CancelAtClaim, ExecuteFails, Commit,
       CancelRun, FailRun, Defer, Interrupted, RecoverStaged, RecoverInterrupted, RecoverRow,
       Requeue, RequeueAt
  <2> QED BY <1>1, <1>7, <1>8, <1>9, <2>1 DEF tables
<1> QED
  BY <1>2, <1>3, <1>4, <1>5, <1>6, <1>10 DEF Next, Work, Failure, AppServer, Recovery

\* The second and the third invariant hold in every behaviour.
THEOREM EndingInvariance == Spec => []Ending
<1>1. Init => Ending
  BY DEF Init, Ending, Settled
<1> QED BY <1>1, EndingStep, Invariance, PayingInvariance, PTL DEF Spec

\* The variables of the promise stand still when nothing they are read from moves.
LEMMA PromiseStands ==
  ASSUME UNCHANGED <<seq, cancel, outcome>>, \A i \in Jobs : Custody(i)' = Custody(i)
  PROVE  UNCHANGED Promise!promise
  BY DEF Promise!promise

\* Custody depends on the row alone.
LEMMA CustodyOfRow ==
  ASSUME NEW i \in Jobs,
         status'[i] = status[i], attempts'[i] = attempts[i],
         limit'[i] = limit[i], receipt'[i] = receipt[i]
  PROVE  Custody(i)' = Custody(i)
  BY DEF Custody, Settled, MayBeDelivered, Dispatch

\* One row changes hands.
LEMMA CustodyMoves ==
  ASSUME NEW j \in Jobs, NEW from, NEW to, Custody(j) = from, Custody(j)' = to,
         \A i \in Jobs : i # j => Custody(i)' = Custody(i)
  PROVE  Promise!Move(j, from, to)
  BY DEF Promise!Move

\* A running row is with the worker or with Codex, and the others are where their
\* status says.
LEMMA RunningCustody ==
  ASSUME NEW j \in Jobs, status[j] = "running"
  PROVE  Custody(j) = IF MayBeDelivered(j) /\ limit[j] # attempts[j] THEN "codex" ELSE "worker"
  BY DEF Custody, Settled

LEMMA RestingCustody ==
  ASSUME NEW j \in Jobs
  PROVE  /\ status[j] = "absent" => Custody(j) = "none"
         /\ status[j] = "queued" => Custody(j) = "queue"
         /\ status'[j] = "queued" => Custody(j)' = "queue"
  BY DEF Custody, Settled

\* Every step of the queue is a step of the promise or none.
LEMMA PromiseStep ==
  Consistent /\ Paying /\ Ending /\ [Next]_vars => [Promise!Next]_(Promise!promise)
<1> SUFFICES ASSUME Consistent, Paying, Ending, [Next]_vars
             PROVE  Promise!Next \/ UNCHANGED Promise!promise
    OBVIOUS
<1>0. /\ TypeOK /\ Holding /\ Numbering /\ Limiting /\ Prompting /\ Resulting /\ StagedStays
      /\ \A j \in Jobs : seq[j] \in Nat /\ attempts[j] \in Nat /\ limit[j] \in Nat
      /\ lastSeq \in Nat
  BY BoundAssumption DEF Consistent, Paying, TypeOK
<1>1. ASSUME UNCHANGED <<status, attempts, limit, receipt, seq, cancel, outcome>>
      PROVE  UNCHANGED Promise!promise
  BY <1>1, PromiseStands, CustodyOfRow
<1>2. ASSUME NEW j \in Jobs, Enqueue(j) PROVE Promise!Next
  <2>1. /\ status[j] = "absent" /\ status' = [status EXCEPT ![j] = "queued"]
        /\ seq' = [seq EXCEPT ![j] = lastSeq + 1]
        /\ UNCHANGED <<attempts, limit, receipt, cancel, outcome>>
    BY <1>2 DEF Enqueue, HandedOff
  <2>2. \A i \in Jobs : i # j => Custody(i)' = Custody(i)
    BY <1>0, <2>1, CustodyOfRow DEF TypeOK
  <2>3. Custody(j) = "none" /\ Custody(j)' = "queue"
    BY <1>0, <2>1, RestingCustody DEF TypeOK
  <2>4. Promise!Move(j, "none", "queue")
    BY <2>2, <2>3, CustodyMoves
  <2>5. seq'[j] = lastSeq + 1 /\ \A i \in Jobs : seq[i] < seq'[j]
    BY <1>0, <2>1 DEF TypeOK, Numbering
  <2>6. Promise!Accept(j)
    BY <2>1, <2>4, <2>5 DEF Promise!Accept
  <2> QED BY <2>6 DEF Promise!Next
<1>3. ASSUME NEW j \in Jobs, Interrupt(j) PROVE Promise!Next
  <2>1. /\ Unsettled(j) /\ cancel' = [cancel EXCEPT ![j] = TRUE]
        /\ UNCHANGED <<status, attempts, limit, receipt, seq, outcome>>
    BY <1>3 DEF Interrupt
  <2>2. Custody(j) \in {"queue", "worker", "codex"}
    BY <2>1 DEF Unsettled, Custody, Settled
  <2>3. {i \in Jobs : cancel'[i]} = {i \in Jobs : cancel[i]} \cup {j}
    BY <1>0, <2>1 DEF TypeOK
  <2>4. \A i \in Jobs : Custody(i)' = Custody(i)
    BY <2>1, CustodyOfRow
  <2>5. Promise!Stop(j)
    BY <2>1, <2>2, <2>3, <2>4 DEF Promise!Stop
  <2> QED BY <2>5 DEF Promise!Next
<1>4. ASSUME NEW j \in Jobs, Claim(j) PROVE Promise!Next
  <2>1. /\ Ready(j) /\ \A i \in Jobs : status[i] # "running"
        /\ status' = [status EXCEPT ![j] = "running"]
        /\ outcome' = [outcome EXCEPT ![j] = "none"]
        /\ UNCHANGED <<seq, cancel, limit>>
    BY <1>4 DEF Claim
  <2>2. /\ attempts[j] \in Nat /\ attempts[j] + 1 \in Attempts
        /\ attempts' = [attempts EXCEPT ![j] = attempts[j] + 1]
        /\ \A i \in Jobs, a \in Attempts :
             receipt'[i][a] = IF i = j /\ a = attempts[j] + 1 THEN "prepared" ELSE receipt[i][a]
    BY <1>0, <1>4, ReceiptPrepared
  <2>3. /\ receipt' = [receipt EXCEPT ![j][attempts[j] + 1] = "prepared"]
    BY <1>4 DEF Claim
  <2>4. \A i \in Jobs : i # j => Custody(i)' = Custody(i)
    <3>1. \A i \in Jobs : i # j => /\ status'[i] = status[i] /\ attempts'[i] = attempts[i]
                                   /\ limit'[i] = limit[i] /\ receipt'[i] = receipt[i]
      BY <1>0, <2>1, <2>2, <2>3 DEF TypeOK
    <3> QED BY <3>1, CustodyOfRow
  <2>5. Custody(j) = "queue" /\ Custody(j)' = "worker"
    <3>1. Custody(j) = "queue"
      BY <2>1, RestingCustody DEF Ready
    <3>2. status'[j] = "running" /\ Dispatch(j)' = "prepared"
      BY <1>0, <2>1, <2>2 DEF Dispatch, TypeOK
    <3> QED BY <3>1, <3>2 DEF Custody, Settled, MayBeDelivered
  <2>6. Promise!Move(j, "queue", "worker")
    BY <2>4, <2>5, CustodyMoves
  <2>7. outcome' = outcome
    <3>1. outcome[j] = "none"
      BY <2>1 DEF Ending, Ready, Settled
    <3> QED BY <1>0, <2>1, <3>1 DEF TypeOK
  <2>8. \A i \in Jobs : Custody(i) \notin {"worker", "codex"}
    BY <1>0, <2>1 DEF Custody, TypeOK, Statuses, Settled
  <2>9. ASSUME NEW i \in Jobs, ThreadOf[i] = ThreadOf[j], 0 < seq[i], seq[i] < seq[j]
        PROVE  Custody(i) = "over"
    <3>1. ~Unsettled(i)
      BY <2>1, <2>9 DEF Ready
    <3>2. status[i] # "absent"
      BY <1>0, <2>9 DEF Numbering
    <3> QED BY <1>0, <3>1, <3>2 DEF Unsettled, Custody, Settled, TypeOK, Statuses
  <2>10. Promise!Take(j)
    BY <2>1, <2>6, <2>7, <2>8, <2>9 DEF Promise!Take
  <2> QED BY <2>10 DEF Promise!Next
<1>5. ASSUME NEW j \in Jobs, ReleaseRow(j) PROVE Promise!Next
  <2>1. /\ status[j] = "running" /\ Dispatch(j) = "prepared"
        /\ status' = [status EXCEPT ![j] = "queued"]
        /\ attempts' = [attempts EXCEPT ![j] = attempts[j] - 1]
        /\ receipt' = [receipt EXCEPT ![j][attempts[j]] = "none"]
        /\ UNCHANGED <<seq, cancel, limit, outcome>>
    BY <1>5 DEF ReleaseRow
  <2>2. Custody(j) = "worker" /\ Custody(j)' = "queue"
    BY <1>0, <2>1, RunningCustody, RestingCustody DEF MayBeDelivered, TypeOK
  <2>3. \A i \in Jobs : i # j => Custody(i)' = Custody(i)
    <3>1. \A i \in Jobs : i # j => /\ status'[i] = status[i] /\ attempts'[i] = attempts[i]
                                   /\ limit'[i] = limit[i] /\ receipt'[i] = receipt[i]
      BY <1>0, <2>1 DEF TypeOK
    <3> QED BY <3>1, CustodyOfRow
  <2>4. Promise!Return(j)
    BY <2>1, <2>2, <2>3, CustodyMoves DEF Promise!Return
  <2> QED BY <2>4 DEF Promise!Next
<1>6. ASSUME NEW j \in Jobs, NEW v \in {"completed", "failed", "cancelled"},
             status[j] = "running",
             NEW s \in {"completed", "failed"}, status' = [status EXCEPT ![j] = s],
             outcome' = [outcome EXCEPT ![j] = v],
             UNCHANGED <<attempts, receipt, seq, cancel, limit>>,
             v = "completed" => staged[j] /\ ~cancel[j],
             v = "cancelled" => cancel[j]
      PROVE  Promise!Next
  <2>1. Custody(j) \in {"worker", "codex"} /\ Custody(j)' = "over"
    BY <1>0, <1>6, RunningCustody DEF Custody, Settled, TypeOK
  <2>2. \A i \in Jobs : i # j => Custody(i)' = Custody(i)
    BY <1>0, <1>6, CustodyOfRow DEF TypeOK
  <2>3. Promise!Move(j, "worker", "over") \/ Promise!Move(j, "codex", "over")
    BY <2>1, <2>2, CustodyMoves
  <2>4. v = "completed" => Custody(j) = "codex"
    <3> SUFFICES ASSUME staged[j] PROVE Custody(j) = "codex"
        BY <1>6
    <3>1. Dispatch(j) \in {"acknowledged", "observed"} /\ limit[j] = 0
      BY <1>0 DEF StagedStays, Ending
    <3>2. attempts[j] # 0
      BY <3>1 DEF Dispatch
    <3> QED BY <1>6, <3>1, <3>2, RunningCustody DEF MayBeDelivered
  <2>5. [i \in Jobs |-> outcome'[i]] = [[i \in Jobs |-> outcome[i]] EXCEPT ![j] = v]
    BY <1>0, <1>6 DEF TypeOK
  <2>6. Promise!Settle(j)
    BY <1>6, <2>3, <2>4, <2>5 DEF Promise!Settle
  <2> QED BY <2>6 DEF Promise!Next
<1>7. ASSUME NEW j \in Jobs,
             \/ CancelRow(j) \/ FailRow(j)
             \/ CompleteRow(j) /\ status[j] = "running" /\ staged[j] /\ ~cancel[j]
      PROVE  Promise!Next
  <2>1. CASE CancelRow(j)
    BY <1>6, <2>1 DEF CancelRow
  <2>2. CASE FailRow(j)
    BY <1>6, <2>2 DEF FailRow
  <2>3. CASE CompleteRow(j) /\ status[j] = "running" /\ staged[j] /\ ~cancel[j]
    BY <1>6, <2>3 DEF CompleteRow
  <2> QED BY <1>7, <2>1, <2>2, <2>3
<1>8. ASSUME NEW j \in Jobs, NEW w, QueueAgain(j, w),
             Write(j) => Undelivered(j) \/ DurableLimit(j)
      PROVE  Promise!Next
  <2>1. /\ status[j] = "running" /\ status' = [status EXCEPT ![j] = "queued"]
        /\ UNCHANGED <<seq, attempts, cancel, limit, outcome, receipt>>
    BY <1>8 DEF QueueAgain
  <2>2. Custody(j) \in {"worker", "codex"} /\ Custody(j)' = "queue"
    BY <1>0, <2>1, RunningCustody, RestingCustody DEF TypeOK
  <2>3. \A i \in Jobs : i # j => Custody(i)' = Custody(i)
    BY <1>0, <2>1, CustodyOfRow DEF TypeOK
  <2>4. Custody(j) = "codex" => ~Write(j)
    BY <1>8, <2>1, RunningCustody DEF Undelivered, MayBeDelivered, DurableLimit
  <2>5. CASE Custody(j) = "worker"
    BY <2>1, <2>2, <2>3, <2>5, CustodyMoves DEF Promise!Return, Promise!Next
  <2>6. CASE Custody(j) = "codex"
    BY <2>1, <2>2, <2>3, <2>4, <2>6, CustodyMoves DEF Promise!Reclaim, Promise!Next
  <2> QED BY <2>2, <2>5, <2>6
<1>9. ASSUME NEW j \in Jobs, NEW r \in Receipts, SetReceipt(j, r), At(j, pc),
             pc \in {"execute", "sending", "turn"},
             UNCHANGED <<status, attempts, seq, cancel, outcome>>,
             \A i \in Jobs : i # j => limit'[i] = limit[i]
      PROVE  /\ status[j] = "running" /\ Dispatch(j)' = r /\ limit[j] < attempts[j]
             /\ \A i \in Jobs : i # j => Custody(i)' = Custody(i)
  <2>1. status[j] = "running" /\ limit[j] < attempts[j]
    BY <1>0, <1>9 DEF At, Holding, Limiting, Before, Executing
  <2>2. attempts[j] # 0
    BY <1>0, <2>1
  <2>3. Dispatch(j)' = r
    BY <1>0, <1>9, <2>2, ReceiptWritten DEF Dispatch
  <2>4. \A i \in Jobs : i # j => receipt'[i] = receipt[i]
    BY <1>0, <1>9 DEF SetReceipt, TypeOK
  <2> QED BY <1>9, <2>1, <2>3, <2>4, CustodyOfRow
<1>10. ASSUME NEW j \in Jobs, BeginDispatch(j), ~cancel[j] PROVE Promise!Next
  <2>1. /\ SetReceipt(j, "dispatching") /\ At(j, pc) /\ pc = "execute"
        /\ UNCHANGED <<status, attempts, seq, cancel, outcome, limit>>
        /\ Dispatch(j) = "prepared"
    BY <1>10 DEF BeginDispatch, At
  <2>2. /\ status[j] = "running" /\ Dispatch(j)' = "dispatching" /\ limit[j] < attempts[j]
        /\ \A i \in Jobs : i # j => Custody(i)' = Custody(i)
    BY <1>9, <2>1 DEF Receipts
  <2>3. Custody(j) = "worker"
    BY <2>1, <2>2, RunningCustody DEF MayBeDelivered
  <2>4. Custody(j)' = "codex"
    BY <1>0, <2>1, <2>2 DEF Custody, Settled, MayBeDelivered
  <2>5. Promise!Hand(j)
    BY <2>1, <2>2, <2>3, <2>4, CustodyMoves DEF Promise!Hand
  <2> QED BY <2>5 DEF Promise!Next
<1>11. ASSUME NEW j \in Jobs, Acknowledge(j) \/ Ambiguous(j) \/ FinishTurn(j)
       PROVE  UNCHANGED Promise!promise
  <2> PICK r \in {"acknowledged", "ambiguous", "observed"} : SetReceipt(j, r)
      BY <1>11 DEF Acknowledge, Ambiguous, FinishTurn
  <2>1. /\ At(j, pc) /\ pc \in {"execute", "sending", "turn"}
        /\ UNCHANGED <<status, attempts, seq, cancel, outcome>>
        /\ \A i \in Jobs : i # j => limit'[i] = limit[i]
        /\ limit'[j] = limit[j] \/ limit'[j] = 0
    BY <1>0, <1>11 DEF Acknowledge, Ambiguous, FinishTurn, At, TypeOK
  <2>2. /\ status[j] = "running" /\ Dispatch(j)' = r /\ limit[j] < attempts[j]
        /\ \A i \in Jobs : i # j => Custody(i)' = Custody(i)
    BY <1>9, <2>1 DEF Receipts
  <2>3. Dispatch(j) \in {"dispatching", "acknowledged", "observed"}
    BY <1>0, <1>11 DEF Acknowledge, Ambiguous, FinishTurn, At, Prompting
  <2>4. Custody(j) = "codex"
    BY <1>0, <2>2, <2>3, RunningCustody DEF MayBeDelivered
  <2>5. Custody(j)' = "codex"
    BY <1>0, <2>1, <2>2 DEF Custody, Settled, MayBeDelivered
  <2> QED BY <2>1, <2>2, <2>4, <2>5, PromiseStands
<1>12. ASSUME NEW j \in Jobs, Rejected(j) \/ FinishLimited(j) PROVE Promise!Next
  <2> PICK r \in {"rejected", "observed"} :
         SetReceipt(j, r) /\ (r = "observed" => limit'[j] = attempts[j])
      BY <1>0, <1>12 DEF Rejected, FinishLimited, TypeOK
  <2>1. /\ At(j, pc) /\ pc \in {"execute", "sending", "turn"}
        /\ UNCHANGED <<status, attempts, seq, cancel, outcome>>
        /\ \A i \in Jobs : i # j => limit'[i] = limit[i]
    BY <1>0, <1>12 DEF Rejected, FinishLimited, At, TypeOK
  <2>2. /\ status[j] = "running" /\ Dispatch(j)' = r /\ limit[j] < attempts[j]
        /\ \A i \in Jobs : i # j => Custody(i)' = Custody(i)
    BY <1>9, <2>1 DEF Receipts
  <2>3. Dispatch(j) \in {"dispatching", "acknowledged", "observed"}
    BY <1>0, <1>12 DEF Rejected, FinishLimited, At, Prompting
  <2>4. Custody(j) = "codex"
    BY <1>0, <2>2, <2>3, RunningCustody DEF MayBeDelivered
  <2>5. Custody(j)' = "worker"
    BY <2>1, <2>2 DEF Custody, Settled, MayBeDelivered
  <2>6. Promise!Refuse(j)
    BY <2>1, <2>2, <2>4, <2>5, CustodyMoves DEF Promise!Refuse
  <2> QED BY <2>6 DEF Promise!Next
<1>13. CASE Gateway
  <2>1. CASE \E j \in Jobs : Enqueue(j) \/ Interrupt(j)
    BY <1>2, <1>3, <2>1
  <2>2. CASE \A j \in Jobs : ~Enqueue(j) /\ ~Interrupt(j)
    BY <1>1, <1>13, <2>2 DEF Gateway, StageRequest, StageInterrupt, Drain, Reply,
       CompleteInbound, TombstoneInbound, tables, Messages
  <2> QED BY <2>1, <2>2
<1>14. CASE \/ CheckBarrier \/ ClaimNothing \/ Boot \/ StagedRecovered \/ Recovered
            \/ Crash \/ RaiseBarrier \/ LowerBarrier \/ UNCHANGED vars
            \/ \E j \in Jobs : \/ PassBarrier(j) \/ Activate(j) \/ (BeginDispatch(j) /\ cancel[j])
                               \/ Receive(j) \/ SoftLimit(j) \/ TurnBreaks(j)
                               \/ StagedRecoveryRaces(j) \/ StopTurn(j) \/ NextTurn(j)
                               \/ RecheckCancel(j) \/ Limited(j) \/ TurnEnds(j) \/ Tick(j)
                               \/ Seal(j)
  BY <1>1, <1>14 DEF CheckBarrier, ClaimNothing, Boot, StagedRecovered, Recovered, Crash,
     RaiseBarrier, LowerBarrier, vars, tables, PassBarrier, Activate, BeginDispatch,
     Receive, SoftLimit, TurnBreaks, StagedRecoveryRaces, StopTurn, NextTurn, RecheckCancel,
     Limited, TurnEnds, Tick, Seal
<1>15. ASSUME NEW j \in Jobs,
              \/ ReleaseAtBarrier(j) \/ MonitorPending(j) \/ CancelAtClaim(j)
              \/ ExecuteFails(j) \/ Commit(j) \/ CancelRun(j) \/ FailRun(j) \/ Defer(j)
              \/ Interrupted(j) \/ RecoverStaged(j) \/ RecoverInterrupted(j)
       PROVE  Promise!Next \/ UNCHANGED Promise!promise
  <2>1. \/ ReleaseRow(j) \/ CancelRow(j) \/ FailRow(j) \/ UNCHANGED tables
        \/ Requeue(j, "null") \/ Requeue(j, "future") \/ RequeueAt(j)
        \/ (QueueAgain(j, "null") /\ KindOf[j] = "audit")
        \/ CompleteRow(j) /\ ((Commit(j) /\ CanComplete(j)) \/ RecoverStaged(j))
    BY <1>15 DEF ReleaseAtBarrier, MonitorPending, CancelAtClaim, ExecuteFails, Commit,
       CancelRun, FailRun, Defer, Interrupted, RecoverStaged, RecoverInterrupted, RecoverRow
  <2>2. (Commit(j) /\ CanComplete(j)) \/ RecoverStaged(j)
          => status[j] = "running" /\ staged[j] /\ ~cancel[j]
    BY <1>0 DEF Commit, CanComplete, At, Resulting, RecoverStaged, Recoverable
  <2>3. Requeue(j, "null") \/ Requeue(j, "future") => Promise!Next
    BY <1>8 DEF Requeue
  <2>4. RequeueAt(j) => Promise!Next
    BY <1>8, DeferredWrite DEF RequeueAt
  <2>5. QueueAgain(j, "null") /\ KindOf[j] = "audit" => Promise!Next
    BY <1>8 DEF Write
  <2>6. UNCHANGED tables => UNCHANGED Promise!promise
    BY <1>1 DEF tables
  <2> QED BY <1>5, <1>7, <2>1, <2>2, <2>3, <2>4, <2>5, <2>6
<1> QED
  BY <1>4, <1>10, <1>11, <1>12, <1>13, <1>14, <1>15
  DEF Next, Work, Failure, AppServer, Recovery

\* The queue keeps the promise of JobPromise, but for its ending: custody never
\* skips a hand-over, requests are taken one at a time and in order, nothing comes
\* back from Codex on a doubt, and a verdict is what the end of the turn makes it.
THEOREM ImplementsPromise == Spec => Promise!Safety
<1>1. Init => Promise!Init
  <2> SUFFICES ASSUME Init PROVE Promise!Init
      OBVIOUS
  <2>1. \A j \in Jobs : Custody(j) = "none"
    BY RestingCustody DEF Init
  <2>2. \A j \in Jobs : seq[j] = 0 /\ ~cancel[j] /\ outcome[j] = "none"
    BY DEF Init
  <2> QED BY <2>1, <2>2 DEF Init, Promise!Init
<1> QED
  BY <1>1, PromiseStep, Invariance, PayingInvariance, EndingInvariance, PTL
  DEF Spec, Promise!Safety

=============================================================================
