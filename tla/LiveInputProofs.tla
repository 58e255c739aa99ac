-------------------------- MODULE LiveInputProofs --------------------------
(***************************************************************************)
(* Proofs about LiveInput for every set of replies and every bound.        *)
(*                                                                         *)
(* Executor, gateway and notifier share the rows of the interjections.     *)
(* What keeps them out of each other's way is that at most one row is      *)
(* taken up at a time, the foremost of the unfinished ones; the rest of    *)
(* the invariant says what the executor knows of that row at each place.   *)
(***************************************************************************)
EXTENDS LiveInput, FiniteSetTheorems, TLAPS

InLine(r) == \E i \in 1 .. Len(line) : line[i] = r

\* A row stands in the line once, and only the foremost of the unfinished rows has
\* been taken up.
Lined ==
  /\ \A r \in Replies : ij[r] = "none" <=> ~InLine(r)
  /\ \A i, k \in 1 .. Len(line) : line[i] = line[k] => i = k
  /\ \A r \in Replies : ij[r] \notin {"none", "ready", "superseded"} => Foremost(r)

\* What became of a message and what the thread has seen agree with its row.
Accounted ==
  /\ \A r \in Replies : fate[r] \notin {"live", "retired"} => ij[r] = "none"
  /\ \A r \in Replies : fate[r] = "live" => ij[r] # "none"
  /\ \A r \in Replies : ij[r] = "superseded" => cancel \/ status = "failed"
  /\ \A r \in Replies : ij[r] \in {"delivered", "promoted"} => r \in told
  /\ posting # None => posting \in told
  /\ cancel => \A r \in Replies : ij[r] # "answered"
  /\ status = "completed" => ~cancel /\ \A r \in Replies : Closed(r)

\* The input is what was promoted into it, and whatever may still be asked or
\* answered is bound to it.
Updates == {r \in Replies : ij[r] = "promoted" /\ kind[r] = "task-update"}
Bound ==
  /\ revision = 1 + Cardinality(Updates)
  /\ Active => \A r \in Replies : ~Closed(r) /\ ij[r] # "ambiguous" => bindRev[r] = revision
  /\ \A r \in Replies : ij[r] \in {"answered", "delivered"} => kind[r] # "none"
  /\ cancel => ~accepts

InTurn == {"turn", "stopping", "terminal"}

\* While the executor is at work the job runs, and the row it has in hand is as its
\* place in the code takes it to be.
Running == pc \notin {"idle", "down", "reconciled", "settled"} => status = "running"

AnswerInHand ==
  pc \in InTurn \cup {"barrier"} /\ turn = "answer"
    => current \in Replies /\ ij[current] = "answering"

PauseInHand ==
  /\ pc \in {"suspending", "pausing"} => turn = "task" /\ current \in Replies
  /\ pc = "suspending" => Foremost(current) /\ ij[current] \in {"ready", "superseded"}
  /\ pc = "pausing" => ij[current] = "pausing"

ReplyInHand ==
  /\ pc \in {"answer", "prepared", "asking", "deliver", "promote"} => current \in Replies
  /\ pc = "prepared" => ij[current] = "answer-prepared" \/ cancel
  /\ pc = "asking" => ij[current] = "answering"
  /\ pc = "deliver" => ij[current] \in {"answered", "delivered", "superseded"}
  /\ pc = "promote" => ij[current] = "delivered"

RejectedInHand ==
  rejected # None =>
    /\ pc \in InTurn => ij[rejected] = "pausing"
    /\ pc = "barrier" => cancel
    /\ pc \notin {"start", "suspending", "pausing", "gap", "decide", "accepted",
                  "stranded", "answer", "prepared", "asking"}

InHand == Running /\ AnswerInHand /\ PauseInHand /\ ReplyInHand /\ RejectedInHand

\* The input that the executor's turn, its result and the staged result rest on.
TurnCovers ==
  /\ pc \in InTurn \cup {"suspending", "pausing", "barrier"} /\ turn # "answer"
       => covers = revision
  /\ pc \in {"gap", "decide", "accepted"} => covers = revision

ResultCovers ==
  /\ \/ pc \in {"answer", "prepared", "asking", "deliver", "promote"}
     \/ pc \in InTurn \cup {"barrier"} /\ turn = "answer"
     => result \in {0, revision}
  /\ pc = "publish" => result = revision

StagedCovers ==
  staged # 0 =>
    /\ staged = revision /\ ~accepts /\ \A r \in Replies : Closed(r)
    /\ status # "queued"
    /\ pc \in {"sealed", "cancelling", "idle", "down", "reconciled", "settled"}

Covered == TurnCovers /\ ResultCovers /\ StagedCovers

Inv == TypeOK /\ Lined /\ Accounted /\ Bound /\ InHand /\ Covered

-----------------------------------------------------------------------------
(* Lemmas about the constants, the line and the input.                     *)

\* The bounds are numbers, and so is the number of replies.
LEMMA Constants ==
  Cardinality(Replies) \in Nat /\ MaxFaults \in Nat /\ MaxAttempts \in Nat \ {0}
  BY FaultAssumption, FS_CardinalityType

\* The first state is well typed.
LEMMA InitTypeOK == Init => TypeOK
<1> SUFFICES ASSUME Init PROVE TypeOK
    OBVIOUS
<1>1. 0 \in Revisions /\ 1 \in Revisions
  BY Constants DEF Revisions
<1>2. 1 \in 1 .. MaxAttempts /\ 0 \in 0 .. MaxAttempts /\ 0 \in 0 .. MaxFaults
  BY Constants
<1>3. JobTyped
  BY <1>1, <1>2 DEF Init, JobTyped
<1>4. RowsTyped
  BY <1>1 DEF Init, RowsTyped, Interjection
<1>5. IngressTyped
  BY DEF Init, IngressTyped, Messages
<1>6. pc \in Places
  BY DEF Init, Places
<1>7. MemoryTyped /\ NotifierTyped
  BY <1>1 DEF Init, MemoryTyped, NotifierTyped, Endings
<1> QED BY <1>2, <1>3, <1>4, <1>5, <1>6, <1>7 DEF Init, TypeOK

\* The ledger stays a set of messages in the order of their rows.
LEMMA LedgerStays ==
  ASSUME IngressTyped, \/ \E m \in Messages : Enter(m)
                       \/ \E S \in SUBSET Messages : Leave(S)
                       \/ UNCHANGED <<inbound, older>>
  PROVE  inbound' \subseteq Messages /\ older' \subseteq inbound' \X inbound'
<1> USE DEF IngressTyped
<1>1. ASSUME NEW m \in Messages, Enter(m)
      PROVE  inbound' \subseteq Messages /\ older' \subseteq inbound' \X inbound'
  BY <1>1 DEF Enter
<1>2. ASSUME NEW S \in SUBSET Messages, Leave(S)
      PROVE  inbound' \subseteq Messages /\ older' \subseteq inbound' \X inbound'
  <2>1. inbound' \subseteq Messages
    BY <1>2 DEF Leave
  <2>2. ASSUME NEW p \in older' PROVE p \in inbound' \X inbound'
    BY <1>2, <2>2 DEF Leave
  <2> QED BY <2>1, <2>2
<1> QED BY <1>1, <1>2

\* The updates of several interjections at once keep the types.
LEMMA SweepTyped ==
  ASSUME RowsTyped, NEW l
  PROVE  /\ SupersedeWaiting \in [Replies -> Interjection]
         /\ FinishRows(l) \in [Replies -> Interjection]
  BY DEF RowsTyped, SupersedeWaiting, FinishRows, Retryable, Interjection

\* The updates that end the job keep the types.
LEMMA SettleTyped ==
  ASSUME JobTyped, RowsTyped, 0 \in Revisions, CancelRow \/ FailRow
  PROVE  JobTyped' /\ RowsTyped'
<1>1. RowsTyped'
  <2>1. ij' \in [Replies -> Interjection]
    BY DEF RowsTyped, CancelRow, FailRow, Interjection
  <2> QED BY <2>1 DEF RowsTyped, CancelRow, FailRow, Close
<1>2. stop' \in {stop, "superseded", "ambiguous"}
  <2>1. CASE CancelRow
    BY <2>1 DEF CancelRow
  <2>2. CASE FailRow
    BY <2>2 DEF FailRow
  <2> QED BY <2>1, <2>2
<1>3. Close
  BY DEF CancelRow, FailRow
<1> QED BY <1>1, <1>2, <1>3 DEF JobTyped, Close

\* The transaction that ends a turn keeps the types.
LEMMA FinishTyped ==
  ASSUME JobTyped, RowsTyped, NEW l, NEW t, FinishTurn(l, t)
  PROVE  /\ ij' \in [Replies -> Interjection] /\ pausedAt' \in [Replies -> BOOLEAN]
         /\ stop' \in {stop, "observed"} /\ accepts' \in BOOLEAN
         /\ turn' \in {turn, "none"} /\ limit' \in 0 .. MaxAttempts
<1>1. ij' \in [Replies -> Interjection]
  BY SweepTyped DEF FinishTurn
<1>2. pausedAt' \in [Replies -> BOOLEAN]
  <2>1. \A r \in Replies : (pausedAt[r] \/ (ij[r] = "pausing" /\ ~l)) \in BOOLEAN
    BY ZenonT(30)
  <2> QED BY <2>1 DEF FinishTurn
<1>3. accepts' \in BOOLEAN
  <2>1. \A a, b : StaysOpen(a, b) \in BOOLEAN
    BY ZenonT(30) DEF StaysOpen
  <2> QED BY <2>1, ZenonT(30) DEF FinishTurn
<1>4. limit' = attempts \/ limit' = 0
  BY DEF FinishTurn
<1>5. limit' \in 0 .. MaxAttempts
  BY <1>4, Constants DEF JobTyped
<1> QED BY <1>1, <1>2, <1>3, <1>5 DEF FinishTurn

\* The barrier leads to a place of the executor.
LEMMA AfterBarrierTyped ==
  AfterBarrier \in {"cancelling", "limited", "barrier", "failing", "loop", "decide",
                    "accepted"}
  BY DEF AfterBarrier

\* Before a reply is promoted there is room for one more revision.
LEMMA RevisionRoom ==
  ASSUME Inv, NEW r \in Replies, ij[r] # "promoted"
  PROVE  revision + 1 \in Revisions
<1>1. IsFiniteSet(Updates) /\ IsFiniteSet(Updates \cup {r})
  BY FaultAssumption, FS_Subset, FS_AddElement DEF Updates
<1>2. Cardinality(Updates \cup {r}) = Cardinality(Updates) + 1
  BY <1>1, FS_AddElement DEF Updates
<1>3. Cardinality(Updates \cup {r}) =< Cardinality(Replies)
  BY FaultAssumption, FS_Subset DEF Updates
<1>4. Cardinality(Updates) \in Nat /\ Cardinality(Replies) \in Nat
  BY <1>1, Constants, FS_CardinalityType
<1> QED BY <1>2, <1>3, <1>4 DEF Inv, Bound, Revisions

\* Every step keeps the types.
LEMMA TypeStep == Inv /\ [Next]_vars => TypeOK'
<1> SUFFICES ASSUME Inv, [Next]_vars PROVE TypeOK'
    OBVIOUS
<1>0. /\ JobTyped /\ RowsTyped /\ IngressTyped /\ pc \in Places /\ MemoryTyped
      /\ NotifierTyped /\ faults \in 0 .. MaxFaults
      /\ 0 \in Revisions /\ MaxFaults \in Nat /\ MaxAttempts \in Nat \ {0}
  BY Constants DEF Inv, TypeOK, Revisions
<1> USE <1>0
<1>1. ASSUME NEW m \in Messages, AdmitBound(m) PROVE TypeOK'
  <2>1. JobTyped' /\ RowsTyped' /\ pc' \in Places /\ MemoryTyped' /\
         NotifierTyped' /\ faults' \in 0 .. MaxFaults
    BY <1>1 DEF AdmitBound, JobTyped, jobRow, RowsTyped, rows, MemoryTyped,
           memory, NotifierTyped, notifier
  <2>2. IngressTyped'
    BY <1>1, LedgerStays DEF AdmitBound, IngressTyped, ingress
  <2> QED BY <2>1, <2>2 DEF TypeOK
<1>2. ASSUME NEW m \in Messages, AdmitUnbound(m) PROVE TypeOK'
  <2>1. JobTyped' /\ RowsTyped' /\ pc' \in Places /\ MemoryTyped' /\
         NotifierTyped' /\ faults' \in 0 .. MaxFaults
    BY <1>2 DEF AdmitUnbound, JobTyped, jobRow, RowsTyped, rows, MemoryTyped,
           memory, NotifierTyped, notifier
  <2>2. IngressTyped'
    BY <1>2, LedgerStays DEF AdmitUnbound, IngressTyped, ingress
  <2> QED BY <2>1, <2>2 DEF TypeOK
<1>3. CASE ClaimInbound
  <2>1. JobTyped' /\ RowsTyped' /\ pc' \in Places /\ MemoryTyped' /\
         NotifierTyped' /\ faults' \in 0 .. MaxFaults
    BY <1>3 DEF ClaimInbound, JobTyped, jobRow, RowsTyped, rows, MemoryTyped,
           memory, NotifierTyped, notifier
  <2>2. IngressTyped'
    BY <1>3 DEF ClaimInbound, IngressTyped, ingress
  <2> QED BY <2>1, <2>2 DEF TypeOK
<1>4. CASE CompleteInbound
  <2>1. JobTyped' /\ RowsTyped' /\ pc' \in Places /\ MemoryTyped' /\
         NotifierTyped' /\ faults' \in 0 .. MaxFaults
    BY <1>4 DEF CompleteInbound, JobTyped, jobRow, RowsTyped, rows, MemoryTyped,
           memory, NotifierTyped, notifier
  <2>2. IngressTyped'
    BY <1>4, LedgerStays DEF CompleteInbound, IngressTyped, ingress
  <2> QED BY <2>1, <2>2 DEF TypeOK
<1>5. CASE DrainReply
  <2>1. JobTyped' /\ pc' \in Places /\ MemoryTyped' /\ NotifierTyped' /\
         faults' \in 0 .. MaxFaults
    BY <1>5 DEF DrainReply, JobTyped, jobRow, MemoryTyped, memory,
           NotifierTyped, notifier
  <2>2. RowsTyped'
    <3>1. CASE UNCHANGED rows
      BY <3>1 DEF rows, RowsTyped
    <3>2. CASE ~UNCHANGED rows
      <4>1. line' \in Seq(Replies) /\ kind' = kind /\ pausedAt' = pausedAt
        BY <1>5, <3>2, SMTT(30) DEF DrainReply, RowsTyped
      <4>2. ij' \in [Replies -> Interjection] /\ bindRev' \in [Replies -> Revisions]
        BY <1>5, <3>2 DEF DrainReply, RowsTyped, Interjection, JobTyped
      <4> QED BY <4>1, <4>2 DEF RowsTyped
    <3> QED BY <3>1, <3>2
  <2>3. IngressTyped'
    <3>1. inbound' \subseteq Messages /\ older' \subseteq inbound' \X inbound'
      BY <1>5, LedgerStays DEF DrainReply, Tombstone, Messages
    <3> QED BY <1>5, <3>1 DEF DrainReply, Tombstone, IngressTyped, Messages
  <2> QED BY <2>1, <2>2, <2>3 DEF TypeOK
<1>6. CASE DrainStop
  <2>1. pc' \in Places /\ MemoryTyped' /\ NotifierTyped' /\
         faults' \in 0 .. MaxFaults
    BY <1>6 DEF DrainStop, MemoryTyped, memory, NotifierTyped, notifier
  <2>2. JobTyped'
    BY <1>6 DEF DrainStop, jobRow, JobTyped, jobRow
  <2>3. RowsTyped'
    BY <1>6, SweepTyped DEF DrainStop, RowsTyped, rows
  <2>4. IngressTyped'
    <3>1. inbound' \subseteq Messages /\ older' \subseteq inbound' \X inbound'
      BY <1>6, LedgerStays DEF DrainStop, Tombstone, Overtaken, Messages
    <3>2. fate' \in [Messages -> {"unsent", "pending", "live", "job", "notice", "retired"}]
      BY <1>6 DEF DrainStop, Tombstone, IngressTyped
    <3> QED BY <1>6, <3>1, <3>2 DEF DrainStop, Tombstone, IngressTyped
  <2> QED BY <2>1, <2>2, <2>3, <2>4 DEF TypeOK
<1>7. CASE Preempt
  <2>1. JobTyped' /\ RowsTyped' /\ pc' \in Places /\ MemoryTyped' /\
         NotifierTyped' /\ faults' \in 0 .. MaxFaults
    BY <1>7 DEF Preempt, JobTyped, jobRow, RowsTyped, rows, MemoryTyped, memory,
           NotifierTyped, notifier
  <2>2. IngressTyped'
    BY <1>7 DEF Preempt, IngressTyped, ingress
  <2> QED BY <2>1, <2>2 DEF TypeOK
<1>8. CASE DrainFails
  <2>1. JobTyped' /\ RowsTyped' /\ pc' \in Places /\ MemoryTyped' /\
         NotifierTyped'
    BY <1>8 DEF DrainFails, JobTyped, jobRow, RowsTyped, rows, MemoryTyped,
           memory, NotifierTyped, notifier
  <2>2. IngressTyped'
    <3>1. inbound' \subseteq Messages /\ older' \subseteq inbound' \X inbound'
      BY <1>8, LedgerStays DEF DrainFails, Tombstone, Messages
    <3> QED BY <1>8, <3>1 DEF DrainFails, Tombstone, IngressTyped, Messages
  <2>3. faults' \in 0 .. MaxFaults
    BY <1>8 DEF DrainFails, Fault
  <2> QED BY <2>1, <2>2, <2>3 DEF TypeOK
<1>9. CASE GatewayRestarts
  <2>1. JobTyped' /\ RowsTyped' /\ pc' \in Places /\ MemoryTyped' /\
         NotifierTyped'
    BY <1>9 DEF GatewayRestarts, JobTyped, jobRow, RowsTyped, rows, MemoryTyped,
           memory, NotifierTyped, notifier
  <2>2. IngressTyped'
    BY <1>9 DEF GatewayRestarts, IngressTyped, ingress
  <2>3. faults' \in 0 .. MaxFaults
    BY <1>9 DEF GatewayRestarts, Fault
  <2> QED BY <2>1, <2>2, <2>3 DEF TypeOK
<1>10. CASE ChooseWork
  <2>1. JobTyped' /\ RowsTyped' /\ IngressTyped' /\ NotifierTyped' /\
         faults' \in 0 .. MaxFaults
    BY <1>10 DEF ChooseWork, JobTyped, jobRow, RowsTyped, rows, IngressTyped,
           ingress, NotifierTyped, notifier
  <2>2. pc' \in Places
    BY <1>10 DEF ChooseWork, Places, Goto, Throw
  <2>3. MemoryTyped'
    BY <1>10 DEF ChooseWork, NextPending, MemoryTyped, memory
  <2> QED BY <2>1, <2>2, <2>3 DEF TypeOK
<1>11. CASE StartTask
  <2>1. RowsTyped' /\ IngressTyped' /\ NotifierTyped' /\
         faults' \in 0 .. MaxFaults
    BY <1>11 DEF StartTask, RowsTyped, rows, IngressTyped, ingress,
           NotifierTyped, notifier
  <2>2. JobTyped'
    BY <1>11 DEF StartTask, JobTyped, jobRow
  <2>3. pc' \in Places
    BY <1>11 DEF StartTask, Places, Goto, Throw
  <2>4. MemoryTyped'
    BY <1>11 DEF StartTask, JobTyped, MemoryTyped, memory
  <2> QED BY <2>1, <2>2, <2>3, <2>4 DEF TypeOK
<1>12. CASE DispatchStop
  <2>1. RowsTyped' /\ IngressTyped' /\ MemoryTyped' /\ NotifierTyped' /\
         faults' \in 0 .. MaxFaults
    BY <1>12 DEF DispatchStop, RowsTyped, rows, IngressTyped, ingress,
           MemoryTyped, memory, NotifierTyped, notifier
  <2>2. JobTyped'
    BY <1>12 DEF DispatchStop, JobTyped, jobRow
  <2>3. pc' \in Places
    BY <1>12 DEF DispatchStop, Places, Goto, Throw
  <2> QED BY <2>1, <2>2, <2>3 DEF TypeOK
<1>13. CASE StopAnswered
  <2>1. RowsTyped' /\ IngressTyped' /\ MemoryTyped' /\ NotifierTyped'
    BY <1>13 DEF StopAnswered, RowsTyped, rows, IngressTyped, ingress,
           MemoryTyped, memory, NotifierTyped, notifier
  <2>2. JobTyped'
    BY <1>13 DEF StopAnswered, JobTyped, jobRow
  <2>3. pc' \in Places
    BY <1>13 DEF StopAnswered, Places, Goto, Throw
  <2>4. faults' \in 0 .. MaxFaults
    BY <1>13 DEF StopAnswered, Fault
  <2> QED BY <2>1, <2>2, <2>3, <2>4 DEF TypeOK
<1>14. CASE BeginPause
  <2>1. JobTyped' /\ IngressTyped' /\ MemoryTyped' /\ NotifierTyped'
    BY <1>14 DEF BeginPause, JobTyped, jobRow, IngressTyped, ingress,
           MemoryTyped, memory, NotifierTyped, notifier
  <2>2. RowsTyped'
    BY <1>14 DEF BeginPause, Interjection, RowsTyped, rows
  <2>3. pc' \in Places
    BY <1>14 DEF BeginPause, Places, Goto, Throw
  <2>4. faults' \in 0 .. MaxFaults
    BY <1>14 DEF BeginPause, Fault
  <2> QED BY <2>1, <2>2, <2>3, <2>4 DEF TypeOK
<1>15. CASE PauseAnswered
  <2>1. JobTyped' /\ IngressTyped' /\ NotifierTyped'
    BY <1>15 DEF PauseAnswered, JobTyped, jobRow, IngressTyped, ingress,
           NotifierTyped, notifier
  <2>2. RowsTyped'
    BY <1>15 DEF PauseAnswered, Interjection, RowsTyped, rows
  <2>3. pc' \in Places
    BY <1>15 DEF PauseAnswered, Places, Goto, Throw
  <2>4. MemoryTyped'
    BY <1>15 DEF PauseAnswered, MemoryTyped, memory
  <2>5. faults' \in 0 .. MaxFaults
    BY <1>15 DEF PauseAnswered, Fault
  <2> QED BY <2>1, <2>2, <2>3, <2>4, <2>5 DEF TypeOK
<1>16. ASSUME NEW r \in Replies, PickPause(r) PROVE TypeOK'
  <2>1. JobTyped' /\ RowsTyped' /\ IngressTyped' /\ NotifierTyped' /\
         faults' \in 0 .. MaxFaults
    BY <1>16 DEF PickPause, JobTyped, jobRow, RowsTyped, rows, IngressTyped,
           ingress, NotifierTyped, notifier
  <2>2. pc' \in Places
    BY <1>16 DEF PickPause, Places, Goto, Throw
  <2>3. MemoryTyped'
    BY <1>16 DEF PickPause, NextReady, MemoryTyped, memory
  <2> QED BY <2>1, <2>2, <2>3 DEF TypeOK
<1>17. CASE ReconcileRejected
  <2>1. JobTyped' /\ IngressTyped' /\ NotifierTyped'
    BY <1>17 DEF ReconcileRejected, JobTyped, jobRow, IngressTyped, ingress,
           NotifierTyped, notifier
  <2>2. RowsTyped'
    BY <1>17 DEF ReconcileRejected, Interjection, RowsTyped, rows
  <2>3. pc' \in Places
    BY <1>17 DEF ReconcileRejected, Places, Goto, Throw
  <2>4. MemoryTyped'
    BY <1>17 DEF ReconcileRejected, MemoryTyped, memory
  <2>5. faults' \in 0 .. MaxFaults
    BY <1>17 DEF ReconcileRejected, Fault
  <2> QED BY <2>1, <2>2, <2>3, <2>4, <2>5 DEF TypeOK
<1>18. CASE NativeTurn
  <2>1. RowsTyped' /\ IngressTyped' /\ MemoryTyped' /\ NotifierTyped' /\
         faults' \in 0 .. MaxFaults
    BY <1>18 DEF NativeTurn, RowsTyped, rows, IngressTyped, ingress,
           MemoryTyped, memory, NotifierTyped, notifier
  <2>2. JobTyped'
    BY <1>18 DEF NativeTurn, JobTyped, jobRow
  <2>3. pc' \in Places
    BY <1>18 DEF NativeTurn, Places, Goto, Throw
  <2> QED BY <2>1, <2>2, <2>3 DEF TypeOK
<1>19. CASE GoalEnds
  <2>1. RowsTyped' /\ IngressTyped' /\ MemoryTyped' /\ NotifierTyped' /\
         faults' \in 0 .. MaxFaults
    BY <1>19 DEF GoalEnds, RowsTyped, rows, IngressTyped, ingress, MemoryTyped,
           memory, NotifierTyped, notifier
  <2>2. JobTyped'
    BY <1>19 DEF GoalEnds, JobTyped, jobRow
  <2>3. pc' \in Places
    BY <1>19 DEF GoalEnds, Places, Goto, Throw
  <2> QED BY <2>1, <2>2, <2>3 DEF TypeOK
<1>20. CASE Barrier
  <2>1. IngressTyped' /\ NotifierTyped' /\ faults' \in 0 .. MaxFaults
    BY <1>20 DEF Barrier, IngressTyped, ingress, NotifierTyped, notifier
  <2>2. JobTyped'
    BY <1>20, FinishTyped DEF Barrier, JobTyped
  <2>3. RowsTyped'
    BY <1>20, FinishTyped DEF Barrier, RowsTyped
  <2>4. pc' \in Places
    BY <1>20, AfterBarrierTyped DEF Barrier, Places, Goto
  <2>5. MemoryTyped'
    BY <1>20 DEF Barrier, MemoryTyped, memory
  <2> QED BY <2>1, <2>2, <2>3, <2>4, <2>5 DEF TypeOK
<1>21. CASE Decide
  <2>1. JobTyped' /\ RowsTyped' /\ IngressTyped' /\ MemoryTyped' /\
         NotifierTyped' /\ faults' \in 0 .. MaxFaults
    BY <1>21 DEF Decide, JobTyped, jobRow, RowsTyped, rows, IngressTyped,
           ingress, MemoryTyped, memory, NotifierTyped, notifier
  <2>2. pc' \in Places
    BY <1>21 DEF Decide, Places, Goto, Throw
  <2> QED BY <2>1, <2>2 DEF TypeOK
<1>22. CASE Stranded
  <2>1. JobTyped' /\ RowsTyped' /\ IngressTyped' /\ MemoryTyped' /\
         NotifierTyped' /\ faults' \in 0 .. MaxFaults
    BY <1>22 DEF Stranded, JobTyped, jobRow, RowsTyped, rows, IngressTyped,
           ingress, MemoryTyped, memory, NotifierTyped, notifier
  <2>2. pc' \in Places
    BY <1>22 DEF Stranded, Places, Goto, Throw
  <2> QED BY <2>1, <2>2 DEF TypeOK
<1>23. CASE Accept
  <2>1. JobTyped' /\ RowsTyped' /\ IngressTyped' /\ NotifierTyped' /\
         faults' \in 0 .. MaxFaults
    BY <1>23 DEF Accept, JobTyped, jobRow, RowsTyped, rows, IngressTyped,
           ingress, NotifierTyped, notifier
  <2>2. pc' \in Places
    BY <1>23 DEF Accept, Places, Goto, Throw
  <2>3. MemoryTyped'
    BY <1>23 DEF Accept, NextPending, MemoryTyped, memory
  <2> QED BY <2>1, <2>2, <2>3 DEF TypeOK
<1>24. CASE PrepareAnswer
  <2>1. JobTyped' /\ IngressTyped' /\ NotifierTyped' /\
         faults' \in 0 .. MaxFaults
    BY <1>24 DEF PrepareAnswer, JobTyped, jobRow, IngressTyped, ingress,
           NotifierTyped, notifier
  <2>2. RowsTyped'
    BY <1>24 DEF PrepareAnswer, Interjection, RowsTyped, rows
  <2>3. pc' \in Places
    BY <1>24 DEF PrepareAnswer, Places, Goto, Throw
  <2>4. MemoryTyped'
    BY <1>24 DEF PrepareAnswer, MemoryTyped, memory
  <2> QED BY <2>1, <2>2, <2>3, <2>4 DEF TypeOK
<1>25. CASE BeginAnswer
  <2>1. JobTyped' /\ IngressTyped' /\ MemoryTyped' /\ NotifierTyped'
    BY <1>25 DEF BeginAnswer, JobTyped, jobRow, IngressTyped, ingress,
           MemoryTyped, memory, NotifierTyped, notifier
  <2>2. RowsTyped'
    BY <1>25 DEF BeginAnswer, Interjection, RowsTyped, rows
  <2>3. pc' \in Places
    BY <1>25 DEF BeginAnswer, Places, Goto, Throw
  <2>4. faults' \in 0 .. MaxFaults
    BY <1>25 DEF BeginAnswer, Fault
  <2> QED BY <2>1, <2>2, <2>3, <2>4 DEF TypeOK
<1>26. CASE AnswerStarted
  <2>1. IngressTyped' /\ NotifierTyped'
    BY <1>26 DEF AnswerStarted, IngressTyped, ingress, NotifierTyped, notifier
  <2>2. JobTyped'
    BY <1>26 DEF AnswerStarted, JobTyped, jobRow
  <2>3. RowsTyped'
    BY <1>26 DEF AnswerStarted, Retryable, Interjection, RowsTyped, rows
  <2>4. pc' \in Places
    BY <1>26 DEF AnswerStarted, Places, Goto, Throw
  <2>5. MemoryTyped'
    BY <1>26 DEF AnswerStarted, MemoryTyped, memory
  <2>6. faults' \in 0 .. MaxFaults
    BY <1>26 DEF AnswerStarted, Fault
  <2> QED BY <2>1, <2>2, <2>3, <2>4, <2>5, <2>6 DEF TypeOK
<1>27. CASE AwaitDelivery
  <2>1. JobTyped' /\ RowsTyped' /\ IngressTyped' /\ MemoryTyped' /\
         NotifierTyped' /\ faults' \in 0 .. MaxFaults
    BY <1>27 DEF AwaitDelivery, JobTyped, jobRow, RowsTyped, rows, IngressTyped,
           ingress, MemoryTyped, memory, NotifierTyped, notifier
  <2>2. pc' \in Places
    BY <1>27 DEF AwaitDelivery, Places, Goto, Throw
  <2> QED BY <2>1, <2>2 DEF TypeOK
<1>28. CASE Promote
  <2>1. IngressTyped' /\ NotifierTyped' /\ faults' \in 0 .. MaxFaults
    BY <1>28 DEF Promote, IngressTyped, ingress, NotifierTyped, notifier
  <2>2. JobTyped'
    <3>1. CASE UNCHANGED revision
      BY <1>28, <3>1 DEF Promote, JobTyped
    <3>2. CASE ~UNCHANGED revision
      <4>1. current \in Replies /\ ij[current] # "promoted" /\ revision' = revision + 1
        BY <1>28, <3>2 DEF Promote, PromoteRow, Inv, InHand, ReplyInHand
      <4>2. revision' \in Revisions
        BY <4>1, RevisionRoom
      <4> QED BY <1>28, <4>2 DEF Promote, JobTyped
    <3> QED BY <3>1, <3>2
  <2>3. RowsTyped'
    BY <1>28, <2>2 DEF Promote, PromoteRow, RowsTyped, JobTyped, Interjection
  <2>4. pc' \in Places
    BY <1>28 DEF Promote, Places, Goto, Throw
  <2>5. MemoryTyped'
    BY <1>28 DEF Promote, MemoryTyped, memory
  <2> QED BY <2>1, <2>2, <2>3, <2>4, <2>5 DEF TypeOK
<1>29. CASE Publish
  <2>1. RowsTyped' /\ IngressTyped' /\ NotifierTyped' /\
         faults' \in 0 .. MaxFaults
    BY <1>29 DEF Publish, RowsTyped, rows, IngressTyped, ingress, NotifierTyped,
           notifier
  <2>2. JobTyped'
    BY <1>29 DEF Publish, MemoryTyped, JobTyped, jobRow
  <2>3. pc' \in Places
    BY <1>29 DEF Publish, Places, Goto, Throw
  <2>4. MemoryTyped'
    BY <1>29 DEF Publish, MemoryTyped, memory
  <2> QED BY <2>1, <2>2, <2>3, <2>4 DEF TypeOK
<1>30. CASE Commit
  <2>1. IngressTyped' /\ MemoryTyped' /\ NotifierTyped' /\
         faults' \in 0 .. MaxFaults
    BY <1>30 DEF Commit, IngressTyped, ingress, MemoryTyped, memory,
           NotifierTyped, notifier
  <2>2. JobTyped'
    BY <1>30 DEF Commit, CompleteRow, jobRow, JobTyped, jobRow
  <2>3. RowsTyped'
    BY <1>30 DEF Commit, CompleteRow, rows, RowsTyped, rows
  <2>4. pc' \in Places
    BY <1>30 DEF Commit, Places, Goto, Throw
  <2> QED BY <2>1, <2>2, <2>3, <2>4 DEF TypeOK
<1>31. CASE Cancel
  <2>1. IngressTyped' /\ MemoryTyped' /\ NotifierTyped' /\
         faults' \in 0 .. MaxFaults
    BY <1>31 DEF Cancel, IngressTyped, ingress, MemoryTyped, memory,
           NotifierTyped, notifier
  <2>2. JobTyped'
    BY <1>31, SettleTyped DEF Cancel
  <2>3. RowsTyped'
    BY <1>31, SettleTyped DEF Cancel
  <2>4. pc' \in Places
    BY <1>31 DEF Cancel, Places, Goto, Throw
  <2> QED BY <2>1, <2>2, <2>3, <2>4 DEF TypeOK
<1>32. CASE Fail
  <2>1. IngressTyped' /\ MemoryTyped' /\ NotifierTyped' /\
         faults' \in 0 .. MaxFaults
    BY <1>32 DEF Fail, IngressTyped, ingress, MemoryTyped, memory,
           NotifierTyped, notifier
  <2>2. JobTyped'
    BY <1>32, SettleTyped DEF Fail
  <2>3. RowsTyped'
    BY <1>32, SettleTyped DEF Fail
  <2>4. pc' \in Places
    BY <1>32 DEF Fail, Places, Goto, Throw
  <2> QED BY <2>1, <2>2, <2>3, <2>4 DEF TypeOK
<1>33. CASE Limited
  <2>1. IngressTyped' /\ MemoryTyped' /\ NotifierTyped' /\
         faults' \in 0 .. MaxFaults
    BY <1>33 DEF Limited, IngressTyped, ingress, MemoryTyped, memory,
           NotifierTyped, notifier
  <2>2. JobTyped'
    BY <1>33 DEF Limited, QueueAgain, JobTyped, jobRow
  <2>3. RowsTyped'
    BY <1>33 DEF Limited, QueueAgain, rows, RowsTyped, rows
  <2>4. pc' \in Places
    BY <1>33 DEF Limited, Places, Goto, Throw
  <2> QED BY <2>1, <2>2, <2>3, <2>4 DEF TypeOK
<1>34. CASE Claim
  <2>1. RowsTyped' /\ IngressTyped' /\ NotifierTyped' /\
         faults' \in 0 .. MaxFaults
    BY <1>34 DEF Claim, RowsTyped, rows, IngressTyped, ingress, NotifierTyped,
           notifier
  <2>2. JobTyped'
    <3>1. accepts' \in BOOLEAN
      BY <1>34 DEF Claim
    <3>2. attempts' \in 1 .. MaxAttempts
      BY <1>34 DEF Claim, JobTyped
    <3>3. /\ status' = "running" /\ sent' = FALSE
          /\ UNCHANGED <<cancel, revision, staged, limit, turn, stop>>
      BY <1>34 DEF Claim
    <3> QED BY <3>1, <3>2, <3>3 DEF JobTyped
  <2>3. pc' \in Places
    BY <1>34 DEF Claim, Places, Goto, Throw
  <2>4. MemoryTyped'
    BY <1>34 DEF Claim, Endings, MemoryTyped, memory
  <2> QED BY <2>1, <2>2, <2>3, <2>4 DEF TypeOK
<1>35. CASE StartFails
  <2>1. RowsTyped' /\ IngressTyped' /\ MemoryTyped' /\ NotifierTyped'
    BY <1>35 DEF StartFails, RowsTyped, rows, IngressTyped, ingress,
           MemoryTyped, memory, NotifierTyped, notifier
  <2>2. JobTyped'
    BY <1>35 DEF StartFails, JobTyped, jobRow
  <2>3. pc' \in Places
    BY <1>35 DEF StartFails, Places, Goto, Throw
  <2>4. faults' \in 0 .. MaxFaults
    BY <1>35 DEF StartFails, Fault
  <2> QED BY <2>1, <2>2, <2>3, <2>4 DEF TypeOK
<1>36. CASE StopUnconfirmed
  <2>1. JobTyped' /\ RowsTyped' /\ IngressTyped' /\ MemoryTyped' /\
         NotifierTyped'
    BY <1>36 DEF StopUnconfirmed, JobTyped, jobRow, RowsTyped, rows,
           IngressTyped, ingress, MemoryTyped, memory, NotifierTyped, notifier
  <2>2. pc' \in Places
    BY <1>36 DEF StopUnconfirmed, Places, Goto, Throw
  <2>3. faults' \in 0 .. MaxFaults
    BY <1>36 DEF StopUnconfirmed, Fault
  <2> QED BY <2>1, <2>2, <2>3 DEF TypeOK
<1>37. ASSUME NEW e \in Endings \ {"none"}, TurnEnds(e) PROVE TypeOK'
  <2>1. JobTyped' /\ RowsTyped' /\ IngressTyped' /\ NotifierTyped'
    BY <1>37 DEF TurnEnds, JobTyped, jobRow, RowsTyped, rows, IngressTyped,
           ingress, NotifierTyped, notifier
  <2>2. pc' \in Places
    BY <1>37 DEF TurnEnds, Places, Goto, Throw
  <2>3. MemoryTyped'
    BY <1>37 DEF TurnEnds, MemoryTyped, memory
  <2>4. faults' \in 0 .. MaxFaults
    BY <1>37 DEF TurnEnds, Fault
  <2> QED BY <2>1, <2>2, <2>3, <2>4 DEF TypeOK
<1>38. CASE AgentContinues
  <2>1. IngressTyped' /\ MemoryTyped' /\ NotifierTyped' /\
         faults' \in 0 .. MaxFaults
    BY <1>38 DEF AgentContinues, IngressTyped, ingress, MemoryTyped, memory,
           NotifierTyped, notifier
  <2>2. JobTyped'
    BY <1>38, FinishTyped DEF AgentContinues, JobTyped
  <2>3. RowsTyped'
    BY <1>38, FinishTyped DEF AgentContinues, RowsTyped
  <2>4. pc' \in Places
    BY <1>38 DEF AgentContinues, Places, Goto, Throw
  <2> QED BY <2>1, <2>2, <2>3, <2>4 DEF TypeOK
<1>39. CASE AgentFinishes
  <2>1. JobTyped' /\ RowsTyped' /\ IngressTyped' /\ MemoryTyped' /\
         NotifierTyped' /\ faults' \in 0 .. MaxFaults
    BY <1>39 DEF AgentFinishes, JobTyped, jobRow, RowsTyped, rows, IngressTyped,
           ingress, MemoryTyped, memory, NotifierTyped, notifier
  <2>2. pc' \in Places
    BY <1>39 DEF AgentFinishes, Places, Goto, Throw
  <2> QED BY <2>1, <2>2 DEF TypeOK
<1>40. CASE AcceptFails
  <2>1. JobTyped' /\ RowsTyped' /\ IngressTyped' /\ MemoryTyped' /\
         NotifierTyped'
    BY <1>40 DEF AcceptFails, JobTyped, jobRow, RowsTyped, rows, IngressTyped,
           ingress, MemoryTyped, memory, NotifierTyped, notifier
  <2>2. pc' \in Places
    BY <1>40 DEF AcceptFails, Places, Goto, Throw
  <2>3. faults' \in 0 .. MaxFaults
    BY <1>40 DEF AcceptFails, Fault
  <2> QED BY <2>1, <2>2, <2>3 DEF TypeOK
<1>41. ASSUME NEW d \in {"answer-only", "task-update"}, StageAnswer(d) PROVE TypeOK'
  <2>1. IngressTyped' /\ MemoryTyped' /\ NotifierTyped' /\
         faults' \in 0 .. MaxFaults
    BY <1>41 DEF StageAnswer, IngressTyped, ingress, MemoryTyped, memory,
           NotifierTyped, notifier
  <2>2. JobTyped'
    BY <1>41 DEF StageAnswer, JobTyped, jobRow
  <2>3. RowsTyped'
    BY <1>41 DEF StageAnswer, Interjection, RowsTyped, rows
  <2>4. pc' \in Places
    BY <1>41 DEF StageAnswer, Places, Goto, Throw
  <2> QED BY <2>1, <2>2, <2>3, <2>4 DEF TypeOK
<1>42. CASE RetryAnswer
  <2>1. IngressTyped' /\ MemoryTyped' /\ NotifierTyped' /\
         faults' \in 0 .. MaxFaults
    BY <1>42 DEF RetryAnswer, IngressTyped, ingress, MemoryTyped, memory,
           NotifierTyped, notifier
  <2>2. JobTyped'
    BY <1>42 DEF RetryAnswer, JobTyped, jobRow
  <2>3. RowsTyped'
    BY <1>42 DEF RetryAnswer, Retryable, Interjection, RowsTyped, rows
  <2>4. pc' \in Places
    BY <1>42 DEF RetryAnswer, Places, Goto, Throw
  <2> QED BY <2>1, <2>2, <2>3, <2>4 DEF TypeOK
<1>43. CASE Crash
  <2>1. JobTyped' /\ RowsTyped' /\ IngressTyped' /\ MemoryTyped'
    BY <1>43 DEF Crash, JobTyped, jobRow, RowsTyped, rows, IngressTyped,
           ingress, MemoryTyped, memory
  <2>2. pc' \in Places
    BY <1>43 DEF Crash, Places, Goto, Throw
  <2>3. NotifierTyped'
    BY <1>43 DEF Crash, NotifierTyped, notifier
  <2>4. faults' \in 0 .. MaxFaults
    BY <1>43 DEF Crash, Fault
  <2> QED BY <2>1, <2>2, <2>3, <2>4 DEF TypeOK
<1>44. CASE ResetPrepared
  <2>1. JobTyped' /\ IngressTyped' /\ MemoryTyped' /\ faults' \in 0 .. MaxFaults
    BY <1>44 DEF ResetPrepared, JobTyped, jobRow, IngressTyped, ingress,
           MemoryTyped, memory
  <2>2. RowsTyped'
    BY <1>44 DEF ResetPrepared, Retryable, Interjection, RowsTyped, rows
  <2>3. pc' \in Places
    BY <1>44 DEF ResetPrepared, Places, Goto, Throw
  <2>4. NotifierTyped'
    BY <1>44 DEF ResetPrepared, NotifierTyped, notifier
  <2> QED BY <2>1, <2>2, <2>3, <2>4 DEF TypeOK
<1>45. CASE RecoverStaged
  <2>1. IngressTyped' /\ MemoryTyped' /\ NotifierTyped' /\
         faults' \in 0 .. MaxFaults
    BY <1>45 DEF RecoverStaged, IngressTyped, ingress, MemoryTyped, memory,
           NotifierTyped, notifier
  <2>2. JobTyped'
    BY <1>45 DEF RecoverStaged, CompleteRow, jobRow, JobTyped, jobRow
  <2>3. RowsTyped'
    BY <1>45 DEF RecoverStaged, CompleteRow, rows, RowsTyped, rows
  <2>4. pc' \in Places
    BY <1>45 DEF RecoverStaged, Places, Goto, Throw
  <2> QED BY <2>1, <2>2, <2>3, <2>4 DEF TypeOK
<1>46. CASE RecoverInterrupted
  <2>1. IngressTyped' /\ MemoryTyped' /\ NotifierTyped' /\
         faults' \in 0 .. MaxFaults
    BY <1>46 DEF RecoverInterrupted, IngressTyped, ingress, MemoryTyped, memory,
           NotifierTyped, notifier
  <2>2. JobTyped'
    <3>1. CASE CancelRow \/ FailRow
      BY <3>1, SettleTyped
    <3>2. CASE QueueAgain \/ UNCHANGED <<jobRow, stop, rows>>
      BY <3>2 DEF QueueAgain, JobTyped, jobRow
    <3> QED BY <1>46, <3>1, <3>2 DEF RecoverInterrupted, RecoverRow
  <2>3. RowsTyped'
    <3>1. CASE CancelRow \/ FailRow
      BY <3>1, SettleTyped
    <3>2. CASE QueueAgain \/ UNCHANGED <<jobRow, stop, rows>>
      BY <3>2 DEF QueueAgain, RowsTyped, rows
    <3> QED BY <1>46, <3>1, <3>2 DEF RecoverInterrupted, RecoverRow
  <2>4. pc' \in Places
    BY <1>46 DEF RecoverInterrupted, Places, Goto, Throw
  <2> QED BY <2>1, <2>2, <2>3, <2>4 DEF TypeOK
<1>47. ASSUME NEW r \in Replies, PromoteAtStart(r) PROVE TypeOK'
  <2>1. IngressTyped' /\ pc' \in Places /\ MemoryTyped' /\ NotifierTyped' /\
         faults' \in 0 .. MaxFaults
    BY <1>47 DEF PromoteAtStart, IngressTyped, ingress, MemoryTyped, memory,
           NotifierTyped, notifier
  <2>2. JobTyped'
    <3>1. CASE UNCHANGED revision
      BY <1>47, <3>1 DEF PromoteAtStart, JobTyped
    <3>2. CASE ~UNCHANGED revision
      <4>1. ij[r] # "promoted" /\ revision' = revision + 1
        BY <1>47, <3>2 DEF PromoteAtStart, PromoteRow, Recoverable
      <4>2. revision' \in Revisions
        BY <4>1, RevisionRoom
      <4> QED BY <1>47, <4>2 DEF PromoteAtStart, JobTyped
    <3> QED BY <3>1, <3>2
  <2>3. RowsTyped'
    BY <1>47, <2>2 DEF PromoteAtStart, PromoteRow, RowsTyped, JobTyped, Interjection
  <2> QED BY <2>1, <2>2, <2>3 DEF TypeOK
<1>48. CASE MarkDelivered
  <2>1. JobTyped' /\ IngressTyped' /\ pc' \in Places /\ MemoryTyped' /\
         faults' \in 0 .. MaxFaults
    BY <1>48 DEF MarkDelivered, JobTyped, jobRow, IngressTyped, ingress,
           MemoryTyped, memory
  <2>2. RowsTyped'
    BY <1>48 DEF MarkDelivered, Interjection, RowsTyped, rows
  <2>3. NotifierTyped'
    BY <1>48 DEF MarkDelivered, NotifierTyped, notifier
  <2> QED BY <2>1, <2>2, <2>3 DEF TypeOK
<1>49. ASSUME NEW r \in Replies, Post(r) PROVE TypeOK'
  <2>1. JobTyped' /\ RowsTyped' /\ IngressTyped' /\ pc' \in Places /\
         MemoryTyped' /\ faults' \in 0 .. MaxFaults
    BY <1>49 DEF Post, JobTyped, jobRow, RowsTyped, rows, IngressTyped, ingress,
           MemoryTyped, memory
  <2>2. NotifierTyped'
    BY <1>49 DEF Post, NotifierTyped, notifier
  <2> QED BY <2>1, <2>2 DEF TypeOK
<1>50. CASE UNCHANGED vars
  BY <1>50 DEF vars, jobRow, rows, ingress, memory, notifier, TypeOK, JobTyped,
         RowsTyped, IngressTyped, MemoryTyped, NotifierTyped
<1> QED BY <1>1, <1>2, <1>3, <1>4, <1>5, <1>6, <1>7, <1>8, <1>9, <1>10, <1>11,
       <1>12, <1>13, <1>14, <1>15, <1>16, <1>17, <1>18, <1>19, <1>20, <1>21,
       <1>22, <1>23, <1>24, <1>25, <1>26, <1>27, <1>28, <1>29, <1>30, <1>31,
       <1>32, <1>33, <1>34, <1>35, <1>36, <1>37, <1>38, <1>39, <1>40, <1>41,
       <1>42, <1>43, <1>44, <1>45, <1>46, <1>47, <1>48, <1>49, <1>50 DEF Next,
       Admission, Drain, Executor, Control, Finish, Answering, Closing,
       StageAny, Recovery, Notify

-----------------------------------------------------------------------------
(* The line of rows, and what a step may do to a row.                      *)

\* The foremost unfinished row is the only one that has been taken up.
LEMMA Alone ==
  ASSUME TypeOK, Lined, NEW p \in Replies, NEW r \in Replies,
         ij[p] \notin {"none", "ready", "superseded", "promoted"},
         ij[r] \notin {"none", "ready", "superseded", "promoted"}
  PROVE  p = r
<1> SUFFICES ASSUME p # r PROVE FALSE
    OBVIOUS
<1>1. PICK i \in 1 .. Len(line) : line[i] = p
  BY DEF Lined, InLine
<1>2. PICK k \in 1 .. Len(line) : line[k] = r
  BY DEF Lined, InLine
<1>3. Foremost(p) /\ Foremost(r) /\ ~Closed(p) /\ ~Closed(r)
  BY DEF Lined, Closed
<1>4. i \in Nat /\ k \in Nat /\ i # k
  BY <1>1, <1>2
<1>5. CASE i < k
  BY <1>1, <1>2, <1>3, <1>5 DEF Foremost, Earlier
<1>6. CASE k < i
  BY <1>1, <1>2, <1>3, <1>6 DEF Foremost, Earlier
<1> QED BY <1>4, <1>5, <1>6

\* Behind a row appended to the line stands nothing, before it everything.
LEMMA AppendEarlier ==
  ASSUME line \in Seq(Replies), NEW x, NEW a, NEW b, b # x,
         Earlier(Append(line, x), a, b)
  PROVE  Earlier(line, a, b)
<1> DEFINE l == Append(line, x)
<1>1. /\ Len(l) = Len(line) + 1 /\ Len(line) \in Nat
      /\ \A i \in 1 .. Len(line) : l[i] = line[i]
      /\ l[Len(line) + 1] = x
  OBVIOUS
<1>2. PICK i, k \in 1 .. Len(l) : i < k /\ l[i] = a /\ l[k] = b
  BY DEF Earlier
<1> HIDE DEF l
<1>3. k # Len(line) + 1
  BY <1>1, <1>2
<1>4. i \in 1 .. Len(line) /\ k \in 1 .. Len(line)
  BY <1>1, <1>2, <1>3
<1> QED BY <1>1, <1>2, <1>4 DEF Earlier

\* What one step may do to a row: admit it, take it up as the foremost, let it
\* fall back or become ambiguous, take its answer, post it, promote it, or
\* supersede it once the job is cancelled or has failed.
Admits(r) ==
  /\ ij[r] = "none" /\ ij' = [ij EXCEPT ![r] = "ready"] /\ line' = Append(line, r)
  /\ Active /\ accepts /\ ~cancel /\ ~cancel' /\ fate'[r] = "live" /\ status' = status
  /\ kind' = kind /\ bindRev' = [bindRev EXCEPT ![r] = revision]
TakesUp(r) ==
  ij[r] \in {"ready", "paused"} /\ ij'[r] \in {"pausing", "answer-prepared"} /\ Foremost(r)
Answers(r) ==
  ij[r] = "answering" /\ ij'[r] = "answered" /\ ~cancel /\ ~cancel' /\ kind'[r] # "none"
Shows(r) ==
  /\ ij[r] = "answered" /\ r \in told /\ r \in told'
  /\ ij'[r] \in {"delivered", "promoted"} /\ (ij'[r] = "promoted" => kind[r] = "answer-only")
Promotes(r) ==
  /\ ij[r] = "delivered" /\ ij'[r] = "promoted"
  /\ kind[r] = "task-update" => revision' = revision + 1
FallsBack(r) ==
  /\ ij[r] \in {"pausing", "answer-prepared", "answering"}
  /\ ij'[r] \in {"ready", "paused", "answering", "ambiguous"}
Supersedes(r) ==
  ~Closed(r) /\ ij'[r] = "superseded" /\ (cancel' \/ status' = "failed")

RowMoves(r) ==
  \/ ij'[r] = ij[r]
  \/ Admits(r) \/ TakesUp(r) \/ Answers(r) \/ Shows(r) \/ Promotes(r) \/ FallsBack(r)
  \/ Supersedes(r)

\* Which actions touch the rows at all.
OnRows ==
  \/ DrainReply \/ DrainStop \/ BeginPause \/ PauseAnswered \/ ReconcileRejected
  \/ AgentContinues \/ Barrier \/ PrepareAnswer \/ BeginAnswer \/ AnswerStarted
  \/ StageAny \/ RetryAnswer \/ Promote \/ Cancel \/ Fail \/ ResetPrepared
  \/ (\E r \in Replies : PromoteAtStart(r)) \/ RecoverInterrupted \/ MarkDelivered

\* Every other action leaves the rows and the input alone.
LEMMA Footprint ==
  ASSUME [Next]_vars
  PROVE  OnRows \/ UNCHANGED <<ij, bindRev, kind, line, revision>>
<1>1. ASSUME NEW m \in Messages, AdmitBound(m)
      PROVE  UNCHANGED <<ij, bindRev, kind, line, revision>>
  BY <1>1 DEF AdmitBound, jobRow, rows
<1>2. ASSUME NEW m \in Messages, AdmitUnbound(m)
      PROVE  UNCHANGED <<ij, bindRev, kind, line, revision>>
  BY <1>2 DEF AdmitUnbound, jobRow, rows
<1>3. CASE ClaimInbound
  BY <1>3 DEF ClaimInbound, jobRow, rows
<1>4. CASE CompleteInbound
  BY <1>4 DEF CompleteInbound, jobRow, rows
<1>5. CASE Preempt
  BY <1>5 DEF Preempt, jobRow, rows
<1>6. CASE DrainFails
  BY <1>6 DEF DrainFails, jobRow, rows
<1>7. CASE GatewayRestarts
  BY <1>7 DEF GatewayRestarts, jobRow, rows
<1>8. CASE ChooseWork
  BY <1>8 DEF ChooseWork, jobRow, rows
<1>9. CASE StartTask
  BY <1>9 DEF StartTask, jobRow, rows
<1>10. CASE DispatchStop
  BY <1>10 DEF DispatchStop, jobRow, rows
<1>11. CASE StopAnswered
  BY <1>11 DEF StopAnswered, jobRow, rows
<1>12. ASSUME NEW r \in Replies, PickPause(r)
      PROVE  UNCHANGED <<ij, bindRev, kind, line, revision>>
  BY <1>12 DEF PickPause, jobRow, rows
<1>13. CASE NativeTurn
  BY <1>13 DEF NativeTurn, jobRow, rows
<1>14. CASE GoalEnds
  BY <1>14 DEF GoalEnds, jobRow, rows
<1>15. CASE Decide
  BY <1>15 DEF Decide, jobRow, rows
<1>16. CASE Stranded
  BY <1>16 DEF Stranded, jobRow, rows
<1>17. CASE Accept
  BY <1>17 DEF Accept, jobRow, rows
<1>18. CASE AwaitDelivery
  BY <1>18 DEF AwaitDelivery, jobRow, rows
<1>19. CASE Publish
  BY <1>19 DEF Publish, jobRow, rows
<1>20. CASE Commit
  BY <1>20 DEF Commit, CompleteRow, jobRow, rows
<1>21. CASE Limited
  BY <1>21 DEF Limited, QueueAgain, jobRow, rows
<1>22. CASE Claim
  BY <1>22 DEF Claim, jobRow, rows
<1>23. CASE StartFails
  BY <1>23 DEF StartFails, jobRow, rows
<1>24. CASE StopUnconfirmed
  BY <1>24 DEF StopUnconfirmed, jobRow, rows
<1>25. ASSUME NEW e \in Endings \ {"none"}, TurnEnds(e)
      PROVE  UNCHANGED <<ij, bindRev, kind, line, revision>>
  BY <1>25 DEF TurnEnds, jobRow, rows
<1>26. CASE AgentFinishes
  BY <1>26 DEF AgentFinishes, jobRow, rows
<1>27. CASE AcceptFails
  BY <1>27 DEF AcceptFails, jobRow, rows
<1>28. CASE Crash
  BY <1>28 DEF Crash, jobRow, rows
<1>29. CASE RecoverStaged
  BY <1>29 DEF RecoverStaged, CompleteRow, jobRow, rows
<1>30. ASSUME NEW r \in Replies, Post(r)
      PROVE  UNCHANGED <<ij, bindRev, kind, line, revision>>
  BY <1>30 DEF Post, jobRow, rows
<1>31. CASE UNCHANGED vars
  BY <1>31 DEF vars, jobRow, rows
<1> QED BY <1>1, <1>2, <1>3, <1>4, <1>5, <1>6, <1>7, <1>8, <1>9, <1>10, <1>11,
       <1>12, <1>13, <1>14, <1>15, <1>16, <1>17, <1>18, <1>19, <1>20, <1>21,
       <1>22, <1>23, <1>24, <1>25, <1>26, <1>27, <1>28, <1>29, <1>30, <1>31
       DEF Next, Admission, Drain, Executor, Control, Finish, Answering,
       Closing, StageAny, Recovery, Notify, OnRows

\* The drain of a reply that the job takes admits it.
LEMMA AdmitsHeld ==
  ASSUME Inv, DrainReply, Active /\ accepts /\ ~cancel
  PROVE  held \in Replies /\ Admits(held)
<1>1. ij[held] = "none"
  BY DEF DrainReply, Inv, Accounted
<1>2. fate'[held] = "live"
  BY DEF DrainReply, Inv, TypeOK, IngressTyped, Messages
<1> QED BY <1>1, <1>2 DEF DrainReply, Admits, jobRow
\* The update of fail on the rows.
LEMMA FailMoves ==
  ASSUME RowsTyped, FailRow,
         \A i \in Replies : ij[i] \in {"delivered", "promoted"} => i \in told
  PROVE  \A i \in Replies : RowMoves(i)
<1> SUFFICES ASSUME NEW i \in Replies PROVE RowMoves(i)
    OBVIOUS
<1>0. ij[i] \in Interjection
  BY DEF RowsTyped
<1>1. CASE ij[i] \in {"ready", "paused", "answer-prepared"}
  BY <1>1 DEF FailRow, Close, RowMoves, Supersedes, Closed
<1>2. CASE ij[i] \in {"pausing", "answering"}
  BY <1>2 DEF FailRow, Close, RowMoves, FallsBack
<1>3. CASE ij[i] \in {"answered", "delivered"} /\ kind[i] = "task-update"
  BY <1>3 DEF FailRow, Close, RowMoves, Supersedes, Closed
<1>4. CASE ij[i] = "delivered" /\ kind[i] = "answer-only"
  BY <1>4 DEF FailRow, Close, RowMoves, Promotes
<1>5. CASE /\ ij[i] \notin {"ready", "paused", "answer-prepared", "pausing", "answering"}
           /\ ~(ij[i] \in {"answered", "delivered"} /\ kind[i] = "task-update")
           /\ ~(ij[i] = "delivered" /\ kind[i] = "answer-only")
  BY <1>5 DEF FailRow, RowMoves
<1> QED BY <1>1, <1>2, <1>3, <1>4, <1>5

\* A step moves every row in one of these ways.
LEMMA RowStep ==
  ASSUME Inv, [Next]_vars
  PROVE  \A i \in Replies : RowMoves(i)
<1>0. /\ JobTyped /\ RowsTyped /\ IngressTyped /\ NotifierTyped
      /\ \A i \in Replies : ij[i] \in {"delivered", "promoted"} => i \in told
  BY DEF Inv, TypeOK, Accounted
<1>1. CASE DrainReply
  <2>1. CASE Active /\ accepts /\ ~cancel
    <3>1. Admits(held)
      BY <1>1, <2>1, AdmitsHeld
    <3>2. \A i \in Replies : i # held => ij'[i] = ij[i]
      BY <1>0, <1>1, <2>1 DEF DrainReply, RowsTyped
    <3> QED BY <3>1, <3>2 DEF RowMoves
  <2>2. CASE ~(Active /\ accepts /\ ~cancel)
    BY <1>1, <2>2 DEF DrainReply, rows, RowMoves
  <2> QED BY <2>1, <2>2
<1>2. CASE DrainStop
  BY <1>0, <1>2 DEF DrainStop, SupersedeWaiting, Supersedes, Closed, rows,
         RowMoves
<1>3. CASE BeginPause
  <2>1. CASE ij' = ij
    BY <2>1 DEF RowMoves
  <2>2. CASE ij' # ij
    <3>1. /\ current \in Replies /\ Foremost(current) /\ ij[current] = "ready"
          /\ ij' = [ij EXCEPT ![current] = "pausing"]
      BY <1>3, <2>2 DEF BeginPause, Inv, InHand, PauseInHand
    <3> QED BY <1>0, <3>1 DEF RowMoves, TakesUp
  <2> QED BY <2>1, <2>2
<1>4. CASE PauseAnswered
  <2>1. current \in Replies /\ ij[current] = "pausing"
    BY <1>4 DEF PauseAnswered, Inv, InHand, PauseInHand
  <2>2. ij' = ij \/ ij' = [ij EXCEPT ![current] = "ambiguous"]
    BY <1>4 DEF PauseAnswered
  <2> QED BY <1>0, <2>1, <2>2 DEF RowMoves, FallsBack, RowsTyped
<1>5. CASE ReconcileRejected
  <2>1. rejected \in Replies /\ ij[rejected] = "pausing"
    BY <1>5 DEF ReconcileRejected, Inv, TypeOK, MemoryTyped, InHand, RejectedInHand, InTurn
  <2>2. ij' = ij \/ ij' = [ij EXCEPT ![rejected] = "ready"]
       \/ ij' = [ij EXCEPT ![rejected] = "ambiguous"]
    BY <1>5 DEF ReconcileRejected
  <2> QED BY <1>0, <2>1, <2>2 DEF RowMoves, FallsBack, RowsTyped
<1>6. CASE AgentContinues
  BY <1>0, <1>6 DEF AgentContinues, FinishTurn, FinishRows, Retryable,
         FallsBack, RowMoves
<1>7. CASE Barrier
  BY <1>0, <1>7 DEF Barrier, FinishTurn, FinishRows, Retryable, FallsBack,
         RowMoves
<1>8. CASE PrepareAnswer
  <2>1. current \in Replies
    BY <1>8 DEF PrepareAnswer, Inv, InHand, ReplyInHand
  <2>2. \/ ij' = ij
        \/ /\ ij[current] \in {"ready", "paused"} /\ Foremost(current)
           /\ ij' = [ij EXCEPT ![current] = "answer-prepared"]
    BY <1>8 DEF PrepareAnswer
  <2> QED BY <1>0, <2>1, <2>2 DEF RowMoves, TakesUp, RowsTyped
<1>9. CASE BeginAnswer
  <2>1. current \in Replies /\ (cancel \/ ij[current] = "answer-prepared")
    BY <1>9 DEF BeginAnswer, Inv, InHand, ReplyInHand
  <2>2. ij' = ij \/ (~cancel /\ ij' = [ij EXCEPT ![current] = "answering"])
    BY <1>9 DEF BeginAnswer
  <2> QED BY <1>0, <2>1, <2>2 DEF RowMoves, FallsBack, RowsTyped
<1>10. CASE AnswerStarted
  <2>1. current \in Replies /\ ij[current] = "answering"
    BY <1>10 DEF AnswerStarted, Inv, InHand, ReplyInHand
  <2>2. ij' = ij \/ \E s \in {"ready", "paused", "ambiguous"} : ij' = [ij EXCEPT ![current] = s]
    BY <1>10 DEF AnswerStarted, Retryable
  <2> QED BY <1>0, <2>1, <2>2 DEF RowMoves, FallsBack, RowsTyped
<1>11. ASSUME NEW d \in {"answer-only", "task-update"}, StageAnswer(d)
      PROVE  \A i \in Replies : RowMoves(i)
  <2>1. current \in Replies /\ ij[current] = "answering" /\ ~cancel /\ ~cancel'
    BY <1>11 DEF StageAnswer, AnswerTerminal, AtTerminal, Inv, InHand, AnswerInHand, InTurn
  <2>2. kind' = [kind EXCEPT ![current] = d] /\ ij' = [ij EXCEPT ![current] = "answered"]
    BY <1>11 DEF StageAnswer
  <2>3. kind'[current] # "none"
    BY <1>0, <2>1, <2>2 DEF RowsTyped
  <2> QED BY <1>0, <2>1, <2>2, <2>3 DEF RowMoves, Answers, RowsTyped
<1>12. CASE RetryAnswer
  <2>1. current \in Replies /\ ij[current] = "answering"
    BY <1>12 DEF RetryAnswer, AnswerTerminal, AtTerminal, Inv, InHand, AnswerInHand, InTurn
  <2> QED BY <1>0, <1>12, <2>1 DEF RetryAnswer, Retryable, RowMoves, FallsBack
<1>13. CASE Promote
  <2>1. current \in Replies /\ ij[current] = "delivered"
    BY <1>13 DEF Promote, Inv, InHand, ReplyInHand
  <2>2. CASE ij' = ij
    BY <2>2 DEF RowMoves
  <2>3. CASE ij' # ij
    <3>1. PromoteRow(current)
      BY <1>13, <2>3 DEF Promote
    <3>2. Promotes(current)
      BY <1>0, <2>1, <3>1 DEF PromoteRow, Promotes, RowsTyped
    <3>3. \A i \in Replies : i # current => ij'[i] = ij[i]
      BY <1>0, <3>1 DEF PromoteRow, RowsTyped
    <3> QED BY <3>2, <3>3 DEF RowMoves
  <2> QED BY <2>2, <2>3
<1>14. CASE Cancel
  BY <1>0, <1>14 DEF Cancel, CancelRow, Close, Supersedes, RowMoves
<1>15. CASE Fail
  BY <1>0, <1>15, FailMoves DEF Fail
<1>16. CASE ResetPrepared
  BY <1>0, <1>16 DEF ResetPrepared, FallsBack, Retryable, RowMoves
<1>17. ASSUME NEW r \in Replies, PromoteAtStart(r)
      PROVE  \A i \in Replies : RowMoves(i)
  BY <1>0, <1>17 DEF PromoteAtStart, Recoverable, PromoteRow, Promotes, RowMoves
<1>18. CASE RecoverInterrupted
  <2>1. CASE CancelRow
    BY <1>0, <2>1 DEF CancelRow, Close, RowMoves, Supersedes
  <2>2. CASE FailRow
    BY <1>0, <2>2, FailMoves
  <2>3. CASE QueueAgain \/ UNCHANGED rows
    BY <2>3 DEF QueueAgain, rows, RowMoves
  <2> QED BY <1>18, <2>1, <2>2, <2>3 DEF RecoverInterrupted, RecoverRow
<1>19. CASE MarkDelivered
  <2>1. CASE ij' = ij
    BY <2>1 DEF RowMoves
  <2>2. CASE ij' # ij
    <3>1. posting \in Replies /\ posting \in told /\ told' = told
      BY <1>0, <1>19 DEF MarkDelivered, NotifierTyped, Inv, Accounted
    <3>2. /\ ij[posting] = "answered"
          /\ ij' = [ij EXCEPT ![posting] = IF kind[posting] = "answer-only" /\ ~Active
                                             THEN "promoted" ELSE "delivered"]
      BY <1>19, <2>2 DEF MarkDelivered
    <3> QED BY <1>0, <3>1, <3>2 DEF RowMoves, Shows
  <2> QED BY <2>1, <2>2
<1>20. CASE UNCHANGED ij
  BY <1>20 DEF RowMoves
<1> QED BY <1>1, <1>2, <1>3, <1>4, <1>5, <1>6, <1>7, <1>8, <1>9, <1>10, <1>11,
       <1>12, <1>13, <1>14, <1>15, <1>16, <1>17, <1>18, <1>19, <1>20, Footprint
       DEF OnRows, StageAny

-----------------------------------------------------------------------------
(* What one step may do to the job, the messages and the thread.           *)

\* Which actions touch the job's status, its cancellation or its input gate.
OnStatus ==
  \/ DrainStop \/ AgentContinues \/ Barrier \/ Publish \/ Commit \/ Cancel \/ Fail
  \/ Limited \/ Claim \/ RecoverStaged \/ RecoverInterrupted
OnFate ==
  \/ (\E m \in Messages : AdmitBound(m) \/ AdmitUnbound(m))
  \/ DrainReply \/ DrainStop \/ DrainFails
OnThread ==
  MarkDelivered \/ Crash \/ ResetPrepared \/ \E r \in Replies : Post(r)
OnInput ==
  DrainReply \/ Promote \/ \E r \in Replies : PromoteAtStart(r)

\* Every other action leaves them alone.
LEMMA StatusFootprint ==
  ASSUME [Next]_vars
  PROVE  OnStatus \/ UNCHANGED <<status, cancel, accepts>>
<1>1. CASE ClaimInbound \/ CompleteInbound \/ DrainReply \/ Preempt
          \/ (\E m \in Messages : AdmitBound(m))
          \/ (\E m \in Messages : AdmitUnbound(m))
  BY <1>1 DEF AdmitBound, AdmitUnbound, ClaimInbound, CompleteInbound,
         DrainReply, Preempt, jobRow
<1>2. CASE DrainFails \/ GatewayRestarts \/ ChooseWork \/ StartTask
          \/ DispatchStop \/ StopAnswered
  BY <1>2 DEF DrainFails, GatewayRestarts, ChooseWork, StartTask, DispatchStop,
         StopAnswered, jobRow
<1>3. CASE BeginPause \/ PauseAnswered \/ ReconcileRejected \/ NativeTurn
          \/ GoalEnds \/ (\E r \in Replies : PickPause(r))
  BY <1>3 DEF BeginPause, PauseAnswered, PickPause, ReconcileRejected,
         NativeTurn, GoalEnds, jobRow
<1>4. CASE Decide \/ Stranded \/ Accept \/ PrepareAnswer \/ BeginAnswer
          \/ AnswerStarted
  BY <1>4 DEF Decide, Stranded, Accept, PrepareAnswer, BeginAnswer,
         AnswerStarted, jobRow
<1>5. CASE AwaitDelivery \/ Promote \/ StartFails \/ StopUnconfirmed
          \/ AgentFinishes \/ (\E e \in Endings \ {"none"} : TurnEnds(e))
  BY <1>5 DEF AwaitDelivery, Promote, StartFails, StopUnconfirmed, TurnEnds,
         AgentFinishes, jobRow
<1>6. CASE AcceptFails \/ RetryAnswer \/ Crash \/ ResetPrepared
          \/ (\E d \in {"answer-only", "task-update"} : StageAnswer(d))
          \/ (\E r \in Replies : PromoteAtStart(r))
  BY <1>6 DEF AcceptFails, StageAnswer, RetryAnswer, Crash, ResetPrepared,
         PromoteAtStart, jobRow
<1>7. CASE MarkDelivered \/ (\E r \in Replies : Post(r))
  BY <1>7 DEF MarkDelivered, Post, jobRow
<1>8. CASE UNCHANGED vars
  BY <1>8 DEF vars, jobRow
<1> QED BY <1>1, <1>2, <1>3, <1>4, <1>5, <1>6, <1>7, <1>8 DEF Next, Admission,
       Drain, Executor, Control, Finish, Answering, Closing, StageAny, Recovery,
       Notify, OnStatus

\* The gateway alone decides what becomes of a message.
LEMMA FateFootprint ==
  ASSUME [Next]_vars
  PROVE  OnFate \/ UNCHANGED fate
<1>1. CASE ClaimInbound \/ CompleteInbound \/ Preempt \/ GatewayRestarts
          \/ ChooseWork \/ StartTask
  BY <1>1 DEF ClaimInbound, CompleteInbound, Preempt, GatewayRestarts,
         ChooseWork, StartTask, ingress
<1>2. CASE DispatchStop \/ StopAnswered \/ BeginPause \/ PauseAnswered
          \/ ReconcileRejected \/ (\E r \in Replies : PickPause(r))
  BY <1>2 DEF DispatchStop, StopAnswered, BeginPause, PauseAnswered, PickPause,
         ReconcileRejected, ingress
<1>3. CASE NativeTurn \/ GoalEnds \/ Barrier \/ Decide \/ Stranded \/ Accept
  BY <1>3 DEF NativeTurn, GoalEnds, Barrier, Decide, Stranded, Accept, ingress
<1>4. CASE PrepareAnswer \/ BeginAnswer \/ AnswerStarted \/ AwaitDelivery
          \/ Promote \/ Publish
  BY <1>4 DEF PrepareAnswer, BeginAnswer, AnswerStarted, AwaitDelivery, Promote,
         Publish, ingress
<1>5. CASE Commit \/ Cancel \/ Fail \/ Limited \/ Claim \/ StartFails
  BY <1>5 DEF Commit, Cancel, Fail, Limited, Claim, StartFails, ingress
<1>6. CASE StopUnconfirmed \/ AgentContinues \/ AgentFinishes \/ AcceptFails
          \/ (\E e \in Endings \ {"none"} : TurnEnds(e))
          \/ (\E d \in {"answer-only", "task-update"} : StageAnswer(d))
  BY <1>6 DEF StopUnconfirmed, TurnEnds, AgentContinues, AgentFinishes,
         AcceptFails, StageAnswer, ingress
<1>7. CASE RetryAnswer \/ Crash \/ ResetPrepared \/ RecoverStaged
          \/ RecoverInterrupted \/ (\E r \in Replies : PromoteAtStart(r))
  BY <1>7 DEF RetryAnswer, Crash, ResetPrepared, RecoverStaged,
         RecoverInterrupted, PromoteAtStart, ingress
<1>8. CASE MarkDelivered \/ (\E r \in Replies : Post(r))
  BY <1>8 DEF MarkDelivered, Post, ingress
<1>9. CASE UNCHANGED vars
  BY <1>9 DEF vars, ingress
<1> QED BY <1>1, <1>2, <1>3, <1>4, <1>5, <1>6, <1>7, <1>8, <1>9 DEF Next,
       Admission, Drain, Executor, Control, Finish, Answering, Closing,
       StageAny, Recovery, Notify, OnFate

\* The notifier alone posts, and a restart forgets what it was posting.
LEMMA ThreadFootprint ==
  ASSUME [Next]_vars
  PROVE  OnThread \/ UNCHANGED <<posting, told>>
<1>1. CASE ClaimInbound \/ CompleteInbound \/ DrainReply \/ DrainStop
          \/ (\E m \in Messages : AdmitBound(m))
          \/ (\E m \in Messages : AdmitUnbound(m))
  BY <1>1 DEF AdmitBound, AdmitUnbound, ClaimInbound, CompleteInbound,
         DrainReply, DrainStop, notifier
<1>2. CASE Preempt \/ DrainFails \/ GatewayRestarts \/ ChooseWork \/ StartTask
          \/ DispatchStop
  BY <1>2 DEF Preempt, DrainFails, GatewayRestarts, ChooseWork, StartTask,
         DispatchStop, notifier
<1>3. CASE StopAnswered \/ BeginPause \/ PauseAnswered \/ ReconcileRejected
          \/ NativeTurn \/ (\E r \in Replies : PickPause(r))
  BY <1>3 DEF StopAnswered, BeginPause, PauseAnswered, PickPause,
         ReconcileRejected, NativeTurn, notifier
<1>4. CASE GoalEnds \/ Barrier \/ Decide \/ Stranded \/ Accept \/ PrepareAnswer
  BY <1>4 DEF GoalEnds, Barrier, Decide, Stranded, Accept, PrepareAnswer,
         notifier
<1>5. CASE BeginAnswer \/ AnswerStarted \/ AwaitDelivery \/ Promote \/ Publish
          \/ Commit
  BY <1>5 DEF BeginAnswer, AnswerStarted, AwaitDelivery, Promote, Publish,
         Commit, notifier
<1>6. CASE Cancel \/ Fail \/ Limited \/ Claim \/ StartFails \/ StopUnconfirmed
  BY <1>6 DEF Cancel, Fail, Limited, Claim, StartFails, StopUnconfirmed,
         notifier
<1>7. CASE AgentContinues \/ AgentFinishes \/ AcceptFails \/ RetryAnswer
          \/ (\E e \in Endings \ {"none"} : TurnEnds(e))
          \/ (\E d \in {"answer-only", "task-update"} : StageAnswer(d))
  BY <1>7 DEF TurnEnds, AgentContinues, AgentFinishes, AcceptFails, StageAnswer,
         RetryAnswer, notifier
<1>8. CASE RecoverStaged \/ RecoverInterrupted
          \/ (\E r \in Replies : PromoteAtStart(r))
  BY <1>8 DEF RecoverStaged, RecoverInterrupted, PromoteAtStart, notifier
<1>9. CASE UNCHANGED vars
  BY <1>9 DEF vars, notifier
<1> QED BY <1>1, <1>2, <1>3, <1>4, <1>5, <1>6, <1>7, <1>8, <1>9 DEF Next,
       Admission, Drain, Executor, Control, Finish, Answering, Closing,
       StageAny, Recovery, Notify, OnThread

\* Input, bindings and the line change with an admission or a promotion.
LEMMA InputFootprint ==
  ASSUME [Next]_vars
  PROVE  OnInput \/ UNCHANGED <<revision, bindRev, line>>
<1>1. CASE ClaimInbound \/ CompleteInbound \/ DrainStop \/ Preempt
          \/ (\E m \in Messages : AdmitBound(m))
          \/ (\E m \in Messages : AdmitUnbound(m))
  BY <1>1 DEF AdmitBound, AdmitUnbound, ClaimInbound, CompleteInbound,
         DrainStop, Preempt, jobRow, rows
<1>2. CASE DrainFails \/ GatewayRestarts \/ ChooseWork \/ StartTask
          \/ DispatchStop \/ StopAnswered
  BY <1>2 DEF DrainFails, GatewayRestarts, ChooseWork, StartTask, DispatchStop,
         StopAnswered, jobRow, rows
<1>3. CASE BeginPause \/ PauseAnswered \/ ReconcileRejected \/ NativeTurn
          \/ GoalEnds \/ (\E r \in Replies : PickPause(r))
  BY <1>3 DEF BeginPause, PauseAnswered, PickPause, ReconcileRejected,
         NativeTurn, GoalEnds, jobRow, rows
<1>4. CASE Barrier \/ Decide \/ Stranded \/ Accept \/ PrepareAnswer
          \/ BeginAnswer
  BY <1>4 DEF Barrier, Decide, Stranded, Accept, PrepareAnswer, BeginAnswer,
         jobRow, rows
<1>5. CASE AnswerStarted \/ AwaitDelivery \/ Publish \/ Commit \/ Cancel \/ Fail
  BY <1>5 DEF AnswerStarted, AwaitDelivery, Publish, Commit, Cancel, Fail,
         CompleteRow, CancelRow, Close, FailRow, Close, jobRow, rows
<1>6. CASE Limited \/ Claim \/ StartFails \/ StopUnconfirmed \/ AgentContinues
          \/ (\E e \in Endings \ {"none"} : TurnEnds(e))
  BY <1>6 DEF Limited, Claim, StartFails, StopUnconfirmed, TurnEnds,
         AgentContinues, QueueAgain, jobRow, rows
<1>7. CASE AgentFinishes \/ AcceptFails \/ RetryAnswer \/ Crash \/ ResetPrepared
          \/ (\E d \in {"answer-only", "task-update"} : StageAnswer(d))
  BY <1>7 DEF AgentFinishes, AcceptFails, StageAnswer, RetryAnswer, Crash,
         ResetPrepared, jobRow, rows
<1>8. CASE RecoverStaged \/ RecoverInterrupted \/ MarkDelivered
          \/ (\E r \in Replies : Post(r))
  BY <1>8 DEF RecoverStaged, RecoverInterrupted, MarkDelivered, Post,
         CompleteRow, RecoverRow, QueueAgain, FailRow, CancelRow, Close, jobRow,
         rows
<1>9. CASE UNCHANGED vars
  BY <1>9 DEF vars, jobRow, rows
<1> QED BY <1>1, <1>2, <1>3, <1>4, <1>5, <1>6, <1>7, <1>8, <1>9 DEF Next,
       Admission, Drain, Executor, Control, Finish, Answering, Closing,
       StageAny, Recovery, Notify, OnInput

\* A step may cancel a live job, end it, or let it be claimed again; it never takes
\* a cancellation back, and a job that has ended stays so.
StatusMoves ==
  /\ cancel => cancel'
  /\ Active' => Active
  /\ status \in {"completed", "failed"} => status' = status
  /\ status' = "completed" /\ status # "completed"
       => ~Unfinished /\ ~cancel' /\ UNCHANGED ij
  /\ cancel' => ~accepts'
  /\ cancel' /\ ~cancel => Active /\ \A r \in Replies : ij'[r] # "answered"

\* Every step keeps to that.
LEMMA StatusStep ==
  ASSUME Inv, [Next]_vars
  PROVE  StatusMoves
<1>0. JobTyped /\ RowsTyped /\ (cancel => ~accepts)
  BY DEF Inv, TypeOK, Bound
<1>1. CASE UNCHANGED <<status, cancel, accepts>>
  BY <1>0, <1>1 DEF StatusMoves, Active
<1>2. CASE DrainStop
  <2>1. CASE Active /\ ~cancel
    BY <1>0, <1>2, <2>1 DEF DrainStop, SupersedeWaiting, StatusMoves, Active
  <2>2. CASE ~(Active /\ ~cancel)
    BY <1>0, <1>2, <2>2 DEF DrainStop, StatusMoves, Active, jobRow
  <2> QED BY <2>1, <2>2
<1>3. CASE AgentContinues \/ Barrier
  <2>1. UNCHANGED <<status, cancel>>
    BY <1>3 DEF AgentContinues, Barrier
  <2>2. cancel => ~accepts'
    BY <1>3 DEF AgentContinues, Barrier, FinishTurn, StaysOpen
  <2> QED BY <1>0, <2>1, <2>2 DEF StatusMoves, Active
<1>4. CASE Publish
  BY <1>0, <1>4 DEF Publish, StatusMoves, Active
<1>5. CASE Commit
  BY <1>0, <1>5 DEF Commit, Inv, InHand, Running, CompleteRow, rows, StatusMoves, Active, jobRow
<1>6. CASE Cancel \/ Fail
  BY <1>0, <1>6
     DEF Cancel, Fail, Inv, InHand, Running, CancelRow, FailRow, Close, StatusMoves, Active
<1>7. CASE Limited
  BY <1>0, <1>7 DEF Limited, Inv, InHand, Running, QueueAgain, StatusMoves, Active
<1>8. CASE Claim
  BY <1>0, <1>8 DEF Claim, StatusMoves, Active
<1>9. CASE RecoverStaged
  BY <1>0, <1>9 DEF RecoverStaged, CompleteRow, rows, StatusMoves, Active, jobRow
<1>10. CASE RecoverInterrupted
  BY <1>0, <1>10 DEF RecoverInterrupted, RecoverRow, CancelRow, FailRow, Close,
     QueueAgain, StatusMoves, Active, jobRow
<1> QED BY <1>1, <1>2, <1>3, <1>4, <1>5, <1>6, <1>7, <1>8, <1>9, <1>10, StatusFootprint
        DEF OnStatus

\* A reply's fate is decided once: it becomes an interjection as its row is
\* admitted, or is retired by an interrupt.
FateMoves(r) ==
  \/ fate'[r] = fate[r]
  \/ fate[r] \in {"unsent", "pending"} /\ fate'[r] \notin {"live", "retired"}
  \/ Admits(r)
  \/ fate'[r] = "retired"

\* Every step keeps to that.
LEMMA FateStep ==
  ASSUME Inv, [Next]_vars
  PROVE  \A r \in Replies : FateMoves(r)
<1>0. IngressTyped /\ JobTyped /\ RowsTyped
  BY DEF Inv, TypeOK
<1>1. CASE UNCHANGED fate
  BY <1>1 DEF FateMoves
<1>2. ASSUME NEW m \in Messages, AdmitBound(m) \/ AdmitUnbound(m)
      PROVE  \A r \in Replies : FateMoves(r)
  <2>1. fate[m] = "unsent" /\ \E s \in {"pending", "notice"} : fate' = [fate EXCEPT ![m] = s]
    BY <1>2 DEF AdmitBound, AdmitUnbound
  <2> QED BY <1>0, <2>1 DEF FateMoves, IngressTyped, Messages
<1>3. CASE DrainReply
  <2>1. CASE Active /\ accepts /\ ~cancel
    <3>1. Admits(held)
      BY <1>0, <1>3, <2>1, AdmitsHeld
    <3>2. \A r \in Replies : r # held => fate'[r] = fate[r]
      BY <1>0, <1>3, <2>1 DEF DrainReply, IngressTyped, Messages
    <3> QED BY <3>1, <3>2 DEF FateMoves
  <2>2. CASE ~(Active /\ accepts /\ ~cancel)
    BY <1>0, <1>3, <2>2 DEF DrainReply, Tombstone, FateMoves, IngressTyped, Messages
  <2> QED BY <2>1, <2>2
<1>4. CASE DrainStop
  BY <1>0, <1>4, MessageAssumption
     DEF DrainStop, Tombstone, FateMoves, IngressTyped, Messages
<1>5. CASE DrainFails
  BY <1>0, <1>5 DEF DrainFails, Tombstone, FateMoves, IngressTyped, Messages
<1> QED BY <1>1, <1>2, <1>3, <1>4, <1>5, FateFootprint DEF OnFate

\* What was posted stays posted; an answer is posted when it is staged.
LEMMA ThreadStep ==
  ASSUME Inv, [Next]_vars
  PROVE  /\ told \subseteq told'
         /\ posting' # None => posting' \in told'
         /\ \A r \in told' : r \notin told => ij[r] = "answered"
<1>0. NotifierTyped /\ (posting # None => posting \in told)
  BY DEF Inv, TypeOK, Accounted
<1>1. CASE UNCHANGED <<posting, told>>
  BY <1>0, <1>1
<1>2. CASE MarkDelivered \/ Crash \/ ResetPrepared
  BY <1>0, <1>2 DEF MarkDelivered, Crash, ResetPrepared
<1>3. ASSUME NEW r \in Replies, Post(r)
      PROVE  /\ told \subseteq told'
             /\ posting' # None => posting' \in told'
             /\ \A i \in told' : i \notin told => ij[i] = "answered"
  BY <1>0, <1>3 DEF Post
<1> QED BY <1>1, <1>2, <1>3, ThreadFootprint DEF OnThread

\* The executor and the restart promote the foremost delivered row.
Promoting(r) ==
  /\ ij[r] = "delivered" /\ Foremost(r) /\ PromoteRow(r)
  /\ UNCHANGED <<kind, line, status, cancel>>
  /\ kind[r] = "task-update" => ~cancel /\ status = "running"

\* The input changes with a promotion alone.
LEMMA InputStep ==
  ASSUME Inv, [Next]_vars
  PROVE  \/ UNCHANGED <<revision, bindRev, line>>
         \/ UNCHANGED revision /\ \E r \in Replies : Admits(r)
         \/ \E r \in Replies : Promoting(r)
<1>1. CASE DrainReply
  <2>1. CASE Active /\ accepts /\ ~cancel
    BY <1>1, <2>1, AdmitsHeld DEF DrainReply, jobRow
  <2>2. CASE ~(Active /\ accepts /\ ~cancel)
    BY <1>1, <2>2 DEF DrainReply, jobRow, rows
  <2> QED BY <2>1, <2>2
<1>2. CASE Promote
  <2>1. current \in Replies /\ ij[current] = "delivered"
    BY <1>2 DEF Promote, Inv, InHand, ReplyInHand
  <2>2. CASE Promotable(current)
    BY <1>2, <2>1, <2>2 DEF Promote, Promotable, Promoting
  <2>3. CASE ~Promotable(current)
    BY <1>2, <2>3 DEF Promote
  <2> QED BY <2>2, <2>3
<1>3. ASSUME NEW r \in Replies, PromoteAtStart(r)
      PROVE  Promoting(r)
  BY <1>3 DEF PromoteAtStart, Recoverable, Promotable, Promoting
<1> QED BY <1>1, <1>2, <1>3, InputFootprint DEF OnInput

\* The agent's choice is recorded while the row is being answered.
LEMMA KindStep ==
  ASSUME Inv, [Next]_vars
  PROVE  \A r \in Replies : kind'[r] = kind[r] \/ ij[r] = "answering"
<1>0. RowsTyped
  BY DEF Inv, TypeOK
<1>1. ASSUME NEW d \in {"answer-only", "task-update"}, StageAnswer(d)
      PROVE  \A r \in Replies : kind'[r] = kind[r] \/ ij[r] = "answering"
  <2>1. current \in Replies /\ ij[current] = "answering"
    BY <1>1 DEF StageAnswer, AnswerTerminal, AtTerminal, Inv, InHand, AnswerInHand, InTurn
  <2> QED BY <1>0, <1>1, <2>1 DEF StageAnswer, RowsTyped
<1>2. CASE UNCHANGED kind
  BY <1>2
<1>3. CASE \/ DrainReply \/ DrainStop \/ BeginPause \/ PauseAnswered \/ ReconcileRejected
           \/ AgentContinues \/ Barrier \/ PrepareAnswer \/ BeginAnswer \/ AnswerStarted
  BY <1>3 DEF DrainReply, DrainStop, BeginPause, PauseAnswered, ReconcileRejected,
     AgentContinues, Barrier, PrepareAnswer, BeginAnswer, AnswerStarted, rows
<1>4. CASE \/ RetryAnswer \/ Promote \/ Cancel \/ Fail \/ ResetPrepared
           \/ (\E r \in Replies : PromoteAtStart(r)) \/ RecoverInterrupted \/ MarkDelivered
  BY <1>4 DEF RetryAnswer, Promote, Cancel, Fail, ResetPrepared, PromoteAtStart,
     RecoverInterrupted, RecoverRow, CancelRow, FailRow, Close, QueueAgain, MarkDelivered,
     rows
<1> QED BY <1>1, <1>2, <1>3, <1>4, Footprint DEF OnRows, StageAny

-----------------------------------------------------------------------------
(* Every step preserves the parts of the invariant.                        *)

\* A row that has been taken up was so before, or was the foremost.
LEMMA UpOrForemost ==
  ASSUME Inv, NEW r \in Replies, RowMoves(r), ij'[r] \notin {"none", "ready", "superseded"},
         ij'[r] # ij[r] => ~Admits(r)
  PROVE  Foremost(r) /\ ij[r] # "none"
<1>1. ij[r] \notin {"none", "ready", "superseded"} => Foremost(r)
  BY DEF Inv, Lined
<1>2. CASE TakesUp(r)
  BY <1>2 DEF TakesUp
<1>3. CASE ~TakesUp(r)
  <2>1. ij[r] \notin {"none", "ready", "superseded"}
    BY <1>3 DEF RowMoves, Answers, Shows, Promotes, FallsBack, Supersedes
  <2> QED BY <1>1, <2>1
<1> QED BY <1>2, <1>3

\* A closed row stays closed, and only an admission makes a row.
LEMMA ClosedStays ==
  ASSUME NEW r \in Replies, RowMoves(r), ~Admits(r)
  PROVE  (Closed(r) => ij'[r] = ij[r]) /\ (ij[r] = "none" <=> ij'[r] = "none")
  BY DEF RowMoves, TakesUp, Answers, Shows, Promotes, FallsBack, Supersedes, Closed

\* Rows keep their place in the line, and only the foremost is taken up.
LEMMA LinedStep ==
  ASSUME Inv, [Next]_vars
  PROVE  Lined'
<1>0. RowsTyped /\ Lined /\ \A r \in Replies : RowMoves(r)
  BY RowStep DEF Inv, TypeOK
<1>1. CASE line' = line
  <2>1. \A r \in Replies : ~Admits(r)
    <3>1. ASSUME NEW r \in Replies, Admits(r) PROVE FALSE
      <4>1. Len(Append(line, r)) = Len(line) + 1 /\ Len(line) \in Nat
        BY <1>0 DEF RowsTyped
      <4> QED BY <1>1, <3>1, <4>1 DEF Admits
    <3> QED BY <3>1
  <2>2. \A r \in Replies : /\ ij[r] = "none" <=> ij'[r] = "none"
                           /\ Closed(r) => ij'[r] = ij[r]
    BY <1>0, <2>1, ClosedStays
  <2>3. ASSUME NEW r \in Replies, ij'[r] \notin {"none", "ready", "superseded"}
        PROVE  Foremost(r)'
    <3>1. Foremost(r)
      BY <1>0, <2>1, <2>3, UpOrForemost
    <3> QED BY <1>1, <2>2, <3>1 DEF Foremost, Closed, Earlier
  <2> QED BY <1>0, <1>1, <2>2, <2>3 DEF Lined, InLine
<1>2. ASSUME NEW x \in Replies, Admits(x) PROVE Lined'
  <2>1. /\ Len(line') = Len(line) + 1 /\ Len(line) \in Nat
        /\ \A i \in 1 .. Len(line) : line'[i] = line[i]
        /\ line'[Len(line) + 1] = x
    BY <1>0, <1>2 DEF Admits, RowsTyped
  <2>2. /\ ij[x] = "none" /\ ij'[x] = "ready" /\ ~InLine(x)
        /\ \A r \in Replies : r # x => ij'[r] = ij[r]
    BY <1>0, <1>2 DEF Admits, RowsTyped, Lined
  <2>3. \A r \in Replies : ij'[r] = "none" <=> ~InLine(r)'
    <3>1. ASSUME NEW r \in Replies, r # x PROVE InLine(r)' <=> InLine(r)
      BY <2>1, <3>1 DEF InLine
    <3>2. InLine(x)'
      BY <2>1 DEF InLine
    <3> QED BY <1>0, <2>2, <3>1, <3>2 DEF Lined
  <2>4. \A i, k \in 1 .. Len(line') : line'[i] = line'[k] => i = k
    BY <1>0, <2>1, <2>2 DEF Lined, InLine
  <2>5. ASSUME NEW r \in Replies, ij'[r] \notin {"none", "ready", "superseded"}
        PROVE  Foremost(r)'
    <3>1. r # x /\ Foremost(r)
      BY <1>0, <2>2, <2>5 DEF Lined
    <3>2. ASSUME NEW p \in Replies, Earlier(line', p, r) PROVE Closed(p)'
      <4>1. Earlier(line, p, r)
        BY <1>0, <1>2, <3>1, <3>2, AppendEarlier DEF Admits, RowsTyped
      <4>2. Closed(p) /\ InLine(p)
        BY <3>1, <4>1 DEF Foremost, Earlier, InLine
      <4> QED BY <2>2, <4>2 DEF Closed
    <3> QED BY <3>2 DEF Foremost
  <2> QED BY <2>3, <2>4, <2>5 DEF Lined
<1> QED BY <1>0, <1>1, <1>2, InputStep DEF Promoting

\* Messages, rows and thread keep agreeing.
LEMMA AccountedStep ==
  ASSUME Inv, [Next]_vars
  PROVE  Accounted'
<1>0. /\ Accounted /\ StatusMoves /\ JobTyped
      /\ \A r \in Replies : RowMoves(r) /\ FateMoves(r)
  BY RowStep, FateStep, StatusStep DEF Inv, TypeOK
<1>1. /\ told \subseteq told' /\ (posting' # None => posting' \in told')
  BY ThreadStep
<1>2. ASSUME NEW r \in Replies, fate'[r] \notin {"live", "retired"} PROVE ij'[r] = "none"
  <2>1. fate[r] \notin {"live", "retired"} /\ ~Admits(r)
    BY <1>0, <1>2 DEF FateMoves, Admits
  <2> QED BY <1>0, <2>1, ClosedStays DEF Accounted, Closed
<1>3. ASSUME NEW r \in Replies, fate'[r] = "live" PROVE ij'[r] # "none"
  <2>1. CASE Admits(r)
    <3>1. RowsTyped
      BY DEF Inv, TypeOK
    <3> QED BY <2>1, <3>1 DEF Admits, RowsTyped
  <2>2. CASE ~Admits(r)
    <3>1. fate[r] = "live"
      BY <1>0, <1>3, <2>2 DEF FateMoves
    <3> QED BY <1>0, <2>2, <3>1, ClosedStays DEF Accounted
  <2> QED BY <2>1, <2>2
<1>4. ASSUME NEW r \in Replies, ij'[r] = "superseded" PROVE cancel' \/ status' = "failed"
  <2>1. ij[r] = "superseded" \/ Supersedes(r)
    <3>1. RowsTyped
      BY DEF Inv, TypeOK
    <3> QED BY <1>0, <1>4, <3>1
            DEF RowMoves, Admits, TakesUp, Answers, Shows, Promotes, FallsBack, RowsTyped
  <2> QED BY <1>0, <2>1 DEF Accounted, Supersedes, StatusMoves
<1>5. ASSUME NEW r \in Replies, ij'[r] \in {"delivered", "promoted"} PROVE r \in told'
  <2>1. ij[r] \in {"delivered", "promoted"} \/ Shows(r)
    <3>1. RowsTyped
      BY DEF Inv, TypeOK
    <3> QED BY <1>0, <1>5, <3>1
            DEF RowMoves, Admits, TakesUp, Answers, Promotes, FallsBack, Supersedes, RowsTyped
  <2> QED BY <1>0, <1>1, <2>1 DEF Accounted, Shows
<1>6. ASSUME cancel', NEW r \in Replies PROVE ij'[r] # "answered"
  <2>1. CASE cancel
    <3>1. RowsTyped
      BY DEF Inv, TypeOK
    <3> QED BY <1>0, <2>1, <3>1
            DEF Accounted, RowMoves, Admits, TakesUp, Answers, Shows, Promotes, FallsBack,
                Supersedes, RowsTyped
  <2>2. CASE ~cancel
    BY <1>0, <1>6, <2>2 DEF StatusMoves
  <2> QED BY <2>1, <2>2
<1>7. ASSUME status' = "completed" PROVE ~cancel' /\ \A r \in Replies : Closed(r)'
  <2>1. CASE status = "completed"
    <3>1. ~Active /\ ~cancel /\ \A r \in Replies : Closed(r)
      BY <1>0, <2>1 DEF Accounted, Active
    <3>2. \A r \in Replies : ij'[r] = ij[r]
      BY <1>0, <3>1, ClosedStays DEF Admits
    <3> QED BY <1>0, <3>1, <3>2 DEF StatusMoves, Closed
  <2>2. CASE status # "completed"
    BY <1>0, <1>7, <2>2 DEF StatusMoves, Unfinished, Closed
  <2> QED BY <2>1, <2>2
<1> QED BY <1>1, <1>2, <1>3, <1>4, <1>5, <1>6, <1>7 DEF Accounted

\* The input counts its updates, and what waits is bound to it.
LEMMA BoundStep ==
  ASSUME Inv, [Next]_vars
  PROVE  Bound'
<1>0. /\ Bound /\ Lined /\ StatusMoves /\ JobTyped /\ RowsTyped
      /\ \A r \in Replies : RowMoves(r) /\ (kind'[r] = kind[r] \/ ij[r] = "answering")
  BY RowStep, KindStep, StatusStep DEF Inv, TypeOK
<1>1. revision \in Nat
  BY <1>0, Constants DEF JobTyped, Revisions
<1>2. revision' = 1 + Cardinality(Updates')
  <2>1. CASE revision' = revision
    <3>1. ASSUME NEW r \in Replies PROVE r \in Updates' <=> r \in Updates
      <4>1. CASE ij[r] = "promoted"
        BY <1>0, <4>1 DEF RowMoves, Admits, TakesUp, Answers, Shows, Promotes, FallsBack,
           Supersedes, Closed, Updates
      <4>2. CASE Shows(r)
        BY <1>0, <4>2 DEF Shows, Updates
      <4>3. CASE Promotes(r)
        BY <1>0, <1>1, <2>1, <4>3 DEF Promotes, Updates
      <4>4. CASE ij[r] # "promoted" /\ ~Shows(r) /\ ~Promotes(r)
        BY <1>0, <4>4 DEF RowMoves, Admits, TakesUp, Answers, FallsBack,
           Supersedes, Updates, RowsTyped
      <4> QED BY <4>1, <4>2, <4>3, <4>4
    <3>2. Updates' = Updates
      BY <3>1 DEF Updates
    <3> QED BY <1>0, <2>1, <3>2 DEF Bound
  <2>2. ASSUME revision' # revision, NEW r \in Replies, Promoting(r)
        PROVE  revision' = 1 + Cardinality(Updates')
    <3>1. kind[r] = "task-update" /\ revision' = revision + 1
      BY <2>2 DEF Promoting, PromoteRow
    <3>2. Updates' = Updates \cup {r} /\ r \notin Updates
      BY <1>0, <2>2, <3>1 DEF Promoting, PromoteRow, Updates, RowsTyped
    <3>3. IsFiniteSet(Updates)
      BY FaultAssumption, FS_Subset DEF Updates
    <3>4. Cardinality(Updates') = Cardinality(Updates) + 1 /\ Cardinality(Updates) \in Nat
      BY <3>2, <3>3, FS_AddElement, FS_CardinalityType
    <3> QED BY <1>0, <3>1, <3>4 DEF Bound
  <2> QED BY <2>1, <2>2, InputStep
<1>3. ASSUME Active', NEW r \in Replies, ~Closed(r)', ij'[r] # "ambiguous"
      PROVE  bindRev'[r] = revision'
  <2>0. Active
    BY <1>0, <1>3 DEF StatusMoves
  <2>1. CASE Admits(r)
    <3>1. CASE UNCHANGED <<revision, bindRev, line>>
      <4>1. Len(Append(line, r)) = Len(line) + 1 /\ Len(line) \in Nat
        BY <1>0 DEF RowsTyped
      <4> QED BY <2>1, <3>1, <4>1 DEF Admits
    <3>2. CASE UNCHANGED revision
      BY <1>0, <2>1, <3>2 DEF Admits, RowsTyped
    <3>3. ASSUME NEW p \in Replies, Promoting(p) PROVE FALSE
      BY <1>0, <2>1, <3>3 DEF Admits, Promoting, PromoteRow, RowsTyped
    <3> QED BY <3>1, <3>2, <3>3, InputStep
  <2>2. CASE ~Admits(r)
    <3>1. ~Closed(r) /\ ij[r] # "ambiguous"
      BY <1>0, <1>3, <2>2 DEF RowMoves, TakesUp, Answers, Shows, Promotes, FallsBack,
         Supersedes, Closed
    <3>2. bindRev[r] = revision
      BY <1>0, <2>0, <3>1 DEF Bound
    <3>3. CASE UNCHANGED <<revision, bindRev, line>>
      BY <3>2, <3>3
    <3>4. ASSUME UNCHANGED revision, NEW x \in Replies, Admits(x)
          PROVE  bindRev'[r] = revision'
      <4>1. x # r
        BY <2>2, <3>4
      <4> QED BY <1>0, <3>2, <3>4, <4>1 DEF Admits, RowsTyped
    <3>5. ASSUME NEW p \in Replies, Promoting(p) PROVE bindRev'[r] = revision'
      <4>1. ij[p] = "delivered" /\ ij'[p] = "promoted" /\ p # r
        BY <1>0, <1>3, <3>5 DEF Promoting, PromoteRow, RowsTyped, Closed
      <4>2. CASE ij[r] \in {"ready", "paused", "answer-prepared"}
        BY <3>5, <4>2 DEF Promoting, PromoteRow
      <4>3. CASE ij[r] \notin {"ready", "paused", "answer-prepared"}
        <5>1. ij[r] \notin {"none", "ready", "superseded", "promoted"}
          BY <3>1, <4>3 DEF Closed
        <5> QED BY <4>1, <5>1, Alone DEF Inv
      <4> QED BY <4>2, <4>3
    <3> QED BY <3>3, <3>4, <3>5, InputStep
  <2> QED BY <2>1, <2>2
<1>4. ASSUME NEW r \in Replies, ij'[r] \in {"answered", "delivered"} PROVE kind'[r] # "none"
  <2>1. CASE Answers(r)
    BY <2>1 DEF Answers
  <2>2. CASE ~Answers(r)
    <3>1. ij[r] \in {"answered", "delivered"}
      BY <1>0, <1>4, <2>2 DEF RowMoves, Admits, TakesUp, Shows, Promotes, FallsBack,
         Supersedes, RowsTyped
    <3> QED BY <1>0, <3>1 DEF Bound
  <2> QED BY <2>1, <2>2
<1> QED BY <1>0, <1>2, <1>3, <1>4 DEF Bound, StatusMoves

\* The foremost row stays the foremost: new rows go behind it.
LEMMA ForemostStays ==
  ASSUME Inv, [Next]_vars, NEW r \in Replies, Foremost(r), ij[r] # "none"
  PROVE  Foremost(r)'
<1>0. RowsTyped /\ Lined /\ \A p \in Replies : RowMoves(p)
  BY RowStep DEF Inv, TypeOK
<1>1. ASSUME NEW p \in Replies, Earlier(line', p, r) PROVE Closed(p)'
  <2>1. Earlier(line, p, r)
    <3>1. CASE line' = line
      BY <1>1, <3>1
    <3>2. ASSUME NEW x \in Replies, Admits(x) PROVE Earlier(line, p, r)
      <4>1. x # r /\ line' = Append(line, x)
        BY <3>2 DEF Admits
      <4> QED BY <1>0, <1>1, <4>1, AppendEarlier DEF RowsTyped
    <3> QED BY <3>1, <3>2, InputStep DEF Promoting
  <2>2. Closed(p) /\ ij[p] # "none"
    BY <1>0, <2>1 DEF Foremost, Earlier, Lined, InLine
  <2>3. ~Admits(p)
    BY <2>2 DEF Admits
  <2> QED BY <1>0, <2>2, <2>3, ClosedStays DEF Closed
<1> QED BY <1>1 DEF Foremost

\* Gateway and notifier work beside the executor: they leave its place alone, and
\* of the row it has in hand only an interrupt or the post of its answer is seen.
Beside ==
  \/ Admission \/ Drain \/ Preempt \/ DrainFails \/ GatewayRestarts \/ Notify
BesideRow(r) ==
  \/ ij'[r] = ij[r] \/ ij[r] = "none"
  \/ /\ ij[r] \in {"ready", "paused", "answer-prepared", "answered"}
     /\ ij'[r] = "superseded" /\ cancel'
  \/ ij[r] = "answered" /\ (ij'[r] = "delivered" \/ ~Active)

\* Their steps keep to that.
LEMMA BesideStep ==
  ASSUME Inv, Beside
  PROVE  /\ UNCHANGED <<pc, memory, turn, status, revision, staged, attempts>>
         /\ accepts' => accepts
         /\ \A r \in Replies : BesideRow(r)
<1>0. RowsTyped /\ NotifierTyped
  BY DEF Inv, TypeOK
<1>1. ASSUME NEW m \in Messages, AdmitBound(m) \/ AdmitUnbound(m)
      PROVE  /\ UNCHANGED <<pc, memory, turn, status, revision, staged, attempts>>
             /\ accepts' => accepts
             /\ \A r \in Replies : BesideRow(r)
  BY <1>1 DEF AdmitBound, AdmitUnbound, jobRow, rows, BesideRow
<1>2. CASE ClaimInbound \/ CompleteInbound \/ Preempt \/ DrainFails \/ GatewayRestarts
  BY <1>2 DEF ClaimInbound, CompleteInbound, Preempt, DrainFails, GatewayRestarts, jobRow,
     rows, BesideRow
<1>3. CASE DrainReply
  <2>1. CASE Active /\ accepts /\ ~cancel
    <3>1. Admits(held)
      BY <1>3, <2>1, AdmitsHeld
    <3>2. \A r \in Replies : r # held => ij'[r] = ij[r]
      BY <1>0, <3>1 DEF Admits, RowsTyped
    <3> QED BY <1>3, <3>1, <3>2 DEF DrainReply, jobRow, BesideRow, Admits
  <2>2. CASE ~(Active /\ accepts /\ ~cancel)
    BY <1>3, <2>2 DEF DrainReply, jobRow, rows, BesideRow
  <2> QED BY <2>1, <2>2
<1>4. CASE DrainStop
  BY <1>0, <1>4 DEF DrainStop, SupersedeWaiting, jobRow, rows, BesideRow
<1>5. CASE MarkDelivered
  <2>1. UNCHANGED <<pc, memory, turn, status, revision, staged, attempts, accepts>>
    BY <1>5 DEF MarkDelivered, jobRow
  <2>2. ij' = ij \/ /\ posting \in Replies /\ ij[posting] = "answered"
                    /\ \/ ~Active
                       \/ ij' = [ij EXCEPT ![posting] = "delivered"]
                    /\ \E s : ij' = [ij EXCEPT ![posting] = s]
    BY <1>0, <1>5 DEF MarkDelivered, NotifierTyped
  <2> QED BY <1>0, <2>1, <2>2 DEF BesideRow, RowsTyped
<1>6. ASSUME NEW r \in Replies, Post(r)
      PROVE  /\ UNCHANGED <<pc, memory, turn, status, revision, staged, attempts>>
             /\ accepts' => accepts
             /\ \A i \in Replies : BesideRow(i)
  BY <1>6 DEF Post, jobRow, rows, BesideRow
<1> QED BY <1>1, <1>2, <1>3, <1>4, <1>5, <1>6 DEF Beside, Admission, Drain, Notify

\* The barrier either waits for the gateway with the turn as it is, or leaves the
\* turn; it accepts the answer of a task turn of a job that is not cancelled.
LEMMA BarrierMoves ==
  ASSUME Barrier, RowsTyped
  PROVE  /\ pc = "barrier"
         /\ UNCHANGED <<status, cancel, revision, staged, current, rejected, result, covers>>
         /\ pc' \in {"cancelling", "limited", "barrier", "failing", "loop", "decide",
                     "accepted"}
         /\ pc' \in {"decide", "accepted"} => ~cancel /\ turn # "answer"
         /\ pc' = "barrier" =>
              /\ ~cancel /\ turn' = turn
              /\ \A r \in Replies : ij[r] = "answering" => ij'[r] = "answering"
<1>1. pc' = AfterBarrier
  BY DEF Barrier, Goto
<1>2. AfterBarrier = "barrier" => ~cancel /\ ending # "limited" /\ inbound # {}
  BY DEF AfterBarrier
<1>3. AfterBarrier \in {"decide", "accepted"} => ~cancel /\ turn # "answer"
  BY DEF AfterBarrier
<1>4. ASSUME ~cancel, ending # "limited", inbound # {}
      PROVE  turn' = turn /\ \A r \in Replies : ij[r] = "answering" => ij'[r] = "answering"
  BY <1>4 DEF Barrier, FinishTurn, FinishRows
<1> QED BY <1>1, <1>2, <1>3, <1>4, AfterBarrierTyped DEF Barrier

\* The job runs while the executor works on it.
LEMMA RunningStep ==
  ASSUME Inv, [Next]_vars
  PROVE  Running'
<1>0. /\ Running
      /\ RowsTyped /\ MemoryTyped /\ None \notin Replies
  BY MessageAssumption DEF Inv, TypeOK, InHand
<1>1. CASE ChooseWork \/ StartTask \/ DispatchStop \/ StopAnswered
  BY <1>0, <1>1 DEF ChooseWork, StartTask, DispatchStop, StopAnswered, Goto,
         Throw, jobRow, rows, memory, InTurn, RowsTyped, MemoryTyped, Running
<1>2. CASE BeginPause \/ PauseAnswered \/ ReconcileRejected
            \/ (\E r \in Replies : PickPause(r))
  BY <1>0, <1>2 DEF BeginPause, PauseAnswered, PickPause, ReconcileRejected,
         Goto, Throw, jobRow, rows, memory, InTurn, RowsTyped, MemoryTyped,
         Running
<1>3. CASE NativeTurn \/ GoalEnds \/ Decide \/ Stranded
  BY <1>0, <1>3 DEF NativeTurn, GoalEnds, Decide, Stranded, Goto, Throw, jobRow,
         rows, memory, InTurn, RowsTyped, MemoryTyped, Running
<1>4. CASE Accept \/ PrepareAnswer \/ BeginAnswer \/ AnswerStarted
  BY <1>0, <1>4 DEF Accept, PrepareAnswer, BeginAnswer, AnswerStarted, Goto,
         Throw, jobRow, rows, memory, InTurn, RowsTyped, MemoryTyped, Running
<1>5. CASE AwaitDelivery \/ Promote \/ Publish \/ Commit
  BY <1>0, <1>5 DEF AwaitDelivery, Promote, Publish, Commit, Goto, Throw,
         jobRow, rows, memory, InTurn, RowsTyped, MemoryTyped, Running
<1>6. CASE Cancel \/ Fail \/ Limited \/ Claim
  BY <1>0, <1>6 DEF Cancel, Fail, Limited, Claim, Goto, Throw, jobRow, rows,
         memory, InTurn, RowsTyped, MemoryTyped, Running
<1>7. CASE StartFails \/ StopUnconfirmed \/ AgentContinues
            \/ (\E e \in Endings \ {"none"} : TurnEnds(e))
  BY <1>0, <1>7 DEF StartFails, StopUnconfirmed, TurnEnds, AgentContinues,
         AtTerminal, Goto, Throw, jobRow, rows, memory, InTurn, RowsTyped,
         MemoryTyped, Running
<1>8. CASE AgentFinishes \/ AcceptFails \/ RetryAnswer
            \/ (\E d \in {"answer-only", "task-update"} : StageAnswer(d))
  BY <1>0, <1>8 DEF AgentFinishes, AcceptFails, StageAnswer, RetryAnswer,
         AnswerTerminal, AtTerminal, Goto, Throw, jobRow, rows, memory, InTurn,
         RowsTyped, MemoryTyped, Running
<1>9. CASE Crash \/ ResetPrepared \/ RecoverStaged \/ RecoverInterrupted
  BY <1>0, <1>9 DEF Crash, ResetPrepared, RecoverStaged, RecoverInterrupted,
         Goto, Throw, jobRow, rows, memory, InTurn, RowsTyped, MemoryTyped,
         Running
<1>10. CASE \E r \in Replies : PromoteAtStart(r)
  BY <1>0, <1>10 DEF PromoteAtStart, Goto, Throw, jobRow, rows, memory, InTurn,
         RowsTyped, MemoryTyped, Running
<1>11. CASE Barrier
  BY <1>0, <1>11, BarrierMoves DEF InTurn, Running
<1>12. CASE Beside
  <2>1. /\ UNCHANGED <<pc, turn, status, current, rejected>> /\ (cancel => cancel')
        /\ \A r \in Replies : BesideRow(r)
    BY <1>12, BesideStep, StatusStep DEF memory, StatusMoves
  <2> QED BY <1>0, <2>1 DEF BesideRow, InTurn, Active, MemoryTyped, Running
<1>13. CASE UNCHANGED vars
  BY <1>0, <1>13 DEF vars, jobRow, rows, memory, ingress, notifier, Active,
         Goto, Throw, jobRow, rows, memory, InTurn, RowsTyped, MemoryTyped,
         Running
<1> QED BY <1>1, <1>2, <1>3, <1>4, <1>5, <1>6, <1>7, <1>8, <1>9, <1>10, <1>11,
       <1>12, <1>13 DEF Next, Admission, Drain, Executor, Control, Finish,
       Answering, Closing, StageAny, Recovery, Notify, Beside

\* An answer turn is the one of the row in hand.
LEMMA AnswerStep ==
  ASSUME Inv, [Next]_vars
  PROVE  AnswerInHand'
<1>0. /\ AnswerInHand /\ ReplyInHand /\ PauseInHand /\ RejectedInHand
      /\ RowsTyped /\ MemoryTyped /\ None \notin Replies
  BY MessageAssumption DEF Inv, TypeOK, InHand
<1>1. CASE ChooseWork \/ StartTask \/ DispatchStop \/ StopAnswered
  BY <1>0, <1>1 DEF ChooseWork, StartTask, DispatchStop, StopAnswered, Goto,
         Throw, jobRow, rows, memory, InTurn, RowsTyped, MemoryTyped,
         AnswerInHand
<1>2. CASE BeginPause \/ NativeTurn \/ GoalEnds
            \/ (\E r \in Replies : PickPause(r))
  BY <1>0, <1>2 DEF BeginPause, PickPause, NativeTurn, GoalEnds, Goto, Throw,
         jobRow, rows, memory, InTurn, RowsTyped, MemoryTyped, AnswerInHand
<1>3. CASE Decide \/ Stranded \/ Accept \/ PrepareAnswer
  BY <1>0, <1>3 DEF Decide, Stranded, Accept, PrepareAnswer, Goto, Throw,
         jobRow, rows, memory, InTurn, RowsTyped, MemoryTyped, AnswerInHand
<1>4. CASE BeginAnswer \/ AwaitDelivery \/ Promote \/ Publish
  BY <1>0, <1>4 DEF BeginAnswer, AwaitDelivery, Promote, Publish, Goto, Throw,
         jobRow, rows, memory, InTurn, RowsTyped, MemoryTyped, AnswerInHand
<1>5. CASE Commit \/ Cancel \/ Fail \/ Limited
  BY <1>0, <1>5 DEF Commit, Cancel, Fail, Limited, Goto, Throw, jobRow, rows,
         memory, InTurn, RowsTyped, MemoryTyped, AnswerInHand
<1>6. CASE Claim \/ StartFails \/ StopUnconfirmed
            \/ (\E e \in Endings \ {"none"} : TurnEnds(e))
  BY <1>0, <1>6 DEF Claim, StartFails, StopUnconfirmed, TurnEnds, Goto, Throw,
         jobRow, rows, memory, InTurn, RowsTyped, MemoryTyped, AnswerInHand
<1>7. CASE AgentContinues \/ AgentFinishes \/ AcceptFails
            \/ (\E d \in {"answer-only", "task-update"} : StageAnswer(d))
  BY <1>0, <1>7 DEF AgentContinues, AgentFinishes, AcceptFails, StageAnswer,
         AnswerTerminal, AtTerminal, Goto, Throw, jobRow, rows, memory, InTurn,
         RowsTyped, MemoryTyped, AnswerInHand
<1>8. CASE RetryAnswer \/ Crash \/ ResetPrepared \/ RecoverStaged
  BY <1>0, <1>8 DEF RetryAnswer, Crash, ResetPrepared, RecoverStaged,
         AnswerTerminal, AtTerminal, Goto, Throw, jobRow, rows, memory, InTurn,
         RowsTyped, MemoryTyped, AnswerInHand
<1>9. CASE RecoverInterrupted \/ (\E r \in Replies : PromoteAtStart(r))
  BY <1>0, <1>9 DEF RecoverInterrupted, PromoteAtStart, Goto, Throw, jobRow,
         rows, memory, InTurn, RowsTyped, MemoryTyped, AnswerInHand
<1>10. CASE PauseAnswered
  BY <1>0, <1>10 DEF PauseAnswered, PauseInHand, Goto, Throw, jobRow, rows,
         memory, InTurn, RowsTyped, MemoryTyped, AnswerInHand
<1>11. CASE ReconcileRejected
  BY <1>0, <1>11 DEF ReconcileRejected, RejectedInHand, Goto, Throw, jobRow,
         rows, memory, InTurn, RowsTyped, MemoryTyped, AnswerInHand
<1>12. CASE Barrier
  BY <1>0, <1>12, BarrierMoves DEF InTurn, AnswerInHand
<1>13. CASE AnswerStarted
  BY <1>0, <1>13 DEF AnswerStarted, ReplyInHand, Goto, Throw, jobRow, rows,
         memory, InTurn, RowsTyped, MemoryTyped, AnswerInHand
<1>14. CASE Beside
  <2>1. /\ UNCHANGED <<pc, turn, status, current, rejected>> /\ (cancel => cancel')
        /\ \A r \in Replies : BesideRow(r)
    BY <1>14, BesideStep, StatusStep DEF memory, StatusMoves
  <2> QED BY <1>0, <2>1 DEF BesideRow, InTurn, Active, MemoryTyped, AnswerInHand
<1>15. CASE UNCHANGED vars
  BY <1>0, <1>15 DEF vars, jobRow, rows, memory, ingress, notifier, Active,
         Goto, Throw, jobRow, rows, memory, InTurn, RowsTyped, MemoryTyped,
         AnswerInHand
<1> QED BY <1>1, <1>2, <1>3, <1>4, <1>5, <1>6, <1>7, <1>8, <1>9, <1>10, <1>11,
       <1>12, <1>13, <1>14, <1>15 DEF Next, Admission, Drain, Executor, Control,
       Finish, Answering, Closing, StageAny, Recovery, Notify, Beside

\* A pause is begun for the foremost row while the task turn runs.
LEMMA PauseStep ==
  ASSUME Inv, [Next]_vars
  PROVE  PauseInHand'
<1>0. /\ PauseInHand
      /\ RowsTyped /\ MemoryTyped /\ None \notin Replies
  BY MessageAssumption DEF Inv, TypeOK, InHand
<1>1. CASE ChooseWork \/ StartTask \/ DispatchStop \/ StopAnswered
  BY <1>0, <1>1 DEF ChooseWork, StartTask, DispatchStop, StopAnswered, Goto,
         Throw, jobRow, rows, memory, InTurn, RowsTyped, MemoryTyped,
         PauseInHand
<1>2. CASE PauseAnswered \/ ReconcileRejected \/ NativeTurn \/ GoalEnds
  BY <1>0, <1>2 DEF PauseAnswered, ReconcileRejected, NativeTurn, GoalEnds,
         Goto, Throw, jobRow, rows, memory, InTurn, RowsTyped, MemoryTyped,
         PauseInHand
<1>3. CASE Decide \/ Stranded \/ Accept \/ PrepareAnswer
  BY <1>0, <1>3 DEF Decide, Stranded, Accept, PrepareAnswer, Goto, Throw,
         jobRow, rows, memory, InTurn, RowsTyped, MemoryTyped, PauseInHand
<1>4. CASE BeginAnswer \/ AnswerStarted \/ AwaitDelivery \/ Promote
  BY <1>0, <1>4 DEF BeginAnswer, AnswerStarted, AwaitDelivery, Promote, Goto,
         Throw, jobRow, rows, memory, InTurn, RowsTyped, MemoryTyped,
         PauseInHand
<1>5. CASE Publish \/ Commit \/ Cancel \/ Fail
  BY <1>0, <1>5 DEF Publish, Commit, Cancel, Fail, Goto, Throw, jobRow, rows,
         memory, InTurn, RowsTyped, MemoryTyped, PauseInHand
<1>6. CASE Limited \/ Claim \/ StartFails \/ StopUnconfirmed
  BY <1>0, <1>6 DEF Limited, Claim, StartFails, StopUnconfirmed, Goto, Throw,
         jobRow, rows, memory, InTurn, RowsTyped, MemoryTyped, PauseInHand
<1>7. CASE AgentContinues \/ AgentFinishes \/ AcceptFails
            \/ (\E e \in Endings \ {"none"} : TurnEnds(e))
  BY <1>0, <1>7 DEF TurnEnds, AgentContinues, AgentFinishes, AcceptFails,
         AtTerminal, Goto, Throw, jobRow, rows, memory, InTurn, RowsTyped,
         MemoryTyped, PauseInHand
<1>8. CASE RetryAnswer \/ Crash \/ ResetPrepared
            \/ (\E d \in {"answer-only", "task-update"} : StageAnswer(d))
  BY <1>0, <1>8 DEF StageAnswer, RetryAnswer, Crash, ResetPrepared,
         AnswerTerminal, AtTerminal, Goto, Throw, jobRow, rows, memory, InTurn,
         RowsTyped, MemoryTyped, PauseInHand
<1>9. CASE RecoverStaged \/ RecoverInterrupted
            \/ (\E r \in Replies : PromoteAtStart(r))
  BY <1>0, <1>9 DEF RecoverStaged, RecoverInterrupted, PromoteAtStart, Goto,
         Throw, jobRow, rows, memory, InTurn, RowsTyped, MemoryTyped,
         PauseInHand
<1>10. CASE BeginPause
  BY <1>0, <1>10 DEF BeginPause, Goto, Throw, jobRow, rows, memory, InTurn,
         RowsTyped, MemoryTyped, PauseInHand
<1>11. ASSUME NEW r \in Replies, PickPause(r)
      PROVE  PauseInHand'
  BY <1>0, <1>11 DEF PickPause, NextReady, Foremost, Closed, Earlier, Goto,
         Throw, jobRow, rows, memory, InTurn, RowsTyped, MemoryTyped,
         PauseInHand
<1>12. CASE Barrier
  BY <1>0, <1>12, BarrierMoves DEF InTurn, PauseInHand
<1>13. CASE Beside
  <2>1. /\ UNCHANGED <<pc, turn, status, current, rejected>>
        /\ \A r \in Replies : BesideRow(r)
    BY <1>13, BesideStep DEF memory
  <2>2. ASSUME pc = "suspending" PROVE Foremost(current)'
    <3>1. PICK x \in Replies : x = current
      BY <1>0, <2>2 DEF PauseInHand
    <3>2. Foremost(x)'
      BY <1>0, <2>2, <3>1, ForemostStays DEF PauseInHand
    <3> QED BY <2>1, <3>1, <3>2
  <2> QED BY <1>0, <2>1, <2>2 DEF BesideRow, PauseInHand
<1>14. CASE UNCHANGED vars
  BY <1>0, <1>14 DEF vars, jobRow, rows, memory, ingress, notifier, Active,
         Foremost, Closed, Earlier, Goto, Throw, jobRow, rows, memory, InTurn,
         RowsTyped, MemoryTyped, PauseInHand
<1> QED BY <1>1, <1>2, <1>3, <1>4, <1>5, <1>6, <1>7, <1>8, <1>9, <1>10, <1>11,
       <1>12, <1>13, <1>14 DEF Next, Admission, Drain, Executor, Control,
       Finish, Answering, Closing, StageAny, Recovery, Notify, Beside

\* The row in hand is in the state its place asks for.
LEMMA ReplyStep ==
  ASSUME Inv, [Next]_vars
  PROVE  ReplyInHand'
<1>0. /\ Running /\ ReplyInHand /\ AnswerInHand
      /\ RowsTyped /\ MemoryTyped /\ None \notin Replies
  BY MessageAssumption DEF Inv, TypeOK, InHand
<1>1. CASE StartTask \/ DispatchStop \/ StopAnswered \/ BeginPause
  BY <1>0, <1>1 DEF StartTask, DispatchStop, StopAnswered, BeginPause, Goto,
         Throw, jobRow, rows, memory, InTurn, RowsTyped, MemoryTyped,
         ReplyInHand
<1>2. CASE PauseAnswered \/ ReconcileRejected \/ NativeTurn
            \/ (\E r \in Replies : PickPause(r))
  BY <1>0, <1>2 DEF PauseAnswered, PickPause, ReconcileRejected, NativeTurn,
         Goto, Throw, jobRow, rows, memory, InTurn, RowsTyped, MemoryTyped,
         ReplyInHand
<1>3. CASE GoalEnds \/ Decide \/ Stranded \/ AnswerStarted
  BY <1>0, <1>3 DEF GoalEnds, Decide, Stranded, AnswerStarted, Goto, Throw,
         jobRow, rows, memory, InTurn, RowsTyped, MemoryTyped, ReplyInHand
<1>4. CASE Promote \/ Publish \/ Commit \/ Cancel
  BY <1>0, <1>4 DEF Promote, Publish, Commit, Cancel, Goto, Throw, jobRow, rows,
         memory, InTurn, RowsTyped, MemoryTyped, ReplyInHand
<1>5. CASE Fail \/ Limited \/ Claim \/ StartFails
  BY <1>0, <1>5 DEF Fail, Limited, Claim, StartFails, Goto, Throw, jobRow, rows,
         memory, InTurn, RowsTyped, MemoryTyped, ReplyInHand
<1>6. CASE StopUnconfirmed \/ AgentContinues \/ AgentFinishes
            \/ (\E e \in Endings \ {"none"} : TurnEnds(e))
  BY <1>0, <1>6 DEF StopUnconfirmed, TurnEnds, AgentContinues, AgentFinishes,
         AtTerminal, Goto, Throw, jobRow, rows, memory, InTurn, RowsTyped,
         MemoryTyped, ReplyInHand
<1>7. CASE AcceptFails \/ Crash \/ ResetPrepared \/ RecoverStaged
  BY <1>0, <1>7 DEF AcceptFails, Crash, ResetPrepared, RecoverStaged, Goto,
         Throw, jobRow, rows, memory, InTurn, RowsTyped, MemoryTyped,
         ReplyInHand
<1>8. CASE RecoverInterrupted \/ (\E r \in Replies : PromoteAtStart(r))
  BY <1>0, <1>8 DEF RecoverInterrupted, PromoteAtStart, Goto, Throw, jobRow,
         rows, memory, InTurn, RowsTyped, MemoryTyped, ReplyInHand
<1>9. CASE ChooseWork
  BY <1>0, <1>9 DEF ChooseWork, NextPending, Goto, Throw, jobRow, rows, memory,
         InTurn, RowsTyped, MemoryTyped, ReplyInHand
<1>10. CASE Barrier
  BY <1>0, <1>10, BarrierMoves DEF InTurn, ReplyInHand
<1>11. CASE Accept
  BY <1>0, <1>11 DEF Accept, NextPending, Goto, Throw, jobRow, rows, memory,
         InTurn, RowsTyped, MemoryTyped, ReplyInHand
<1>12. CASE PrepareAnswer
  BY <1>0, <1>12 DEF PrepareAnswer, Goto, Throw, jobRow, rows, memory, InTurn,
         RowsTyped, MemoryTyped, ReplyInHand
<1>13. CASE BeginAnswer
  BY <1>0, <1>13 DEF BeginAnswer, Goto, Throw, jobRow, rows, memory, InTurn,
         RowsTyped, MemoryTyped, ReplyInHand
<1>14. CASE AwaitDelivery
  BY <1>0, <1>14 DEF AwaitDelivery, Goto, Throw, jobRow, rows, memory, InTurn,
         RowsTyped, MemoryTyped, ReplyInHand
<1>15. ASSUME NEW d \in {"answer-only", "task-update"}, StageAnswer(d)
      PROVE  ReplyInHand'
  BY <1>0, <1>15 DEF StageAnswer, AnswerInHand, AnswerTerminal, AtTerminal,
         Goto, Throw, jobRow, rows, memory, InTurn, RowsTyped, MemoryTyped,
         ReplyInHand
<1>16. CASE RetryAnswer
  BY <1>0, <1>16 DEF RetryAnswer, AnswerInHand, AnswerTerminal, AtTerminal,
         Goto, Throw, jobRow, rows, memory, InTurn, RowsTyped, MemoryTyped,
         ReplyInHand
<1>17. CASE Beside
  <2>1. /\ UNCHANGED <<pc, turn, status, current, rejected>> /\ (cancel => cancel')
        /\ \A r \in Replies : BesideRow(r)
    BY <1>17, BesideStep, StatusStep DEF memory, StatusMoves
  <2> QED BY <1>0, <2>1 DEF BesideRow, InTurn, Active, MemoryTyped, ReplyInHand, Running
<1>18. CASE UNCHANGED vars
  BY <1>0, <1>18 DEF vars, jobRow, rows, memory, ingress, notifier, Active,
         Goto, Throw, jobRow, rows, memory, InTurn, RowsTyped, MemoryTyped,
         ReplyInHand
<1> QED BY <1>1, <1>2, <1>3, <1>4, <1>5, <1>6, <1>7, <1>8, <1>9, <1>10, <1>11,
       <1>12, <1>13, <1>14, <1>15, <1>16, <1>17, <1>18 DEF Next, Admission,
       Drain, Executor, Control, Finish, Answering, Closing, StageAny, Recovery,
       Notify, Beside

\* A rejected pause is looked up before the executor leaves the turn.
LEMMA RejectedStep ==
  ASSUME Inv, [Next]_vars
  PROVE  RejectedInHand'
<1>0. /\ RejectedInHand /\ PauseInHand
      /\ RowsTyped /\ MemoryTyped /\ None \notin Replies
  BY MessageAssumption DEF Inv, TypeOK, InHand
<1>1. CASE ChooseWork \/ StartTask \/ DispatchStop \/ StopAnswered
  BY <1>0, <1>1 DEF ChooseWork, StartTask, DispatchStop, StopAnswered, Goto,
         Throw, jobRow, rows, memory, InTurn, RowsTyped, MemoryTyped,
         RejectedInHand
<1>2. CASE BeginPause \/ ReconcileRejected \/ NativeTurn
            \/ (\E r \in Replies : PickPause(r))
  BY <1>0, <1>2 DEF BeginPause, PickPause, ReconcileRejected, NativeTurn, Goto,
         Throw, jobRow, rows, memory, InTurn, RowsTyped, MemoryTyped,
         RejectedInHand
<1>3. CASE GoalEnds \/ Decide \/ Stranded \/ Accept
  BY <1>0, <1>3 DEF GoalEnds, Decide, Stranded, Accept, Goto, Throw, jobRow,
         rows, memory, InTurn, RowsTyped, MemoryTyped, RejectedInHand
<1>4. CASE PrepareAnswer \/ BeginAnswer \/ AnswerStarted \/ AwaitDelivery
  BY <1>0, <1>4 DEF PrepareAnswer, BeginAnswer, AnswerStarted, AwaitDelivery,
         Goto, Throw, jobRow, rows, memory, InTurn, RowsTyped, MemoryTyped,
         RejectedInHand
<1>5. CASE Promote \/ Publish \/ Commit \/ Cancel
  BY <1>0, <1>5 DEF Promote, Publish, Commit, Cancel, Goto, Throw, jobRow, rows,
         memory, InTurn, RowsTyped, MemoryTyped, RejectedInHand
<1>6. CASE Fail \/ Limited \/ Claim \/ StartFails
  BY <1>0, <1>6 DEF Fail, Limited, Claim, StartFails, Goto, Throw, jobRow, rows,
         memory, InTurn, RowsTyped, MemoryTyped, RejectedInHand
<1>7. CASE StopUnconfirmed \/ AcceptFails
            \/ (\E e \in Endings \ {"none"} : TurnEnds(e))
            \/ (\E d \in {"answer-only", "task-update"} : StageAnswer(d))
  BY <1>0, <1>7 DEF StopUnconfirmed, TurnEnds, AcceptFails, StageAnswer,
         AnswerTerminal, AtTerminal, Goto, Throw, jobRow, rows, memory, InTurn,
         RowsTyped, MemoryTyped, RejectedInHand
<1>8. CASE Crash \/ ResetPrepared \/ RecoverStaged \/ RecoverInterrupted
  BY <1>0, <1>8 DEF Crash, ResetPrepared, RecoverStaged, RecoverInterrupted,
         Goto, Throw, jobRow, rows, memory, InTurn, RowsTyped, MemoryTyped,
         RejectedInHand
<1>9. CASE \E r \in Replies : PromoteAtStart(r)
  BY <1>0, <1>9 DEF PromoteAtStart, Goto, Throw, jobRow, rows, memory, InTurn,
         RowsTyped, MemoryTyped, RejectedInHand
<1>10. CASE PauseAnswered
  BY <1>0, <1>10 DEF PauseAnswered, PauseInHand, Goto, Throw, jobRow, rows,
         memory, InTurn, RowsTyped, MemoryTyped, RejectedInHand
<1>11. CASE Barrier
  BY <1>0, <1>11, BarrierMoves DEF InTurn, RejectedInHand
<1>12. CASE AgentContinues
  BY <1>0, <1>12 DEF AgentContinues, AtTerminal, Goto, Throw, jobRow, rows,
         memory, InTurn, RowsTyped, MemoryTyped, RejectedInHand
<1>13. CASE AgentFinishes
  BY <1>0, <1>13 DEF AgentFinishes, AtTerminal, Goto, Throw, jobRow, rows,
         memory, InTurn, RowsTyped, MemoryTyped, RejectedInHand
<1>14. CASE RetryAnswer
  BY <1>0, <1>14 DEF RetryAnswer, AnswerTerminal, AtTerminal, Goto, Throw,
         jobRow, rows, memory, InTurn, RowsTyped, MemoryTyped, RejectedInHand
<1>15. CASE Beside
  <2>1. /\ UNCHANGED <<pc, turn, status, current, rejected>> /\ (cancel => cancel')
        /\ \A r \in Replies : BesideRow(r)
    BY <1>15, BesideStep, StatusStep DEF memory, StatusMoves
  <2> QED BY <1>0, <2>1 DEF BesideRow, InTurn, Active, MemoryTyped, RejectedInHand
<1>16. CASE UNCHANGED vars
  BY <1>0, <1>16 DEF vars, jobRow, rows, memory, ingress, notifier, Active,
         Goto, Throw, jobRow, rows, memory, InTurn, RowsTyped, MemoryTyped,
         RejectedInHand
<1> QED BY <1>1, <1>2, <1>3, <1>4, <1>5, <1>6, <1>7, <1>8, <1>9, <1>10, <1>11,
       <1>12, <1>13, <1>14, <1>15, <1>16 DEF Next, Admission, Drain, Executor,
       Control, Finish, Answering, Closing, StageAny, Recovery, Notify, Beside

\* Behind a staged result nothing is opened again.
LEMMA StagedRows ==
  ASSUME Inv, [Next]_vars, staged # 0
  PROVE  \A r \in Replies : Closed(r)'
<1>1. ~accepts /\ \A r \in Replies : Closed(r) /\ RowMoves(r)
  BY RowStep DEF Inv, Covered, StagedCovers
<1> QED BY <1>1, ClosedStays DEF Admits, Closed

\* A task turn runs with the input as it was at its start.
LEMMA TurnCoversStep ==
  ASSUME Inv, [Next]_vars
  PROVE  TurnCovers'
<1>0. /\ TurnCovers
      /\ JobTyped /\ RowsTyped /\ MemoryTyped /\ revision \in Nat
  BY Constants DEF Inv, TypeOK, InHand, Covered, JobTyped, Revisions
<1>1. CASE ChooseWork \/ StartTask \/ DispatchStop \/ StopAnswered
  BY <1>0, <1>1 DEF ChooseWork, StartTask, DispatchStop, StopAnswered, Goto,
         Throw, jobRow, memory, InTurn, TurnCovers
<1>2. CASE BeginPause \/ PauseAnswered \/ ReconcileRejected
            \/ (\E r \in Replies : PickPause(r))
  BY <1>0, <1>2 DEF BeginPause, PauseAnswered, PickPause, ReconcileRejected,
         Goto, Throw, jobRow, memory, InTurn, TurnCovers
<1>3. CASE NativeTurn \/ GoalEnds \/ Decide \/ Stranded
  BY <1>0, <1>3 DEF NativeTurn, GoalEnds, Decide, Stranded, Goto, Throw, jobRow,
         memory, InTurn, TurnCovers
<1>4. CASE Accept \/ PrepareAnswer \/ BeginAnswer \/ AnswerStarted
  BY <1>0, <1>4 DEF Accept, PrepareAnswer, BeginAnswer, AnswerStarted, Goto,
         Throw, jobRow, memory, InTurn, TurnCovers
<1>5. CASE AwaitDelivery \/ Promote \/ Publish \/ Commit
  BY <1>0, <1>5 DEF AwaitDelivery, Promote, Publish, Commit, CompleteRow,
         PromoteRow, Goto, Throw, jobRow, memory, InTurn, TurnCovers
<1>6. CASE Cancel \/ Fail \/ Limited \/ Claim
  BY <1>0, <1>6 DEF Cancel, Fail, Limited, Claim, CancelRow, Close, FailRow,
         QueueAgain, Goto, Throw, jobRow, memory, InTurn, TurnCovers
<1>7. CASE StartFails \/ StopUnconfirmed \/ AgentContinues
            \/ (\E e \in Endings \ {"none"} : TurnEnds(e))
  BY <1>0, <1>7 DEF StartFails, StopUnconfirmed, TurnEnds, AgentContinues,
         AtTerminal, Goto, Throw, jobRow, memory, InTurn, TurnCovers
<1>8. CASE AgentFinishes \/ AcceptFails \/ RetryAnswer
            \/ (\E d \in {"answer-only", "task-update"} : StageAnswer(d))
  BY <1>0, <1>8 DEF AgentFinishes, AcceptFails, StageAnswer, RetryAnswer,
         AnswerTerminal, AtTerminal, Goto, Throw, jobRow, memory, InTurn,
         TurnCovers
<1>9. CASE Crash \/ ResetPrepared \/ RecoverStaged \/ RecoverInterrupted
  BY <1>0, <1>9 DEF Crash, ResetPrepared, RecoverStaged, RecoverInterrupted,
         CancelRow, Close, CompleteRow, FailRow, QueueAgain, RecoverRow, Goto,
         Throw, jobRow, memory, InTurn, TurnCovers
<1>10. CASE \E r \in Replies : PromoteAtStart(r)
  BY <1>0, <1>10 DEF PromoteAtStart, PromoteRow, Goto, Throw, jobRow, memory,
         InTurn, TurnCovers
<1>11. CASE Barrier
  BY <1>0, <1>11, BarrierMoves DEF InTurn, TurnCovers
<1>12. CASE Beside
  <2>1. /\ UNCHANGED <<pc, turn, covers, result, revision, staged, status>>
        /\ accepts' => accepts
    BY <1>12, BesideStep DEF memory
  <2> QED BY <1>0, <2>1 DEF InTurn, TurnCovers
<1>13. CASE UNCHANGED vars
  BY <1>0, <1>13 DEF vars, jobRow, rows, memory, ingress, notifier, Active,
         Goto, Throw, jobRow, memory, InTurn, TurnCovers
<1> QED BY <1>1, <1>2, <1>3, <1>4, <1>5, <1>6, <1>7, <1>8, <1>9, <1>10, <1>11,
       <1>12, <1>13 DEF Next, Admission, Drain, Executor, Control, Finish,
       Answering, Closing, StageAny, Recovery, Notify, Beside

\* The result in memory is that of the input as it is.
LEMMA ResultCoversStep ==
  ASSUME Inv, [Next]_vars
  PROVE  ResultCovers'
<1>0. /\ TurnCovers /\ ResultCovers /\ PauseInHand
      /\ JobTyped /\ RowsTyped /\ MemoryTyped /\ revision \in Nat
  BY Constants DEF Inv, TypeOK, InHand, Covered, JobTyped, Revisions
<1>1. CASE ChooseWork \/ StartTask \/ DispatchStop \/ StopAnswered
  BY <1>0, <1>1 DEF ChooseWork, StartTask, DispatchStop, StopAnswered, Goto,
         Throw, jobRow, memory, InTurn, ResultCovers
<1>2. CASE BeginPause \/ ReconcileRejected \/ NativeTurn
            \/ (\E r \in Replies : PickPause(r))
  BY <1>0, <1>2 DEF BeginPause, PickPause, ReconcileRejected, NativeTurn, Goto,
         Throw, jobRow, memory, InTurn, ResultCovers
<1>3. CASE GoalEnds \/ Decide \/ Stranded \/ PrepareAnswer
  BY <1>0, <1>3 DEF GoalEnds, Decide, Stranded, PrepareAnswer, Goto, Throw,
         jobRow, memory, InTurn, ResultCovers
<1>4. CASE BeginAnswer \/ AnswerStarted \/ AwaitDelivery \/ Publish
  BY <1>0, <1>4 DEF BeginAnswer, AnswerStarted, AwaitDelivery, Publish, Goto,
         Throw, jobRow, memory, InTurn, ResultCovers
<1>5. CASE Commit \/ Cancel \/ Fail \/ Limited
  BY <1>0, <1>5 DEF Commit, Cancel, Fail, Limited, CancelRow, Close,
         CompleteRow, FailRow, QueueAgain, Goto, Throw, jobRow, memory, InTurn,
         ResultCovers
<1>6. CASE Claim \/ StartFails \/ StopUnconfirmed
            \/ (\E e \in Endings \ {"none"} : TurnEnds(e))
  BY <1>0, <1>6 DEF Claim, StartFails, StopUnconfirmed, TurnEnds, Goto, Throw,
         jobRow, memory, InTurn, ResultCovers
<1>7. CASE AgentContinues \/ AgentFinishes \/ AcceptFails
            \/ (\E d \in {"answer-only", "task-update"} : StageAnswer(d))
  BY <1>0, <1>7 DEF AgentContinues, AgentFinishes, AcceptFails, StageAnswer,
         AnswerTerminal, AtTerminal, Goto, Throw, jobRow, memory, InTurn,
         ResultCovers
<1>8. CASE RetryAnswer \/ Crash \/ ResetPrepared \/ RecoverStaged
  BY <1>0, <1>8 DEF RetryAnswer, Crash, ResetPrepared, RecoverStaged,
         AnswerTerminal, AtTerminal, CompleteRow, Goto, Throw, jobRow, memory,
         InTurn, ResultCovers
<1>9. CASE RecoverInterrupted \/ (\E r \in Replies : PromoteAtStart(r))
  BY <1>0, <1>9 DEF RecoverInterrupted, PromoteAtStart, CancelRow, Close,
         FailRow, PromoteRow, QueueAgain, RecoverRow, Goto, Throw, jobRow,
         memory, InTurn, ResultCovers
<1>10. CASE PauseAnswered
  BY <1>0, <1>10 DEF PauseAnswered, PauseInHand, Goto, Throw, jobRow, memory,
         InTurn, ResultCovers
<1>11. CASE Barrier
  BY <1>0, <1>11, BarrierMoves DEF InTurn, ResultCovers
<1>12. CASE Accept
  BY <1>0, <1>12 DEF Accept, TurnCovers, Goto, Throw, jobRow, memory, InTurn,
         ResultCovers
<1>13. CASE Promote
  <2>1. CASE result' = result /\ pc' = "publish"
    <3>1. kind[current] = "answer-only" /\ result # 0 /\ PromoteRow(current)
      BY <1>13, <2>1 DEF Promote, KeepsResult, Goto, Throw
    <3> QED BY <1>0, <1>13, <2>1, <3>1 DEF Promote, PromoteRow, ResultCovers, InTurn
  <2>2. CASE ~(result' = result /\ pc' = "publish")
    BY <1>0, <1>13, <2>2 DEF Promote, Goto, Throw, ResultCovers, InTurn
  <2> QED BY <2>1, <2>2
<1>14. CASE Beside
  <2>1. /\ UNCHANGED <<pc, turn, covers, result, revision, staged, status>>
        /\ accepts' => accepts
    BY <1>14, BesideStep DEF memory
  <2> QED BY <1>0, <2>1 DEF InTurn, ResultCovers
<1>15. CASE UNCHANGED vars
  BY <1>0, <1>15 DEF vars, jobRow, rows, memory, ingress, notifier, Active,
         Goto, Throw, jobRow, memory, InTurn, ResultCovers
<1> QED BY <1>1, <1>2, <1>3, <1>4, <1>5, <1>6, <1>7, <1>8, <1>9, <1>10, <1>11,
       <1>12, <1>13, <1>14, <1>15 DEF Next, Admission, Drain, Executor, Control,
       Finish, Answering, Closing, StageAny, Recovery, Notify, Beside

\* The staged result is that of the input as it is, and nothing changes it any more.
LEMMA StagedCoversStep ==
  ASSUME Inv, [Next]_vars
  PROVE  StagedCovers'
<1>0. /\ StagedCovers /\ ResultCovers
      /\ JobTyped /\ RowsTyped /\ MemoryTyped /\ revision \in Nat
  BY Constants DEF Inv, TypeOK, InHand, Covered, JobTyped, Revisions
<1>s. staged # 0 => \A r \in Replies : Closed(r)'
  BY StagedRows
<1>1. CASE ChooseWork \/ StartTask \/ DispatchStop \/ StopAnswered
  BY <1>0, <1>s, <1>1 DEF ChooseWork, StartTask, DispatchStop, StopAnswered,
         Goto, Throw, jobRow, memory, InTurn, StagedCovers
<1>2. CASE BeginPause \/ PauseAnswered \/ ReconcileRejected
            \/ (\E r \in Replies : PickPause(r))
  BY <1>0, <1>s, <1>2 DEF BeginPause, PauseAnswered, PickPause,
         ReconcileRejected, Goto, Throw, jobRow, memory, InTurn, StagedCovers
<1>3. CASE NativeTurn \/ GoalEnds \/ Decide \/ Stranded
  BY <1>0, <1>s, <1>3 DEF NativeTurn, GoalEnds, Decide, Stranded, Goto, Throw,
         jobRow, memory, InTurn, StagedCovers
<1>4. CASE Accept \/ PrepareAnswer \/ BeginAnswer \/ AnswerStarted
  BY <1>0, <1>s, <1>4 DEF Accept, PrepareAnswer, BeginAnswer, AnswerStarted,
         Goto, Throw, jobRow, memory, InTurn, StagedCovers
<1>5. CASE AwaitDelivery \/ Promote \/ Cancel \/ Fail
  BY <1>0, <1>s, <1>5 DEF AwaitDelivery, Promote, Cancel, Fail, CancelRow,
         Close, FailRow, PromoteRow, Goto, Throw, jobRow, memory, InTurn,
         StagedCovers
<1>6. CASE Limited \/ Claim \/ StartFails \/ StopUnconfirmed
  BY <1>0, <1>s, <1>6 DEF Limited, Claim, StartFails, StopUnconfirmed,
         QueueAgain, Goto, Throw, jobRow, memory, InTurn, StagedCovers
<1>7. CASE AgentContinues \/ AgentFinishes \/ AcceptFails
            \/ (\E e \in Endings \ {"none"} : TurnEnds(e))
  BY <1>0, <1>s, <1>7 DEF TurnEnds, AgentContinues, AgentFinishes, AcceptFails,
         AtTerminal, Goto, Throw, jobRow, memory, InTurn, StagedCovers
<1>8. CASE RetryAnswer \/ Crash \/ ResetPrepared
            \/ (\E d \in {"answer-only", "task-update"} : StageAnswer(d))
  BY <1>0, <1>s, <1>8 DEF StageAnswer, RetryAnswer, Crash, ResetPrepared,
         AnswerTerminal, AtTerminal, Goto, Throw, jobRow, memory, InTurn,
         StagedCovers
<1>9. CASE RecoverStaged
  BY <1>0, <1>s, <1>9 DEF RecoverStaged, CompleteRow, Goto, Throw, jobRow,
         memory, InTurn, StagedCovers
<1>10. CASE Barrier
  BY <1>0, <1>10, BarrierMoves DEF StagedCovers
<1>11. CASE Publish
  <2>1. staged = 0
    BY <1>0, <1>11 DEF Publish, StagedCovers
  <2>2. CASE staged' = 0
    BY <2>2 DEF StagedCovers
  <2>3. CASE staged' # 0
    <3>1. staged' = revision /\ ~accepts' /\ pc' = "sealed" /\ ~Unfinished
      BY <1>0, <1>11, <2>1, <2>3 DEF Publish, SealOpen, Goto, ResultCovers
    <3>2. UNCHANGED <<revision, ij>> /\ status' = "running"
      BY <1>11 DEF Publish, rows, Inv, InHand, Running
    <3> QED BY <3>1, <3>2 DEF StagedCovers, Unfinished, Closed
  <2> QED BY <2>2, <2>3
<1>12. CASE Commit
  BY <1>0, <1>s, <1>12 DEF Commit, CompleteRow, Goto, Throw, jobRow, memory,
         InTurn, StagedCovers
<1>13. CASE RecoverInterrupted
  BY <1>0, <1>s, <1>13 DEF RecoverInterrupted, RecoverRow, CancelRow, FailRow,
         Close, QueueAgain, Goto, Throw, jobRow, memory, InTurn, StagedCovers
<1>14. ASSUME NEW r \in Replies, PromoteAtStart(r)
      PROVE  StagedCovers'
  BY <1>0, <1>s, <1>14 DEF PromoteAtStart, Recoverable, Closed, PromoteRow,
         Goto, Throw, jobRow, memory, InTurn, StagedCovers
<1>15. CASE Beside
  <2>1. /\ UNCHANGED <<pc, turn, covers, result, revision, staged, status>>
        /\ accepts' => accepts
    BY <1>15, BesideStep DEF memory
  <2> QED BY <1>0, <1>s, <2>1 DEF StagedCovers
<1>16. CASE UNCHANGED vars
  BY <1>0, <1>s, <1>16 DEF vars, jobRow, rows, memory, ingress, notifier,
         Active, Goto, Throw, jobRow, memory, InTurn, StagedCovers
<1> QED BY <1>1, <1>2, <1>3, <1>4, <1>5, <1>6, <1>7, <1>8, <1>9, <1>10, <1>11,
       <1>12, <1>13, <1>14, <1>15, <1>16 DEF Next, Admission, Drain, Executor,
       Control, Finish, Answering, Closing, StageAny, Recovery, Notify, Beside

-----------------------------------------------------------------------------
(* The theorems.                                                           *)

\* The first state satisfies the invariant.
LEMMA InitInv == Init => Inv
<1> SUFFICES ASSUME Init PROVE Inv
    OBVIOUS
<1>1. TypeOK
  BY InitTypeOK
<1>2. Lined
  BY DEF Init, Lined, InLine
<1>3. Accounted
  BY DEF Init, Accounted, Messages
<1>4. Bound
  <2>1. Updates = {}
    BY DEF Init, Updates
  <2>2. Cardinality(Updates) = 0
    BY <2>1, FS_EmptySet
  <2> QED BY <2>2 DEF Init, Bound, Closed
<1>5. InHand
  BY DEF Init, InHand, Running, AnswerInHand, PauseInHand, ReplyInHand, RejectedInHand, InTurn
<1>6. Covered
  BY DEF Init, Covered, TurnCovers, ResultCovers, StagedCovers, InTurn
<1> QED BY <1>1, <1>2, <1>3, <1>4, <1>5, <1>6 DEF Inv

\* Inv is an invariant of the specification.
LEMMA Invariance == Spec => []Inv
<1>1. Inv /\ [Next]_vars => Inv'
  BY TypeStep, LinedStep, AccountedStep, BoundStep, RunningStep, AnswerStep, PauseStep,
     ReplyStep, RejectedStep, TurnCoversStep, ResultCoversStep, StagedCoversStep
     DEF Inv, InHand, Covered
<1> QED BY InitInv, <1>1, PTL DEF Spec

\* Nothing a user wrote before the end is dropped by a success, replies are answered
\* one at a time and in order, each bound to the input as it is; the staged result
\* has every promoted update as input; and a cancelled job takes no reply.
THEOREM SafetyHolds == Spec => []Safety
<1>1. Inv => Safety
  <2> SUFFICES ASSUME Inv PROVE Safety
      OBVIOUS
  <2>1. NothingDropped
    BY DEF NothingDropped, Inv, TypeOK, Accounted, Closed
  <2>2. ResultIsCurrent
    BY DEF ResultIsCurrent, Inv, Bound, Updates, Covered, StagedCovers
  <2>3. OneConversation
    <3>1. ASSUME NEW p \in Replies, NEW r \in Replies, Earlier(line, p, r), ~Closed(p)
          PROVE  ij[r] \in {"ready", "superseded"}
      <4>1. InLine(r)
        BY <3>1 DEF Earlier, InLine
      <4> QED BY <3>1, <4>1 DEF Inv, Lined, Foremost
    <3> QED BY <3>1 DEF OneConversation
  <2>4. WaitingIsBound
    BY DEF WaitingIsBound, Inv, Bound, Closed
  <2>5. CancelledIsClosed
    BY DEF CancelledIsClosed, Inv, Bound
  <2> QED BY <2>1, <2>2, <2>3, <2>4, <2>5 DEF Safety, Inv
<1> QED BY Invariance, <1>1, PTL

\* Once the interrupt is recorded the input of the job stays as it is, and no answer
\* is staged or posted any more, whatever executor, notifier and restart are at.
THEOREM CancelFreezesHolds == Spec => CancelFreezes
<1> DEFINE Frozen == cancel => /\ revision' = revision /\ told' = told
                               /\ \A r \in Replies : ij'[r] = "answered" => ij[r] = "answered"
<1>1. Inv /\ [Next]_vars => [Frozen]_vars
  <2> SUFFICES ASSUME Inv, [Next]_vars, cancel
               PROVE  /\ revision' = revision /\ told' = told
                      /\ \A r \in Replies : ij'[r] = "answered" => ij[r] = "answered"
      BY DEF Frozen
  <2>1. revision' = revision
    BY InputStep DEF Promoting, PromoteRow
  <2>2. told' = told
    <3>1. told' \subseteq Replies
      BY TypeStep DEF TypeOK, NotifierTyped
    <3>2. \A r \in Replies : ij[r] # "answered"
      BY DEF Inv, Accounted
    <3> QED BY <3>1, <3>2, ThreadStep
  <2>3. ASSUME NEW r \in Replies, ij'[r] = "answered" PROVE ij[r] = "answered"
    <3>1. RowMoves(r) /\ RowsTyped
      BY RowStep DEF Inv, TypeOK
    <3> QED BY <2>3, <3>1 DEF RowMoves, Admits, TakesUp, Answers, Shows, Promotes, FallsBack,
               Supersedes, RowsTyped
  <2> QED BY <2>1, <2>2, <2>3
<1>2. Spec => [][Frozen]_vars
  BY Invariance, <1>1, PTL DEF Spec
<1> QED BY <1>2 DEF CancelFreezes
=============================================================================
