----------------------------- MODULE JobPromise -----------------------------
(***************************************************************************)
(* What the queue of zerokun/job-runner.ts promises about a request,       *)
(* whatever tables, receipts and restarts it takes: who has custody of the *)
(* request, and when custody may change hands.                             *)
(*                                                                         *)
(* "codex" is custody of the App Server: the prompt may have been received *)
(* and may have had effects.  Custody comes back from there in three ways  *)
(* only: the App Server itself said that the turn did not happen or was    *)
(* stopped by a limit, the request is one that may be repeated, or the     *)
(* request is over.                                                        *)
(***************************************************************************)
EXTENDS Naturals

CONSTANTS
  Requests,
  Repeatable,  \* requests without write permission
  ThreadOf     \* the conversation of each request

VARIABLES
  custody,     \* "none", "queue", "worker", "codex" or "over"
  rank,        \* order of acceptance, 0 before it
  stopped,     \* requests whose author asked to stop them
  verdict      \* how the request ended

promise == <<custody, rank, stopped, verdict>>

TypeOK ==
  /\ custody \in [Requests -> {"none", "queue", "worker", "codex", "over"}]
  /\ rank \in [Requests -> Nat]
  /\ stopped \subseteq Requests
  /\ verdict \in [Requests -> {"none", "completed", "failed", "cancelled"}]

Init ==
  /\ custody = [r \in Requests |-> "none"]
  /\ rank = [r \in Requests |-> 0]
  /\ stopped = {}
  /\ verdict = [r \in Requests |-> "none"]

Move(r, from, to) ==
  /\ custody[r] = from
  /\ custody' = [custody EXCEPT ![r] = to]

Accept(r) ==
  /\ Move(r, "none", "queue")
  /\ rank' = [rank EXCEPT ![r] = rank'[r]]
  /\ \A q \in Requests : rank[q] < rank'[r]
  /\ UNCHANGED <<stopped, verdict>>

Stop(r) ==
  /\ custody[r] \in {"queue", "worker", "codex"}
  /\ stopped' = stopped \cup {r}
  /\ UNCHANGED <<custody, rank, verdict>>

\* One request at a time, and a conversation in the order it was accepted.
Take(r) ==
  /\ Move(r, "queue", "worker")
  /\ \A q \in Requests : custody[q] \notin {"worker", "codex"}
  /\ \A q \in Requests :
       ThreadOf[q] = ThreadOf[r] /\ 0 < rank[q] /\ rank[q] < rank[r]
         => custody[q] = "over"
  /\ UNCHANGED <<rank, stopped, verdict>>

Return(r)  == Move(r, "worker", "queue") /\ UNCHANGED <<rank, stopped, verdict>>
Hand(r)    == Move(r, "worker", "codex") /\ UNCHANGED <<rank, stopped, verdict>>
Refuse(r)  == Move(r, "codex", "worker") /\ UNCHANGED <<rank, stopped, verdict>>

Reclaim(r) ==
  /\ r \in Repeatable
  /\ Move(r, "codex", "queue")
  /\ UNCHANGED <<rank, stopped, verdict>>

Settle(r) ==
  /\ Move(r, "worker", "over") \/ Move(r, "codex", "over")
  /\ \E v \in {"completed", "failed", "cancelled"} :
       /\ v = "completed" => custody[r] = "codex" /\ r \notin stopped
       /\ v = "cancelled" => r \in stopped
       /\ verdict' = [verdict EXCEPT ![r] = v]
  /\ UNCHANGED <<rank, stopped>>

Next ==
  \E r \in Requests :
    \/ Accept(r) \/ Stop(r) \/ Take(r) \/ Return(r) \/ Hand(r) \/ Refuse(r)
    \/ Reclaim(r) \/ Settle(r)

Safety == Init /\ [][Next]_promise

\* Custody of an accepted request ends.
EveryRequestEnds ==
  \A r \in Requests : custody[r] = "queue" ~> custody[r] = "over"

Spec == Safety /\ EveryRequestEnds
=============================================================================
