--------------------------- MODULE ThreadHistory ---------------------------
(***************************************************************************)
(* What is kept of the settled jobs of one Slack thread.  A job's rows and *)
(* directories go when it is old and nothing of it has still to be         *)
(* delivered (pruneSettled); what stays is an archive of the conversation, *)
(* bounded in number and with a count of what it lost, from which the      *)
(* history shown to the next job is taken at its claim, and a tombstone of *)
(* each message, so that a redelivery is not taken for a new request.      *)
(*                                                                         *)
(* The transaction and the removal of files after it are separate steps:   *)
(* the runner may die between them, and the gateway goes on queueing.      *)
(* Texts and their size limits are left out: each job is one entry.        *)
(***************************************************************************)
EXTENDS Integers, FiniteSets, Sequences, SequencesExt

CONSTANTS
  N,           \* jobs of the thread, in their order
  Replied,     \* the jobs that are given a reply
  MaxHistory,  \* MAX_THREAD_HISTORY_JOBS
  Retention,   \* ZEROKUN_RETENTION_DAYS
  Tombstones,  \* ZEROKUN_IDEMPOTENCY_RETENTION_DAYS
  MaxTime,     \* bound of the clock
  MaxFaults    \* bound: deaths of the runner, and jobs put back

Jobs == 1..N
Keys == Jobs \X {"job", "reply"}
Never == -1
Upper(a, b) == IF a >= b THEN a ELSE b

VARIABLES
  now,
  job,        \* "absent", "queued", "running", "completed", "failed" or "pruned"
  at,         \* of a key: when its message was settled, Never before
  owed,       \* jobs of which something has still to be delivered
  archive,    \* slack_thread_job_history: the jobs with a row
  omitted,    \* slack_thread_history_scopes.omitted_job_count
  through,    \* ... .pruned_through_job_seq
  counted,    \* history: the jobs whose rows were dropped
  snapshot,   \* job_thread_history_snapshots of the running attempt of each job
  tomb,       \* delivery_tombstones: completed_at of a key, Never without a row
  dirs,       \* the job directories in the state directory
  touched,    \* their mtime
  sweep,      \* the removal of files after a transaction: what it was told
  faults

thread == <<archive, omitted, through, counted>>
disk == <<dirs, touched>>
vars == <<now, job, at, owed, thread, snapshot, tomb, disk, sweep, faults>>

NoSweep == [on |-> FALSE, gone |-> {}, live |-> {}, cutoff |-> 0]
NoHistory == [sources |-> {}, omitted |-> 0]
Settled == {j \in Jobs : job[j] \in {"completed", "failed"}}

TypeOK ==
  /\ now \in 0..MaxTime /\ owed \subseteq Jobs /\ archive \subseteq Jobs
  /\ job \in [Jobs -> {"absent", "queued", "running", "completed", "failed", "pruned"}]
  /\ at \in [Keys -> Never..MaxTime] /\ tomb \in [Keys -> Never..MaxTime]
  /\ omitted \in 0..N /\ through \in 0..N /\ counted \subseteq Jobs
  /\ snapshot \in [Jobs -> [sources : SUBSET Jobs, omitted : 0..N]]
  /\ dirs \subseteq Jobs /\ touched \in [Jobs -> 0..MaxTime] /\ faults \in 0..MaxFaults

Init ==
  /\ now = 0 /\ job = [j \in Jobs |-> "absent"] /\ at = [k \in Keys |-> Never] /\ owed = {}
  /\ archive = {} /\ omitted = 0 /\ through = 0 /\ counted = {}
  /\ snapshot = [j \in Jobs |-> NoHistory]
  /\ tomb = [k \in Keys |-> Never] /\ dirs = {} /\ touched = [j \in Jobs |-> 0]
  /\ sweep = NoSweep /\ faults = 0

-----------------------------------------------------------------------------
(* The archive of the thread *)

Scope == [archive |-> archive, omitted |-> omitted, through |-> through, counted |-> counted]

\* The newest rows stay; the others are counted, and the scope says how far.
Newest(S) == {j \in S : Cardinality({k \in S : k > j}) < MaxHistory}
Compact(h) ==
  LET over == h.archive \ Newest(h.archive) IN
  IF over = {} THEN h
  ELSE [archive |-> h.archive \ over, omitted |-> h.omitted + Cardinality(over),
        through |-> Upper(h.through, Max(over)), counted |-> h.counted \cup over]

InOrder(S) == SelectSeq([i \in Jobs |-> i], LAMBDA i : i \in S)

\* Mutant: a job that compaction has passed gets a row again.
MaterializeAgain(h, j) ==
  IF j \in h.archive THEN h ELSE Compact([h EXCEPT !.archive = @ \cup {j}])

\* A settled job gets its row once, and none behind what was compacted.
Materialize(h, j) ==
  IF j \in h.archive \/ j <= h.through THEN h ELSE Compact([h EXCEPT !.archive = @ \cup {j}])
MaterializeAll(h, order) ==
  LET after[i \in 0..Len(order)] == IF i = 0 THEN h ELSE Materialize(after[i - 1], order[i]) IN
  after[Len(order)]

Keep(h) ==
  /\ archive' = h.archive /\ omitted' = h.omitted /\ through' = h.through
  /\ counted' = h.counted

-----------------------------------------------------------------------------
(* Jobs *)

Enqueue(j) ==
  /\ job[j] = "absent" /\ \A i \in 1..(j - 1) : job[i] # "absent"
  /\ job' = [job EXCEPT ![j] = "queued"]
  /\ UNCHANGED <<now, at, owed, thread, snapshot, tomb, disk, sweep, faults>>

\* The claim archives what earlier jobs are settled, in their order, and takes the
\* history of the attempt from the newest rows.
Claim(j) ==
  /\ job[j] = "queued" /\ \A i \in 1..(j - 1) : job[i] \notin {"absent", "queued", "running"}
  /\ \E h \in {MaterializeAll(Scope, InOrder({i \in Settled : i < j}))} :
       LET rows == {i \in h.archive : i < j} IN
       /\ Keep(h)
       /\ snapshot' = [snapshot EXCEPT ![j] =
            [sources |-> Newest(rows),
             omitted |-> h.omitted + Cardinality(rows) - Cardinality(Newest(rows))]]
  /\ job' = [job EXCEPT ![j] = "running"]
  /\ dirs' = dirs \cup {j} /\ touched' = [touched EXCEPT ![j] = now]
  /\ UNCHANGED <<now, at, owed, tomb, sweep, faults>>

\* A reply is taken in by the running job.
Reply(j) ==
  /\ job[j] = "running" /\ at[<<j, "reply">>] = Never
  /\ j \in Replied /\ at' = [at EXCEPT ![<<j, "reply">>] = now]
  /\ UNCHANGED <<now, job, owed, thread, snapshot, tomb, disk, sweep, faults>>

\* A job ends, or is cancelled before it is claimed, whatever became of earlier ones; its
\* result is owed.
End(j) ==
  /\ \/ job[j] = "running" /\ \E end \in {"completed", "failed"} : job' = [job EXCEPT ![j] = end]
     \/ job[j] = "queued" /\ job' = [job EXCEPT ![j] = "failed"]
  /\ at' = [at EXCEPT ![<<j, "job">>] = now] /\ owed' = owed \cup {j}
  /\ snapshot' = [snapshot EXCEPT ![j] = NoHistory]
  /\ UNCHANGED <<now, thread, tomb, disk, sweep, faults>>

Deliver(j) ==
  /\ j \in owed /\ owed' = owed \ {j}
  /\ UNCHANGED <<now, job, at, thread, snapshot, tomb, disk, sweep, faults>>

\* An attempt is put back; the next one is shown the history anew.
Requeue(j) ==
  /\ faults < MaxFaults /\ faults' = faults + 1 /\ job[j] = "running"
  /\ job' = [job EXCEPT ![j] = "queued"] /\ snapshot' = [snapshot EXCEPT ![j] = NoHistory]
  /\ UNCHANGED <<now, at, owed, thread, tomb, disk, sweep>>

Tick ==
  /\ now < MaxTime /\ now' = now + 1
  /\ UNCHANGED <<job, at, owed, thread, snapshot, tomb, disk, sweep, faults>>

-----------------------------------------------------------------------------
(* Maintenance *)

Old(j) == j \in Settled /\ at[<<j, "job">>] < now - Retention /\ j \notin owed

\* Completed jobs come first, each kind in its order, as the index has them.
Ordered(S) ==
  InOrder({j \in S : job[j] = "completed"}) \o InOrder({j \in S : job[j] = "failed"})

\* The later of a tombstone that is there and the one a pruned row leaves.
Buried(gone, k) == IF k[1] \in gone /\ at[k] # Never THEN Upper(tomb[k], at[k]) ELSE tomb[k]
Expired(t) == t < now - Upper(Retention, Tombstones)

\* One transaction: archive, bury and delete the old jobs, forget old tombstones,
\* and note what is still referred to.
Prune ==
  LET gone == {j \in Jobs : Old(j)} IN
  /\ ~sweep.on
  /\ gone # {} \/ dirs \ {j \in Jobs : job[j] \notin {"absent", "pruned"}} # {}
       \/ \E k \in Keys : tomb[k] # Never /\ Expired(tomb[k])
  /\ \E h \in {MaterializeAll(Scope, Ordered(gone))} : Keep(h)
  /\ job' = [j \in Jobs |-> IF j \in gone THEN "pruned" ELSE job[j]]
  /\ tomb' = [k \in Keys |-> IF Expired(Buried(gone, k)) THEN Never ELSE Buried(gone, k)]
  /\ sweep' = [on |-> TRUE, gone |-> gone, cutoff |-> now - Retention,
               live |-> {j \in Jobs : job'[j] \notin {"absent", "pruned"}}]
  /\ UNCHANGED <<now, at, owed, snapshot, disk, faults>>

\* The directories of the jobs just pruned, and then those of no live job that are
\* old: what an earlier run that died left behind.
Orphan(j) == j \notin sweep.live /\ touched[j] < sweep.cutoff
RemoveFiles ==
  /\ sweep.on /\ sweep' = NoSweep
  /\ dirs' = {j \in dirs : j \notin sweep.gone /\ ~Orphan(j)}
  /\ touched' = [j \in Jobs |-> IF j \in dirs' THEN touched[j] ELSE 0]
  /\ UNCHANGED <<now, job, at, owed, thread, snapshot, tomb, faults>>

Die ==
  /\ faults < MaxFaults /\ faults' = faults + 1 /\ sweep.on /\ sweep' = NoSweep
  /\ UNCHANGED <<now, job, at, owed, thread, snapshot, tomb, disk>>

Maintain == Prune \/ RemoveFiles

Next ==
  \/ \E j \in Jobs : Enqueue(j) \/ Claim(j) \/ Reply(j) \/ End(j) \/ Deliver(j) \/ Requeue(j)
  \/ Tick \/ Maintain \/ Die

Spec == Init /\ [][Next]_vars /\ WF_vars(Maintain)

-----------------------------------------------------------------------------
(* Properties *)

\* Compaction went past a job that had no row yet.
Passed == (1..through) \ counted
Ended == {j \in Jobs : job[j] \notin {"absent", "queued", "running"}}

\* What was dropped is counted once, and has no row again, in whatever order jobs end, are
\* delivered and are pruned.
CountIsExact == omitted = Cardinality(counted) /\ archive \cap 1..through = {}

\* Every earlier job is an entry of the history a job is shown, or was counted, or was
\* passed; and where none was passed the entries and the number add up.
HistoryAddsUp ==
  \A j \in Jobs : job[j] = "running" =>
    /\ snapshot[j].sources \subseteq 1..(j - 1)
    /\ 1..(j - 1) \subseteq snapshot[j].sources \cup counted \cup Passed
    /\ Passed \cap 1..j = {}
         => Cardinality(snapshot[j].sources) + snapshot[j].omitted = j - 1

\* A job is passed only by more later jobs than the history keeps, all of which had ended.
PassedByMany == \A j \in Passed : Cardinality({k \in Ended : k > j}) > MaxHistory

\* What is shown is the newest: an entry is left out only for later ones.
HistoryIsNewest ==
  \A j \in Jobs : job[j] = "running" =>
    \A i \in 1..(j - 1) : i \notin snapshot[j].sources =>
      i \in Passed \/ Cardinality({k \in Ended : k > i}) >= MaxHistory

\* A message that led to work is known, as a row or as a tombstone, until the time
\* for redeliveries is over.
Durable(k) == tomb[k] # Never \/ job[k[1]] \notin {"absent", "pruned"}
MessagesStayKnown ==
  \A k \in Keys : at[k] # Never /\ ~Expired(at[k]) => Durable(k)

\* No directory of a job that is in the table is removed, though the gateway queues
\* jobs and the runner claims them after the transaction has listed what is live.
LiveDirsStay ==
  \A j \in Jobs : job[j] = "running" => j \in dirs

Safety ==
  /\ TypeOK /\ CountIsExact /\ HistoryAddsUp /\ PassedByMany /\ HistoryIsNewest
  /\ MessagesStayKnown /\ LiveDirsStay

\* What the agent is told (thread-history.ts:365), "older job block(s) omitted", is a
\* number of older jobs.  A job put back behind later ones that were cancelled, archived
\* and dropped is told their number too.
OmittedAreOlder ==
  \A j \in Jobs : job[j] = "running" =>
    Cardinality(snapshot[j].sources) + snapshot[j].omitted <= j - 1

\* Of a pruned job no directory stays.
Quiet == \A j \in Jobs : job[j] = "pruned" => j \notin dirs
Settles == <>[]Quiet
=============================================================================
