---------------------------- MODULE SlackProofs -----------------------------
(***************************************************************************)
(* The safety of what passes between Slack and the jobs: of the images of  *)
(* a job (ArtifactDelivery), of the ways in of messages (Ingress), and of  *)
(* the socket (SlackSocket).                                               *)
(*                                                                         *)
(* Images.  What can show an image is either on its way or shown (Marks).  *)
(* The rows are about one batch, the Current one.  Whatever can show one   *)
(* of its images is behind the checkpoint "completing" of its row          *)
(* (Checkpointed), and the lane sends an image only from "uploaded": so no *)
(* second mark of a file appears (OneEach), however late the first one     *)
(* lands.  A row is delivered only when its image is in the thread         *)
(* (Delivered), a question is sent only when both rows are (Lane), and it  *)
(* is recorded where it stands (Recording); Course says which requests can *)
(* be open at all.                                                         *)
(*                                                                         *)
(* Messages.  A reply that got as far as a claim has a snapshot, and a     *)
(* snapshot leaves no earlier mention unknown (Gated); an inbound delivery *)
(* of a thread nobody owns has the thread's bootstrap ahead of it, or that *)
(* bootstrap has failed (Adopted).  The page in hand of a poll has all     *)
(* that is between the cursor and its end (Polled), the page of a cycle is *)
(* the one its position would pass next, and what a cycle has behind it    *)
(* includes what the next cycle starts from (Swept, LeftBehind).           *)
(*                                                                         *)
(* Socket.  What the client is doing agrees with the call in hand and with *)
(* the step of the supervisor (Attached), and an attempt without a wait    *)
(* has been paid for by a connection that held (Paid).                     *)
(***************************************************************************)
EXTENDS MCSlack, FiniteSetTheorems, WellFoundedInduction, TLAPS

-----------------------------------------------------------------------------
(* The values of the variables.  The sets of records have names: a step that only
   hands a record on need not look into it. *)

\* What the thread can show.
Entries == [what : {"image", "prompt"} \cup Msgs, batch : Nat, file : Nat, no : Nat]

\* The words and the records of the other variables.
States == {"running", "queued", "parked", "completed", "failed"}
Statuses == {"none", "publishing", "awaiting", "responded", "superseded", "cancelled"}
Stages == {"none", "transferring", "uploaded", "completing"}
Ends == {"no", "delivered", "abandoned"}
LaneSteps == {"idle", "look", "inspect", "target", "bytes", "share", "sharing",
              "prompt", "asking", "present", "body", "finish"}
Jobs == [state : States, rev : Nat, proposed : Nat, cancel : BOOLEAN, goal : {"done", "waiting"}]
Requests == [status : Statuses, prompt : Nat, resp : Nat, after : BOOLEAN, rev : Nat]
Rows == [stage : Stages, attempt : Nat, done : Ends, checks : Nat]
Lanes == [step : LaneSteps, batch : Nat, file : Nat, attempt : Nat]

\* The values of the variables; TypeOK also bounds the counters.
Types ==
  /\ job \in Jobs
  /\ reqs \in [Rounds -> Requests]
  /\ round \in 0 .. MaxRounds
  /\ rows \in [Files -> Rows]
  /\ term \in {"none", "pending", "delivered"}
  /\ told \in [body : BOOLEAN, notice : BOOLEAN]
  /\ s \in Lanes
  /\ inflight \in SUBSET Entries
  /\ thread \in Seq(Entries)
  /\ staged \in SUBSET Msgs
  /\ faults \in 0 .. MaxFaults

-----------------------------------------------------------------------------
(* The inductive invariant. *)

\* The batch the rows are about.
Current == IF job.state = "completed" THEN ResultBatch ELSE round

\* A notification is owed when the job has ended; a job is parked for its latest request,
\* the only one that can be open; an answer to a question was written after it.
Course ==
  /\ term # "none" <=> Ended
  /\ job.state = "parked" =>
       round # 0 /\ ~job.cancel /\ reqs[round].status \in {"publishing", "awaiting"}
  /\ \A r \in Rounds :
       /\ r > round => reqs[r].prompt = 0 /\ ~reqs[r].after
       /\ r < round => reqs[r].status \in {"superseded", "cancelled"}
       /\ r = round => reqs[r].status # "none"
       /\ reqs[r].status \in {"publishing", "awaiting"} => r = round /\ job.state = "parked"
       /\ reqs[r].after => reqs[r].prompt # 0 /\ reqs[r].prompt < reqs[r].resp
                           /\ reqs[r].status \notin {"publishing", "awaiting"}
       /\ reqs[r].status = "awaiting" => reqs[r].prompt # 0

\* A recorded place is that of the question, a recorded answer is in the thread.
Recording ==
  \A r \in Rounds :
    /\ reqs[r].prompt # 0 => reqs[r].prompt \in PromptsFor(r)
    /\ reqs[r].resp # 0 => reqs[r].resp \in Places

\* The steps on one file.
OneFile == {"inspect", "target", "bytes", "share", "sharing"}

\* What the lane is at: a batch that exists, the current one when it works on a file, the
\* second file of a proposal after the first, its question after both.  A proposal whose
\* request was closed meanwhile has no file left to deliver.
Lane ==
  /\ s.step # "idle" => s.batch \in Batches /\ s.file \in Files
  /\ s.step # "idle" /\ s.batch # ResultBatch => s.batch <= round
  /\ s.step # "idle" /\ s.batch = ResultBatch => Ended
  /\ s.step \in OneFile \cup {"look"} /\ s.batch = ResultBatch => job.state = "completed"
  /\ s.step \in {"prompt", "asking", "present"} => s.batch # ResultBatch
  /\ s.step \in {"body", "finish"} => s.batch = ResultBatch
  /\ s.step = "present" => reqs[s.batch].prompt # 0
  /\ s.step \in OneFile => s.batch = Current
  /\ s.step \in OneFile /\ s.batch # ResultBatch =>
       /\ reqs[s.batch].prompt = 0
       /\ \/ job.state = "parked"
          \/ (job.cancel \/ job.state = "failed") /\ \A f \in Files : rows[f].done # "no"
  /\ s.step \in OneFile \cup {"look"} /\ s.batch = Current /\ s.batch # ResultBatch
       /\ s.file = 2 =>
       rows[1].done = "delivered"
  /\ s.step \in {"prompt", "asking"} /\ s.batch = Current =>
       \A f \in Files : rows[f].done = "delivered"

\* A question is recorded only when the images of its proposal were delivered.
PromptIsLast ==
  \A r \in Rounds : r = Current /\ reqs[r].prompt # 0 =>
    \A f \in Files : rows[f].done = "delivered"

\* What is on its way or shown.
Marks == inflight \cup {thread[i] : i \in Places}

\* What the lane waits for is on its way or shown.
Sending ==
  /\ s.step = "sharing" => Image(s.batch, s.file, s.attempt) \in Marks
  /\ s.step = "asking" => Prompt(s.batch) \in Marks

\* What shows an image does so for a batch that is not still to come, and for the current
\* one only behind the checkpoint of its entry.
Behind(u) ==
  u.what = "image" =>
    /\ u.file \in Files /\ u.batch \in Batches /\ u.batch <= Current
    /\ u.batch = Current => rows[u.file].stage = "completing"

\* Every mark is behind its checkpoint.
Checkpointed == \A u \in Marks : Behind(u)

\* Two marks of the same image.
Same(u, y) == u.what = "image" /\ y.what = "image" /\ u.batch = y.batch /\ u.file = y.file

\* A file has one mark.
OneEach ==
  /\ \A u, y \in inflight : Same(u, y) => u = y
  /\ \A u \in inflight, i \in Places : ~Same(u, thread[i])
  /\ \A i, j \in Places : Same(thread[i], thread[j]) => i = j

\* A delivered file is in the thread.
Delivered == \A f \in Files : rows[f].done = "delivered" => ShownFor(Current, f) # {}

\* A question is sent, and appears, after the images of its proposal.
QuestionsFollow ==
  /\ \A u \in inflight : u.what = "prompt" =>
       u = Prompt(u.batch) /\ \A f \in Files : ShownFor(u.batch, f) # {}
  /\ \A b \in Batches, i \in Places, f \in Files : thread[i] = Prompt(b) =>
       \E j \in ShownFor(b, f) : j < i

\* Each attempt after the first was paid for with a fault, and a file is given up at the last
\* check.
Attempts ==
  /\ \A f \in Files :
       /\ rows[f].attempt <= faults + 1
       /\ rows[f].stage \in {"none", "transferring"} /\ rows[f].done = "no"
            /\ ~(s.step = "bytes" /\ s.file = f)
            => rows[f].attempt <= faults
       /\ rows[f].checks <= MaxChecks
       /\ rows[f].done = "no" => rows[f].checks < MaxChecks
  /\ s.step = "bytes" => rows[s.file].stage = "transferring" /\ rows[s.file].attempt = s.attempt

\* Each revision of the input after the first is a reply that was read.
Revisions ==
  /\ staged \subseteq HasSaid
  /\ job.rev >= 1 /\ job.rev <= 1 + Cardinality(staged \cap Steers)
  /\ job.proposed <= job.rev
  /\ job.proposed # 0 => round < MaxRounds

-----------------------------------------------------------------------------
(* Forms of the updates: the fields of a record after a step. *)

\* The job after a step.
JobIs(st, rev, pro, can) ==
  /\ job' \in Jobs
  /\ job'.state = st /\ job'.rev = rev /\ job'.proposed = pro /\ (job'.cancel <=> can)

\* The lane after a step.
LaneIs(step, b, f, a) ==
  s' \in Lanes /\ s'.step = step /\ s'.batch = b /\ s'.file = f /\ s'.attempt = a

\* The rows after a step that touches that of file f.
RowIs(f, st, a, d, c) ==
  /\ rows' \in [Files -> Rows]
  /\ rows'[f].stage = st /\ rows'[f].attempt = a /\ rows'[f].done = d /\ rows'[f].checks = c
  /\ \A g \in Files : g # f => rows'[g] = rows[g]

\* The requests after a step that touches that of round r.
RequestIs(r, st, p, q, a) ==
  /\ reqs' \in [Rounds -> Requests]
  /\ reqs'[r].status = st /\ reqs'[r].prompt = p /\ reqs'[r].resp = q /\ (reqs'[r].after <=> a)
  /\ \A o \in Rounds : o # r => reqs'[o] = reqs[o]

\* The states of a job are among the words.
LEMMA Names ==
  /\ "running" \in States /\ "queued" \in States /\ "parked" \in States
  /\ "completed" \in States /\ "failed" \in States
BY DEF States

\* The updates of the job.
LEMMA JobForms ==
  ASSUME Types, NEW st \in States
  PROVE  /\ job' = [job EXCEPT !.state = st] => JobIs(st, job.rev, job.proposed, job.cancel)
         /\ \A n \in Nat : job' = [job EXCEPT !.state = st, !.proposed = n] =>
              JobIs(st, job.rev, n, job.cancel)
         /\ \A n \in Nat : job' = [job EXCEPT !.proposed = n] =>
              JobIs(job.state, job.rev, n, job.cancel)
         /\ \A n \in Nat : job' = [job EXCEPT !.rev = n] =>
              JobIs(job.state, n, job.proposed, job.cancel)
         /\ \A n \in Nat : job' = [job EXCEPT !.rev = n, !.state = st] =>
              JobIs(st, n, job.proposed, job.cancel)
         /\ job' = [job EXCEPT !.cancel = TRUE, !.state = st] =>
              JobIs(st, job.rev, job.proposed, TRUE)
<1> USE DEF Types, Jobs, JobIs
<1>1. job' = [job EXCEPT !.state = st] => JobIs(st, job.rev, job.proposed, job.cancel)
  BY Zenon
<1>2. ASSUME NEW n \in Nat
      PROVE  job' = [job EXCEPT !.state = st, !.proposed = n] => JobIs(st, job.rev, n, job.cancel)
  BY Zenon
<1>3. ASSUME NEW n \in Nat
      PROVE  job' = [job EXCEPT !.rev = n, !.state = st] => JobIs(st, n, job.proposed, job.cancel)
  BY Zenon
<1>4. job' = [job EXCEPT !.cancel = TRUE, !.state = st] => JobIs(st, job.rev, job.proposed, TRUE)
  BY Zenon
<1>5. ASSUME NEW n \in Nat
      PROVE  job' = [job EXCEPT !.proposed = n] => JobIs(job.state, job.rev, n, job.cancel)
  BY Zenon
<1>6. ASSUME NEW n \in Nat
      PROVE  job' = [job EXCEPT !.rev = n] => JobIs(job.state, n, job.proposed, job.cancel)
  BY Zenon
<1> QED BY <1>1, <1>2, <1>3, <1>4, <1>5, <1>6

\* The updates of a request.
LEMMA RequestForms ==
  ASSUME Types, NEW r \in Rounds, NEW st \in Statuses, NEW p \in Nat, NEW a \in BOOLEAN
  PROVE  /\ reqs' = [reqs EXCEPT ![r].status = st] =>
              RequestIs(r, st, reqs[r].prompt, reqs[r].resp, reqs[r].after)
         /\ reqs' = [reqs EXCEPT ![r].prompt = p] =>
              RequestIs(r, reqs[r].status, p, reqs[r].resp, reqs[r].after)
         /\ reqs' = [reqs EXCEPT ![r].status = st, ![r].resp = p, ![r].after = a] =>
              RequestIs(r, st, reqs[r].prompt, p, a)
<1> USE DEF Types, Requests, RequestIs
<1>1. ASSUME reqs' = [reqs EXCEPT ![r].status = st]
      PROVE  RequestIs(r, st, reqs[r].prompt, reqs[r].resp, reqs[r].after)
  <2>1. reqs' = [reqs EXCEPT ![r] = [reqs[r] EXCEPT !.status = st]]
    BY <1>1, Zenon
  <2>2. [reqs[r] EXCEPT !.status = st] \in Requests
    BY Zenon
  <2> QED BY <2>1, <2>2, Zenon
<1>2. ASSUME reqs' = [reqs EXCEPT ![r].prompt = p]
      PROVE  RequestIs(r, reqs[r].status, p, reqs[r].resp, reqs[r].after)
  <2>1. reqs' = [reqs EXCEPT ![r] = [reqs[r] EXCEPT !.prompt = p]]
    BY <1>2, Zenon
  <2>2. [reqs[r] EXCEPT !.prompt = p] \in Requests
    BY Zenon
  <2> QED BY <2>1, <2>2, Zenon
<1>3. ASSUME reqs' = [reqs EXCEPT ![r].status = st, ![r].resp = p, ![r].after = a]
      PROVE  RequestIs(r, st, reqs[r].prompt, p, a)
  <2>1. reqs' = [reqs EXCEPT ![r] = [reqs[r] EXCEPT !.status = st, !.resp = p, !.after = a]]
    BY <1>3, Zenon
  <2>2. [reqs[r] EXCEPT !.status = st, !.resp = p, !.after = a] \in Requests
    BY Zenon
  <2> QED BY <2>1, <2>2, Zenon
<1> QED BY <1>1, <1>2, <1>3

\* The updates of a entry.
LEMMA RowForms ==
  ASSUME Types, NEW f \in Files, NEW st \in Stages, NEW d \in Ends, NEW n \in Nat
  PROVE  /\ rows' = [rows EXCEPT ![f].stage = st] =>
              RowIs(f, st, rows[f].attempt, rows[f].done, rows[f].checks)
         /\ rows' = [rows EXCEPT ![f].done = d] =>
              RowIs(f, rows[f].stage, rows[f].attempt, d, rows[f].checks)
         /\ rows' = [rows EXCEPT ![f].stage = st, ![f].attempt = n] =>
              RowIs(f, st, n, rows[f].done, rows[f].checks)
<1> USE DEF Types, Rows, RowIs
<1>1. ASSUME rows' = [rows EXCEPT ![f].stage = st]
      PROVE  RowIs(f, st, rows[f].attempt, rows[f].done, rows[f].checks)
  <2>1. rows' = [rows EXCEPT ![f] = [rows[f] EXCEPT !.stage = st]]
    BY <1>1, Zenon
  <2>2. [rows[f] EXCEPT !.stage = st] \in Rows
    BY Zenon
  <2> QED BY <2>1, <2>2, Zenon
<1>2. ASSUME rows' = [rows EXCEPT ![f].done = d]
      PROVE  RowIs(f, rows[f].stage, rows[f].attempt, d, rows[f].checks)
  <2>1. rows' = [rows EXCEPT ![f] = [rows[f] EXCEPT !.done = d]]
    BY <1>2, Zenon
  <2>2. [rows[f] EXCEPT !.done = d] \in Rows
    BY Zenon
  <2> QED BY <2>1, <2>2, Zenon
<1>3. ASSUME rows' = [rows EXCEPT ![f].stage = st, ![f].attempt = n]
      PROVE  RowIs(f, st, n, rows[f].done, rows[f].checks)
  <2>1. rows' = [rows EXCEPT ![f] = [rows[f] EXCEPT !.stage = st, !.attempt = n]]
    BY <1>3, Zenon
  <2>2. [rows[f] EXCEPT !.stage = st, !.attempt = n] \in Rows
    BY Zenon
  <2> QED BY <2>1, <2>2, Zenon
<1> QED BY <1>1, <1>2, <1>3

\* The files of a batch, and how many they are.
LEMMA TwoFiles == Files = {1, 2} /\ Cardinality(Files) = 2
<1>1. Files = {1, 2}
  BY DEF Files
<1>2. Cardinality({1, 2}) = 2
  <2>1. Cardinality({1}) = 1 /\ IsFiniteSet({1})
    BY FS_Singleton
  <2>2. {1, 2} = {1} \cup {2}
    OBVIOUS
  <2> QED BY <2>1, <2>2, FS_AddElement
<1> QED BY <1>1, <1>2

\* The other words the actions use are in their sets.
LEMMA Words ==
  /\ "idle" \in LaneSteps /\ "look" \in LaneSteps /\ "inspect" \in LaneSteps
  /\ "target" \in LaneSteps /\ "bytes" \in LaneSteps /\ "share" \in LaneSteps
  /\ "sharing" \in LaneSteps /\ "prompt" \in LaneSteps /\ "asking" \in LaneSteps
  /\ "present" \in LaneSteps /\ "body" \in LaneSteps /\ "finish" \in LaneSteps
  /\ "none" \in Stages /\ "transferring" \in Stages /\ "uploaded" \in Stages
  /\ "completing" \in Stages
  /\ "no" \in Ends /\ "delivered" \in Ends /\ "abandoned" \in Ends
  /\ "none" \in Statuses /\ "publishing" \in Statuses /\ "awaiting" \in Statuses
  /\ "responded" \in Statuses /\ "superseded" \in Statuses /\ "cancelled" \in Statuses
BY DEF LaneSteps, Stages, Ends, Statuses

\* What NextFile does: the other file, or what follows both.
Onward ==
  \/ s.file < 2 /\ LaneIs("look", s.batch, s.file + 1, s.attempt)
  \/ s.file >= 2 /\ s.batch = ResultBatch /\ LaneIs("finish", s.batch, s.file, s.attempt)
  \/ s.file >= 2 /\ s.batch # ResultBatch /\ LaneIs("prompt", s.batch, s.file, s.attempt)

\* The updates of the lane.
LEMMA LaneForms ==
  ASSUME Types
  PROVE  /\ Defer => LaneIs("idle", 0, 0, 0)
         /\ \A step \in LaneSteps : Goto(step) => LaneIs(step, s.batch, s.file, s.attempt)
         /\ \A step \in LaneSteps, a \in Nat : s' = [s EXCEPT !.step = step, !.attempt = a] =>
              LaneIs(step, s.batch, s.file, a)
         /\ \A step \in LaneSteps, b, f \in Nat :
              s' = [Idle EXCEPT !.step = step, !.batch = b, !.file = f] => LaneIs(step, b, f, 0)
         /\ NextFile => Onward
<1> USE DEF Types, Lanes, LaneIs
<1>1. Idle \in Lanes
  BY Words DEF Idle
<1>2. Defer => LaneIs("idle", 0, 0, 0)
  BY <1>1 DEF Defer, Idle
<1>3. ASSUME NEW step \in LaneSteps, Goto(step) PROVE LaneIs(step, s.batch, s.file, s.attempt)
  BY <1>3, Zenon DEF Goto
<1>4. ASSUME NEW step \in LaneSteps, NEW a \in Nat, s' = [s EXCEPT !.step = step, !.attempt = a]
      PROVE  LaneIs(step, s.batch, s.file, a)
  BY <1>4, Zenon
<1>5. ASSUME NEW step \in LaneSteps, NEW b \in Nat, NEW f \in Nat,
             s' = [Idle EXCEPT !.step = step, !.batch = b, !.file = f]
      PROVE  LaneIs(step, b, f, 0)
  <2>1. s' = [step |-> step, batch |-> b, file |-> f, attempt |-> 0]
    BY <1>5 DEF Idle
  <2> QED BY <2>1
<1>6. ASSUME NextFile PROVE Onward
  <2>1. CASE s.file < 2
    <3>1. s' = [s EXCEPT !.step = "look", !.file = s.file + 1]
      BY <2>1, <1>6, TwoFiles DEF NextFile
    <3>2. s.file + 1 \in Nat
      OBVIOUS
    <3>3. LaneIs("look", s.batch, s.file + 1, s.attempt)
      BY <3>1, <3>2, Words, Zenon
    <3> QED BY <2>1, <3>3 DEF Onward
  <2>2. CASE s.file >= 2 /\ s.batch = ResultBatch
    BY <2>2, <1>6, TwoFiles, Words DEF NextFile, Onward
  <2>3. CASE s.file >= 2 /\ s.batch # ResultBatch
    BY <2>3, <1>6, TwoFiles, Words DEF NextFile, Onward
  <2> QED BY <2>1, <2>2, <2>3
<1> QED BY <1>2, <1>3, <1>4, <1>5, <1>6

-----------------------------------------------------------------------------
(* What each action does to the variables, in these forms. *)

\* The thread shows u after what it showed.
Grown(u) ==
  /\ thread' \in Seq(Entries)
  /\ Places' = Places \cup {Len(thread) + 1}
  /\ \A i \in Places : thread'[i] = thread[i] /\ i < Len(thread) + 1
  /\ thread'[Len(thread) + 1] = u

\* The places are counted from one.
LEMMA PlacesAre == ASSUME Types PROVE Places = 1 .. Len(thread) /\ Len(thread) \in Nat
  BY DEF Places, Types

\* Show is a Grown.
LEMMA Growing == ASSUME Types, NEW u \in Entries, Show(u) PROVE Grown(u)
<1>1. thread' = Append(thread, u) /\ thread \in Seq(Entries)
  BY DEF Show, Types
<1>2. thread' \in Seq(Entries) /\ Len(thread') = Len(thread) + 1 /\ Len(thread) \in Nat
  BY <1>1
<1>3. Places = 1 .. Len(thread) /\ Places' = 1 .. Len(thread')
  BY <1>1, <1>2 DEF Places
<1>4. \A i \in 1 .. Len(thread) : thread'[i] = thread[i]
  BY <1>1
<1>5. thread'[Len(thread) + 1] = u
  BY <1>1
<1> QED BY <1>2, <1>3, <1>4, <1>5 DEF Grown

\* A set of numbers has a least one.
LEMMA LeastIs == ASSUME NEW S \in SUBSET Nat, S # {} PROVE \E u \in S : \A y \in S : u =< y
<1> DEFINE Less == {ss \in Nat \X Nat : ss[1] < ss[2]}
<1>1. IsWellFoundedOn(Less, Nat)
  BY NatLessThanWellFounded DEF OpToRel
<1>2. PICK u \in S : \A y \in S : ~(<<y, u>> \in Less)
  <2> HIDE DEF Less
  <2> QED BY <1>1, WFMin
<1>3. ASSUME NEW y \in S PROVE u =< y
  <2>1. <<y, u>> \in Nat \X Nat /\ <<y, u>>[1] = y /\ <<y, u>>[2] = u
    OBVIOUS
  <2>2. ~(<<y, u>>[1] < <<y, u>>[2])
    BY <1>2, <2>1
  <2> QED BY <2>1, <2>2
<1> QED BY <1>3

\* A set of places has an earliest one.
LEMMA EarliestIs == ASSUME NEW S \in SUBSET Nat, S # {} PROVE Earliest(S) \in S
  BY LeastIs DEF Earliest

\* What the job's own steps leave alone.
Deck == <<rows, term, told, s, inflight, thread, faults>>

\* What Propose does.
LEMMA ProposeMoves ==
  ASSUME Types, Propose
  PROVE  /\ job.state = "running" /\ round < MaxRounds
         /\ JobIs("running", job.rev, job.rev, job.cancel)
         /\ UNCHANGED <<reqs, round, staged>> /\ UNCHANGED Deck
<1>1. job.proposed + job.rev = job.rev /\ job.rev \in Nat /\ job.state = "running"
  BY DEF Propose, Types, Jobs
<1>2. job' = [job EXCEPT !.proposed = job.rev]
  BY <1>1 DEF Propose
<1> QED BY <1>1, <1>2, JobForms, Names DEF Propose, Deck

\* What Park does.
LEMMA ParkMoves ==
  ASSUME Types, Revisions, Park
  PROVE  /\ job.state = "running" /\ ~job.cancel /\ job.proposed # 0
         /\ JobIs("parked", job.rev, 0, job.cancel)
         /\ round' = round + 1 /\ round' \in Rounds
         /\ reqs' \in [Rounds -> Requests]
         /\ \A r \in Rounds : r # round' =>
              /\ reqs'[r].prompt = reqs[r].prompt /\ reqs'[r].resp = reqs[r].resp
              /\ reqs'[r].after <=> reqs[r].after
              /\ reqs[r].status = "responded" => reqs'[r].status = "superseded"
              /\ reqs[r].status # "responded" => reqs'[r].status = reqs[r].status
         /\ reqs'[round'].status = "publishing" /\ reqs'[round'].prompt = 0
         /\ reqs'[round'].resp = 0 /\ ~reqs'[round'].after
         /\ rows' \in [Files -> Rows] /\ \A f \in Files : rows'[f] = Fresh
         /\ UNCHANGED <<term, told, s, inflight, thread, staged, faults>>
<1>1. JobIs("parked", job.rev, 0, job.cancel)
  BY JobForms, Names DEF Park
<1>2. round' = round + 1 /\ round' \in Rounds
  BY ArtifactDeliveryAssumption DEF Park, Types, Rounds, Revisions
<1>3. Fresh \in Rows
  BY Words DEF Rows, Fresh
<1>4. rows' \in [Files -> Rows] /\ \A f \in Files : rows'[f] = Fresh
  BY <1>3, Zenon DEF Park
<1>5. job.rev \in Nat
  BY DEF Types, Jobs
<1>6. NoRequest \in Requests
  BY Words, Zenon DEF Requests, NoRequest
<1>7. ASSUME NEW q \in Requests
      PROVE  LET n == [q EXCEPT !.status = "publishing", !.rev = job.rev] IN
             /\ n \in Requests
             /\ n.status = "publishing" /\ n.prompt = q.prompt /\ n.resp = q.resp
                  /\ n.after = q.after
  BY <1>5, Words, Zenon DEF Requests
<1>8. ASSUME NEW r \in Rounds
      PROVE  [reqs[r] EXCEPT !.status = "superseded"] \in Requests /\ reqs[r] \in Requests
  BY Words, Zenon DEF Types, Requests
<1>9. reqs' \in [Rounds -> Requests]
  BY <1>2, <1>6, <1>7, <1>8, Zenon DEF Park
<1>10. /\ reqs'[round'].status = "publishing" /\ reqs'[round'].prompt = 0
       /\ reqs'[round'].resp = 0 /\ ~reqs'[round'].after
  <2>1. reqs'[round'] = [NoRequest EXCEPT !.status = "publishing", !.rev = job.rev]
    BY <1>2, Zenon DEF Park
  <2>2. NoRequest.prompt = 0 /\ NoRequest.resp = 0 /\ ~NoRequest.after
    BY Zenon DEF NoRequest
  <2> QED BY <2>1, <2>2, <1>6, <1>7, Zenon
<1>11. ASSUME NEW r \in Rounds, r # round'
       PROVE  /\ reqs'[r].prompt = reqs[r].prompt /\ reqs'[r].resp = reqs[r].resp
              /\ reqs'[r].after <=> reqs[r].after
              /\ reqs[r].status = "responded" => reqs'[r].status = "superseded"
              /\ reqs[r].status # "responded" => reqs'[r].status = reqs[r].status
  <2>1. reqs'[r] = IF reqs[r].status = "responded" THEN [reqs[r] EXCEPT !.status = "superseded"]
                   ELSE reqs[r]
    BY <1>11, <1>2, Zenon DEF Park
  <2> QED BY <2>1, <1>8, Zenon DEF Requests
<1> QED BY <1>1, <1>2, <1>4, <1>9, <1>10, <1>11 DEF Park

\* What ParkRaces does.
LEMMA ParkRacesMoves ==
  ASSUME Types, ParkRaces
  PROVE  /\ job.state = "running" /\ ~job.cancel
         /\ JobIs("queued", job.rev, 0, job.cancel)
         /\ UNCHANGED <<reqs, round, staged>> /\ UNCHANGED Deck
BY JobForms, Names DEF ParkRaces, Deck

\* What Claim does.
LEMMA ClaimMoves ==
  ASSUME Types, Claim
  PROVE  /\ job.state = "queued" /\ ~job.cancel
         /\ JobIs("running", job.rev, job.proposed, job.cancel)
         /\ UNCHANGED <<reqs, round, staged>> /\ UNCHANGED Deck
BY JobForms, Names DEF Claim, Deck

\* The requests with a status in R are closed.
RequestsEnd(R) == \A r \in Rounds :
  /\ reqs'[r].prompt = reqs[r].prompt /\ reqs'[r].resp = reqs[r].resp
  /\ reqs'[r].after <=> reqs[r].after
  /\ IF reqs[r].status \in R THEN reqs'[r].status \in {"superseded", "cancelled"}
                             ELSE reqs'[r].status = reqs[r].status

\* Closing the requests does so.
LEMMA EndedForms ==
  ASSUME Types, NEW R, NEW st \in {"superseded", "cancelled"},
         reqs' = [r \in Rounds |-> IF reqs[r].status \in R THEN [reqs[r] EXCEPT !.status = st]
                                   ELSE reqs[r]]
  PROVE  reqs' \in [Rounds -> Requests] /\ RequestsEnd(R)
<1>1. st \in Statuses
  BY Words
<1>2. ASSUME NEW r \in Rounds
      PROVE  [reqs[r] EXCEPT !.status = st] \in Requests /\ reqs[r] \in Requests
  BY <1>1, Zenon DEF Types, Requests
<1>3. reqs' \in [Rounds -> Requests]
  BY <1>2, Zenon
<1>4. ASSUME NEW r \in Rounds
      PROVE  /\ reqs'[r].prompt = reqs[r].prompt /\ reqs'[r].resp = reqs[r].resp
             /\ reqs'[r].after <=> reqs[r].after
             /\ reqs[r].status \in R => reqs'[r].status = st
             /\ reqs[r].status \notin R => reqs'[r].status = reqs[r].status
  <2>1. reqs'[r] = IF reqs[r].status \in R THEN [reqs[r] EXCEPT !.status = st] ELSE reqs[r]
    BY Zenon
  <2> QED BY <2>1, <1>2, Zenon DEF Requests
<1> QED BY <1>3, <1>4 DEF RequestsEnd

\* Every file not delivered is given up.
RowsSettle ==
  /\ rows' \in [Files -> Rows]
  /\ \A f \in Files :
       /\ rows'[f].stage = rows[f].stage /\ rows'[f].attempt = rows[f].attempt
       /\ rows'[f].checks = rows[f].checks
       /\ rows[f].done = "no" => rows'[f].done = "abandoned"
       /\ rows[f].done # "no" => rows'[f].done = rows[f].done

\* What Settled makes of rows.
LEMMA SettledForm ==
  ASSUME NEW R \in [Files -> Rows], NEW f \in Files
  PROVE  /\ Settled(R) \in [Files -> Rows]
         /\ Settled(R)[f].stage = R[f].stage /\ Settled(R)[f].attempt = R[f].attempt
         /\ Settled(R)[f].checks = R[f].checks
         /\ R[f].done = "no" => Settled(R)[f].done = "abandoned"
         /\ R[f].done # "no" => Settled(R)[f].done = R[f].done
<1>1. ASSUME NEW g \in Files PROVE [R[g] EXCEPT !.done = "abandoned"] \in Rows /\ R[g] \in Rows
  BY Words, Zenon DEF Rows
<1>2. Settled(R) \in [Files -> Rows]
  BY <1>1, Zenon DEF Settled
<1>3. Settled(R)[f] = IF R[f].done = "no" THEN [R[f] EXCEPT !.done = "abandoned"] ELSE R[f]
  BY Zenon DEF Settled
<1> QED BY <1>1, <1>2, <1>3, Zenon DEF Rows

\* Settled rows settle.
LEMMA SettleForm == ASSUME Types, rows' = Settled(rows) PROVE RowsSettle
<1>1. rows \in [Files -> Rows]
  BY DEF Types
<1>2. Settled(rows) \in [Files -> Rows]
  BY <1>1, SettledForm, TwoFiles
<1> QED BY <1>1, <1>2, SettledForm DEF RowsSettle

\* What Complete does.
LEMMA CompleteMoves ==
  ASSUME Types, Complete
  PROVE  /\ job.state = "running" /\ ~job.cancel
         /\ JobIs("completed", job.rev, job.proposed, job.cancel)
         /\ reqs' \in [Rounds -> Requests] /\ RequestsEnd({"publishing", "awaiting", "responded"})
         /\ rows' \in [Files -> Rows] /\ \A f \in Files : rows'[f] = Fresh
         /\ term' = "pending"
         /\ UNCHANGED <<round, told, s, inflight, thread, staged, faults>>
<1>1. JobIs("completed", job.rev, job.proposed, job.cancel)
  <2>1. PICK goal \in {"done", "waiting"} :
          job' = [job EXCEPT !.state = "completed", !.goal = goal]
    BY DEF Complete
  <2> QED BY <2>1, Names, Zenon DEF Types, Jobs, JobIs
<1>2. Fresh \in Rows
  BY Words DEF Rows, Fresh
<1>3. rows' \in [Files -> Rows] /\ \A f \in Files : rows'[f] = Fresh
  BY <1>2, Zenon DEF Complete
<1>4. reqs' \in [Rounds -> Requests] /\ RequestsEnd({"publishing", "awaiting", "responded"})
  BY EndedForms DEF Complete
<1> QED BY <1>1, <1>3, <1>4 DEF Complete

\* What Cancel does.
LEMMA CancelMoves ==
  ASSUME Types, Cancel
  PROVE  /\ job.cancel /\ ~Ended
         /\ JobIs("failed", job.rev, job.proposed, job.cancel)
         /\ reqs' \in [Rounds -> Requests] /\ RequestsEnd({"publishing", "awaiting"})
         /\ RowsSettle /\ term' = "pending"
         /\ UNCHANGED <<round, told, s, inflight, thread, staged, faults>>
<1>1. reqs' \in [Rounds -> Requests] /\ RequestsEnd({"publishing", "awaiting"})
  BY EndedForms DEF Cancel
<1> QED BY <1>1, SettleForm, JobForms, Names DEF Cancel

\* An unread message is in the thread.
LEMMA ReplyPlace == ASSUME Types, NEW m \in Unread PROVE PlaceOf(m) \in Places
  BY DEF Unread, HasSaid, PlaceOf

\* What StageReply does.
LEMMA StageReplyMoves ==
  ASSUME Types, Course, NEW m \in Msgs, StageReply(m)
  PROVE  /\ m \in Steers \cap Unread /\ staged' = staged \cup {m}
         /\ \/ (Ended \/ job.cancel) /\ UNCHANGED <<job, reqs>>
            \/ /\ job.state # "parked" /\ JobIs(job.state, job.rev + 1, job.proposed, job.cancel)
               /\ UNCHANGED reqs
            \/ /\ job.state = "parked" /\ round \in Rounds /\ reqs[round].prompt = 0
               /\ JobIs("parked", job.rev + 1, job.proposed, job.cancel)
               /\ RequestIs(round, "publishing", 0, PlaceOf(m), FALSE)
            \/ /\ job.state = "parked" /\ round \in Rounds /\ reqs[round].prompt # 0
               /\ JobIs("queued", job.rev + 1, job.proposed, job.cancel)
               /\ RequestIs(round, "responded", reqs[round].prompt, PlaceOf(m),
                            reqs[round].prompt < PlaceOf(m))
         /\ UNCHANGED round /\ UNCHANGED Deck
<1>1. m \in Steers \cap Unread /\ staged' = staged \cup {m} /\ UNCHANGED round /\ UNCHANGED Deck
  BY DEF StageReply, Deck
<1>2. CASE Ended \/ job.cancel
  BY <1>1, <1>2 DEF StageReply
<1>3. job.rev + 1 \in Nat /\ job.state \in States
  BY DEF Types, Jobs
<1>4. CASE ~(Ended \/ job.cancel) /\ job.state # "parked"
  BY <1>1, <1>3, <1>4, JobForms DEF StageReply
<1>5. CASE ~(Ended \/ job.cancel) /\ job.state = "parked"
  <2>1. round \in Rounds
    BY <1>5, ArtifactDeliveryAssumption DEF Course, Types, Rounds
  <2>2. PlaceOf(m) \in Nat /\ reqs[round].prompt \in Nat
    <3>1. PlaceOf(m) \in Nat
      BY <1>1, ReplyPlace, PlacesAre
    <3>2. reqs[round] \in Requests
      BY <2>1 DEF Types
    <3> QED BY <3>1, <3>2, Zenon DEF Requests
  <2>3. CASE reqs[round].prompt = 0
    <3>1. /\ reqs' = [reqs EXCEPT ![round].status = "publishing", ![round].resp = PlaceOf(m),
                                  ![round].after = FALSE]
          /\ job' = [job EXCEPT !.rev = job.rev + 1, !.state = "parked"]
      BY <1>5, <2>3 DEF StageReply, AnswerTo
    <3>2. JobIs("parked", job.rev + 1, job.proposed, job.cancel)
      BY <3>1, <1>3, Names, JobForms
    <3>3. RequestIs(round, "publishing", 0, PlaceOf(m), FALSE)
      BY <3>1, <2>1, <2>2, <2>3, Words, RequestForms
    <3> QED BY <1>1, <1>5, <2>1, <2>3, <3>2, <3>3
  <2>4. CASE reqs[round].prompt # 0
    <3>1. /\ reqs' = [reqs EXCEPT ![round].status = "responded", ![round].resp = PlaceOf(m),
                                  ![round].after = AnswerTo(m, reqs[round].prompt)]
          /\ job' = [job EXCEPT !.rev = job.rev + 1, !.state = "queued"]
      BY <1>5, <2>4 DEF StageReply
    <3>2. JobIs("queued", job.rev + 1, job.proposed, job.cancel)
      BY <3>1, <1>3, Names, JobForms
    <3>3. AnswerTo(m, reqs[round].prompt) \in BOOLEAN
      BY DEF AnswerTo
    <3>4. RequestIs(round, "responded", reqs[round].prompt, PlaceOf(m),
                    AnswerTo(m, reqs[round].prompt))
      BY <3>1, <3>3, <2>1, <2>2, Words, RequestForms
    <3>5. AnswerTo(m, reqs[round].prompt) <=> reqs[round].prompt < PlaceOf(m)
      BY <2>4, <2>2 DEF AnswerTo
    <3>6. RequestIs(round, "responded", reqs[round].prompt, PlaceOf(m),
                    reqs[round].prompt < PlaceOf(m))
      BY <3>4, <3>5 DEF RequestIs
    <3> QED BY <1>1, <1>5, <2>1, <2>4, <3>2, <3>6
  <2> QED BY <2>3, <2>4
<1> QED BY <1>2, <1>4, <1>5

\* What StageStop does.
LEMMA StageStopMoves ==
  ASSUME Types, Course, NEW m \in Msgs, StageStop(m)
  PROVE  /\ m \in Stops \cap Unread /\ staged' = staged \cup {m}
         /\ \/ (Ended \/ job.cancel) /\ UNCHANGED <<job, reqs, rows>>
            \/ /\ job.state # "parked" /\ ~Ended /\ ~job.cancel
               /\ JobIs(job.state, job.rev, job.proposed, TRUE)
               /\ UNCHANGED <<reqs, rows>>
            \/ /\ job.state = "parked" /\ round \in Rounds
               /\ JobIs("queued", job.rev, job.proposed, TRUE) /\ RowsSettle
               /\ RequestIs(round, "cancelled", reqs[round].prompt, reqs[round].resp,
                            reqs[round].after)
         /\ UNCHANGED <<round, term, told, s, inflight, thread, faults>>
<1>1. /\ m \in Stops \cap Unread /\ staged' = staged \cup {m}
      /\ UNCHANGED <<round, term, told, s, inflight, thread, faults>>
  BY DEF StageStop
<1>2. CASE Ended \/ job.cancel
  BY <1>1, <1>2 DEF StageStop
<1>3. job.state \in States
  BY DEF Types, Jobs
<1>4. CASE ~(Ended \/ job.cancel) /\ job.state # "parked"
  <2>1. job' = [job EXCEPT !.cancel = TRUE, !.state = job.state] /\ UNCHANGED <<reqs, rows>>
    BY <1>4 DEF StageStop
  <2> QED BY <1>1, <1>3, <1>4, <2>1, JobForms
<1>5. CASE ~(Ended \/ job.cancel) /\ job.state = "parked"
  <2>1. round \in Rounds
    BY <1>5, ArtifactDeliveryAssumption DEF Course, Types, Rounds
  <2>2. /\ job' = [job EXCEPT !.cancel = TRUE, !.state = "queued"]
        /\ reqs' = [reqs EXCEPT ![round].status = "cancelled"] /\ rows' = Settled(rows)
    BY <1>5 DEF StageStop
  <2>3. JobIs("queued", job.rev, job.proposed, TRUE) /\ RowsSettle
    BY <2>2, JobForms, Names, SettleForm
  <2>4. 0 \in Nat /\ TRUE \in BOOLEAN
    OBVIOUS
  <2>5. RequestIs(round, "cancelled", reqs[round].prompt, reqs[round].resp, reqs[round].after)
    BY <2>1, <2>2, <2>4, Words, RequestForms
  <2> QED BY <1>1, <1>5, <2>1, <2>3, <2>5
<1> QED BY <1>2, <1>4, <1>5

\* What the lane leaves alone when it works on a file.
OnlyLane == UNCHANGED <<job, reqs, round, term, told, thread, staged>>

\* What Say does.
LEMMA SayMoves ==
  ASSUME Types, NEW m \in Msgs, Say(m)
  PROVE  /\ m \notin HasSaid /\ Said(m) \in Entries /\ Grown(Said(m))
         /\ UNCHANGED <<job, reqs, round, rows, term, told, s, inflight, staged, faults>>
<1>1. Said(m) \in Entries
  BY DEF Said, Entries
<1> QED BY <1>1, Growing DEF Say

\* What Lands does.
LEMMA LandsMoves ==
  ASSUME Types, NEW u, Lands(u)
  PROVE  /\ u \in inflight /\ u \in Entries /\ inflight' = inflight \ {u} /\ Grown(u)
         /\ UNCHANGED <<job, reqs, round, rows, term, told, s, staged, faults>>
<1>1. u \in Entries /\ Show(u)
  BY DEF Lands, Types
<1> QED BY <1>1, Growing DEF Lands

\* What BeginApproval does.
LEMMA BeginApprovalMoves ==
  ASSUME Types, Course, BeginApproval
  PROVE  /\ s.step = "idle" /\ job.state = "parked" /\ round \in Rounds
         /\ reqs[round].status = "publishing" /\ LaneIs("look", round, 1, 0)
         /\ OnlyLane /\ UNCHANGED <<rows, inflight, faults>>
<1>1. round \in Rounds /\ round \in Nat /\ 1 \in Nat
  BY ArtifactDeliveryAssumption DEF BeginApproval, Course, Types, Rounds
<1>2. LaneIs("look", round, 1, 0)
  BY <1>1, LaneForms, Words DEF BeginApproval
<1> QED BY <1>1, <1>2 DEF BeginApproval, OnlyLane

\* A lane at work has a batch and a file, and the entry of the file is one.
LEMMA FileOf ==
  ASSUME Types, Lane, s.step # "idle"
  PROVE  /\ s.file \in Files /\ s.file \in Nat /\ s.batch \in Nat /\ s.batch \in Batches
         /\ s.attempt \in Nat
         /\ rows[s.file].stage \in Stages /\ rows[s.file].attempt \in Nat
         /\ rows[s.file].done \in Ends /\ rows[s.file].checks \in Nat
BY DEF Lane, Types, Rows, Lanes

\* What Look does.
LEMMA LookMoves ==
  ASSUME Types, Lane, Look
  PROVE  /\ s.step = "look" /\ s.file \in Files
         /\ \/ LaneIs("idle", 0, 0, 0)
            \/ Publishable(s.batch) /\ rows[s.file].done = "delivered" /\ Onward
            \/ s.batch = ResultBatch /\ rows[s.file].done = "abandoned" /\ Onward
            \/ /\ Publishable(s.batch) /\ rows[s.file].done = "no"
               /\ \/ LaneIs("inspect", s.batch, s.file, s.attempt)
                  \/ LaneIs("share", s.batch, s.file, rows[s.file].attempt)
                  \/ LaneIs("target", s.batch, s.file, s.attempt)
         /\ OnlyLane /\ UNCHANGED <<rows, inflight, faults>>
<1>1. s.step = "look" /\ s.file \in Files /\ OnlyLane /\ UNCHANGED <<rows, inflight, faults>>
  BY FileOf DEF Look, OnlyLane
<1>2. rows[s.file].done \in {"no", "delivered", "abandoned"} /\ rows[s.file].attempt \in Nat
  BY <1>1, FileOf DEF Ends
<1>3. CASE ~Publishable(s.batch)
  BY <1>1, <1>3, LaneForms DEF Look
<1>4. CASE Publishable(s.batch) /\ rows[s.file].done = "delivered"
  BY <1>1, <1>4, LaneForms DEF Look
<1>5. CASE Publishable(s.batch) /\ rows[s.file].done = "abandoned"
  BY <1>1, <1>5, LaneForms DEF Look
<1>6. CASE Publishable(s.batch) /\ rows[s.file].done = "no"
  <2>1. \/ Goto("inspect") \/ Goto("target")
        \/ s' = [s EXCEPT !.step = "share", !.attempt = rows[s.file].attempt]
    BY <1>6 DEF Look
  <2> QED BY <1>1, <1>2, <1>6, <2>1, LaneForms, Words
<1> QED BY <1>2, <1>3, <1>4, <1>5, <1>6

\* What Inspect does.
LEMMA InspectMoves ==
  ASSUME Types, Lane, Inspect
  PROVE  /\ s.step = "inspect" /\ s.file \in Files
         /\ \/ /\ rows[s.file].done # "no" /\ LaneIs("idle", 0, 0, 0)
               /\ UNCHANGED <<rows, job, reqs, term>>
            \/ /\ rows[s.file].done = "no" /\ ShownFor(s.batch, s.file) # {}
               /\ RowIs(s.file, rows[s.file].stage, rows[s.file].attempt, "delivered",
                        rows[s.file].checks)
               /\ Onward /\ UNCHANGED <<job, reqs, term>>
            \/ /\ rows[s.file].done = "no" /\ s.batch = ResultBatch
               /\ \E d \in {"no", "abandoned"} :
                    /\ d = "no" => rows[s.file].checks + 1 < MaxChecks
                    /\ RowIs(s.file, rows[s.file].stage, rows[s.file].attempt, d,
                             rows[s.file].checks + 1)
               /\ Onward /\ UNCHANGED <<job, reqs, term>>
            \/ /\ rows[s.file].done = "no" /\ s.batch \in Rounds
               /\ reqs[s.batch].status = "publishing"
               /\ RequestIs(s.batch, "cancelled", reqs[s.batch].prompt, reqs[s.batch].resp,
                            reqs[s.batch].after)
               /\ JobIs("failed", job.rev, job.proposed, job.cancel) /\ term' = "pending"
               /\ rows' \in [Files -> Rows]
               /\ \A f \in Files :
                    /\ rows'[f].stage = rows[f].stage /\ rows'[f].attempt = rows[f].attempt
                    /\ f # s.file => rows'[f].checks = rows[f].checks
                    /\ f = s.file => rows'[f].checks = rows[f].checks + 1
                    /\ rows[f].done = "no" => rows'[f].done = "abandoned"
                    /\ rows[f].done # "no" => rows'[f].done = rows[f].done
               /\ LaneIs("idle", 0, 0, 0)
            \/ /\ rows[s.file].done = "no" /\ s.batch \in Rounds
               /\ rows[s.file].checks + 1 < MaxChecks \/ reqs[s.batch].status # "publishing"
               /\ RowIs(s.file, rows[s.file].stage, rows[s.file].attempt, "no",
                        rows[s.file].checks + 1)
               /\ LaneIs("idle", 0, 0, 0) /\ UNCHANGED <<job, reqs, term>>
         /\ UNCHANGED <<round, told, inflight, thread, staged, faults>>
<1> DEFINE f == s.file
           entry == Checked(rows[f])
<1>1. /\ s.step = "inspect" /\ f \in Files
      /\ UNCHANGED <<round, told, inflight, thread, staged, faults>>
  BY FileOf DEF Inspect
<1>2. CASE rows[f].done # "no"
  BY <1>1, <1>2, LaneForms DEF Inspect
<1>3. CASE rows[f].done = "no" /\ \E i \in ShownFor(s.batch, f) : thread[i].no = rows[f].attempt
  <2>1. rows' = [rows EXCEPT ![f].done = "delivered"] /\ NextFile /\ UNCHANGED <<job, reqs, term>>
    BY <1>3 DEF Inspect
  <2>2. RowIs(f, rows[f].stage, rows[f].attempt, "delivered", rows[f].checks)
    BY <2>1, <1>1, RowForms, Words, FileOf
  <2> QED BY <1>1, <1>3, <2>1, <2>2, LaneForms
<1>4. CASE rows[f].done = "no" /\ ~\E i \in ShownFor(s.batch, f) : thread[i].no = rows[f].attempt
  <2>1. FoundNothing /\ (IF s.batch = ResultBatch THEN NextFile ELSE Defer)
    BY <1>4 DEF Inspect
  <2>2. rows[f].checks + 1 \in Nat /\ MaxChecks \in Nat /\ rows \in [Files -> Rows]
          /\ rows[f] \in Rows
    BY <1>1, FileOf, ArtifactDeliveryAssumption DEF Types
  <2>3. /\ entry \in Rows /\ entry.stage = rows[f].stage /\ entry.attempt = rows[f].attempt
        /\ entry.done = rows[f].done /\ entry.checks = rows[f].checks + 1
    BY <2>2, Zenon DEF Checked, Rows
  <2>4. ASSUME NEW d \in {"no", "abandoned"}
        PROVE  [entry EXCEPT !.done = d] \in Rows /\ [entry EXCEPT !.done = d].stage = rows[f].stage
               /\ [entry EXCEPT !.done = d].attempt = rows[f].attempt
                    /\ [entry EXCEPT !.done = d].done = d
               /\ [entry EXCEPT !.done = d].checks = rows[f].checks + 1
    <3>1. d \in Ends
      BY Words
    <3> HIDE DEF entry
    <3> QED BY <2>3, <3>1, Zenon DEF Rows
  <2>5. ASSUME NEW n \in Rows, rows' = [rows EXCEPT ![f] = n]
        PROVE  RowIs(f, n.stage, n.attempt, n.done, n.checks)
    BY <2>5, <2>2, <1>1, Zenon DEF RowIs
  <2>6. (entry.checks >= MaxChecks) = (rows[f].checks + 1 >= MaxChecks)
    BY <2>3
  <2> HIDE DEF entry
  <2>7. CASE s.batch = ResultBatch
    <3>1. /\ rows' = [rows EXCEPT ![f] = IF entry.checks >= MaxChecks
                                         THEN [entry EXCEPT !.done = "abandoned"] ELSE entry]
          /\ UNCHANGED <<job, reqs, term>> /\ Onward
      BY <2>1, <2>7, LaneForms DEF FoundNothing, entry
    <3>2. CASE entry.checks >= MaxChecks
      <4>1. rows' = [rows EXCEPT ![f] = [entry EXCEPT !.done = "abandoned"]]
        BY <3>1, <3>2
      <4>2. RowIs(f, rows[f].stage, rows[f].attempt, "abandoned", rows[f].checks + 1)
        BY <4>1, <2>4, <2>5
      <4> QED BY <1>1, <1>4, <2>7, <3>1, <4>2
    <3>3. CASE ~(entry.checks >= MaxChecks)
      <4>1. rows' = [rows EXCEPT ![f] = entry]
        BY <3>1, <3>3
      <4>2. RowIs(f, rows[f].stage, rows[f].attempt, "no", rows[f].checks + 1)
        BY <4>1, <2>3, <2>5, <1>4
      <4>3. rows[f].checks + 1 < MaxChecks
        BY <3>3, <2>3, <2>2
      <4> QED BY <1>1, <1>4, <2>7, <3>1, <4>2, <4>3
    <3> QED BY <3>2, <3>3
  <2>8. CASE s.batch # ResultBatch
    <3>1. s.batch \in Rounds
      BY <2>8, <1>1, FileOf, ArtifactDeliveryAssumption DEF Batches, ResultBatch, Rounds
    <3>2. LaneIs("idle", 0, 0, 0)
      BY <2>1, <2>8, LaneForms
    <3>3. CASE entry.checks >= MaxChecks /\ reqs[s.batch].status = "publishing"
      <4>1. /\ reqs' = [reqs EXCEPT ![s.batch].status = "cancelled"]
            /\ rows' = Settled([rows EXCEPT ![f] = entry])
            /\ job' = [job EXCEPT !.state = "failed"] /\ term' = "pending"
        BY <2>1, <2>8, <3>3 DEF FoundNothing, entry
      <4>2. 0 \in Nat /\ TRUE \in BOOLEAN
        OBVIOUS
      <4>3. RequestIs(s.batch, "cancelled", reqs[s.batch].prompt, reqs[s.batch].resp,
                      reqs[s.batch].after)
        BY <4>1, <4>2, <3>1, RequestForms, Words
      <4>4. JobIs("failed", job.rev, job.proposed, job.cancel)
        BY <4>1, JobForms, Names
      <4> DEFINE R == [rows EXCEPT ![f] = entry]
      <4>5. R \in [Files -> Rows] /\ R[f] = entry /\ \A g \in Files : g # f => R[g] = rows[g]
        BY <2>2, <2>3, <1>1, Zenon
      <4>6. rows' = Settled(R)
        BY <4>1
      <4> HIDE DEF R
      <4>7. rows' \in [Files -> Rows]
        BY <4>5, <4>6, <1>1, SettledForm
      <4>8. ASSUME NEW g \in Files
            PROVE  /\ rows'[g].stage = rows[g].stage /\ rows'[g].attempt = rows[g].attempt
                   /\ g # f => rows'[g].checks = rows[g].checks
                   /\ g = f => rows'[g].checks = rows[g].checks + 1
                   /\ rows[g].done = "no" => rows'[g].done = "abandoned"
                   /\ rows[g].done # "no" => rows'[g].done = rows[g].done
        <5>1. /\ R[g].stage = rows[g].stage /\ R[g].attempt = rows[g].attempt
              /\ g # f => R[g].checks = rows[g].checks
              /\ g = f => R[g].checks = rows[g].checks + 1
              /\ R[g].done = rows[g].done
          BY <4>5, <2>3
        <5> QED BY <5>1, <4>5, <4>6, SettledForm
      <4> QED BY <1>1, <1>4, <3>1, <3>2, <3>3, <4>1, <4>3, <4>4, <4>7, <4>8
    <3>4. CASE ~(entry.checks >= MaxChecks /\ reqs[s.batch].status = "publishing")
      <4>1. rows' = [rows EXCEPT ![f] = entry] /\ UNCHANGED <<job, reqs, term>>
        BY <2>1, <2>8, <3>4 DEF FoundNothing, entry
      <4>2. RowIs(f, rows[f].stage, rows[f].attempt, "no", rows[f].checks + 1)
        BY <4>1, <2>3, <2>5, <1>4
      <4>3. rows[f].checks + 1 < MaxChecks \/ reqs[s.batch].status # "publishing"
        BY <3>4, <2>3, <2>2
      <4> QED BY <1>1, <1>4, <3>1, <3>2, <4>1, <4>2, <4>3
    <3> QED BY <3>3, <3>4
  <2> QED BY <2>7, <2>8
<1> QED BY <1>2, <1>3, <1>4

\* What Target does.
LEMMA TargetMoves ==
  ASSUME Types, Lane, Target
  PROVE  /\ s.step = "target" /\ s.file \in Files
         /\ \/ LaneIs("idle", 0, 0, 0) /\ UNCHANGED rows
            \/ /\ rows[s.file].done = "no" /\ rows[s.file].stage \in {"none", "transferring"}
               /\ RowIs(s.file, "transferring", rows[s.file].attempt + 1, "no",
                        rows[s.file].checks)
               /\ LaneIs("bytes", s.batch, s.file, rows[s.file].attempt + 1)
         /\ OnlyLane /\ UNCHANGED <<inflight, faults>>
<1>1. s.step = "target" /\ s.file \in Files /\ OnlyLane /\ UNCHANGED <<inflight, faults>>
  BY FileOf DEF Target, OnlyLane
<1>2. CASE rows[s.file].done # "no" \/ rows[s.file].stage \notin {"none", "transferring"}
  BY <1>1, <1>2, LaneForms DEF Target
<1>3. CASE ~(rows[s.file].done # "no" \/ rows[s.file].stage \notin {"none", "transferring"})
  <2>1. /\ rows' = [rows EXCEPT ![s.file].stage = "transferring",
                    ![s.file].attempt = rows[s.file].attempt + 1]
        /\ s' = [s EXCEPT !.step = "bytes", !.attempt = rows[s.file].attempt + 1]
    BY <1>3 DEF Target
  <2>2. rows[s.file].attempt + 1 \in Nat
    BY <1>1, FileOf
  <2>3. RowIs(s.file, "transferring", rows[s.file].attempt + 1, rows[s.file].done,
              rows[s.file].checks)
    BY <2>1, <2>2, <1>1, RowForms, Words
  <2>4. LaneIs("bytes", s.batch, s.file, rows[s.file].attempt + 1)
    BY <2>1, <2>2, LaneForms, Words
  <2> QED BY <1>1, <1>3, <2>3, <2>4
<1> QED BY <1>2, <1>3

\* What Uploaded does.
LEMMA UploadedMoves ==
  ASSUME Types, Lane, Uploaded
  PROVE  /\ s.step = "bytes" /\ s.file \in Files
         /\ \/ /\ Holds("transferring")
               /\ RowIs(s.file, "uploaded", rows[s.file].attempt, "no", rows[s.file].checks)
               /\ LaneIs("share", s.batch, s.file, s.attempt)
            \/ ~Holds("transferring") /\ LaneIs("idle", 0, 0, 0) /\ UNCHANGED rows
         /\ OnlyLane /\ UNCHANGED <<inflight, faults>>
<1>1. s.step = "bytes" /\ s.file \in Files /\ OnlyLane /\ UNCHANGED <<inflight, faults>>
  BY FileOf DEF Uploaded, OnlyLane
<1>2. CASE ~Holds("transferring")
  BY <1>1, <1>2, LaneForms DEF Uploaded, Holds
<1>3. CASE Holds("transferring")
  <2>1. rows' = [rows EXCEPT ![s.file].stage = "uploaded"] /\ Goto("share")
    BY <1>3 DEF Uploaded, Holds
  <2>2. 0 \in Nat
    OBVIOUS
  <2>3. RowIs(s.file, "uploaded", rows[s.file].attempt, rows[s.file].done, rows[s.file].checks)
    BY <2>1, <2>2, <1>1, RowForms, Words
  <2> QED BY <1>1, <1>3, <2>1, <2>3, LaneForms, Words DEF Holds
<1> QED BY <1>2, <1>3

\* What Share does.
LEMMA ShareMoves ==
  ASSUME Types, Lane, Share
  PROVE  /\ s.step = "share" /\ s.file \in Files
         /\ \/ /\ Holds("uploaded")
               /\ inflight' = inflight \cup {Image(s.batch, s.file, s.attempt)}
               /\ Image(s.batch, s.file, s.attempt) \in Entries
               /\ RowIs(s.file, "completing", rows[s.file].attempt, "no", rows[s.file].checks)
               /\ LaneIs("sharing", s.batch, s.file, s.attempt)
            \/ LaneIs("idle", 0, 0, 0) /\ UNCHANGED <<rows, inflight>>
         /\ OnlyLane /\ UNCHANGED faults
<1>1. s.step = "share" /\ s.file \in Files /\ OnlyLane /\ UNCHANGED faults
  BY FileOf DEF Share, OnlyLane
<1>2. CASE ~Holds("uploaded")
  BY <1>1, <1>2, LaneForms DEF Share, Holds
<1>3. CASE Holds("uploaded")
  <2>1. /\ rows' = [rows EXCEPT ![s.file].stage = "completing"] /\ Goto("sharing")
        /\ inflight' = inflight \cup {Image(s.batch, s.file, s.attempt)}
    BY <1>3 DEF Share, Holds
  <2>2. 0 \in Nat
    OBVIOUS
  <2>3. RowIs(s.file, "completing", rows[s.file].attempt, rows[s.file].done, rows[s.file].checks)
    BY <2>1, <2>2, <1>1, RowForms, Words
  <2>4. Image(s.batch, s.file, s.attempt) \in Entries
    BY <1>1, FileOf DEF Image, Entries
  <2> QED BY <1>1, <1>3, <2>1, <2>3, <2>4, LaneForms, Words DEF Holds
<1> QED BY <1>2, <1>3

\* What Shared does.
LEMMA SharedMoves ==
  ASSUME Types, Lane, Shared
  PROVE  /\ s.step = "sharing" /\ s.file \in Files
         /\ Image(s.batch, s.file, s.attempt) \notin inflight
         /\ \/ /\ rows[s.file].done = "no" /\ Onward
               /\ RowIs(s.file, rows[s.file].stage, rows[s.file].attempt, "delivered",
                        rows[s.file].checks)
            \/ rows[s.file].done = "delivered" /\ UNCHANGED rows /\ Onward
            \/ rows[s.file].done # "no" /\ UNCHANGED rows /\ LaneIs("idle", 0, 0, 0)
         /\ OnlyLane /\ UNCHANGED <<inflight, faults>>
<1>1. /\ s.step = "sharing" /\ s.file \in Files /\ OnlyLane /\ UNCHANGED <<inflight, faults>>
      /\ Image(s.batch, s.file, s.attempt) \notin inflight
  BY FileOf DEF Shared, OnlyLane, Awaited
<1>2. CASE rows[s.file].done # "no"
  BY <1>1, <1>2, LaneForms DEF Shared
<1>3. CASE rows[s.file].done = "no"
  <2>1. rows' = [rows EXCEPT ![s.file].done = "delivered"] /\ NextFile
    BY <1>3 DEF Shared
  <2>2. 0 \in Nat
    OBVIOUS
  <2>3. RowIs(s.file, rows[s.file].stage, rows[s.file].attempt, "delivered", rows[s.file].checks)
    BY <2>1, <2>2, <1>1, RowForms, Words
  <2> QED BY <1>1, <1>3, <2>1, <2>3, LaneForms
<1> QED BY <1>2, <1>3

\* One of the faults is used.
OneFault == faults' = faults + 1 /\ faults' \in 0 .. MaxFaults

\* Fault does so.
LEMMA FaultIs == ASSUME Types, Fault PROVE OneFault
  BY ArtifactDeliveryAssumption DEF Types, Fault, OneFault

\* What Refused does.
LEMMA RefusedMoves ==
  ASSUME Types, Lane, Refused
  PROVE  /\ s.step = "sharing" /\ s.file \in Files /\ OneFault
         /\ Image(s.batch, s.file, s.attempt) \in inflight
         /\ inflight' = inflight \ {Image(s.batch, s.file, s.attempt)}
         /\ \/ RowIs(s.file, "transferring", rows[s.file].attempt, rows[s.file].done,
                     rows[s.file].checks)
            \/ UNCHANGED rows
         /\ LaneIs("idle", 0, 0, 0) /\ OnlyLane
<1>1. /\ s.step = "sharing" /\ s.file \in Files /\ OnlyLane /\ OneFault
      /\ Image(s.batch, s.file, s.attempt) \in inflight
      /\ inflight' = inflight \ {Image(s.batch, s.file, s.attempt)} /\ Defer
  BY FileOf, FaultIs DEF Refused, OnlyLane, Awaited
<1>2. rows' = rows \/ rows' = [rows EXCEPT ![s.file].stage = "transferring"]
  BY DEF Refused
<1>3. 0 \in Nat
  OBVIOUS
<1>4. rows' = [rows EXCEPT ![s.file].stage = "transferring"] =>
        RowIs(s.file, "transferring", rows[s.file].attempt, rows[s.file].done,
              rows[s.file].checks)
  BY <1>1, <1>3, RowForms, Words
<1> QED BY <1>1, <1>2, <1>4, LaneForms

\* What Lost does.
LEMMA LostMoves ==
  ASSUME Types, Lane, Lost
  PROVE  /\ OneFault /\ inflight' \subseteq inflight
         /\ \/ LaneIs("idle", 0, 0, 0) /\ s.step \in {"sharing", "asking"}
            \/ s.step = "sharing" /\ s.batch = ResultBatch /\ Onward
         /\ OnlyLane /\ UNCHANGED rows
BY LaneForms, FaultIs DEF Lost, OnlyLane

\* What StepFails does.
LEMMA StepFailsMoves ==
  ASSUME Types, StepFails
  PROVE  /\ OneFault /\ LaneIs("idle", 0, 0, 0) /\ s.step # "idle"
         /\ OnlyLane /\ UNCHANGED <<rows, inflight>>
BY LaneForms, FaultIs DEF StepFails, OnlyLane

\* What Dies does.
LEMMA DiesMoves ==
  ASSUME Types, Dies
  PROVE  /\ OneFault /\ LaneIs("idle", 0, 0, 0) /\ s.step # "idle"
         /\ OnlyLane /\ UNCHANGED <<rows, inflight>>
BY LaneForms, FaultIs DEF Dies, OnlyLane

\* The recorded place of a question is a place of the question.
LEMMA Record ==
  ASSUME Types, NEW b \in Rounds, PromptsFor(b) # {}, Recorded(b, Earliest(PromptsFor(b)))
  PROVE  \E p \in PromptsFor(b) :
           RequestIs(b, reqs[b].status, p, reqs[b].resp, reqs[b].after)
<1>1. Earliest(PromptsFor(b)) \in PromptsFor(b) /\ Earliest(PromptsFor(b)) \in Nat
  <2>1. PromptsFor(b) \in SUBSET Nat
    BY PlacesAre DEF PromptsFor
  <2>2. Earliest(PromptsFor(b)) \in PromptsFor(b)
    BY <2>1, EarliestIs
  <2> QED BY <2>1, <2>2
<1>2. reqs' = [reqs EXCEPT ![b].prompt = Earliest(PromptsFor(b))]
  BY DEF Recorded
<1>3. TRUE \in BOOLEAN
  OBVIOUS
<1> QED BY <1>1, <1>2, <1>3, RequestForms, Words

\* What Ask does.
LEMMA AskMoves ==
  ASSUME Types, Lane, Ask
  PROVE  /\ s.step = "prompt" /\ s.batch \in Rounds
         /\ \/ LaneIs("idle", 0, 0, 0) /\ UNCHANGED <<reqs, inflight>>
            \/ /\ Publishable(s.batch) /\ LaneIs("present", s.batch, s.file, s.attempt)
               /\ reqs[s.batch].prompt # 0 /\ UNCHANGED <<reqs, inflight>>
            \/ /\ Publishable(s.batch) /\ LaneIs("present", s.batch, s.file, s.attempt)
               /\ reqs[s.batch].prompt = 0 /\ UNCHANGED inflight
               /\ \E p \in PromptsFor(s.batch) :
                    RequestIs(s.batch, reqs[s.batch].status, p, reqs[s.batch].resp,
                              reqs[s.batch].after)
            \/ /\ Publishable(s.batch) /\ LaneIs("asking", s.batch, s.file, s.attempt)
               /\ reqs[s.batch].prompt = 0 /\ UNCHANGED reqs
               /\ Prompt(s.batch) \in Entries /\ inflight' = inflight \cup {Prompt(s.batch)}
         /\ UNCHANGED <<job, round, rows, term, told, thread, staged, faults>>
<1>1. /\ s.step = "prompt" /\ s.batch \in Batches /\ s.batch # ResultBatch
      /\ UNCHANGED <<job, round, rows, term, told, thread, staged, faults>>
  BY DEF Ask, Lane
<1>2. s.batch \in Rounds /\ s.batch \in Nat
  BY <1>1, ArtifactDeliveryAssumption DEF Batches, ResultBatch, Rounds
<1>3. Prompt(s.batch) \in Entries
  BY <1>2 DEF Prompt, Entries
<1>4. CASE ~Publishable(s.batch)
  BY <1>1, <1>2, <1>4, LaneForms DEF Ask
<1>5. CASE Publishable(s.batch) /\ reqs[s.batch].prompt # 0
  BY <1>1, <1>2, <1>5, LaneForms, Words DEF Ask
<1>6. CASE Publishable(s.batch) /\ reqs[s.batch].prompt = 0 /\ PromptsFor(s.batch) # {}
  <2>1. Recorded(s.batch, Earliest(PromptsFor(s.batch))) /\ Goto("present") /\ UNCHANGED inflight
    BY <1>6 DEF Ask
  <2> QED BY <1>1, <1>2, <1>6, <2>1, Record, LaneForms, Words
<1>7. CASE Publishable(s.batch) /\ reqs[s.batch].prompt = 0 /\ PromptsFor(s.batch) = {}
  BY <1>1, <1>2, <1>3, <1>7, LaneForms, Words DEF Ask
<1> QED BY <1>4, <1>5, <1>6, <1>7

\* What Asked does.
LEMMA AskedMoves ==
  ASSUME Types, Lane, Sending, Asked
  PROVE  /\ s.step = "asking" /\ s.batch \in Rounds
         /\ \/ LaneIs("idle", 0, 0, 0) /\ UNCHANGED reqs
            \/ /\ Publishable(s.batch) /\ LaneIs("present", s.batch, s.file, s.attempt)
               /\ \E p \in PromptsFor(s.batch) :
                    RequestIs(s.batch, reqs[s.batch].status, p, reqs[s.batch].resp,
                              reqs[s.batch].after)
         /\ UNCHANGED <<job, round, rows, term, told, inflight, thread, staged, faults>>
<1>1. /\ s.step = "asking" /\ s.batch \in Batches /\ s.batch # ResultBatch
      /\ UNCHANGED <<job, round, rows, term, told, inflight, thread, staged, faults>>
      /\ Prompt(s.batch) \notin inflight
  BY DEF Asked, Lane, Awaited
<1>2. s.batch \in Rounds /\ s.batch \in Nat
  BY <1>1, ArtifactDeliveryAssumption DEF Batches, ResultBatch, Rounds
<1>3. PromptsFor(s.batch) # {}
  BY <1>1 DEF Sending, Marks, PromptsFor
<1>4. CASE ~Publishable(s.batch)
  BY <1>1, <1>2, <1>4, LaneForms DEF Asked
<1>5. CASE Publishable(s.batch)
  <2>1. Recorded(s.batch, Earliest(PromptsFor(s.batch))) /\ Goto("present")
    BY <1>5 DEF Asked
  <2> QED BY <1>1, <1>2, <1>3, <1>5, <2>1, Record, LaneForms, Words
<1> QED BY <1>4, <1>5

\* What Present does.
LEMMA PresentMoves ==
  ASSUME Types, Lane, Present
  PROVE  /\ s.step = "present" /\ s.batch \in Rounds /\ LaneIs("idle", 0, 0, 0)
         /\ \/ UNCHANGED <<reqs, job>>
            \/ /\ reqs[s.batch].status = "publishing" /\ reqs[s.batch].resp = 0 /\ UNCHANGED job
               /\ RequestIs(s.batch, "awaiting", reqs[s.batch].prompt, reqs[s.batch].resp,
                            reqs[s.batch].after)
            \/ /\ reqs[s.batch].status = "publishing" /\ reqs[s.batch].resp # 0
               /\ RequestIs(s.batch, "responded", reqs[s.batch].prompt, reqs[s.batch].resp,
                            reqs[s.batch].after)
               /\ \/ job.state = "parked" /\ JobIs("queued", job.rev, job.proposed, job.cancel)
                  \/ job.state # "parked" /\ UNCHANGED job
         /\ UNCHANGED <<round, rows, term, told, inflight, thread, staged, faults>>
<1>1. /\ s.step = "present" /\ s.batch \in Batches /\ s.batch # ResultBatch
      /\ LaneIs("idle", 0, 0, 0)
      /\ UNCHANGED <<round, rows, term, told, inflight, thread, staged, faults>>
  BY LaneForms DEF Present, Lane
<1>2. s.batch \in Rounds /\ 0 \in Nat /\ TRUE \in BOOLEAN
  BY <1>1, ArtifactDeliveryAssumption DEF Batches, ResultBatch, Rounds
<1>3. CASE reqs[s.batch].status # "publishing"
  BY <1>1, <1>2, <1>3 DEF Present
<1>4. job \in Jobs
  BY DEF Types
<1>5. [job EXCEPT !.state = job.state] = job
  BY <1>4, Zenon DEF Jobs
<1>6. CASE reqs[s.batch].status = "publishing" /\ reqs[s.batch].resp = 0
  <2>1. reqs' = [reqs EXCEPT ![s.batch].status = "awaiting"]
          /\ job' = [job EXCEPT !.state = job.state]
    BY <1>6 DEF Present
  <2> QED BY <1>1, <1>2, <1>5, <1>6, <2>1, RequestForms, Words
<1>7. CASE reqs[s.batch].status = "publishing" /\ reqs[s.batch].resp # 0
  <2>1. reqs' = [reqs EXCEPT ![s.batch].status = "responded"]
    BY <1>7 DEF Present
  <2>2. RequestIs(s.batch, "responded", reqs[s.batch].prompt, reqs[s.batch].resp,
                  reqs[s.batch].after)
    BY <1>2, <2>1, RequestForms, Words
  <2>3. CASE job.state = "parked"
    <3>1. job' = [job EXCEPT !.state = "queued"]
      BY <1>7, <2>3 DEF Present
    <3> QED BY <1>1, <1>2, <1>7, <2>2, <2>3, <3>1, JobForms, Names
  <2>4. CASE job.state # "parked"
    <3>1. job' = [job EXCEPT !.state = job.state]
      BY <1>7, <2>4 DEF Present
    <3> QED BY <1>1, <1>2, <1>5, <1>7, <2>2, <2>4, <3>1
  <2> QED BY <2>3, <2>4
<1> QED BY <1>3, <1>6, <1>7

\* What BeginResult does.
LEMMA BeginResultMoves ==
  ASSUME Types, BeginResult
  PROVE  /\ s.step = "idle" /\ term = "pending"
         /\ \/ LaneIs("body", ResultBatch, 1, 0)
            \/ LaneIs("look", ResultBatch, 1, 0) /\ job.state = "completed"
            \/ LaneIs("finish", ResultBatch, 1, 0)
         /\ OnlyLane /\ UNCHANGED <<rows, inflight, faults>>
<1>1. ResultBatch \in Nat /\ 1 \in Nat
  BY ArtifactDeliveryAssumption DEF ResultBatch
<1>2. \E step \in {"body", "look", "finish"} :
        /\ s' = [Idle EXCEPT !.step = step, !.batch = ResultBatch, !.file = 1]
        /\ step = "look" => job.state = "completed"
  BY DEF BeginResult
<1>3. \E step \in {"body", "look", "finish"} :
        LaneIs(step, ResultBatch, 1, 0) /\ (step = "look" => job.state = "completed")
  BY <1>1, <1>2, LaneForms, Words
<1> QED BY <1>3 DEF BeginResult, OnlyLane

\* What Body does.
LEMMA BodyMoves ==
  ASSUME Types, Body
  PROVE  /\ s.step = "body" /\ told' \in [body : BOOLEAN, notice : BOOLEAN]
         /\ told'.notice <=> told.notice
         /\ \/ LaneIs("look", s.batch, s.file, s.attempt) /\ job.state = "completed"
            \/ LaneIs("finish", s.batch, s.file, s.attempt)
         /\ UNCHANGED <<job, reqs, round, rows, term, inflight, thread, staged, faults>>
<1>1. told' = [told EXCEPT !.body = TRUE]
  BY DEF Body
<1>2. told' \in [body : BOOLEAN, notice : BOOLEAN] /\ (told'.notice <=> told.notice)
  BY <1>1, Zenon DEF Types
<1> QED BY <1>2, LaneForms, Words DEF Body

\* What Finish does.
LEMMA FinishMoves ==
  ASSUME Types, Finish
  PROVE  /\ s.step = "finish" /\ LaneIs("idle", 0, 0, 0)
         /\ \/ /\ AllSettled /\ term' = "delivered"
               /\ told' \in [body : BOOLEAN, notice : BOOLEAN]
               /\ told'.notice <=> told.notice \/ GivenUp
            \/ UNCHANGED <<told, term>>
         /\ UNCHANGED <<job, reqs, round, rows, inflight, thread, staged, faults>>
<1>1. CASE AllSettled
  <2>1. told' = [body |-> told.body \/ BodyFirst \/ ~GivenUp, notice |-> told.notice \/ GivenUp]
    BY <1>1 DEF Finish
  <2>2. told' \in [body : BOOLEAN, notice : BOOLEAN] /\ (told'.notice <=> told.notice \/ GivenUp)
    BY <2>1, Zenon
  <2> QED BY <1>1, <2>2, LaneForms DEF Finish
<1>2. CASE ~AllSettled
  BY <1>2, LaneForms DEF Finish
<1> QED BY <1>1, <1>2

-----------------------------------------------------------------------------
(* What is used of the types, and of what a step leaves alone. *)

\* Numbers of rounds and batches, and the fields of the requests.
LEMMA Shapes ==
  ASSUME Types
  PROVE  /\ MaxRounds \in Nat /\ round \in Nat /\ round <= MaxRounds
         /\ Rounds = 1 .. MaxRounds /\ Batches = 1 .. MaxRounds + 1 /\ ResultBatch = MaxRounds + 1
         /\ \A r \in Rounds : /\ reqs[r].prompt \in Nat /\ reqs[r].resp \in Nat
                              /\ reqs[r].status \in Statuses
BY ArtifactDeliveryAssumption DEF Types, Rounds, Batches, ResultBatch, Requests

\* A lane at rest says nothing.
LEMMA Resting == ASSUME s'.step = "idle" PROVE Lane' /\ Sending'
  BY DEF Lane, Sending, OneFile

\* What stays with the thread.
LEMMA Still ==
  ASSUME UNCHANGED thread
  PROVE  /\ Places' = Places /\ HasSaid' = HasSaid
         /\ \A b : PromptsFor(b)' = PromptsFor(b)
         /\ \A b, f : ShownFor(b, f)' = ShownFor(b, f)
BY DEF Places, PromptsFor, ShownFor, HasSaid

\* The marks stay with what is on its way and the thread.
LEMMA MarksStill ==
  ASSUME UNCHANGED <<inflight, thread>> PROVE Marks' = Marks
BY DEF Marks, Places

\* Landing is no new mark.
LEMMA MarksLand ==
  ASSUME Types, NEW u, Grown(u)
  PROVE  /\ inflight' = inflight => Marks' = Marks \cup {u}
         /\ u \in inflight /\ inflight' = inflight \ {u} => Marks' = Marks
<1>1. {thread'[i] : i \in Places'} = {thread[i] : i \in Places} \cup {u}
  BY DEF Grown
<1> QED BY <1>1 DEF Marks

\* What a longer thread keeps.
LEMMA Showing ==
  ASSUME Types, NEW u, Grown(u)
  PROVE  /\ Places \subseteq Places' /\ HasSaid \subseteq HasSaid'
         /\ \A b : PromptsFor(b) \subseteq PromptsFor(b)'
         /\ \A b, f : ShownFor(b, f) \subseteq ShownFor(b, f)'
BY DEF Grown, PromptsFor, ShownFor, HasSaid

\* A place of a question is a place, hence not 0.
LEMMA PromptPlaces ==
  ASSUME Types, NEW b, NEW p \in PromptsFor(b) PROVE p \in Places /\ p \in Nat /\ p # 0
  BY PlacesAre DEF PromptsFor

\* A proposal is shown only while its request is being published.
LEMMA PublishingOnly ==
  ASSUME Types, NEW b \in Rounds, Publishable(b) PROVE reqs[b].status = "publishing"
  BY Shapes DEF Publishable

-----------------------------------------------------------------------------
(* Each part of the invariant is kept. *)

\* The types are kept.
LEMMA TypesStep ==
  ASSUME Types, Course, Lane, Sending, Revisions, [Next]_vars
  PROVE  Types'
<1>1. CASE Propose
  BY <1>1, ProposeMoves DEF JobIs, Deck, Types
<1>2. CASE Park
  <2>1. round' \in 0 .. MaxRounds
    BY <1>2, ParkMoves, ArtifactDeliveryAssumption DEF Rounds
  <2> QED BY <1>2, <2>1, ParkMoves DEF Types, JobIs
<1>3. CASE ParkRaces
  BY <1>3, ParkRacesMoves DEF JobIs, Deck, Types
<1>4. CASE Claim
  BY <1>4, ClaimMoves DEF JobIs, Deck, Types
<1>5. CASE Complete
  BY <1>5, CompleteMoves DEF JobIs, RequestsEnd, Types
<1>6. CASE Cancel
  BY <1>6, CancelMoves DEF JobIs, RequestsEnd, RowsSettle, Types
<1>7. CASE BeginApproval
  BY <1>7, BeginApprovalMoves DEF LaneIs, OnlyLane, Types
<1>8. CASE Look
  BY <1>8, LookMoves DEF LaneIs, Onward, OnlyLane, Types
<1>9. CASE Inspect
  BY <1>9, InspectMoves DEF JobIs, LaneIs, RowIs, RequestIs, Onward, Types
<1>10. CASE Target
  BY <1>10, TargetMoves DEF LaneIs, RowIs, OnlyLane, Types
<1>11. CASE Uploaded
  BY <1>11, UploadedMoves DEF LaneIs, RowIs, OnlyLane, Holds, Types
<1>12. CASE Share
  BY <1>12, ShareMoves DEF LaneIs, RowIs, OnlyLane, Holds, Types
<1>13. CASE Shared
  BY <1>13, SharedMoves DEF LaneIs, RowIs, Onward, OnlyLane, Types
<1>14. CASE Refused
  BY <1>14, RefusedMoves DEF LaneIs, RowIs, OneFault, OnlyLane, Types
<1>15. CASE Lost
  BY <1>15, LostMoves DEF LaneIs, Onward, OneFault, OnlyLane, Types
<1>16. CASE StepFails
  BY <1>16, StepFailsMoves DEF LaneIs, OneFault, OnlyLane, Types
<1>17. CASE Dies
  BY <1>17, DiesMoves DEF LaneIs, OneFault, OnlyLane, Types
<1>18. CASE Ask
  BY <1>18, AskMoves DEF LaneIs, RequestIs, Types
<1>19. CASE Asked
  BY <1>19, AskedMoves DEF LaneIs, RequestIs, Types
<1>20. CASE Present
  BY <1>20, PresentMoves DEF JobIs, LaneIs, RequestIs, Types
<1>21. CASE BeginResult
  BY <1>21, BeginResultMoves DEF LaneIs, OnlyLane, Types
<1>22. CASE Body
  BY <1>22, BodyMoves DEF LaneIs, Types
<1>23. CASE Finish
  BY <1>23, FinishMoves DEF LaneIs, Types
<1>24. ASSUME NEW m \in Msgs, StageReply(m) PROVE Types'
  <2>1. staged' \in SUBSET Msgs
    BY <1>24, StageReplyMoves DEF Types
  <2> QED BY <1>24, <2>1, StageReplyMoves DEF Types, JobIs, RequestIs, Deck
<1>25. ASSUME NEW m \in Msgs, StageStop(m) PROVE Types'
  BY <1>25, StageStopMoves DEF JobIs, RequestIs, RowsSettle, Types
<1>26. ASSUME NEW m \in Msgs, Say(m) PROVE Types'
  BY <1>26, SayMoves DEF Grown, Types
<1>27. ASSUME NEW u, Lands(u) PROVE Types'
  BY <1>27, LandsMoves DEF Grown, Types
<1>28. CASE \/ UNCHANGED vars
  <2>1. UNCHANGED <<job, reqs, round, rows, term, told, s, inflight, thread, staged, faults>>
    BY <1>28 DEF vars
  <2> QED BY <2>1 DEF Types
<1> QED BY <1>1, <1>2, <1>3, <1>4, <1>5, <1>6, <1>7, <1>8, <1>9, <1>10, <1>11, <1>12, <1>13,
    <1>14, <1>15, <1>16, <1>17, <1>18, <1>19, <1>20, <1>21, <1>22, <1>23, <1>24, <1>25, <1>26,
    <1>27, <1>28 DEF Next, RunnerStep, LaneStep

\* Recording the question of the open request keeps Course.
LEMMA QuestionRecorded ==
  ASSUME Types, Course, UNCHANGED <<job, round, term>>, NEW b \in Rounds,
         reqs[b].status = "publishing", b <= round,
         NEW p \in PromptsFor(b), RequestIs(b, reqs[b].status, p, reqs[b].resp, reqs[b].after)
  PROVE  Course'
<1>1. p # 0 /\ b = round /\ ~reqs[b].after
  BY PromptPlaces DEF Course
<1>2. ASSUME NEW r \in Rounds, r # b
      PROVE  reqs'[r] = reqs[r]
  BY <1>2 DEF RequestIs
<1>3. reqs'[b].status = reqs[b].status /\ reqs'[b].prompt = p /\ ~reqs'[b].after
  BY <1>1 DEF RequestIs
<1> QED BY <1>1, <1>2, <1>3, Shapes DEF Course, Ended

\* Course is kept.
LEMMA CourseStep ==
  ASSUME Types, Course, Lane, Sending, Revisions, [Next]_vars
  PROVE  Course'
<1>1. CASE Propose
  BY <1>1, ProposeMoves, Shapes DEF JobIs, Deck, Course, Ended
<1>2. CASE Park
  <2>1. term' = term /\ term = "none" /\ ~Ended'
    BY <1>2, ParkMoves DEF Course, Ended, JobIs
  <2>2. /\ round' # 0 /\ round' = round + 1 /\ round' \in Rounds /\ job'.state = "parked"
             /\ ~job'.cancel
        /\ reqs'[round'].status = "publishing" /\ job.state # "parked"
    BY <1>2, ParkMoves, Shapes DEF JobIs
  <2>3. ASSUME NEW r \in Rounds, r # round'
        PROVE  /\ r > round' => reqs'[r].prompt = 0 /\ ~reqs'[r].after
               /\ r < round' => reqs'[r].status \in {"superseded", "cancelled"}
               /\ reqs'[r].status \notin {"publishing", "awaiting"}
               /\ reqs'[r].after => reqs'[r].prompt # 0 /\ reqs'[r].prompt < reqs'[r].resp
    <3>1. /\ reqs'[r].prompt = reqs[r].prompt /\ reqs'[r].resp = reqs[r].resp
          /\ reqs'[r].after <=> reqs[r].after
          /\ reqs[r].status = "responded" => reqs'[r].status = "superseded"
          /\ reqs[r].status # "responded" => reqs'[r].status = reqs[r].status
      BY <1>2, <2>3, ParkMoves
    <3>2. r < round' => r < round \/ r = round
      BY <2>2, Shapes
    <3>3. r > round' => r > round
      BY <2>2, Shapes
    <3> QED BY <2>2, <3>1, <3>2, <3>3, Shapes DEF Course, Statuses
  <2>4. /\ reqs'[round'].prompt = 0 /\ ~reqs'[round'].after
    BY <1>2, ParkMoves
  <2> QED BY <2>1, <2>2, <2>3, <2>4, Shapes DEF Course
<1>3. CASE ParkRaces
  BY <1>3, ParkRacesMoves, Shapes DEF JobIs, Deck, Course, Ended
<1>4. CASE Claim
  BY <1>4, ClaimMoves, Shapes DEF JobIs, Deck, Course, Ended
<1>5. CASE Complete
  BY <1>5, CompleteMoves, Shapes DEF JobIs, RequestsEnd, Course, Ended
<1>6. CASE Cancel
  BY <1>6, CancelMoves, Shapes DEF JobIs, RequestsEnd, RowsSettle, Course, Ended
<1>7. CASE Inspect
  <2>1. CASE UNCHANGED <<job, reqs, term>>
    BY <2>1, <1>7, InspectMoves DEF Course, Ended
  <2>2. CASE /\ s.batch \in Rounds /\ reqs[s.batch].status = "publishing"
             /\ RequestIs(s.batch, "cancelled", reqs[s.batch].prompt, reqs[s.batch].resp,
                          reqs[s.batch].after)
             /\ JobIs("failed", job.rev, job.proposed, job.cancel) /\ term' = "pending"
    <3>1. round' = round /\ s.batch = round /\ job'.state = "failed" /\ Ended'
      BY <2>2, <1>7, InspectMoves DEF Course, JobIs, Ended
    <3>2. \A r \in Rounds : r # s.batch => reqs'[r] = reqs[r]
      BY <2>2 DEF RequestIs
    <3>3. /\ reqs'[s.batch].status = "cancelled" /\ reqs'[s.batch].prompt = reqs[s.batch].prompt
          /\ reqs'[s.batch].resp = reqs[s.batch].resp
          /\ reqs'[s.batch].after <=> reqs[s.batch].after
      BY <2>2 DEF RequestIs
    <3> QED BY <2>2, <3>1, <3>2, <3>3 DEF Course
  <2> QED BY <2>1, <2>2, <1>7, InspectMoves
<1>8. CASE Ask
  <2>1. s.batch <= round /\ UNCHANGED <<job, round, term>>
    BY <1>8, AskMoves, Shapes DEF Lane
  <2>2. CASE UNCHANGED reqs
    BY <2>1, <2>2 DEF Course, Ended
  <2>3. CASE /\ Publishable(s.batch)
             /\ \E p \in PromptsFor(s.batch) :
                  RequestIs(s.batch, reqs[s.batch].status, p, reqs[s.batch].resp,
                            reqs[s.batch].after)
    BY <2>1, <2>3, <1>8, AskMoves, PublishingOnly, QuestionRecorded
  <2> QED BY <2>2, <2>3, <1>8, AskMoves
<1>9. CASE Asked
  <2>1. s.batch <= round /\ UNCHANGED <<job, round, term>>
    BY <1>9, AskedMoves, Shapes DEF Lane
  <2>2. CASE UNCHANGED reqs
    BY <2>1, <2>2 DEF Course, Ended
  <2>3. CASE /\ Publishable(s.batch)
             /\ \E p \in PromptsFor(s.batch) :
                  RequestIs(s.batch, reqs[s.batch].status, p, reqs[s.batch].resp,
                            reqs[s.batch].after)
    BY <2>1, <2>3, <1>9, AskedMoves, PublishingOnly, QuestionRecorded
  <2> QED BY <2>2, <2>3, <1>9, AskedMoves
<1>10. CASE Present
  <2>1. s.step = "present" /\ s.batch \in Rounds /\ UNCHANGED <<round, term>>
    BY <1>10, PresentMoves
  <2>2. CASE UNCHANGED <<reqs, job>>
    BY <2>1, <2>2 DEF Course, Ended
  <2>3. CASE reqs[s.batch].status = "publishing" /\ ~UNCHANGED <<reqs, job>>
    <3>1. s.batch = round /\ job.state = "parked" /\ reqs[s.batch].prompt # 0
      BY <2>1, <2>3 DEF Course, Lane
    <3>2. /\ \A r \in Rounds : r # s.batch => reqs'[r] = reqs[r]
          /\ reqs'[s.batch].prompt = reqs[s.batch].prompt
          /\ reqs'[s.batch].after <=> reqs[s.batch].after
      BY <2>1, <2>3, <3>1, <1>10, PresentMoves DEF RequestIs
    <3>3. ~reqs[s.batch].after /\ ~job.cancel /\ ~Ended
      BY <2>1, <2>3, <3>1 DEF Course, Ended
    <3>4. \/ reqs'[s.batch].status = "awaiting" /\ UNCHANGED job
          \/ reqs'[s.batch].status = "responded" /\ job'.state = "queued"
      BY <3>1, <2>1, <2>3, <1>10, PresentMoves DEF RequestIs, JobIs
    <3> QED BY <2>1, <2>3, <3>1, <3>2, <3>3, <3>4 DEF Course, Ended
  <2> QED BY <2>2, <2>3, <1>10, PresentMoves
<1>11. CASE Finish
  <2>1. Ended
    BY <1>11, FinishMoves DEF Lane
  <2> QED BY <1>11, <2>1, FinishMoves DEF Course, Ended
<1>12. ASSUME NEW m \in Msgs, StageReply(m) PROVE Course'
  BY <1>12, StageReplyMoves, Shapes DEF JobIs, RequestIs, Deck, Course, Ended
<1>13. ASSUME NEW m \in Msgs, StageStop(m) PROVE Course'
  BY <1>13, StageStopMoves, Shapes DEF JobIs, RequestIs, RowsSettle, Course, Ended
<1>14. CASE \/ BeginApproval \/ Look \/ Target \/ Uploaded \/ Share \/ Shared \/ Refused
            \/ Lost \/ StepFails \/ Dies \/ BeginResult \/ Body
            \/ \E m \in Msgs : Say(m)
            \/ \E u \in inflight \cup Awaited : Lands(u)
            \/ UNCHANGED vars
  <2>1. UNCHANGED <<job, reqs, round, term>>
    BY <1>14 DEF vars, BeginApproval, Look, Target, Uploaded, Share, Shared, Refused, Lost,
          StepFails, Dies, BeginResult, Body, Say, Lands
  <2> QED BY <2>1 DEF Course, Ended
<1> QED BY <1>1, <1>2, <1>3, <1>4, <1>5, <1>6, <1>7, <1>8, <1>9, <1>10, <1>11, <1>12, <1>13, <1>14
    DEF Next, RunnerStep, LaneStep

\* Recording is kept: places are never taken back.
LEMMA RecordingStep ==
  ASSUME Types, Course, Lane, Sending, Recording, Revisions, [Next]_vars
  PROVE  Recording'
<1>1. CASE Park
  BY <1>1, ParkMoves, Shapes, Still DEF JobIs, Recording
<1>2. CASE Complete
  BY <1>2, CompleteMoves, Still DEF RequestsEnd, Recording
<1>3. CASE Cancel
  BY <1>3, CancelMoves, Still DEF RequestsEnd, Recording
<1>4. CASE Inspect
  <2>1. CASE UNCHANGED <<job, reqs, term>>
    BY <2>1, <1>4, InspectMoves, Still DEF Recording
  <2>2. CASE /\ s.batch \in Rounds /\ reqs[s.batch].status = "publishing"
             /\ RequestIs(s.batch, "cancelled", reqs[s.batch].prompt, reqs[s.batch].resp,
                          reqs[s.batch].after)
             /\ JobIs("failed", job.rev, job.proposed, job.cancel) /\ term' = "pending"
    BY <2>2, <1>4, InspectMoves, Still DEF RequestIs, Recording
  <2> QED BY <2>1, <2>2, <1>4, InspectMoves
<1>5. CASE Ask
  BY <1>5, AskMoves, Shapes, Still DEF LaneIs, RequestIs, Recording
<1>6. CASE Asked
  BY <1>6, AskedMoves, Shapes, Still DEF LaneIs, RequestIs, Recording
<1>7. CASE Present
  BY <1>7, PresentMoves, Shapes, Still DEF JobIs, LaneIs, RequestIs, Recording
<1>8. ASSUME NEW m \in Msgs, StageReply(m) PROVE Recording'
  BY <1>8, StageReplyMoves, Still, ReplyPlace DEF RequestIs, Deck, Recording
<1>9. ASSUME NEW m \in Msgs, StageStop(m) PROVE Recording'
  BY <1>9, StageStopMoves, Shapes, Still DEF JobIs, RequestIs, RowsSettle, Recording
<1>10. ASSUME NEW m \in Msgs, Say(m) PROVE Recording'
  BY <1>10, SayMoves, Showing DEF Recording
<1>11. ASSUME NEW u, Lands(u) PROVE Recording'
  BY <1>11, LandsMoves, Showing DEF Recording
<1>12. CASE \/ Propose \/ ParkRaces \/ Claim \/ BeginApproval \/ Look \/ Target \/ Uploaded
            \/ Share \/ Shared \/ Refused \/ Lost \/ StepFails \/ Dies \/ BeginResult
            \/ Body \/ Finish
            \/ UNCHANGED vars
  <2>1. UNCHANGED <<reqs, thread>>
    BY <1>12 DEF vars, Propose, ParkRaces, Claim, BeginApproval, Look, Target, Uploaded, Share,
          Shared, Refused, Lost, StepFails, Dies, BeginResult, Body, Finish
  <2> QED BY <2>1, Still DEF Recording
<1> QED BY <1>1, <1>2, <1>3, <1>4, <1>5, <1>6, <1>7, <1>8, <1>9, <1>10, <1>11, <1>12 DEF Next,
       RunnerStep, LaneStep

\* A step of the lane on the rows, which settles files and never takes that back.
RowsOnly ==
  /\ UNCHANGED <<job, reqs, round>>
  /\ \A f \in Files : /\ rows[f].done = "delivered" => rows'[f].done = "delivered"
                      /\ rows[f].done # "no" => rows'[f].done # "no"

\* Where a lane at work is.
LEMMA Here ==
  ASSUME Types, Lane, s.step # "idle"
  PROVE  /\ s.file \in Files /\ (s.file = 1 \/ s.file = 2) /\ s.batch \in Batches
         /\ s.batch # ResultBatch => s.batch \in Rounds /\ s.batch <= round
         /\ s.batch = ResultBatch => Ended
         /\ 1 \in Files /\ 2 \in Files /\ \A f \in Files : f = 1 \/ f = 2
BY TwoFiles, Shapes DEF Lane

\* Lane is kept by going on with the same file,
LEMMA SameFile ==
  ASSUME Types, Lane, RowsOnly, s.step \in OneFile,
         NEW step \in OneFile, NEW a, LaneIs(step, s.batch, s.file, a)
  PROVE  Lane'
<1>1. s.step # "idle" /\ s'.step = step /\ s'.batch = s.batch /\ s'.file = s.file
  BY DEF OneFile, LaneIs
<1>2. Current' = Current /\ (Ended' <=> Ended)
  BY DEF RowsOnly, Current, Ended
<1> QED BY <1>1, <1>2, Here DEF Lane, OneFile, RowsOnly

\* by taking up a file that is still owed,
LEMMA FromLook ==
  ASSUME Types, Course, Lane, PromptIsLast, RowsOnly, UNCHANGED rows, s.step = "look",
         Publishable(s.batch),
         rows[s.file].done = "no",
         NEW step \in OneFile, NEW a, LaneIs(step, s.batch, s.file, a)
  PROVE  Lane'
<1>1. s.step # "idle" /\ s'.step = step /\ s'.batch = s.batch /\ s'.file = s.file
  BY DEF OneFile, LaneIs
<1>2. Current' = Current /\ (Ended' <=> Ended)
  BY DEF RowsOnly, Current, Ended
<1>3. CASE s.batch = ResultBatch
  BY <1>1, <1>2, <1>3, Here DEF Lane, OneFile, RowsOnly, Current
<1>4. CASE s.batch # ResultBatch
  <2>1. s.batch \in Rounds /\ reqs[s.batch].status = "publishing"
    BY <1>1, <1>4, Here, PublishingOnly
  <2>2. s.batch = round /\ job.state = "parked" /\ s.batch = Current
    BY <2>1 DEF Course, Current
  <2>3. reqs[s.batch].prompt = 0
    BY <2>1, <2>2, Here DEF PromptIsLast
  <2> QED BY <1>1, <1>2, <1>4, <2>1, <2>2, <2>3, Here DEF Lane, OneFile, RowsOnly
<1> QED BY <1>3, <1>4

\* by going on to the other file, or to what follows both,
LEMMA NextIn ==
  ASSUME Types, Lane, RowsOnly, s.step \in OneFile \cup {"look"}, Onward,
         s.batch = ResultBatch \/ rows'[s.file].done = "delivered"
  PROVE  Lane'
<1>1. s.step # "idle"
  BY DEF OneFile
<1>2. Current' = Current /\ (Ended' <=> Ended)
  BY DEF RowsOnly, Current, Ended
<1>3. CASE s.file < 2 /\ LaneIs("look", s.batch, s.file + 1, s.attempt)
  <2>1. s.file = 1 /\ s'.step = "look" /\ s'.batch = s.batch /\ s'.file = 2
    BY <1>1, <1>3, Here DEF LaneIs
  <2> QED BY <1>1, <1>2, <2>1, Here DEF Lane, OneFile, RowsOnly
<1>4. CASE s.file >= 2 /\ s.batch = ResultBatch /\ LaneIs("finish", s.batch, s.file, s.attempt)
  <2>1. s'.step = "finish" /\ s'.batch = s.batch /\ s'.file = s.file
    BY <1>4 DEF LaneIs
  <2> QED BY <1>1, <1>2, <1>4, <2>1, Here DEF Lane, OneFile, RowsOnly
<1>5. CASE s.file >= 2 /\ s.batch # ResultBatch /\ LaneIs("prompt", s.batch, s.file, s.attempt)
  <2>1. s'.step = "prompt" /\ s'.batch = s.batch /\ s'.file = s.file /\ s.file = 2
    BY <1>1, <1>5, Here DEF LaneIs
  <2>2. s.batch = Current => \A f \in Files : rows'[f].done = "delivered"
    BY <1>1, <1>5, <2>1, Here DEF Lane, RowsOnly
  <2>3. s'.batch \in Batches /\ s'.file \in Files /\ s'.batch # ResultBatch /\ s'.batch <= round'
    BY <1>1, <1>5, <2>1, Here DEF RowsOnly
  <2> QED BY <1>2, <2>1, <2>2, <2>3 DEF Lane, OneFile
<1> QED BY <1>3, <1>4, <1>5 DEF Onward

\* by sending the question,
LEMMA ToAsking ==
  ASSUME Types, Lane, RowsOnly, UNCHANGED rows, s.step = "prompt", NEW a,
         LaneIs("asking", s.batch, s.file, a)
  PROVE  Lane'
<1>1. s'.step = "asking" /\ s'.batch = s.batch /\ s'.file = s.file
  BY DEF LaneIs
<1>2. Current' = Current /\ (Ended' <=> Ended)
  BY DEF RowsOnly, Current, Ended
<1> QED BY <1>1, <1>2, Here DEF Lane, OneFile, RowsOnly

\* and by presenting it once it is recorded.
LEMMA ToPresent ==
  ASSUME Types, Lane, UNCHANGED <<job, round>>, s.step \in {"prompt", "asking"},
         LaneIs("present", s.batch, s.file, s.attempt), reqs'[s.batch].prompt # 0
  PROVE  Lane'
<1>1. s'.step = "present" /\ s'.batch = s.batch /\ s'.file = s.file
  BY DEF LaneIs
<1> QED BY <1>1, Here DEF Lane, OneFile

\* Lane is kept: no other batch begins while a file of this one is delivered.
LEMMA LaneIsKept ==
  ASSUME Types, Course, Lane, Sending, PromptIsLast, Revisions, [Next]_vars
  PROVE  Lane'
<1>1. CASE Propose
  BY <1>1, ProposeMoves, Shapes, Resting DEF JobIs, Deck, Lane, OneFile, Current, Ended
<1>2. CASE Park
  <2>1. s' = s /\ job.state = "running" /\ ~job.cancel /\ round' = round + 1
          /\ job'.state = "parked"
    BY <1>2, ParkMoves DEF JobIs
  <2>2. ~Ended /\ Current' = round + 1 /\ round + 1 # ResultBatch
    BY <2>1, <1>2, ParkMoves, Shapes DEF Ended, Current
  <2>3. s.step \notin OneFile
    BY <2>1, <2>2, Here DEF Lane, OneFile
  <2>4. CASE s.step = "idle"
    BY <2>1, <2>4, Resting
  <2>5. CASE s.step # "idle"
    <3>1. s.batch \in Rounds /\ s.batch <= round /\ s.batch # ResultBatch /\ s.batch \in Nat
      BY <2>2, <2>5, Here, Shapes
    <3>2. s.batch # Current' /\ s.batch <= round' /\ s.batch # round'
      BY <2>1, <2>2, <3>1, Shapes
    <3>3. s.step = "present" => reqs'[s.batch].prompt # 0
      BY <3>1, <3>2, <1>2, ParkMoves DEF Lane
    <3> QED BY <2>1, <2>3, <2>5, <3>1, <3>2, <3>3 DEF Lane, OneFile
  <2> QED BY <2>4, <2>5
<1>3. CASE ParkRaces
  BY <1>3, ParkRacesMoves, Shapes, Resting DEF JobIs, Deck, Lane, OneFile, Current, Ended
<1>4. CASE Claim
  BY <1>4, ClaimMoves, Shapes, Resting DEF JobIs, Deck, Lane, OneFile, Current, Ended
<1>5. CASE Complete
  BY <1>5, CompleteMoves, Shapes, Resting DEF JobIs, RequestsEnd, Lane, OneFile, Current, Ended
<1>6. CASE Cancel
  <2>1. /\ s' = s /\ round' = round /\ job.cancel /\ ~Ended /\ job'.state = "failed"
        /\ \A r \in Rounds : reqs'[r].prompt = reqs[r].prompt
        /\ \A f \in Files : /\ rows'[f].done # "no"
                            /\ rows[f].done = "delivered" => rows'[f].done = "delivered"
    BY <1>6, CancelMoves DEF JobIs, RequestsEnd, RowsSettle
  <2>2. Current' = Current /\ Ended'
    BY <2>1 DEF Current, Ended
  <2>3. CASE s.step # "idle"
    BY <2>1, <2>2, <2>3, Here DEF Lane, OneFile
  <2> QED BY <2>1, <2>3, Resting
<1>7. CASE BeginApproval
  <2>1. s'.step = "look" /\ s'.batch = round /\ s'.file = 1 /\ round' = round /\ round \in Rounds
    BY <1>7, BeginApprovalMoves DEF LaneIs, OnlyLane
  <2>2. round # ResultBatch /\ round \in Batches /\ 1 \in Files /\ round <= round
    BY <2>1, Shapes, TwoFiles
  <2> QED BY <2>1, <2>2 DEF Lane, OneFile
<1>8. CASE Look
  <2>1. RowsOnly /\ s.step = "look" /\ UNCHANGED rows
    BY <1>8, LookMoves DEF RowsOnly, OnlyLane
  <2>2. CASE LaneIs("idle", 0, 0, 0)
    BY <2>2, Resting DEF LaneIs
  <2>3. CASE Onward /\ (rows[s.file].done = "delivered" \/ s.batch = ResultBatch)
    BY <2>1, <2>3, NextIn
  <2>4. CASE /\ Publishable(s.batch) /\ rows[s.file].done = "no"
             /\ \E step \in OneFile, a \in {s.attempt, rows[s.file].attempt} :
                  LaneIs(step, s.batch, s.file, a)
    BY <2>1, <2>4, FromLook
  <2> QED BY <2>2, <2>3, <2>4, <1>8, LookMoves DEF OneFile
<1>9. CASE Inspect
  <2>1. s.step \in OneFile /\ s.step # "idle" /\ s.file \in Files
    BY <1>9, InspectMoves DEF OneFile
  <2>2. CASE LaneIs("idle", 0, 0, 0)
    BY <2>2, Resting DEF LaneIs
  <2>3. CASE Onward
    <3>1. UNCHANGED <<job, reqs, round>>
            /\ (s.batch = ResultBatch \/ rows'[s.file].done = "delivered")
      BY <2>3, <1>9, InspectMoves DEF Onward, LaneIs, RowIs
    <3>2. RowsOnly
      BY <2>3, <3>1, <1>9, InspectMoves DEF RowsOnly, Onward, LaneIs, RowIs
    <3> QED BY <2>1, <2>3, <3>1, <3>2, NextIn
  <2> QED BY <2>2, <2>3, <1>9, InspectMoves
<1>10. CASE Target
  <2>1. RowsOnly
    BY <1>10, TargetMoves DEF RowsOnly, RowIs, OnlyLane
  <2>2. s.step \in OneFile
    BY <1>10, TargetMoves DEF OneFile
  <2>3. CASE s'.step = "idle"
    BY <2>3, Resting
  <2>4. CASE s'.step # "idle"
    <3>1. \E a \in {s.attempt, rows[s.file].attempt + 1} : LaneIs("bytes", s.batch, s.file, a)
      BY <2>4, <1>10, TargetMoves DEF LaneIs
    <3>2. "bytes" \in OneFile
      BY DEF OneFile
    <3> QED BY <2>1, <2>2, <3>1, <3>2, SameFile
  <2> QED BY <2>3, <2>4
<1>11. CASE Uploaded
  <2>1. RowsOnly
    BY <1>11, UploadedMoves DEF RowsOnly, RowIs, Holds, OnlyLane
  <2>2. s.step \in OneFile
    BY <1>11, UploadedMoves DEF OneFile
  <2>3. CASE s'.step = "idle"
    BY <2>3, Resting
  <2>4. CASE s'.step # "idle"
    <3>1. \E a \in {s.attempt, rows[s.file].attempt + 1} : LaneIs("share", s.batch, s.file, a)
      BY <2>4, <1>11, UploadedMoves DEF LaneIs
    <3>2. "share" \in OneFile
      BY DEF OneFile
    <3> QED BY <2>1, <2>2, <3>1, <3>2, SameFile
  <2> QED BY <2>3, <2>4
<1>12. CASE Share
  <2>1. RowsOnly
    BY <1>12, ShareMoves DEF RowsOnly, RowIs, Holds, OnlyLane
  <2>2. s.step \in OneFile
    BY <1>12, ShareMoves DEF OneFile
  <2>3. CASE s'.step = "idle"
    BY <2>3, Resting
  <2>4. CASE s'.step # "idle"
    <3>1. \E a \in {s.attempt, rows[s.file].attempt + 1} : LaneIs("sharing", s.batch, s.file, a)
      BY <2>4, <1>12, ShareMoves DEF LaneIs
    <3>2. "sharing" \in OneFile
      BY DEF OneFile
    <3> QED BY <2>1, <2>2, <3>1, <3>2, SameFile
  <2> QED BY <2>3, <2>4
<1>13. CASE Shared
  <2>1. s.step \in OneFile /\ s.step # "idle" /\ s.file \in Files
    BY <1>13, SharedMoves DEF OneFile
  <2>2. CASE LaneIs("idle", 0, 0, 0)
    BY <2>2, Resting DEF LaneIs
  <2>3. CASE Onward
    <3>1. rows'[s.file].done = "delivered"
      BY <2>3, <1>13, SharedMoves DEF RowIs, Onward, LaneIs
    <3>2. RowsOnly
      BY <2>3, <1>13, SharedMoves DEF RowsOnly, RowIs, OnlyLane
    <3> QED BY <2>1, <2>3, <3>1, <3>2, NextIn
  <2> QED BY <2>2, <2>3, <1>13, SharedMoves
<1>14. CASE Refused
  BY <1>14, RefusedMoves, Shapes, Resting DEF LaneIs, RowIs, OneFault, OnlyLane, Lane, OneFile,
        Current, Publishable, Ended
<1>15. CASE Lost
  <2>1. CASE LaneIs("idle", 0, 0, 0)
    BY <2>1, Resting DEF LaneIs
  <2>2. CASE s.step = "sharing" /\ s.batch = ResultBatch /\ Onward
    <3>1. RowsOnly /\ s.step \in OneFile
      BY <2>2, <1>15, LostMoves DEF RowsOnly, OnlyLane, OneFile
    <3> QED BY <2>2, <3>1, NextIn
  <2> QED BY <2>1, <2>2, <1>15, LostMoves
<1>16. CASE StepFails
  BY <1>16, StepFailsMoves, Shapes, Resting DEF LaneIs, OneFault, OnlyLane, Lane, OneFile,
        Current, Publishable, Ended
<1>17. CASE Dies
  BY <1>17, DiesMoves, Shapes, Resting DEF LaneIs, OneFault, OnlyLane, Lane, OneFile, Current,
        Publishable, Ended
<1>18. CASE Ask
  <2>1. CASE LaneIs("idle", 0, 0, 0)
    BY <2>1, Resting DEF LaneIs
  <2>2. CASE LaneIs("present", s.batch, s.file, s.attempt)
    <3>1. reqs'[s.batch].prompt # 0 /\ UNCHANGED <<job, round>>
      BY <2>2, <1>18, AskMoves, PromptPlaces DEF LaneIs, RequestIs
    <3> QED BY <2>2, <3>1, <1>18, AskMoves, ToPresent
  <2>3. CASE LaneIs("asking", s.batch, s.file, s.attempt)
    <3>1. RowsOnly /\ UNCHANGED rows
      BY <2>3, <1>18, AskMoves DEF LaneIs, RowsOnly
    <3> QED BY <2>3, <3>1, <1>18, AskMoves, ToAsking
  <2> QED BY <2>1, <2>2, <2>3, <1>18, AskMoves
<1>19. CASE Asked
  <2>1. CASE LaneIs("idle", 0, 0, 0)
    BY <2>1, Resting DEF LaneIs
  <2>2. CASE LaneIs("present", s.batch, s.file, s.attempt)
    <3>1. reqs'[s.batch].prompt # 0 /\ UNCHANGED <<job, round>>
      BY <2>2, <1>19, AskedMoves, PromptPlaces DEF LaneIs, RequestIs
    <3> QED BY <2>2, <3>1, <1>19, AskedMoves, ToPresent
  <2> QED BY <2>1, <2>2, <1>19, AskedMoves
<1>20. CASE Present
  BY <1>20, PresentMoves, Shapes, Resting DEF JobIs, LaneIs, RequestIs, Lane, OneFile, Current,
        Publishable, Ended
<1>21. CASE BeginResult
  <2>1. /\ s'.step \in {"body", "look", "finish"} /\ s'.batch = ResultBatch /\ s'.file = 1
        /\ UNCHANGED <<job, round>> /\ (s'.step = "look" => job.state = "completed")
    BY <1>21, BeginResultMoves DEF LaneIs, OnlyLane
  <2>2. ResultBatch \in Batches /\ 1 \in Files
    BY Shapes, TwoFiles
  <2>3. Ended'
    BY <2>1, <1>21, BeginResultMoves DEF Ended, Course
  <2> QED BY <2>1, <2>2, <2>3 DEF Lane, OneFile
<1>22. CASE Body
  BY <1>22, BodyMoves, Shapes, Resting DEF LaneIs, Lane, OneFile, Current, Publishable, Ended
<1>23. CASE Finish
  BY <1>23, FinishMoves, Shapes, Resting DEF LaneIs, Lane, OneFile, Current, Publishable, Ended
<1>24. ASSUME NEW m \in Msgs, StageReply(m) PROVE Lane'
  BY <1>24, StageReplyMoves, Shapes, Resting DEF JobIs, RequestIs, Deck, Lane, OneFile, Current,
        Publishable, Ended
<1>25. ASSUME NEW m \in Msgs, StageStop(m) PROVE Lane'
  <2>1. s' = s /\ round' = round
    BY <1>25, StageStopMoves
  <2>2. CASE UNCHANGED <<job, reqs, rows>>
    BY <2>1, <2>2 DEF Lane, Ended, Current
  <2>3. CASE /\ job.state # "parked" /\ ~Ended /\ ~job.cancel
             /\ JobIs(job.state, job.rev, job.proposed, TRUE)
             /\ UNCHANGED <<reqs, rows>>
    <3>1. job'.state = job.state /\ job'.cancel
      BY <2>3 DEF JobIs
    <3> QED BY <2>1, <2>3, <3>1 DEF Lane, Ended, Current
  <2>4. CASE /\ job.state = "parked" /\ round \in Rounds
             /\ JobIs("queued", job.rev, job.proposed, TRUE) /\ RowsSettle
             /\ RequestIs(round, "cancelled", reqs[round].prompt, reqs[round].resp,
                          reqs[round].after)
    <3>1. job'.state = "queued" /\ job'.cancel
      BY <2>4 DEF JobIs
    <3>2. \A r \in Rounds : reqs'[r].prompt = reqs[r].prompt
      BY <2>4 DEF RequestIs
    <3>3. \A f \in Files : /\ rows'[f].done # "no"
                           /\ rows[f].done = "delivered" => rows'[f].done = "delivered"
      BY <2>4 DEF RowsSettle
    <3>4. Current' = Current /\ ~Ended /\ ~Ended'
      BY <2>1, <2>4, <3>1 DEF Current, Ended
    <3>5. CASE s.step # "idle"
      <4>1. s.batch # ResultBatch /\ s.batch \in Rounds
              /\ reqs'[s.batch].prompt = reqs[s.batch].prompt
        BY <3>2, <3>4, <3>5, Here
      <4> QED BY <2>1, <3>1, <3>3, <3>4, <3>5, <4>1, Here DEF Lane, OneFile
    <3> QED BY <2>1, <3>5, Resting
  <2> QED BY <2>2, <2>3, <2>4, <1>25, StageStopMoves
<1>26. CASE \/ \E m \in Msgs : Say(m)
            \/ \E u \in inflight \cup Awaited : Lands(u)
            \/ UNCHANGED vars
  <2>1. UNCHANGED <<s, job, reqs, rows, round>>
    BY <1>26 DEF vars, Say, Lands
  <2> QED BY <2>1 DEF Lane, OneFile, Current, Publishable, Ended
<1> QED BY <1>1, <1>2, <1>3, <1>4, <1>5, <1>6, <1>7, <1>8, <1>9, <1>10, <1>11, <1>12, <1>13,
    <1>14, <1>15, <1>16, <1>17, <1>18, <1>19, <1>20, <1>21, <1>22, <1>23, <1>24, <1>25, <1>26
    DEF Next, RunnerStep, LaneStep

\* PromptIsLast is kept.
LEMMA PromptIsLastStep ==
  ASSUME Types, Course, Lane, Sending, PromptIsLast, Revisions, [Next]_vars
  PROVE  PromptIsLast'
<1>1. CASE Propose
  BY <1>1, ProposeMoves, Shapes DEF JobIs, Deck, PromptIsLast, Current
<1>2. CASE Park
  BY <1>2, ParkMoves, Shapes DEF JobIs, PromptIsLast, Current
<1>3. CASE ParkRaces
  BY <1>3, ParkRacesMoves, Shapes DEF JobIs, Deck, PromptIsLast, Current
<1>4. CASE Claim
  BY <1>4, ClaimMoves, Shapes DEF JobIs, Deck, PromptIsLast, Current
<1>5. CASE Complete
  <2>1. Current' = ResultBatch
    BY <1>5, CompleteMoves DEF JobIs, Current
  <2> QED BY <2>1, Shapes DEF PromptIsLast
<1>6. CASE Cancel
  <2>1. Current' = Current
    BY <1>6, CancelMoves DEF JobIs, Current, Ended
  <2> QED BY <2>1, <1>6, CancelMoves DEF RequestsEnd, RowsSettle, PromptIsLast
<1>7. CASE Inspect
  <2>1. /\ s.batch = Current /\ s.step # "idle" /\ s.file \in Files
        /\ s.batch # ResultBatch => reqs[s.batch].prompt = 0
    BY <1>7, InspectMoves DEF Lane, OneFile
  <2>2. \A r \in Rounds : r = Current => reqs[r].prompt = 0
    BY <2>1, Shapes
  <2>3. Current' = Current \/ (Current' = round /\ s.batch \in Rounds)
    BY <1>7, InspectMoves DEF JobIs, Current
  <2>4. s.batch \in Rounds => s.batch = round
    BY <2>1, Shapes DEF Current
  <2>5. \A r \in Rounds : reqs'[r].prompt = reqs[r].prompt
    BY <1>7, InspectMoves DEF RequestIs
  <2> QED BY <2>1, <2>2, <2>3, <2>4, <2>5 DEF PromptIsLast
<1>8. CASE Target
  BY <1>8, TargetMoves, Shapes DEF LaneIs, RowIs, OnlyLane, PromptIsLast, Current
<1>9. CASE Uploaded
  BY <1>9, UploadedMoves, Shapes DEF LaneIs, RowIs, OnlyLane, Holds, PromptIsLast, Current
<1>10. CASE Share
  BY <1>10, ShareMoves, Shapes DEF LaneIs, RowIs, OnlyLane, Holds, PromptIsLast, Current
<1>11. CASE Shared
  BY <1>11, SharedMoves, Shapes DEF LaneIs, RowIs, Onward, OnlyLane, PromptIsLast, Current
<1>12. CASE Refused
  BY <1>12, RefusedMoves, Shapes DEF LaneIs, RowIs, OneFault, OnlyLane, PromptIsLast, Current
<1>13. CASE Ask
  <2>1. UNCHANGED <<job, round, rows>> /\ s.batch \in Rounds /\ s.step \in {"prompt", "asking"}
    BY <1>13, AskMoves
  <2>2. Current' = Current
    BY <2>1 DEF Current
  <2>3. CASE UNCHANGED reqs
    BY <2>1, <2>2, <2>3 DEF PromptIsLast
  <2>4. CASE /\ Publishable(s.batch)
             /\ \E p, q, a : RequestIs(s.batch, reqs[s.batch].status, p, q, a)
    <3>1. s.batch = round /\ job.state = "parked"
      BY <2>1, <2>4, PublishingOnly DEF Course
    <3>2. \A f \in Files : rows[f].done = "delivered"
      BY <2>1, <3>1 DEF Lane, Current
    <3> QED BY <2>1, <3>2 DEF PromptIsLast
  <2> QED BY <2>3, <2>4, <1>13, AskMoves
<1>14. CASE Asked
  <2>1. UNCHANGED <<job, round, rows>> /\ s.batch \in Rounds /\ s.step \in {"prompt", "asking"}
    BY <1>14, AskedMoves
  <2>2. Current' = Current
    BY <2>1 DEF Current
  <2>3. CASE UNCHANGED reqs
    BY <2>1, <2>2, <2>3 DEF PromptIsLast
  <2>4. CASE /\ Publishable(s.batch)
             /\ \E p, q, a : RequestIs(s.batch, reqs[s.batch].status, p, q, a)
    <3>1. s.batch = round /\ job.state = "parked"
      BY <2>1, <2>4, PublishingOnly DEF Course
    <3>2. \A f \in Files : rows[f].done = "delivered"
      BY <2>1, <3>1 DEF Lane, Current
    <3> QED BY <2>1, <3>2 DEF PromptIsLast
  <2> QED BY <2>3, <2>4, <1>14, AskedMoves
<1>15. CASE Present
  BY <1>15, PresentMoves, Shapes DEF JobIs, LaneIs, RequestIs, PromptIsLast, Current
<1>16. ASSUME NEW m \in Msgs, StageReply(m) PROVE PromptIsLast'
  BY <1>16, StageReplyMoves, Shapes DEF JobIs, RequestIs, Deck, PromptIsLast, Current
<1>17. ASSUME NEW m \in Msgs, StageStop(m) PROVE PromptIsLast'
  BY <1>17, StageStopMoves, Shapes DEF JobIs, RequestIs, RowsSettle, PromptIsLast, Current
<1>18. CASE \/ BeginApproval \/ Look \/ Lost \/ StepFails \/ Dies \/ BeginResult \/ Body
            \/ Finish
            \/ \E m \in Msgs : Say(m)
            \/ \E u \in inflight \cup Awaited : Lands(u)
            \/ UNCHANGED vars
  <2>1. UNCHANGED <<job, round, reqs, rows>>
    BY <1>18 DEF vars, BeginApproval, Look, Lost, StepFails, Dies, BeginResult, Body, Finish,
          Say, Lands
  <2> QED BY <2>1 DEF PromptIsLast, Current
<1> QED BY <1>1, <1>2, <1>3, <1>4, <1>5, <1>6, <1>7, <1>8, <1>9, <1>10, <1>11, <1>12, <1>13,
    <1>14, <1>15, <1>16, <1>17, <1>18 DEF Next, RunnerStep, LaneStep

\* Sending is kept: what was sent is on its way until it is in the thread.
LEMMA SendingStep ==
  ASSUME Types, Course, Lane, Sending, [Next]_vars
  PROVE  Sending'
<1>1. CASE BeginApproval
  <2>1. s'.step \notin {"sharing", "asking"}
    BY <1>1, BeginApprovalMoves DEF LaneIs
  <2> QED BY <2>1 DEF Sending
<1>2. CASE Look
  <2>1. s'.step \notin {"sharing", "asking"}
    BY <1>2, LookMoves DEF LaneIs, Onward
  <2> QED BY <2>1 DEF Sending
<1>3. CASE Inspect
  <2>1. s'.step \notin {"sharing", "asking"}
    BY <1>3, InspectMoves DEF LaneIs, Onward
  <2> QED BY <2>1 DEF Sending
<1>4. CASE Target
  <2>1. s'.step \notin {"sharing", "asking"}
    BY <1>4, TargetMoves DEF LaneIs
  <2> QED BY <2>1 DEF Sending
<1>5. CASE Uploaded
  <2>1. s'.step \notin {"sharing", "asking"}
    BY <1>5, UploadedMoves DEF LaneIs
  <2> QED BY <2>1 DEF Sending
<1>6. CASE Share
  BY <1>6, ShareMoves DEF LaneIs, Sending, Marks
<1>7. CASE Shared
  <2>1. s'.step \notin {"sharing", "asking"}
    BY <1>7, SharedMoves DEF LaneIs, Onward
  <2> QED BY <2>1 DEF Sending
<1>8. CASE Refused
  <2>1. s'.step \notin {"sharing", "asking"}
    BY <1>8, RefusedMoves DEF LaneIs
  <2> QED BY <2>1 DEF Sending
<1>9. CASE Lost
  <2>1. s'.step \notin {"sharing", "asking"}
    BY <1>9, LostMoves DEF LaneIs, Onward
  <2> QED BY <2>1 DEF Sending
<1>10. CASE StepFails
  <2>1. s'.step \notin {"sharing", "asking"}
    BY <1>10, StepFailsMoves DEF LaneIs
  <2> QED BY <2>1 DEF Sending
<1>11. CASE Dies
  <2>1. s'.step \notin {"sharing", "asking"}
    BY <1>11, DiesMoves DEF LaneIs
  <2> QED BY <2>1 DEF Sending
<1>12. CASE Ask
  BY <1>12, AskMoves DEF LaneIs, Sending, Marks
<1>13. CASE Asked
  <2>1. s'.step \notin {"sharing", "asking"}
    BY <1>13, AskedMoves DEF LaneIs
  <2> QED BY <2>1 DEF Sending
<1>14. CASE Present
  <2>1. s'.step \notin {"sharing", "asking"}
    BY <1>14, PresentMoves DEF LaneIs
  <2> QED BY <2>1 DEF Sending
<1>15. CASE BeginResult
  <2>1. s'.step \notin {"sharing", "asking"}
    BY <1>15, BeginResultMoves DEF LaneIs
  <2> QED BY <2>1 DEF Sending
<1>16. CASE Body
  <2>1. s'.step \notin {"sharing", "asking"}
    BY <1>16, BodyMoves DEF LaneIs
  <2> QED BY <2>1 DEF Sending
<1>17. CASE Finish
  <2>1. s'.step \notin {"sharing", "asking"}
    BY <1>17, FinishMoves DEF LaneIs
  <2> QED BY <2>1 DEF Sending
<1>18. ASSUME NEW m \in Msgs, Say(m) PROVE Sending'
  BY <1>18, SayMoves, MarksLand DEF Sending
<1>19. ASSUME NEW u, Lands(u) PROVE Sending'
  BY <1>19, LandsMoves, MarksLand DEF Sending
<1>20. CASE \/ Propose \/ Park \/ ParkRaces \/ Claim \/ Complete \/ Cancel
            \/ \E m \in Msgs : StageReply(m) \/ StageStop(m)
            \/ UNCHANGED vars
  <2>1. UNCHANGED <<s, inflight, thread>>
    BY <1>20 DEF vars, Propose, Park, ParkRaces, Claim, Complete, Cancel, StageReply, StageStop
  <2> QED BY <2>1, MarksStill DEF Sending
<1> QED BY <1>1, <1>2, <1>3, <1>4, <1>5, <1>6, <1>7, <1>8, <1>9, <1>10, <1>11, <1>12, <1>13,
    <1>14, <1>15, <1>16, <1>17, <1>18, <1>19, <1>20 DEF Next, RunnerStep, LaneStep

\* No new mark of an image, no checkpoint taken back: Checkpointed is kept.
LEMMA SameMarks ==
  ASSUME Checkpointed, Current' = Current,
         \A f \in Files : rows[f].stage = "completing" => rows'[f].stage = "completing",
         \A u \in Marks' : u \in Marks \/ u.what # "image"
  PROVE  Checkpointed'
BY DEF Checkpointed, Behind

\* So it is when a new batch begins: its rows are fresh, but nothing marks its images.
LEMMA NewBatch ==
  ASSUME Types, Checkpointed, Marks' = Marks, Current \in Nat, Current' \in Nat,
         Current < Current'
  PROVE  Checkpointed'
<1> SUFFICES ASSUME NEW u \in Marks, u.what = "image"
             PROVE  u.file \in Files /\ u.batch \in Batches /\ u.batch <= Current'
                      /\ u.batch # Current'
  BY DEF Checkpointed, Behind
<1>1. u.file \in Files /\ u.batch \in Batches /\ u.batch <= Current /\ u.batch \in Nat
  BY Shapes DEF Checkpointed, Behind
<1> QED BY <1>1

\* What the three kinds of entries show.
LEMMA EntryKinds ==
  /\ \A b : Prompt(b).what # "image" /\ Prompt(b).batch = b
  /\ \A m \in Msgs : Said(m).what # "image" /\ Said(m).what # "prompt"
  /\ \A b, f, a : /\ Image(b, f, a).what = "image" /\ Image(b, f, a).batch = b
                  /\ Image(b, f, a).file = f
BY ArtifactDeliveryAssumption DEF Prompt, Said, Image, Msgs

\* Checkpointed is kept: a checkpoint is taken back only by Slack's refusal, and then what
\* was refused will not land.
LEMMA CheckpointedStep ==
  ASSUME Types, Course, Lane, Sending, Checkpointed, OneEach, Revisions, [Next]_vars
  PROVE  Checkpointed'
<1>1. CASE Propose
  <2>1. UNCHANGED <<rows, inflight, thread, round>> /\ job.state # "completed"
          /\ job'.state # "completed"
    BY <1>1, ProposeMoves DEF JobIs, Deck, Course, Lane
  <2> QED BY <2>1, MarksStill, SameMarks DEF Current
<1>2. CASE Park
  <2>1. Marks' = Marks
    BY <1>2, ParkMoves, MarksStill
  <2>2. Current = round /\ Current' = round + 1
    BY <1>2, ParkMoves, Shapes DEF Current, JobIs
  <2>3. round < round + 1 /\ round + 1 \in Nat /\ round \in Nat
    BY Shapes
  <2> QED BY <2>1, <2>2, <2>3, NewBatch
<1>3. CASE ParkRaces
  <2>1. UNCHANGED <<rows, inflight, thread, round>> /\ job.state # "completed"
          /\ job'.state # "completed"
    BY <1>3, ParkRacesMoves DEF JobIs, Deck, Course, Lane
  <2> QED BY <2>1, MarksStill, SameMarks DEF Current
<1>4. CASE Claim
  <2>1. UNCHANGED <<rows, inflight, thread, round>> /\ job.state # "completed"
          /\ job'.state # "completed"
    BY <1>4, ClaimMoves DEF JobIs, Deck, Course, Lane
  <2> QED BY <2>1, MarksStill, SameMarks DEF Current
<1>5. CASE Complete
  <2>1. Marks' = Marks
    BY <1>5, CompleteMoves, MarksStill
  <2>2. Current = round /\ Current' = ResultBatch
    BY <1>5, CompleteMoves DEF Current, JobIs
  <2>3. round < ResultBatch /\ ResultBatch \in Nat /\ round \in Nat
    BY Shapes
  <2> QED BY <2>1, <2>2, <2>3, NewBatch
<1>6. CASE Cancel
  <2>1. Current' = Current /\ Marks' = Marks
    BY <1>6, CancelMoves, MarksStill DEF Current, JobIs, Ended
  <2> QED BY <2>1, <1>6, CancelMoves, SameMarks DEF RowsSettle
<1>7. CASE Inspect
  <2>1. Marks' = Marks
    BY <1>7, InspectMoves, MarksStill
  <2>2. Current' = Current
    <3>1. CASE UNCHANGED job
      BY <3>1, <1>7, InspectMoves DEF Current
    <3>2. CASE s.batch \in Rounds /\ JobIs("failed", job.rev, job.proposed, job.cancel)
      <4>1. s.batch = Current /\ s.batch # ResultBatch
        BY <3>2, <1>7, InspectMoves, Shapes DEF Lane, OneFile
      <4> QED BY <3>2, <4>1, <1>7, InspectMoves DEF Current, JobIs
    <3> QED BY <3>1, <3>2, <1>7, InspectMoves
  <2>3. \A f \in Files : rows[f].stage = "completing" => rows'[f].stage = "completing"
    BY <1>7, InspectMoves DEF RowIs
  <2> QED BY <2>1, <2>2, <2>3, SameMarks
<1>8. CASE Target
  <2>1. Marks' = Marks /\ Current' = Current
    BY <1>8, TargetMoves, MarksStill DEF OnlyLane, Current
  <2>2. \A f \in Files : rows[f].stage = "completing" => rows'[f].stage = "completing"
    BY <1>8, TargetMoves DEF RowIs
  <2> QED BY <2>1, <2>2, SameMarks
<1>9. CASE Uploaded
  <2>1. Marks' = Marks /\ Current' = Current
    BY <1>9, UploadedMoves, MarksStill DEF OnlyLane, Current
  <2>2. \A f \in Files : rows[f].stage = "completing" => rows'[f].stage = "completing"
    BY <1>9, UploadedMoves DEF RowIs, Holds
  <2> QED BY <2>1, <2>2, SameMarks
<1>10. CASE Share
  <2>1. CASE UNCHANGED <<rows, inflight>>
    BY <2>1, <1>10, ShareMoves, MarksStill, SameMarks DEF OnlyLane, Current
  <2>2. CASE /\ Holds("uploaded") /\ inflight' = inflight \cup {Image(s.batch, s.file, s.attempt)}
             /\ RowIs(s.file, "completing", rows[s.file].attempt, "no", rows[s.file].checks)
    <3>1. /\ UNCHANGED <<thread, job, round>> /\ s.batch = Current /\ s.file \in Files
          /\ s.batch \in Batches /\ s.batch \in Nat
      BY <1>10, ShareMoves, Shapes DEF OnlyLane, Lane, OneFile
    <3>2. Current' = Current /\ Marks' = Marks \cup {Image(s.batch, s.file, s.attempt)}
      BY <2>2, <3>1 DEF Current, Marks, Places
    <3>3. rows'[s.file].stage = "completing" /\ \A f \in Files : f # s.file => rows'[f] = rows[f]
      BY <2>2 DEF RowIs
    <3>4. ASSUME NEW u \in Marks', u \notin Marks PROVE Behind(u)'
      <4>1. u.what = "image" /\ u.batch = s.batch /\ u.file = s.file
        BY <3>2, <3>4, EntryKinds
      <4>2. u.batch <= Current
        BY <3>1, <4>1
      <4> QED BY <3>1, <3>2, <3>3, <4>1, <4>2 DEF Behind
    <3>5. ASSUME NEW u \in Marks PROVE Behind(u)'
      BY <3>2, <3>3 DEF Checkpointed, Behind
    <3> QED BY <3>4, <3>5 DEF Checkpointed
  <2> QED BY <2>1, <2>2, <1>10, ShareMoves
<1>11. CASE Shared
  <2>1. Marks' = Marks /\ Current' = Current
    BY <1>11, SharedMoves, MarksStill DEF OnlyLane, Current
  <2>2. \A f \in Files : rows[f].stage = "completing" => rows'[f].stage = "completing"
    BY <1>11, SharedMoves DEF RowIs, Holds
  <2> QED BY <2>1, <2>2, SameMarks
<1>12. CASE Refused
  <2> DEFINE sent == Image(s.batch, s.file, s.attempt)
  <2>1. /\ UNCHANGED <<thread, job, round>> /\ s.batch = Current /\ s.file \in Files
        /\ sent \in inflight /\ inflight' = inflight \ {sent}
    BY <1>12, RefusedMoves DEF OnlyLane, Lane, OneFile
  <2>2. Current' = Current /\ Marks' \subseteq Marks
    BY <2>1 DEF Current, Marks, Places
  <2>3. CASE UNCHANGED rows
    BY <2>2, <2>3, SameMarks
  <2>4. CASE RowIs(s.file, "transferring", rows[s.file].attempt, rows[s.file].done,
                   rows[s.file].checks)
    <3>1. \A f \in Files : f # s.file => rows'[f] = rows[f]
      BY <2>4 DEF RowIs
    <3>2. ASSUME NEW u \in Marks', u.what = "image", u.batch = Current
          PROVE  u.file # s.file
      <4>1. (u \in inflight /\ u # sent) \/ \E i \in Places : u = thread[i]
        BY <2>1 DEF Marks, Places
      <4>2. u.file = s.file => Same(sent, u) /\ Same(u, sent)
        BY <2>1, <3>2, EntryKinds DEF Same
      <4> QED BY <2>1, <4>1, <4>2 DEF OneEach
    <3>3. ASSUME NEW u \in Marks' PROVE Behind(u)'
      BY <2>2, <3>1, <3>2 DEF Checkpointed, Behind
    <3> QED BY <3>3 DEF Checkpointed
  <2> QED BY <2>3, <2>4, <1>12, RefusedMoves
<1>13. CASE Lost
  <2>1. UNCHANGED <<thread, rows, job, round>> /\ Marks' \subseteq Marks
    BY <1>13, LostMoves DEF OnlyLane, Marks, Places
  <2> QED BY <2>1, SameMarks DEF Current
<1>14. CASE Ask
  <2>1. UNCHANGED <<thread, rows, job, round>> /\ Marks' \subseteq Marks \cup {Prompt(s.batch)}
    BY <1>14, AskMoves DEF Marks, Places
  <2> QED BY <2>1, SameMarks, EntryKinds DEF Current
<1>15. CASE Present
  <2>1. UNCHANGED <<rows, inflight, thread, round>>
    BY <1>15, PresentMoves
  <2>2. UNCHANGED job \/ (job.state # "completed" /\ job'.state # "completed")
    BY <1>15, PresentMoves DEF JobIs
  <2> QED BY <2>1, <2>2, MarksStill, SameMarks DEF Current
<1>16. ASSUME NEW m \in Msgs, StageReply(m) PROVE Checkpointed'
  <2>1. Current' = Current /\ Marks' = Marks /\ rows' = rows
    BY <1>16, StageReplyMoves, MarksStill DEF Current, JobIs, Deck
  <2> QED BY <2>1, SameMarks
<1>17. ASSUME NEW m \in Msgs, StageStop(m) PROVE Checkpointed'
  <2>1. Current' = Current /\ Marks' = Marks
    BY <1>17, StageStopMoves, MarksStill DEF Current, JobIs, Ended
  <2> QED BY <2>1, <1>17, StageStopMoves, SameMarks DEF RowsSettle
<1>18. ASSUME NEW m \in Msgs, Say(m) PROVE Checkpointed'
  <2>1. UNCHANGED <<rows, job, round>> /\ Marks' = Marks \cup {Said(m)}
    BY <1>18, SayMoves, MarksLand
  <2> QED BY <2>1, SameMarks, EntryKinds DEF Current
<1>19. ASSUME NEW u, Lands(u) PROVE Checkpointed'
  <2>1. UNCHANGED <<rows, job, round>> /\ Marks' = Marks
    BY <1>19, LandsMoves, MarksLand
  <2> QED BY <2>1, SameMarks DEF Current
<1>20. CASE \/ BeginApproval \/ Look \/ StepFails \/ Dies \/ Asked \/ BeginResult \/ Body
            \/ Finish
            \/ UNCHANGED vars
  <2>1. UNCHANGED <<inflight, thread, job, round, rows>>
    BY <1>20 DEF vars, BeginApproval, Look, StepFails, Dies, Asked, BeginResult, Body, Finish
  <2> QED BY <2>1, MarksStill DEF Checkpointed, Behind, Current
<1> QED BY <1>1, <1>2, <1>3, <1>4, <1>5, <1>6, <1>7, <1>8, <1>9, <1>10, <1>11, <1>12, <1>13,
    <1>14, <1>15, <1>16, <1>17, <1>18, <1>19, <1>20 DEF Next, RunnerStep, LaneStep

\* OneEach is kept: a file is sent from "uploaded", where nothing marks it yet.
LEMMA OneEachStep ==
  ASSUME Types, Course, Lane, Sending, Checkpointed, OneEach, [Next]_vars
  PROVE  OneEach'
<1>1. CASE Share
  <2> DEFINE sent == Image(s.batch, s.file, s.attempt)
  <2>1. CASE UNCHANGED inflight
    BY <2>1, <1>1, ShareMoves DEF OneEach, OnlyLane, Places
  <2>2. CASE Holds("uploaded") /\ inflight' = inflight \cup {sent}
    <3>1. thread' = thread /\ s.batch = Current /\ s.file \in Files
            /\ rows[s.file].stage # "completing"
      BY <2>2, <1>1, ShareMoves DEF OnlyLane, Lane, OneFile, Holds
    <3>2. ASSUME NEW u \in Marks PROVE ~Same(sent, u) /\ ~Same(u, sent)
      BY <3>1, EntryKinds DEF Checkpointed, Behind, Same
    <3>3. /\ \A u \in inflight : ~Same(sent, u) /\ ~Same(u, sent)
          /\ \A i \in Places : ~Same(sent, thread[i])
      BY <3>2 DEF Marks
    <3> QED BY <2>2, <3>1, <3>3 DEF OneEach, Places
  <2> QED BY <2>1, <2>2, <1>1, ShareMoves
<1>2. CASE Refused
  BY <1>2, RefusedMoves DEF OneEach, OnlyLane, Places
<1>3. CASE Lost
  BY <1>3, LostMoves DEF OneEach, OnlyLane, Places
<1>4. CASE Ask
  <2>1. inflight' \subseteq inflight \cup {Prompt(s.batch)} /\ thread' = thread
    BY <1>4, AskMoves
  <2> QED BY <2>1, EntryKinds DEF OneEach, Places, Same
<1>5. ASSUME NEW m \in Msgs, Say(m) PROVE OneEach'
  <2>1. inflight' = inflight /\ Grown(Said(m))
    BY <1>5, SayMoves
  <2> QED BY <2>1, EntryKinds DEF OneEach, Grown, Same
<1>6. ASSUME NEW u, Lands(u) PROVE OneEach'
  <2>1. u \in inflight /\ inflight' = inflight \ {u} /\ Grown(u)
    BY <1>6, LandsMoves
  <2>2. ASSUME NEW y \in inflight', NEW i \in Places' PROVE ~Same(y, thread'[i])
    <3>1. y \in inflight /\ y # u
      BY <2>1
    <3> QED BY <2>1, <3>1 DEF OneEach, Grown
  <2>3. ASSUME NEW i \in Places', NEW j \in Places', Same(thread'[i], thread'[j]) PROVE i = j
    BY <2>1, <2>3 DEF OneEach, Grown, Same
  <2> QED BY <2>1, <2>2, <2>3 DEF OneEach
<1>7. CASE \/ Propose \/ Park \/ ParkRaces \/ Claim \/ Complete \/ Cancel \/ BeginApproval
           \/ Look \/ Inspect \/ Target \/ Uploaded \/ Shared \/ StepFails \/ Dies
           \/ Asked \/ Present \/ BeginResult \/ Body \/ Finish
           \/ \E m \in Msgs : StageReply(m) \/ StageStop(m)
           \/ UNCHANGED vars
  <2>1. UNCHANGED <<inflight, thread>>
    BY <1>7 DEF vars, Propose, Park, ParkRaces, Claim, Complete, Cancel, BeginApproval, Look,
          Inspect, Target, Uploaded, Shared, StepFails, Dies, Asked, Present, BeginResult, Body,
          Finish, StageReply, StageStop
  <2> QED BY <2>1 DEF OneEach, Places
<1> QED BY <1>1, <1>2, <1>3, <1>4, <1>5, <1>6, <1>7 DEF Next, RunnerStep, LaneStep

\* The rows change their batch only when the job parks or completes.
LEMMA SameBatch ==
  ASSUME Types, Course, Lane, Sending, Revisions, [Next]_vars
  PROVE  (Park \/ Complete \/ Current' = Current)
<1>1. CASE Propose
  BY <1>1, ProposeMoves DEF JobIs, Deck, Current
<1>2. CASE Park
  BY <1>2
<1>3. CASE ParkRaces
  BY <1>3, ParkRacesMoves DEF JobIs, Deck, Current
<1>4. CASE Claim
  BY <1>4, ClaimMoves DEF JobIs, Deck, Current
<1>5. CASE Complete
  BY <1>5
<1>6. CASE Cancel
  BY <1>6, CancelMoves DEF Current, JobIs, Ended
<1>7. CASE Inspect
  <2>1. CASE UNCHANGED job
    BY <2>1, <1>7, InspectMoves DEF Current
  <2>2. CASE s.batch \in Rounds /\ JobIs("failed", job.rev, job.proposed, job.cancel)
    <3>1. s.batch = Current /\ s.batch # ResultBatch
      BY <2>2, <1>7, InspectMoves, Shapes DEF Lane, OneFile
    <3> QED BY <2>2, <3>1, <1>7, InspectMoves DEF Current, JobIs
  <2> QED BY <2>1, <2>2, <1>7, InspectMoves
<1>8. CASE Present
  BY <1>8, PresentMoves DEF JobIs, LaneIs, RequestIs, Current
<1>9. ASSUME NEW m \in Msgs, StageReply(m) PROVE (Park \/ Complete \/ Current' = Current)
  BY <1>9, StageReplyMoves DEF JobIs, RequestIs, Deck, Current
<1>10. ASSUME NEW m \in Msgs, StageStop(m) PROVE (Park \/ Complete \/ Current' = Current)
  BY <1>10, StageStopMoves DEF Current, JobIs, Ended
<1>11. CASE \/ BeginApproval \/ Look \/ Target \/ Uploaded \/ Share \/ Shared \/ Refused
            \/ Lost \/ StepFails \/ Dies \/ Ask \/ Asked \/ BeginResult \/ Body
            \/ Finish
            \/ \E m \in Msgs : Say(m)
            \/ \E u \in inflight \cup Awaited : Lands(u)
            \/ UNCHANGED vars
  <2>1. UNCHANGED <<job, round>>
    BY <1>11 DEF vars, BeginApproval, Look, Target, Uploaded, Share, Shared, Refused, Lost,
          StepFails, Dies, Ask, Asked, BeginResult, Body, Finish, Say, Lands
  <2> QED BY <2>1 DEF Current
<1> QED BY <1>1, <1>2, <1>3, <1>4, <1>5, <1>6, <1>7, <1>8, <1>9, <1>10, <1>11 DEF Next,
       RunnerStep, LaneStep

\* What was shown stays in the thread.
LEMMA ShownStays ==
  ASSUME Types, [Next]_vars
  PROVE  (\A b, f : ShownFor(b, f) \subseteq ShownFor(b, f)')
<1>1. ASSUME NEW m \in Msgs, Say(m) PROVE (\A b, f : ShownFor(b, f) \subseteq ShownFor(b, f)')
  BY <1>1, SayMoves, Showing
<1>2. ASSUME NEW u, Lands(u) PROVE (\A b, f : ShownFor(b, f) \subseteq ShownFor(b, f)')
  BY <1>2, LandsMoves, Showing
<1>3. CASE \/ Propose \/ Park \/ ParkRaces \/ Claim \/ Complete \/ Cancel \/ BeginApproval
           \/ Look \/ Inspect \/ Target \/ Uploaded \/ Share \/ Shared \/ Refused
           \/ Lost \/ StepFails \/ Dies \/ Ask \/ Asked \/ Present \/ BeginResult
           \/ Body \/ Finish
           \/ \E m \in Msgs : StageReply(m) \/ StageStop(m)
           \/ UNCHANGED vars
  <2>1. UNCHANGED <<thread>>
    BY <1>3 DEF vars, Propose, Park, ParkRaces, Claim, Complete, Cancel, BeginApproval, Look,
          Inspect, Target, Uploaded, Share, Shared, Refused, Lost, StepFails, Dies, Ask, Asked,
          Present, BeginResult, Body, Finish, StageReply, StageStop
  <2> QED BY <2>1, Still DEF ShownFor
<1> QED BY <1>1, <1>2, <1>3 DEF Next, RunnerStep, LaneStep

\* Of a fresh batch nothing is delivered.
LEMMA DeliveredFresh == ASSUME \A f \in Files : rows'[f] = Fresh PROVE Delivered'
BY DEF Delivered, Fresh

\* A step keeps Delivered when each file it delivers is in the thread.
LEMMA DeliveredKeeps ==
  ASSUME Types, Course, Lane, Sending, Revisions, Delivered, [Next]_vars,
         \A f \in Files : rows'[f].done = "delivered" =>
           rows[f].done = "delivered" \/ ShownFor(Current, f) # {}
  PROVE  Delivered'
<1>1. CASE Park
  BY <1>1, ParkMoves, DeliveredFresh
<1>2. CASE Complete
  BY <1>2, CompleteMoves, DeliveredFresh
<1>3. CASE Current' = Current
  <2> SUFFICES ASSUME NEW f \in Files, rows'[f].done = "delivered"
               PROVE  ShownFor(Current, f)' # {}
    BY DEF Delivered
  <2>1. ShownFor(Current, f) # {}
    BY DEF Delivered
  <2> DEFINE b == Current
  <2>2. ShownFor(Current, f) \subseteq ShownFor(Current, f)'
    BY <1>3, ShownStays
  <2> QED BY <2>1, <2>2
<1> QED BY <1>1, <1>2, <1>3, SameBatch

\* Delivered is kept.
LEMMA DeliveredStep ==
  ASSUME Types, Course, Lane, Sending, Delivered, Revisions, [Next]_vars
  PROVE  Delivered'
<1>1. CASE Park
  BY <1>1, ParkMoves, DeliveredFresh
<1>2. CASE Complete
  BY <1>2, CompleteMoves, DeliveredFresh
<1>3. CASE Cancel
  <2>1. \A f \in Files : rows'[f].done = "delivered" => rows[f].done = "delivered"
    BY <1>3, CancelMoves DEF RowsSettle
  <2> QED BY <2>1, DeliveredKeeps
<1>4. CASE Inspect
  <2>1. s.batch = Current /\ s.file \in Files
    BY <1>4, InspectMoves DEF Lane, OneFile
  <2>2. \A f \in Files : rows'[f].done = "delivered" =>
          rows[f].done = "delivered" \/ ShownFor(s.batch, f) # {}
    BY <1>4, InspectMoves DEF RowIs
  <2> QED BY <2>1, <2>2, DeliveredKeeps
<1>5. CASE Target
  <2>1. \A f \in Files : rows'[f].done = "delivered" => rows[f].done = "delivered"
    BY <1>5, TargetMoves DEF RowIs
  <2> QED BY <2>1, DeliveredKeeps
<1>6. CASE Uploaded
  <2>1. \A f \in Files : rows'[f].done = "delivered" => rows[f].done = "delivered"
    BY <1>6, UploadedMoves DEF RowIs
  <2> QED BY <2>1, DeliveredKeeps
<1>7. CASE Share
  <2>1. \A f \in Files : rows'[f].done = "delivered" => rows[f].done = "delivered"
    BY <1>7, ShareMoves DEF RowIs
  <2> QED BY <2>1, DeliveredKeeps
<1>8. CASE Shared
  <2>1. s.batch = Current /\ s.file \in Files /\ s.step = "sharing"
    BY <1>8, SharedMoves DEF Lane, OneFile
  <2>2. ShownFor(s.batch, s.file) # {}
    <3>1. PICK i \in Places : thread[i] = Image(s.batch, s.file, s.attempt)
      BY <1>8, <2>1, SharedMoves DEF Sending, Marks
    <3> QED BY <3>1, EntryKinds DEF ShownFor
  <2>3. \A f \in Files : rows'[f].done = "delivered" => rows[f].done = "delivered" \/ f = s.file
    BY <1>8, SharedMoves DEF RowIs
  <2> QED BY <2>1, <2>2, <2>3, DeliveredKeeps
<1>9. CASE Refused
  <2>1. \A f \in Files : rows'[f].done = "delivered" => rows[f].done = "delivered"
    BY <1>9, RefusedMoves DEF RowIs
  <2> QED BY <2>1, DeliveredKeeps
<1>10. ASSUME NEW m \in Msgs, StageStop(m) PROVE Delivered'
  <2>1. \A f \in Files : rows'[f].done = "delivered" => rows[f].done = "delivered"
    BY <1>10, StageStopMoves DEF RowsSettle
  <2> QED BY <2>1, DeliveredKeeps
<1>11. CASE \/ Propose \/ ParkRaces \/ Claim \/ BeginApproval \/ Look \/ Lost \/ StepFails
            \/ Dies \/ Ask \/ Asked \/ Present \/ BeginResult \/ Body \/ Finish
            \/ \E m \in Msgs : StageReply(m) \/ Say(m)
            \/ \E u \in inflight \cup Awaited : Lands(u)
            \/ UNCHANGED vars
  <2>1. UNCHANGED <<rows>>
    BY <1>11 DEF vars, Propose, ParkRaces, Claim, BeginApproval, Look, Lost, StepFails, Dies,
          Ask, Asked, Present, BeginResult, Body, Finish, StageReply, Say, Lands
  <2> QED BY <2>1, DeliveredKeeps
<1> QED BY <1>1, <1>2, <1>3, <1>4, <1>5, <1>6, <1>7, <1>8, <1>9, <1>10, <1>11 DEF Next,
       RunnerStep, LaneStep

\* A step that shows nothing keeps QuestionsFollow when a question it sends follows its images.
LEMMA FollowKeeps ==
  ASSUME QuestionsFollow, UNCHANGED thread,
         \A u \in inflight' : \/ u \in inflight
                              \/ u.what # "prompt"
                              \/ u = Prompt(u.batch) /\ \A f \in Files : ShownFor(u.batch, f) # {}
  PROVE  QuestionsFollow'
BY DEF QuestionsFollow, ShownFor, Places

\* So does one that shows something, when a question that appears follows its images.
LEMMA FollowGrows ==
  ASSUME Types, QuestionsFollow, NEW u, Grown(u), inflight' \subseteq inflight,
         \A b : u = Prompt(b) => \A f \in Files : ShownFor(b, f) # {}
  PROVE  QuestionsFollow'
<1>1. ASSUME NEW y \in inflight', y.what = "prompt"
      PROVE  y = Prompt(y.batch) /\ \A f \in Files : ShownFor(y.batch, f)' # {}
  <2>1. y = Prompt(y.batch) /\ \A f \in Files : ShownFor(y.batch, f) # {}
    BY <1>1 DEF QuestionsFollow
  <2> QED BY <2>1, Showing
<1>2. ASSUME NEW b \in Batches, NEW i \in Places', NEW f \in Files, thread'[i] = Prompt(b)
      PROVE  \E j \in ShownFor(b, f)' : j < i
  <2>1. ShownFor(b, f) \subseteq ShownFor(b, f)' /\ ShownFor(b, f) \subseteq Places
    BY Showing DEF ShownFor
  <2>2. CASE i \in Places
    <3>1. thread[i] = Prompt(b)
      BY <1>2, <2>2 DEF Grown
    <3>2. PICK j \in ShownFor(b, f) : j < i
      BY <2>2, <3>1 DEF QuestionsFollow
    <3> QED BY <2>1, <3>2
  <2>3. CASE i = Len(thread) + 1
    <3>1. u = Prompt(b)
      BY <1>2, <2>3 DEF Grown
    <3>2. PICK j \in ShownFor(b, f) : TRUE
      BY <3>1
    <3> QED BY <2>1, <2>3, <3>2 DEF Grown
  <2> QED BY <2>2, <2>3 DEF Grown
<1> QED BY <1>1, <1>2 DEF QuestionsFollow

\* QuestionsFollow is kept.
LEMMA QuestionsFollowStep ==
  ASSUME Types, Course, Lane, Sending, QuestionsFollow, Delivered, [Next]_vars
  PROVE  QuestionsFollow'
<1>1. CASE Share
  <2>1. thread' = thread /\ inflight' \subseteq inflight \cup {Image(s.batch, s.file, s.attempt)}
    BY <1>1, ShareMoves DEF OnlyLane
  <2>2. ASSUME NEW u \in inflight' PROVE u \in inflight \/ u.what # "prompt"
    BY <2>1, EntryKinds
  <2> QED BY <2>1, <2>2, FollowKeeps
<1>2. CASE Refused
  BY <1>2, RefusedMoves, FollowKeeps DEF OnlyLane
<1>3. CASE Lost
  BY <1>3, LostMoves, FollowKeeps DEF OnlyLane
<1>4. CASE Ask
  <2>1. CASE UNCHANGED inflight
    BY <2>1, <1>4, AskMoves, FollowKeeps
  <2>2. CASE /\ Publishable(s.batch) /\ inflight' = inflight \cup {Prompt(s.batch)}
    <3>1. s.batch \in Rounds /\ s.step = "prompt" /\ thread' = thread
      BY <1>4, AskMoves
    <3>2. reqs[s.batch].status = "publishing"
      BY <2>2, <3>1, PublishingOnly
    <3>3. s.batch = Current
      BY <3>1, <3>2 DEF Course, Current
    <3>4. \A f \in Files : ShownFor(s.batch, f) # {}
      BY <3>1, <3>3 DEF Lane, Delivered
    <3>5. Prompt(s.batch).batch = s.batch
      BY EntryKinds
    <3>6. ASSUME NEW u \in inflight', u \notin inflight
          PROVE  u = Prompt(u.batch) /\ \A f \in Files : ShownFor(u.batch, f) # {}
      <4>1. u = Prompt(s.batch) /\ u.batch = s.batch
        BY <2>2, <3>5, <3>6
      <4> QED BY <3>4, <4>1
    <3> QED BY <3>1, <3>6, FollowKeeps
  <2> QED BY <2>1, <2>2, <1>4, AskMoves
<1>5. ASSUME NEW m \in Msgs, Say(m) PROVE QuestionsFollow'
  <2>1. Grown(Said(m)) /\ inflight' = inflight
    BY <1>5, SayMoves
  <2>2. \A b : Said(m) # Prompt(b)
    BY EntryKinds DEF Prompt
  <2> QED BY <2>1, <2>2, FollowGrows
<1>6. ASSUME NEW u, Lands(u) PROVE QuestionsFollow'
  <2>1. Grown(u) /\ u \in inflight /\ inflight' \subseteq inflight
    BY <1>6, LandsMoves
  <2>2. ASSUME NEW b, u = Prompt(b) PROVE \A f \in Files : ShownFor(b, f) # {}
    <3>1. u.what = "prompt" /\ u.batch = b
      BY <2>2 DEF Prompt
    <3> QED BY <2>1, <3>1 DEF QuestionsFollow
  <2> QED BY <2>1, <2>2, FollowGrows
<1>7. CASE \/ Propose \/ Park \/ ParkRaces \/ Claim \/ Complete \/ Cancel \/ BeginApproval
           \/ Look \/ Inspect \/ Target \/ Uploaded \/ Shared \/ StepFails \/ Dies
           \/ Asked \/ Present \/ BeginResult \/ Body \/ Finish
           \/ \E m \in Msgs : StageReply(m) \/ StageStop(m)
           \/ UNCHANGED vars
  <2>1. UNCHANGED <<inflight, thread>>
    BY <1>7 DEF vars, Propose, Park, ParkRaces, Claim, Complete, Cancel, BeginApproval, Look,
          Inspect, Target, Uploaded, Shared, StepFails, Dies, Asked, Present, BeginResult, Body,
          Finish, StageReply, StageStop
  <2> QED BY <2>1, FollowKeeps
<1> QED BY <1>1, <1>2, <1>3, <1>4, <1>5, <1>6, <1>7 DEF Next, RunnerStep, LaneStep

\* The counters are numbers.
LEMMA Numbers ==
  ASSUME Types
  PROVE  /\ faults \in Nat /\ MaxFaults \in Nat /\ faults <= MaxFaults
         /\ MaxChecks \in Nat /\ MaxChecks >= 1
         /\ s.attempt \in Nat
         /\ \A f \in Files : rows[f].attempt \in Nat /\ rows[f].checks \in Nat
BY ArtifactDeliveryAssumption DEF Types, Rows, Lanes

\* A fresh batch has no attempt.
LEMMA AttemptsFresh ==
  ASSUME Types, \A f \in Files : rows'[f] = Fresh, UNCHANGED <<s, faults>>, s.step # "bytes"
  PROVE  Attempts'
BY Numbers DEF Attempts, Fresh

\* Giving files up is no attempt.
LEMMA AttemptsSettle ==
  ASSUME Types, Lane, Attempts, UNCHANGED <<s, faults>>, UNCHANGED rows \/ RowsSettle
  PROVE  Attempts'
BY Numbers, FileOf DEF Attempts, RowsSettle

\* Attempts is kept.
LEMMA AttemptsStep ==
  ASSUME Types, Course, Lane, Sending, Attempts, Revisions, [Next]_vars
  PROVE  Attempts'
<1>1. CASE Park
  <2>1. s.step # "bytes"
    BY <1>1, ParkMoves, Shapes DEF Lane, OneFile, Ended
  <2> QED BY <2>1, <1>1, ParkMoves, AttemptsFresh
<1>2. CASE Complete
  <2>1. s.step # "bytes"
    BY <1>2, CompleteMoves, Shapes DEF Lane, OneFile, Ended
  <2> QED BY <2>1, <1>2, CompleteMoves, AttemptsFresh
<1>3. CASE Cancel
  <2>1. UNCHANGED <<s, faults>> /\ (UNCHANGED rows \/ RowsSettle)
    BY <1>3, CancelMoves
  <2> QED BY <2>1, AttemptsSettle
<1>4. CASE BeginApproval
  BY <1>4, BeginApprovalMoves, Numbers DEF LaneIs, OnlyLane, Attempts
<1>5. CASE Look
  BY <1>5, LookMoves, Numbers DEF LaneIs, Onward, OnlyLane, Attempts
<1>6. CASE Inspect
  <2>1. s.step = "inspect" /\ s.file \in Files /\ faults' = faults
    BY <1>6, InspectMoves
  <2>2. s'.step # "bytes"
    BY <1>6, InspectMoves DEF LaneIs, Onward
  <2>4. s.batch \in Rounds /\ rows[s.file].done = "no" => reqs[s.batch].status = "publishing"
    BY <2>1, Shapes DEF Lane, OneFile, Current, Course
  <2>3. ASSUME NEW f \in Files
        PROVE  /\ rows'[f].attempt = rows[f].attempt /\ rows'[f].stage = rows[f].stage
               /\ rows'[f].done = "no" => rows[f].done = "no"
               /\ \/ rows'[f].checks = rows[f].checks
                  \/ /\ rows'[f].checks = rows[f].checks + 1 /\ rows[f].done = "no"
                     /\ rows'[f].done = "no" => rows[f].checks + 1 < MaxChecks
    BY <2>1, <2>4, <1>6, InspectMoves DEF RowIs
  <2> QED BY <2>1, <2>2, <2>3, Numbers DEF Attempts
<1>7. CASE Target
  BY <1>7, TargetMoves, Numbers DEF LaneIs, RowIs, OnlyLane, Attempts
<1>8. CASE Uploaded
  BY <1>8, UploadedMoves, Numbers DEF LaneIs, RowIs, OnlyLane, Holds, Attempts
<1>9. CASE Share
  BY <1>9, ShareMoves, Numbers DEF LaneIs, RowIs, OnlyLane, Holds, Attempts
<1>10. CASE Shared
  BY <1>10, SharedMoves, Numbers DEF LaneIs, RowIs, Onward, OnlyLane, Attempts
<1>11. CASE Refused
  BY <1>11, RefusedMoves, Numbers DEF LaneIs, RowIs, OneFault, OnlyLane, Attempts
<1>12. CASE Lost
  BY <1>12, LostMoves, Numbers DEF LaneIs, Onward, OneFault, OnlyLane, Attempts
<1>13. CASE StepFails
  BY <1>13, StepFailsMoves, Numbers DEF LaneIs, OneFault, OnlyLane, Attempts
<1>14. CASE Dies
  BY <1>14, DiesMoves, Numbers DEF LaneIs, OneFault, OnlyLane, Attempts
<1>15. CASE Ask
  BY <1>15, AskMoves, Numbers DEF LaneIs, RequestIs, Attempts
<1>16. CASE Asked
  BY <1>16, AskedMoves, Numbers DEF LaneIs, RequestIs, Attempts
<1>17. CASE Present
  BY <1>17, PresentMoves, Numbers DEF JobIs, LaneIs, RequestIs, Attempts
<1>18. CASE BeginResult
  BY <1>18, BeginResultMoves, Numbers DEF LaneIs, OnlyLane, Attempts
<1>19. CASE Body
  BY <1>19, BodyMoves, Numbers DEF LaneIs, Attempts
<1>20. CASE Finish
  BY <1>20, FinishMoves, Numbers DEF LaneIs, Attempts
<1>21. ASSUME NEW m \in Msgs, StageStop(m) PROVE Attempts'
  <2>1. UNCHANGED <<s, faults>> /\ (UNCHANGED rows \/ RowsSettle)
    BY <1>21, StageStopMoves
  <2> QED BY <2>1, AttemptsSettle
<1>22. CASE \/ Propose \/ ParkRaces \/ Claim
            \/ \E m \in Msgs : StageReply(m) \/ Say(m)
            \/ \E u \in inflight \cup Awaited : Lands(u)
            \/ UNCHANGED vars
  <2>1. UNCHANGED <<rows, s, faults>>
    BY <1>22 DEF vars, Propose, ParkRaces, Claim, StageReply, Say, Lands
  <2> QED BY <2>1 DEF Attempts
<1> QED BY <1>1, <1>2, <1>3, <1>4, <1>5, <1>6, <1>7, <1>8, <1>9, <1>10, <1>11, <1>12, <1>13,
    <1>14, <1>15, <1>16, <1>17, <1>18, <1>19, <1>20, <1>21, <1>22 DEF Next, RunnerStep, LaneStep

\* The replies that were read can be counted.
LEMMA Counted ==
  ASSUME Types
  PROVE  /\ IsFiniteSet(staged \cap Steers) /\ Cardinality(staged \cap Steers) \in Nat
         /\ Cardinality(staged \cap Steers) <= Cardinality(Steers) /\ Cardinality(Steers) \in Nat
<1>1. IsFiniteSet(Steers) /\ staged \cap Steers \subseteq Steers
  BY ArtifactDeliveryAssumption
<1> QED BY <1>1, FS_Subset, FS_CardinalityType

\* Reading one more.
LEMMA CountsOn ==
  ASSUME Types, NEW m, staged' = staged \cup {m}
  PROVE  /\ Cardinality(staged' \cap Steers) \in Nat
         /\ Cardinality(staged \cap Steers) <= Cardinality(staged' \cap Steers)
         /\ m \in Steers \ staged =>
              Cardinality(staged' \cap Steers) = Cardinality(staged \cap Steers) + 1
<1>1. IsFiniteSet(staged \cap Steers) /\ Cardinality(staged \cap Steers) \in Nat
  BY Counted
<1>2. CASE m \in Steers \ staged
  <2>1. staged' \cap Steers = (staged \cap Steers) \cup {m} /\ m \notin staged \cap Steers
    BY <1>2
  <2>2. Cardinality((staged \cap Steers) \cup {m}) = Cardinality(staged \cap Steers) + 1
    BY <1>1, <2>1, FS_AddElement
  <2> QED BY <1>1, <2>1, <2>2
<1>3. CASE m \notin Steers \ staged
  <2>1. staged' \cap Steers = staged \cap Steers
    BY <1>3
  <2> QED BY <1>1, <1>3, <2>1
<1> QED BY <1>2, <1>3

\* The revisions are numbers.
LEMMA Revises == ASSUME Types PROVE job.rev \in Nat /\ job.proposed \in Nat /\ round \in Nat
BY Shapes DEF Types, Jobs

\* Revisions is kept.
LEMMA RevisionsStep ==
  ASSUME Types, Course, Lane, Sending, Revisions, [Next]_vars
  PROVE  Revisions'
<1>1. CASE Propose
  <2>1. HasSaid' = HasSaid /\ UNCHANGED <<round, staged>>
    BY <1>1, ProposeMoves, Still DEF Deck
  <2> QED BY <2>1, <1>1, ProposeMoves, Revises DEF JobIs, Revisions
<1>2. CASE Park
  <2>1. HasSaid' = HasSaid /\ staged' = staged
    BY <1>2, ParkMoves, Still
  <2>2. job'.rev = job.rev /\ job'.proposed = 0
    BY <1>2, ParkMoves DEF JobIs
  <2> QED BY <2>1, <2>2, Revises DEF Revisions
<1>3. CASE ParkRaces
  <2>1. HasSaid' = HasSaid /\ UNCHANGED <<round, staged>>
    BY <1>3, ParkRacesMoves, Still DEF Deck
  <2> QED BY <2>1, <1>3, ParkRacesMoves, Revises DEF JobIs, Revisions
<1>4. CASE Claim
  <2>1. HasSaid' = HasSaid /\ UNCHANGED <<round, staged>>
    BY <1>4, ClaimMoves, Still DEF Deck
  <2> QED BY <2>1, <1>4, ClaimMoves, Revises DEF JobIs, Revisions
<1>5. CASE Complete
  <2>1. HasSaid' = HasSaid /\ UNCHANGED <<round, staged>>
    BY <1>5, CompleteMoves, Still DEF Deck
  <2> QED BY <2>1, <1>5, CompleteMoves, Revises DEF JobIs, Revisions
<1>6. CASE Cancel
  <2>1. HasSaid' = HasSaid /\ UNCHANGED <<round, staged>>
    BY <1>6, CancelMoves, Still DEF Deck
  <2> QED BY <2>1, <1>6, CancelMoves, Revises DEF JobIs, Revisions
<1>7. CASE Inspect
  <2>1. HasSaid' = HasSaid /\ UNCHANGED <<round, staged>>
    BY <1>7, InspectMoves, Still DEF Deck
  <2> QED BY <2>1, <1>7, InspectMoves, Revises DEF JobIs, Revisions
<1>8. CASE Present
  <2>1. HasSaid' = HasSaid /\ UNCHANGED <<round, staged>>
    BY <1>8, PresentMoves, Still DEF Deck
  <2> QED BY <2>1, <1>8, PresentMoves, Revises DEF JobIs, Revisions
<1>9. ASSUME NEW m \in Msgs, StageReply(m) PROVE Revisions'
  <2>1. HasSaid' = HasSaid /\ m \in Steers \ staged /\ m \in HasSaid /\ staged' = staged \cup {m}
    BY <1>9, StageReplyMoves, Still DEF Deck, Unread
  <2>2. job.rev \in Nat /\ job.proposed \in Nat /\ round' = round
    BY <1>9, StageReplyMoves, Revises
  <2>3. job' = job \/ (job'.rev = job.rev + 1 /\ job'.proposed = job.proposed)
    BY <1>9, StageReplyMoves DEF JobIs
  <2>4. /\ Cardinality(staged' \cap Steers) = Cardinality(staged \cap Steers) + 1
        /\ Cardinality(staged \cap Steers) \in Nat
    BY <2>1, CountsOn, Counted
  <2> QED BY <2>1, <2>2, <2>3, <2>4 DEF Revisions
<1>10. ASSUME NEW m \in Msgs, StageStop(m) PROVE Revisions'
  <2>1. HasSaid' = HasSaid /\ m \in HasSaid /\ staged' = staged \cup {m}
    BY <1>10, StageStopMoves, Still DEF Unread
  <2>2. job.rev \in Nat /\ job.proposed \in Nat /\ round' = round
    BY <1>10, StageStopMoves, Revises
  <2>3. job'.rev = job.rev /\ job'.proposed = job.proposed
    BY <1>10, StageStopMoves DEF JobIs
  <2>4. /\ Cardinality(staged \cap Steers) <= Cardinality(staged' \cap Steers)
        /\ Cardinality(staged' \cap Steers) \in Nat /\ Cardinality(staged \cap Steers) \in Nat
    BY <2>1, CountsOn, Counted
  <2> QED BY <2>1, <2>2, <2>3, <2>4 DEF Revisions
<1>11. ASSUME NEW m \in Msgs, Say(m) PROVE Revisions'
  <2>1. HasSaid \subseteq HasSaid' /\ UNCHANGED <<job, round, staged>>
    BY <1>11, SayMoves, Showing
  <2> QED BY <2>1 DEF Revisions
<1>12. ASSUME NEW u, Lands(u) PROVE Revisions'
  <2>1. HasSaid \subseteq HasSaid' /\ UNCHANGED <<job, round, staged>>
    BY <1>12, LandsMoves, Showing
  <2> QED BY <2>1 DEF Revisions
<1>13. CASE \/ BeginApproval \/ Look \/ Target \/ Uploaded \/ Share \/ Shared \/ Refused
            \/ Lost \/ StepFails \/ Dies \/ Ask \/ Asked \/ BeginResult \/ Body
            \/ Finish
            \/ UNCHANGED vars
  <2>1. UNCHANGED <<job, round, staged, thread>>
    BY <1>13 DEF vars, BeginApproval, Look, Target, Uploaded, Share, Shared, Refused, Lost,
          StepFails, Dies, Ask, Asked, BeginResult, Body, Finish
  <2> QED BY <2>1, Still DEF Revisions
<1> QED BY <1>1, <1>2, <1>3, <1>4, <1>5, <1>6, <1>7, <1>8, <1>9, <1>10, <1>11, <1>12, <1>13
    DEF Next, RunnerStep, LaneStep

\* A step that neither delivers a result nor takes a notice back.
LEMMA MissingKeeps ==
  ASSUME NothingMissingSilently, Types, [Next]_vars,
         term' = "delivered" /\ job'.state = "completed" =>
           term = "delivered" /\ job.state = "completed",
         told.notice => told'.notice
  PROVE  NothingMissingSilently'
<1> SUFFICES ASSUME term' = "delivered", job'.state = "completed", NEW f \in Files
             PROVE  ShownFor(ResultBatch, f)' # {} \/ told'.notice
  BY DEF NothingMissingSilently
<1>1. ShownFor(ResultBatch, f) # {} \/ told.notice
  BY DEF NothingMissingSilently
<1>2. ShownFor(ResultBatch, f) \subseteq ShownFor(ResultBatch, f)'
  BY ShownStays
<1> QED BY <1>1, <1>2

\* NothingMissingSilently is kept: Finish looks at every file.
LEMMA NothingMissingStep ==
  ASSUME Types, Course, Lane, Sending, Delivered, NothingMissingSilently, Revisions, [Next]_vars
  PROVE  NothingMissingSilently'
<1>1. CASE Propose
  BY <1>1, ProposeMoves, MissingKeeps DEF JobIs, Deck
<1>2. CASE Park
  BY <1>2, ParkMoves, MissingKeeps DEF JobIs
<1>3. CASE ParkRaces
  BY <1>3, ParkRacesMoves, MissingKeeps DEF JobIs, Deck
<1>4. CASE Claim
  BY <1>4, ClaimMoves, MissingKeeps DEF JobIs, Deck
<1>5. CASE Complete
  BY <1>5, CompleteMoves, MissingKeeps DEF JobIs
<1>6. CASE Cancel
  BY <1>6, CancelMoves, MissingKeeps DEF JobIs, Ended
<1>7. CASE Inspect
  BY <1>7, InspectMoves, MissingKeeps DEF JobIs
<1>8. CASE Present
  BY <1>8, PresentMoves, MissingKeeps DEF JobIs
<1>9. CASE Body
  BY <1>9, BodyMoves, MissingKeeps DEF JobIs
<1>10. CASE Finish
  <2>1. CASE UNCHANGED <<told, term>>
    BY <2>1, <1>10, FinishMoves, MissingKeeps
  <2>2. CASE AllSettled /\ (told'.notice <=> told.notice \/ GivenUp)
    <3>1. UNCHANGED <<job, rows, thread>>
      BY <1>10, FinishMoves
    <3>2. ASSUME job.state = "completed", NEW f \in Files
          PROVE  ShownFor(ResultBatch, f) # {} \/ told'.notice
      <4>1. Current = ResultBatch /\ rows[f].done \in Ends /\ rows[f].done # "no"
        BY <2>2, <3>2 DEF Current, AllSettled, Types, Rows
      <4>2. rows[f].done = "delivered" \/ GivenUp
        BY <3>2, <4>1 DEF Ends, GivenUp
      <4> QED BY <2>2, <4>1, <4>2 DEF Delivered
    <3>3. \A f \in Files : ShownFor(ResultBatch, f)' = ShownFor(ResultBatch, f)
      BY <3>1, Still
    <3> QED BY <3>1, <3>2, <3>3 DEF NothingMissingSilently
  <2> QED BY <2>1, <2>2, <1>10, FinishMoves
<1>11. ASSUME NEW m \in Msgs, StageReply(m) PROVE NothingMissingSilently'
  BY <1>11, StageReplyMoves, MissingKeeps DEF JobIs, Deck, Ended
<1>12. ASSUME NEW m \in Msgs, StageStop(m) PROVE NothingMissingSilently'
  BY <1>12, StageStopMoves, MissingKeeps DEF JobIs, Ended
<1>13. ASSUME NEW m \in Msgs, Say(m) PROVE NothingMissingSilently'
  BY <1>13, SayMoves, MissingKeeps DEF JobIs
<1>14. ASSUME NEW u, Lands(u) PROVE NothingMissingSilently'
  BY <1>14, LandsMoves, MissingKeeps DEF JobIs
<1>15. CASE \/ BeginApproval \/ Look \/ Target \/ Uploaded \/ Share \/ Shared \/ Refused
            \/ Lost \/ StepFails \/ Dies \/ Ask \/ Asked \/ BeginResult
            \/ UNCHANGED vars
  <2>1. UNCHANGED <<term, job, thread, told>>
    BY <1>15 DEF vars, BeginApproval, Look, Target, Uploaded, Share, Shared, Refused, Lost,
          StepFails, Dies, Ask, Asked, BeginResult
  <2> QED BY <2>1, MissingKeeps
<1> QED BY <1>1, <1>2, <1>3, <1>4, <1>5, <1>6, <1>7, <1>8, <1>9, <1>10, <1>11, <1>12, <1>13,
    <1>14, <1>15 DEF Next, RunnerStep, LaneStep

-----------------------------------------------------------------------------
(* The theorem. *)

\* The inductive invariant.
IInv ==
  /\ Types /\ Course /\ Recording /\ Lane /\ PromptIsLast /\ Sending /\ Checkpointed /\ OneEach
  /\ Delivered /\ QuestionsFollow /\ Attempts /\ Revisions /\ NothingMissingSilently

\* It holds at first.
LEMMA InitIInv == Init => IInv
<1> SUFFICES ASSUME Init PROVE IInv
  OBVIOUS
<1>1. Places = {} /\ inflight = {} /\ Marks = {} /\ \A b, f : ShownFor(b, f) = {}
  BY DEF Init, Places, Marks, ShownFor
<1>2. Fresh \in Rows /\ NoRequest \in Requests /\ Idle \in Lanes
  BY Words, Zenon DEF Fresh, NoRequest, Idle, Rows, Requests, Lanes
<1>3. Types
  <2>1. job \in Jobs
    BY Names DEF Init, Jobs
  <2>2. reqs \in [Rounds -> Requests] /\ rows \in [Files -> Rows] /\ s \in Lanes
    BY <1>2 DEF Init
  <2>3. round \in 0 .. MaxRounds /\ faults \in 0 .. MaxFaults
    BY ArtifactDeliveryAssumption DEF Init
  <2>4. told \in [body : BOOLEAN, notice : BOOLEAN]
    BY Zenon DEF Init
  <2>5. inflight \in SUBSET Entries /\ thread \in Seq(Entries) /\ staged \in SUBSET Msgs
    BY DEF Init
  <2>6. term \in {"none", "pending", "delivered"}
    BY DEF Init
  <2> QED BY <2>1, <2>2, <2>3, <2>4, <2>5, <2>6 DEF Types
<1>4. /\ job.state = "running" /\ round = 0 /\ term = "none" /\ s.step = "idle"
      /\ \A r \in Rounds : reqs[r].status = "none" /\ reqs[r].prompt = 0 /\ reqs[r].resp = 0
                           /\ ~reqs[r].after
  BY DEF Init, NoRequest, Idle
<1>5. \A f \in Files : /\ rows[f].stage = "none" /\ rows[f].attempt = 0 /\ rows[f].done = "no"
                       /\ rows[f].checks = 0
  BY DEF Init, Fresh
<1>6. Course /\ Recording /\ NothingMissingSilently
  BY <1>3, <1>4, Shapes DEF Course, Recording, NothingMissingSilently, Ended
<1>7. Lane /\ Sending
  BY <1>4 DEF Lane, Sending, OneFile
<1>8. PromptIsLast /\ Checkpointed /\ OneEach /\ Delivered /\ QuestionsFollow
  BY <1>1, <1>4, <1>5 DEF PromptIsLast, Checkpointed, OneEach, Delivered, QuestionsFollow
<1>9. Attempts
  BY <1>3, <1>4, <1>5, Numbers DEF Attempts
<1>10. Revisions
  <2>1. job.rev = 1 /\ job.proposed = 0 /\ staged = {}
    BY DEF Init
  <2>2. Cardinality(staged \cap Steers) \in Nat
    BY <1>3, Counted
  <2> QED BY <2>1, <2>2 DEF Revisions
<1> QED BY <1>3, <1>6, <1>7, <1>8, <1>9, <1>10 DEF IInv

\* Every step keeps it.
LEMMA IInvStep == IInv /\ [Next]_vars => IInv'
<1> SUFFICES ASSUME IInv, [Next]_vars PROVE IInv'
  OBVIOUS
<1>1. Types' /\ Course' /\ Recording' /\ Lane' /\ PromptIsLast' /\ Sending'
  BY TypesStep, CourseStep, RecordingStep, LaneIsKept, PromptIsLastStep, SendingStep DEF IInv
<1>2. Checkpointed' /\ OneEach' /\ Delivered' /\ QuestionsFollow'
  BY CheckpointedStep, OneEachStep, DeliveredStep, QuestionsFollowStep DEF IInv
<1>3. Attempts' /\ Revisions' /\ NothingMissingSilently'
  BY AttemptsStep, RevisionsStep, NothingMissingStep DEF IInv
<1> QED BY <1>1, <1>2, <1>3 DEF IInv

\* It implies the type invariant,
LEMMA TypesFollow == Types /\ Recording /\ Attempts /\ Revisions => TypeOK
<1> SUFFICES ASSUME Types, Recording, Attempts, Revisions PROVE TypeOK
  OBVIOUS
<1>1. /\ job.state \in {"running", "queued", "parked", "completed", "failed"}
      /\ job.cancel \in BOOLEAN /\ job.goal \in {"done", "waiting"}
      /\ job.rev \in Nat /\ job.proposed \in Nat
  BY Zenon DEF Types, Jobs, States
<1>2. job.rev \in 1 .. 1 + Cardinality(Steers) /\ job.proposed \in 0 .. job.rev
  BY <1>1, Counted DEF Revisions
<1>3. ASSUME NEW r \in Rounds
      PROVE  /\ reqs[r].status \in {"none", "publishing", "awaiting", "responded", "superseded",
                                    "cancelled"}
             /\ reqs[r].prompt \in Places \cup {0} /\ reqs[r].resp \in Places \cup {0}
  BY Shapes, PromptPlaces DEF Recording, Statuses
<1>4. ASSUME NEW f \in Files
      PROVE  rows[f] \in [stage : {"none", "transferring", "uploaded", "completing"},
                          attempt : 0 .. MaxFaults + 1, done : {"no", "delivered", "abandoned"},
                          checks : 0 .. MaxChecks]
  <2>1. rows[f].attempt \in 0 .. MaxFaults + 1 /\ rows[f].checks \in 0 .. MaxChecks
    BY Numbers DEF Attempts
  <2>2. rows[f] \in Rows
    BY DEF Types
  <2> QED BY <2>1, <2>2 DEF Rows, Stages, Ends
<1>5. rows \in [Files -> [stage : {"none", "transferring", "uploaded", "completing"},
                          attempt : 0 .. MaxFaults + 1, done : {"no", "delivered", "abandoned"},
                          checks : 0 .. MaxChecks]]
  BY <1>4 DEF Types
<1>6. s.step \in LaneSteps
  BY DEF Types, Lanes
<1>7. /\ round \in 0 .. MaxRounds /\ term \in {"none", "pending", "delivered"}
      /\ staged \subseteq HasSaid /\ faults \in 0 .. MaxFaults
  BY DEF Types, Revisions
<1> QED BY <1>1, <1>2, <1>3, <1>5, <1>6, <1>7 DEF TypeOK, LaneSteps

\* that nothing is shown twice and questions follow their images,
LEMMA OnceFollows == OneEach /\ QuestionsFollow => ShownOnce
<1> SUFFICES ASSUME OneEach, QuestionsFollow, NEW b \in Batches
             PROVE  /\ \A f \in Files : Cardinality(ShownFor(b, f)) <= 1
                    /\ \A i \in PromptsFor(b), f \in Files : \E j \in ShownFor(b, f) : j < i
  BY DEF ShownOnce
<1>1. ASSUME NEW f \in Files PROVE Cardinality(ShownFor(b, f)) <= 1
  <2>1. CASE ShownFor(b, f) = {}
    BY <2>1, FS_EmptySet
  <2>2. ASSUME NEW i \in ShownFor(b, f) PROVE Cardinality(ShownFor(b, f)) <= 1
    <3>1. \A j \in ShownFor(b, f) : j = i
      BY DEF OneEach, Same, ShownFor
    <3>2. ShownFor(b, f) = {i}
      BY <3>1
    <3> QED BY <3>2, FS_Singleton
  <2> QED BY <2>1, <2>2
<1>2. ASSUME NEW i \in PromptsFor(b), NEW f \in Files PROVE \E j \in ShownFor(b, f) : j < i
  BY DEF QuestionsFollow, PromptsFor
<1> QED BY <1>1, <1>2

\* and that an answer was written after the question it answers.
LEMMA InformedFollows == Types /\ Course /\ Recording => AnswersAreInformed
<1> SUFFICES ASSUME Types, Course, Recording, NEW r \in Rounds, reqs[r].after
             PROVE  /\ \E i \in PromptsFor(r) : i < reqs[r].resp
                    /\ \A q \in Rounds : q < r => reqs[q].status \in {"superseded", "cancelled"}
  BY DEF AnswersAreInformed
<1>1. reqs[r].prompt # 0 /\ reqs[r].prompt < reqs[r].resp /\ reqs[r].prompt \in PromptsFor(r)
  BY DEF Course, Recording
<1>2. r <= round
  BY Shapes DEF Course
<1>3. ASSUME NEW q \in Rounds, q < r PROVE reqs[q].status \in {"superseded", "cancelled"}
  BY <1>2, <1>3, Shapes DEF Course
<1> QED BY <1>1, <1>3

\* For every number of proposals, checks, faults and messages: no file appears twice, a
\* question appears after its images, what wakes the job as an answer was written after the
\* question, and no file of a delivered result is missing silently (deliverSealedArtifact,
\* stageLiveControl, markUiApprovalPresented, flushTerminalNotifications).
THEOREM DeliveryIsSafe == Spec => []Safety
<1>1. IInv => Safety
  BY TypesFollow, OnceFollows, InformedFollows DEF IInv, Safety
<1> QED BY InitIInv, IInvStep, <1>1, PTL DEF Spec

-----------------------------------------------------------------------------
(* The ways in of messages: what is known of them.  The ledger part says how a message
   stands, the read part what the positions of the reads have behind them. *)

\* The types, in three parts: the ledger and the hand-overs, the read positions, the pages.
LedgerTypes ==
  /\ seenTo \in 0 .. MaxPosted /\ kind \in KindSets
  /\ intent \in [In!Msgs -> In!Intents] /\ snapped \subseteq In!Msgs
  /\ held \in [In!Msgs -> In!Places] /\ inbound \in [In!Msgs -> SUBSET In!Rows]
  /\ owned \in [In!Roots -> 0 .. MaxPosted] /\ op \in [In!Msgs -> In!Ops]
  /\ updating \in BOOLEAN /\ mishaps \in 0 .. MaxMishaps

\* of the positions,
PositionTypes ==
  /\ seen \in [In!Roots -> 0 .. MaxPosted]
  /\ recent \in In!Cycle /\ parents \in In!Cycle /\ scans \in Seq(In!Scan)

\* and of the pages in hand.
PageTypes ==
  /\ poll \in In!Page
  /\ sweep.step \in {"channel", "scan"} /\ sweep.page \in In!Page /\ sweep.busy \in BOOLEAN

\* Nothing is known of a message before it is posted; only replies pass the gate.
Past ==
  /\ seenTo =< Len(kind)
  /\ \A m \in In!Msgs : In!Durable(m) \/ intent[m] # "none" \/ op[m] # "idle" => m =< seenTo
  /\ \A m \in In!Msgs :
       intent[m] # "none" \/ op[m] \in {"snapshot", "claim", "classify"} => In!IsReply(m)

\* The mentions among the replies before m in its thread.
Earlier(m) ==
  {e \in In!Msgs : RootOf[e] = RootOf[m] /\ e < m /\ In!IsReply(e) /\ In!Mentions(e)}

\* They are in the ledger.
EarlierDone(m) == \A e \in Earlier(m) : In!Durable(e)

\* A snapshot leaves no earlier mention unknown, so that a claim finds them settled.
Gated ==
  /\ \A m \in In!Msgs : intent[m] = "ignored" => In!Durable(m)
  /\ \A m \in snapped : m =< seenTo /\ \A e \in Earlier(m) : In!Durable(e) \/ intent[e] # "none"
  /\ \A m \in In!Msgs : op[m] = "claim" => m \in snapped
  /\ \A m \in In!Msgs : op[m] = "classify" => intent[m] = "processing"
  /\ \A m \in In!Msgs : op[m] = "deliver" /\ In!IsReply(m) => intent[m] = "addressed"
  /\ \A m \in In!Msgs : intent[m] \in {"processing", "addressed"} => EarlierDone(m)
  /\ \A m \in In!Msgs : held[m] \in {"bootstrap", "inbound", "job", "failed"} => EarlierDone(m)

\* A bootstrap of the thread of m.
Starter(b, m) == held[b] = "bootstrap" /\ RootOf[b] = RootOf[m]

\* A thread with a request is owned, unless its bootstrap is ahead of it or has failed.
Adopted ==
  /\ \A m \in In!Msgs : held[m] = "job" => In!Owned(m)
  /\ \A m \in In!Msgs : held[m] = "bootstrap" => In!IsReply(m) /\ In!Mentions(m)
  /\ \A m, e \in In!Msgs : held[m] = "bootstrap" /\ Starter(e, m) => m = e
  /\ \A m \in In!Msgs : held[m] = "inbound" /\ ~In!Owned(m) =>
       \/ \E b \in inbound[m] : Starter(b, m)
       \/ \E f \in In!Msgs : /\ held[f] = "failed" /\ RootOf[f] = RootOf[m]
                             /\ \A b \in In!Msgs : Starter(b, m) => f < b
  /\ \A m \in In!Msgs : held[m] = "bootstrap" /\ In!Owned(m) =>
       \E f \in In!Msgs : held[f] = "failed" /\ RootOf[f] = RootOf[m] /\ f < m

\* The page of a poll has all that is between the cursor and its end.
Polled ==
  /\ \A t \in In!Roots : seen[t] =< seenTo /\ owned[t] =< seenTo /\ (owned[t] = 0 => seen[t] = 0)
  /\ \A m \in In!Msgs :
       owned[RootOf[m]] < m /\ m =< seen[RootOf[m]] /\ kind[m] # "refused" => In!Durable(m)
  /\ poll.of # 0 =>
       /\ poll.of \in In!Roots /\ owned[poll.of] # 0 /\ poll.next =< seenTo
       /\ \A m \in In!Msgs :
            /\ RootOf[m] = poll.of /\ In!PollFrom(poll.of) < m /\ m =< poll.next
            /\ kind[m] # "refused"
            => m \in poll.need

\* The mentions among the roots that a cycle has behind it are in the ledger.
LeftBehind(c, m) ==
  m =< c.oldest \/ (m < c.started /\ (c.complete \/ In!Latest(c) =< m))

\* The cycles are not ahead of the clock, nor of the ledger where they are complete or past;
\* a page in hand is the one the position passes next.
Swept ==
  /\ \A c \in {recent, parents} :
       c.started \in 1 .. (seenTo + 1) /\ c.oldest =< seenTo /\ c.cursor =< seenTo
  /\ \A m \in In!Roots :
       m =< seenTo /\ kind[m] = "mention" /\ LeftBehind(recent, m) => In!Durable(m)
  /\ sweep.step = "channel" /\ sweep.busy =>
       /\ ~recent.complete
       /\ sweep.page.need = {m \in In!Newest(In!RecentRead(recent), PageSize) : kind[m] = "mention"}
  /\ sweep.step = "scan" /\ sweep.busy => scans # <<>>

\* What is known of the ledger, and of the reads.
LedgerInv == LedgerTypes /\ Past /\ Gated /\ Adopted

\* The reads need the ledger, not the other way round.
ReadInv == PositionTypes /\ PageTypes /\ Polled /\ Swept

\* Both.
InInv == LedgerInv /\ ReadInv

\* Roots are messages, and each message has one.
LEMMA Channel ==
  /\ MaxPosted \in Nat /\ In!Roots \subseteq In!Msgs /\ In!Msgs \subseteq Nat /\ 0 \notin In!Msgs
  /\ \A m \in In!Msgs : RootOf[m] \in In!Roots /\ RootOf[m] =< m /\ m \in 0 .. MaxPosted
  BY IngressAssumption DEF In!Msgs, In!Roots

\* What an offer does.
LEMMA OfferDoes ==
  ASSUME LedgerTypes, NEW S, In!Offer(S)
  PROVE  /\ UNCHANGED <<snapped, held, inbound, owned>>
         /\ op' \in [In!Msgs -> In!Ops] /\ intent' \in [In!Msgs -> In!Intents]
         /\ \A m \in In!Msgs :
              \/ op'[m] = op[m] /\ intent'[m] = intent[m]
              \/ /\ m \in S /\ op[m] = "idle" /\ op'[m] = "deliver" /\ intent'[m] = intent[m]
                 /\ In!IsReply(m) => intent[m] = "addressed"
              \/ /\ m \in S /\ op[m] = "idle" /\ op'[m] = "claim" /\ intent'[m] = intent[m]
                 /\ In!IsReply(m) /\ m \in snapped
              \/ /\ m \in S /\ op[m] = "idle" /\ op'[m] = "snapshot" /\ In!IsReply(m)
                 /\ intent'[m] = intent[m] \/ (intent[m] = "none" /\ intent'[m] = "pending")
<1>1. \A m \in In!Msgs :
        \/ In!Starts(m) = "idle"
        \/ In!Starts(m) = "deliver" /\ (In!IsReply(m) => intent[m] = "addressed")
        \/ In!Starts(m) = "claim" /\ In!IsReply(m) /\ m \in snapped
        \/ In!Starts(m) = "snapshot" /\ In!IsReply(m)
  BY DEF In!Starts
<1>2. /\ op' = [m \in In!Msgs |-> IF m \in S /\ op[m] = "idle" THEN In!Starts(m) ELSE op[m]]
      /\ intent' = [m \in In!Msgs |->
                      IF /\ m \in S /\ op[m] = "idle" /\ intent[m] = "none"
                         /\ In!Starts(m) = "snapshot"
                      THEN "pending" ELSE intent[m]]
      /\ UNCHANGED <<snapped, held, inbound, owned>>
  BY DEF In!Offer
<1> HIDE DEF In!Offer, In!Starts
<1>3. op' \in [In!Msgs -> In!Ops] /\ intent' \in [In!Msgs -> In!Intents]
  BY <1>1, <1>2 DEF LedgerTypes, In!Ops, In!Intents
<1> QED BY <1>1, <1>2, <1>3

\* An offer of posted messages keeps the ledger's invariant.
LEMMA OfferKeeps ==
  ASSUME LedgerInv, NEW S, In!Offer(S), S \subseteq 1 .. seenTo', UNCHANGED <<kind, updating>>,
         seenTo' \in seenTo .. MaxPosted, seenTo' =< Len(kind), mishaps' \in 0 .. MaxMishaps
  PROVE  LedgerInv'
<1>1. LedgerTypes'
  BY OfferDoes DEF LedgerInv, LedgerTypes, In!Rows
<1>2. Past'
  BY OfferDoes, Channel DEF LedgerInv, LedgerTypes, Past, In!Durable, In!IsReply
<1>3. Gated'
  <2>1. /\ UNCHANGED <<snapped, held>>
        /\ \A m \in In!Msgs : intent[m] # "none" => intent'[m] = intent[m]
        /\ \A m \in In!Msgs : intent'[m] = intent[m] \/ intent'[m] = "pending"
    BY OfferDoes DEF LedgerInv
  <2>2. \A m \in In!Msgs : EarlierDone(m)' = EarlierDone(m) /\ Earlier(m)' = Earlier(m)
    BY <2>1 DEF EarlierDone, Earlier, In!Durable, In!IsReply, In!Mentions
  <2>3. \A m \in In!Msgs : Earlier(m) \subseteq In!Msgs
    BY DEF Earlier
  <2>4. /\ \A m \in In!Msgs : op'[m] = "claim" => m \in snapped
        /\ \A m \in In!Msgs : op'[m] = "classify" => intent'[m] = "processing"
        /\ \A m \in In!Msgs : op'[m] = "deliver" /\ In!IsReply(m) => intent'[m] = "addressed"
    BY <2>1, OfferDoes DEF LedgerInv, Gated
  <2>5. \A m \in snapped : /\ m =< seenTo'
                           /\ \A e \in Earlier(m) : In!Durable(e) \/ intent'[e] # "none"
    <3>1. \A m \in snapped : m =< seenTo'
      BY Channel DEF LedgerInv, LedgerTypes, Gated
    <3>2. \A m \in snapped : m \in In!Msgs
      BY DEF LedgerInv, LedgerTypes
    <3>3. \A m \in snapped : \A e \in Earlier(m) : In!Durable(e) \/ intent[e] # "none"
      BY DEF LedgerInv, Gated
    <3> QED BY <2>1, <2>3, <3>1, <3>2, <3>3, Zenon
  <2> QED BY <2>1, <2>2, <2>4, <2>5 DEF LedgerInv, LedgerTypes, Gated, In!Durable, In!IsReply
<1>4. Adopted'
  BY OfferDoes, Channel DEF LedgerInv, Adopted, Starter, In!Owned, In!IsReply, In!Mentions
<1> QED BY <1>1, <1>2, <1>3, <1>4 DEF LedgerInv

\* So does what leaves it alone, or stops the hand-overs.
LEMMA RestKeeps ==
  ASSUME LedgerInv, UNCHANGED <<intent, snapped, held, inbound, owned, kind>>,
         op' = op \/ op' = In!Idle, seenTo' \in seenTo .. MaxPosted, seenTo' =< Len(kind),
         updating' \in BOOLEAN, mishaps' \in 0 .. MaxMishaps
  PROVE  LedgerInv'
<1>0. \A m \in In!Msgs : op'[m] = op[m] \/ op'[m] = "idle"
  BY DEF In!Idle
<1>1. LedgerTypes'
  <2>1. op' \in [In!Msgs -> In!Ops]
    BY DEF LedgerInv, LedgerTypes, In!Idle, In!Ops
  <2>2. inbound' \in [In!Msgs -> SUBSET In!Rows']
    BY DEF LedgerInv, LedgerTypes, In!Rows
  <2> QED BY <2>1, <2>2, Channel DEF LedgerInv, LedgerTypes
<1>2. Past'
  BY <1>0, Channel DEF LedgerInv, LedgerTypes, Past, In!Durable, In!IsReply
<1>3. Gated'
  BY <1>0, Channel DEF LedgerInv, LedgerTypes, Gated, Past, Earlier, EarlierDone, In!Durable,
     In!IsReply, In!Mentions
<1>4. Adopted'
  BY DEF LedgerInv, Adopted, Starter, In!Owned, In!IsReply, In!Mentions
<1> QED BY <1>1, <1>2, <1>3, <1>4 DEF LedgerInv

\* A failure, or none, keeps to its bound.
LEMMA FailureIsBounded ==
  ASSUME mishaps \in 0 .. MaxMishaps, In!Fail \/ UNCHANGED mishaps
  PROVE  mishaps' \in 0 .. MaxMishaps
  BY IngressAssumption DEF In!Fail

\* A snapshot notes the earlier mentions that are unknown.
LEMMA SnapshotKeeps ==
  ASSUME LedgerInv, NEW m \in In!Msgs, In!Snapshot(m)
  PROVE  LedgerInv'
<1>0. /\ op[m] = "snapshot" /\ UNCHANGED <<seenTo, kind, held, inbound, owned, updating>>
      /\ In!Fail \/ UNCHANGED mishaps
      /\ \/ /\ intent' = [e \in In!Msgs |-> IF e \in In!EarlierCandidates(m) THEN "pending"
                                            ELSE intent[e]]
            /\ snapped' = snapped \cup {m} /\ op' = [op EXCEPT ![m] = "claim"]
         \/ op' = [op EXCEPT ![m] = "idle"] /\ UNCHANGED <<intent, snapped>>
  BY DEF In!Snapshot
<1>1. LedgerTypes'
  BY <1>0, FailureIsBounded DEF LedgerInv, LedgerTypes, In!Rows, In!Ops, In!Intents
<1>2. \A e \in In!Msgs : \/ intent'[e] = intent[e]
                         \/ /\ intent[e] = "none" /\ intent'[e] = "pending"
                            /\ In!IsReply(e) /\ e =< seenTo
  BY <1>0, Channel DEF LedgerInv, LedgerTypes, In!EarlierCandidates, In!Before
<1>3. Past'
  BY <1>0, <1>2, Channel DEF LedgerInv, LedgerTypes, Past, In!Durable, In!IsReply
<1>4. \A e \in In!Msgs : EarlierDone(e)' = EarlierDone(e) /\ Earlier(e)' = Earlier(e)
  BY <1>0 DEF EarlierDone, Earlier, In!Durable, In!IsReply, In!Mentions
<1>5. \A e \in Earlier(m) : snapped' # snapped => In!Durable(e) \/ intent'[e] # "none"
  BY <1>0, Channel DEF LedgerInv, LedgerTypes, Past, Earlier, In!EarlierCandidates, In!Before
<1>6. Gated'
  <2>1. /\ \A e \in In!Msgs : op'[e] = "claim" => e \in snapped'
        /\ \A e \in In!Msgs : op'[e] = "classify" => intent'[e] = "processing"
        /\ \A e \in In!Msgs : op'[e] = "deliver" /\ In!IsReply(e) => intent'[e] = "addressed"
    BY <1>0, <1>2 DEF LedgerInv, LedgerTypes, Gated
  <2>2. \A e \in snapped' : e \in In!Msgs /\ e =< seenTo
    BY <1>0 DEF LedgerInv, LedgerTypes, Gated, Past
  <2>3. \A e \in snapped : \A d \in Earlier(e) : In!Durable(d) \/ intent'[d] # "none"
    BY <1>2 DEF LedgerInv, Gated, Earlier
  <2>4. \A e \in snapped' : \A d \in Earlier(e) : In!Durable(d) \/ intent'[d] # "none"
    BY <1>0, <1>5, <2>3
  <2>5. /\ \A e \in In!Msgs : intent'[e] = "ignored" => In!Durable(e)
        /\ \A e \in In!Msgs : intent'[e] \in {"processing", "addressed"} => EarlierDone(e)
        /\ \A e \in In!Msgs :
             held[e] \in {"bootstrap", "inbound", "job", "failed"} => EarlierDone(e)
    BY <1>2 DEF LedgerInv, Gated
  <2> QED BY <1>0, <1>4, <2>1, <2>2, <2>4, <2>5 DEF Gated, In!Durable, In!IsReply
<1>7. Adopted'
  BY <1>0 DEF LedgerInv, Adopted, Starter, In!Owned, In!IsReply, In!Mentions
<1> QED BY <1>1, <1>3, <1>6, <1>7 DEF LedgerInv

\* A claim finds the earlier mentions settled, and the settled ones recorded.
LEMMA ClaimKeeps ==
  ASSUME LedgerInv, NEW m \in In!Msgs, In!Claim(m)
  PROVE  LedgerInv'
<1>0. /\ op[m] = "claim"
      /\ UNCHANGED <<seenTo, kind, snapped, held, inbound, owned, updating, mishaps>>
      /\ \/ /\ In!EarlierSettled(m) /\ intent' = [intent EXCEPT ![m] = "processing"]
            /\ op' = [op EXCEPT ![m] = "classify"]
         \/ op' = [op EXCEPT ![m] = "idle"] /\ UNCHANGED intent
  BY DEF In!Claim
<1>1. LedgerTypes'
  BY <1>0 DEF LedgerInv, LedgerTypes, In!Rows, In!Ops, In!Intents
<1>2. m \in snapped /\ m =< seenTo /\ In!IsReply(m)
  BY <1>0 DEF LedgerInv, Gated, Past
<1>3. Past'
  BY <1>0, <1>2, Channel DEF LedgerInv, LedgerTypes, Past, In!Durable, In!IsReply
<1>4. \A e \in In!Msgs : EarlierDone(e)' = EarlierDone(e) /\ Earlier(e)' = Earlier(e)
  BY <1>0 DEF EarlierDone, Earlier, In!Durable, In!IsReply, In!Mentions
<1>5. In!EarlierSettled(m) => EarlierDone(m)
  <2>1. \A e \in Earlier(m) : e \in In!Before(m) /\ e \in In!Msgs
    BY <1>2, Channel DEF LedgerInv, LedgerTypes, Earlier, In!Before, In!Msgs
  <2>2. \A e \in Earlier(m) : In!Durable(e) \/ intent[e] # "none"
    BY <1>2 DEF LedgerInv, Gated
  <2> QED BY <2>1, <2>2 DEF LedgerInv, LedgerTypes, Gated, EarlierDone, In!EarlierSettled,
     In!Unsettled, In!Intents
<1>6. Gated'
  <2>1. /\ \A e \in In!Msgs : op'[e] = "claim" => e \in snapped
        /\ \A e \in In!Msgs : op'[e] = "classify" => intent'[e] = "processing"
        /\ \A e \in In!Msgs : op'[e] = "deliver" /\ In!IsReply(e) => intent'[e] = "addressed"
    BY <1>0 DEF LedgerInv, LedgerTypes, Gated
  <2>2. /\ \A e \in In!Msgs : intent'[e] = "ignored" => In!Durable(e)
        /\ \A e \in In!Msgs : intent'[e] \in {"processing", "addressed"} => EarlierDone(e)
    BY <1>0, <1>5 DEF LedgerInv, LedgerTypes, Gated
  <2>3. \A e \in In!Msgs : intent[e] # "none" => intent'[e] # "none"
    BY <1>0 DEF LedgerInv, LedgerTypes
  <2>4. \A e \in snapped : \A d \in Earlier(e) : In!Durable(d) \/ intent'[d] # "none"
    BY <2>3 DEF LedgerInv, Gated, Earlier
  <2> QED BY <1>0, <1>4, <2>1, <2>2, <2>4 DEF LedgerInv, LedgerTypes, Gated, In!Durable,
       In!IsReply
<1>7. Adopted'
  BY <1>0 DEF LedgerInv, Adopted, Starter, In!Owned, In!IsReply, In!Mentions
<1> QED BY <1>1, <1>3, <1>6, <1>7 DEF LedgerInv

\* A verdict is recorded with the closing of an ignored reply.
LEMMA ClassifyKeeps ==
  ASSUME LedgerInv, NEW m \in In!Msgs, In!Classify(m)
  PROVE  LedgerInv'
<1>0. /\ op[m] = "classify" /\ UNCHANGED <<seenTo, kind, snapped, inbound, owned, updating>>
      /\ In!Fail \/ UNCHANGED mishaps
      /\ \/ /\ intent' = [intent EXCEPT ![m] = "addressed"] /\ op' = [op EXCEPT ![m] = "deliver"]
            /\ UNCHANGED held
         \/ /\ intent' = [intent EXCEPT ![m] = "ignored"] /\ op' = [op EXCEPT ![m] = "idle"]
            /\ held' = [held EXCEPT ![m] = IF @ = "none" THEN "closed" ELSE @]
         \/ /\ intent' = [intent EXCEPT ![m] = "pending"] /\ op' = [op EXCEPT ![m] = "idle"]
            /\ UNCHANGED held
  BY DEF In!Classify
<1>1. /\ \A e \in In!Msgs : held'[e] = held[e] \/ (held[e] = "none" /\ held'[e] = "closed" /\ e = m)
      /\ intent'[m] = "ignored" => held'[m] # "none"
      /\ \A e \in In!Msgs : e # m => intent'[e] = intent[e] /\ op'[e] = op[e]
      /\ intent'[m] # "none" /\ intent[m] = "processing"
      /\ op'[m] = "idle" \/ (op'[m] = "deliver" /\ intent'[m] = "addressed")
      /\ m =< seenTo /\ In!IsReply(m)
  BY <1>0 DEF LedgerInv, LedgerTypes, Gated, Past
<1>2. In!Rows' = In!Rows
  BY <1>1 DEF In!Rows
<1>3. LedgerTypes'
  <2>1. /\ intent' \in [In!Msgs -> In!Intents] /\ op' \in [In!Msgs -> In!Ops]
        /\ held' \in [In!Msgs -> In!Places]
    BY <1>0 DEF LedgerInv, LedgerTypes, In!Ops, In!Intents, In!Places
  <2> QED BY <1>0, <1>2, <2>1, FailureIsBounded DEF LedgerInv, LedgerTypes
<1>4. Past'
  BY <1>0, <1>1, Channel DEF LedgerInv, LedgerTypes, Past, In!Durable, In!IsReply
<1>5. \A e \in In!Msgs : (EarlierDone(e) => EarlierDone(e)') /\ Earlier(e)' = Earlier(e)
  BY <1>0, <1>1 DEF EarlierDone, Earlier, In!Durable, In!IsReply, In!Mentions
<1>6. Gated'
  <2>1. /\ \A e \in In!Msgs : op'[e] = "claim" => e \in snapped
        /\ \A e \in In!Msgs : op'[e] = "classify" => intent'[e] = "processing"
        /\ \A e \in In!Msgs : op'[e] = "deliver" /\ In!IsReply(e) => intent'[e] = "addressed"
    BY <1>1 DEF LedgerInv, LedgerTypes, Gated
  <2>2. /\ \A e \in In!Msgs : intent'[e] = "ignored" => held'[e] # "none"
        /\ \A e \in In!Msgs : intent'[e] \in {"processing", "addressed"} => EarlierDone(e)
        /\ \A e \in In!Msgs :
             held'[e] \in {"bootstrap", "inbound", "job", "failed"} => EarlierDone(e)
    BY <1>1 DEF LedgerInv, Gated, In!Durable
  <2>3. \A e \in In!Msgs : intent[e] # "none" => intent'[e] # "none"
    BY <1>1
  <2>4. \A e \in snapped : \A d \in Earlier(e) : held'[d] # "none" \/ intent'[d] # "none"
    BY <1>1, <2>3 DEF LedgerInv, Gated, Earlier, In!Durable
  <2> QED BY <1>0, <1>5, <2>1, <2>2, <2>4 DEF LedgerInv, LedgerTypes, Gated, In!Durable,
       In!IsReply
<1>7. Adopted'
  <2>1. \A e \in In!Msgs : \A v \in {"job", "bootstrap", "inbound", "failed"} :
          held'[e] = v <=> held[e] = v
    BY <1>1
  <2>2. \A e \in In!Msgs : inbound[e] \subseteq In!Msgs
    BY DEF LedgerInv, LedgerTypes, In!Rows
  <2>3. \A e, d \in In!Msgs : Starter(e, d)' = Starter(e, d)
    BY <2>1 DEF Starter
  <2> QED BY <1>0, <2>1, <2>2, <2>3 DEF LedgerInv, Adopted, In!Owned, In!IsReply, In!Mentions
<1> QED BY <1>3, <1>4, <1>6, <1>7 DEF LedgerInv

\* A message is recorded behind the earlier mentions of its thread.
LEMMA DeliverKeeps ==
  ASSUME LedgerInv, NEW m \in In!Msgs, In!Deliver(m)
  PROVE  LedgerInv'
<1> DEFINE t == RootOf[m]
           before == {e \in In!Rows : RootOf[e] = t}
<1>0. /\ op[m] = "deliver" /\ op' = [op EXCEPT ![m] = "idle"]
      /\ UNCHANGED <<seenTo, kind, intent, snapped, updating, mishaps>>
  BY DEF In!Deliver
<1>1. \/ UNCHANGED <<held, inbound, owned>>
      \/ held[m] = "none" /\ held' = [held EXCEPT ![m] = "closed"] /\ UNCHANGED <<inbound, owned>>
      \/ /\ held[m] = "none" /\ inbound' = [inbound EXCEPT ![m] = before]
         /\ \/ /\ ~In!Owned(m) /\ ~In!Pending(t) /\ In!IsReply(m) /\ In!Mentions(m)
               /\ held' = [held EXCEPT ![m] = "bootstrap"] /\ UNCHANGED owned
            \/ /\ ~In!Owned(m) /\ ~In!Pending(t)
               /\ held' = [held EXCEPT ![m] = "inbound"] /\ owned' = [owned EXCEPT ![t] = m]
            \/ /\ In!Owned(m) \/ In!Pending(t)
               /\ held' = [held EXCEPT ![m] = "inbound"] /\ UNCHANGED owned
  <2>1. CASE In!Durable(m) \/ kind[m] = "refused" \/ updating
    BY <2>1 DEF In!Deliver, In!Durable
  <2>2. CASE ~In!Durable(m) /\ kind[m] # "refused" /\ ~updating
    <3>1. In!Stage(m) /\ held[m] = "none"
      BY <2>2 DEF In!Deliver, In!Durable
    <3> QED BY <3>1, Channel DEF In!Stage, In!Owned, LedgerInv, LedgerTypes
  <2> QED BY <2>1, <2>2
<1>2. m =< seenTo /\ EarlierDone(m) /\ t \in In!Roots /\ m # 0
  BY <1>0, Channel DEF LedgerInv, Past, Gated, EarlierDone, Earlier, In!IsReply, In!Roots, In!Msgs
<1>3. /\ held' \in [In!Msgs -> In!Places] /\ op' \in [In!Msgs -> In!Ops]
      /\ \A e \in In!Msgs : e # m => held'[e] = held[e]
      /\ held[m] = "none" \/ held'[m] = held[m]
      /\ In!Rows \subseteq In!Rows'
  BY <1>0, <1>1 DEF LedgerInv, LedgerTypes, In!Places, In!Ops, In!Rows
<1>4. LedgerTypes'
  <2>1. owned' \in [In!Roots -> 0 .. MaxPosted]
    BY <1>1, <1>2, Channel DEF LedgerInv, LedgerTypes, In!Msgs
  <2>2. inbound' \in [In!Msgs -> SUBSET In!Rows']
    BY <1>1, <1>3 DEF LedgerInv, LedgerTypes
  <2> QED BY <1>0, <1>3, <2>1, <2>2 DEF LedgerInv, LedgerTypes
<1>5. Past'
  BY <1>0, <1>2, <1>3, Channel DEF LedgerInv, LedgerTypes, Past, In!Durable, In!IsReply
<1>6. Gated'
  <2>1. \A e \in In!Msgs : (EarlierDone(e) => EarlierDone(e)') /\ Earlier(e)' = Earlier(e)
    BY <1>0, <1>3 DEF EarlierDone, Earlier, In!Durable, In!IsReply, In!Mentions
  <2>2. \A e \in In!Msgs : In!Durable(e) => In!Durable(e)'
    BY <1>3 DEF In!Durable
  <2>3. /\ \A e \in In!Msgs : op'[e] = "claim" => e \in snapped
        /\ \A e \in In!Msgs : op'[e] = "classify" => intent[e] = "processing"
        /\ \A e \in In!Msgs : op'[e] = "deliver" /\ In!IsReply(e) => intent[e] = "addressed"
    BY <1>0 DEF LedgerInv, LedgerTypes, Gated
  <2>4. \A e \in In!Msgs :
          held'[e] \in {"bootstrap", "inbound", "job", "failed"} => EarlierDone(e)
    BY <1>2, <1>3 DEF LedgerInv, Gated
  <2>5. \A e \in In!Msgs : intent[e] = "ignored" => In!Durable(e)'
    BY <2>2 DEF LedgerInv, Gated
  <2>6. \A e \in snapped : \A d \in Earlier(e) : In!Durable(d)' \/ intent[d] # "none"
    BY <2>2 DEF LedgerInv, Gated, Earlier
  <2>7. /\ \A e \in snapped : e =< seenTo /\ e \in In!Msgs
        /\ \A e \in In!Msgs : intent[e] \in {"processing", "addressed"} => EarlierDone(e)
    BY DEF LedgerInv, LedgerTypes, Gated
  <2> QED BY <1>0, <2>1, <2>3, <2>4, <2>5, <2>6, <2>7 DEF Gated, In!Durable, In!IsReply
<1>7. Adopted'
  <2>1. CASE UNCHANGED <<held, inbound, owned>>
    BY <1>0, <2>1 DEF LedgerInv, Adopted, Starter, In!Owned, In!IsReply, In!Mentions
  <2>2. CASE /\ held[m] = "none" /\ held' = [held EXCEPT ![m] = "closed"]
             /\ UNCHANGED <<inbound, owned>>
    BY <1>0, <2>2 DEF LedgerInv, LedgerTypes, Adopted, Starter, In!Owned, In!IsReply, In!Mentions,
       In!Rows
  <2>3. CASE /\ held[m] = "none" /\ inbound' = [inbound EXCEPT ![m] = before]
             /\ ~In!Owned(m) /\ ~In!Pending(t) /\ In!IsReply(m) /\ In!Mentions(m)
             /\ held' = [held EXCEPT ![m] = "bootstrap"] /\ UNCHANGED owned
    <3>1. \A f \in In!Msgs : held[f] = "failed" /\ RootOf[f] = t => f < m
      <4> SUFFICES ASSUME NEW f \in In!Msgs, held[f] = "failed", RootOf[f] = t, ~(f < m)
                   PROVE  FALSE
        OBVIOUS
      <4>1. f # m /\ EarlierDone(f)
        BY <2>3 DEF LedgerInv, Gated
      <4>2. m \in Earlier(f)
        BY <2>3, <4>1, Channel DEF Earlier
      <4> QED BY <2>3, <4>1, <4>2 DEF EarlierDone, In!Durable
    <3>2. \A e \in In!Msgs : ~(held[e] = "bootstrap" /\ RootOf[e] = t)
      BY <2>3 DEF In!Pending
    <3>3. /\ \A e \in In!Msgs : held'[e] = "job" => In!Owned(e)'
          /\ \A e \in In!Msgs : held'[e] = "bootstrap" => In!IsReply(e) /\ In!Mentions(e)
          /\ \A e, d \in In!Msgs : held'[e] = "bootstrap" /\ Starter(d, e)' => e = d
      BY <2>3, <3>2 DEF LedgerInv, LedgerTypes, Adopted, Starter, In!Owned
    <3>4. \A e \in In!Msgs : held'[e] = "inbound" /\ ~In!Owned(e)' =>
            \/ \E b \in inbound'[e] : Starter(b, e)'
            \/ \E f \in In!Msgs : /\ held'[f] = "failed" /\ RootOf[f] = RootOf[e]
                                  /\ \A b \in In!Msgs : Starter(b, e)' => f < b
      <4> SUFFICES ASSUME NEW e \in In!Msgs, held'[e] = "inbound", ~In!Owned(e)'
                   PROVE  \/ \E b \in inbound'[e] : Starter(b, e)'
                          \/ \E f \in In!Msgs : /\ held'[f] = "failed" /\ RootOf[f] = RootOf[e]
                                                /\ \A b \in In!Msgs : Starter(b, e)' => f < b
        OBVIOUS
      <4>1. e # m /\ held[e] = "inbound" /\ ~In!Owned(e) /\ inbound'[e] = inbound[e]
        BY <2>3 DEF LedgerInv, LedgerTypes, In!Owned
      <4>2. CASE \E b \in inbound[e] : Starter(b, e)
        <5>1. PICK b \in inbound[e] : Starter(b, e)
          BY <4>2
        <5>2. b \in In!Msgs
          BY <5>1 DEF LedgerInv, LedgerTypes, In!Rows
        <5> QED BY <2>3, <4>1, <5>1, <5>2 DEF LedgerInv, LedgerTypes, Starter
      <4>3. ASSUME NEW f \in In!Msgs, held[f] = "failed", RootOf[f] = RootOf[e],
                   \A b \in In!Msgs : Starter(b, e) => f < b
            PROVE  \A b \in In!Msgs : Starter(b, e)' => f < b
        BY <2>3, <3>1, <4>3 DEF LedgerInv, LedgerTypes, Starter
      <4>4. \A f \in In!Msgs : held[f] = "failed" => held'[f] = "failed"
        BY <2>3 DEF LedgerInv, LedgerTypes
      <4> QED BY <4>1, <4>2, <4>3, <4>4 DEF LedgerInv, Adopted
    <3>5. \A e \in In!Msgs : held'[e] = "bootstrap" /\ In!Owned(e)' =>
            \E f \in In!Msgs : held'[f] = "failed" /\ RootOf[f] = RootOf[e] /\ f < e
      BY <2>3 DEF LedgerInv, LedgerTypes, Adopted, In!Owned
    <3> QED BY <1>0, <3>3, <3>4, <3>5 DEF Adopted, In!IsReply, In!Mentions
  <2>4. CASE /\ held[m] = "none" /\ inbound' = [inbound EXCEPT ![m] = before]
             /\ \/ ~In!Owned(m) /\ ~In!Pending(t) /\ owned' = [owned EXCEPT ![t] = m]
                \/ (In!Owned(m) \/ In!Pending(t)) /\ UNCHANGED owned
             /\ held' = [held EXCEPT ![m] = "inbound"]
    <3>1. \A e \in In!Msgs : /\ In!Owned(e) => In!Owned(e)'
                             /\ RootOf[e] # t => In!Owned(e)' = In!Owned(e)
      BY <1>2, <2>4, Channel DEF LedgerInv, LedgerTypes, In!Owned
    <3>2. \A e, d \in In!Msgs : Starter(e, d)' = Starter(e, d)
      BY <2>4 DEF LedgerInv, LedgerTypes, Starter
    <3>3. \A e \in In!Msgs : /\ e # m => held'[e] = held[e] /\ inbound'[e] = inbound[e]
                             /\ inbound[e] \subseteq In!Msgs
      BY <2>4 DEF LedgerInv, LedgerTypes, In!Rows
    <3>4. held'[m] = "inbound" /\ inbound'[m] = before
      BY <2>4 DEF LedgerInv, LedgerTypes
    <3>5. ~In!Owned(m)' => \E b \in before : Starter(b, m) /\ b \in In!Msgs
      BY <1>2, <2>4 DEF LedgerInv, LedgerTypes, In!Owned, In!Pending, In!Rows, Starter
    <3>6. \A e \in In!Msgs : held[e] = "bootstrap" /\ In!Owned(e)' => In!Owned(e)
      BY <1>2, <2>4, <3>1, Channel DEF LedgerInv, LedgerTypes, In!Owned, In!Pending
    <3>7. \A e \in In!Msgs : held'[e] = "inbound" /\ ~In!Owned(e)' =>
            \/ \E b \in inbound'[e] : Starter(b, e)'
            \/ \E f \in In!Msgs : /\ held'[f] = "failed" /\ RootOf[f] = RootOf[e]
                                  /\ \A b \in In!Msgs : Starter(b, e)' => f < b
      <4>1. ASSUME NEW e \in In!Msgs, e # m, held'[e] = "inbound", ~In!Owned(e)'
            PROVE  \/ \E b \in inbound'[e] : Starter(b, e)'
                   \/ \E f \in In!Msgs : /\ held'[f] = "failed" /\ RootOf[f] = RootOf[e]
                                         /\ \A b \in In!Msgs : Starter(b, e)' => f < b
        <5>1. held[e] = "inbound" /\ ~In!Owned(e) /\ inbound'[e] = inbound[e]
          BY <3>1, <3>3, <4>1
        <5>2. \A f \in In!Msgs : held[f] = "failed" => held'[f] = "failed"
          BY <2>4, <3>3
        <5> QED BY <3>2, <3>3, <5>1, <5>2 DEF LedgerInv, Adopted
      <4> QED BY <3>2, <3>4, <3>5, <4>1
    <3>8. /\ \A e \in In!Msgs : held'[e] = "job" => In!Owned(e)'
          /\ \A e \in In!Msgs : held'[e] = "bootstrap" => In!IsReply(e) /\ In!Mentions(e)
          /\ \A e, d \in In!Msgs : held'[e] = "bootstrap" /\ Starter(d, e)' => e = d
      BY <3>1, <3>2, <3>3, <3>4 DEF LedgerInv, Adopted
    <3>9. \A e \in In!Msgs : held'[e] = "bootstrap" /\ In!Owned(e)' =>
            \E f \in In!Msgs : held'[f] = "failed" /\ RootOf[f] = RootOf[e] /\ f < e
      <4>1. \A e \in In!Msgs : held'[e] = "bootstrap" => held[e] = "bootstrap"
        BY <3>3, <3>4
      <4>2. \A f \in In!Msgs : held[f] = "failed" => held'[f] = "failed"
        BY <2>4, <3>3
      <4> QED BY <3>6, <4>1, <4>2 DEF LedgerInv, Adopted
    <3> QED BY <1>0, <3>7, <3>8, <3>9 DEF Adopted, In!IsReply, In!Mentions
  <2> QED BY <1>1, <2>1, <2>2, <2>3, <2>4
<1> QED BY <1>4, <1>5, <1>6, <1>7 DEF LedgerInv

\* What the inbound queue does to a delivery leaves the gate alone.
LEMMA InboundKeepsGate ==
  ASSUME LedgerInv, NEW ms \in SUBSET In!Msgs, In!Settle(ms),
         UNCHANGED <<seenTo, kind, intent, snapped, op, updating>>, mishaps' \in 0 .. MaxMishaps,
         held' \in [In!Msgs -> In!Places], owned' \in [In!Roots -> 0 .. MaxPosted],
         \A e \in In!Msgs :
           \/ held'[e] = held[e] /\ e \notin ms
           \/ held'[e] = "closed" /\ e \in ms /\ e =< seenTo
           \/ held[e] \in {"bootstrap", "inbound"} /\ held'[e] \in {"failed", "job"} /\ e \in ms
           \/ held[e] = "bootstrap" /\ held'[e] = "inbound" /\ e \notin ms
  PROVE  LedgerTypes' /\ Past' /\ Gated'
<1>1. LedgerTypes'
  <2>1. In!Rows \ ms \subseteq In!Rows'
    BY DEF In!Rows
  <2>2. inbound' \in [In!Msgs -> SUBSET In!Rows']
    BY <2>1 DEF LedgerInv, LedgerTypes, In!Settle
  <2> QED BY <2>2 DEF LedgerInv, LedgerTypes
<1>2. \A e \in In!Msgs : In!Durable(e) => In!Durable(e)'
  BY DEF In!Durable
<1>3. Past'
  BY Channel DEF LedgerInv, LedgerTypes, Past, In!Durable, In!IsReply
<1>4. \A e \in In!Msgs : (EarlierDone(e) => EarlierDone(e)') /\ Earlier(e)' = Earlier(e)
  BY <1>2 DEF EarlierDone, Earlier, In!IsReply, In!Mentions
<1>5. Gated'
  <2>1. \A e \in In!Msgs :
          held'[e] \in {"bootstrap", "inbound", "job", "failed"} => EarlierDone(e)
    BY DEF LedgerInv, Gated
  <2>2. \A e \in In!Msgs : intent[e] = "ignored" => In!Durable(e)'
    BY <1>2 DEF LedgerInv, Gated
  <2>3. \A e \in snapped : \A d \in Earlier(e) : In!Durable(d)' \/ intent[d] # "none"
    BY <1>2 DEF LedgerInv, Gated, Earlier
  <2>4. /\ \A e \in snapped : e =< seenTo /\ e \in In!Msgs
        /\ \A e \in In!Msgs : intent[e] \in {"processing", "addressed"} => EarlierDone(e)
        /\ \A e \in In!Msgs : op[e] = "claim" => e \in snapped
        /\ \A e \in In!Msgs : op[e] = "classify" => intent[e] = "processing"
        /\ \A e \in In!Msgs : op[e] = "deliver" /\ In!IsReply(e) => intent[e] = "addressed"
    BY DEF LedgerInv, LedgerTypes, Gated
  <2> QED BY <1>4, <2>1, <2>2, <2>3, <2>4 DEF Gated, In!Durable, In!IsReply
<1> QED BY <1>1, <1>3, <1>5

\* A bootstrap that has its context owns the thread.
LEMMA FinalizeKeeps ==
  ASSUME LedgerInv, NEW m \in In!Msgs, In!Finalize(m)
  PROVE  LedgerInv'
<1> DEFINE t == RootOf[m]
           ms == In!Consumed(m)
<1>0. /\ held[m] = "bootstrap" /\ inbound[m] = {} /\ In!Settle(ms)
      /\ held' = [e \in In!Msgs |-> IF e = m THEN "inbound" ELSE IF e \in ms THEN "closed"
                                    ELSE held[e]]
      /\ owned' = [owned EXCEPT ![t] = IF @ = 0 THEN m ELSE @]
      /\ UNCHANGED <<seenTo, kind, intent, snapped, op, updating, mishaps>>
  BY DEF In!Finalize, In!First, In!gateway
<1>1. ms \in SUBSET In!Msgs /\ m \notin ms /\ \A e \in ms : RootOf[e] = t /\ e =< seenTo
  BY Channel DEF LedgerInv, LedgerTypes, In!Consumed, In!Before, In!Msgs
<1> HIDE DEF ms
<1>2. t \in In!Roots /\ m # 0
  BY Channel
<1>3. LedgerTypes' /\ Past' /\ Gated'
  <2>1. /\ held' \in [In!Msgs -> In!Places] /\ owned' \in [In!Roots -> 0 .. MaxPosted]
        /\ mishaps' \in 0 .. MaxMishaps
    <3>1. held' \in [In!Msgs -> In!Places]
      BY <1>0 DEF LedgerInv, LedgerTypes, In!Places
    <3>2. owned' \in [In!Roots -> 0 .. MaxPosted]
      BY <1>0, <1>2, Channel DEF LedgerInv, LedgerTypes
    <3> QED BY <1>0, <3>1, <3>2 DEF LedgerInv, LedgerTypes
  <2>2. \A e \in In!Msgs :
           \/ held'[e] = held[e] /\ e \notin ms
           \/ held'[e] = "closed" /\ e \in ms /\ e =< seenTo
           \/ held[e] = "bootstrap" /\ held'[e] = "inbound" /\ e \notin ms
    BY <1>0, <1>1
  <2> QED BY <1>0, <1>1, <2>1, <2>2, InboundKeepsGate
<1>4. \A e \in In!Msgs : RootOf[e] # t =>
        held'[e] = held[e] /\ inbound'[e] = inbound[e] \ ms /\ In!Owned(e)' = In!Owned(e)
  BY <1>0, <1>1, <1>2, Channel DEF LedgerInv, LedgerTypes, In!Settle, In!Owned
<1>5. \A e \in In!Msgs : RootOf[e] = t => In!Owned(e)' /\ held'[e] # "bootstrap"
  BY <1>0, <1>1, <1>2 DEF LedgerInv, LedgerTypes, Adopted, Starter, In!Owned
<1>6. Adopted'
  <2>1. \A e \in In!Msgs : RootOf[e] # t => \A b \in In!Msgs : Starter(b, e)' <=> Starter(b, e)
    BY <1>4 DEF Starter
  <2>2. \A e \in In!Msgs : held'[e] = "inbound" /\ ~In!Owned(e)' =>
            \/ \E b \in inbound'[e] : Starter(b, e)'
            \/ \E f \in In!Msgs : /\ held'[f] = "failed" /\ RootOf[f] = RootOf[e]
                                  /\ \A b \in In!Msgs : Starter(b, e)' => f < b
    <3> SUFFICES ASSUME NEW e \in In!Msgs, held'[e] = "inbound", ~In!Owned(e)'
                 PROVE  \/ \E b \in inbound'[e] : Starter(b, e)'
                        \/ \E f \in In!Msgs : /\ held'[f] = "failed" /\ RootOf[f] = RootOf[e]
                                              /\ \A b \in In!Msgs : Starter(b, e)' => f < b
      OBVIOUS
    <3>1. RootOf[e] # t /\ held[e] = "inbound" /\ ~In!Owned(e)
      BY <1>4, <1>5
    <3>2. CASE \E b \in inbound[e] : Starter(b, e)
      <4>1. PICK b \in inbound[e] : Starter(b, e)
        BY <3>2
      <4>2. b \in In!Msgs /\ b \notin ms
        BY <1>1, <3>1, <4>1 DEF LedgerInv, LedgerTypes, In!Rows, Starter
      <4> QED BY <1>4, <2>1, <3>1, <4>1, <4>2
    <3>3. CASE \E f \in In!Msgs : /\ held[f] = "failed" /\ RootOf[f] = RootOf[e]
                                  /\ \A b \in In!Msgs : Starter(b, e) => f < b
      BY <1>4, <2>1, <3>1, <3>3
    <3> QED BY <3>1, <3>2, <3>3 DEF LedgerInv, Adopted
  <2>3. /\ \A e \in In!Msgs : held'[e] = "job" => In!Owned(e)'
        /\ \A e \in In!Msgs : held'[e] = "bootstrap" => In!IsReply(e) /\ In!Mentions(e)
        /\ \A e, d \in In!Msgs : held'[e] = "bootstrap" /\ Starter(d, e)' => e = d
    BY <1>4, <1>5, <2>1 DEF LedgerInv, Adopted
  <2>4. \A e \in In!Msgs : held'[e] = "bootstrap" /\ In!Owned(e)' =>
            \E f \in In!Msgs : held'[f] = "failed" /\ RootOf[f] = RootOf[e] /\ f < e
    BY <1>4, <1>5 DEF LedgerInv, Adopted
  <2> QED BY <1>0, <2>2, <2>3, <2>4 DEF Adopted, In!IsReply, In!Mentions
<1> QED BY <1>3, <1>6 DEF LedgerInv

\* A delivery that ends as a job or fails does so at the head.
LEMMA EndKeeps ==
  ASSUME LedgerInv, NEW m \in In!Msgs, In!FailInbound(m) \/ In!Enqueue(m)
  PROVE  LedgerInv'
<1> DEFINE t == RootOf[m]
<1>0. /\ m \in In!Rows /\ inbound[m] = {} /\ In!Settle({m})
      /\ \/ held' = [held EXCEPT ![m] = "failed"]
         \/ held[m] = "inbound" /\ held' = [held EXCEPT ![m] = "job"]
      /\ owned' = [owned EXCEPT ![t] = IF held[m] # "bootstrap" /\ @ = 0 THEN m ELSE @]
      /\ UNCHANGED <<seenTo, kind, intent, snapped, op, updating>>
      /\ In!Fail \/ UNCHANGED mishaps
  BY DEF In!FailInbound, In!Enqueue, In!First, In!gateway, LedgerInv, LedgerTypes
<1>1. t \in In!Roots /\ m # 0 /\ held[m] \in {"bootstrap", "inbound"}
  BY <1>0, Channel DEF In!Rows
<1>2. LedgerTypes' /\ Past' /\ Gated'
  <2>1. /\ held' \in [In!Msgs -> In!Places] /\ owned' \in [In!Roots -> 0 .. MaxPosted]
        /\ mishaps' \in 0 .. MaxMishaps
    <3>1. held' \in [In!Msgs -> In!Places]
      BY <1>0 DEF LedgerInv, LedgerTypes, In!Places
    <3>2. owned' \in [In!Roots -> 0 .. MaxPosted]
      BY <1>0, <1>1, Channel DEF LedgerInv, LedgerTypes
    <3> QED BY <1>0, <3>1, <3>2, FailureIsBounded DEF LedgerInv, LedgerTypes
  <2>2. \A e \in In!Msgs :
           \/ held'[e] = held[e] /\ e \notin {m}
           \/ held[e] \in {"bootstrap", "inbound"} /\ held'[e] \in {"failed", "job"} /\ e \in {m}
    BY <1>0, <1>1 DEF LedgerInv, LedgerTypes
  <2> QED BY <1>0, <2>1, <2>2, InboundKeepsGate
<1>3. /\ \A e \in In!Msgs : e # m => held'[e] = held[e] /\ inbound'[e] = inbound[e] \ {m}
      /\ held'[m] \in {"failed", "job"} /\ (held'[m] = "job" => held[m] = "inbound")
      /\ \A e \in In!Msgs : inbound[e] \subseteq In!Msgs
  BY <1>0 DEF LedgerInv, LedgerTypes, In!Settle, In!Rows
<1>4. /\ \A e \in In!Msgs : RootOf[e] # t => In!Owned(e)' = In!Owned(e)
      /\ held[m] = "inbound" => \A e \in In!Msgs : RootOf[e] = t => In!Owned(e)'
      /\ held[m] = "bootstrap" => \A e \in In!Msgs : In!Owned(e)' = In!Owned(e)
      /\ \A e \in In!Msgs : In!Owned(e) => In!Owned(e)'
  BY <1>0, <1>1, Channel DEF LedgerInv, LedgerTypes, In!Owned
<1>5. \A e, d \in In!Msgs : Starter(e, d)' => Starter(e, d) /\ e # m
  BY <1>3 DEF Starter
<1>6. \A e, d \in In!Msgs : Starter(e, d) /\ e # m => Starter(e, d)'
  BY <1>3 DEF Starter
<1>7. \A e \in In!Msgs : held'[e] = "inbound" /\ ~In!Owned(e)' =>
        \/ \E b \in inbound'[e] : Starter(b, e)'
        \/ \E f \in In!Msgs : /\ held'[f] = "failed" /\ RootOf[f] = RootOf[e]
                              /\ \A b \in In!Msgs : Starter(b, e)' => f < b
  <2> SUFFICES ASSUME NEW e \in In!Msgs, held'[e] = "inbound", ~In!Owned(e)'
               PROVE  \/ \E b \in inbound'[e] : Starter(b, e)'
                      \/ \E f \in In!Msgs : /\ held'[f] = "failed" /\ RootOf[f] = RootOf[e]
                                            /\ \A b \in In!Msgs : Starter(b, e)' => f < b
    OBVIOUS
  <2>1. e # m /\ held[e] = "inbound" /\ ~In!Owned(e) /\ inbound'[e] = inbound[e] \ {m}
    BY <1>3, <1>4
  <2>2. CASE Starter(m, e)
    <3>1. held'[m] = "failed" /\ RootOf[m] = RootOf[e]
      BY <1>3, <2>2 DEF Starter
    <3>2. \A b \in In!Msgs : ~Starter(b, e)'
      BY <1>5, <2>2 DEF LedgerInv, Adopted, Starter
    <3> QED BY <3>1, <3>2
  <2>3. CASE ~Starter(m, e) /\ \E b \in inbound[e] : Starter(b, e)
    BY <1>3, <1>6, <2>1, <2>3
  <2>4. CASE \E f \in In!Msgs : /\ held[f] = "failed" /\ RootOf[f] = RootOf[e]
                                /\ \A b \in In!Msgs : Starter(b, e) => f < b
    BY <1>1, <1>3, <1>5, <2>4
  <2> QED BY <2>1, <2>2, <2>3, <2>4 DEF LedgerInv, Adopted
<1>8. \A e \in In!Msgs : held'[e] = "bootstrap" /\ In!Owned(e)' =>
        \E f \in In!Msgs : held'[f] = "failed" /\ RootOf[f] = RootOf[e] /\ f < e
  <2> SUFFICES ASSUME NEW e \in In!Msgs, held'[e] = "bootstrap", In!Owned(e)'
               PROVE  \E f \in In!Msgs : held'[f] = "failed" /\ RootOf[f] = RootOf[e] /\ f < e
    OBVIOUS
  <2>1. e # m /\ held[e] = "bootstrap"
    BY <1>3
  <2>2. \A f \in In!Msgs : held[f] = "failed" => held'[f] = "failed"
    BY <1>1, <1>3
  <2>3. CASE In!Owned(e)
    BY <2>1, <2>2, <2>3 DEF LedgerInv, Adopted
  <2>4. CASE ~In!Owned(e)
    <3>1. held[m] = "inbound" /\ RootOf[e] = t /\ ~In!Owned(m)
      BY <1>1, <1>4, <2>4 DEF In!Owned
    <3>2. PICK f \in In!Msgs : /\ held[f] = "failed" /\ RootOf[f] = t
                               /\ \A b \in In!Msgs : Starter(b, m) => f < b
      BY <1>0, <3>1 DEF LedgerInv, Adopted
    <3>3. Starter(e, m)
      BY <2>1, <3>1 DEF Starter
    <3> QED BY <2>2, <3>1, <3>2, <3>3
  <2> QED BY <2>3, <2>4
<1>9. Adopted'
  <2>1. /\ \A e \in In!Msgs : held'[e] = "job" => In!Owned(e)'
        /\ \A e \in In!Msgs : held'[e] = "bootstrap" => In!IsReply(e) /\ In!Mentions(e)
        /\ \A e, d \in In!Msgs : held'[e] = "bootstrap" /\ Starter(d, e)' => e = d
    BY <1>3, <1>4, <1>5 DEF LedgerInv, Adopted
  <2> QED BY <1>0, <1>7, <1>8, <2>1 DEF Adopted, In!IsReply, In!Mentions
<1> QED BY <1>2, <1>9 DEF LedgerInv

-----------------------------------------------------------------------------
(* Pages. *)

\* Low and High are the ends of a set of messages.
LEMMA LowIs ==
  ASSUME NEW S \in SUBSET In!Msgs, S # {}, NEW d
  PROVE  In!Low(S, d) \in S /\ \A e \in S : In!Low(S, d) =< e
<1>1. \E u \in S : \A e \in S : u =< e
  BY LeastIs, Channel
<1> QED BY <1>1 DEF In!Low

\* The other end.
LEMMA HighIs ==
  ASSUME NEW S \in SUBSET In!Msgs, S # {}, NEW d
  PROVE  In!High(S, d) \in S /\ \A e \in S : e =< In!High(S, d)
<1> DEFINE T == {n \in Nat : \A e \in S : e =< n}
<1>1. MaxPosted \in T
  BY Channel
<1>2. PICK n \in T : \A k \in T : n =< k
  BY <1>1, LeastIs
<1>3. n \in S
  <2> SUFFICES ASSUME n \notin S PROVE FALSE
    OBVIOUS
  <2>1. \A e \in S : e < n /\ e \in Nat /\ e # 0
    BY Channel
  <2>2. n - 1 \in T
    BY <2>1
  <2> QED BY <1>2, <2>2
<1>4. \E u \in S : \A e \in S : e =< u
  BY <1>3
<1> QED BY <1>4 DEF In!High

\* Cardinality is that of the library.
LEMMA InCardinality == \A S : In!Cardinality(S) = Cardinality(S)
  BY DEF In!Cardinality, Cardinality

\* The elements of a finite set make a sequence.
LEMMA SetToSeqIs == ASSUME NEW S, IsFiniteSet(S) PROVE In!SetToSeq(S) \in Seq(S)
<1> DEFINE n == Cardinality(S)
<1>1. n \in Nat /\ ExistsBijection(1 .. n, S)
  BY FS_CardinalityType
<1>2. \E f \in [1 .. n -> S] : In!IsInjective(f)
  BY <1>1 DEF ExistsBijection, Bijection, Injection, IsInjective, In!IsInjective
<1>3. In!SetToSeq(S) \in [1 .. n -> S]
  BY <1>2, InCardinality DEF In!SetToSeq
<1> QED BY <1>1, <1>3

\* With a message a page has what is before it, or after it.
LEMMA PageIsWhole ==
  ASSUME NEW S \in SUBSET In!Msgs
  PROVE  /\ In!Oldest(S, PageSize) \subseteq S /\ In!Newest(S, PageSize) \subseteq S
         /\ \A m \in In!Oldest(S, PageSize) : \A e \in S : e < m => e \in In!Oldest(S, PageSize)
         /\ \A m \in In!Newest(S, PageSize) : \A e \in S : e > m => e \in In!Newest(S, PageSize)
<1>1. IsFiniteSet(S)
  <2>1. IsFiniteSet(In!Msgs)
    BY Channel, FS_Interval DEF In!Msgs
  <2> QED BY <2>1, FS_Subset
<1>2. ASSUME NEW A \in SUBSET S, NEW B \in SUBSET A PROVE
        Cardinality(B) =< Cardinality(A) /\ Cardinality(A) \in Nat /\ Cardinality(B) \in Nat
  <2>1. IsFiniteSet(A)
    BY <1>1, FS_Subset
  <2>2. IsFiniteSet(B)
    BY <2>1, FS_Subset
  <2> QED BY <2>1, <2>2, FS_Subset, FS_CardinalityType
<1>3. ASSUME NEW m \in In!Oldest(S, PageSize), NEW e \in S, e < m
      PROVE  e \in In!Oldest(S, PageSize)
  <2> DEFINE A == {u \in S : u < m}
             B == {u \in S : u < e}
  <2>1. m \in S /\ Cardinality(A) < PageSize
    <3>1. m \in S /\ In!Cardinality({u \in S : u < m}) < PageSize
      BY <1>3, Zenon DEF In!Oldest
    <3> QED BY <3>1, InCardinality, Zenon
  <2>2. B \in SUBSET A /\ A \in SUBSET S
    <3>1. \A u \in S : u \in Nat
      BY Channel
    <3>2. \A u \in S : u < e => u < m
      BY <1>3, <2>1, <3>1
    <3> QED BY <3>2
  <2>3. Cardinality(B) =< Cardinality(A) /\ Cardinality(A) \in Nat /\ Cardinality(B) \in Nat
    <3> HIDE DEF A, B
    <3> QED BY <1>2, <2>2
  <2>4. Cardinality(B) < PageSize
    <3> HIDE DEF A, B
    <3> QED BY <2>1, <2>3, IngressAssumption
  <2> QED BY <2>4, InCardinality, Zenon DEF In!Oldest
<1>4. ASSUME NEW m \in In!Newest(S, PageSize), NEW e \in S, e > m
      PROVE  e \in In!Newest(S, PageSize)
  <2> DEFINE A == {u \in S : u > m}
             B == {u \in S : u > e}
  <2>1. m \in S /\ Cardinality(A) < PageSize
    <3>1. m \in S /\ In!Cardinality({u \in S : u > m}) < PageSize
      BY <1>4, Zenon DEF In!Newest
    <3> QED BY <3>1, InCardinality, Zenon
  <2>2. B \in SUBSET A /\ A \in SUBSET S
    <3>1. \A u \in S : u \in Nat
      BY Channel
    <3>2. \A u \in S : u > e => u > m
      BY <1>4, <2>1, <3>1
    <3> QED BY <3>2
  <2>3. Cardinality(B) =< Cardinality(A) /\ Cardinality(A) \in Nat /\ Cardinality(B) \in Nat
    <3> HIDE DEF A, B
    <3> QED BY <1>2, <2>2
  <2>4. Cardinality(B) < PageSize
    <3> HIDE DEF A, B
    <3> QED BY <2>1, <2>3, IngressAssumption
  <2> QED BY <2>4, InCardinality, Zenon DEF In!Newest
<1> QED BY <1>3, <1>4 DEF In!Oldest, In!Newest

\* What no step takes back: messages stay recorded, and threads owned.
Grows ==
  /\ seenTo' \in seenTo .. MaxPosted /\ kind' = kind
  /\ \A m \in In!Msgs : In!Durable(m) => In!Durable(m)'
  /\ \A t \in In!Roots : owned'[t] # owned[t] => owned[t] = 0 /\ owned'[t] =< seenTo

\* A post, or the offer of a page or of what is due.
LEMMA OffersKeep ==
  ASSUME LedgerInv,
         \/ In!Post
         \/ \E t \in In!Roots : In!PollRead(t)
         \/ In!SweepChannel
         \/ In!SweepScan
         \/ \E m \in In!Msgs : In!Drain(m)
  PROVE  LedgerInv' /\ Grows
<1>0. /\ seenTo \in 0 .. MaxPosted /\ MaxPosted \in Nat /\ mishaps \in 0 .. MaxMishaps
      /\ seenTo =< Len(kind) /\ Len(kind) \in Nat /\ Len(kind) =< MaxPosted /\ updating \in BOOLEAN
  <2>1. /\ seenTo \in 0 .. MaxPosted /\ mishaps \in 0 .. MaxMishaps /\ kind \in KindSets
        /\ seenTo =< Len(kind) /\ updating \in BOOLEAN
    BY DEF LedgerInv, LedgerTypes, Past
  <2> QED BY <2>1, IngressAssumption
<1>1. ASSUME NEW S, In!Offer(S), S \subseteq 1 .. seenTo', UNCHANGED <<kind, updating, mishaps>>,
             seenTo' = seenTo \/ (seenTo < Len(kind) /\ seenTo' = seenTo + 1)
      PROVE  LedgerInv' /\ Grows
  <2>1. seenTo' \in seenTo .. MaxPosted /\ seenTo' =< Len(kind)
    BY <1>0, <1>1
  <2>2. LedgerInv'
    BY <1>0, <1>1, <2>1, OfferKeeps
  <2>3. UNCHANGED <<held, owned>>
    BY <1>1 DEF In!Offer
  <2> QED BY <1>1, <2>1, <2>2, <2>3 DEF Grows, In!Durable
<1>2. ASSUME UNCHANGED <<seenTo, intent, snapped, held, inbound, owned, kind, op, updating,
                         mishaps>>
      PROVE  LedgerInv' /\ Grows
  <2>1. LedgerInv'
    BY <1>0, <1>2, RestKeeps
  <2> QED BY <1>0, <1>2, <2>1 DEF Grows, In!Durable
<1>3. CASE In!Post
  <2>1. /\ seenTo < Len(kind) /\ seenTo' = seenTo + 1 /\ UNCHANGED <<kind, updating, mishaps>>
        /\ In!Offer({seenTo'}) \/ UNCHANGED <<intent, snapped, held, inbound, owned, op>>
    BY <1>3 DEF In!Post, In!ledger
  <2>2. CASE In!Offer({seenTo'})
    <3>1. {seenTo'} \subseteq 1 .. seenTo'
      BY <1>0, <2>1
    <3> QED BY <1>1, <2>1, <2>2, <3>1
  <2>3. CASE UNCHANGED <<intent, snapped, held, inbound, owned, op>>
    <3>1. seenTo' \in seenTo .. MaxPosted /\ seenTo' =< Len(kind)
      BY <1>0, <2>1
    <3>2. LedgerInv'
      BY <1>0, <2>1, <2>3, <3>1, RestKeeps
    <3> QED BY <2>1, <2>3, <3>1, <3>2 DEF Grows, In!Durable
  <2> QED BY <2>1, <2>2, <2>3
<1>4. ASSUME NEW t \in In!Roots, In!PollRead(t) PROVE LedgerInv' /\ Grows
  <2> DEFINE page == In!Oldest(In!Replies(t, In!PollFrom(t)), PageSize)
             need == {m \in page : kind[m] # "refused"}
  <2>1. In!Offer(need) /\ UNCHANGED <<seenTo, kind, updating, mishaps>>
    BY <1>4 DEF In!PollRead
  <2>2. need \subseteq 1 .. seenTo'
    BY <2>1 DEF In!Oldest, In!Replies
  <2> HIDE DEF need
  <2> QED BY <1>1, <2>1, <2>2
<1>5. CASE In!SweepChannel
  <2> DEFINE page == In!Newest(In!RecentRead(In!Begun(recent)), PageSize)
             need == {m \in page : kind[m] = "mention"}
  <2>1. In!Offer(need) /\ UNCHANGED <<seenTo, kind, updating, mishaps>>
    BY <1>5 DEF In!SweepChannel
  <2>2. need \subseteq 1 .. seenTo'
    <3>1. \A m \in In!Msgs : m =< seenTo => m \in 1 .. seenTo
      BY <1>0 DEF In!Msgs
    <3> QED BY <2>1, <3>1, Channel DEF In!Newest, In!RecentRead
  <2> HIDE DEF need
  <2> QED BY <1>1, <2>1, <2>2
<1>6. CASE In!SweepScan
  <2> DEFINE s1 == Head(scans)
             page == In!Oldest(In!Replies(s1.of, s1.cursor), PageSize)
             need == {m \in page : In!IsReply(m)}
  <2>1. /\ UNCHANGED <<seenTo, kind, updating, mishaps>>
        /\ In!Offer(need) \/ UNCHANGED <<intent, snapped, held, inbound, owned, op>>
    BY <1>6 DEF In!SweepScan, In!ledger
  <2>2. need \subseteq 1 .. seenTo'
    BY <2>1 DEF In!Oldest, In!Replies
  <2> HIDE DEF need
  <2> QED BY <1>1, <1>2, <2>1, <2>2
<1>7. ASSUME NEW m \in In!Msgs, In!Drain(m) PROVE LedgerInv' /\ Grows
  <2>1. In!Offer({m}) /\ UNCHANGED <<seenTo, kind, updating, mishaps>> /\ intent[m] # "none"
    BY <1>7 DEF In!Drain, In!Unsettled
  <2>2. {m} \subseteq 1 .. seenTo'
    BY <1>0, <2>1 DEF LedgerInv, Past, In!Msgs
  <2> QED BY <1>1, <2>1, <2>2
<1> QED BY <1>3, <1>4, <1>5, <1>6, <1>7

\* The hand-over of a message, and the inbound queue.
LEMMA HandlesKeep ==
  ASSUME LedgerInv, NEW m \in In!Msgs, In!HandOver(m) \/ In!Inbound(m)
  PROVE  LedgerInv' /\ Grows
<1>1. LedgerInv'
  BY SnapshotKeeps, ClaimKeeps, ClassifyKeeps, DeliverKeeps, FinalizeKeeps, EndKeeps
  DEF In!HandOver, In!Inbound
<1>2. UNCHANGED <<seenTo, kind>>
  BY DEF In!HandOver, In!Inbound, In!Snapshot, In!Claim, In!Classify, In!Deliver, In!Finalize,
     In!FailInbound, In!Enqueue
<1>3. seenTo' \in seenTo .. MaxPosted
  BY <1>2, Channel DEF LedgerInv, LedgerTypes
<1>4. \A e \in In!Msgs : In!Durable(e) => In!Durable(e)'
  BY DEF LedgerInv, LedgerTypes, In!HandOver, In!Inbound, In!Snapshot, In!Claim, In!Classify,
     In!Deliver, In!Stage, In!Finalize, In!FailInbound, In!Enqueue, In!Durable
<1>5. \/ UNCHANGED owned
      \/ owned' = [owned EXCEPT ![RootOf[m]] = m] /\ owned[RootOf[m]] = 0
  <2>1. \A t : [owned EXCEPT ![t] = owned[t]] = owned
    BY DEF LedgerInv, LedgerTypes
  <2> QED BY <2>1 DEF In!HandOver, In!Inbound, In!Snapshot, In!Claim, In!Classify,
     In!Deliver, In!Stage, In!Finalize, In!FailInbound, In!Enqueue
<1>6. m =< seenTo
  BY DEF LedgerInv, LedgerTypes, Past, In!HandOver, In!Inbound, In!Snapshot, In!Claim,
     In!Classify,
     In!Deliver, In!Finalize, In!FailInbound, In!Enqueue, In!Durable, In!First, In!Rows
<1>7. \A t \in In!Roots : owned'[t] # owned[t] => owned[t] = 0 /\ owned'[t] =< seenTo
  BY <1>5, <1>6 DEF LedgerInv, LedgerTypes
<1> QED BY <1>1, <1>2, <1>3, <1>4, <1>7 DEF Grows

\* The rest leaves the ledger alone.
LEMMA OthersKeep ==
  ASSUME LedgerInv,
         \/ In!PollCommit
         \/ In!PollGivesUp
         \/ In!ChannelCommit
         \/ In!ScanCommit
         \/ In!Crash
         \/ In!UpdateStarts
         \/ In!UpdateEnds
  PROVE  LedgerInv' /\ Grows
<1>1. /\ UNCHANGED <<seenTo, kind, intent, snapped, held, inbound, owned>>
      /\ op' = op \/ op' = In!Idle
      /\ In!Fail \/ UNCHANGED mishaps
      /\ updating' = updating \/ updating' \in BOOLEAN
  BY DEF In!PollCommit, In!PollGivesUp, In!ChannelCommit, In!ScanCommit, In!Crash,
     In!UpdateStarts,
     In!UpdateEnds, In!ledger, In!gateway
<1>2. /\ seenTo' \in seenTo .. MaxPosted /\ seenTo' =< Len(kind) /\ updating' \in BOOLEAN
      /\ mishaps' \in 0 .. MaxMishaps
  BY <1>1, FailureIsBounded, Channel DEF LedgerInv, LedgerTypes, Past
<1>3. LedgerInv'
  BY <1>1, <1>2, RestKeeps
<1> QED BY <1>1, <1>2, <1>3 DEF Grows, In!Durable

\* What the reads need to know of the ledger: each number is one, each owner a message.
LEMMA LedgerNumbers ==
  ASSUME LedgerInv
  PROVE  /\ seenTo \in Nat /\ seenTo =< MaxPosted /\ MaxPosted \in Nat
         /\ \A t \in In!Roots : owned[t] \in 0 .. MaxPosted
  BY Channel DEF LedgerInv, LedgerTypes

\* The marks of a cycle are numbers.
LEMMA CycleNumbers ==
  ASSUME PositionTypes, NEW c \in {recent, parents}
  PROVE  /\ c \in In!Cycle /\ c.cursor \in Nat /\ c.oldest \in Nat /\ c.started \in Nat
         /\ In!Latest(c) \in Nat
  BY Channel DEF PositionTypes, In!Cycle, In!Latest

\* A step that leaves the read positions alone, and the pages or drops them.
LEMMA ReadsStay ==
  ASSUME LedgerInv, ReadInv, LedgerInv', Grows, UNCHANGED <<seen, recent, parents, scans>>,
         poll' = poll \/ poll' = In!NoPage, sweep' = sweep \/ sweep' = In!Resting
  PROVE  ReadInv'
<1>0. /\ seenTo \in Nat /\ seenTo' \in Nat /\ seenTo =< seenTo' /\ kind' = kind
      /\ \A t \in In!Roots : seen[t] \in Nat /\ owned[t] \in Nat /\ seen[t] =< seenTo
      /\ \A t \in In!Roots : owned'[t] = owned[t] \/ (owned[t] = 0 /\ owned'[t] =< seenTo)
  BY Channel, LedgerNumbers DEF Grows, ReadInv, PositionTypes, Polled
<1>1. PositionTypes'
  BY DEF ReadInv, PositionTypes
<1>2. PageTypes'
  <2>1. In!NoPage \in In!Page
    BY Channel DEF In!NoPage, In!Page
  <2>2. poll' \in In!Page
    BY <2>1 DEF ReadInv, PageTypes
  <2>3. sweep'.step \in {"channel", "scan"} /\ sweep'.page \in In!Page /\ sweep'.busy \in BOOLEAN
    <3>1. CASE sweep' = sweep
      BY <3>1 DEF ReadInv, PageTypes
    <3>2. CASE sweep' = In!Resting
      BY <2>1, <3>2 DEF In!Resting
    <3> QED BY <3>1, <3>2
  <2> QED BY <2>2, <2>3 DEF PageTypes
<1>3. Polled'
  <2>1. \A t \in In!Roots :
          seen'[t] =< seenTo' /\ owned'[t] =< seenTo' /\ (owned'[t] = 0 => seen'[t] = 0)
    <3>1. \A t \in In!Roots : owned[t] =< seenTo /\ (owned[t] = 0 => seen[t] = 0)
      BY DEF ReadInv, Polled
    <3>2. \A t \in In!Roots : owned'[t] \in Nat
      BY Channel DEF LedgerInv, LedgerTypes
    <3> QED BY <1>0, <3>1, <3>2
  <2>2. \A m \in In!Msgs :
          owned'[RootOf[m]] < m /\ m =< seen[RootOf[m]] /\ kind[m] # "refused" => In!Durable(m)'
    <3> SUFFICES ASSUME NEW m \in In!Msgs, owned'[RootOf[m]] < m, m =< seen[RootOf[m]],
                        kind[m] # "refused"
                 PROVE  In!Durable(m)
      BY DEF Grows
    <3>1. RootOf[m] \in In!Roots /\ m \in Nat /\ m # 0
      BY Channel
    <3>2. owned[RootOf[m]] # 0
      BY <3>1 DEF ReadInv, Polled
    <3> QED BY <1>0, <3>1, <3>2 DEF ReadInv, Polled
  <2>3. ASSUME poll'.of # 0
        PROVE  /\ poll'.of \in In!Roots /\ owned'[poll'.of] # 0 /\ poll'.next =< seenTo'
               /\ \A m \in In!Msgs :
                    /\ RootOf[m] = poll'.of /\ In!PollFrom(poll.of)' < m /\ m =< poll'.next
                    /\ kind'[m] # "refused"
                    => m \in poll'.need
    <3>1. poll' = poll
      BY <2>3 DEF In!NoPage
    <3>0. /\ poll.of \in In!Roots /\ owned[poll.of] # 0 /\ poll.next =< seenTo
          /\ \A m \in In!Msgs :
               /\ RootOf[m] = poll.of /\ In!PollFrom(poll.of) < m /\ m =< poll.next
               /\ kind[m] # "refused"
               => m \in poll.need
      <4>1. poll.of # 0
        BY <2>3, <3>1
      <4> QED BY <4>1 DEF ReadInv, Polled
    <3>2. owned'[poll.of] = owned[poll.of]
      BY <1>0, <3>0
    <3>3. In!PollFrom(poll.of)' = In!PollFrom(poll.of)
      BY <3>0, <3>1, <3>2 DEF In!PollFrom
    <3>4. poll.next \in Nat /\ poll.next =< seenTo
      BY <3>0, Channel DEF ReadInv, PageTypes, In!Page
    <3>5. poll.next =< seenTo' /\ owned'[poll.of] # 0
      BY <1>0, <3>0, <3>2, <3>4
    <3> QED BY <1>0, <3>0, <3>1, <3>3, <3>5
  <2> QED BY <1>0, <2>1, <2>2, <2>3 DEF Polled
<1>4. Swept'
  <2>0. /\ \A c \in {recent, parents} : /\ c.started \in 1 .. (seenTo + 1) /\ c.oldest =< seenTo
                                        /\ c.cursor =< seenTo
        /\ recent.oldest \in Nat /\ recent.cursor \in Nat /\ parents.oldest \in Nat
        /\ parents.cursor \in Nat
    BY CycleNumbers DEF ReadInv, Swept
  <2>1. \A c \in {recent, parents} : /\ c.started \in 1 .. (seenTo' + 1) /\ c.oldest =< seenTo'
                                     /\ c.cursor =< seenTo'
    BY <1>0, <2>0
  <2>2. \A m \in In!Roots :
          m =< seenTo' /\ kind[m] = "mention" /\ LeftBehind(recent, m) => In!Durable(m)'
    <3> SUFFICES ASSUME NEW m \in In!Roots, m =< seenTo', kind[m] = "mention", LeftBehind(recent, m)
                 PROVE  m =< seenTo
      BY Channel DEF Grows, ReadInv, Swept
    <3> QED BY <1>0, <2>0, Channel DEF LeftBehind
  <2>3. In!RecentRead(recent)' = In!RecentRead(recent)
    <3>1. \A m \in In!Roots : m < In!Latest(recent) => m =< seenTo
      BY <1>0, <2>0, Channel DEF In!Latest
    <3>2. \A m \in In!Roots : m =< seenTo => m =< seenTo'
      BY <1>0, Channel
    <3>3. In!Latest(recent)' = In!Latest(recent)
      BY DEF In!Latest
    <3> QED BY <3>1, <3>2, <3>3 DEF In!RecentRead
  <2>4. In!Newest(In!RecentRead(recent), PageSize)' = In!Newest(In!RecentRead(recent), PageSize)
    BY <2>3 DEF In!Newest
  <2>5. sweep' = sweep \/ sweep'.busy = FALSE
    BY DEF In!Resting
  <2> QED BY <1>0, <2>1, <2>2, <2>4, <2>5 DEF ReadInv, Swept, LeftBehind, In!Latest
<1> QED BY <1>1, <1>2, <1>3, <1>4 DEF ReadInv

\* A page of a poll has what lies between the cursor and its end.
LEMMA PollReads ==
  ASSUME InInv, LedgerInv', NEW t \in In!Roots, In!PollRead(t)
  PROVE  ReadInv'
<1> DEFINE from == In!PollFrom(t)
           left == In!Replies(t, from)
           page == In!Oldest(left, PageSize)
           next == In!High(page, from)
<1>0. /\ owned[t] # 0 /\ In!Offer({m \in page : kind[m] # "refused"})
      /\ poll' = [need |-> {m \in page : kind[m] # "refused"}, next |-> next, more |-> FALSE,
                  of |-> t]
      /\ UNCHANGED <<seenTo, kind, seen, recent, parents, scans, sweep>>
  BY DEF In!PollRead, In!cursors
<1>1. UNCHANGED <<held, owned>>
  BY <1>0 DEF In!Offer
<1>2. /\ seenTo \in 0 .. MaxPosted /\ MaxPosted \in Nat /\ t \in In!Msgs
      /\ from \in 0 .. MaxPosted /\ from =< seenTo /\ (seen[t] # 0 => from = seen[t])
      /\ seen[t] = 0 => from = owned[t]
  BY Channel DEF InInv, LedgerInv, LedgerTypes, ReadInv, PositionTypes, Polled, In!PollFrom
<1>3. /\ left \in SUBSET In!Msgs /\ \A m \in left : m =< seenTo /\ m > from
      /\ \A m \in In!Msgs : RootOf[m] = t /\ m =< seenTo /\ from < m => m \in left
  BY <1>2, Channel DEF In!Replies, In!Msgs
<1>4. page \subseteq left /\ \A m \in page : \A e \in left : e < m => e \in page
  BY <1>3, PageIsWhole
<1>5. next \in 0 .. MaxPosted /\ next =< seenTo
      /\ (page = {} => next = from) /\ (page # {} => next \in page)
  <2>1. CASE page = {}
    BY <1>2, <2>1 DEF In!High
  <2>2. CASE page # {}
    BY <1>2, <1>3, <1>4, <2>2, HighIs, Channel
  <2> QED BY <2>1, <2>2
<1>6. \A m \in In!Msgs : RootOf[m] = t /\ from < m /\ m =< next => m \in page
  <2> SUFFICES ASSUME NEW m \in In!Msgs, RootOf[m] = t, from < m, m =< next PROVE m \in page
    OBVIOUS
  <2>0. m \in Nat /\ next \in Nat /\ from \in Nat /\ seenTo \in Nat
    BY <1>2, <1>5, Channel
  <2>1. m =< seenTo
    BY <1>5, <2>0
  <2>2. m \in left /\ next \in page
    BY <1>3, <1>5, <2>0, <2>1
  <2>3. m = next \/ m < next
    BY <2>0
  <2> QED BY <1>4, <2>2, <2>3
<1> HIDE DEF from, left, page, next
<1>7. PositionTypes' /\ PageTypes'
  <2>1. poll' \in In!Page
    <3>1. {m \in page : kind[m] # "refused"} \in SUBSET In!Msgs
      BY <1>3, <1>4
    <3>2. t \in 0 .. MaxPosted
      BY <1>2, Channel
    <3> QED BY <1>0, <1>5, <3>1, <3>2 DEF In!Page
  <2> QED BY <1>0, <2>1 DEF InInv, ReadInv, PositionTypes, PageTypes
<1>8. Polled'
  <2>1. In!PollFrom(t)' = from
    BY <1>0, <1>1 DEF In!PollFrom, from
  <2>2. poll'.of = t /\ poll'.next = next /\ poll'.need = {m \in page : kind[m] # "refused"}
    BY <1>0
  <2>3. \A m \in In!Msgs : /\ RootOf[m] = t /\ In!PollFrom(t)' < m /\ m =< next
                           /\ kind'[m] # "refused"
                           => m \in poll'.need
    BY <1>0, <1>6, <2>1, <2>2
  <2>4. /\ \A e \in In!Roots : seen'[e] =< seenTo' /\ owned'[e] =< seenTo'
                               /\ (owned'[e] = 0 => seen'[e] = 0)
        /\ \A m \in In!Msgs : owned'[RootOf[m]] < m /\ m =< seen'[RootOf[m]] /\ kind'[m] # "refused"
                              => In!Durable(m)'
    BY <1>0, <1>1 DEF InInv, ReadInv, Polled, In!Durable
  <2> QED BY <1>0, <1>1, <1>5, <2>2, <2>3, <2>4 DEF Polled
<1>9. Swept'
  BY <1>0, <1>1 DEF InInv, ReadInv, Swept, In!Durable, In!RecentRead, In!Newest, LeftBehind,
     In!Latest
<1> QED BY <1>7, <1>8, <1>9 DEF ReadInv

\* A cursor passes what is in the ledger.
LEMMA PollCommits ==
  ASSUME InInv, In!PollCommit
  PROVE  ReadInv'
<1>0. /\ poll.of # 0 /\ poll' = In!NoPage
      /\ seen' = [seen EXCEPT ![poll.of] = IF In!AllDurable(poll.need) THEN poll.next ELSE @]
      /\ UNCHANGED <<seenTo, kind, held, owned, recent, parents, scans, sweep>>
  BY DEF In!PollCommit, In!ledger
<1>1. /\ poll.of \in In!Roots /\ owned[poll.of] # 0 /\ poll.next =< seenTo
      /\ \A m \in In!Msgs :
           /\ RootOf[m] = poll.of /\ In!PollFrom(poll.of) < m /\ m =< poll.next
           /\ kind[m] # "refused"
           => m \in poll.need
  BY <1>0 DEF InInv, ReadInv, Polled
<1>2. seenTo \in Nat /\ poll.next \in 0 .. MaxPosted
  BY LedgerNumbers DEF InInv, ReadInv, PageTypes, In!Page
<1>3. PositionTypes' /\ PageTypes'
  <2>1. In!NoPage \in In!Page
    BY Channel DEF In!NoPage, In!Page
  <2>2. seen' \in [In!Roots -> 0 .. MaxPosted]
    BY <1>0, <1>1, <1>2 DEF InInv, ReadInv, PositionTypes
  <2> QED BY <1>0, <2>1, <2>2 DEF InInv, ReadInv, PositionTypes, PageTypes
<1>4. Polled'
  <2>1. \A t \in In!Roots : seen'[t] =< seenTo /\ (owned[t] = 0 => seen'[t] = 0)
    BY <1>0, <1>1, <1>2 DEF InInv, ReadInv, PositionTypes, Polled
  <2>2. \A m \in In!Msgs : owned[RootOf[m]] < m /\ m =< seen'[RootOf[m]] /\ kind[m] # "refused"
                           => In!Durable(m)
    <3> SUFFICES ASSUME NEW m \in In!Msgs, owned[RootOf[m]] < m, m =< seen'[RootOf[m]],
                        kind[m] # "refused"
                 PROVE  In!Durable(m)
      OBVIOUS
    <3>1. RootOf[m] \in In!Roots /\ m \in Nat /\ m # 0
      BY Channel
    <3>2. CASE seen'[RootOf[m]] = seen[RootOf[m]]
      BY <3>2 DEF InInv, ReadInv, Polled
    <3>3. CASE seen'[RootOf[m]] # seen[RootOf[m]]
      <4>1. RootOf[m] = poll.of /\ In!AllDurable(poll.need) /\ m =< poll.next
        BY <1>0, <1>1, <3>1, <3>3 DEF InInv, ReadInv, PositionTypes
      <4>2. CASE In!PollFrom(poll.of) < m
        BY <1>1, <4>1, <4>2 DEF In!AllDurable
      <4>3. CASE ~(In!PollFrom(poll.of) < m)
        <5>1. seen[poll.of] \in Nat /\ owned[poll.of] \in Nat
          <6>1. LedgerInv /\ seen \in [In!Roots -> 0 .. MaxPosted]
            BY DEF InInv, ReadInv, PositionTypes
          <6>2. owned[poll.of] \in 0 .. MaxPosted /\ MaxPosted \in Nat
            BY <1>1, <6>1, LedgerNumbers
          <6>3. seen[poll.of] \in 0 .. MaxPosted
            BY <1>1, <6>1
          <6> QED BY <6>2, <6>3
        <5>2. m =< seen[poll.of]
          BY <3>1, <4>1, <4>3, <5>1 DEF In!PollFrom
        <5> QED BY <4>1, <5>2 DEF InInv, ReadInv, Polled
      <4> QED BY <4>2, <4>3
    <3> QED BY <3>2, <3>3
  <2> QED BY <1>0, <2>1, <2>2 DEF InInv, ReadInv, Polled, In!NoPage, In!Durable
<1>5. Swept'
  BY <1>0 DEF InInv, ReadInv, Swept, In!Durable, In!RecentRead, In!Newest, LeftBehind, In!Latest
<1> QED BY <1>3, <1>4, <1>5 DEF ReadInv

\* A new cycle overlaps the one before.
LEMMA Begins ==
  ASSUME ReadInv, NEW c \in {recent, parents}, seenTo \in Nat, seenTo =< MaxPosted
  PROVE  /\ In!Begun(c) \in In!Cycle /\ In!Begun(c).started \in 1 .. (seenTo + 1)
         /\ In!Begun(c).oldest =< seenTo /\ In!Begun(c).cursor =< seenTo
         /\ ~In!Begun(c).complete
         /\ \A m \in In!Roots : m =< seenTo /\ LeftBehind(In!Begun(c), m) => LeftBehind(c, m)
<1>0. /\ c \in In!Cycle /\ c.cursor \in Nat /\ c.oldest \in Nat /\ c.started \in Nat
      /\ c.started \in 1 .. (seenTo + 1) /\ c.oldest =< seenTo /\ c.cursor =< seenTo
      /\ MaxPosted \in Nat
  BY CycleNumbers, Channel DEF ReadInv, Swept
<1>1. CASE ~c.complete
  <2>1. In!Begun(c) = c
    BY <1>1 DEF In!Begun
  <2> QED BY <1>0, <1>1, <2>1
<1>2. CASE c.complete
  <2>1. In!Begun(c) = [cursor |-> 0, complete |-> FALSE, oldest |-> c.started - 1,
                       started |-> seenTo + 1]
    BY <1>2 DEF In!Begun, In!NextOldest
  <2>2. \A m \in In!Roots : m =< seenTo /\ LeftBehind(In!Begun(c), m) => LeftBehind(c, m)
    BY <1>0, <1>2, <2>1, Channel DEF LeftBehind, In!Latest
  <2>3. c.started - 1 \in 0 .. (MaxPosted + 1) /\ seenTo + 1 \in 0 .. (MaxPosted + 1)
    BY <1>0
  <2>4. In!Begun(c) \in In!Cycle
    BY <1>0, <2>1, <2>3 DEF In!Cycle
  <2>5. /\ In!Begun(c).started = seenTo + 1 /\ In!Begun(c).oldest = c.started - 1
        /\ In!Begun(c).cursor = 0 /\ In!Begun(c).complete = FALSE
    BY <2>1
  <2> QED BY <1>0, <2>2, <2>4, <2>5
<1> QED BY <1>1, <1>2

\* The roots a cycle has still to read, and the page of them, are posted messages.
LEMMA LeftIs ==
  ASSUME NEW c, NEW left \in {In!RecentRead(c), In!ParentsRead(c)}
  PROVE  /\ left \in SUBSET In!Msgs /\ left \subseteq In!Roots /\ \A m \in left : m =< seenTo
         /\ In!Newest(left, PageSize) \subseteq left
  BY Channel, PageIsWhole DEF In!RecentRead, In!ParentsRead

\* The reply scans a page of roots starts.
LEMMA FoundIs ==
  ASSUME NEW c \in In!Cycle, c.oldest =< MaxPosted, NEW page \in SUBSET In!Roots
  PROVE  In!Found(c, page) \subseteq In!Scan /\ IsFiniteSet(In!Found(c, page))
<1>1. In!Found(c, page) \subseteq In!Scan
  <2>1. c.oldest \in 0 .. MaxPosted
    BY Channel DEF In!Cycle
  <2> QED BY <2>1, Channel DEF In!Found, In!Scan
<1>2. IsFiniteSet(page)
  <2>1. IsFiniteSet(In!Msgs)
    BY Channel, FS_Interval DEF In!Msgs
  <2> QED BY <2>1, Channel, FS_Subset
<1>3. IsFiniteSet(In!Found(c, page))
  <2> DEFINE f == [t \in page |-> [of |-> t, oldest |-> c.oldest, cursor |-> c.oldest]]
             T == {f[t] : t \in page}
  <2>1. IsFiniteSet(T)
    <3>1. f \in Surjection(page, T)
      BY DEF Surjection
    <3> HIDE DEF f, T
    <3> QED BY <1>2, <3>1, FS_Surjection
  <2>2. In!Found(c, page) \subseteq T
    BY DEF In!Found
  <2> HIDE DEF T
  <2> QED BY <2>1, <2>2, FS_Subset
<1> QED BY <1>1, <1>3

\* What is staged behind the scans is scans.
LEMMA StagedIs ==
  ASSUME scans \in Seq(In!Scan), NEW new \in SUBSET In!Scan, IsFiniteSet(new)
  PROVE  In!Staged(new) \in Seq(In!Scan)
<1> DEFINE some == {e \in new : \A i \in 1 .. Len(scans) :
                      scans[i].of # e.of \/ scans[i].oldest # e.oldest}
<1>1. some \subseteq new /\ some \subseteq In!Scan
  OBVIOUS
<1>2. In!Staged(new) = scans \o In!SetToSeq(some)
  BY DEF In!Staged
<1> HIDE DEF some
<1>3. IsFiniteSet(some)
  BY <1>1, FS_Subset
<1>4. In!SetToSeq(some) \in Seq(some)
  BY <1>3, SetToSeqIs
<1>5. In!SetToSeq(some) \in Seq(In!Scan)
  BY <1>1, <1>4
<1> QED BY <1>2, <1>5

\* A page of the channel, of the cycles that go on or begin.
LEMMA ChannelReads ==
  ASSUME InInv, LedgerInv', In!SweepChannel
  PROVE  ReadInv'
<1> DEFINE page == In!Newest(In!RecentRead(In!Begun(recent)), PageSize)
           old == In!Newest(In!ParentsRead(In!Begun(parents)), PageSize)
           need == {m \in page : kind[m] = "mention"}
<1>0. /\ recent' = In!Begun(recent) /\ parents' = In!Begun(parents)
      /\ scans' = In!Staged(In!Found(In!Begun(recent), page) \cup In!Found(In!Begun(parents), old))
      /\ sweep' = [step |-> "channel", page |-> [In!NoPage EXCEPT !.need = need], busy |-> TRUE]
      /\ In!Offer(need)
      /\ UNCHANGED <<seenTo, kind, seen, poll>>
  BY DEF In!SweepChannel, In!Goes
<1>1. UNCHANGED <<held, owned>>
  BY <1>0 DEF In!Offer
<1>2. seenTo \in Nat /\ seenTo =< MaxPosted /\ MaxPosted \in Nat
  BY LedgerNumbers DEF InInv
<1>3. \A c \in {recent, parents} :
         /\ In!Begun(c) \in In!Cycle /\ In!Begun(c).started \in 1 .. (seenTo + 1)
         /\ In!Begun(c).oldest =< seenTo /\ In!Begun(c).cursor =< seenTo
         /\ ~In!Begun(c).complete
         /\ \A m \in In!Roots : m =< seenTo /\ LeftBehind(In!Begun(c), m) => LeftBehind(c, m)
  BY <1>2, Begins DEF InInv
<1>4. page \in SUBSET In!Roots /\ old \in SUBSET In!Roots /\ page \in SUBSET In!Msgs
  BY LeftIs
<1>5. PositionTypes'
  <2>1. \A c \in {recent, parents} : In!Begun(c).oldest \in Nat
    BY <1>2, <1>3, Channel DEF In!Cycle
  <2>2. \A c \in {recent, parents} : In!Begun(c).oldest =< MaxPosted
    BY <1>2, <1>3, <2>1
  <2> HIDE DEF page, old
  <2>3. /\ In!Found(In!Begun(recent), page) \subseteq In!Scan
        /\ IsFiniteSet(In!Found(In!Begun(recent), page))
        /\ In!Found(In!Begun(parents), old) \subseteq In!Scan
        /\ IsFiniteSet(In!Found(In!Begun(parents), old))
    BY <1>3, <1>4, <2>2, FoundIs
  <2>4. /\ In!Found(In!Begun(recent), page) \cup In!Found(In!Begun(parents), old) \in SUBSET In!Scan
        /\ IsFiniteSet(In!Found(In!Begun(recent), page) \cup In!Found(In!Begun(parents), old))
    BY <2>3, FS_Union
  <2>5. scans' \in Seq(In!Scan)
    BY <1>0, <2>4, StagedIs DEF InInv, ReadInv, PositionTypes
  <2> QED BY <1>0, <1>3, <2>5 DEF InInv, ReadInv, PositionTypes
<1>6. PageTypes'
  <2>1. need \in SUBSET In!Msgs
    BY <1>4
  <2> HIDE DEF need
  <2>2. In!NoPage \in In!Page
    BY <1>2 DEF In!NoPage, In!Page
  <2>3. [In!NoPage EXCEPT !.need = need] \in In!Page
    BY <2>1, <2>2 DEF In!Page
  <2> QED BY <1>0, <2>3 DEF InInv, ReadInv, PageTypes
<1>7. Polled'
  BY <1>0, <1>1 DEF InInv, ReadInv, Polled, In!Durable, In!PollFrom
<1>8. Swept'
  <2>1. \A m \in In!Roots : m =< seenTo /\ kind[m] = "mention" /\ LeftBehind(In!Begun(recent), m)
                            => In!Durable(m)
    BY <1>3 DEF InInv, ReadInv, Swept
  <2>2. In!RecentRead(recent)' = In!RecentRead(In!Begun(recent))
    BY <1>0 DEF In!RecentRead, In!Latest
  <2>3. In!Newest(In!RecentRead(recent), PageSize)' = page
    BY <2>2 DEF In!Newest
  <2>4. \A m \in In!Roots : LeftBehind(recent, m)' <=> LeftBehind(In!Begun(recent), m)
    BY <1>0 DEF LeftBehind, In!Latest
  <2>5. sweep'.page.need = need /\ sweep'.step = "channel"
    BY <1>0 DEF In!NoPage
  <2> HIDE DEF page, need
  <2>6. need = {m \in page : kind[m] = "mention"}
    BY DEF need
  <2> QED BY <1>0, <1>1, <1>3, <2>1, <2>3, <2>4, <2>5, <2>6 DEF Swept, In!Durable
<1> QED BY <1>5, <1>6, <1>7, <1>8 DEF ReadInv

\* What a cycle is behind its page.
LEMMA PassedIs ==
  ASSUME ReadInv, NEW c \in {recent, parents}, seenTo \in Nat, seenTo =< MaxPosted,
         NEW left \in SUBSET In!Roots, In!RecentRead(c) \subseteq left,
         \A m \in left : m =< seenTo
  PROVE  LET after == In!Passed(c, left, In!Newest(left, PageSize)) IN
           /\ after \in In!Cycle /\ after.started = c.started /\ after.oldest = c.oldest
           /\ after.cursor =< seenTo
           /\ \A m \in In!Roots : m =< seenTo /\ LeftBehind(after, m)
                                  => m \in In!Newest(left, PageSize) \/ LeftBehind(c, m)
<1> DEFINE page == In!Newest(left, PageSize)
           after == In!Passed(c, left, page)
<1>0. /\ c \in In!Cycle /\ c.cursor \in Nat /\ c.oldest \in Nat /\ c.started \in Nat
      /\ c.started \in 1 .. (seenTo + 1) /\ c.oldest =< seenTo /\ c.cursor =< seenTo
      /\ MaxPosted \in Nat /\ In!Latest(c) \in Nat
  BY CycleNumbers, Channel DEF ReadInv, Swept
<1>1. left \in SUBSET In!Msgs /\ page \subseteq left
      /\ \A m \in page : \A e \in left : e > m => e \in page
  <2>1. left \in SUBSET In!Msgs
    BY Channel
  <2> QED BY <2>1, PageIsWhole
<1>2. after = IF left = page THEN [c EXCEPT !.cursor = 0, !.complete = TRUE]
              ELSE [c EXCEPT !.cursor = In!Low(page, 0)]
  BY DEF In!Passed
<1>3. \A m \in In!Roots : /\ m \in Nat /\ m # 0
                          /\ m =< seenTo => m =< c.oldest \/ In!Latest(c) =< m \/ m \in left
  BY <1>0, Channel DEF In!RecentRead
<1> HIDE DEF page, after
<1>4. /\ after \in In!Cycle /\ after.started = c.started /\ after.oldest = c.oldest
      /\ after.cursor =< seenTo
      /\ \A m \in In!Roots : m =< seenTo /\ LeftBehind(after, m) => m \in page \/ LeftBehind(c, m)
  <2>1. CASE left = page
    <3>1. after = [c EXCEPT !.cursor = 0, !.complete = TRUE]
      BY <1>2, <2>1
    <3>2. after \in In!Cycle /\ after.started = c.started /\ after.oldest = c.oldest
          /\ after.cursor = 0
      <4>1. 0 \in 0 .. (MaxPosted + 1)
        BY <1>0
      <4> QED BY <1>0, <3>1, <4>1 DEF In!Cycle
    <3>3. \A m \in In!Roots : m =< seenTo /\ LeftBehind(after, m) => m \in page \/ LeftBehind(c, m)
      <4> SUFFICES ASSUME NEW m \in In!Roots, m =< seenTo, LeftBehind(after, m), m \notin page
                   PROVE  LeftBehind(c, m)
        OBVIOUS
      <4>1. m =< c.oldest \/ (m < c.started /\ In!Latest(c) =< m)
        BY <1>0, <1>3, <2>1, <3>2 DEF LeftBehind
      <4> QED BY <4>1 DEF LeftBehind
    <3> QED BY <1>0, <3>2, <3>3
  <2>2. CASE left # page /\ page = {}
    <3>1. after = [c EXCEPT !.cursor = 0]
      BY <1>2, <2>2 DEF In!Low
    <3>2. after \in In!Cycle /\ after.started = c.started /\ after.oldest = c.oldest
          /\ after.cursor = 0 /\ after.complete = c.complete
      BY <1>0, <3>1 DEF In!Cycle
    <3>3. \A m \in In!Roots : LeftBehind(after, m) => LeftBehind(c, m)
      BY <1>0, <1>3, <3>2 DEF LeftBehind, In!Latest
    <3> QED BY <1>0, <3>2, <3>3
  <2>3. CASE left # page /\ page # {}
    <3> DEFINE low == In!Low(page, 0)
    <3>1. low \in page /\ \A e \in page : low =< e
      BY <1>1, <2>3, LowIs
    <3>2. low \in In!Roots /\ low =< seenTo /\ low \in 0 .. (MaxPosted + 1) /\ low # 0
      <4>1. low \in In!Roots /\ low =< seenTo
        BY <1>1, <3>1
      <4> HIDE DEF low
      <4>2. low \in Nat /\ low # 0
        BY <1>3, <4>1
      <4> QED BY <1>0, <4>1, <4>2
    <3>3. after = [c EXCEPT !.cursor = low]
      BY <1>2, <2>3
    <3> HIDE DEF low
    <3>4. after \in In!Cycle /\ after.started = c.started /\ after.oldest = c.oldest
          /\ after.cursor = low /\ after.complete = c.complete
      BY <1>0, <3>2, <3>3 DEF In!Cycle
    <3>5. \A m \in In!Roots : m =< seenTo /\ LeftBehind(after, m) => m \in page \/ LeftBehind(c, m)
      <4> SUFFICES ASSUME NEW m \in In!Roots, m =< seenTo, LeftBehind(after, m), m \notin page
                   PROVE  LeftBehind(c, m)
        OBVIOUS
      <4>1. CASE m \in left
        <5>1. ~(low =< m)
          BY <1>1, <1>3, <3>1, <3>2, <4>1
        <5> QED BY <1>0, <1>3, <3>2, <3>4, <5>1 DEF LeftBehind, In!Latest
      <4>2. CASE m \notin left
        <5>1. m =< c.oldest \/ In!Latest(c) =< m
          BY <1>3, <4>2
        <5> QED BY <1>0, <3>4, <5>1 DEF LeftBehind
      <4> QED BY <4>1, <4>2
    <3> QED BY <3>2, <3>4, <3>5
  <2> QED BY <2>1, <2>2, <2>3
<1> QED BY <1>4 DEF page, after

\* A cycle passes what is in the ledger.
LEMMA ChannelCommits ==
  ASSUME InInv, In!ChannelCommit
  PROVE  ReadInv'
<1> DEFINE left == In!RecentRead(recent)
           page == In!Newest(left, PageSize)
           all == In!ParentsRead(parents)
<1>0. /\ sweep.step = "channel" /\ sweep.busy
      /\ recent' = IF In!AllDurable(sweep.page.need) THEN In!Passed(recent, left, page) ELSE recent
      /\ parents' = In!Passed(parents, all, In!Newest(all, PageSize))
      /\ sweep' = [step |-> "scan", page |-> In!NoPage, busy |-> FALSE]
      /\ UNCHANGED <<seenTo, kind, held, owned, seen, scans, poll>>
  BY DEF In!ChannelCommit, In!Done, In!ledger
<1>1. seenTo \in Nat /\ seenTo =< MaxPosted /\ MaxPosted \in Nat
  BY LedgerNumbers DEF InInv
<1>2. /\ left \in SUBSET In!Roots /\ all \in SUBSET In!Roots /\ \A m \in left : m =< seenTo
      /\ \A m \in all : m =< seenTo
      /\ In!RecentRead(recent) \subseteq left /\ In!RecentRead(parents) \subseteq all
  BY DEF In!RecentRead, In!ParentsRead
<1>3. /\ parents' \in In!Cycle /\ parents'.started = parents.started
      /\ parents'.oldest = parents.oldest /\ parents'.cursor =< seenTo
  BY <1>0, <1>1, <1>2, PassedIs DEF InInv
<1>4. /\ recent' \in In!Cycle /\ recent'.started = recent.started
      /\ recent'.oldest = recent.oldest /\ recent'.cursor =< seenTo
  <2>1. CASE In!AllDurable(sweep.page.need)
    BY <1>0, <1>1, <1>2, <2>1, PassedIs DEF InInv
  <2>2. CASE ~In!AllDurable(sweep.page.need)
    BY <1>0, <2>2 DEF InInv, ReadInv, PositionTypes, Swept
  <2> QED BY <2>1, <2>2
<1>5. \A m \in In!Roots :
        m =< seenTo /\ kind[m] = "mention" /\ LeftBehind(recent', m) => In!Durable(m)
  <2> SUFFICES ASSUME NEW m \in In!Roots, m =< seenTo, kind[m] = "mention", LeftBehind(recent', m)
               PROVE  In!Durable(m)
    OBVIOUS
  <2>1. CASE LeftBehind(recent, m)
    BY <2>1 DEF InInv, ReadInv, Swept
  <2>2. CASE ~LeftBehind(recent, m)
    <3>1. In!AllDurable(sweep.page.need) /\ recent' = In!Passed(recent, left, page)
      BY <1>0, <2>2
    <3>2. m \in page
      BY <1>1, <1>2, <2>2, <3>1, PassedIs DEF InInv
    <3>3. m \in sweep.page.need
      BY <1>0, <3>2 DEF InInv, ReadInv, Swept
    <3> QED BY <3>1, <3>3 DEF In!AllDurable
  <2> QED BY <2>1, <2>2
<1>6. PositionTypes' /\ PageTypes'
  <2>1. In!NoPage \in In!Page
    BY Channel DEF In!NoPage, In!Page
  <2> QED BY <1>0, <1>3, <1>4, <2>1 DEF InInv, ReadInv, PositionTypes, PageTypes
<1>7. Polled'
  BY <1>0 DEF InInv, ReadInv, Polled, In!Durable, In!PollFrom
<1>8. Swept'
  <2>1. \A m \in In!Roots : LeftBehind(recent, m)' <=> LeftBehind(recent', m)
    BY DEF LeftBehind, In!Latest
  <2>2. \A c \in {recent, parents} : c.started \in 1 .. (seenTo + 1) /\ c.oldest =< seenTo
    BY DEF InInv, ReadInv, Swept
  <2>3. sweep'.busy = FALSE
    BY <1>0
  <2> QED BY <1>0, <1>3, <1>4, <1>5, <2>1, <2>2, <2>3 DEF Swept, In!Durable
<1> QED BY <1>6, <1>7, <1>8 DEF ReadInv

\* A page of a reply scan.
LEMMA ScanReads ==
  ASSUME InInv, LedgerInv', Grows, In!SweepScan
  PROVE  ReadInv'
<1>0. UNCHANGED <<seenTo, kind, held, owned, seen, recent, parents, scans, poll>>
  BY DEF In!SweepScan, In!cursors, In!Offer, In!ledger
<1>1. sweep'.step \in {"channel", "scan"} /\ sweep'.page \in In!Page /\ sweep'.busy \in BOOLEAN
      /\ (sweep'.busy => sweep'.step = "scan" /\ scans # <<>>)
  <2>1. CASE scans = <<>>
    <3>1. sweep' = [step |-> "channel", page |-> In!NoPage, busy |-> FALSE]
      BY <2>1 DEF In!SweepScan, In!Done
    <3>2. In!NoPage \in In!Page
      BY Channel DEF In!NoPage, In!Page
    <3> QED BY <3>1, <3>2
  <2>2. CASE scans # <<>>
    <3> DEFINE s1 == Head(scans)
               left == In!Replies(s1.of, s1.cursor)
               page == In!Oldest(left, PageSize)
               full == [need |-> {m \in page : In!IsReply(m)}, next |-> In!High(page, s1.cursor),
                        more |-> left # page, of |-> s1.of]
    <3>1. sweep' = [step |-> "scan", page |-> full, busy |-> TRUE]
      BY <2>2 DEF In!SweepScan, In!Goes
    <3>2. s1 \in In!Scan
      BY <2>2 DEF InInv, ReadInv, PositionTypes
    <3>3. s1.of \in In!Roots /\ s1.cursor \in 0 .. MaxPosted /\ s1.of \in 0 .. MaxPosted
      BY <3>2, Channel DEF In!Scan
    <3>4. left \in SUBSET In!Msgs
      BY LedgerNumbers DEF InInv, In!Replies, In!Msgs
    <3>5. page \in SUBSET In!Msgs
      BY <3>4, PageIsWhole
    <3> HIDE DEF s1, left, page
    <3>6. In!High(page, s1.cursor) \in 0 .. MaxPosted
      <4>1. CASE page = {}
        BY <3>3, <4>1 DEF In!High
      <4>2. CASE page # {}
        BY <3>5, <4>2, HighIs, Channel
      <4> QED BY <4>1, <4>2
    <3>7. full \in In!Page
      <4>1. {m \in page : In!IsReply(m)} \in SUBSET In!Msgs /\ (left # page) \in BOOLEAN
        BY <3>5
      <4> QED BY <3>3, <3>6, <4>1 DEF In!Page
    <3> HIDE DEF full
    <3> QED BY <2>2, <3>1, <3>7
  <2> QED BY <2>1, <2>2
<1>2. PositionTypes' /\ PageTypes'
  BY <1>0, <1>1 DEF InInv, ReadInv, PositionTypes, PageTypes
<1>3. Polled'
  BY <1>0 DEF InInv, ReadInv, Polled, In!Durable, In!PollFrom
<1>4. Swept'
  <2>1. \A m \in In!Roots : LeftBehind(recent, m)' <=> LeftBehind(recent, m)
    BY <1>0 DEF LeftBehind, In!Latest
  <2> QED BY <1>0, <1>1, <2>1 DEF InInv, ReadInv, Swept, In!Durable
<1> QED BY <1>2, <1>3, <1>4 DEF ReadInv

\* A scan goes on behind the others, or ends.
LEMMA ScanCommits ==
  ASSUME InInv, In!ScanCommit
  PROVE  ReadInv'
<1>0. /\ sweep.step = "scan" /\ sweep.busy /\ scans # <<>> /\ scans \in Seq(In!Scan)
      /\ sweep.page \in In!Page
      /\ scans' = IF ~In!AllDurable(sweep.page.need) THEN Append(Tail(scans), Head(scans))
                  ELSE IF sweep.page.more
                       THEN Append(Tail(scans), [Head(scans) EXCEPT !.cursor = sweep.page.next])
                  ELSE Tail(scans)
      /\ sweep' = [step |-> "channel", page |-> In!NoPage, busy |-> FALSE]
      /\ UNCHANGED <<seenTo, kind, held, owned, seen, recent, parents, poll>>
  BY DEF InInv, ReadInv, PositionTypes, PageTypes, Swept, In!ScanCommit, In!Done, In!ledger
<1>1. scans' \in Seq(In!Scan)
  <2>1. Head(scans) \in In!Scan /\ Tail(scans) \in Seq(In!Scan)
    BY <1>0
  <2>2. [Head(scans) EXCEPT !.cursor = sweep.page.next] \in In!Scan
    BY <1>0, <2>1 DEF In!Scan, In!Page
  <2> QED BY <1>0, <2>1, <2>2
<1>2. PositionTypes' /\ PageTypes'
  <2>1. In!NoPage \in In!Page
    BY Channel DEF In!NoPage, In!Page
  <2> QED BY <1>0, <1>1, <2>1 DEF InInv, ReadInv, PositionTypes, PageTypes
<1>3. Polled'
  BY <1>0 DEF InInv, ReadInv, Polled, In!Durable, In!PollFrom
<1>4. Swept'
  <2>1. \A m \in In!Roots : LeftBehind(recent, m)' <=> LeftBehind(recent, m)
    BY <1>0 DEF LeftBehind, In!Latest
  <2> QED BY <1>0, <2>1 DEF InInv, ReadInv, Swept, In!Durable
<1> QED BY <1>2, <1>3, <1>4 DEF ReadInv

\* An empty channel.
LEMMA InInit == In!Init => InInv
<1> SUFFICES ASSUME In!Init PROVE InInv
  OBVIOUS
<1> USE Channel DEF In!Init
<1>0. /\ \A m \in In!Msgs : held[m] = "none" /\ intent[m] = "none" /\ op[m] = "idle"
      /\ seenTo = 0 /\ kind \in KindSets /\ Len(kind) \in Nat
  BY IngressAssumption DEF In!Idle
<1>1. LedgerTypes
  <2>1. /\ intent \in [In!Msgs -> In!Intents] /\ held \in [In!Msgs -> In!Places]
        /\ op \in [In!Msgs -> In!Ops]
    BY DEF In!Intents, In!Places, In!Ops, In!Idle
  <2>2. /\ inbound \in [In!Msgs -> SUBSET In!Rows] /\ owned \in [In!Roots -> 0 .. MaxPosted]
        /\ snapped \subseteq In!Msgs
    <3>1. inbound \in [In!Msgs -> SUBSET In!Rows]
      OBVIOUS
    <3>2. owned \in [In!Roots -> 0 .. MaxPosted]
      OBVIOUS
    <3>3. snapped \subseteq In!Msgs
      OBVIOUS
    <3> QED BY <3>1, <3>2, <3>3
  <2>3. updating \in BOOLEAN /\ mishaps \in 0 .. MaxMishaps /\ seenTo \in 0 .. MaxPosted
    <3>1. updating = FALSE /\ mishaps = 0 /\ seenTo = 0
      BY Zenon
    <3> HIDE DEF In!Init
    <3>2. mishaps \in 0 .. MaxMishaps /\ seenTo \in 0 .. MaxPosted
      BY <3>1, IngressAssumption
    <3> QED BY <3>1, <3>2, Zenon
  <2> HIDE DEF In!Init
  <2> QED BY <1>0, <2>1, <2>2, <2>3 DEF LedgerTypes
<1>2. Past /\ Gated /\ Adopted
  BY <1>0 DEF Past, Gated, Adopted, In!Durable
<1>3. PositionTypes
  <2>1. In!NoCycle \in In!Cycle
    BY DEF In!NoCycle, In!Cycle
  <2> QED BY <2>1 DEF PositionTypes
<1>4. PageTypes
  <2>1. In!NoPage \in In!Page
    BY DEF In!NoPage, In!Page
  <2> QED BY <2>1 DEF PageTypes, In!Resting
<1>5. Polled
  BY <1>0 DEF Polled, In!NoPage
<1>6. Swept
  <2>1. \A c \in {recent, parents} :
          c = [cursor |-> 0, complete |-> TRUE, oldest |-> 0, started |-> 1]
    BY DEF In!NoCycle
  <2>2. sweep.busy = FALSE
    BY DEF In!Resting
  <2> QED BY <1>0, <2>1, <2>2 DEF Swept
<1> QED BY <1>1, <1>2, <1>3, <1>4, <1>5, <1>6 DEF InInv, LedgerInv, ReadInv

\* Every step keeps it.
LEMMA InStep ==
  ASSUME InInv, In!Next
  PROVE  InInv' /\ Grows
<1>1. LedgerInv' /\ Grows
  BY OffersKeep, HandlesKeep, OthersKeep DEF InInv, In!Next, In!Polls, In!Sweeps
<1>2. ReadInv'
  <2>1. ASSUME UNCHANGED <<seen, recent, parents, scans>>, poll' = poll \/ poll' = In!NoPage,
               sweep' = sweep \/ sweep' = In!Resting
        PROVE  ReadInv'
    BY <1>1, <2>1, ReadsStay DEF InInv
  <2>2. CASE In!Post \/ In!PollGivesUp \/ In!Crash \/ In!UpdateStarts \/ In!UpdateEnds
    BY <2>1, <2>2 DEF In!Post, In!PollGivesUp, In!Crash, In!UpdateStarts, In!UpdateEnds,
       In!cursors,
       In!gateway
  <2>3. ASSUME NEW m \in In!Msgs, In!HandOver(m) \/ In!Drain(m) \/ In!Inbound(m)
        PROVE  ReadInv'
    BY <2>1, <2>3 DEF In!HandOver, In!Drain, In!Inbound, In!Snapshot, In!Claim, In!Classify,
       In!Deliver, In!Finalize, In!FailInbound, In!Enqueue, In!cursors, In!gateway
  <2>4. CASE In!Polls
    BY <1>1, <2>4, PollReads, PollCommits DEF In!Polls
  <2>5. CASE In!Sweeps
    BY <1>1, <2>5, ChannelReads, ChannelCommits, ScanReads, ScanCommits DEF In!Sweeps
  <2> QED BY <2>2, <2>3, <2>4, <2>5 DEF In!Next
<1> QED BY <1>1, <1>2 DEF InInv

\* Which gives the safety of the ledger and its positions.
LEMMA InIsSafe == InInv => In!Safety
<1> SUFFICES ASSUME InInv PROVE In!Safety
  OBVIOUS
<1>1. In!TypeOK
  BY DEF InInv, LedgerInv, ReadInv, LedgerTypes, PositionTypes, PageTypes, In!TypeOK
<1>2. In!NothingSkipped
  <2>1. 1 .. seenTo \subseteq In!Msgs
    BY LedgerNumbers DEF InInv, In!Msgs
  <2>2. \A m \in 1 .. seenTo : owned[RootOf[m]] < m /\ m =< seen[RootOf[m]] /\ kind[m] # "refused"
                               => In!Durable(m)
    BY <2>1 DEF InInv, ReadInv, Polled
  <2>3. \A m \in In!Roots : m =< seenTo /\ m =< recent.oldest /\ kind[m] = "mention"
                            => In!Durable(m)
    BY DEF InInv, ReadInv, Swept, LeftBehind
  <2> QED BY <2>2, <2>3 DEF In!NothingSkipped
<1>3. In!OneBootstrap
  <2> SUFFICES ASSUME NEW m \in In!Msgs, held[m] = "bootstrap"
               PROVE  /\ \A e \in In!Msgs : held[e] = "bootstrap" /\ RootOf[m] = RootOf[e] => m = e
                      /\ (\A e \in In!Before(m) : held[e] # "failed")
                           => ~In!Owned(m) /\ ~In!HandedOver(m)
    BY DEF In!OneBootstrap
  <2>1. \A e \in In!Msgs : held[e] = "bootstrap" /\ RootOf[m] = RootOf[e] => m = e
    BY DEF InInv, LedgerInv, Adopted, Starter
  <2>2. \A e \in In!Msgs : held[e] = "failed" => e \in 1 .. seenTo
    BY LedgerNumbers, Channel DEF InInv, LedgerInv, Past, In!Durable
  <2>3. In!Owned(m) => \E e \in In!Before(m) : held[e] = "failed"
    BY <2>2 DEF InInv, LedgerInv, Adopted, In!Before
  <2>4. In!HandedOver(m) => In!Owned(m)
    <3>1. \A e \in In!Before(m) : e \in In!Msgs /\ RootOf[e] = RootOf[m]
      BY LedgerNumbers DEF InInv, In!Before, In!Msgs
    <3> QED BY <3>1 DEF InInv, LedgerInv, Adopted, In!HandedOver, In!Consumed, In!Owned
  <2> QED BY <2>1, <2>3, <2>4
<1> QED BY <1>1, <1>2, <1>3 DEF In!Safety

\* A reply that is handed over finds every earlier mention in the ledger.
LEMMA InOrder ==
  ASSUME InInv, In!Next, NEW m \in In!Msgs, held[m] = "none", held'[m] \in {"bootstrap", "inbound"},
         NEW e \in In!Before(m), In!IsReply(e), In!Mentions(e)
  PROVE  In!Durable(e)
<1>1. PICK d \in In!Msgs : In!Deliver(d)
  <2>1. CASE In!Post \/ In!Polls \/ In!PollGivesUp \/ In!Sweeps \/ In!Crash \/ In!UpdateStarts
             \/ In!UpdateEnds \/ \E d \in In!Msgs : In!Drain(d)
    <3>1. UNCHANGED held
      BY <2>1 DEF In!Post, In!Polls, In!PollRead, In!PollCommit, In!PollGivesUp, In!Sweeps,
         In!SweepChannel, In!ChannelCommit, In!SweepScan, In!ScanCommit, In!Crash, In!UpdateStarts,
         In!UpdateEnds, In!Drain, In!Offer, In!ledger
    <3> QED BY <3>1
  <2>2. ASSUME NEW d \in In!Msgs, In!Inbound(d) PROVE FALSE
    BY <2>2 DEF InInv, LedgerInv, LedgerTypes, In!Inbound, In!Finalize, In!FailInbound,
       In!Enqueue,
       In!First, In!Rows
  <2>3. ASSUME NEW d \in In!Msgs, In!Snapshot(d) \/ In!Claim(d) \/ In!Classify(d) PROVE FALSE
    BY <2>3 DEF InInv, LedgerInv, LedgerTypes, In!Snapshot, In!Claim, In!Classify
  <2> QED BY <2>1, <2>2, <2>3 DEF In!Next, In!HandOver
<1>2. d = m
  BY <1>1 DEF InInv, LedgerInv, LedgerTypes, In!Deliver, In!Stage
<1>3. e \in In!Msgs /\ RootOf[e] = RootOf[m] /\ e < m
  BY LedgerNumbers DEF InInv, In!Before, In!Msgs
<1>4. In!IsReply(m)
  <2>1. /\ e \in Nat /\ m \in Nat /\ RootOf[e] \in Nat /\ RootOf[e] =< e
    BY <1>3, Channel
  <2> QED BY <1>3, <2>1 DEF In!IsReply
<1>5. intent[m] = "addressed"
  BY <1>1, <1>2, <1>4 DEF InInv, LedgerInv, Gated, In!Deliver
<1> QED BY <1>3, <1>5 DEF InInv, LedgerInv, Gated, EarlierDone, Earlier

-----------------------------------------------------------------------------
(* The socket. *)

\* What the client does agrees with the call in hand and the step of the supervisor: no call,
\* no opening; a supervisor that waits has no socket, one that is connected has one.
Attached ==
  /\ link # "double" /\ (link = "opening" <=> call = "pending")
  /\ call \in {"failed", "refused"} => link = "idle"
  /\ process = "starting" =>
       /\ loop = "off" /\ ~connected
       /\ call = "none" => link = "idle" /\ opened < StartAttempts
  /\ process \in {"starting", "armed"} /\ call = "ok" =>
       IF closed THEN link = "idle" ELSE link = "open"
  /\ process = "armed" =>
       /\ loop \in {"next", "sleeping"} => link = "idle" /\ call = "none"
       /\ loop = "calling" => call # "none"
       /\ loop # "off" => ~connected
       /\ loop = "off" => connected /\ call = "none" /\ link = "open"
\* A reconnect without a wait is paid for by a connection that held.
Paid == credit < 2 /\ (tried = 0 => credit = 1)

\* The inductive invariant of the socket.
SocketInv == Socket!TypeOK /\ Attached /\ Paid

\* The bounds are numbers.
LEMMA SocketBounds ==
  /\ StartAttempts \in Nat /\ 0 < StartAttempts /\ MaxAttempt \in Nat /\ 0 < MaxAttempt
  /\ MaxDrops \in Nat
  BY SocketAssumption

\* The type invariant in three parts: places, flags, numbers.
SocketPlaces ==
  /\ process \in {"starting", "armed", "stopped", "exited"}
  /\ link \in {"idle", "opening", "open", "double"}
  /\ call \in {"none", "pending", "ok", "failed", "refused"}
  /\ loop \in {"off", "next", "sleeping", "calling"} /\ since \in {"none", "young", "old"}
\* The flags.
SocketFlags == connected \in BOOLEAN /\ closed \in BOOLEAN
\* The numbers.
SocketNumbers ==
  /\ opened \in 0 .. StartAttempts /\ tried \in 0 .. MaxAttempt
  /\ credit \in 0 .. 2 /\ drops \in 0 .. MaxDrops

\* The parts make the type invariant.
LEMMA SocketTypes == Socket!TypeOK <=> SocketPlaces /\ SocketFlags /\ SocketNumbers
  BY Zenon DEF Socket!TypeOK, SocketPlaces, SocketFlags, SocketNumbers

\* It holds at first,
LEMMA SocketInit == Socket!Init => SocketInv
<1>1. Socket!Init => Socket!TypeOK
  <2>1. Socket!Init => SocketPlaces
    BY DEF Socket!Init, SocketPlaces
  <2>2. Socket!Init => SocketFlags
    BY Zenon DEF Socket!Init, SocketFlags
  <2>3. Socket!Init => SocketNumbers
    BY SocketBounds DEF Socket!Init, SocketNumbers
  <2> QED BY <2>1, <2>2, <2>3, SocketTypes
<1>2. Socket!Init => Attached /\ Paid
  BY SocketBounds DEF Socket!Init, Attached, Paid
<1> QED BY <1>1, <1>2 DEF SocketInv

\* every step keeps it,
LEMMA SocketStep == SocketInv /\ Socket!Next => SocketInv'
<1> SUFFICES ASSUME SocketInv, Socket!Next PROVE SocketInv'
  OBVIOUS
<1> USE SocketBounds DEF SocketInv, Socket!TypeOK, Attached, Paid, Socket!owner, Socket!Up,
     Socket!CallStart,
    Socket!Step, Socket!Woken
<1>1. CASE Socket!Answer BY <1>1 DEF Socket!Answer
<1>2. CASE Socket!Hello BY <1>2 DEF Socket!Hello
<1>3. CASE Socket!Hold BY <1>3 DEF Socket!Hold
<1>4. CASE Socket!Close
  <2>1. Socket!TypeOK'
    <3>1. SocketPlaces'
      BY <1>4 DEF Socket!Close, SocketPlaces
    <3>2. SocketFlags'
      BY <1>4 DEF Socket!Close, SocketFlags
    <3>3. SocketNumbers'
      BY <1>4 DEF Socket!Close, SocketNumbers
    <3> QED BY <3>1, <3>2, <3>3, SocketTypes, PTL
  <2>2. Attached'
    BY <1>4 DEF Socket!Close
  <2>3. Paid'
    BY <1>4 DEF Socket!Close
  <2> QED BY <2>1, <2>2, <2>3
<1>5. CASE Socket!Start BY <1>5 DEF Socket!Start
<1>6. CASE Socket!StartFails BY <1>6 DEF Socket!StartFails
<1>7. CASE Socket!Arm BY <1>7 DEF Socket!Arm
<1>8. CASE Socket!Sleep BY <1>8 DEF Socket!Sleep
<1>9. CASE Socket!Reconnect
  <2>1. Socket!TypeOK'
    <3>1. SocketPlaces'
      BY <1>9 DEF Socket!Reconnect, SocketPlaces
    <3>2. SocketFlags'
      BY <1>9 DEF Socket!Reconnect, SocketFlags
    <3>3. SocketNumbers'
      BY <1>9 DEF Socket!Reconnect, SocketNumbers
    <3> QED BY <3>1, <3>2, <3>3, SocketTypes, PTL
  <2>2. Attached'
    BY <1>9 DEF Socket!Reconnect
  <2>3. Paid'
    BY <1>9 DEF Socket!Reconnect
  <2> QED BY <2>1, <2>2, <2>3
<1>10. CASE Socket!Reconnected BY <1>10 DEF Socket!Reconnected
<1>11. CASE Socket!ReconnectFails BY <1>11 DEF Socket!ReconnectFails
<1>12. CASE Socket!Stop BY <1>12 DEF Socket!Stop
<1> QED BY <1>1, <1>2, <1>3, <1>4, <1>5, <1>6, <1>7, <1>8, <1>9, <1>10, <1>11, <1>12
        DEF Socket!Next, Socket!Owns

\* and it gives the safety of the socket.
LEMMA SocketIsSafe == SocketInv => Socket!Safety
  BY DEF SocketInv, Attached, Paid, Socket!Safety, Socket!OneSocket, Socket!NeverMute,
     Socket!WaitsAreKept

-----------------------------------------------------------------------------
(* The theorems. *)

\* What is known of the ways in.
WaysIn == InInv /\ SocketInv

\* A step of one leaves the other alone, a step of the images or the notices both.
LEMMA WaysInStep == WaysIn /\ [SlackNext]_allVars => WaysIn'
<1> SUFFICES ASSUME WaysIn, [SlackNext]_allVars PROVE WaysIn'
  OBVIOUS
<1>1. ASSUME UNCHANGED inVars PROVE InInv'
  <2>1. LedgerInv'
    <3>1. seenTo' \in seenTo .. MaxPosted /\ seenTo' =< Len(kind) /\ updating' \in BOOLEAN
          /\ mishaps' \in 0 .. MaxMishaps
      BY <1>1, LedgerNumbers DEF inVars, WaysIn, InInv, LedgerInv, LedgerTypes, Past
    <3> QED BY <1>1, <3>1, RestKeeps DEF inVars, WaysIn, InInv
  <2>2. Grows
    BY <1>1, LedgerNumbers DEF inVars, WaysIn, InInv, Grows, In!Durable
  <2>3. ReadInv'
    BY <1>1, <2>1, <2>2, ReadsStay DEF inVars, WaysIn, InInv
  <2> QED BY <2>1, <2>3 DEF InInv
<1>2. ASSUME UNCHANGED socketVars PROVE SocketInv'
  BY <1>2 DEF socketVars, WaysIn, SocketInv, Socket!TypeOK, Attached, Paid
<1>3. CASE OfIn(In!Next)
  BY <1>2, <1>3, InStep DEF OfIn, WaysIn
<1>4. CASE OfSocket(Socket!Next)
  BY <1>1, <1>4, SocketStep DEF OfSocket, WaysIn
<1>5. CASE OfImages(Next) \/ OfOut(Out!Next) \/ UNCHANGED allVars
  BY <1>1, <1>2, <1>5 DEF OfImages, OfOut, allVars, WaysIn
<1> QED BY <1>3, <1>4, <1>5 DEF SlackNext

\* From the first state on.
LEMMA WaysInHold == Slack => []WaysIn
<1>1. Starts => WaysIn
  BY InInit, SocketInit DEF Starts, WaysIn
<1> QED BY <1>1, WaysInStep, PTL DEF Slack

\* For every channel, every page size, every backoff and every number of faults: no read
\* position of the gateway passes a message that is not in the ledger, a thread's first context
\* is taken once and before anybody owns it (server.ts, job-runner.ts, channel-catchup.ts), and a
\* gateway holds one socket, is never left without one and without a call, and waits between
\* its attempts (slack-socket-supervisor.ts).
THEOREM InSafetyHolds == Slack => []InSafety
<1>1. WaysIn => InSafety
  BY InIsSafe, SocketIsSafe DEF WaysIn, InSafety
<1> QED BY <1>1, WaysInHold, PTL

\* For the same: a reply is handed over only when every earlier mention in its thread is in the
\* ledger, whichever of them Slack, a poll or a scan offers first (claimSlackThreadReplyIntent).
THEOREM MentionsInOrderHolds == Slack => In!MentionsInOrder
<1>1. WaysIn /\ [SlackNext]_allVars =>
        [\A m \in In!Msgs : held[m] = "none" /\ held'[m] \in {"bootstrap", "inbound"} =>
           \A e \in In!Before(m) : In!IsReply(e) /\ In!Mentions(e) => In!Durable(e)]_In!vars
  <2> SUFFICES ASSUME WaysIn, [SlackNext]_allVars,
                      NEW m \in In!Msgs, held[m] = "none", held'[m] \in {"bootstrap", "inbound"},
                      NEW e \in In!Before(m), In!IsReply(e), In!Mentions(e)
               PROVE  In!Durable(e)
    OBVIOUS
  <2>1. OfIn(In!Next)
    BY DEF SlackNext, OfImages, OfOut, OfSocket, allVars, inVars
  <2> QED BY <2>1, InOrder DEF OfIn, WaysIn
<1> QED BY <1>1, WaysInHold, PTL DEF Slack, In!MentionsInOrder
=============================================================================
