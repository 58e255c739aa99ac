--------------------------- MODULE ArtifactDelivery ---------------------------
(***************************************************************************)
(* The files of one job on their way to its Slack thread (job-runner.ts):  *)
(* the two images of a proposal the job parks for, the question that       *)
(* follows them and the answer that wakes the job, and the files of its    *)
(* result.  An upload is a target, a transfer and the sharing of the file; *)
(* only the last shows it, and it is guarded by a checkpoint written       *)
(* before the call, so that a lost response leaves a question to Slack and *)
(* never a second call.  A request may reach Slack long after the runner   *)
(* that sent it died.                                                      *)
(***************************************************************************)
EXTENDS Naturals, Sequences, FiniteSets

CONSTANTS
  Steers,       \* replies of people in the thread
  Stops,        \* requests to stop
  MaxRounds,    \* bound: proposals of the job
  MaxChecks,    \* MAX_ARTIFACT_DELIVERY_ATTEMPTS (5 in the code)
  MaxFaults,    \* bound: lost responses, refusals, failures and deaths
  Casts         \* bound: who writes, and how many of the faults are left for them

ASSUME ArtifactDeliveryAssumption ==
  /\ MaxRounds \in Nat /\ MaxChecks \in Nat \ {0} /\ MaxFaults \in Nat
  /\ IsFiniteSet(Steers)
  /\ {"image", "prompt"} \cap (Steers \cup Stops) = {}
  /\ \A c \in Casts : c.faults \in 0 .. MaxFaults

Msgs == Steers \cup Stops
Rounds == 1 .. MaxRounds
ResultBatch == MaxRounds + 1
Batches == 1 .. ResultBatch
Files == 1 .. 2

VARIABLES
  job,       \* state, input revision, the revision of its proposal, the goal of its result
  reqs,      \* ui_approval_requests of the job, by round
  round,     \* rounds used
  rows,      \* artifact_deliveries of the current batch
  term,      \* the terminal notification: none, pending or delivered
  told,      \* its parts: the body and the notice of abandoned files
  s,         \* the notification lane of the runner
  inflight,  \* requests on their way to Slack
  thread,    \* what the thread shows, in order
  staged,    \* replies applied to the job
  people,    \* who writes in this run
  faults     \* bound used

vars == <<job, reqs, round, rows, term, told, s, inflight, thread, staged, people, faults>>

Fresh == [stage |-> "none", attempt |-> 0, done |-> "no", checks |-> 0]
NoRequest == [status |-> "none", prompt |-> 0, resp |-> 0, after |-> FALSE, rev |-> 0]
Idle == [step |-> "idle", batch |-> 0, file |-> 0, attempt |-> 0]

\* Places in the thread, and what they show.
Image(b, f, a) == [what |-> "image", batch |-> b, file |-> f, no |-> a]
Prompt(b) == [what |-> "prompt", batch |-> b, file |-> 0, no |-> 0]
Said(m) == [what |-> m, batch |-> 0, file |-> 0, no |-> 0]
Places == DOMAIN thread
ShownFor(b, f) == {i \in Places : thread[i].what = "image" /\ thread[i].batch = b
                                                          /\ thread[i].file = f}
PromptsFor(b) == {i \in Places : thread[i] = Prompt(b)}
PlaceOf(m) == CHOOSE i \in Places : thread[i] = Said(m)
HasSaid == {m \in Msgs : \E i \in Places : thread[i] = Said(m)}
Earliest(S) == CHOOSE i \in S : \A j \in S : i <= j
Show(x) == thread' = Append(thread, x)

TypeOK ==
  /\ job.state \in {"running", "queued", "parked", "completed", "failed"}
  /\ job.rev \in 1 .. 1 + Cardinality(Steers) /\ job.proposed \in 0 .. job.rev
  /\ job.cancel \in BOOLEAN /\ job.goal \in {"done", "waiting"}
  /\ \A r \in Rounds :
       /\ reqs[r].status \in {"none", "publishing", "awaiting", "responded", "superseded",
                              "cancelled"}
       /\ reqs[r].prompt \in Places \cup {0} /\ reqs[r].resp \in Places \cup {0}
  /\ round \in 0 .. MaxRounds
  /\ rows \in [Files -> [stage : {"none", "transferring", "uploaded", "completing"},
                         attempt : 0 .. MaxFaults + 1, done : {"no", "delivered", "abandoned"},
                         checks : 0 .. MaxChecks]]
  /\ term \in {"none", "pending", "delivered"}
  /\ s.step \in {"idle", "look", "inspect", "target", "bytes", "share", "sharing",
                 "prompt", "asking", "present", "body", "finish"}
  /\ staged \subseteq HasSaid /\ faults \in 0 .. MaxFaults

Init ==
  /\ job = [state |-> "running", rev |-> 1, proposed |-> 0, cancel |-> FALSE, goal |-> "done"]
  /\ reqs = [r \in Rounds |-> NoRequest] /\ round = 0
  /\ rows = [f \in Files |-> Fresh]
  /\ term = "none" /\ told = [body |-> FALSE, notice |-> FALSE]
  /\ s = Idle /\ inflight = {} /\ thread = <<>> /\ staged = {}
  /\ \E c \in Casts : people = c.people /\ faults = MaxFaults - c.faults

Fault == faults < MaxFaults /\ faults' = faults + 1
Unread == HasSaid \ staged
Ended == job.state \in {"completed", "failed"}

-----------------------------------------------------------------------------
(* The job: proposals, parking, answers. *)

Propose ==
  /\ job.state = "running" /\ job.proposed = 0 /\ round < MaxRounds
  /\ job' = [job EXCEPT !.proposed = @ + job.rev]
  /\ UNCHANGED <<reqs, round, rows, term, told, s, inflight, thread, staged, people, faults>>

\* The proposal is still about all the input there is.
StillCurrent == job.rev = job.proposed /\ Unread = {}

Park ==
  /\ job.state = "running" /\ job.proposed # 0 /\ ~job.cancel /\ StillCurrent
  /\ round' = round + 1
  /\ reqs' = [r \in Rounds |->
       IF r = round' THEN [NoRequest EXCEPT !.status = "publishing", !.rev = job.rev]
       ELSE IF reqs[r].status = "responded" THEN [reqs[r] EXCEPT !.status = "superseded"]
       ELSE reqs[r]]
  /\ rows' = [f \in Files |-> Fresh]
  /\ job' = [job EXCEPT !.state = "parked", !.proposed = 0]
  /\ UNCHANGED <<term, told, s, inflight, thread, staged, people, faults>>

\* Input arrived in between: the job runs again with it.
ParkRaces ==
  /\ job.state = "running" /\ job.proposed # 0 /\ ~job.cancel /\ ~StillCurrent
  /\ job' = [job EXCEPT !.state = "queued", !.proposed = 0]
  /\ UNCHANGED <<reqs, round, rows, term, told, s, inflight, thread, staged, people, faults>>

Claim ==
  /\ job.state = "queued" /\ ~job.cancel
  /\ job' = [job EXCEPT !.state = "running"]
  /\ UNCHANGED <<reqs, round, rows, term, told, s, inflight, thread, staged, people, faults>>

\* completeInternal: not before the last reply is in.
Complete ==
  /\ job.state = "running" /\ ~job.cancel /\ Unread = {}
  /\ \E goal \in {"done", "waiting"} : job' = [job EXCEPT !.state = "completed", !.goal = goal]
  /\ reqs' = [r \in Rounds |-> IF reqs[r].status \in {"publishing", "awaiting", "responded"}
                               THEN [reqs[r] EXCEPT !.status = "superseded"] ELSE reqs[r]]
  /\ rows' = [f \in Files |-> Fresh] /\ term' = "pending"
  /\ UNCHANGED <<round, told, s, inflight, thread, staged, people, faults>>

\* A terminal job owes the thread no image of a proposal any more.
Settled(rs) == [f \in Files |-> IF rs[f].done = "no" THEN [rs[f] EXCEPT !.done = "abandoned"]
                                ELSE rs[f]]

\* A stopped job ends, whatever it was doing.
Cancel ==
  /\ job.cancel /\ ~Ended
  /\ job' = [job EXCEPT !.state = "failed"] /\ term' = "pending"
  /\ reqs' = [r \in Rounds |-> IF reqs[r].status \in {"publishing", "awaiting"}
                               THEN [reqs[r] EXCEPT !.status = "cancelled"] ELSE reqs[r]]
  /\ rows' = Settled(rows)
  /\ UNCHANGED <<round, told, s, inflight, thread, staged, people, faults>>

\* Mutant: an answer counts as one when it is read after the question, whenever it was written.
ReadLater(m, q) == q # 0

\* An answer is one that was written after the question appeared.
AnswerTo(m, q) == q # 0 /\ PlaceOf(m) > q

\* stageLiveControl: replies in their order, a stop before them.
StageReply(m) ==
  /\ m \in Steers \cap Unread /\ \A n \in Steers \cap Unread : PlaceOf(m) <= PlaceOf(n)
  /\ staged' = staged \cup {m}
  /\ IF Ended \/ job.cancel THEN UNCHANGED <<job, reqs>>
     ELSE IF job.state # "parked"
     THEN job' = [job EXCEPT !.rev = @ + 1] /\ UNCHANGED reqs
     ELSE LET q == reqs[round].prompt
              status == IF q = 0 THEN "publishing" ELSE "responded" IN
          /\ reqs' = [reqs EXCEPT ![round].status = status, ![round].resp = PlaceOf(m),
                                  ![round].after = AnswerTo(m, q)]
          /\ job' = [job EXCEPT !.rev = @ + 1,
                                !.state = IF q = 0 THEN "parked" ELSE "queued"]
  /\ UNCHANGED <<round, rows, term, told, s, inflight, thread, people, faults>>

StageStop(m) ==
  /\ m \in Stops \cap Unread /\ staged' = staged \cup {m}
  /\ IF Ended \/ job.cancel THEN UNCHANGED <<job, reqs, rows>>
     ELSE /\ job' = [job EXCEPT !.cancel = TRUE,
                                !.state = IF @ = "parked" THEN "queued" ELSE @]
          /\ IF job.state = "parked"
             THEN reqs' = [reqs EXCEPT ![round].status = "cancelled"] /\ rows' = Settled(rows)
             ELSE UNCHANGED <<reqs, rows>>
  /\ UNCHANGED <<round, term, told, s, inflight, thread, people, faults>>

Say(m) ==
  /\ m \in people \ HasSaid /\ Show(Said(m))
  /\ UNCHANGED <<job, reqs, round, rows, term, told, s, inflight, staged, people, faults>>

-----------------------------------------------------------------------------
(* deliverSealedArtifact *)

\* A proposal is shown only while its request is being published.
Publishable(b) == b = ResultBatch \/ reqs[b].status = "publishing"

Defer == s' = Idle
Goto(step) == s' = [s EXCEPT !.step = step]
NextFile == s' = IF s.file < Cardinality(Files)
                 THEN [s EXCEPT !.step = "look", !.file = @ + 1]
                 ELSE [s EXCEPT !.step = IF s.batch = ResultBatch THEN "finish" ELSE "prompt"]

BeginApproval ==
  /\ s.step = "idle" /\ job.state = "parked" /\ reqs[round].status = "publishing"
  /\ s' = [Idle EXCEPT !.step = "look", !.batch = round, !.file = 1]
  /\ UNCHANGED <<job, reqs, round, rows, term, told, inflight, thread, staged, people, faults>>

\* Only what cannot have shown the file yet is done again.
Recoverable(row) == row.stage \in {"none", "transferring", "uploaded"}

Look ==
  /\ s.step = "look"
  /\ LET row == rows[s.file] IN
     IF ~Publishable(s.batch) THEN Defer
     ELSE IF row.done = "delivered" \/ (row.done = "abandoned" /\ s.batch = ResultBatch)
     THEN NextFile
     ELSE IF row.done = "abandoned" THEN Defer
     ELSE IF ~Recoverable(row) THEN Goto("inspect")
     ELSE IF row.stage = "uploaded" THEN s' = [s EXCEPT !.step = "share", !.attempt = row.attempt]
     ELSE Goto("target")
  /\ UNCHANGED <<job, reqs, round, rows, term, told, inflight, thread, staged, people, faults>>

Checked(row) == [row EXCEPT !.checks = @ + 1]

\* The check that found nothing: the last one gives the file up, or the whole wait.
FoundNothing ==
  LET row == Checked(rows[s.file])
      last == row.checks >= MaxChecks IN
  IF s.batch = ResultBatch
  THEN /\ rows' = [rows EXCEPT ![s.file] = IF last THEN [row EXCEPT !.done = "abandoned"] ELSE row]
       /\ UNCHANGED <<job, reqs, term>>
  ELSE IF last /\ reqs[s.batch].status = "publishing"
  THEN /\ reqs' = [reqs EXCEPT ![s.batch].status = "cancelled"]
       /\ rows' = Settled([rows EXCEPT ![s.file] = row])
       /\ job' = [job EXCEPT !.state = "failed"] /\ term' = "pending"
  ELSE rows' = [rows EXCEPT ![s.file] = row] /\ UNCHANGED <<job, reqs, term>>

Inspect ==
  /\ s.step = "inspect"
  /\ IF rows[s.file].done # "no" THEN Defer /\ UNCHANGED <<rows, job, reqs, term>>
     ELSE IF \E i \in ShownFor(s.batch, s.file) : thread[i].no = rows[s.file].attempt
     THEN /\ rows' = [rows EXCEPT ![s.file].done = "delivered"]
          /\ NextFile /\ UNCHANGED <<job, reqs, term>>
     ELSE FoundNothing /\ IF s.batch = ResultBatch THEN NextFile ELSE Defer
  /\ UNCHANGED <<round, told, inflight, thread, staged, people, faults>>

\* A target is asked for and the bytes are about to leave: a new attempt fences older ones.
Target ==
  /\ s.step = "target"
  /\ IF rows[s.file].done # "no" \/ rows[s.file].stage \notin {"none", "transferring"}
     THEN Defer /\ UNCHANGED rows
     ELSE /\ rows' = [rows EXCEPT ![s.file].stage = "transferring", ![s.file].attempt = @ + 1]
          /\ s' = [s EXCEPT !.step = "bytes", !.attempt = rows[s.file].attempt + 1]
  /\ UNCHANGED <<job, reqs, round, term, told, inflight, thread, staged, people, faults>>

Holds(stage) == /\ rows[s.file].done = "no" /\ rows[s.file].stage = stage
                /\ rows[s.file].attempt = s.attempt

Uploaded ==
  /\ s.step = "bytes"
  /\ IF Holds("transferring")
     THEN rows' = [rows EXCEPT ![s.file].stage = "uploaded"] /\ Goto("share")
     ELSE Defer /\ UNCHANGED rows
  /\ UNCHANGED <<job, reqs, round, term, told, inflight, thread, staged, people, faults>>

\* The checkpoint is written before the call that cannot be repeated.
Share ==
  /\ s.step = "share"
  /\ IF Holds("uploaded")
     THEN /\ rows' = [rows EXCEPT ![s.file].stage = "completing"]
          /\ inflight' = inflight \cup {Image(s.batch, s.file, s.attempt)}
          /\ Goto("sharing")
     ELSE Defer /\ UNCHANGED <<rows, inflight>>
  /\ UNCHANGED <<job, reqs, round, term, told, thread, staged, people, faults>>

Awaited ==
  IF s.step = "sharing" THEN {Image(s.batch, s.file, s.attempt)}
  ELSE IF s.step = "asking" THEN {Prompt(s.batch)} ELSE {}

Shared ==
  /\ s.step = "sharing" /\ inflight \cap Awaited = {}
  /\ IF rows[s.file].done = "no"
     THEN rows' = [rows EXCEPT ![s.file].done = "delivered"] /\ NextFile
     ELSE UNCHANGED rows /\ IF rows[s.file].done = "delivered" THEN NextFile ELSE Defer
  /\ UNCHANGED <<job, reqs, round, term, told, inflight, thread, staged, people, faults>>

\* Slack says that it did not share: a fresh target is safe.
Refused ==
  /\ s.step = "sharing" /\ Fault /\ Awaited \subseteq inflight
  /\ inflight' = inflight \ Awaited
  /\ rows' = IF Holds("completing") THEN [rows EXCEPT ![s.file].stage = "transferring"] ELSE rows
  /\ Defer
  /\ UNCHANGED <<job, reqs, round, term, told, thread, staged, people>>

\* The response is lost; the request may still arrive, or never.
Lost ==
  /\ s.step \in {"sharing", "asking"} /\ Fault
  /\ IF s.step = "sharing" /\ s.batch = ResultBatch THEN NextFile ELSE Defer
  /\ \/ UNCHANGED inflight
     \/ inflight' = inflight \ Awaited
  /\ UNCHANGED <<job, reqs, round, rows, term, told, thread, staged, people>>

\* A request before the one that shows something fails.
StepFails ==
  /\ s.step \in {"inspect", "target", "bytes", "prompt", "body", "finish"} /\ Fault /\ Defer
  /\ UNCHANGED <<job, reqs, round, rows, term, told, inflight, thread, staged, people>>

Lands(x) ==
  /\ x \in inflight /\ inflight' = inflight \ {x} /\ Show(x)
  /\ UNCHANGED <<job, reqs, round, rows, term, told, s, staged, people, faults>>

Dies ==
  /\ s.step # "idle" /\ Fault /\ Defer
  /\ UNCHANGED <<job, reqs, round, rows, term, told, inflight, thread, staged, people>>

-----------------------------------------------------------------------------
(* The question of a proposal: SlackNotifier.uiApproval, markUiApprovalPresented. *)

Recorded(b, place) == reqs' = [reqs EXCEPT ![b].prompt = place]

\* It is looked for in the thread before it is posted.
Ask ==
  /\ s.step = "prompt"
  /\ IF ~Publishable(s.batch) THEN Defer /\ UNCHANGED <<reqs, inflight>>
     ELSE IF reqs[s.batch].prompt # 0 THEN Goto("present") /\ UNCHANGED <<reqs, inflight>>
     ELSE IF PromptsFor(s.batch) # {}
     THEN Recorded(s.batch, Earliest(PromptsFor(s.batch))) /\ Goto("present") /\ UNCHANGED inflight
     ELSE inflight' = inflight \cup {Prompt(s.batch)} /\ Goto("asking") /\ UNCHANGED reqs
  /\ UNCHANGED <<job, round, rows, term, told, thread, staged, people, faults>>

Asked ==
  /\ s.step = "asking" /\ inflight \cap Awaited = {}
  /\ IF Publishable(s.batch)
     THEN Recorded(s.batch, Earliest(PromptsFor(s.batch))) /\ Goto("present")
     ELSE Defer /\ UNCHANGED reqs
  /\ UNCHANGED <<job, round, rows, term, told, inflight, thread, staged, people, faults>>

\* A reply that came meanwhile wakes the job now.
Present ==
  /\ s.step = "present" /\ Defer
  /\ IF reqs[s.batch].status # "publishing" THEN UNCHANGED <<reqs, job>>
     ELSE LET answered == reqs[s.batch].resp # 0 IN
          /\ reqs' = [reqs EXCEPT ![s.batch].status = IF answered THEN "responded" ELSE "awaiting"]
          /\ job' = [job EXCEPT !.state = IF answered /\ @ = "parked" THEN "queued" ELSE @]
  /\ UNCHANGED <<round, rows, term, told, inflight, thread, staged, people, faults>>

-----------------------------------------------------------------------------
(* The result: SlackNotifier.completed, artifactsAbandoned, flushTerminalNotifications. *)

BodyFirst == job.state = "failed" \/ job.goal = "done"

BeginResult ==
  /\ s.step = "idle" /\ term = "pending"
  /\ s' = [Idle EXCEPT !.step = IF BodyFirst /\ ~told.body THEN "body"
                                ELSE IF job.state = "completed" THEN "look" ELSE "finish",
                       !.batch = ResultBatch, !.file = 1]
  /\ UNCHANGED <<job, reqs, round, rows, term, told, inflight, thread, staged, people, faults>>

Body ==
  /\ s.step = "body" /\ told' = [told EXCEPT !.body = TRUE]
  /\ Goto(IF job.state = "completed" THEN "look" ELSE "finish")
  /\ UNCHANGED <<job, reqs, round, rows, term, inflight, thread, staged, people, faults>>

\* Every file was shared or given up.
AllSettled == job.state = "failed" \/ \A f \in Files : rows[f].done # "no"

GivenUp == job.state = "completed" /\ \E f \in Files : rows[f].done = "abandoned"

\* A waiting result shows its body last, and not at all when an image is missing; people
\* are told of the files given up.
Finish ==
  /\ s.step = "finish" /\ Defer
  /\ IF AllSettled
     THEN /\ told' = [body |-> told.body \/ BodyFirst \/ ~GivenUp, notice |-> told.notice \/ GivenUp]
          /\ term' = "delivered"
     ELSE UNCHANGED <<told, term>>
  /\ UNCHANGED <<job, reqs, round, rows, inflight, thread, staged, people, faults>>

LaneStep ==
  \/ BeginApproval \/ Look \/ Inspect \/ Target \/ Uploaded \/ Share \/ Shared
  \/ Ask \/ Asked \/ Present \/ BeginResult \/ Body \/ Finish
  \/ \E x \in Awaited : Lands(x)

RunnerStep ==
  \/ LaneStep
  \/ Propose \/ Park \/ ParkRaces \/ Claim \/ Complete \/ Cancel
  \/ \E m \in Msgs : StageReply(m) \/ StageStop(m)

Next ==
  \/ RunnerStep
  \/ Refused \/ Lost \/ StepFails \/ Dies
  \/ \E x \in inflight : Lands(x)
  \/ \E m \in Msgs : Say(m)

\* The lane is flushed again and again, what it waits for is answered, messages are read.
Goes == Claim \/ Cancel \/ Park \/ ParkRaces \/ Complete \/ \E m \in Msgs : StageReply(m) \/ StageStop(m)
Spec == Init /\ [][Next]_vars /\ WF_vars(LaneStep) /\ WF_vars(Goes)

-----------------------------------------------------------------------------
(* Properties. *)

\* However often responses are lost and runners die, no file appears twice, and the images
\* of a proposal are in the thread before its question.
ShownOnce ==
  \A b \in Batches :
    /\ \A f \in Files : Cardinality(ShownFor(b, f)) <= 1
    /\ \A i \in PromptsFor(b), f \in Files : \E j \in ShownFor(b, f) : j < i

\* What wakes the job as an answer was written by somebody who saw the whole proposal it
\* answers, and no earlier proposal is open with it.
AnswersAreInformed ==
  \A r \in Rounds : reqs[r].status \in {"responded", "superseded"} /\ reqs[r].after =>
    /\ \E i \in PromptsFor(r) : i < reqs[r].resp
    /\ \A q \in Rounds : q < r => reqs[q].status \in {"superseded", "cancelled"}

\* A result counts as delivered only when each of its files is in the thread or people were
\* told that it is missing.
NothingMissingSilently ==
  term = "delivered" /\ job.state = "completed" =>
    \A f \in Files : ShownFor(ResultBatch, f) # {} \/ told.notice

Safety == TypeOK /\ ShownOnce /\ AnswersAreInformed /\ NothingMissingSilently

\* A parked job is not parked for ever by its images: it waits for people in front of a
\* question they can see and have not answered, or goes on; and results are told.
Quiet ==
  /\ job.state = "parked" => reqs[round].status = "awaiting" /\ Unread = {}
  /\ term # "pending"
DeliveryEnds == <>[]Quiet
=============================================================================
