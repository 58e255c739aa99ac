---------------------------- MODULE ThreadFiles ----------------------------
(***************************************************************************)
(* The files people attach to the messages of one Slack thread: from the   *)
(* download by the gateway's drain loop, through the catalog of the thread *)
(* (slack_thread_attachments), to the jobs and live replies that may read  *)
(* them.  A file that cannot be had stays behind as a reference            *)
(* (pending_thread_attachments) that a later message of the thread tries   *)
(* again; one whose bytes went bad is retired before it is read.           *)
(*                                                                         *)
(* The drain loop handles one message at a time and keeps their order.  A  *)
(* download is one step, the row that records it another, for the gateway  *)
(* may die between them; temporary files never have the final name and are *)
(* left out.  Sizes and budgets are left out: a download succeeds or not.  *)
(***************************************************************************)
EXTENDS Naturals, FiniteSets

CONSTANTS
  N,          \* messages of the thread, in their order
  Files,      \* the files attached to them
  Message,    \* the message of each file
  MaxTries,   \* INBOUND_MAX_ATTEMPTS
  MaxFaults,  \* bound: deaths of the gateway, preemptions, waits for the read budget, lost bytes
  Windows     \* {} or {"inbox"}: bytes may also go bad while the row of their message is there

Messages == 1..N
FilesOf(m) == {f \in Files : Message[f] = m}

VARIABLES
  row,        \* inbound_deliveries: "absent", "pending", "processing", "gone"
  tries,      \* its attempts
  bound,      \* expected_control_job_id, 0 if none
  manifest,   \* the files recorded in downloaded_files_json of their row
  disk,       \* a file in the inbox: "none", "whole" or "bad"
  catalog,    \* slack_thread_attachments
  pending,    \* pending_thread_attachments
  recovered,  \* recovered_inbound_attachments of each row
  retired,    \* files taken out of the catalog for good
  job,        \* of each message: "none", "queued", "running", "done" or "failed"
  files,      \* thread_attachments_json of a job
  notes,      \* unavailable_thread_attachments_json of a job
  into,       \* the job a message became live input of, 0 if none
  given,      \* the files copied for a live message
  refused,    \* messages whose sender was told to send them again
  old,        \* messages whose inbox directory is older than the retention
  op,         \* the drain loop: its step, its message, the files it has still to see
  helped,     \* history: the row that recovered a file before it was handed over
  faults

rows == <<row, tries, bound, manifest, recovered, refused, old>>
threads == <<catalog, pending, retired, helped>>
jobs == <<job, files, notes, into, given>>
vars == <<rows, disk, threads, jobs, op, faults>>

Idle == [at |-> "idle", m |-> 0, todo |-> {}]
Open == {j \in Messages : job[j] \in {"queued", "running"}}
Known == catalog \cup pending

TypeOK ==
  /\ row \in [Messages -> {"absent", "pending", "processing", "gone"}]
  /\ tries \in [Messages -> 0..MaxTries] /\ bound \in [Messages -> 0..N]
  /\ disk \in [Files -> {"none", "whole", "bad"}]
  /\ manifest \subseteq Files /\ catalog \subseteq Files /\ pending \subseteq Files
  /\ retired \subseteq Files /\ recovered \in [Messages -> SUBSET Files]
  /\ job \in [Messages -> {"none", "queued", "running", "done", "failed"}]
  /\ op.at \in {"idle", "own", "record", "old", "kept", "hand", "complete"}
  /\ op.m \in 0..N /\ op.todo \subseteq Files /\ faults \in 0..MaxFaults

Init ==
  /\ row = [m \in Messages |-> "absent"] /\ tries = [m \in Messages |-> 0]
  /\ bound = [m \in Messages |-> 0] /\ manifest = {} /\ disk = [f \in Files |-> "none"]
  /\ catalog = {} /\ pending = {} /\ recovered = [m \in Messages |-> {}] /\ retired = {}
  /\ job = [m \in Messages |-> "none"] /\ files = [m \in Messages |-> {}]
  /\ notes = [m \in Messages |-> {}] /\ into = [m \in Messages |-> 0]
  /\ given = [m \in Messages |-> {}] /\ refused = {} /\ old = {} /\ op = Idle
  /\ helped = [f \in Files |-> 0] /\ faults = 0

\* A message is staged; one of an open job may be bound to it.
Post(m) ==
  /\ row[m] = "absent" /\ \A k \in 1..(m - 1) : row[k] # "absent"
  /\ row' = [row EXCEPT ![m] = "pending"]
  /\ bound' \in {[bound EXCEPT ![m] = j] : j \in Open \cup {0}}
  /\ UNCHANGED <<tries, manifest, recovered, refused, old, disk, threads, jobs, op, faults>>

\* The rows of a thread are claimed in their order.
Claim(m) ==
  /\ op = Idle /\ row[m] = "pending" /\ \A k \in 1..(m - 1) : row[k] = "gone"
  /\ row' = [row EXCEPT ![m] = "processing"]
  /\ op' = [at |-> "own", m |-> m, todo |-> FilesOf(m)]
  /\ UNCHANGED <<tries, bound, manifest, recovered, refused, old, disk, threads, jobs, faults>>

\* A message that is a job or live input already; only its row has still to go.
Durable(m) == into[m] # 0 \/ job[m] # "none"

-----------------------------------------------------------------------------
(* The files of the message *)

Next1 == CHOOSE f \in op.todo : \A g \in op.todo : Message[f] <= Message[g]

\* A whole file under its final name is used again, recorded or not.
UseCached ==
  /\ op.at = "own" /\ op.todo # {} /\ disk[Next1] = "whole"
  /\ manifest' = manifest \cup {Next1} /\ op' = [op EXCEPT !.todo = @ \ {Next1}]
  /\ UNCHANGED <<row, tries, bound, recovered, refused, old, disk, threads, jobs, faults>>
Download ==
  /\ op.at = "own" /\ op.todo # {} /\ disk[Next1] = "none"
  /\ disk' = [disk EXCEPT ![Next1] = "whole"] /\ op' = [op EXCEPT !.at = "record"]
  /\ UNCHANGED <<rows, threads, jobs, faults>>
Record ==
  /\ op.at = "record" /\ manifest' = manifest \cup {Next1}
  /\ op' = [op EXCEPT !.at = "own", !.todo = @ \ {Next1}]
  /\ UNCHANGED <<row, tries, bound, recovered, refused, old, disk, threads, jobs, faults>>

\* What is still owed by earlier messages is tried next, each file once.
OwnDone ==
  /\ op.at = "own" /\ op.todo = {}
  /\ op' = [op EXCEPT !.at = "old", !.todo = {f \in pending : Message[f] < op.m}]
  /\ UNCHANGED <<rows, disk, threads, jobs, faults>>

\* The references a message leaves: what of its files the catalog has not.
Preserve(m, cat) == pending \cup (FilesOf(m) \ cat)

Gone(m) ==
  /\ row' = [row EXCEPT ![m] = "gone"] /\ op' = Idle
  /\ manifest' = manifest \ FilesOf(m) /\ recovered' = [recovered EXCEPT ![m] = {}]

\* A download failed, or the bytes on disk are not those recorded.  The last
\* failure of a bound reply refuses it; that of another message makes a failed
\* job of it.  What was downloaded is catalogued, if its bytes are as recorded:
\* if they are not the row stays as it is, and with it the queue.
FailOwn ==
  /\ op.at = "own" /\ op.todo # {} /\ disk[Next1] # "whole"
  /\ LET m == op.m
         cat == catalog \cup (FilesOf(m) \cap manifest) IN
     \/ /\ tries[m] + 1 < MaxTries
        /\ row' = [row EXCEPT ![m] = "pending"] /\ tries' = [tries EXCEPT ![m] = @ + 1] /\ op' = Idle
        /\ UNCHANGED <<bound, manifest, recovered, refused, old, threads, jobs>>
     \/ /\ tries[m] + 1 >= MaxTries /\ bound[m] # 0
        /\ pending' = Preserve(m, catalog) /\ refused' = refused \cup {m} /\ Gone(m)
        /\ UNCHANGED <<tries, bound, old, catalog, retired, helped, jobs>>
     \/ /\ tries[m] + 1 >= MaxTries /\ bound[m] = 0
        /\ \A f \in FilesOf(m) \cap manifest : disk[f] = "whole"
        /\ catalog' = cat /\ pending' = Preserve(m, cat)
        /\ job' = [job EXCEPT ![m] = "failed"] /\ files' = [files EXCEPT ![m] = cat] /\ Gone(m)
        /\ UNCHANGED <<tries, bound, refused, old, retired, helped, notes, into, given>>
  /\ UNCHANGED <<disk, faults>>

-----------------------------------------------------------------------------
(* The files of earlier messages *)

Recover ==
  /\ op.at = "old" /\ op.todo # {}
  /\ disk' = [disk EXCEPT ![Next1] = "whole"] /\ op' = [op EXCEPT !.at = "kept"]
  /\ old' = old \ {Message[Next1]}
  /\ UNCHANGED <<row, tries, bound, manifest, recovered, refused, threads, jobs, faults>>
Keep ==
  /\ op.at = "kept"
  /\ catalog' = catalog \cup {Next1} /\ pending' = pending \ {Next1}
  /\ recovered' = [recovered EXCEPT ![op.m] = @ \cup {Next1}]
  /\ helped' = [helped EXCEPT ![Next1] = IF Durable(op.m) THEN 0 ELSE op.m]
  /\ op' = [op EXCEPT !.at = "old", !.todo = @ \ {Next1}]
  /\ UNCHANGED <<row, tries, bound, manifest, refused, old, disk, retired, jobs, faults>>
Miss ==
  /\ op.at = "old" /\ op.todo # {} /\ disk[Next1] # "whole"
  /\ op' = [op EXCEPT !.todo = @ \ {Next1}]
  /\ UNCHANGED <<rows, disk, threads, jobs, faults>>
OldDone ==
  /\ op.at = "old" /\ op.todo = {} /\ op' = [op EXCEPT !.at = "hand"]
  /\ UNCHANGED <<rows, disk, threads, jobs, faults>>

-----------------------------------------------------------------------------
(* Handing the message over *)

\* A reply of an open job becomes live input of it.  The job's view of the thread
\* is brought up to date, and the reply comes with its own files and with those
\* its row recovered, before a death of the gateway or after.
LiveFiles(m) == FilesOf(m) \cup recovered[m]
HandLive(j) ==
  LET m == op.m IN
  /\ op.at = "hand" /\ ~Durable(m) /\ j \in Open /\ bound[m] \in {0, j}
  /\ catalog' = catalog \cup FilesOf(m)
  /\ files' = [files EXCEPT ![j] = catalog'] /\ notes' = [notes EXCEPT ![j] = pending]
  /\ into' = [into EXCEPT ![m] = j] /\ given' = [given EXCEPT ![m] = LiveFiles(m)]
  /\ op' = [op EXCEPT !.at = "complete"]
  /\ UNCHANGED <<rows, disk, pending, retired, helped, job, faults>>

\* The job of a bound reply has closed: the sender is told.
Refuse ==
  LET m == op.m IN
  /\ op.at = "hand" /\ ~Durable(m) /\ bound[m] # 0 /\ bound[m] \notin Open
  /\ refused' = refused \cup {m} /\ Gone(m)
  /\ UNCHANGED <<tries, bound, old, disk, threads, jobs, faults>>

Enqueue ==
  LET m == op.m IN
  /\ op.at = "hand" /\ ~Durable(m) /\ bound[m] = 0 /\ Open = {}
  /\ catalog' = catalog \cup FilesOf(m)
  /\ job' = [job EXCEPT ![m] = "queued"] /\ files' = [files EXCEPT ![m] = catalog']
  /\ notes' = [notes EXCEPT ![m] = pending]
  /\ op' = [op EXCEPT !.at = "complete"]
  /\ UNCHANGED <<rows, disk, pending, retired, helped, into, given, faults>>

\* A duplicate changes nothing more.
Handed ==
  /\ op.at = "hand" /\ Durable(op.m)
  /\ op' = [op EXCEPT !.at = "complete"]
  /\ UNCHANGED <<rows, disk, threads, jobs, faults>>
Complete ==
  /\ op.at = "complete" /\ Gone(op.m)
  /\ UNCHANGED <<tries, bound, refused, old, disk, threads, jobs, faults>>

-----------------------------------------------------------------------------
(* Jobs *)

Bad(j) == {f \in files[j] : disk[f] # "whole"}

\* Every file a job may read is read and compared before it starts.
StartJob(j) ==
  /\ job[j] = "queued" /\ row[j] = "gone" /\ Bad(j) = {} /\ job' = [job EXCEPT ![j] = "running"]
  /\ UNCHANGED <<rows, disk, threads, files, notes, into, given, op, faults>>

\* A bad file of the job's own message ends the job; one of an earlier message is
\* taken out of the catalog, and out of what every open job may read.
LoseOwn(j) ==
  /\ job[j] = "queued" /\ row[j] = "gone" /\ Bad(j) \cap FilesOf(j) # {}
  /\ job' = [job EXCEPT ![j] = "failed"]
  /\ UNCHANGED <<rows, disk, threads, files, notes, into, given, op, faults>>
Retire(j, f) ==
  /\ job[j] = "queued" /\ row[j] = "gone" /\ f \in Bad(j) \ FilesOf(j)
  /\ catalog' = catalog \ {f} /\ retired' = retired \cup {f}
  /\ files' = [k \in Messages |-> IF k \in Open THEN catalog' ELSE files[k]]
  /\ UNCHANGED <<rows, disk, pending, helped, job, notes, into, given, op, faults>>

EndJob(j) ==
  /\ job[j] = "running" /\ \E end \in {"done", "failed"} : job' = [job EXCEPT ![j] = end]
  /\ UNCHANGED <<rows, disk, threads, files, notes, into, given, op, faults>>

-----------------------------------------------------------------------------
(* Faults, and time *)

Trouble == faults < MaxFaults /\ faults' = faults + 1

\* The gateway dies and starts again: what it was processing is pending.
Restart ==
  /\ Trouble /\ op # Idle /\ op' = Idle /\ row' = [row EXCEPT ![op.m] = "pending"]
  /\ UNCHANGED <<tries, bound, manifest, recovered, refused, old, disk, threads, jobs>>

\* A stop overtakes the download, or the read budget of Slack is used up: the row
\* waits, and the try does not count.
Yield ==
  /\ Trouble /\ op.at \in {"own", "old"} /\ op' = Idle /\ row' = [row EXCEPT ![op.m] = "pending"]
  /\ UNCHANGED <<tries, bound, manifest, recovered, refused, old, disk, threads, jobs>>

Requeue(j) ==
  /\ Trouble /\ job[j] = "running" /\ job' = [job EXCEPT ![j] = "queued"]
  /\ UNCHANGED <<rows, disk, threads, files, notes, into, given, op>>

\* Somebody removes or changes a file of the inbox.
Spoil(f) ==
  /\ Trouble /\ disk[f] = "whole"
  /\ (f \in catalog /\ row[Message[f]] = "gone") \/ ("inbox" \in Windows /\ f \in manifest)
  /\ \E d \in {"none", "bad"} : disk' = [disk EXCEPT ![f] = d]
  /\ UNCHANGED <<rows, threads, jobs, op>>

\* The runner removes what is old: a directory of the inbox none of whose files
\* is catalogued or belongs to a job that is kept.  No step of the gateway takes as
\* long as the retention.
Age(m) ==
  /\ op.at # "kept" /\ row[m] = "gone" /\ job[m] \notin {"queued", "running"} /\ m \notin old /\ old' = old \cup {m}
  /\ UNCHANGED <<row, tries, bound, manifest, recovered, refused, disk, threads, jobs, op, faults>>
Live(m) == FilesOf(m) \cap catalog # {}
Sweep(m) ==
  /\ m \in old /\ ~Live(m) /\ \E f \in FilesOf(m) : disk[f] # "none"
  /\ disk' = [f \in Files |-> IF Message[f] = m THEN "none" ELSE disk[f]]
  /\ UNCHANGED <<rows, threads, jobs, op, faults>>

Drains ==
  \/ \E m \in Messages : Claim(m)
  \/ UseCached \/ Download \/ Record \/ OwnDone \/ FailOwn
  \/ Recover \/ Keep \/ Miss \/ OldDone
  \/ \E j \in Messages : HandLive(j)
  \/ Refuse \/ Enqueue \/ Handed \/ Complete
Runs == \E j \in Messages : StartJob(j) \/ LoseOwn(j) \/ (\E f \in Files : Retire(j, f)) \/ EndJob(j)

Next ==
  \/ Drains \/ Runs \/ Restart \/ Yield
  \/ \E m \in Messages : Post(m) \/ Requeue(m) \/ Age(m) \/ Sweep(m)
  \/ \E f \in Files : Spoil(f)

Spec == Init /\ [][Next]_vars /\ WF_vars(Drains) /\ WF_vars(Runs)

-----------------------------------------------------------------------------
(* Properties *)

\* No accepted file is forgotten: once the row of its message is gone it is
\* catalogued, owed, or was found bad and retired; never catalogued and owed.
\* Only a reply that came too late for its job leaves nothing.
NothingForgotten ==
  /\ \A m \in Messages :
       row[m] = "gone" /\ m \notin refused => FilesOf(m) \subseteq Known \cup retired
  /\ catalog \cap pending = {}

\* A live reply reaches its job with the files its row recovered, whatever died
\* between the recovery and the hand-over.
RepliesAreComplete ==
  \A m \in Messages : into[m] # 0 =>
    FilesOf(m) \cup {f \in Files : helped[f] = m} \subseteq given[m]

\* A job that runs was given, or told it cannot have, every file known of the
\* messages before it and of the replies it took in.
JobsAreInformed ==
  \A j \in Open : \A f \in Known :
    (Message[f] < j \/ into[Message[f]] = j) => f \in files[j] \cup notes[j]

\* Nothing of the service's own removes the bytes of a catalogued file: neither
\* the sweep, nor the clean-up of a failed download.
Spoiled == {f \in catalog : disk[f] # "whole"}
BytesAreKept == Cardinality(Spoiled \cup retired) <= faults

Safety == TypeOK /\ NothingForgotten /\ RepliesAreComplete /\ JobsAreInformed /\ BytesAreKept

\* A file leaves the catalog only when its bytes are not what was recorded.
RetiresOnlyBad == [][\A f \in catalog \ catalog' : disk[f] # "whole"]_vars

\* Every message is handed over, refused or fails, and every job ends.
Quiet == op = Idle /\ (\A m \in Messages : row[m] \in {"absent", "gone"}) /\ Open = {}
Settles == <>[]Quiet
=============================================================================
