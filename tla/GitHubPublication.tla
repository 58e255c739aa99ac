--------------------------- MODULE GitHubPublication ---------------------------
(***************************************************************************)
(* Host publication of a reviewed job: publishStagedGitHubPublication      *)
(* (job-runner.ts) drives publishGitHubPlan (github-publication.ts) over   *)
(* the plans of a staged result, one exact GitHub command at a time.  A    *)
(* reply is never evidence: every mutation is followed by a lookup, and    *)
(* what the lookup showed is stored before the next mutation.  People, CI  *)
(* and the merge queue change the same repository in between; the user may *)
(* cancel, the runner may be asked to stop or may die at any point.        *)
(*                                                                         *)
(* Not represented: titles and bodies of pull requests, retry delays, and  *)
(* the local checks of the checkout (assertGitHubPublicationSource).       *)
(***************************************************************************)
EXTENDS Naturals, FiniteSets, FiniteSetsExt

CONSTANTS
  N,            \* number of plans of the publication set
  Promoted,     \* plans that also merge their pull request (plan.promotion)
  Followed,     \* promoted plans with a follow-up (release) pull request
  Replaces,     \* promoted plans with an obsolete pull request to close
  MaxAttempts,  \* bound: attempts of the job
  MaxFaults     \* bound: outside changes, failed commands and interruptions

Plans == 1 .. N

VARIABLES
  remote,  \* GitHub's state of each plan's repository
  row,     \* durable receipt row of each plan
  kept,    \* durable promotion checkpoint of each plan, by rank
  set,     \* durable state of the publication set
  job,     \* durable state of the job
  cancel,  \* the user has asked to cancel
  attempt, \* attempt of the job
  runner,  \* "up", "stopping" (the abort signal is set) or "down"
  pub,     \* the publisher's own memory
  faults   \* bound: faults used

vars == <<remote, row, kept, set, job, cancel, attempt, runner, pub, faults>>
store == <<row, kept, set, job, attempt>>

\* branch: head of the feature branch; pr: the pull request; made: how many were
\* ever created; health: what checks and protections say of it; landed: the head
\* that was merged; tip: how often the base moved; hist: an older, already merged
\* follow-up pull request exists; queue: the repository requires a merge queue.
Repository ==
  [branch : {"none", "commit", "foreign"}, pr : {"none", "open", "merged", "closed"},
   made : Nat, health : {"pending", "clean", "dirty", "failed"}, clean : BOOLEAN,
   enrolled : BOOLEAN, landed : {"none", "commit", "foreign"},
   old : {"open", "closed", "merged"}, based : BOOLEAN, tip : Nat,
   follow : {"none", "open"}, follows : Nat, hist : BOOLEAN, queue : BOOLEAN]

Steps == {"loop", "branch", "find", "base", "push", "pushed", "source", "refind",
  "headcheck", "create", "created", "opened", "ready", "close", "closed", "merge",
  "merged", "queued", "promoted", "landed", "followup", "followcheck", "followcreate",
  "followed", "noted", "receipt", "status", "sealed", "conflict", "cancelling", "gone"}

\* Steps at which the publisher is about to run a git or gh command.
Commands == {"branch", "find", "base", "push", "pushed", "refind", "headcheck",
  "create", "created", "ready", "close", "closed", "merge", "merged", "promoted",
  "followup", "followcheck", "followcreate", "followed"}

Publisher == [step : Steps, plan : Plans, head : {"none", "commit", "foreign"},
              existing : BOOLEAN, done : BOOLEAN, tip : Nat]
Gone == [step |-> "gone", plan |-> 1, head |-> "none", existing |-> FALSE,
         done |-> FALSE, tip |-> 0]

TypeOK ==
  /\ remote \in [Plans -> Repository]
  /\ row \in [Plans -> {"none", "pending", "completed"}]
  /\ kept \in [Plans -> 0 .. 5]
  /\ set \in {"none", "pending", "completed"}
  /\ job \in {"running", "queued", "completed", "cancelled", "failed"}
  /\ cancel \in BOOLEAN /\ attempt \in 1 .. MaxAttempts
  /\ runner \in {"up", "stopping", "down"} /\ pub \in Publisher
  /\ faults \in 0 .. MaxFaults

\* A result and its publication set were staged in one transaction.
Init ==
  /\ \E h \in SUBSET Followed, q \in SUBSET Promoted :
       remote = [p \in Plans |->
            [branch |-> "none", pr |-> "none", made |-> 0, health |-> "pending",
             clean |-> FALSE, enrolled |-> FALSE, landed |-> "none", old |-> "open",
             based |-> TRUE, tip |-> 0, follow |-> "none", follows |-> 0, hist |-> p \in h,
             queue |-> p \in q]]
  /\ row = [p \in Plans |-> "pending"] /\ kept = [p \in Plans |-> 0] /\ set = "pending"
  /\ job = "running" /\ cancel = FALSE /\ attempt = 1
  /\ runner = "up" /\ pub = [Gone EXCEPT !.step = "loop"] /\ faults = 0

p0 == pub.plan
At(s) == runner # "down" /\ pub.step = s
Goto(s) == pub' = [pub EXCEPT !.step = s]
Pending == {p \in Plans : row[p] = "pending"}
SetRemote(p, r) == remote' = [remote EXCEPT ![p] = r]

-----------------------------------------------------------------------------
(* The loop of publishStagedGitHubPublication.                             *)

Begin ==
  /\ At("loop") /\ ~cancel /\ runner = "up" /\ Pending # {}
  /\ pub' = [Gone EXCEPT !.step = "branch", !.plan = Min(Pending)]
  /\ UNCHANGED <<remote, store, cancel, runner, faults>>

\* Every receipt is stored: the set is completed with the receipts in the result.
CompleteSet ==
  /\ At("loop") /\ ~cancel /\ runner = "up" /\ Pending = {}
  /\ set' = "completed" /\ Goto("sealed")
  /\ UNCHANGED <<remote, row, kept, job, cancel, attempt, runner, faults>>

LoopCancelled ==
  /\ At("loop") /\ cancel /\ Goto("cancelling")
  /\ UNCHANGED <<remote, store, cancel, runner, faults>>

\* The abort signal leaves the set staged and ends the runner.
Interrupted ==
  /\ \/ At("loop") /\ ~cancel
     \/ \E s \in Commands : At(s)
     \/ At("conflict")
  /\ runner = "stopping"
  /\ runner' = "down" /\ pub' = Gone
  /\ UNCHANGED <<remote, store, cancel, faults>>

-----------------------------------------------------------------------------
(* publishGitHubPlan.                                                      *)

\* Mutant: only open pull requests are looked up.
FoundOpen(p) ==
  IF remote[p].pr = "open" /\ remote[p].branch = "commit" THEN "valid" ELSE "none"

\* What findPullRequest makes of the pull request of the feature branch.  A
\* merged or closed pull request keeps the head it had; an open one tracks its
\* branch.
Found(p) ==
  CASE remote[p].pr = "none" -> "none"
    [] remote[p].pr = "open" -> IF remote[p].branch = "commit" THEN "valid" ELSE "conflict"
    [] remote[p].pr = "merged" -> IF remote[p].landed = "commit" THEN "valid" ELSE "conflict"
    [] remote[p].pr = "closed" -> "conflict"

LookUpBranch ==
  /\ At("branch")
  /\ pub' = [pub EXCEPT !.head = remote[p0].branch, !.step = "find"]
  /\ UNCHANGED <<remote, store, cancel, runner, faults>>

FindExisting ==
  /\ At("find")
  /\ pub' = [pub EXCEPT !.existing = Found(p0) = "valid", !.done = remote[p0].pr = "merged",
               !.step = CASE Found(p0) = "conflict" -> "conflict"
                          [] Found(p0) = "valid" -> IF p0 \in Promoted THEN "base" ELSE "receipt"
                          [] Found(p0) = "none" ->
                               IF pub.head \in {"none", "commit"} THEN "base" ELSE "conflict"]
  /\ UNCHANGED <<remote, store, cancel, runner, faults>>

\* The base must still descend from the reviewed base.
CheckBase ==
  /\ At("base")
  /\ Goto(IF ~remote[p0].based THEN "conflict"
          ELSE IF ~pub.existing /\ pub.head # "commit" THEN "push"
          ELSE IF p0 \in Promoted /\ pub.head = "commit" THEN "source" ELSE "refind")
  /\ UNCHANGED <<remote, store, cancel, runner, faults>>

\* A push without force: it can be refused, and its reply is not used.
Push ==
  /\ At("push") /\ Goto("pushed")
  /\ IF remote[p0].branch = "none"
     THEN SetRemote(p0, [remote[p0] EXCEPT !.branch = "commit"])
     ELSE UNCHANGED remote
  /\ UNCHANGED <<store, cancel, runner, faults>>

\* Without the reviewed commit a refused push is a conflict, any other is retried.
VerifyPush ==
  /\ At("pushed")
  /\ IF remote[p0].branch = "commit"
     THEN pub' = [pub EXCEPT !.head = "commit",
                    !.step = IF p0 \in Promoted THEN "source" ELSE "refind"]
     ELSE \E s \in {"loop", "conflict"} : Goto(s)
  /\ UNCHANGED <<remote, store, cancel, runner, faults>>

FindAgain ==
  /\ At("refind")
  /\ LET f == IF pub.existing THEN "valid" ELSE Found(p0)
     IN pub' = [pub EXCEPT !.done = IF pub.existing THEN @ ELSE remote[p0].pr = "merged",
                  !.step = CASE f = "none" -> "headcheck" [] f = "conflict" -> "conflict"
                             [] f = "valid" -> IF p0 \in Promoted THEN "opened" ELSE "receipt"]
  /\ UNCHANGED <<remote, store, cancel, runner, faults>>

CheckHead ==
  /\ At("headcheck")
  /\ Goto(IF remote[p0].branch = "commit" THEN "create" ELSE "conflict")
  /\ UNCHANGED <<remote, store, cancel, runner, faults>>

\* GitHub refuses a second open pull request for one head and base.
Create ==
  /\ At("create") /\ Goto("created")
  /\ IF remote[p0].pr # "open" /\ remote[p0].branch # "none"
     THEN SetRemote(p0, [remote[p0] EXCEPT !.pr = "open", !.made = @ + 1,
                           !.landed = "none", !.health = "pending"])
     ELSE UNCHANGED remote
  /\ UNCHANGED <<store, cancel, runner, faults>>

FindCreated ==
  /\ At("created")
  /\ pub' = [pub EXCEPT !.done = remote[p0].pr = "merged",
               !.step = CASE Found(p0) = "none" -> "loop" [] Found(p0) = "conflict" -> "conflict"
                          [] Found(p0) = "valid" -> IF p0 \in Promoted THEN "opened" ELSE "receipt"]
  /\ UNCHANGED <<remote, store, cancel, runner, faults>>

-----------------------------------------------------------------------------
(* Durable promotion checkpoints (recordGitHubPromotionCheckpoint).        *)

\* The rank of a checkpoint only grows; stop and cancellation are honoured
\* after it is stored, except at the plan's last mutation.
Rank(s) == CASE s = "source" -> 1 [] s = "opened" -> 2 [] s = "queued" -> 3
             [] s = "landed" -> 4 [] s = "noted" -> 5
Terminal(s) == s = "noted" \/ (s = "landed" /\ p0 \notin Followed)

After(s) ==
  CASE s = "source" -> "refind"
    [] s = "opened" -> IF pub.done THEN "close" ELSE "ready"
    [] s = "queued" -> "loop"
    [] s = "landed" -> IF p0 \in Followed THEN "followup" ELSE "receipt"
    [] s = "noted" -> "receipt"

Checkpoint ==
  \E s \in {"source", "opened", "queued", "landed", "noted"} :
    /\ At(s)
    /\ kept' = [kept EXCEPT ![p0] = IF Rank(s) > @ THEN Rank(s) ELSE @]
    /\ IF runner = "stopping" THEN runner' = "down" /\ pub' = Gone
       ELSE /\ UNCHANGED runner
            /\ Goto(IF cancel /\ ~Terminal(s) THEN "cancelling" ELSE After(s))
    /\ UNCHANGED <<remote, row, set, job, cancel, attempt, faults>>

-----------------------------------------------------------------------------
(* Integration.                                                            *)

\* Mutant: obsolete pull requests are closed before the replacement is read.
ReadAfterClosing ==
  /\ At("ready")
  /\ Goto("close")
  /\ UNCHANGED <<remote, store, cancel, runner, faults>>

\* readPullRequestForMerge: the exact pull request, its checks and its state.
\* Failed checks fail the job, a wait is retried later.
ReadForMerge ==
  /\ At("ready")
  /\ IF Found(p0) # "valid" THEN Goto("conflict") /\ UNCHANGED <<row, job>>
     ELSE IF remote[p0].pr = "merged"
     THEN pub' = [pub EXCEPT !.done = TRUE, !.step = "close"] /\ UNCHANGED <<row, job>>
     ELSE CASE remote[p0].health = "clean" -> Goto("close") /\ UNCHANGED <<row, job>>
            [] remote[p0].health = "dirty" -> Goto("conflict") /\ UNCHANGED <<row, job>>
            [] remote[p0].health = "pending" -> Goto("loop") /\ UNCHANGED <<row, job>>
            [] remote[p0].health = "failed" ->
                 job' = "failed" /\ pub' = Gone /\ UNCHANGED row
  /\ UNCHANGED <<remote, kept, set, cancel, attempt, runner, faults>>

\* Codex-selected obsolete pull requests; one that was merged is a conflict.
CloseObsolete ==
  /\ At("close")
  /\ IF p0 \in Replaces /\ remote[p0].old = "merged" THEN Goto("conflict") /\ UNCHANGED remote
     ELSE IF p0 \in Replaces /\ remote[p0].old = "open"
     THEN Goto("closed") /\ SetRemote(p0, [remote[p0] EXCEPT !.old = "closed"])
     ELSE Goto(IF pub.done THEN "promoted" ELSE "merge") /\ UNCHANGED remote
  /\ UNCHANGED <<store, cancel, runner, faults>>

VerifyClosed ==
  /\ At("closed")
  /\ Goto(IF remote[p0].old # "closed" THEN "loop" ELSE IF pub.done THEN "promoted" ELSE "merge")
  /\ UNCHANGED <<remote, store, cancel, runner, faults>>

\* The merge names the reviewed commit: GitHub refuses it for another head.
MergeMatches(p) == remote[p].branch = "commit"

Merge ==
  /\ At("merge") /\ Goto("merged")
  /\ IF remote[p0].pr = "open" /\ MergeMatches(p0)
     THEN IF remote[p0].queue
          THEN SetRemote(p0, [remote[p0] EXCEPT !.enrolled = TRUE])
          ELSE IF remote[p0].health = "clean"
          THEN SetRemote(p0, [remote[p0] EXCEPT !.pr = "merged", !.landed = remote[p0].branch,
                                !.tip = @ + 1])
          ELSE UNCHANGED remote
     ELSE UNCHANGED remote
  /\ UNCHANGED <<store, cancel, runner, faults>>

\* The exact pull request is looked up again before the merge is classified.
VerifyMerge ==
  /\ At("merged")
  /\ Goto(CASE Found(p0) = "conflict" -> "conflict"
            [] Found(p0) = "valid" /\ remote[p0].pr = "merged" -> "promoted"
            [] OTHER -> IF remote[p0].queue THEN "queued" ELSE "loop")
  /\ UNCHANGED <<remote, store, cancel, runner, faults>>

\* The base must descend from the merge and from the reviewed base.
ReadPromoted ==
  /\ At("promoted")
  /\ pub' = [pub EXCEPT !.tip = remote[p0].tip,
                        !.step = IF remote[p0].based THEN "landed" ELSE "conflict"]
  /\ UNCHANGED <<remote, store, cancel, runner, faults>>

-----------------------------------------------------------------------------
(* The follow-up pull request from the base branch; it is never merged.    *)

\* It is looked up like the other: the base tip must be the one read above, and
\* an older pull request of the same two branches counts as another head.  The
\* branch it goes to may be gone, or not descend from what was reviewed.
FoundFollowup(p) ==
  IF remote[p].follow = "open" THEN IF remote[p].tip = pub.tip THEN "valid" ELSE "conflict"
  ELSE IF remote[p].hist THEN "conflict" ELSE "none"

FindFollowup ==
  /\ At("followup")
  /\ \/ /\ UNCHANGED faults
        /\ Goto(CASE FoundFollowup(p0) = "none" -> "followcheck"
                  [] FoundFollowup(p0) = "valid" -> "noted"
                  [] FoundFollowup(p0) = "conflict" -> "conflict")
     \/ faults < MaxFaults /\ faults' = faults + 1 /\ Goto("conflict")
  /\ UNCHANGED <<remote, store, cancel, runner>>

CheckFollowupHead ==
  /\ At("followcheck")
  /\ Goto(IF remote[p0].tip = pub.tip THEN "followcreate" ELSE "conflict")
  /\ UNCHANGED <<remote, store, cancel, runner, faults>>

CreateFollowup ==
  /\ At("followcreate") /\ Goto("followed")
  /\ IF remote[p0].follow = "none"
     THEN SetRemote(p0, [remote[p0] EXCEPT !.follow = "open", !.follows = @ + 1])
     ELSE UNCHANGED remote
  /\ UNCHANGED <<store, cancel, runner, faults>>

VerifyFollowup ==
  /\ At("followed")
  /\ Goto(CASE FoundFollowup(p0) = "none" -> "loop"
            [] FoundFollowup(p0) = "valid" -> "noted"
            [] FoundFollowup(p0) = "conflict" -> "conflict")
  /\ UNCHANGED <<remote, store, cancel, runner, faults>>

-----------------------------------------------------------------------------
(* Outcomes.                                                               *)

\* The receipt is stored; a cancellation seen now seals a complete set first.
StoreReceipt ==
  /\ At("receipt")
  /\ row' = [row EXCEPT ![p0] = "completed"]
  /\ IF cancel
     THEN /\ set' = IF Pending = {p0} THEN "completed" ELSE set
          /\ Goto("cancelling")
     ELSE UNCHANGED set /\ Goto("status")
  /\ UNCHANGED <<remote, kept, job, cancel, attempt, runner, faults>>

\* onStatus is awaited: a cancellation or a stop can arrive before the loop.
Announce == At("status") /\ Goto("loop") /\ UNCHANGED <<remote, store, cancel, runner, faults>>

\* completeStagedExecution refuses a job whose cancellation was requested.
CompleteJob ==
  /\ At("sealed") /\ set = "completed"
  /\ IF cancel THEN Goto("cancelling") /\ UNCHANGED job
     ELSE job' = "completed" /\ pub' = Gone
  /\ UNCHANGED <<remote, row, kept, set, cancel, attempt, runner, faults>>

CancelJob ==
  /\ At("cancelling")
  /\ job' = "cancelled" /\ pub' = Gone
  /\ UNCHANGED <<remote, row, kept, set, cancel, attempt, runner, faults>>

\* The staged rows are archived and removed, and the job returns to its session.
Requeued == [row |-> [p \in Plans |-> "none"], kept |-> [p \in Plans |-> 0], set |-> "none"]
Requeue ==
  /\ row' = Requeued.row /\ kept' = Requeued.kept /\ set' = Requeued.set /\ job' = "queued"

\* A conflict is Codex's to resolve.  The transaction refuses a job cancelled in
\* the meantime, and the error ends the runner.
Conflict ==
  /\ At("conflict")
  /\ IF cancel THEN runner' = "down" /\ UNCHANGED store
     ELSE Requeue /\ UNCHANGED <<runner, attempt>>
  /\ pub' = Gone
  /\ UNCHANGED <<remote, cancel, faults>>

\* A command fails, or its reply and effect are both lost: the plan is retried.
CommandFails ==
  /\ \E s \in Commands : At(s)
  /\ faults < MaxFaults /\ faults' = faults + 1
  /\ Goto("loop")
  /\ UNCHANGED <<remote, store, cancel, runner>>

\* A command's process could not be proved gone: the runner ends.
CleanupFails ==
  /\ \E s \in Commands : At(s)
  /\ faults < MaxFaults /\ faults' = faults + 1
  /\ runner' = "down" /\ pub' = Gone
  /\ UNCHANGED <<remote, store, cancel>>

-----------------------------------------------------------------------------
(* The user, the service and the next attempt.                             *)

RequestCancel ==
  /\ job = "running" /\ ~cancel /\ cancel' = TRUE
  /\ UNCHANGED <<remote, store, runner, pub, faults>>

Stop ==
  /\ runner = "up" /\ faults < MaxFaults
  /\ runner' = "stopping" /\ faults' = faults + 1
  /\ UNCHANGED <<remote, store, cancel, pub>>

Crash ==
  /\ runner # "down" /\ faults < MaxFaults
  /\ runner' = "down" /\ pub' = Gone /\ faults' = faults + 1
  /\ UNCHANGED <<remote, store, cancel>>

\* requeueLegacyGitHubPublicationForCodex refuses a set with no pending plan.
StartupRefuses == job = "running" /\ set = "pending" /\ ~cancel /\ Pending = {}

\* Startup never publishes: a staged set goes back to the Codex session, a sealed
\* one completes, a cancelled job is ended.
Boot ==
  /\ runner = "down" /\ ~StartupRefuses /\ runner' = "up"
  /\ IF job # "running" THEN UNCHANGED store
     ELSE IF cancel THEN job' = "cancelled" /\ UNCHANGED <<row, kept, set, attempt>>
     ELSE IF set = "completed" THEN job' = "completed" /\ UNCHANGED <<row, kept, set, attempt>>
     ELSE Requeue /\ UNCHANGED attempt
  /\ UNCHANGED <<remote, cancel, pub, faults>>

\* The resumed session reviews again and stages the same plans.
Restage ==
  /\ runner = "up" /\ job = "queued" /\ attempt < MaxAttempts
  /\ job' = "running" /\ attempt' = attempt + 1
  /\ row' = [p \in Plans |-> "pending"] /\ kept' = [p \in Plans |-> 0] /\ set' = "pending"
  /\ pub' = [Gone EXCEPT !.step = "loop"]
  /\ UNCHANGED <<remote, cancel, runner, faults>>

\* Or it finds nothing left to publish, or is cancelled while queued.
FinishQueued ==
  /\ runner = "up" /\ job = "queued"
  /\ job' \in {"completed", "cancelled"}
  /\ UNCHANGED <<remote, row, kept, set, cancel, attempt, runner, pub, faults>>

-----------------------------------------------------------------------------
(* GitHub changed by others.                                               *)

Judge ==
  \E p \in Promoted, h \in {"clean", "dirty", "failed"} :
    /\ remote[p].pr = "open" /\ remote[p].health = "pending"
    /\ h # "clean" => faults < MaxFaults
    /\ faults' = IF h = "clean" THEN faults ELSE faults + 1
    /\ SetRemote(p, [remote[p] EXCEPT !.health = h, !.clean = @ \/ (h = "clean")])
    /\ UNCHANGED <<store, cancel, runner, pub>>

QueueMerges ==
  \E p \in Promoted :
    /\ remote[p].enrolled /\ remote[p].pr = "open"
    /\ SetRemote(p, [remote[p] EXCEPT !.pr = "merged", !.landed = remote[p].branch,
                       !.enrolled = FALSE, !.tip = @ + 1])
    /\ UNCHANGED <<store, cancel, runner, pub, faults>>

\* A push by someone else changes the head and leaves the queue; it restarts checks.
Meddle ==
  \E p \in Plans :
    /\ faults < MaxFaults /\ faults' = faults + 1
    /\ \E r \in {[remote[p] EXCEPT !.branch = "foreign", !.enrolled = FALSE, !.health = "pending"],
                 [remote[p] EXCEPT !.pr = IF @ = "open" THEN "closed" ELSE @, !.enrolled = FALSE],
                 [remote[p] EXCEPT !.pr = IF @ = "open" THEN "merged" ELSE @, !.enrolled = FALSE,
                    !.landed = IF remote[p].pr = "open" THEN remote[p].branch ELSE @],
                 [remote[p] EXCEPT !.old = IF @ = "open" /\ p \in Replaces THEN "merged" ELSE @],
                 [remote[p] EXCEPT !.based = FALSE],
                 [remote[p] EXCEPT !.tip = IF p \in Followed THEN @ + 1 ELSE @]} :
         r # remote[p] /\ SetRemote(p, r)
    /\ UNCHANGED <<store, cancel, runner, pub>>

Step ==
  \/ Begin \/ CompleteSet \/ LoopCancelled \/ Interrupted \/ LookUpBranch \/ FindExisting
  \/ CheckBase \/ Push \/ VerifyPush \/ FindAgain \/ CheckHead \/ Create \/ FindCreated
  \/ Checkpoint \/ ReadForMerge \/ CloseObsolete \/ VerifyClosed \/ Merge \/ VerifyMerge
  \/ ReadPromoted \/ FindFollowup \/ CheckFollowupHead \/ CreateFollowup \/ VerifyFollowup
  \/ StoreReceipt \/ Announce \/ CompleteJob \/ CancelJob \/ Conflict

Next ==
  \/ Step \/ CommandFails \/ CleanupFails \/ RequestCancel \/ Stop \/ Crash \/ Boot
  \/ Restage \/ FinishQueued \/ Judge \/ QueueMerges \/ Meddle

Spec ==
  /\ Init /\ [][Next]_vars
  /\ WF_vars(Step) /\ WF_vars(Boot) /\ WF_vars(Judge) /\ WF_vars(QueueMerges)

-----------------------------------------------------------------------------
(* Properties.                                                             *)

\* A stored receipt or promotion checkpoint tells what GitHub really holds: the
\* pull request was made, a promotion's reviewed commit is the one that landed,
\* and the follow-up is open.
ReceiptIsTrue ==
  \A p \in Plans :
    /\ kept[p] >= 2 \/ row[p] = "completed" => remote[p].made >= 1
    /\ kept[p] >= 4 \/ (row[p] = "completed" /\ p \in Promoted) => remote[p].landed = "commit"
    /\ kept[p] = 5 \/ (row[p] = "completed" /\ p \in Followed) => remote[p].follow = "open"

\* However often replies are lost, attempts repeated or pull requests closed by
\* people, one plan never has a second pull request or a second follow-up.
OnePullRequest == \A p \in Plans : remote[p].made <= 1 /\ remote[p].follows <= 1

\* The set is completed, and the job with it, only with a receipt for every plan.
SetIsWhole ==
  /\ set = "completed" => \A p \in Plans : row[p] = "completed"
  /\ job = "completed" => set # "pending"

Safety == TypeOK /\ ReceiptIsTrue /\ OnePullRequest /\ SetIsWhole

\* Another person's commit on the branch is never overwritten, and it is merged
\* only by people: not by the publisher and not by the queue it enrolled in.
ForeignWorkIsKept ==
  [][\A p \in Plans :
       /\ remote[p].branch = "foreign" => remote'[p].branch = "foreign"
       /\ remote'[p].landed = "foreign" /\ remote[p].landed # "foreign" => faults' > faults]_vars

\* An obsolete pull request is closed only when its replacement has merged or has
\* been seen clean: a failing replacement never removes the last usable one.
OldStaysUntilReplaced ==
  [][\A p \in Plans : remote[p].old = "open" /\ remote'[p].old = "closed" =>
       remote[p].clean \/ remote[p].pr = "merged"]_vars

\* A cancellation honoured by the publisher loses no finished publication: one whose
\* last mutation was verified has its receipt ("persist the complete receipt before
\* honoring a cancellation observed at that boundary", job-runner.ts:14819).
CancelKeepsReceipts ==
  [][pub.step = "cancelling" /\ job' = "cancelled" =>
       \A p \in Plans : kept[p] = 5 => row[p] = "completed"]_vars

\* A staged publication ends: completed, cancelled, failed or back with Codex -
\* or its startup refuses it (StartupRefuses).
Quiet == job # "running" \/ StartupRefuses
PublicationSettles == <>[]Quiet

\* A staged publication survives a restart: "after a restart it completes from the
\* same checkpoint" (github-publication.test.ts:1804).
RestartsComplete == job = "running" ~> job # "running"
=============================================================================
