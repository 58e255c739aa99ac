---------------------------- MODULE AdvisorRound ----------------------------
(***************************************************************************)
(* The advisor broker of a job: rounds of external review that must not be *)
(* asked twice, whatever dies in between.                                  *)
(*                                                                         *)
(* A round asks Grok, a read-only process that may be run again, and one   *)
(* Claude session in a terminal workspace, where a prompt once typed       *)
(* cannot be taken back.  All that is known of a round lies in files of    *)
(* the attempt: the claim (active-round.lock), the round's journal, the    *)
(* slots an answer is saved in before its peer is done, the cache of       *)
(* responses, the claim of the Opus fallback, the request directory of the *)
(* Claude helper with its send receipt, the recorded outcome of its        *)
(* cleanup, and the receipt of a retired executor generation.  The broker  *)
(* lives as long as the executor that holds it and is killed with it at    *)
(* any step; the helper that types the prompt is another process and may   *)
(* outlive it until the generation's processes are reaped.                 *)
(*                                                                         *)
(* The texts, the native advisor (its answer comes with the request), the  *)
(* repository digests, the thirty seconds of backoff and failing writes    *)
(* are left out.                                                           *)
(***************************************************************************)
EXTENDS Naturals, FiniteSets

CONSTANTS
  Rounds,    \* the phases and rounds of the attempt
  Second,    \* the final review of a fix, or None
  First,     \* the review it needs, or None
  None,
  MaxRetry,  \* retries of a round: 3 in the code
  MaxInput,  \* bound: revisions of the Slack input
  MaxGen     \* bound: executor generations of the attempt

ASSUME AdvisorAssumption ==
  /\ MaxRetry \in Nat /\ MaxInput \in Nat \ {0} /\ MaxGen \in Nat \ {0}
  /\ Second \in Rounds => First \in Rounds /\ First # Second

VARIABLES
  input,      \* the latest revision of the job's Slack input
  gen, life,  \* the executor generation, and its broker with it
  lock,       \* active-round.lock: who claimed which round
  journal, slots, cache, fallback, dir, cleanup,  \* the files of a round
  retired,    \* the receipt of a retired generation, until its round is final
  run,        \* the round the broker works on, in its memory
  shown,      \* per round, the payload in roundTasks
  helper,     \* the process that types the prompt
  prompts, obtained  \* history: prompts typed; answers ever saved in a slot

files == <<lock, journal, slots, cache, fallback, dir, cleanup, retired>>
vars == <<input, gen, life, files, run, shown, helper, prompts, obtained>>

Models == {"fable", "opus"}
GrokOutcomes == {"none", "failed", "answered"}

\* What is known of the Claude slot.  unsent, interrupted and untouched: no prompt
\* was delivered and the session is closed (by a failure of its own, by the end of
\* its generation, never opened); delivered: perhaps, and it is closed; residual:
\* its cleanup is unverified; live: a process is still there, or Opus was claimed.
ClaudeOutcomes == {"none", "unsent", "interrupted", "untouched", "delivered", "residual",
                   "live", "answered"}
Undelivered == {"unsent", "interrupted", "untouched"}
Interrupted == {"interrupted", "untouched"}
Contained   == Undelivered \cup {"delivered", "answered"}

Pair   == [grok : GrokOutcomes, claude : ClaudeOutcomes]
Empty  == [grok |-> "none", claude |-> "none"]
Full   == [grok |-> "answered", claude |-> "answered"]

Requested == "requested"
Terminal  == {"reviewers-completed", "required-reviewer-failed", "stale-input", "completed"}

\* bound: responseCacheDigest is that of the cache; rec: recoveryInputRevision;
\* recovered: by a finalisation under way, sealed, or since rewritten; off: the file
\* continuation-unavailable names this recovery; mends: interruptionRecovery.
Journals == [status : Terminal \cup {Requested}, rev : 1..MaxInput, gen : 1..MaxGen,
             was : Pair, retries : 0..MaxRetry, rec : 0..MaxInput, bound : BOOLEAN,
             recovered : {"no", "open", "sealed", "spent"}, off : BOOLEAN, receipt : BOOLEAN,
             mends : BOOLEAN]

Idle == [round |-> None, step |-> "none", rev |-> 1, at |-> 1, retry |-> FALSE, auto |-> FALSE,
         only |-> FALSE, retries |-> 0, rec |-> 0, mends |-> FALSE, bound |-> FALSE, mem |-> Empty,
         grok |-> "due", claude |-> "due", model |-> "fable", heard |-> FALSE, quota |-> FALSE,
         out |-> "none"]

Claimed   == [gen : 1..MaxGen, round : Rounds]
Caches    == [was : Pair, rec : 0..MaxInput]
Fallbacks == [done : BOOLEAN, out : ClaudeOutcomes]
Folders   == [opened : BOOLEAN, sent : BOOLEAN]
Cleanups  == [delivered : BOOLEAN]
Receipts  == [gen : 1..MaxGen, round : Rounds, step : {"retired", "written", "released"}]
Helpers   == [round : Rounds, model : Models, step : {"fresh", "recorded", "typed"}]

ASSUME NothingAssumption ==
  /\ None \notin Rounds /\ None \notin Claimed /\ None \notin Journals /\ None \notin Caches
  /\ None \notin Fallbacks /\ None \notin Folders /\ None \notin Cleanups
  /\ None \notin Receipts /\ None \notin Helpers

TypeOK ==
  /\ input \in 1..MaxInput /\ gen \in 0..MaxGen /\ life \in {"idle", "up", "down", "reaped"}
  /\ lock \in Claimed \cup {None}
  /\ journal \in [Rounds -> Journals \cup {None}]
  /\ slots \in [Rounds -> Pair]
  /\ cache \in [Rounds -> Caches \cup {None}]
  /\ fallback \in [Rounds -> Fallbacks \cup {None}]
  /\ dir \in [Rounds -> Folders \cup {None}]
  /\ cleanup \in [Rounds -> Cleanups \cup {None}]
  /\ retired \in Receipts \cup {None}
  /\ run.round \in Rounds \cup {None} /\ run.step \in {"none", "claimed", "working", "cached", "written"}
  /\ shown \in [Rounds -> {"none", "open", "terminal"}]
  /\ helper \in Helpers \cup {None}
  /\ prompts \in [Rounds -> [Models -> 0..2]] /\ obtained \in [Rounds -> SUBSET {"grok", "claude"}]

Init ==
  /\ input = 1 /\ gen = 0 /\ life = "idle" /\ lock = None
  /\ journal = [r \in Rounds |-> None] /\ slots = [r \in Rounds |-> Empty]
  /\ cache = [r \in Rounds |-> None] /\ fallback = [r \in Rounds |-> None]
  /\ dir = [r \in Rounds |-> None] /\ cleanup = [r \in Rounds |-> None]
  /\ retired = None
  /\ run = Idle /\ shown = [r \in Rounds |-> "none"] /\ helper = None
  /\ prompts = [r \in Rounds |-> [m \in Models |-> 0]] /\ obtained = [r \in Rounds |-> {}]

-----------------------------------------------------------------------------
(* What the files say of a round *)

Has(r, statuses) == journal[r] # None /\ journal[r].status \in statuses
Adopted(p) == p = Full

\* sameClaudeAttempt: a saved slot speaks of the session now known.
SameAttempt(saved, now) ==
  \/ saved = "answered" \/ now = "untouched"
  \/ now \in Contained /\ (saved \in Undelivered <=> now \in Undelivered)

\* readInterruptedAdvisorSlots: the slots that count, given what is known of Claude.
\* A Grok slot that does not count was interrupted.
Saved(r, now) ==
  [grok |-> IF slots[r].grok = "none" THEN "failed" ELSE slots[r].grok,
   claude |-> IF slots[r].claude \in Contained /\ SameAttempt(slots[r].claude, now)
              THEN slots[r].claude ELSE now]

\* recoveredRoundResult: a round whose generation was retired, sealed by its
\* receipt, with no claim about.
Recovered(r, stale) ==
  /\ Has(r, {"required-reviewer-failed", "reviewers-completed"} \cup
            (IF stale THEN {"stale-input"} ELSE {}))
  /\ journal[r].recovered = "sealed" /\ lock = None

RecoveredPair(r) == Saved(r, journal[r].was.claude)

\* validTerminalClaudeAttempt: the journal of a session still live is not read again.
Readable(r) == Has(r, Terminal) /\ journal[r].was.claude # "live"

\* savedRoundResult: a finished round whose cache its journal is bound to
\* and agrees with.
Restored(r) ==
  /\ Readable(r) /\ cache[r] # None /\ journal[r].bound
  /\ \A a \in {"grok", "claude"} : (cache[r].was[a] = "answered") = (journal[r].was[a] = "answered")

InputFor(r, rec) == input = journal[r].rev \/ (rec > 0 /\ input = rec)

\* What a poll finds of a round that is not running: the answers, and whether
\* they may be delivered.
Payload(r) ==
  IF Recovered(r, TRUE)
  THEN IF Adopted(RecoveredPair(r)) /\ input = journal[r].rev THEN "terminal" ELSE "open"
  ELSE IF Restored(r) THEN IF InputFor(r, journal[r].rec) THEN "terminal" ELSE "open"
  ELSE "none"

Offered(r) == IF Recovered(r, TRUE) THEN RecoveredPair(r)
              ELSE IF Restored(r) THEN cache[r].was ELSE Empty

\* The second review is of a fix the first one asked for.
Allowed(r) ==
  r = Second => Has(First, {"completed"}) /\ "answered" \in {journal[First].was.grok,
                                                             journal[First].was.claude}

-----------------------------------------------------------------------------
(* The job around the broker *)

InputArrives ==
  /\ input < MaxInput /\ input' = input + 1
  /\ UNCHANGED <<gen, life, files, run, shown, helper, prompts, obtained>>

\* The runner finishes what a retired generation left before it starts another.
GenerationStarts ==
  /\ life = "idle" /\ retired = None /\ gen < MaxGen
  /\ gen' = gen + 1 /\ life' = "up"
  /\ UNCHANGED <<input, files, run, shown, helper, prompts, obtained>>

\* A steer, a cancellation, a crash: the broker's memory is gone.
GenerationEnds ==
  /\ life = "up" /\ life' = "down"
  /\ run' = Idle /\ shown' = [r \in Rounds |-> "none"]
  /\ UNCHANGED <<input, gen, files, helper, prompts, obtained>>

\* reapSeatbeltFingerprint: every process of the generation, the helper too.
Reap ==
  /\ life = "down" /\ life' = "reaped" /\ helper' = None
  /\ UNCHANGED <<input, gen, files, run, shown, prompts, obtained>>

\* recordAdvisorExecutorRetirement: of the requested round the generation claimed.
\* A claim whose journal is not written yet leaves no receipt, and stays.
Retire ==
  /\ life = "reaped" /\ life' = "idle"
  /\ retired' = IF lock # None /\ lock.gen = gen /\ Has(lock.round, {Requested})
                    /\ journal[lock.round].gen = gen
                 THEN [gen |-> gen, round |-> lock.round, step |-> "retired"] ELSE None
  /\ UNCHANGED <<input, gen, lock, journal, slots, cache, fallback, dir, cleanup, run, shown,
                 helper, prompts, obtained>>

\* reconcileEphemeralClaudeSessions closes what is left open and records it. It may
\* fail: what follows does not wait for it.
Reconcile(r) ==
  /\ life = "idle" /\ dir[r] # None
  /\ dir' = [dir EXCEPT ![r] = None]
  /\ cleanup' = [cleanup EXCEPT ![r] = IF @ # None THEN @ ELSE [delivered |-> dir[r].sent]]
  /\ UNCHANGED <<input, gen, life, lock, journal, slots, cache, fallback, retired, run, shown,
                 helper, prompts, obtained>>

\* Mutant: the receipt of a sent prompt is not looked at.
KnownUnsent(r) ==
  IF cleanup[r] # None /\ cleanup[r].delivered THEN "delivered" ELSE "interrupted"

\* recoveredClaudeJournal: what the files say of a session cut short.
Known(r) ==
  IF cleanup[r] # None THEN IF cleanup[r].delivered THEN "delivered" ELSE "interrupted"
  ELSE IF dir[r] # None THEN "residual" ELSE "untouched"

\* The outcome of each advisor when its generation was retired: the slot saved, or
\* what the journal kept of an earlier try, or what is known of the session.
Merged(r) ==
  LET was == journal[r].was
      slot == Saved(r, Known(r))
  IN [grok |-> IF slots[r].grok = "none" /\ was.grok = "answered" THEN "answered" ELSE slot.grok,
      claude |-> IF /\ ~(slots[r].claude \in Contained /\ SameAttempt(slots[r].claude, Known(r)))
                    /\ was.claude \in (ClaudeOutcomes \ {"none", "live", "answered"})
                    /\ SameAttempt(was.claude, Known(r))
                 THEN was.claude ELSE slot.claude]

\* finalizeRetiredAdvisorRounds, in its three writes.
FinaliseJournal ==
  /\ retired # None /\ retired.step = "retired"
  /\ LET r == retired.round IN
       journal' = [journal EXCEPT ![r] = [@ EXCEPT
         !.status = IF input = journal[r].rev THEN "required-reviewer-failed" ELSE "stale-input",
         !.was = Merged(r), !.recovered = "open", !.off = FALSE]]
  /\ retired' = [retired EXCEPT !.step = "written"]
  /\ UNCHANGED <<input, gen, life, lock, slots, cache, fallback, dir, cleanup, run, shown,
                 helper, prompts, obtained>>

FinaliseLock ==
  /\ retired # None /\ retired.step = "written"
  /\ lock \in {None, [gen |-> retired.gen, round |-> retired.round]}
  /\ lock' = None /\ retired' = [retired EXCEPT !.step = "released"]
  /\ UNCHANGED <<input, gen, life, journal, slots, cache, fallback, dir, cleanup, run, shown,
                 helper, prompts, obtained>>

FinaliseReceipt ==
  /\ retired # None /\ retired.step = "released"
  /\ journal' = [journal EXCEPT ![retired.round].recovered = "sealed"]
  /\ retired' = None
  /\ UNCHANGED <<input, gen, life, lock, slots, cache, fallback, dir, cleanup, run, shown,
                 helper, prompts, obtained>>

-----------------------------------------------------------------------------
(* A round starts: for the first time, by itself after an interruption, or by a *)
(* retry the model asks for                                                     *)

Free == life = "up" /\ run.round = None /\ lock = None

\* The claim is taken; the rest is deferred to a later turn of the event loop.
Claims(r, with) ==
  /\ lock' = [gen |-> gen, round |-> r]
  /\ run' = [with EXCEPT !.round = r, !.step = "claimed", !.at = input]
  /\ shown' = [shown EXCEPT ![r] = "none"]
  /\ UNCHANGED <<input, gen, life, journal, slots, cache, fallback, dir, cleanup, retired,
                 helper, prompts, obtained>>

\* advisor_round: of the latest input, or of an earlier revision it was prepared for.
Start(r, rev) ==
  /\ Free /\ journal[r] = None /\ Allowed(r) /\ rev \in 1..input
  /\ Claims(r, [Idle EXCEPT !.rev = rev])

\* continuationRequest: only a session known closed that was never prompted.
Resumes(r) ==
  /\ Recovered(r, TRUE) /\ RecoveredPair(r).claude \in Interrupted
  /\ ~journal[r].off /\ journal[r].retries < (IF r = Second THEN 0 ELSE MaxRetry)

\* A retry, and which one of the round.
Again(r, tries) == [Idle EXCEPT !.rev = journal[r].rev, !.retry = TRUE, !.retries = tries]
NextTry(r) == journal[r].retries + 1

\* At the start of a broker, at a poll, or instead of a new round.
Continue(r) ==
  /\ Free /\ Resumes(r) /\ Allowed(r)
  /\ Claims(r, [Again(r, NextTry(r)) EXCEPT !.auto = TRUE, !.mends = TRUE,
                                              !.mem = RecoveredPair(r)])

\* Its question cannot be asked any more: the answers at hand are final.
ContinueFails(r) ==
  /\ Free /\ Resumes(r)
  /\ journal' = [journal EXCEPT ![r].off = TRUE]
  /\ UNCHANGED <<input, gen, life, lock, slots, cache, fallback, dir, cleanup, retired, run, shown,
                 helper, prompts, obtained>>

\* retryUnavailable, from the responses of a finished round; only: the newer input
\* repairs a cause and changes nothing else (inputUpdateIsRecoveryOnly). Repairs that only a
\* person can make are not told apart from other failures.
RetryCached(r, only) ==
  LET was   == cache[r].was
      newer == only /\ input > journal[r].rev /\ input > cache[r].rec
      reset == newer /\ ~journal[r].mends
  IN /\ Free /\ ~Resumes(r) /\ Restored(r) /\ journal[r].recovered = "no" /\ Allowed(r)
     /\ Has(r, {"stale-input"}) => only
     /\ ~Adopted(was) /\ was.claude \in Contained
     /\ was.grok = "answered" => was.claude \in Undelivered
     /\ journal[r].retries < (IF r = Second THEN 0 ELSE MaxRetry) \/ reset
     /\ Claims(r, [Again(r, IF reset THEN 0 ELSE NextTry(r)) EXCEPT
          !.only = only, !.bound = TRUE, !.mem = was, !.mends = journal[r].mends,
          !.rec = IF newer THEN input ELSE cache[r].rec])

\* retryUnavailable, of an interrupted round: the slots saved, and no new budget.
RetryRecovered(r, only) ==
  /\ Free /\ ~Resumes(r) /\ Recovered(r, only) /\ Allowed(r)
  /\ ~Adopted(RecoveredPair(r)) /\ journal[r].was.claude \in Contained
  /\ RecoveredPair(r).grok = "answered" => RecoveredPair(r).claude \in Undelivered
  /\ journal[r].retries < (IF r = Second THEN 0 ELSE MaxRetry)
  /\ Claims(r, [Again(r, NextTry(r)) EXCEPT
       !.only = only, !.mem = RecoveredPair(r), !.mends = TRUE,
       !.rec = IF only /\ input > journal[r].rev /\ input > journal[r].rec
               THEN input ELSE journal[r].rec])

\* The journal of the request; of a retry, once the outcome of the previous session
\* is out of the way. What the journal knew of a slot that is kept, it keeps.
WritesRequest ==
  LET r == run.round
      retried == run.mem.claude \in Undelivered
  IN /\ run.step = "claimed"
     /\ cleanup' = IF run.retry /\ retried THEN [cleanup EXCEPT ![r] = None] ELSE cleanup
     /\ journal' = [journal EXCEPT ![r] =
          [status |-> Requested, rev |-> run.rev, gen |-> gen,
           was |-> IF run.retry
                   THEN [journal[r].was EXCEPT !.claude = IF retried THEN "none" ELSE @]
                   ELSE Empty,
           retries |-> run.retries, rec |-> run.rec, bound |-> run.bound,
           recovered |-> "no", off |-> FALSE, receipt |-> FALSE,
           mends |-> run.mends]]
     /\ run' = [run EXCEPT !.step = "working"]
     /\ UNCHANGED <<input, gen, life, lock, slots, cache, fallback, dir, retired, shown,
                    helper, prompts, obtained>>

-----------------------------------------------------------------------------
(* The two advisors, side by side *)

outside == <<input, gen, life, lock, retired, shown>>

\* persistSlot and persistSlots: the slots known in memory, all of them.
Persists(r, mem, next) ==
  /\ slots' = [slots EXCEPT ![r] = mem]
  /\ run' = [next EXCEPT !.mem = mem]
  /\ obtained' = [obtained EXCEPT ![r] = @ \cup {a \in {"grok", "claude"} : mem[a] = "answered"}]

GrokKept == run.retry /\ (run.auto \/ run.mem.grok = "answered")

KeepGrok ==
  /\ run.step = "working" /\ run.grok = "due" /\ GrokKept
  /\ Persists(run.round, run.mem, [run EXCEPT !.grok = "done"])
  /\ UNCHANGED <<outside, journal, cache, fallback, dir, cleanup, helper, prompts>>

AskGrok ==
  /\ run.step = "working" /\ run.grok = "due" /\ ~GrokKept
  /\ Persists(run.round, [run.mem EXCEPT !.grok = "none"], [run EXCEPT !.grok = "asked"])
  /\ UNCHANGED <<outside, journal, cache, fallback, dir, cleanup, helper, prompts>>

GrokEnds(out) ==
  /\ run.step = "working" /\ run.grok = "asked" /\ out \in {"answered", "failed"}
  /\ Persists(run.round, [run.mem EXCEPT !.grok = out], [run EXCEPT !.grok = "done"])
  /\ UNCHANGED <<outside, journal, cache, fallback, dir, cleanup, helper, prompts>>

ClaudeKept == run.retry /\ run.mem.claude \notin Undelivered
At(pc) == run.step = "working" /\ run.claude = pc
Result(out) == run' = [run EXCEPT !.claude = "result", !.out = out]

KeepClaude ==
  /\ At("due") /\ ClaudeKept
  /\ Persists(run.round, run.mem, [run EXCEPT !.claude = "done"])
  /\ UNCHANGED <<outside, journal, cache, fallback, dir, cleanup, helper, prompts>>

\* beginSlot, before anything is started; a fallback once claimed is not replayed.
BeginClaude ==
  LET saved == fallback[run.round]
      next  == IF saved = None THEN [run EXCEPT !.claude = "asked"]
               ELSE [run EXCEPT !.claude = "final", !.out = IF saved.done THEN saved.out ELSE "live"]
  IN /\ At("due") /\ ~ClaudeKept
     /\ Persists(run.round, [run.mem EXCEPT !.claude = "none"], next)
     /\ UNCHANGED <<outside, journal, cache, fallback, dir, cleanup, helper, prompts>>

\* runClaude up to its request directory: no runtime or login, or one left behind.
ClaudeUnavailable ==
  /\ At("asked") /\ Result("unsent")
  /\ UNCHANGED <<outside, journal, slots, cache, fallback, dir, cleanup, helper, prompts, obtained>>

PrepareClaude ==
  /\ At("asked") /\ dir[run.round] = None
  /\ dir' = [dir EXCEPT ![run.round] = [opened |-> FALSE, sent |-> FALSE]]
  /\ run' = [run EXCEPT !.claude = "prepared", !.heard = FALSE, !.quota = FALSE]
  /\ UNCHANGED <<outside, journal, slots, cache, fallback, cleanup, helper, prompts, obtained>>

\* It fails before a workspace exists, and discards its directory.
DiscardClaude ==
  /\ At("prepared") /\ dir' = [dir EXCEPT ![run.round] = None] /\ Result("unsent")
  /\ UNCHANGED <<outside, journal, slots, cache, fallback, cleanup, helper, prompts, obtained>>

OpenClaude ==
  /\ At("prepared") /\ dir' = [dir EXCEPT ![run.round].opened = TRUE]
  /\ \E next \in {"opened", "closing"} : run' = [run EXCEPT !.claude = next]
  /\ UNCHANGED <<outside, journal, slots, cache, fallback, cleanup, helper, prompts, obtained>>

SendStarts ==
  /\ At("opened") /\ helper = None
  /\ helper' = [round |-> run.round, model |-> run.model, step |-> "fresh"]
  /\ run' = [run EXCEPT !.claude = "sending"]
  /\ UNCHANGED <<outside, journal, slots, cache, fallback, dir, cleanup, prompts, obtained>>

\* The helper: its receipt is durable before the prompt is typed.
HelperRecords ==
  /\ helper # None /\ helper.step = "fresh" /\ dir[helper.round] # None
  /\ helper' = [helper EXCEPT !.step = "recorded"]
  /\ dir' = [dir EXCEPT ![helper.round].sent = TRUE]
  /\ UNCHANGED <<outside, journal, slots, cache, fallback, cleanup, run, prompts, obtained>>

HelperTypes ==
  /\ helper # None /\ helper.step = "recorded" /\ helper' = [helper EXCEPT !.step = "typed"]
  /\ prompts' = [prompts EXCEPT ![helper.round][helper.model] = @ + 1]
  /\ UNCHANGED <<outside, journal, slots, cache, fallback, dir, cleanup, run, obtained>>

\* The helper ends or is killed at its deadline. Without a receipt nothing was sent;
\* with one the prompt may be there, unless the terminal rejected it.
SendEnds ==
  /\ At("sending") /\ helper' = None
  /\ \E next \in {"closing"} \cup (IF dir[run.round].sent THEN {"waiting"} ELSE {}) :
       run' = [run EXCEPT !.claude = next]
  /\ UNCHANGED <<outside, journal, slots, cache, fallback, dir, cleanup, prompts, obtained>>

\* An answer, a rejection for Fable's quota, or neither.
WaitEnds(how) ==
  /\ At("waiting") /\ how \in {"answer", "quota", "failure"}
  /\ how # "failure" => prompts[run.round][run.model] > 0
  /\ run' = [run EXCEPT !.claude = "closing", !.heard = how = "answer",
                         !.quota = how = "quota" /\ run.model = "fable"]
  /\ UNCHANGED <<outside, journal, slots, cache, fallback, dir, cleanup, helper, prompts, obtained>>

CloseClaude ==
  /\ At("closing") /\ run' = [run EXCEPT !.claude = "closed"]
  /\ UNCHANGED <<outside, journal, slots, cache, fallback, dir, cleanup, helper, prompts, obtained>>

\* The close is not verified: an answer at hand is discarded with it.
CloseFails ==
  /\ At("closing") /\ \E out \in {"residual", "live"} : Result(out)
  /\ UNCHANGED <<outside, journal, slots, cache, fallback, dir, cleanup, helper, prompts, obtained>>

RecordCleanup ==
  /\ At("closed") /\ run' = [run EXCEPT !.claude = "recorded"]
  /\ cleanup' = [cleanup EXCEPT ![run.round] =
       IF @ = None THEN [delivered |-> dir[run.round].sent] ELSE @]
  /\ UNCHANGED <<outside, journal, slots, cache, fallback, dir, helper, prompts, obtained>>

\* The directory goes, or stays as a residue; the session is closed either way.
RemoveDirectory ==
  /\ At("recorded")
  /\ \E left \in {None, dir[run.round]} : dir' = [dir EXCEPT ![run.round] = left]
  /\ Result(IF run.heard THEN "answered" ELSE IF dir[run.round].sent THEN "delivered" ELSE "unsent")
  /\ UNCHANGED <<outside, journal, slots, cache, fallback, cleanup, helper, prompts, obtained>>

Switches == run.model = "fable" /\ run.quota /\ run.out \in Contained \ {"answered"}

\* withClaudeQuotaFallback: the claim is durable before anything of Opus starts.
ClaimFallback ==
  /\ At("result") /\ Switches
  /\ fallback' = [fallback EXCEPT ![run.round] = [done |-> FALSE, out |-> "none"]]
  /\ run' = [run EXCEPT !.claude = "claimed"]
  /\ UNCHANGED <<outside, journal, slots, cache, dir, cleanup, helper, prompts, obtained>>

RetireFable ==
  /\ At("claimed") /\ cleanup' = [cleanup EXCEPT ![run.round] = None]
  /\ run' = [run EXCEPT !.claude = "asked", !.model = "opus", !.quota = FALSE]
  /\ UNCHANGED <<outside, journal, slots, cache, fallback, dir, helper, prompts, obtained>>

FinishFallback ==
  /\ At("result") /\ run.model = "opus"
  /\ fallback' = [fallback EXCEPT ![run.round] = [done |-> TRUE, out |-> run.out]]
  /\ run' = [run EXCEPT !.claude = "final"]
  /\ UNCHANGED <<outside, journal, slots, cache, dir, cleanup, helper, prompts, obtained>>

SettleClaude ==
  /\ At("final") \/ (At("result") /\ run.model = "fable" /\ ~Switches)
  /\ Persists(run.round, [run.mem EXCEPT !.claude = run.out], [run EXCEPT !.claude = "done"])
  /\ UNCHANGED <<outside, journal, cache, fallback, dir, cleanup, helper, prompts>>

-----------------------------------------------------------------------------
(* The end of a round, and its delivery *)

\* The input is the one reviewed, or the one accepted as a repair of it.
Accepted == run.retry /\ run.only /\ input = run.at
Unchanged == input = run.rev \/ Accepted

FinishCache ==
  /\ run.step = "working" /\ run.grok = "done" /\ run.claude = "done"
  /\ cache' = [cache EXCEPT ![run.round] = [was |-> run.mem, rec |-> run.rec]]
  /\ journal' = [journal EXCEPT ![run.round].bound = FALSE]
  /\ run' = [run EXCEPT !.step = "cached"]
  /\ UNCHANGED <<outside, slots, fallback, dir, cleanup, helper, prompts, obtained>>

FinishJournal ==
  LET r == run.round IN
  /\ run.step = "cached"
  /\ journal' = [journal EXCEPT ![r] = [@ EXCEPT
       !.status = IF Unchanged /\ Adopted(run.mem) THEN "reviewers-completed"
                  ELSE IF Unchanged THEN "required-reviewer-failed" ELSE "stale-input",
       !.was = run.mem, !.bound = TRUE, !.rec = IF Accepted THEN input ELSE 0]]
  /\ shown' = [shown EXCEPT ![r] = IF Unchanged /\ run.mem.claude # "live" THEN "terminal" ELSE "open"]
  /\ run' = [run EXCEPT !.step = "written"]
  /\ UNCHANGED <<input, gen, life, lock, slots, cache, fallback, dir, cleanup, retired,
                 helper, prompts, obtained>>

ReleaseClaim ==
  /\ run.step = "written" /\ lock' = None /\ run' = Idle
  /\ UNCHANGED <<input, gen, life, journal, slots, cache, fallback, dir, cleanup, retired, shown,
                 helper, prompts, obtained>>

\* advanceAdvisorReceipt: issued first, then taken.
Acknowledged(j) == IF j.receipt THEN [j EXCEPT !.status = "completed"] ELSE [j EXCEPT !.receipt = TRUE]

\* advisor_round_poll of a round that is over. The first poll of a deliverable
\* result issues a receipt, the next one takes the answers; what became stale in
\* between is marked so. The writes of one poll are one step.
Poll(r) ==
  LET seen   == IF shown[r] = "none" THEN Payload(r) ELSE shown[r]
      whole  == Recovered(r, TRUE) /\ Adopted(RecoveredPair(r))
      kept   == [journal[r] EXCEPT !.recovered = IF @ = "no" THEN "no" ELSE "spent"]
      turned == IF whole THEN [kept EXCEPT !.was = Full, !.bound = TRUE, !.status = "reviewers-completed"]
                ELSE kept
  IN /\ life = "up" /\ run.round # r /\ Has(r, Terminal) /\ ~(Free /\ Resumes(r))
     /\ shown' = [shown EXCEPT ![r] = seen]
     /\ IF seen = "terminal" /\ turned.status \in {"reviewers-completed", "required-reviewer-failed"}
        THEN /\ journal' = [journal EXCEPT ![r] =
                  IF InputFor(r, turned.rec) THEN Acknowledged(turned)
                  ELSE [turned EXCEPT !.status = "stale-input"]]
             /\ cache' = IF whole THEN [cache EXCEPT ![r] = [was |-> Full, rec |-> 0]] ELSE cache
        ELSE UNCHANGED <<journal, cache>>
     /\ UNCHANGED <<input, gen, life, lock, slots, fallback, dir, cleanup, retired, run,
                    helper, prompts, obtained>>

-----------------------------------------------------------------------------
Outcomes == {"answered", "failed"}
Waits == {"answer", "quota", "failure"}

Job == InputArrives \/ GenerationStarts \/ GenerationEnds
Retirement == Reap \/ Retire \/ FinaliseJournal \/ FinaliseLock \/ FinaliseReceipt
Starts == \E r \in Rounds :
  \/ \E rev \in 1..MaxInput : Start(r, rev)
  \/ Continue(r) \/ ContinueFails(r)
  \/ \E only \in BOOLEAN : RetryCached(r, only) \/ RetryRecovered(r, only)
Broker ==
  \/ WritesRequest \/ KeepGrok \/ AskGrok \/ (\E out \in Outcomes : GrokEnds(out))
  \/ KeepClaude \/ BeginClaude \/ ClaudeUnavailable \/ PrepareClaude \/ DiscardClaude \/ OpenClaude
  \/ SendStarts \/ SendEnds \/ (\E how \in Waits : WaitEnds(how)) \/ CloseClaude \/ CloseFails
  \/ RecordCleanup \/ RemoveDirectory \/ ClaimFallback \/ RetireFable \/ FinishFallback
  \/ SettleClaude \/ FinishCache \/ FinishJournal \/ ReleaseClaim

Next ==
  \/ Job \/ Retirement \/ Starts \/ Broker \/ HelperRecords \/ HelperTypes
  \/ \E r \in Rounds : Reconcile(r) \/ Poll(r)

\* While it lives the broker goes on: every helper call and wait of it has a
\* deadline. The runner reaps a generation that ended and finishes its rounds at
\* once, or when it starts next. Nothing makes a model poll, retry or end.
Fairness == WF_vars(Broker) /\ WF_vars(Retirement)

Spec == Init /\ [][Next]_vars /\ Fairness

-----------------------------------------------------------------------------
(* What must hold *)

\* Each model is prompted at most once in a round, through every death of the broker
\* or its helper, retry and continuation; and Opus only once the claim of the
\* fallback is durable.
NeverAskedTwice ==
  \A r \in Rounds :
    /\ \A m \in Models : prompts[r][m] <= 1
    /\ prompts[r]["opus"] > 0 => fallback[r] # None

\* An answer once saved is never lost: not by the death of the broker while the
\* other advisor works, nor by a retry of that one. When no work on the round is
\* pending, what is offered to the job has it.
AnswersSurvive ==
  \A r \in Rounds : \A a \in obtained[r] :
    /\ slots[r][a] = "answered"
    /\ (Readable(r) /\ lock = None /\ retired = None) => Offered(r)[a] = "answered"

Safety == TypeOK /\ NeverAskedTwice /\ AnswersSurvive

\* A round once requested ends: with its outcome written by the broker, or by the
\* runner when the generation is gone.
Rests == \A r \in Rounds : ~Has(r, {Requested})
RoundSettles == <>[]Rests
=============================================================================
