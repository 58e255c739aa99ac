------------------------- MODULE AdvisorRoundProofs -------------------------
(***************************************************************************)
(* Proofs about AdvisorRound for every set of rounds and every number of   *)
(* retries, revisions of the input and generations.                        *)
(*                                                                         *)
(* No prompt is typed twice because a prompt leaves a trace that outlives  *)
(* the broker: the receipt in the request directory, then the outcome of   *)
(* the cleanup.  Whatever says that a session was never prompted, in a     *)
(* slot, a journal or the memory of a retry, was written when no trace was *)
(* there, and is withdrawn before the next session begins.  No answer is   *)
(* lost because memory, slots and the journal of a finished round each     *)
(* have all that was ever saved.                                           *)
(***************************************************************************)
EXTENDS AdvisorRound, TLAPS

-----------------------------------------------------------------------------
(* The invariant.                                                          *)

\* The broker's memory.
ClaudeSteps == {"due", "asked", "prepared", "opened", "sending", "waiting", "closing", "closed",
                "recorded", "result", "claimed", "final", "done"}
Memory ==
  [round : Rounds \cup {None}, step : {"none", "claimed", "working", "cached", "written"},
   rev : 1..MaxInput, at : 1..MaxInput, retry : BOOLEAN, auto : BOOLEAN, only : BOOLEAN,
   retries : 0..MaxRetry, rec : 0..MaxInput, mends : BOOLEAN, bound : BOOLEAN, mem : Pair,
   grok : {"due", "asked", "done"}, claude : ClaudeSteps, model : Models, heard : BOOLEAN,
   quota : BOOLEAN, out : ClaudeOutcomes]

\* The memory of a broker is gone with it, and so are the helpers once a generation is
\* reaped; a retired generation's round is finished before another starts.
Lived ==
  /\ run \in Memory
  /\ life # "idle" => gen > 0
  /\ life # "up" => run = Idle /\ \A r \in Rounds : shown[r] = "none"
  /\ life \in {"idle", "reaped"} => helper = None
  /\ run.round = None => run = Idle
  /\ run.round # None => lock = [gen |-> gen, round |-> run.round] /\ run.step # "none"
  /\ retired # None =>
       /\ life = "idle"
       /\ retired.step = "retired" => Has(retired.round, {Requested})
       /\ retired.step # "retired" =>
            Has(retired.round, Terminal) /\ journal[retired.round].recovered = "open"

\* No prompt for Fable was typed, or nothing can be asked of the round any more.
Unprompted(r) == prompts[r]["fable"] = 0 \/ fallback[r] # None

\* The files say that a prompt may have been typed.
Evident(r) == IF cleanup[r] # None THEN cleanup[r].delivered ELSE dir[r] # None /\ dir[r].sent

\* The journal of a finished round is bound to a cache that agrees with it.
Agreed(r) ==
  /\ Has(r, Terminal) /\ cache[r] # None /\ journal[r].bound
  /\ \A a \in {"grok", "claude"} : (cache[r].was[a] = "answered") = (journal[r].was[a] = "answered")

\* A round never requested has no files.
Blank(r) ==
  /\ slots[r] = Empty /\ cache[r] = None /\ fallback[r] = None /\ dir[r] = None
  /\ cleanup[r] = None /\ shown[r] = "none" /\ obtained[r] = {}
  /\ \A m \in Models : prompts[r][m] = 0

\* A prompt leaves a trace, and nothing that says a session was not prompted outlives it.
Traced(r) ==
  /\ \A m \in Models : prompts[r][m] <= 1
  /\ prompts[r]["opus"] > 0 => fallback[r] # None
  /\ Unprompted(r) \/ Evident(r)
  /\ slots[r].claude \in Undelivered => Unprompted(r)
  /\ journal[r] # None /\ journal[r].was.claude \in Undelivered => Unprompted(r)

\* What was answered is in its slot and in the journal of a finished round, and a
\* finished round can be restored.
Kept(r) ==
  /\ \A a \in obtained[r] : slots[r][a] = "answered"
  /\ Has(r, {Requested}) => journal[r].recovered = "no"
  /\ Has(r, Terminal) =>
       /\ \A a \in obtained[r] : journal[r].was[a] = "answered"
       /\ journal[r].recovered = "no" => Agreed(r) /\ cache[r].was = journal[r].was
       /\ journal[r].recovered = "spent" => Agreed(r)
       /\ journal[r].recovered = "open" => retired # None /\ retired.round = r
       /\ journal[r].recovered \in {"open", "sealed"} =>
            journal[r].status \in {"required-reviewer-failed", "stale-input"}
  /\ shown[r] = "terminal" => Agreed(r)

Filed == \A r \in Rounds : (journal[r] = None => Blank(r)) /\ Traced(r) /\ Kept(r)

\* Nothing on the files speaks of the session for model m of round r.
Clear(r) == Has(r, {Requested}) /\ journal[r].was.claude = "none" /\ cleanup[r] = None
Suits(r, m) == fallback[r] = None <=> m = "fable"

\* How far the session of the Claude slot is.
Asking ==
  LET r == run.round  m == run.model IN
  /\ run.claude = "due" => m = "fable" /\ (ClaudeKept \/ (Clear(r) /\ Unprompted(r)))
  /\ run.claude \notin {"due", "done"} =>
       run.mem.claude = "none" /\ slots[r].claude = "none" /\ journal[r].was.claude = "none"
  /\ run.claude \in {"asked", "prepared", "opened", "sending", "waiting", "closing", "closed"} =>
       Clear(r)
  /\ run.claude \notin {"due", "claimed", "final", "done"} => Suits(r, m)
  /\ run.claude \in {"asked", "prepared", "opened"} => prompts[r][m] = 0
  /\ run.claude \in {"prepared", "opened", "sending", "waiting", "closing", "closed", "recorded"} =>
       dir[r] # None
  /\ run.claude = "sending" => helper # None
  /\ run.claude = "recorded" => cleanup[r] = [delivered |-> dir[r].sent]
  /\ run.claude \in {"result", "final"} /\ run.out \in Undelivered => Unprompted(r)
  /\ run.claude = "claimed" => m = "fable" /\ fallback[r] # None /\ prompts[r]["opus"] = 0
  /\ run.claude = "final" => fallback[r] # None

\* What the broker holds of its round, at each step.
InHand ==
  LET r == run.round IN
  /\ \A a \in obtained[r] : run.mem[a] = "answered"
  /\ run.claude \in {"due", "done"} /\ run.mem.claude \in Undelivered => Unprompted(r)
  /\ run.step # "written" => shown[r] = "none"
  /\ run.step = "claimed" =>
       /\ run.grok = "due" /\ run.claude = "due" /\ run.model = "fable"
       /\ IF run.retry THEN Has(r, Terminal) ELSE journal[r] = None /\ run.mem = Empty
  /\ run.step = "working" => Has(r, {Requested}) /\ Asking
  /\ run.grok = "asked" \/ (~run.retry /\ run.grok = "due") => run.mem.grok = "none"
  /\ ~run.retry /\ run.claude = "due" => run.mem.claude = "none"
  /\ run.step \in {"cached", "written"} => run.grok = "done" /\ run.claude = "done"
  /\ run.step = "cached" =>
       Has(r, {Requested}) /\ cache[r] # None /\ cache[r].was = run.mem
  /\ run.step = "written" => Has(r, Terminal)

\* The helper of a session, which may outlive the broker until it is reaped.
Helped ==
  LET r == helper.round  m == helper.model IN
  /\ life = "up" => run.round = r /\ At("sending") /\ run.model = m
  /\ Clear(r) /\ Suits(r, m) /\ slots[r].claude = "none" /\ dir[r] # None
  /\ helper.step # "fresh" => dir[r].sent
  /\ helper.step # "typed" => prompts[r][m] = 0

Inv ==
  /\ TypeOK /\ Lived /\ Filed
  /\ run.round # None => InHand
  /\ helper # None => Helped
-----------------------------------------------------------------------------
(* Types.                                                                  *)

\* The values a field can have.
LEMMA Constants ==
  /\ MaxRetry \in Nat /\ MaxInput \in Nat \ {0} /\ MaxGen \in Nat \ {0}
  /\ 0 \in 0..MaxRetry /\ 1 \in 1..MaxInput /\ 0 \in 0..MaxInput /\ 1..MaxInput \subseteq 0..MaxInput
  /\ None \notin Rounds /\ Empty \in Pair /\ Full \in Pair
  BY AdvisorAssumption, NothingAssumption DEF Empty, Full, Pair, GrokOutcomes, ClaudeOutcomes

\* The memory of a broker at rest.
LEMMA IdleInMemory == Idle \in Memory /\ Idle.round = None /\ Idle.step = "none"
  BY Constants DEF Idle, Memory, ClaudeSteps, Models, ClaudeOutcomes

\* The first state is well typed.
LEMMA InitTyped == Init => TypeOK /\ run \in Memory
  BY Constants, IdleInMemory DEF Init, TypeOK, Models

\* The fields of a broker's memory.
LEMMA MemoryFields ==
  ASSUME NEW m \in Memory
  PROVE  /\ m.round \in Rounds \cup {None}
         /\ m.step \in {"none", "claimed", "working", "cached", "written"}
         /\ m.rev \in 1..MaxInput /\ m.at \in 1..MaxInput /\ m.retry \in BOOLEAN
         /\ m.auto \in BOOLEAN /\ m.only \in BOOLEAN /\ m.retries \in 0..MaxRetry
         /\ m.rec \in 0..MaxInput /\ m.mends \in BOOLEAN /\ m.bound \in BOOLEAN /\ m.mem \in Pair
         /\ m.grok \in {"due", "asked", "done"} /\ m.claude \in ClaudeSteps
         /\ m.model \in Models /\ m.heard \in BOOLEAN /\ m.quota \in BOOLEAN
         /\ m.out \in ClaudeOutcomes
  BY DEF Memory

\* The fields of a journal, and of a pair of outcomes.
LEMMA JournalFields ==
  ASSUME NEW j \in Journals
  PROVE  /\ j.status \in Terminal \cup {Requested} /\ j.rev \in 1..MaxInput /\ j.gen \in 1..MaxGen
         /\ j.was \in Pair /\ j.was.grok \in GrokOutcomes /\ j.was.claude \in ClaudeOutcomes
         /\ j.retries \in 0..MaxRetry /\ j.rec \in 0..MaxInput /\ j.bound \in BOOLEAN
         /\ j.recovered \in {"no", "open", "sealed", "spent"} /\ j.off \in BOOLEAN
         /\ j.receipt \in BOOLEAN /\ j.mends \in BOOLEAN
  BY DEF Journals, Pair

\* A step of the Claude slot, or of Grok, is one of the broker's memory.
LEMMA Steps ==
  ASSUME run \in Memory
  PROVE  /\ \A c \in ClaudeSteps : [run EXCEPT !.claude = c] \in Memory
         /\ \A c \in ClaudeSteps, o \in ClaudeOutcomes :
              [run EXCEPT !.claude = c, !.out = o] \in Memory
         /\ \A c \in ClaudeSteps, h \in BOOLEAN, q \in BOOLEAN :
              [run EXCEPT !.claude = c, !.heard = h, !.quota = q] \in Memory
         /\ \A c \in ClaudeSteps, m \in Models, q \in BOOLEAN :
              [run EXCEPT !.claude = c, !.model = m, !.quota = q] \in Memory
         /\ \A g \in {"due", "asked", "done"} : [run EXCEPT !.grok = g] \in Memory
         /\ \A s \in {"none", "claimed", "working", "cached", "written"} :
              [run EXCEPT !.step = s] \in Memory
  BY ZenonT(60) DEF Memory

\* So is what is known of the two answers, once written to the slots.
LEMMA PersistsTyped ==
  ASSUME TypeOK, NEW r \in Rounds, NEW mem \in Pair, NEW next \in Memory, Persists(r, mem, next)
  PROVE  /\ slots' \in [Rounds -> Pair] /\ run' \in Memory
         /\ obtained' \in [Rounds -> SUBSET {"grok", "claude"}]
<1>1. [next EXCEPT !.mem = mem] \in Memory
  BY DEF Memory
<1> QED BY <1>1 DEF Persists, TypeOK

\* What the slots say is a pair of outcomes, and so is what a retired round ends with.
LEMMA SavedTyped ==
  ASSUME TypeOK, NEW r \in Rounds
  PROVE  /\ \A now \in ClaudeOutcomes : Saved(r, now) \in Pair
         /\ journal[r] # None => RecoveredPair(r) \in Pair /\ Merged(r) \in Pair
         /\ Known(r) \in ClaudeOutcomes
<1>1. slots[r].grok \in GrokOutcomes /\ slots[r].claude \in ClaudeOutcomes
  BY DEF TypeOK, Pair
<1>2. ASSUME NEW now \in ClaudeOutcomes PROVE Saved(r, now) \in Pair
  BY <1>1 DEF Saved, Pair, GrokOutcomes
<1>3. Known(r) \in ClaudeOutcomes
  BY DEF Known, ClaudeOutcomes
<1>4. ASSUME journal[r] # None PROVE RecoveredPair(r) \in Pair /\ Merged(r) \in Pair
  <2>1. journal[r] \in Journals
    BY <1>4 DEF TypeOK
  <2>2. journal[r].was.grok \in GrokOutcomes /\ journal[r].was.claude \in ClaudeOutcomes
    BY <2>1, JournalFields
  <2>3. RecoveredPair(r) \in Pair
    BY <1>2, <2>2 DEF RecoveredPair
  <2>4. PICK s \in Pair : s = Saved(r, Known(r))
    BY <1>2, <1>3
  <2>5. s.grok \in GrokOutcomes /\ s.claude \in ClaudeOutcomes
    BY DEF Pair
  <2>6. Merged(r) \in Pair
    BY <2>2, <2>4, <2>5 DEF Merged, Pair, GrokOutcomes
  <2> QED BY <2>3, <2>6
<1> QED BY <1>2, <1>3, <1>4

\* A round with files is a round, and its journal and claim are of their types.
LEMMA RoundTyped ==
  ASSUME Inv
  PROVE  /\ run.round # None => run.round \in Rounds
         /\ retired # None => retired.round \in Rounds /\ retired.step \in {"retired", "written", "released"}
         /\ helper # None => helper.round \in Rounds /\ helper.model \in Models
                             /\ helper.step \in {"fresh", "recorded", "typed"}
         /\ lock # None => lock.round \in Rounds /\ lock.gen \in 1..MaxGen
         /\ \A r \in Rounds : journal[r] # None => journal[r] \in Journals
         /\ \A r \in Rounds : cache[r] # None => cache[r] \in Caches /\ cache[r].was \in Pair
                                                  /\ cache[r].rec \in 0..MaxInput
         /\ \A r \in Rounds : dir[r] # None =>
              dir[r] \in Folders /\ dir[r].sent \in BOOLEAN /\ dir[r].opened \in BOOLEAN
         /\ \A r \in Rounds : cleanup[r] # None =>
              cleanup[r] \in Cleanups /\ cleanup[r].delivered \in BOOLEAN
         /\ \A r \in Rounds : fallback[r] # None =>
              fallback[r] \in Fallbacks /\ fallback[r].out \in ClaudeOutcomes
<1> USE DEF Inv, TypeOK
<1>1. retired # None => retired.round \in Rounds /\ retired.step \in {"retired", "written", "released"}
  BY DEF Receipts
<1>2. helper # None => helper.round \in Rounds /\ helper.model \in Models
                       /\ helper.step \in {"fresh", "recorded", "typed"}
  BY DEF Helpers
<1>3. lock # None => lock.round \in Rounds /\ lock.gen \in 1..MaxGen
  BY DEF Claimed
<1>4. \A r \in Rounds : cache[r] # None => cache[r] \in Caches /\ cache[r].was \in Pair
                                            /\ cache[r].rec \in 0..MaxInput
  BY DEF Caches
<1>5. \A r \in Rounds : dir[r] # None =>
        dir[r] \in Folders /\ dir[r].sent \in BOOLEAN /\ dir[r].opened \in BOOLEAN
  BY DEF Folders
<1>6. \A r \in Rounds : cleanup[r] # None =>
        cleanup[r] \in Cleanups /\ cleanup[r].delivered \in BOOLEAN
  BY DEF Cleanups
<1>7. \A r \in Rounds : fallback[r] # None =>
        fallback[r] \in Fallbacks /\ fallback[r].out \in ClaudeOutcomes
  BY DEF Fallbacks
<1> QED BY <1>1, <1>2, <1>3, <1>4, <1>5, <1>6, <1>7

\* A broker at work has the claim of its round.
LEMMA AtWork ==
  ASSUME Inv, run.step # "none"
  PROVE  /\ run.round \in Rounds /\ run.round # None /\ life = "up" /\ retired = None
         /\ lock = [gen |-> gen, round |-> run.round] /\ InHand
<1>1. run # Idle
  BY IdleInMemory
<1> QED BY <1>1, RoundTyped DEF Inv, Lived

\* A retry goes on with a journal's revision.
LEMMA AgainTyped ==
  ASSUME Inv, NEW r \in Rounds, journal[r] # None
  PROVE  /\ \A tries \in 0..MaxRetry : Again(r, tries) \in Memory
         /\ journal[r].retries < MaxRetry => NextTry(r) \in 0..MaxRetry
<1>1. journal[r] \in Journals
  BY RoundTyped
<1>2. journal[r].retries \in 0..MaxRetry /\ journal[r].rev \in 1..MaxInput
  BY <1>1, JournalFields
<1>3. journal[r].retries < MaxRetry => NextTry(r) \in 0..MaxRetry
  BY <1>2, Constants DEF NextTry
<1>4. ASSUME NEW tries \in 0..MaxRetry PROVE Again(r, tries) \in Memory
  BY <1>2, IdleInMemory DEF Again, Memory
<1> QED BY <1>3, <1>4

\* The claim of a round is well typed if its memory is.
LEMMA ClaimsTyped ==
  ASSUME Inv, NEW r \in Rounds, NEW with \in Memory, Free, Claims(r, with)
  PROVE  TypeOK' /\ run' \in Memory
<1>1. gen \in 1..MaxGen /\ input \in 1..MaxInput
  BY Constants DEF Inv, TypeOK, Lived, Free
<1>2. [with EXCEPT !.round = r, !.step = "claimed", !.at = input] \in Memory
  BY <1>1 DEF Memory
<1>3. lock' \in Claimed
  BY <1>1 DEF Claims, Claimed
<1> QED BY <1>2, <1>3, MemoryFields DEF Claims, Inv, TypeOK

\* The job around the broker and the retirement of a generation keep the types.
LEMMA TypesAround ==
  ASSUME Inv, Job \/ Reap \/ Retire \/ FinaliseLock \/ FinaliseReceipt
              \/ \E r \in Rounds : Reconcile(r) \/ ContinueFails(r)
  PROVE  TypeOK' /\ run' \in Memory
<1> USE DEF Inv, TypeOK, files
<1>0. run \in Memory
  BY DEF Lived
<1>1. CASE Job
  BY <1>1, <1>0, Constants, IdleInMemory DEF Job, InputArrives, GenerationStarts, GenerationEnds
<1>2. CASE Reap \/ FinaliseLock
  <2>1. ASSUME FinaliseLock PROVE retired' \in Receipts
    BY <2>1 DEF FinaliseLock, Receipts
  <2> QED BY <1>2, <1>0, <2>1 DEF Reap, FinaliseLock
<1>3. CASE Retire
  <2>1. retired' \in Receipts \cup {None}
    BY <1>3, RoundTyped, Constants DEF Retire, Receipts, Lived
  <2> QED BY <1>3, <2>1, <1>0 DEF Retire
<1>4. CASE FinaliseReceipt
  <2>1. retired.round \in Rounds /\ journal[retired.round] \in Journals
    BY <1>4, RoundTyped DEF FinaliseReceipt, Lived, Has
  <2>2. [journal[retired.round] EXCEPT !.recovered = "sealed"] \in Journals
    BY <2>1 DEF Journals
  <2> QED BY <1>4, <1>0, <2>1, <2>2 DEF FinaliseReceipt
<1>5. ASSUME NEW r \in Rounds, Reconcile(r) PROVE TypeOK' /\ run' \in Memory
  <2>1. [delivered |-> dir[r].sent] \in Cleanups
    BY <1>5, RoundTyped DEF Reconcile, Cleanups
  <2> QED BY <1>5, <1>0, <2>1 DEF Reconcile
<1>6. ASSUME NEW r \in Rounds, ContinueFails(r) PROVE TypeOK' /\ run' \in Memory
  <2>1. journal[r] \in Journals
    BY <1>6, RoundTyped DEF ContinueFails, Resumes, Recovered, Has
  <2>2. [journal[r] EXCEPT !.off = TRUE] \in Journals
    BY <2>1 DEF Journals
  <2> QED BY <1>6, <1>0, <2>1, <2>2 DEF ContinueFails
<1> QED BY <1>1, <1>2, <1>3, <1>4, <1>5, <1>6

\* The memory a round starts with, by whichever way.
Starting(r, with) ==
  /\ Free /\ Claims(r, with)
  /\ with.grok = "due" /\ with.claude = "due" /\ with.model = "fable"
  /\ \/ ~with.retry /\ journal[r] = None /\ with.mem = Empty
     \/ with.retry /\ Recovered(r, TRUE) /\ with.mem = RecoveredPair(r)
     \/ with.retry /\ Restored(r) /\ journal[r].recovered = "no" /\ with.mem = cache[r].was

\* A claim is made with a memory of one of three kinds.
LEMMA StartFrame ==
  ASSUME Inv, Starts
  PROVE  (\E r \in Rounds : ContinueFails(r)) \/ (\E r \in Rounds, with \in Memory : Starting(r, with))
<1>0. input \in 1..MaxInput /\ input \in 0..MaxInput
  BY Constants DEF Inv, TypeOK
<1>1. ASSUME NEW r \in Rounds, NEW rev \in 1..MaxInput, Start(r, rev)
      PROVE  \E with \in Memory : Starting(r, with)
  <2> DEFINE with == [Idle EXCEPT !.rev = rev]
  <2>1. with \in Memory
    BY IdleInMemory DEF Memory
  <2>2. with.grok = "due" /\ with.claude = "due" /\ with.model = "fable" /\ ~with.retry
        /\ with.mem = Empty
    BY DEF Idle
  <2>3. Free /\ Claims(r, with) /\ journal[r] = None
    BY <1>1 DEF Start
  <2> HIDE DEF with
  <2> QED BY <2>1, <2>2, <2>3 DEF Starting
<1>2. ASSUME NEW r \in Rounds, Continue(r)
      PROVE  \E with \in Memory : Starting(r, with)
  <2>1. journal[r] # None /\ journal[r].retries < MaxRetry
    BY <1>2, RoundTyped, JournalFields, Constants DEF Continue, Resumes, Recovered, Has
  <2>2. Again(r, NextTry(r)) \in Memory /\ RecoveredPair(r) \in Pair
    BY <2>1, AgainTyped, SavedTyped DEF Inv
  <2> DEFINE with == [Again(r, NextTry(r)) EXCEPT !.auto = TRUE, !.mends = TRUE,
                                                   !.mem = RecoveredPair(r)]
  <2>3. with \in Memory
    BY <2>2 DEF Memory
  <2>4. with.grok = "due" /\ with.claude = "due" /\ with.model = "fable" /\ with.retry
        /\ with.mem = RecoveredPair(r)
    BY DEF Again, Idle
  <2>5. Free /\ Claims(r, with) /\ Recovered(r, TRUE)
    BY <1>2 DEF Continue, Resumes
  <2> HIDE DEF with
  <2> QED BY <2>3, <2>4, <2>5 DEF Starting
<1>3. ASSUME NEW r \in Rounds, NEW only \in BOOLEAN, RetryCached(r, only)
      PROVE  \E with \in Memory : Starting(r, with)
  <2> DEFINE newer == only /\ input > journal[r].rev /\ input > cache[r].rec
             reset == newer /\ ~journal[r].mends
             tries == IF reset THEN 0 ELSE NextTry(r)
             rec == IF newer THEN input ELSE cache[r].rec
             with == [Again(r, tries) EXCEPT !.only = only, !.bound = TRUE, !.mem = cache[r].was,
                        !.mends = journal[r].mends, !.rec = rec]
  <2>1. journal[r] \in Journals /\ cache[r].was \in Pair /\ cache[r].rec \in 0..MaxInput
    BY <1>3, RoundTyped DEF RetryCached, Restored, Readable, Has
  <2>2. journal[r].retries < (IF r = Second THEN 0 ELSE MaxRetry) \/ reset
    BY <1>3 DEF RetryCached
  <2>3. tries \in 0..MaxRetry
    <3>1. CASE reset
      BY <3>1, Constants
    <3>2. CASE ~reset
      BY <2>1, <2>2, <3>2, JournalFields, Constants DEF NextTry
    <3> QED BY <3>1, <3>2
  <2>4. with \in Memory
    <3>1. journal[r].mends \in BOOLEAN /\ rec \in 0..MaxInput
      BY <1>0, <2>1, JournalFields
    <3>2. Again(r, tries) \in Memory
      <4> HIDE DEF tries
      <4> QED BY <2>1, <2>3, AgainTyped, NothingAssumption
    <3> HIDE DEF rec, tries
    <3> QED BY <2>1, <3>1, <3>2 DEF Memory
  <2>5. Free /\ Claims(r, with) /\ Restored(r) /\ journal[r].recovered = "no"
    BY <1>3 DEF RetryCached
  <2>6. with.grok = "due" /\ with.claude = "due" /\ with.model = "fable" /\ with.retry
        /\ with.mem = cache[r].was
    BY DEF Again, Idle
  <2> HIDE DEF with
  <2> QED BY <2>4, <2>5, <2>6 DEF Starting
<1>4. ASSUME NEW r \in Rounds, NEW only \in BOOLEAN, RetryRecovered(r, only)
      PROVE  \E with \in Memory : Starting(r, with)
  <2> DEFINE rec == IF only /\ input > journal[r].rev /\ input > journal[r].rec
                    THEN input ELSE journal[r].rec
             with == [Again(r, NextTry(r)) EXCEPT !.only = only, !.mem = RecoveredPair(r), !.mends = TRUE,
                                      !.rec = rec]
  <2>0. journal[r] \in Journals /\ journal[r].retries < (IF r = Second THEN 0 ELSE MaxRetry)
    BY <1>4, RoundTyped DEF RetryRecovered, Recovered, Has
  <2>1. journal[r].retries < MaxRetry
    BY <2>0, JournalFields, Constants
  <2>2. Again(r, NextTry(r)) \in Memory /\ RecoveredPair(r) \in Pair
    BY <2>0, <2>1, AgainTyped, SavedTyped, NothingAssumption DEF Inv
  <2>3. rec \in 0..MaxInput
    BY <1>0, <2>0, JournalFields
  <2>4. with \in Memory
    <3> HIDE DEF rec
    <3> QED BY <2>2, <2>3 DEF Memory
  <2>5. Free /\ Claims(r, with) /\ Recovered(r, TRUE)
    BY <1>4 DEF RetryRecovered, Recovered, Has
  <2>6. with.grok = "due" /\ with.claude = "due" /\ with.model = "fable" /\ with.retry
        /\ with.mem = RecoveredPair(r)
    BY DEF Again, Idle
  <2> HIDE DEF with
  <2> QED BY <2>4, <2>5, <2>6 DEF Starting
<1> QED BY <1>1, <1>2, <1>3, <1>4 DEF Starts

\* The broker's writes of its round's journal are journals.
LEMMA JournalAtWork ==
  ASSUME Inv, WritesRequest \/ FinishCache \/ FinishJournal
  PROVE  /\ run.round \in Rounds /\ journal'[run.round] \in Journals
         /\ journal' = [journal EXCEPT ![run.round] = journal'[run.round]]
         /\ journal'[run.round] # None
<1> USE DEF Inv, TypeOK, outside
<1>0. run \in Memory
  BY DEF Lived
<1>a. run.step # "none"
  BY DEF WritesRequest, FinishCache, FinishJournal
<1>b. run.round \in Rounds /\ run.round # None /\ life = "up" /\ InHand
  BY <1>a, AtWork
<1>c. run.mem \in Pair
  BY <1>0, MemoryFields
<1>d. "none" \in ClaudeOutcomes
  BY DEF ClaudeOutcomes
<1>1. CASE WritesRequest
  <2> DEFINE r == run.round
             next == [status |-> Requested, rev |-> run.rev, gen |-> gen,
                      was |-> IF run.retry
                              THEN [journal[r].was EXCEPT !.claude =
                                      IF run.mem.claude \in Undelivered THEN "none" ELSE @]
                              ELSE Empty,
                      retries |-> run.retries, rec |-> run.rec, bound |-> run.bound,
                      recovered |-> "no", off |-> FALSE, receipt |-> FALSE, mends |-> run.mends]
  <2>1. gen \in 1..MaxGen
    BY <1>b, Constants DEF Lived
  <2>2. next.was \in Pair
    <3>1. CASE run.retry
      <4>1. journal[r] \in Journals
        BY <1>1, <1>b, <3>1, RoundTyped DEF WritesRequest, InHand, Has
      <4>2. journal[r].was \in Pair /\ journal[r].was.claude \in ClaudeOutcomes
        BY <4>1, JournalFields
      <4> QED BY <3>1, <4>2, <1>d DEF Pair
    <3>2. CASE ~run.retry
      BY <3>2, Constants
    <3> QED BY <3>1, <3>2
  <2>3. next \in Journals
    <3>1. run.rev \in 1..MaxInput /\ run.retries \in 0..MaxRetry /\ run.rec \in 0..MaxInput
          /\ run.bound \in BOOLEAN /\ run.mends \in BOOLEAN
      BY <1>0, MemoryFields
    <3> DEFINE was == next.was
    <3>2. next = [status |-> Requested, rev |-> run.rev, gen |-> gen, was |-> was,
                  retries |-> run.retries, rec |-> run.rec, bound |-> run.bound,
                  recovered |-> "no", off |-> FALSE, receipt |-> FALSE, mends |-> run.mends]
      OBVIOUS
    <3>3. was \in Pair
      BY <2>2
    <3> HIDE DEF was, next
    <3> QED BY <2>1, <3>1, <3>2, <3>3 DEF Journals
  <2>4. journal' = [journal EXCEPT ![r] = next]
    BY <1>1 DEF WritesRequest
  <2> HIDE DEF next
  <2> QED BY <1>b, <2>3, <2>4, NothingAssumption
<1>2. CASE FinishCache
  <2>1. journal[run.round] \in Journals
    BY <1>2, <1>b, RoundTyped DEF FinishCache, InHand, Asking, Has
  <2>2. [journal[run.round] EXCEPT !.bound = FALSE] \in Journals
    BY <2>1 DEF Journals
  <2>3. journal' = [journal EXCEPT ![run.round] = [journal[run.round] EXCEPT !.bound = FALSE]]
    BY <1>2 DEF FinishCache
  <2> QED BY <1>b, <2>2, <2>3, NothingAssumption
<1>3. CASE FinishJournal
  <2> DEFINE r == run.round
             st == IF Unchanged /\ Adopted(run.mem) THEN "reviewers-completed"
                   ELSE IF Unchanged THEN "required-reviewer-failed" ELSE "stale-input"
             rec == IF Accepted THEN input ELSE 0
             next == [journal[r] EXCEPT !.status = st, !.was = run.mem, !.bound = TRUE, !.rec = rec]
  <2>1. journal[r] \in Journals
    BY <1>3, <1>b, RoundTyped DEF FinishJournal, InHand, Has
  <2>2. st \in Terminal /\ rec \in 0..MaxInput
    BY Constants DEF Terminal
  <2>3. next \in Journals
    <3> HIDE DEF st, rec, r
    <3> QED BY <2>1, <2>2, <1>c DEF Journals
  <2>4. journal' = [journal EXCEPT ![r] = next]
    BY <1>3 DEF FinishJournal
  <2> HIDE DEF next
  <2> QED BY <1>b, <2>3, <2>4, NothingAssumption
<1> QED BY <1>1, <1>2, <1>3

\* The actions of the broker keep the types.
LEMMA TypesAtWork ==
  ASSUME Inv, Broker PROVE TypeOK' /\ run' \in Memory
<1> USE DEF Inv, TypeOK, files, outside
<1>0. run \in Memory
  BY DEF Lived
<1>a. run.step # "none"
  BY DEF Broker, WritesRequest, KeepGrok, AskGrok, GrokEnds, KeepClaude, BeginClaude,
     ClaudeUnavailable, PrepareClaude, DiscardClaude, OpenClaude, SendStarts, SendEnds, WaitEnds,
     CloseClaude, CloseFails, RecordCleanup, RemoveDirectory, ClaimFallback, RetireFable,
     FinishFallback, SettleClaude, FinishCache, FinishJournal, ReleaseClaim, At
<1>b. run.round \in Rounds /\ run.round # None /\ life = "up" /\ InHand
  BY <1>a, AtWork
<1>c. run.mem \in Pair /\ run.model \in Models /\ run.out \in ClaudeOutcomes
  BY <1>0, MemoryFields
<1>d. ASSUME NEW g \in GrokOutcomes PROVE [run.mem EXCEPT !.grok = g] \in Pair
  BY <1>c DEF Pair
<1>e. ASSUME NEW c \in ClaudeOutcomes PROVE [run.mem EXCEPT !.claude = c] \in Pair
  BY <1>c DEF Pair
<1>f. "none" \in GrokOutcomes /\ "answered" \in GrokOutcomes /\ "failed" \in GrokOutcomes
      /\ "none" \in ClaudeOutcomes /\ "live" \in ClaudeOutcomes /\ "residual" \in ClaudeOutcomes
      /\ "unsent" \in ClaudeOutcomes /\ "answered" \in ClaudeOutcomes
      /\ "delivered" \in ClaudeOutcomes
  BY DEF GrokOutcomes, ClaudeOutcomes
<1>g. \A c \in ClaudeSteps : [run EXCEPT !.claude = c] \in Memory
  BY <1>0, Steps
<1>1. CASE WritesRequest
  <2>1. run' \in Memory
    BY <1>1, <1>0, Steps DEF WritesRequest
  <2>2. cleanup' \in [Rounds -> Cleanups \cup {None}]
    BY <1>1 DEF WritesRequest
  <2>3. journal' \in [Rounds -> Journals \cup {None}]
    BY <1>1, JournalAtWork
  <2>4. UNCHANGED <<input, gen, life, lock, slots, cache, fallback, dir, retired, shown,
                    helper, prompts, obtained>>
    BY <1>1 DEF WritesRequest
  <2> QED BY <2>1, <2>2, <2>3, <2>4, MemoryFields
<1>2. ASSUME NEW mem \in Pair, NEW next \in Memory, Persists(run.round, mem, next),
             UNCHANGED <<outside, journal, cache, fallback, dir, cleanup, helper, prompts>>
      PROVE  TypeOK' /\ run' \in Memory
  <2>1. slots' \in [Rounds -> Pair] /\ run' \in Memory
        /\ obtained' \in [Rounds -> SUBSET {"grok", "claude"}]
    BY <1>2, <1>b, PersistsTyped
  <2> QED BY <1>2, <2>1, MemoryFields
<1>3. CASE KeepGrok \/ AskGrok \/ \E out \in Outcomes : GrokEnds(out)
  <2>1. \A g \in {"due", "asked", "done"} : [run EXCEPT !.grok = g] \in Memory
    BY <1>0, Steps
  <2>2. CASE KeepGrok
    BY <2>1, <2>2, <1>2, <1>c DEF KeepGrok
  <2>3. CASE AskGrok
    BY <2>1, <2>3, <1>2, <1>d, <1>f DEF AskGrok
  <2>4. ASSUME NEW out \in Outcomes, GrokEnds(out) PROVE TypeOK' /\ run' \in Memory
    BY <2>1, <2>4, <1>2, <1>d, <1>f DEF GrokEnds
  <2> QED BY <1>3, <2>2, <2>3, <2>4
<1>4. CASE KeepClaude
  BY <1>4, <1>2, <1>c, <1>g DEF KeepClaude, ClaudeSteps
<1>5. CASE BeginClaude
  <2> DEFINE saved == fallback[run.round]
             next  == IF saved = None THEN [run EXCEPT !.claude = "asked"]
                      ELSE [run EXCEPT !.claude = "final", !.out = IF saved.done THEN saved.out ELSE "live"]
  <2>1. saved # None => saved.out \in ClaudeOutcomes
    BY <1>b, RoundTyped
  <2>2. \A c \in ClaudeSteps, o \in ClaudeOutcomes : [run EXCEPT !.claude = c, !.out = o] \in Memory
    BY <1>0, Steps
  <2>3. (IF saved.done THEN saved.out ELSE "live") \in ClaudeOutcomes \/ saved = None
    BY <2>1, <1>f
  <2>4. next \in Memory
    BY <2>2, <2>3, <1>g DEF ClaudeSteps
  <2>5. Persists(run.round, [run.mem EXCEPT !.claude = "none"], next)
    BY <1>5 DEF BeginClaude
  <2> QED BY <1>5, <2>4, <2>5, <1>2, <1>e, <1>f DEF BeginClaude
<1>6. CASE SettleClaude
  BY <1>6, <1>2, <1>c, <1>e, <1>g DEF SettleClaude, ClaudeSteps
<1>7. CASE PrepareClaude \/ DiscardClaude \/ OpenClaude
  <2>1. run' \in Memory
    <3>1. \A c \in ClaudeSteps, h \in BOOLEAN, q \in BOOLEAN :
            [run EXCEPT !.claude = c, !.heard = h, !.quota = q] \in Memory
      BY <1>0, Steps
    <3>2. \A c \in ClaudeSteps, o \in ClaudeOutcomes : [run EXCEPT !.claude = c, !.out = o] \in Memory
      BY <1>0, Steps
    <3>3. CASE PrepareClaude
      BY <3>1, <3>3 DEF PrepareClaude, ClaudeSteps
    <3>4. CASE DiscardClaude
      BY <3>2, <3>4, <1>f DEF DiscardClaude, Result, ClaudeSteps
    <3>5. CASE OpenClaude
      BY <3>5, <1>g DEF OpenClaude, ClaudeSteps
    <3> QED BY <1>7, <3>3, <3>4, <3>5
  <2>2. dir' \in [Rounds -> Folders \cup {None}]
    <3>1. CASE PrepareClaude \/ DiscardClaude
      <4>1. [opened |-> FALSE, sent |-> FALSE] \in Folders
        BY DEF Folders
      <4> QED BY <3>1, <4>1 DEF PrepareClaude, DiscardClaude
    <3>2. CASE OpenClaude
      <4>1. dir[run.round] \in Folders
        BY <3>2, <1>b, RoundTyped DEF OpenClaude, At, InHand, Asking
      <4>2. [dir[run.round] EXCEPT !.opened = TRUE] \in Folders
        BY <4>1 DEF Folders
      <4> QED BY <3>2, <4>2, <1>b DEF OpenClaude
    <3> QED BY <1>7, <3>1, <3>2
  <2>3. UNCHANGED <<outside, journal, slots, cache, fallback, cleanup, helper, prompts, obtained>>
    BY <1>7 DEF PrepareClaude, DiscardClaude, OpenClaude
  <2> QED BY <2>1, <2>2, <2>3, MemoryFields
<1>8. CASE SendStarts \/ SendEnds
  <2>1. run' \in Memory
    BY <1>8, <1>g DEF SendStarts, SendEnds, ClaudeSteps
  <2>2. helper' \in Helpers \cup {None}
    BY <1>8, <1>b, <1>c DEF SendStarts, SendEnds, Helpers
  <2>3. UNCHANGED <<outside, journal, slots, cache, fallback, dir, cleanup, prompts, obtained>>
    BY <1>8 DEF SendStarts, SendEnds
  <2> QED BY <2>1, <2>2, <2>3, MemoryFields
<1>9. CASE ClaudeUnavailable \/ (\E how \in Waits : WaitEnds(how)) \/ CloseClaude \/ CloseFails
  <2>1. run' \in Memory
    <3>1. \A c \in ClaudeSteps, o \in ClaudeOutcomes : [run EXCEPT !.claude = c, !.out = o] \in Memory
      BY <1>0, Steps
    <3>2. \A c \in ClaudeSteps, h \in BOOLEAN, q \in BOOLEAN :
            [run EXCEPT !.claude = c, !.heard = h, !.quota = q] \in Memory
      BY <1>0, Steps
    <3>3. CASE \E how \in Waits : WaitEnds(how)
      BY <3>3, <3>2 DEF WaitEnds, ClaudeSteps
    <3>4. CASE ClaudeUnavailable
      BY <3>4, <3>1, <1>f DEF ClaudeUnavailable, Result, ClaudeSteps
    <3>5. CASE CloseClaude
      BY <3>5, <1>g DEF CloseClaude, ClaudeSteps
    <3>6. CASE CloseFails
      <4>1. PICK out \in {"residual", "live"} : Result(out)
        BY <3>6 DEF CloseFails
      <4> QED BY <4>1, <3>1, <1>f DEF Result, ClaudeSteps
    <3> QED BY <1>9, <3>3, <3>4, <3>5, <3>6
  <2>2. UNCHANGED <<outside, journal, slots, cache, fallback, dir, cleanup, helper, prompts, obtained>>
    BY <1>9 DEF ClaudeUnavailable, WaitEnds, CloseClaude, CloseFails
  <2> QED BY <2>1, <2>2, MemoryFields
<1>10. CASE RecordCleanup \/ RemoveDirectory \/ RetireFable
  <2>1. run' \in Memory
    <3>1. \A c \in ClaudeSteps, o \in ClaudeOutcomes : [run EXCEPT !.claude = c, !.out = o] \in Memory
      BY <1>0, Steps
    <3>2. \A c \in ClaudeSteps, m \in Models, q \in BOOLEAN :
            [run EXCEPT !.claude = c, !.model = m, !.quota = q] \in Memory
      BY <1>0, Steps
    <3>3. CASE RecordCleanup
      BY <3>3, <1>g DEF RecordCleanup, ClaudeSteps
    <3>4. CASE RemoveDirectory
      BY <3>1, <3>4, <1>f DEF RemoveDirectory, Result, ClaudeSteps
    <3>5. CASE RetireFable
      BY <3>2, <3>5 DEF RetireFable, ClaudeSteps, Models
    <3> QED BY <1>10, <3>3, <3>4, <3>5
  <2>2. cleanup' \in [Rounds -> Cleanups \cup {None}]
    <3>1. CASE RecordCleanup
      <4>1. dir[run.round].sent \in BOOLEAN
        BY <3>1, <1>b, RoundTyped DEF RecordCleanup, At, InHand, Asking
      <4>2. [delivered |-> dir[run.round].sent] \in Cleanups
        BY <4>1 DEF Cleanups
      <4> QED BY <3>1, <4>2 DEF RecordCleanup
    <3>2. CASE RemoveDirectory \/ RetireFable
      BY <3>2 DEF RemoveDirectory, RetireFable
    <3> QED BY <1>10, <3>1, <3>2
  <2>3. dir' \in [Rounds -> Folders \cup {None}]
    BY <1>10, <1>b DEF RecordCleanup, RemoveDirectory, RetireFable
  <2>4. UNCHANGED <<outside, journal, slots, cache, fallback, helper, prompts, obtained>>
    BY <1>10 DEF RecordCleanup, RemoveDirectory, RetireFable
  <2> QED BY <2>1, <2>2, <2>3, <2>4, MemoryFields
<1>11. CASE ClaimFallback \/ FinishFallback
  <2>1. run' \in Memory
    BY <1>11, <1>g DEF ClaimFallback, FinishFallback, ClaudeSteps
  <2>2. fallback' \in [Rounds -> Fallbacks \cup {None}]
    <3>1. [done |-> FALSE, out |-> "none"] \in Fallbacks /\ [done |-> TRUE, out |-> run.out] \in Fallbacks
      BY <1>c, <1>f DEF Fallbacks
    <3> QED BY <1>11, <3>1 DEF ClaimFallback, FinishFallback
  <2>3. UNCHANGED <<outside, journal, slots, cache, dir, cleanup, helper, prompts, obtained>>
    BY <1>11 DEF ClaimFallback, FinishFallback
  <2> QED BY <2>1, <2>2, <2>3, MemoryFields
<1>12. CASE FinishCache
  <2>1. run' \in Memory
    BY <1>12, <1>0, Steps DEF FinishCache
  <2>2. cache' \in [Rounds -> Caches \cup {None}]
    <3>1. [was |-> run.mem, rec |-> run.rec] \in Caches
      BY <1>0, <1>c, MemoryFields DEF Caches
    <3> QED BY <1>12, <3>1 DEF FinishCache
  <2>3. journal' \in [Rounds -> Journals \cup {None}]
    BY <1>12, JournalAtWork
  <2>4. UNCHANGED <<outside, slots, fallback, dir, cleanup, helper, prompts, obtained>>
    BY <1>12 DEF FinishCache
  <2> QED BY <2>1, <2>2, <2>3, <2>4, MemoryFields
<1>13. CASE FinishJournal
  <2>1. run' \in Memory
    BY <1>13, <1>0, Steps DEF FinishJournal
  <2>2. journal' \in [Rounds -> Journals \cup {None}]
    BY <1>13, JournalAtWork
  <2>3. shown' \in [Rounds -> {"none", "open", "terminal"}]
    BY <1>13 DEF FinishJournal
  <2>4. UNCHANGED <<input, gen, life, lock, slots, cache, fallback, dir, cleanup, retired,
                    helper, prompts, obtained>>
    BY <1>13 DEF FinishJournal
  <2> QED BY <2>1, <2>2, <2>3, <2>4, MemoryFields
<1>14. CASE ReleaseClaim
  BY <1>14, IdleInMemory DEF ReleaseClaim
<1> QED BY <1>1, <1>3, <1>4, <1>5, <1>6, <1>7, <1>8, <1>9, <1>10, <1>11, <1>12, <1>13, <1>14 DEF Broker

\* So do the helper's steps, the end of a retired round and a poll.
LEMMA TypesBeside ==
  ASSUME Inv, FinaliseJournal \/ HelperRecords \/ HelperTypes \/ \E r \in Rounds : Poll(r)
  PROVE  TypeOK' /\ run' \in Memory
<1> USE DEF Inv, TypeOK, outside
<1>0. run \in Memory
  BY DEF Lived
<1>1. CASE FinaliseJournal
  <2> DEFINE r == retired.round
             st == IF input = journal[r].rev THEN "required-reviewer-failed" ELSE "stale-input"
             next == [journal[r] EXCEPT !.status = st, !.was = Merged(r), !.recovered = "open",
                                        !.off = FALSE]
  <2>1. r \in Rounds /\ journal[r] \in Journals /\ journal[r] # None
    BY <1>1, RoundTyped DEF FinaliseJournal, Lived, Has
  <2>2. Merged(r) \in Pair
    BY <2>1, SavedTyped
  <2>3. next \in Journals
    <3>1. st \in Terminal
      BY DEF Terminal
    <3> HIDE DEF st, r
    <3> QED BY <2>1, <2>2, <3>1 DEF Journals
  <2>4. journal' = [journal EXCEPT ![r] = next]
    BY <1>1 DEF FinaliseJournal
  <2>5. retired' \in Receipts
    BY <1>1 DEF FinaliseJournal, Receipts
  <2>6. UNCHANGED <<input, gen, life, lock, slots, cache, fallback, dir, cleanup, run, shown,
                    helper, prompts, obtained>>
    BY <1>1 DEF FinaliseJournal
  <2> HIDE DEF next, r
  <2> QED BY <1>0, <2>3, <2>4, <2>5, <2>6
<1>2. CASE HelperRecords
  <2>1. helper' \in Helpers
    BY <1>2 DEF HelperRecords, Helpers
  <2>2. helper.round \in Rounds /\ dir[helper.round] \in Folders
    BY <1>2, RoundTyped DEF HelperRecords
  <2>3. [dir[helper.round] EXCEPT !.sent = TRUE] \in Folders
    BY <2>2 DEF Folders
  <2>4. dir' \in [Rounds -> Folders \cup {None}]
    BY <1>2, <2>2, <2>3 DEF HelperRecords
  <2> QED BY <1>0, <1>2, <2>1, <2>4 DEF HelperRecords
<1>3. CASE HelperTypes
  <2>1. helper' \in Helpers
    BY <1>3 DEF HelperTypes, Helpers
  <2>2. helper.round \in Rounds /\ helper.model \in Models /\ prompts[helper.round][helper.model] = 0
    BY <1>3, RoundTyped DEF HelperTypes, Helped
  <2>3. prompts' = [prompts EXCEPT ![helper.round] =
                      [prompts[helper.round] EXCEPT ![helper.model] = 1]]
    BY <1>3, <2>2 DEF HelperTypes
  <2>4. prompts' \in [Rounds -> [Models -> 0..2]]
    BY <2>2, <2>3
  <2> QED BY <1>0, <1>3, <2>1, <2>4 DEF HelperTypes
<1>4. ASSUME NEW r \in Rounds, Poll(r) PROVE TypeOK' /\ run' \in Memory
  <2> DEFINE seen   == IF shown[r] = "none" THEN Payload(r) ELSE shown[r]
             whole  == Recovered(r, TRUE) /\ Adopted(RecoveredPair(r))
             kept   == [journal[r] EXCEPT !.recovered = IF @ = "no" THEN "no" ELSE "spent"]
             full   == [kept EXCEPT !.was = Full, !.bound = TRUE, !.status = "reviewers-completed"]
             turned == IF whole THEN full ELSE kept
             next   == IF InputFor(r, turned.rec) THEN Acknowledged(turned)
                       ELSE [turned EXCEPT !.status = "stale-input"]
  <2>1. journal[r] \in Journals
    BY <1>4, RoundTyped DEF Poll, Has
  <2>2. kept \in Journals
    BY <2>1 DEF Journals
  <2>3. full \in Journals
    <3> HIDE DEF kept
    <3> QED BY <2>2, Constants DEF Journals, Terminal
  <2>4. turned \in Journals
    <3> HIDE DEF kept, full
    <3> QED BY <2>2, <2>3
  <2>5. next \in Journals
    <3> HIDE DEF turned
    <3> QED BY <2>4 DEF Acknowledged, Journals, Terminal
  <2>6. journal' = [journal EXCEPT ![r] = next] \/ journal' = journal
    BY <1>4 DEF Poll
  <2>7. journal' \in [Rounds -> Journals \cup {None}]
    <3> HIDE DEF next
    <3> QED BY <2>5, <2>6
  <2>8. cache' \in [Rounds -> Caches \cup {None}]
    <3>1. [was |-> Full, rec |-> 0] \in Caches
      BY Constants DEF Caches
    <3>2. cache' = [cache EXCEPT ![r] = [was |-> Full, rec |-> 0]] \/ cache' = cache
      BY <1>4 DEF Poll
    <3> QED BY <3>1, <3>2
  <2>9. shown' \in [Rounds -> {"none", "open", "terminal"}]
    <3>1. seen \in {"none", "open", "terminal"}
      BY DEF Payload
    <3>2. shown' = [shown EXCEPT ![r] = seen]
      BY <1>4 DEF Poll
    <3> QED BY <3>1, <3>2
  <2>10. UNCHANGED <<input, gen, life, lock, slots, fallback, dir, cleanup, retired, run,
                     helper, prompts, obtained>>
    BY <1>4 DEF Poll
  <2> HIDE DEF seen, whole, kept, full, turned, next
  <2> QED BY <1>0, <2>7, <2>8, <2>9, <2>10
<1> QED BY <1>1, <1>2, <1>3, <1>4

\* No step breaks the types.
LEMMA TypeStep == Inv /\ [Next]_vars => TypeOK' /\ run' \in Memory
<1> SUFFICES ASSUME Inv, [Next]_vars PROVE TypeOK' /\ run' \in Memory
  OBVIOUS
<1>1. CASE UNCHANGED vars
  BY <1>1 DEF vars, files, Inv, TypeOK, Lived
<1>2. CASE Starts
  BY <1>2, StartFrame, TypesAround, ClaimsTyped DEF Starting
<1> QED BY <1>1, <1>2, TypesAround, TypesAtWork, TypesBeside DEF Next, Retirement

-----------------------------------------------------------------------------
(* The life of a generation.                                               *)

\* What the actions of the broker leave alone, and keep of its memory.
LEMMA WorkFrame ==
  ASSUME Inv, Broker
  PROVE  /\ run.step # "none" /\ UNCHANGED <<input, gen, life, retired>>
         /\ ReleaseClaim \/ (lock' = lock /\ run'.round = run.round /\ run'.step # "none")
<1>0. run \in Memory
  BY DEF Inv, Lived
<1> USE DEF Memory, outside
<1>1. CASE WritesRequest \/ FinishCache \/ FinishJournal \/ ReleaseClaim
  BY <1>0, <1>1 DEF WritesRequest, FinishCache, FinishJournal, ReleaseClaim
<1>2. CASE KeepGrok \/ AskGrok \/ KeepClaude \/ SettleClaude
  BY <1>0, <1>2, ZenonT(60) DEF KeepGrok, AskGrok, KeepClaude, SettleClaude, Persists, At
<1>3. CASE BeginClaude
  BY <1>0, <1>3 DEF BeginClaude, Persists, At
<1>4. ASSUME NEW out \in Outcomes, GrokEnds(out)
      PROVE  run.step # "none" /\ UNCHANGED <<input, gen, life, retired, lock>>
             /\ run'.round = run.round /\ run'.step # "none"
  BY <1>0, <1>4 DEF GrokEnds, Persists
<1>5. CASE ClaudeUnavailable \/ PrepareClaude \/ DiscardClaude \/ OpenClaude
  BY <1>0, <1>5 DEF ClaudeUnavailable, PrepareClaude, DiscardClaude, OpenClaude, Result, At
<1>6. CASE SendStarts \/ SendEnds \/ CloseClaude \/ CloseFails
  BY <1>0, <1>6 DEF SendStarts, SendEnds, CloseClaude, CloseFails, Result, At
<1>7. ASSUME NEW how \in Waits, WaitEnds(how)
      PROVE  run.step # "none" /\ UNCHANGED <<input, gen, life, retired, lock>>
             /\ run'.round = run.round /\ run'.step # "none"
  BY <1>0, <1>7 DEF WaitEnds, At
<1>8. CASE RecordCleanup \/ RemoveDirectory \/ ClaimFallback \/ RetireFable \/ FinishFallback
  BY <1>0, <1>8, ZenonT(60)
     DEF RecordCleanup, RemoveDirectory, ClaimFallback, RetireFable, FinishFallback, Result, At
<1> QED BY <1>1, <1>2, <1>3, <1>4, <1>5, <1>6, <1>7, <1>8 DEF Broker

\* What the claim of a round changes.
LEMMA ClaimFrame ==
  ASSUME Inv, NEW r \in Rounds, NEW with \in Memory, Free, Claims(r, with)
  PROVE  /\ life = "up" /\ helper = None /\ retired = None
         /\ run'.round = r /\ run'.step = "claimed" /\ lock' = [gen |-> gen, round |-> r]
         /\ run'.mem = with.mem /\ run'.retry = with.retry /\ run'.auto = with.auto
         /\ run'.grok = with.grok /\ run'.claude = with.claude /\ run'.model = with.model
         /\ shown' = [shown EXCEPT ![r] = "none"]
         /\ UNCHANGED <<input, gen, life, journal, slots, cache, fallback, dir, cleanup, retired,
                        helper, prompts, obtained>>
<1>1. life = "up" /\ run.round = None
  BY DEF Free
<1>2. helper = None
  BY <1>1, RoundTyped, Constants DEF Inv, Helped
<1>3. retired = None
  BY <1>1 DEF Inv, Lived
<1> QED BY <1>1, <1>2, <1>3 DEF Claims, Memory

\* What the lives of the broker, its helper and its generation have to do with each
\* other is kept.
LEMMA LivedStep == Inv /\ [Next]_vars => Lived'
<1> SUFFICES ASSUME Inv, [Next]_vars PROVE Lived'
  OBVIOUS
<1> USE DEF Inv, Lived
<1>0. run' \in Memory /\ TypeOK'
  BY TypeStep
<1>1. CASE UNCHANGED vars
  BY <1>1 DEF vars, files, Has
<1>2. CASE Job
  BY <1>2, <1>0, IdleInMemory, Constants DEF Job, InputArrives, GenerationStarts, GenerationEnds,
     files, Has, TypeOK
<1>3. CASE Reap \/ Retire
  BY <1>3, <1>0 DEF Reap, Retire, files, Has
<1>4. CASE FinaliseJournal
  <2>1. journal[retired.round] # None /\ retired.round \in Rounds /\ journal[retired.round] \in Journals
    BY <1>4, RoundTyped DEF FinaliseJournal, Has
  <2>2. journal'[retired.round].status \in Terminal /\ journal'[retired.round].recovered = "open"
    BY <1>4, <2>1 DEF FinaliseJournal, Terminal, Journals, TypeOK
  <2>3. journal'[retired.round] # None
    <3> DEFINE r == retired.round
               st == IF input = journal[r].rev THEN "required-reviewer-failed" ELSE "stale-input"
               next == [journal[r] EXCEPT !.status = st, !.was = Merged(r), !.recovered = "open",
                                          !.off = FALSE]
    <3>1. journal'[r] = next
      BY <1>4, <2>1 DEF FinaliseJournal, TypeOK
    <3>2. next \in Journals
      <4>1. st \in Terminal /\ Merged(r) \in Pair
        BY <2>1, SavedTyped DEF Terminal
      <4> HIDE DEF st
      <4> QED BY <2>1, <4>1 DEF Journals
    <3> HIDE DEF next
    <3> QED BY <3>1, <3>2, NothingAssumption
  <2>4. retired'.round = retired.round /\ retired'.step = "written" /\ life = "idle"
    BY <1>4 DEF FinaliseJournal, TypeOK, Receipts
  <2> QED BY <1>0, <1>4, <2>2, <2>3, <2>4 DEF FinaliseJournal, Has
<1>5. CASE FinaliseLock \/ FinaliseReceipt
  <2>1. CASE FinaliseLock
    <3>1. retired'.round = retired.round /\ retired'.step = "released" /\ life = "idle"
      BY <2>1 DEF FinaliseLock, TypeOK, Receipts
    <3> QED BY <1>0, <2>1, <3>1, IdleInMemory DEF FinaliseLock, Has
  <2>2. CASE FinaliseReceipt
    BY <1>0, <2>2 DEF FinaliseReceipt
  <2> QED BY <1>5, <2>1, <2>2
<1>6. CASE Starts
  <2>1. ASSUME NEW r \in Rounds, ContinueFails(r) PROVE Lived'
    BY <1>0, <2>1 DEF ContinueFails, Free
  <2>2. ASSUME NEW r \in Rounds, NEW with \in Memory, Starting(r, with) PROVE Lived'
    BY <1>0, <2>2, ClaimFrame, Constants DEF Starting
  <2> QED BY <1>6, <2>1, <2>2, StartFrame
<1>7. CASE Broker
  <2>1. life = "up" /\ retired = None /\ run.round # None
    BY <1>7, WorkFrame, AtWork
  <2>2. CASE ReleaseClaim
    BY <1>0, <2>1, <2>2, IdleInMemory DEF ReleaseClaim
  <2>3. CASE ~ReleaseClaim
    BY <1>0, <1>7, <2>1, <2>3, WorkFrame, AtWork
  <2> QED BY <2>2, <2>3
<1>8. CASE HelperRecords \/ HelperTypes
  BY <1>8, <1>0 DEF HelperRecords, HelperTypes, outside, Has
<1>9. ASSUME NEW r \in Rounds, Reconcile(r) \/ Poll(r) PROVE Lived'
  BY <1>9, <1>0 DEF Reconcile, Poll, Has
<1> QED BY <1>1, <1>2, <1>3, <1>4, <1>5, <1>6, <1>7, <1>8, <1>9 DEF Next, Retirement

\* A helper of a broker that lives is being waited for, and of the broker's steps only
\* those of the other advisor, and the end of the sending, can come.
LEMMA BesideHelper ==
  ASSUME Inv, helper # None
  PROVE  /\ life = "up" => run.round = helper.round /\ run.claude = "sending" /\ run.step = "working"
         /\ Broker => KeepGrok \/ AskGrok \/ (\E out \in Outcomes : GrokEnds(out)) \/ SendEnds
         /\ ~Starts
<1> USE DEF Inv, Helped, At
<1>1. life = "up" => run.round = helper.round /\ run.claude = "sending" /\ run.step = "working"
                     /\ run.round # None
  BY RoundTyped, Constants
<1>2. Broker => life = "up"
  BY WorkFrame, AtWork
<1>3. Broker => KeepGrok \/ AskGrok \/ (\E out \in Outcomes : GrokEnds(out)) \/ SendEnds
  BY <1>1, <1>2 DEF Broker, WritesRequest, KeepClaude, BeginClaude,
     ClaudeUnavailable, PrepareClaude, DiscardClaude, OpenClaude, SendStarts, WaitEnds,
     CloseClaude, CloseFails, RecordCleanup, RemoveDirectory, ClaimFallback, RetireFable,
     FinishFallback, SettleClaude, FinishCache, FinishJournal, ReleaseClaim
<1>4. ~Starts
  BY <1>1 DEF Starts, Start, Continue, ContinueFails, RetryCached, RetryRecovered, Free
<1> QED BY <1>1, <1>3, <1>4

\* The helper's session is kept apart until the helper is gone.
LEMMA HelpedStep == Inv /\ [Next]_vars /\ helper' # None => Helped'
<1> SUFFICES ASSUME Inv, [Next]_vars, helper' # None PROVE Helped'
  OBVIOUS
<1> USE DEF Inv
<1>0. run' \in Memory /\ TypeOK' /\ run \in Memory
  BY TypeStep DEF Lived
<1>a. life \in {"idle", "reaped"} => helper = None
  BY DEF Lived
<1>1. CASE UNCHANGED vars
  BY <1>1 DEF vars, files, Helped, Clear, Suits, Has, At
<1>2. CASE Job
  BY <1>2, <1>a DEF Job, InputArrives, GenerationStarts, GenerationEnds, Helped, Clear, Suits, Has,
     At, files
<1>3. CASE Retirement \/ \E r \in Rounds : Reconcile(r)
  BY <1>3, <1>a DEF Retirement, Reap, Retire, FinaliseJournal, FinaliseLock, FinaliseReceipt,
     Reconcile, Lived
<1>4. CASE Starts
  <2>1. helper = None
    BY <1>4, BesideHelper
  <2>2. ASSUME NEW r \in Rounds, NEW with \in Memory, Starting(r, with) PROVE helper' = None
    BY <2>1, <2>2 DEF Starting, Claims
  <2> QED BY <1>4, <2>1, <2>2, StartFrame DEF ContinueFails
<1>5. CASE Broker /\ helper # None
  <2>1. run.round = helper.round /\ run.claude = "sending" /\ run.step = "working" /\ life = "up"
        /\ helper.round \in Rounds /\ run.round # None
    BY <1>5, BesideHelper, WorkFrame, AtWork, RoundTyped
  <2>2. run.mem.claude = "none"
    BY <2>1 DEF InHand, Asking
  <2>3. CASE KeepGrok \/ AskGrok
    <3>1. run'.round = run.round /\ run'.claude = "sending" /\ run'.step = "working"
          /\ run'.model = run.model
      BY <1>0, <2>1, <2>3, ZenonT(60) DEF KeepGrok, AskGrok, Persists, Memory
    <3>2. slots'[run.round].claude = "none"
      BY <1>0, <2>1, <2>2, <2>3 DEF KeepGrok, AskGrok, Persists, TypeOK, Memory, Pair
    <3>3. UNCHANGED <<outside, journal, cache, fallback, dir, cleanup, helper, prompts>>
      BY <2>3 DEF KeepGrok, AskGrok
    <3> QED BY <1>5, <2>1, <3>1, <3>2, <3>3 DEF Helped, Clear, Suits, Has, At, outside
  <2>4. ASSUME NEW out \in Outcomes, GrokEnds(out) PROVE Helped'
    <3>1. run'.round = run.round /\ run'.claude = "sending" /\ run'.step = "working"
          /\ run'.model = run.model
      BY <1>0, <2>1, <2>4 DEF GrokEnds, Persists, Memory
    <3>2. slots'[run.round].claude = "none"
      BY <1>0, <2>1, <2>2, <2>4 DEF GrokEnds, Persists, TypeOK, Memory, Pair
    <3>3. UNCHANGED <<outside, journal, cache, fallback, dir, cleanup, helper, prompts>>
      BY <2>4 DEF GrokEnds
    <3> QED BY <1>5, <2>1, <3>1, <3>2, <3>3 DEF Helped, Clear, Suits, Has, At, outside
  <2>5. CASE SendEnds
    BY <2>5 DEF SendEnds
  <2> QED BY <1>5, <2>3, <2>4, <2>5, BesideHelper
<1>6. CASE Broker /\ helper = None
  <2>1. SendStarts
    BY <1>6 DEF Broker, WritesRequest, KeepGrok, AskGrok, GrokEnds, KeepClaude, BeginClaude,
       ClaudeUnavailable, PrepareClaude, DiscardClaude, OpenClaude, SendEnds, WaitEnds,
       CloseClaude, CloseFails, RecordCleanup, RemoveDirectory, ClaimFallback, RetireFable,
       FinishFallback, SettleClaude, FinishCache, FinishJournal, ReleaseClaim, outside
  <2>2. life = "up" /\ run.round \in Rounds /\ InHand
    BY <2>1, AtWork DEF SendStarts, At
  <2>3. /\ Clear(run.round) /\ Suits(run.round, run.model) /\ slots[run.round].claude = "none"
        /\ dir[run.round] # None /\ prompts[run.round][run.model] = 0
    BY <2>1, <2>2 DEF SendStarts, At, InHand, Asking
  <2>4. run'.round = run.round /\ run'.claude = "sending" /\ run'.step = "working"
        /\ run'.model = run.model
    BY <1>0, <2>1 DEF SendStarts, At, Memory
  <2> QED BY <2>1, <2>2, <2>3, <2>4 DEF SendStarts, Helped, Clear, Suits, Has, At, outside
<1>7. CASE HelperRecords \/ HelperTypes
  <2>1. helper # None /\ Helped /\ helper.round \in Rounds /\ helper.model \in Models
    BY <1>7, RoundTyped DEF HelperRecords, HelperTypes
  <2>2. CASE HelperRecords
    <3>1. helper'.round = helper.round /\ helper'.model = helper.model /\ helper'.step = "recorded"
          /\ helper.step = "fresh"
      BY <2>1, <2>2 DEF HelperRecords, TypeOK, Helpers
    <3>2. dir[helper.round] \in Folders
      BY <2>1, RoundTyped DEF Helped
    <3>3. dir'[helper.round].sent = TRUE /\ dir'[helper.round] \in Folders
      BY <2>1, <2>2, <3>2 DEF HelperRecords, TypeOK, Folders
    <3>4. dir'[helper.round] # None
      BY <3>3, NothingAssumption
    <3> QED BY <2>1, <2>2, <3>1, <3>3, <3>4 DEF HelperRecords, Helped, Clear, Suits, Has, At, outside
  <2>3. CASE HelperTypes
    <3>1. helper'.round = helper.round /\ helper'.model = helper.model /\ helper'.step = "typed"
          /\ helper.step = "recorded"
      BY <2>1, <2>3 DEF HelperTypes, TypeOK, Helpers
    <3> QED BY <2>1, <2>3, <3>1 DEF HelperTypes, Helped, Clear, Suits, Has, At, outside
  <2> QED BY <1>7, <2>2, <2>3
<1>8. ASSUME NEW r \in Rounds, Poll(r) PROVE Helped'
  <2>1. helper # None /\ life = "up" /\ run.round # r
    BY <1>8 DEF Poll
  <2>2. helper.round # r
    BY <2>1, BesideHelper
  <2>3. journal'[helper.round] = journal[helper.round]
    BY <1>8, <2>2, RoundTyped, <2>1 DEF Poll, TypeOK
  <2>4. Helped /\ UNCHANGED <<input, gen, life, lock, slots, fallback, dir, cleanup, retired, run,
                              helper, prompts, obtained>>
    BY <1>8, <2>1 DEF Poll
  <2> QED BY <2>3, <2>4 DEF Helped, Clear, Suits, Has, At
<1> QED BY <1>1, <1>2, <1>3, <1>4, <1>5, <1>6, <1>7, <1>8 DEF Next

-----------------------------------------------------------------------------
(* The files of a round.                                                   *)

\* What is known of one round, and that nothing of it changes.
File(r) == (journal[r] = None => Blank(r)) /\ Traced(r) /\ Kept(r)
Same(r) ==
  /\ journal'[r] = journal[r] /\ slots'[r] = slots[r] /\ cache'[r] = cache[r]
  /\ fallback'[r] = fallback[r] /\ dir'[r] = dir[r] /\ cleanup'[r] = cleanup[r]
  /\ shown'[r] = shown[r] /\ prompts'[r] = prompts[r] /\ obtained'[r] = obtained[r]

\* A round nothing happens to stays what it was, as long as its retirement is not lost.
LEMMA FileKept ==
  ASSUME Inv, NEW r \in Rounds, Same(r),
         journal[r] # None /\ journal[r].recovered = "open" =>
           (retired # None /\ retired.round = r => retired' # None /\ retired'.round = r)
  PROVE  File(r)'
<1>1. File(r)
  BY DEF Inv, Filed, File
<1>2. UNCHANGED <<journal[r], slots[r], cache[r], fallback[r], dir[r], cleanup[r], shown[r],
                  prompts[r], obtained[r]>>
  BY DEF Same
<1> QED BY <1>1, <1>2 DEF File, Blank, Traced, Kept, Unprompted, Evident, Agreed, Has

\* What is recovered of a retired round, or restored of a finished one, has every answer
\* saved, and says that a session was not prompted only if it was not.
LEMMA Offerable ==
  ASSUME Inv, NEW r \in Rounds
  PROVE  /\ Recovered(r, TRUE) => /\ Has(r, Terminal)
                                  /\ \A a \in obtained[r] : RecoveredPair(r)[a] = "answered"
                                  /\ RecoveredPair(r).claude \in Undelivered => Unprompted(r)
         /\ Restored(r) => Agreed(r) /\ \A a \in obtained[r] : cache[r].was[a] = "answered"
         /\ Restored(r) /\ journal[r].recovered = "no" /\ cache[r].was.claude \in Undelivered
              => Unprompted(r)
<1>0. File(r) /\ obtained[r] \subseteq {"grok", "claude"}
  BY DEF Inv, Filed, File, TypeOK
<1>1. ASSUME NEW now \in ClaudeOutcomes
      PROVE  /\ \A a \in obtained[r] : Saved(r, now)[a] = "answered"
             /\ Saved(r, now).claude \in Undelivered => slots[r].claude \in Undelivered \/ now \in Undelivered
  <2>1. "answered" \in Contained /\ SameAttempt("answered", now)
    BY DEF Contained, SameAttempt
  <2>2. \A a \in obtained[r] : slots[r][a] = "answered"
    BY <1>0 DEF File, Kept
  <2>3. "grok" \in obtained[r] => Saved(r, now).grok = "answered"
    BY <2>2 DEF Saved
  <2>4. "claude" \in obtained[r] => Saved(r, now).claude = "answered"
    BY <2>1, <2>2 DEF Saved
  <2>5. Saved(r, now).claude \in {slots[r].claude, now}
    BY DEF Saved
  <2> QED BY <1>0, <2>3, <2>4, <2>5
<1>2. ASSUME Recovered(r, TRUE)
      PROVE  /\ Has(r, Terminal)
             /\ \A a \in obtained[r] : RecoveredPair(r)[a] = "answered"
             /\ RecoveredPair(r).claude \in Undelivered => Unprompted(r)
  <2>1. Has(r, Terminal)
    BY <1>2 DEF Recovered, Has, Terminal
  <2>2. journal[r].was.claude \in ClaudeOutcomes
    BY <2>1, RoundTyped, JournalFields DEF Has
  <2> QED BY <1>0, <1>1, <2>1, <2>2 DEF RecoveredPair, File, Traced, Has
<1>3. ASSUME Restored(r)
      PROVE  Agreed(r) /\ \A a \in obtained[r] : cache[r].was[a] = "answered"
  <2>1. Agreed(r)
    BY <1>3 DEF Restored, Readable, Agreed
  <2>2. \A a \in obtained[r] : journal[r].was[a] = "answered"
    BY <1>0, <2>1 DEF File, Kept, Agreed
  <2> QED BY <1>0, <2>1, <2>2 DEF Agreed
<1>4. ASSUME Restored(r), journal[r].recovered = "no", cache[r].was.claude \in Undelivered
      PROVE  Unprompted(r)
  BY <1>0, <1>4 DEF File, Kept, Traced, Restored, Readable, Has
<1> QED BY <1>2, <1>3, <1>4

\* So does what a retired round ends with.
LEMMA MergedSays ==
  ASSUME Inv, NEW r \in Rounds, journal[r] # None
  PROVE  /\ \A a \in obtained[r] : Merged(r)[a] = "answered"
         /\ Merged(r).claude \in Undelivered => Unprompted(r)
<1>0. File(r) /\ obtained[r] \subseteq {"grok", "claude"} /\ Known(r) \in ClaudeOutcomes
  BY SavedTyped DEF Inv, Filed, File, TypeOK
<1>1. "answered" \in Contained /\ SameAttempt("answered", Known(r))
  BY DEF Contained, SameAttempt
<1>2. \A a \in obtained[r] : slots[r][a] = "answered"
  BY <1>0 DEF File, Kept
<1>3. "grok" \in obtained[r] => Merged(r).grok = "answered"
  BY <1>2 DEF Merged, Saved
<1>4. "claude" \in obtained[r] => Merged(r).claude = "answered"
  BY <1>1, <1>2 DEF Merged, Saved
<1>5. Merged(r).claude \in {slots[r].claude, journal[r].was.claude, Known(r)}
  BY DEF Merged, Saved
<1>6. Known(r) \in Undelivered => Unprompted(r)
  <2>1. cleanup[r] # None => cleanup[r].delivered \in BOOLEAN
    BY RoundTyped
  <2>2. Known(r) \in Undelivered => ~Evident(r)
    BY <2>1 DEF Known, Undelivered, Evident
  <2> QED BY <1>0, <2>2 DEF File, Traced
<1> QED BY <1>0, <1>3, <1>4, <1>5, <1>6 DEF File, Traced

\* The job around the broker and the retirement of a generation.
LEMMA FiledAround ==
  ASSUME Inv, Job \/ Retirement \/ UNCHANGED vars \/ \E q \in Rounds : Reconcile(q)
  PROVE  \A r \in Rounds : File(r)'
<1> USE DEF files
<1>0. TypeOK
  BY DEF Inv
<1>1. ASSUME NEW r \in Rounds, InputArrives \/ GenerationStarts \/ Reap \/ UNCHANGED vars
      PROVE  File(r)'
  <2>1. Same(r) /\ retired' = retired
    BY <1>1 DEF InputArrives, GenerationStarts, Reap, vars, Same
  <2> QED BY <2>1, FileKept
<1>2. ASSUME NEW r \in Rounds, GenerationEnds PROVE File(r)'
  <2>1. File(r)
    BY DEF Inv, Filed, File
  <2>2. shown'[r] = "none"
    BY <1>2 DEF GenerationEnds
  <2>3. UNCHANGED <<journal[r], slots[r], cache[r], fallback[r], dir[r], cleanup[r],
                    prompts[r], obtained[r], retired>>
    BY <1>2 DEF GenerationEnds
  <2> QED BY <2>1, <2>2, <2>3 DEF File, Blank, Traced, Kept, Unprompted, Evident, Agreed, Has
<1>3. ASSUME NEW r \in Rounds, Retire PROVE File(r)'
  <2>1. retired = None
    BY <1>3 DEF Retire, Inv, Lived
  <2>2. Same(r)
    BY <1>3 DEF Retire, Same
  <2> QED BY <2>1, <2>2, FileKept
<1>4. ASSUME NEW r \in Rounds, FinaliseJournal PROVE File(r)'
  <2>1. retired # None /\ retired'.round = retired.round /\ retired' # None /\ retired.round \in Rounds
    <3>1. retired' \in Receipts /\ retired'.round = retired.round
      BY <1>0, <1>4 DEF FinaliseJournal, Receipts, TypeOK
    <3> QED BY <1>4, <3>1, NothingAssumption, RoundTyped DEF FinaliseJournal
  <2>2. CASE r # retired.round
    <3>1. Same(r)
      BY <1>0, <1>4, <2>1, <2>2 DEF FinaliseJournal, Same, TypeOK
    <3> QED BY <2>1, <3>1, FileKept
  <2>3. CASE r = retired.round
    <3>1. journal[r] \in Journals /\ journal[r] # None /\ shown[r] = "none" /\ File(r)
      BY <1>4, <2>3, RoundTyped DEF FinaliseJournal, Inv, Lived, Has, Filed, File
    <3>2. /\ journal'[r].status \in {"required-reviewer-failed", "stale-input"}
          /\ journal'[r].was = Merged(r) /\ journal'[r].recovered = "open"
      BY <1>0, <1>4, <2>3, <3>1 DEF FinaliseJournal, TypeOK, Journals
    <3>3. journal'[r] # None
      BY <1>4, <2>1, <2>3, LivedStep DEF Next, Retirement, Lived, Has, FinaliseJournal, Receipts, Inv,
         TypeOK
    <3>4. UNCHANGED <<slots[r], cache[r], fallback[r], dir[r], cleanup[r], shown[r], prompts[r],
                      obtained[r]>>
      BY <1>4 DEF FinaliseJournal
    <3>5. /\ \A a \in obtained[r] : Merged(r)[a] = "answered"
          /\ Merged(r).claude \in Undelivered => Unprompted(r)
      BY <3>1, MergedSays
    <3>6. Traced(r)'
      BY <3>1, <3>2, <3>4, <3>5 DEF File, Traced, Unprompted, Evident
    <3>7. Kept(r)'
      BY <2>1, <2>3, <3>1, <3>2, <3>4, <3>5 DEF File, Kept, Has, Requested
    <3> QED BY <3>3, <3>6, <3>7 DEF File
  <2> QED BY <2>2, <2>3
<1>5. ASSUME NEW r \in Rounds, FinaliseLock PROVE File(r)'
  <2>1. retired # None /\ retired'.round = retired.round /\ retired' # None
    <3>1. retired' \in Receipts /\ retired'.round = retired.round
      BY <1>0, <1>5 DEF FinaliseLock, Receipts, TypeOK
    <3> QED BY <1>5, <3>1, NothingAssumption DEF FinaliseLock
  <2>2. Same(r)
    BY <1>5 DEF FinaliseLock, Same
  <2> QED BY <2>1, <2>2, FileKept
<1>6. ASSUME NEW r \in Rounds, FinaliseReceipt PROVE File(r)'
  <2>1. retired # None /\ retired.round \in Rounds /\ Has(retired.round, Terminal)
        /\ journal[retired.round].recovered = "open" /\ life = "idle"
    BY <1>6, RoundTyped DEF FinaliseReceipt, Inv, Lived
  <2>2. CASE r # retired.round
    <3>1. Same(r)
      BY <1>0, <1>6, <2>1, <2>2 DEF FinaliseReceipt, Same, TypeOK
    <3> QED BY <2>2, <3>1, FileKept
  <2>3. CASE r = retired.round
    <3>1. journal[r] \in Journals /\ shown[r] = "none" /\ File(r)
      BY <2>1, <2>3, RoundTyped DEF Inv, Lived, Has, Filed, File
    <3>2. /\ journal'[r].status = journal[r].status /\ journal'[r].was = journal[r].was
          /\ journal'[r].recovered = "sealed" /\ journal'[r] \in Journals
      BY <1>0, <1>6, <2>3, <3>1 DEF FinaliseReceipt, TypeOK, Journals
    <3>3. UNCHANGED <<slots[r], cache[r], fallback[r], dir[r], cleanup[r], shown[r], prompts[r],
                      obtained[r]>>
      BY <1>6 DEF FinaliseReceipt
    <3>4. Traced(r)'
      BY <2>1, <2>3, <3>1, <3>2, <3>3 DEF File, Traced, Unprompted, Evident, Has
    <3>5. Kept(r)'
      BY <2>1, <2>3, <3>1, <3>2, <3>3 DEF File, Kept, Has, Requested, Terminal
    <3> QED BY <3>2, <3>4, <3>5, NothingAssumption DEF File
  <2> QED BY <2>2, <2>3
<1>7. ASSUME NEW r \in Rounds, NEW q \in Rounds, Reconcile(q) PROVE File(r)'
  <2>1. CASE r # q
    <3>1. Same(r) /\ retired' = retired
      BY <1>0, <1>7, <2>1 DEF Reconcile, Same, TypeOK
    <3> QED BY <3>1, FileKept
  <2>2. CASE r = q
    <3>1. File(r) /\ dir[r] # None
      BY <1>7, <2>2 DEF Reconcile, Inv, Filed, File
    <3>2. UNCHANGED <<journal[r], slots[r], cache[r], fallback[r], shown[r], prompts[r],
                      obtained[r], retired>>
      BY <1>7 DEF Reconcile
    <3>3. journal[r] # None
      BY <3>1 DEF File, Blank
    <3>4. Evident(r) => Evident(r)'
      <4>1. cleanup[r] # None => cleanup'[r] = cleanup[r]
        BY <1>0, <1>7, <2>2 DEF Reconcile, TypeOK
      <4>2. cleanup[r] = None => cleanup'[r] = [delivered |-> dir[r].sent]
        BY <1>0, <1>7, <2>2 DEF Reconcile, TypeOK
      <4>3. [delivered |-> dir[r].sent] \in Cleanups
        BY <3>1, RoundTyped DEF Cleanups
      <4> QED BY <4>1, <4>2, <4>3, NothingAssumption DEF Evident
    <3> QED BY <3>1, <3>2, <3>3, <3>4 DEF File, Traced, Kept, Unprompted, Agreed, Has
  <2> QED BY <2>1, <2>2
<1> QED BY <1>1, <1>2, <1>3, <1>4, <1>5, <1>6, <1>7 DEF Job, Retirement

\* The claim of a round, and the failure to go on with one.
LEMMA FiledStarting ==
  ASSUME Inv, Starts
  PROVE  \A r \in Rounds : File(r)'
<1>0. TypeOK /\ \A r \in Rounds : File(r)
  BY DEF Inv, Filed, File
<1>1. ASSUME NEW q \in Rounds, NEW with \in Memory, Starting(q, with), NEW r \in Rounds
      PROVE  File(r)'
  <2>1. shown' = [shown EXCEPT ![q] = "none"]
        /\ UNCHANGED <<journal, slots, cache, fallback, dir, cleanup, retired, prompts, obtained>>
    BY <1>1, ClaimFrame DEF Starting
  <2>2. shown'[r] \in {"none", shown[r]}
    BY <1>0, <2>1 DEF TypeOK
  <2> QED BY <1>0, <2>1, <2>2 DEF File, Blank, Traced, Kept, Unprompted, Evident, Agreed, Has
<1>2. ASSUME NEW q \in Rounds, ContinueFails(q), NEW r \in Rounds PROVE File(r)'
  <2>1. journal[q] # None /\ journal[q] \in Journals
    BY <1>2, RoundTyped DEF ContinueFails, Resumes, Recovered, Has
  <2>2. /\ journal'[q].status = journal[q].status /\ journal'[q].was = journal[q].was
        /\ journal'[q].recovered = journal[q].recovered /\ journal'[q].bound = journal[q].bound
        /\ journal'[q] \in Journals
    BY <1>0, <1>2, <2>1 DEF ContinueFails, TypeOK, Journals
  <2>3. journal'[q] # None
    BY <2>2, NothingAssumption
  <2>4. UNCHANGED <<slots, cache, fallback, dir, cleanup, retired, shown, prompts, obtained>>
    BY <1>2 DEF ContinueFails
  <2>5. r # q => journal'[r] = journal[r]
    BY <1>0, <1>2 DEF ContinueFails, TypeOK
  <2>6. CASE r = q
    BY <1>0, <2>1, <2>2, <2>3, <2>4, <2>6 DEF File, Traced, Kept, Unprompted, Evident, Agreed, Has
  <2>7. CASE r # q
    BY <2>4, <2>5, <2>7, FileKept DEF Same
  <2> QED BY <2>6, <2>7
<1> QED BY <1>1, <1>2, StartFrame

\* A poll delivers only what agrees with the cache, and what it turns agrees with it too.
LEMMA FiledPolled ==
  ASSUME Inv, NEW q \in Rounds, Poll(q), NEW r \in Rounds
  PROVE  File(r)'
<1> DEFINE seen   == IF shown[q] = "none" THEN Payload(q) ELSE shown[q]
           whole  == Recovered(q, TRUE) /\ Adopted(RecoveredPair(q))
           kept   == [journal[q] EXCEPT !.recovered = IF @ = "no" THEN "no" ELSE "spent"]
           full   == [kept EXCEPT !.was = Full, !.bound = TRUE, !.status = "reviewers-completed"]
           turned == IF whole THEN full ELSE kept
           next   == IF InputFor(q, turned.rec) THEN Acknowledged(turned)
                     ELSE [turned EXCEPT !.status = "stale-input"]
           taken  == seen = "terminal" /\ turned.status \in {"reviewers-completed", "required-reviewer-failed"}
<1>0. TypeOK /\ File(r) /\ File(q) /\ obtained[q] \subseteq {"grok", "claude"}
  BY DEF Inv, Filed, File, TypeOK
<1>1. /\ life = "up" /\ Has(q, Terminal) /\ journal[q] \in Journals /\ journal[q] # None
      /\ retired = None
  BY RoundTyped DEF Poll, Has, Inv, Lived
<1>2. /\ shown' = [shown EXCEPT ![q] = seen]
      /\ IF taken
         THEN /\ journal' = [journal EXCEPT ![q] = next]
              /\ cache' = IF whole THEN [cache EXCEPT ![q] = [was |-> Full, rec |-> 0]] ELSE cache
         ELSE UNCHANGED <<journal, cache>>
      /\ UNCHANGED <<slots, fallback, dir, cleanup, retired, prompts, obtained>>
  BY DEF Poll
<1>3. CASE r # q
  <2>1. Same(r)
    <3> HIDE DEF taken, seen, next, whole
    <3> QED BY <1>0, <1>2, <1>3 DEF Same, TypeOK
  <2> QED BY <1>2, <2>1, FileKept
<1>4. seen = "terminal" /\ ~whole => Agreed(q)
  <2>1. shown[q] = "terminal" => Agreed(q)
    BY <1>0 DEF File, Kept
  <2>2. Payload(q) = "terminal" /\ ~whole => Restored(q)
    BY DEF Payload
  <2> QED BY <2>1, <2>2, Offerable
<1>5. CASE r = q /\ taken
  <2>1. kept \in Journals /\ kept.status = journal[q].status /\ kept.was = journal[q].was
        /\ kept.bound = journal[q].bound
        /\ kept.recovered = IF journal[q].recovered = "no" THEN "no" ELSE "spent"
    BY <1>1 DEF Journals
  <2>2. full \in Journals /\ full.status = "reviewers-completed" /\ full.was = Full
        /\ full.bound = TRUE /\ full.recovered = kept.recovered
    <3> HIDE DEF kept
    <3> QED BY <2>1, Constants DEF Journals, Terminal
  <2>3. turned \in Journals /\ turned.recovered = kept.recovered
    <3> HIDE DEF kept, full
    <3> QED BY <2>1, <2>2
  <2>4. /\ next \in Journals /\ next.was = turned.was /\ next.bound = turned.bound
        /\ next.recovered = turned.recovered /\ next.status \in Terminal
    <3>1. turned.status \in {"reviewers-completed", "required-reviewer-failed"}
      BY <1>5
    <3> HIDE DEF turned
    <3> QED BY <2>3, <3>1 DEF Acknowledged, Journals, Terminal
  <2>5. journal'[q] = next /\ journal'[q] # None
    <3>1. journal'[q] = next
      <4> HIDE DEF next
      <4> QED BY <1>0, <1>2, <1>5 DEF TypeOK
    <3> QED BY <2>4, <3>1, NothingAssumption
  <2>6. journal[q].recovered # "open"
    BY <1>0, <1>1 DEF File, Kept
  <2>7. next.recovered = (IF journal[q].recovered = "no" THEN "no" ELSE "spent")
    BY <2>1, <2>3, <2>4
  <2>8. Has(q, Terminal)' /\ ~Has(q, {Requested})'
    <3> HIDE DEF next
    <3> QED BY <2>4, <2>5 DEF Has, Terminal, Requested
  <2> HIDE DEF next, kept, full, turned
  <2>9. CASE whole
    <3>1. journal'[q].was = Full /\ journal'[q].bound
      BY <2>2, <2>4, <2>5, <2>9 DEF turned
    <3>2. cache'[q] = [was |-> Full, rec |-> 0] /\ cache'[q] # None
      <4>1. [was |-> Full, rec |-> 0] \in Caches
        BY Constants DEF Caches
      <4>2. cache'[q] = [was |-> Full, rec |-> 0]
        BY <1>0, <1>2, <1>5, <2>9 DEF TypeOK
      <4> QED BY <4>1, <4>2, NothingAssumption
    <3>3. Agreed(q)' /\ cache'[q].was = journal'[q].was
      BY <2>8, <3>1, <3>2 DEF Agreed
    <3>4. \A a \in obtained'[q] : journal'[q].was[a] = "answered"
      BY <1>0, <1>2, <3>1 DEF Full
    <3>5. Full.claude \notin Undelivered
      BY DEF Full, Undelivered
    <3>6. Traced(q)'
      BY <1>0, <1>2, <2>5, <3>1, <3>5 DEF File, Traced, Unprompted, Evident
    <3>7. Kept(q)'
      BY <1>0, <1>2, <2>5, <2>7, <2>8, <3>3, <3>4 DEF File, Kept
    <3> QED BY <1>5, <2>5, <3>6, <3>7 DEF File
  <2>10. CASE ~whole
    <3>1. journal'[q].was = journal[q].was /\ journal'[q].bound = journal[q].bound
      BY <2>1, <2>4, <2>5, <2>10 DEF turned
    <3>2. cache'[q] = cache[q]
      BY <1>2, <1>5, <2>10
    <3>3. Agreed(q) /\ Agreed(q)'
      BY <1>4, <1>5, <2>8, <2>10, <3>1, <3>2 DEF Agreed
    <3>4. Traced(q)'
      BY <1>0, <1>1, <1>2, <2>5, <3>1 DEF File, Traced, Unprompted, Evident
    <3>5. journal[q].recovered = "no" => cache[q].was = journal[q].was
      BY <1>0, <1>1 DEF File, Kept
    <3>6. Kept(q)'
      BY <1>0, <1>1, <1>2, <2>5, <2>7, <2>8, <3>1, <3>2, <3>3, <3>5 DEF File, Kept
    <3> QED BY <1>5, <2>5, <3>4, <3>6 DEF File
  <2> QED BY <2>9, <2>10
<1>6. CASE r = q /\ ~taken
  <2>1. seen = "terminal" => Agreed(q)
    <3>1. whole => turned.status = "reviewers-completed"
      <4> HIDE DEF whole
      <4> QED BY <1>1 DEF Journals
    <3> QED BY <1>4, <1>6, <3>1
  <2>2. UNCHANGED <<journal, cache>> /\ shown'[q] = seen
    BY <1>0, <1>2, <1>6 DEF TypeOK
  <2> HIDE DEF seen, taken
  <2> QED BY <1>0, <1>1, <1>2, <1>6, <2>1, <2>2
          DEF File, Blank, Traced, Kept, Unprompted, Evident, Agreed, Has
<1> QED BY <1>3, <1>5, <1>6

\* The helper leaves its receipt before it types.
LEMMA FiledHelped ==
  ASSUME Inv, HelperRecords \/ HelperTypes, NEW r \in Rounds
  PROVE  File(r)'
<1> DEFINE q == helper.round
           m == helper.model
<1>0. TypeOK /\ File(r) /\ helper # None
  BY DEF Inv, Filed, File, HelperRecords, HelperTypes
<1>1. q \in Rounds /\ m \in Models /\ Helped
  BY <1>0, RoundTyped DEF Inv
<1>2. CASE r # q
  <2>1. Same(r) /\ retired' = retired
    BY <1>0, <1>1, <1>2 DEF Same, TypeOK, HelperRecords, HelperTypes, outside
  <2> QED BY <2>1, FileKept
<1>3. CASE r = q /\ HelperRecords
  <2>1. dir[q] \in Folders /\ dir[q] # None /\ journal[q] # None /\ cleanup[q] = None
    BY <1>1, RoundTyped DEF Helped, Clear, Has
  <2>2. dir'[q].sent = TRUE /\ dir'[q] \in Folders
    BY <1>0, <1>1, <1>3, <2>1 DEF HelperRecords, TypeOK, Folders
  <2>3. Evident(r)'
    BY <1>3, <2>1, <2>2, NothingAssumption DEF Evident, HelperRecords
  <2>4. UNCHANGED <<journal, slots, cache, fallback, cleanup, retired, shown, prompts, obtained>>
    BY <1>3 DEF HelperRecords, outside
  <2> QED BY <1>0, <1>3, <2>1, <2>3, <2>4 DEF File, Traced, Kept, Unprompted, Agreed, Has
<1>4. CASE r = q /\ HelperTypes
  <2>1. Clear(q) /\ Suits(q, m) /\ slots[q].claude = "none" /\ dir[q] # None /\ dir[q].sent
        /\ prompts[q][m] = 0
    BY <1>1, <1>4 DEF Helped, HelperTypes
  <2>2. prompts'[q] = [prompts[q] EXCEPT ![m] = 1]
    BY <1>0, <1>1, <1>4, <2>1 DEF HelperTypes, TypeOK
  <2>3. prompts[q] \in [Models -> 0..2]
    BY <1>0, <1>1 DEF TypeOK
  <2>4. UNCHANGED <<journal, slots, cache, fallback, dir, cleanup, retired, shown, obtained>>
    BY <1>4 DEF HelperTypes, outside
  <2>5. Evident(r)'
    BY <1>4, <2>1, <2>4 DEF Evident, Clear
  <2>6. \A n \in Models : prompts'[r][n] <= 1
    BY <1>0, <1>4, <2>2, <2>3 DEF File, Traced
  <2>7. prompts'[r]["opus"] > 0 => fallback'[r] # None
    <3>1. CASE m = "opus"
      BY <1>4, <2>1, <2>4, <3>1 DEF Suits
    <3>2. CASE m # "opus"
      BY <1>0, <1>4, <2>2, <2>3, <2>4, <3>2 DEF File, Traced, Models
    <3> QED BY <3>1, <3>2
  <2>8. Traced(r)'
    BY <1>4, <2>1, <2>4, <2>5, <2>6, <2>7 DEF Traced, Clear, Undelivered
  <2>9. Kept(r)' /\ journal'[r] # None
    BY <1>0, <1>4, <2>1, <2>4 DEF File, Kept, Clear, Agreed, Has
  <2> QED BY <1>4, <2>8, <2>9 DEF File
<1> QED BY <1>2, <1>3, <1>4

\* What the slots become when the broker writes what it knows.
LEMMA Persisting ==
  ASSUME Inv, run.step = "working", NEW mem \in Pair, NEW next \in Memory,
         Persists(run.round, mem, next), next.round = run.round,
         \A a \in obtained[run.round] : mem[a] = "answered"
  PROVE  /\ run.round \in Rounds /\ slots'[run.round] = mem
         /\ \A r \in Rounds \ {run.round} : slots'[r] = slots[r] /\ obtained'[r] = obtained[r]
         /\ \A a \in obtained'[run.round] : mem[a] = "answered"
         /\ run'.mem = mem /\ run'.round = run.round /\ run'.step = next.step
         /\ run'.retry = next.retry /\ run'.auto = next.auto /\ run'.grok = next.grok
         /\ run'.claude = next.claude /\ run'.model = next.model /\ run'.out = next.out
<1>1. run.round \in Rounds
  BY AtWork
<1>2. TypeOK
  BY DEF Inv
<1> QED BY <1>1, <1>2 DEF Persists, TypeOK, Memory

\* Each of the broker's writes to the slots, and the memory it goes on with.
Writing(mem, next) ==
  /\ Persists(run.round, mem, next)
  /\ UNCHANGED <<outside, journal, cache, fallback, dir, cleanup, helper, prompts>>

\* An answer once saved is still there after each of them.
LEMMA Writings ==
  ASSUME Inv, \/ KeepGrok \/ AskGrok \/ (\E out \in Outcomes : GrokEnds(out))
              \/ KeepClaude \/ BeginClaude \/ SettleClaude
  PROVE  \E mem \in Pair, next \in Memory :
           /\ Writing(mem, next) /\ run.step = "working" /\ next.round = run.round
           /\ next.step = "working" /\ next.retry = run.retry /\ next.auto = run.auto
           /\ next.model = run.model
           /\ \A a \in obtained[run.round] : mem[a] = "answered"
           /\ \/ /\ KeepGrok \/ AskGrok \/ \E out \in Outcomes : GrokEnds(out)
                 /\ mem.claude = run.mem.claude /\ next.claude = run.claude /\ next.out = run.out
                 /\ next.grok = "done" \/ (next.grok = "asked" /\ mem.grok = "none")
              \/ /\ KeepClaude /\ mem = run.mem /\ next.grok = run.grok /\ next.claude = "done"
              \/ /\ BeginClaude /\ mem.grok = run.mem.grok /\ mem.claude = "none"
                 /\ next.grok = run.grok
                 /\ \/ fallback[run.round] = None /\ next.claude = "asked"
                    \/ fallback[run.round] # None /\ next.claude = "final"
              \/ /\ SettleClaude /\ mem.grok = run.mem.grok /\ mem.claude = run.out
                 /\ next.grok = run.grok /\ next.claude = "done"
<1>0. run \in Memory /\ TypeOK
  BY DEF Inv, Lived
<1>a. run.mem \in Pair /\ run.mem.grok \in GrokOutcomes /\ run.mem.claude \in ClaudeOutcomes
      /\ run.out \in ClaudeOutcomes
  BY <1>0, MemoryFields DEF Pair
<1>b. ASSUME NEW g \in GrokOutcomes
      PROVE  [run.mem EXCEPT !.grok = g] \in Pair /\ [run.mem EXCEPT !.grok = g].grok = g
             /\ [run.mem EXCEPT !.grok = g].claude = run.mem.claude
  BY <1>a DEF Pair
<1>c. ASSUME NEW c \in ClaudeOutcomes
      PROVE  [run.mem EXCEPT !.claude = c] \in Pair /\ [run.mem EXCEPT !.claude = c].claude = c
             /\ [run.mem EXCEPT !.claude = c].grok = run.mem.grok
  BY <1>a DEF Pair
<1>d. ASSUME run.step = "working"
      PROVE  /\ InHand /\ Asking /\ run.round \in Rounds /\ obtained[run.round] \subseteq {"grok", "claude"}
             /\ \A a \in obtained[run.round] : run.mem[a] = "answered"
  BY <1>0, <1>d, AtWork DEF InHand, TypeOK
<1>e. "none" \in GrokOutcomes /\ "none" \in ClaudeOutcomes /\ Outcomes \subseteq GrokOutcomes
  BY DEF GrokOutcomes, ClaudeOutcomes, Outcomes
<1>g. ASSUME NEW g \in {"due", "asked", "done"}
      PROVE  LET next == [run EXCEPT !.grok = g]
             IN /\ next \in Memory /\ next.round = run.round /\ next.step = run.step
                /\ next.retry = run.retry /\ next.auto = run.auto /\ next.model = run.model
                /\ next.claude = run.claude /\ next.out = run.out /\ next.grok = g
  BY <1>0 DEF Memory
<1>h. ASSUME NEW c \in ClaudeSteps
      PROVE  LET next == [run EXCEPT !.claude = c]
             IN /\ next \in Memory /\ next.round = run.round /\ next.step = run.step
                /\ next.retry = run.retry /\ next.auto = run.auto /\ next.model = run.model
                /\ next.grok = run.grok /\ next.out = run.out /\ next.claude = c
  BY <1>0 DEF Memory
<1>1. CASE KeepGrok
  <2> DEFINE next == [run EXCEPT !.grok = "done"]
  <2>1. run.step = "working" /\ Writing(run.mem, next)
    BY <1>1 DEF KeepGrok, Writing
  <2>2. /\ next \in Memory /\ next.round = run.round /\ next.step = run.step
        /\ next.retry = run.retry /\ next.auto = run.auto /\ next.model = run.model
        /\ next.claude = run.claude /\ next.out = run.out /\ next.grok = "done"
    BY <1>g
  <2> HIDE DEF next
  <2> QED BY <1>1, <2>1, <2>2, <1>a, <1>d
<1>2. CASE AskGrok
  <2> DEFINE next == [run EXCEPT !.grok = "asked"]
             mem == [run.mem EXCEPT !.grok = "none"]
  <2>1. run.step = "working" /\ Writing(mem, next) /\ run.grok = "due" /\ ~GrokKept
    BY <1>2 DEF AskGrok, Writing
  <2>2. "grok" \notin obtained[run.round]
    BY <2>1, <1>0, <1>d DEF InHand, GrokKept, Memory
  <2>3. mem \in Pair /\ mem.grok = "none" /\ mem.claude = run.mem.claude
    BY <1>b, <1>e
  <2>4. \A a \in obtained[run.round] : mem[a] = "answered"
    BY <1>d, <2>1, <2>2, <2>3
  <2>5. /\ next \in Memory /\ next.round = run.round /\ next.step = run.step
        /\ next.retry = run.retry /\ next.auto = run.auto /\ next.model = run.model
        /\ next.claude = run.claude /\ next.out = run.out /\ next.grok = "asked"
    BY <1>g
  <2> HIDE DEF next, mem
  <2> QED BY <1>2, <2>1, <2>3, <2>4, <2>5
<1>3. ASSUME NEW out \in Outcomes, GrokEnds(out)
      PROVE  \E mem \in Pair, next \in Memory :
               /\ Writing(mem, next) /\ run.step = "working" /\ next.round = run.round
               /\ next.step = "working" /\ next.retry = run.retry /\ next.auto = run.auto
               /\ next.model = run.model
               /\ \A a \in obtained[run.round] : mem[a] = "answered"
               /\ mem.claude = run.mem.claude /\ next.claude = run.claude /\ next.out = run.out
               /\ next.grok = "done"
  <2> DEFINE next == [run EXCEPT !.grok = "done"]
             mem == [run.mem EXCEPT !.grok = out]
  <2>1. run.step = "working" /\ Writing(mem, next) /\ run.grok = "asked"
    BY <1>3 DEF GrokEnds, Writing
  <2>2. "grok" \notin obtained[run.round]
    BY <2>1, <1>d DEF InHand
  <2>3. mem \in Pair /\ mem.claude = run.mem.claude
    BY <1>b, <1>e
  <2>4. \A a \in obtained[run.round] : mem[a] = "answered"
    BY <1>d, <2>1, <2>2, <2>3
  <2>5. /\ next \in Memory /\ next.round = run.round /\ next.step = run.step
        /\ next.retry = run.retry /\ next.auto = run.auto /\ next.model = run.model
        /\ next.claude = run.claude /\ next.out = run.out /\ next.grok = "done"
    BY <1>g
  <2> HIDE DEF next, mem
  <2> QED BY <2>1, <2>3, <2>4, <2>5
<1>4. CASE KeepClaude
  <2> DEFINE next == [run EXCEPT !.claude = "done"]
  <2>1. run.step = "working" /\ Writing(run.mem, next)
    BY <1>4 DEF KeepClaude, Writing, At
  <2>2. "done" \in ClaudeSteps
    BY DEF ClaudeSteps
  <2>3. /\ next \in Memory /\ next.round = run.round /\ next.step = run.step
        /\ next.retry = run.retry /\ next.auto = run.auto /\ next.model = run.model
        /\ next.grok = run.grok /\ next.claude = "done"
    BY <1>h, <2>2
  <2> HIDE DEF next
  <2> QED BY <1>4, <2>1, <2>3, <1>a, <1>d
<1>5. CASE BeginClaude
  <2> DEFINE saved == fallback[run.round]
             next  == IF saved = None THEN [run EXCEPT !.claude = "asked"]
                      ELSE [run EXCEPT !.claude = "final", !.out = IF saved.done THEN saved.out ELSE "live"]
             mem   == [run.mem EXCEPT !.claude = "none"]
  <2>1. run.step = "working" /\ Writing(mem, next) /\ run.claude = "due" /\ ~ClaudeKept
    BY <1>5 DEF BeginClaude, Writing, At
  <2>2. "claude" \notin obtained[run.round]
    BY <2>1, <1>d, <1>0 DEF ClaudeKept, Undelivered, InHand, Memory
  <2>3. mem \in Pair /\ mem.claude = "none" /\ mem.grok = run.mem.grok
    BY <1>c, <1>e
  <2>4. \A a \in obtained[run.round] : mem[a] = "answered"
    BY <1>d, <2>1, <2>2, <2>3
  <2>5. saved # None => (IF saved.done THEN saved.out ELSE "live") \in ClaudeOutcomes
    BY <2>1, <1>d, RoundTyped DEF ClaudeOutcomes
  <2>6. /\ next \in Memory /\ next.round = run.round /\ next.step = run.step
        /\ next.retry = run.retry /\ next.auto = run.auto /\ next.model = run.model
        /\ next.grok = run.grok
        /\ \/ saved = None /\ next.claude = "asked"
           \/ saved # None /\ next.claude = "final"
    BY <1>0, <2>5 DEF Memory, ClaudeSteps
  <2> HIDE DEF next, mem
  <2> QED BY <1>5, <2>1, <2>3, <2>4, <2>6
<1>6. CASE SettleClaude
  <2> DEFINE next == [run EXCEPT !.claude = "done"]
             mem == [run.mem EXCEPT !.claude = run.out]
  <2>1. run.step = "working" /\ Writing(mem, next) /\ run.claude \in {"final", "result"}
    BY <1>6 DEF SettleClaude, Writing, At
  <2>2. "claude" \notin obtained[run.round]
    BY <2>1, <1>d DEF Asking
  <2>3. mem \in Pair /\ mem.grok = run.mem.grok /\ mem.claude = run.out
    BY <1>a, <1>c
  <2>4. \A a \in obtained[run.round] : mem[a] = "answered"
    BY <1>d, <2>1, <2>2, <2>3
  <2>5. "done" \in ClaudeSteps
    BY DEF ClaudeSteps
  <2>6. /\ next \in Memory /\ next.round = run.round /\ next.step = run.step
        /\ next.retry = run.retry /\ next.auto = run.auto /\ next.model = run.model
        /\ next.grok = run.grok /\ next.claude = "done"
    BY <1>h, <2>5
  <2> HIDE DEF next, mem
  <2> QED BY <1>6, <2>1, <2>3, <2>4, <2>6
<1> QED BY <1>1, <1>2, <1>3, <1>4, <1>5, <1>6

\* The steps of the Claude session that leave the slots alone.
Session ==
  \/ ClaudeUnavailable \/ PrepareClaude \/ DiscardClaude \/ OpenClaude \/ SendStarts \/ SendEnds
  \/ (\E how \in Waits : WaitEnds(how)) \/ CloseClaude \/ CloseFails \/ RecordCleanup
  \/ RemoveDirectory \/ ClaimFallback \/ RetireFable \/ FinishFallback

\* What the broker knows of its round while it works on it.
LEMMA Working ==
  ASSUME Inv, run.step = "working"
  PROVE  /\ run \in Memory /\ run.round \in Rounds /\ InHand /\ Asking /\ Has(run.round, {Requested})
         /\ ~Has(run.round, Terminal) /\ journal[run.round] # None /\ shown[run.round] = "none"
         /\ File(run.round)
<1>1. run.round \in Rounds /\ InHand /\ run \in Memory
  BY AtWork DEF Inv, Lived
<1>2. Asking /\ Has(run.round, {Requested}) /\ shown[run.round] = "none"
  BY <1>1 DEF InHand
<1> QED BY <1>1, <1>2 DEF Has, Requested, Terminal, Inv, Filed, File

\* What a step of the session keeps, and where it goes on.
LEMMA SessionFrame ==
  ASSUME Inv, Session
  PROVE  /\ run.step = "working" /\ run'.step = "working"
         /\ run'.round = run.round /\ run'.mem = run.mem /\ run'.grok = run.grok
         /\ run'.retry = run.retry /\ run'.auto = run.auto
         /\ ~RetireFable => run'.model = run.model
         /\ UNCHANGED <<outside, journal, slots, cache, obtained, prompts>>
         /\ \/ ClaudeUnavailable /\ run.claude = "asked" /\ run'.claude = "result" /\ run'.out = "unsent"
            \/ PrepareClaude /\ run.claude = "asked" /\ run'.claude = "prepared"
            \/ DiscardClaude /\ run.claude = "prepared" /\ run'.claude = "result" /\ run'.out = "unsent"
            \/ OpenClaude /\ run.claude = "prepared" /\ run'.claude \in {"opened", "closing"}
            \/ SendStarts /\ run.claude = "opened" /\ run'.claude = "sending"
            \/ SendEnds /\ run.claude = "sending" /\ run'.claude \in {"closing", "waiting"}
            \/ (\E how \in Waits : WaitEnds(how)) /\ run.claude = "waiting" /\ run'.claude = "closing"
            \/ CloseClaude /\ run.claude = "closing" /\ run'.claude = "closed"
            \/ CloseFails /\ run.claude = "closing" /\ run'.claude = "result"
               /\ run'.out \in {"residual", "live"}
            \/ RecordCleanup /\ run.claude = "closed" /\ run'.claude = "recorded"
            \/ RemoveDirectory /\ run.claude = "recorded" /\ run'.claude = "result"
               /\ (run'.out \in Undelivered => ~dir[run.round].sent)
            \/ ClaimFallback /\ run.claude = "result" /\ run'.claude = "claimed" /\ run.model = "fable"
            \/ RetireFable /\ run.claude = "claimed" /\ run'.claude = "asked" /\ run'.model = "opus"
            \/ FinishFallback /\ run.claude = "result" /\ run'.claude = "final" /\ run'.out = run.out
               /\ run.model = "opus"
<1>0. run \in Memory
  BY DEF Inv, Lived
<1> USE DEF At, Result, Memory
<1>1. CASE ClaudeUnavailable \/ PrepareClaude \/ DiscardClaude
  BY <1>0, <1>1 DEF ClaudeUnavailable, PrepareClaude, DiscardClaude, RetireFable
<1>2. CASE OpenClaude \/ SendStarts
  BY <1>0, <1>2 DEF OpenClaude, SendStarts, RetireFable
<1>3. CASE SendEnds
  BY <1>0, <1>3 DEF SendEnds, RetireFable
<1>4. CASE \E how \in Waits : WaitEnds(how)
  BY <1>0, <1>4 DEF WaitEnds, RetireFable
<1>5. CASE CloseClaude \/ CloseFails \/ RecordCleanup
  BY <1>0, <1>5, ZenonT(60) DEF CloseClaude, CloseFails, RecordCleanup, RetireFable
<1>6. CASE RemoveDirectory
  BY <1>0, <1>6 DEF RemoveDirectory, RetireFable, Undelivered
<1>7. CASE ClaimFallback \/ RetireFable \/ FinishFallback
  BY <1>0, <1>7 DEF ClaimFallback, Switches, RetireFable, FinishFallback
<1> QED BY <1>1, <1>2, <1>3, <1>4, <1>5, <1>6, <1>7 DEF Session

\* The files of the other rounds are not the broker's to touch.
LEMMA FiledElsewhere ==
  ASSUME Inv, Broker, NEW r \in Rounds, r # run.round
  PROVE  File(r)'
<1>0. TypeOK /\ run.round \in Rounds
  BY WorkFrame, AtWork DEF Inv
<1>1. retired' = retired
  BY WorkFrame
<1>2. Same(r)
  <2> USE DEF Same, TypeOK, outside
  <2>1. CASE WritesRequest \/ FinishCache \/ FinishJournal \/ ReleaseClaim
    BY <1>0, <2>1 DEF WritesRequest, FinishCache, FinishJournal, ReleaseClaim
  <2>2. CASE \/ KeepGrok \/ AskGrok \/ (\E out \in Outcomes : GrokEnds(out))
             \/ KeepClaude \/ BeginClaude \/ SettleClaude
    <3>1. PICK mem \in Pair, next \in Memory :
                 Writing(mem, next) /\ run.step = "working" /\ next.round = run.round
                 /\ \A a \in obtained[run.round] : mem[a] = "answered"
      BY <2>2, Writings
    <3> QED BY <3>1, Persisting DEF Writing
  <2>3. CASE Session
    BY <1>0, <2>3, SessionFrame DEF ClaudeUnavailable, PrepareClaude, DiscardClaude, OpenClaude,
       SendStarts, SendEnds, WaitEnds, CloseClaude, CloseFails, RecordCleanup, RemoveDirectory,
       ClaimFallback, RetireFable, FinishFallback
  <2> QED BY <2>1, <2>2, <2>3 DEF Broker, Session
<1> QED BY <1>1, <1>2, FileKept

\* The broker's own round, at each write to its files.
LEMMA FiledAtWork ==
  ASSUME Inv, Broker, NEW r \in Rounds, r = run.round
  PROVE  File(r)'
<1>0. TypeOK /\ InHand /\ File(r) /\ retired = None /\ retired' = retired
  BY WorkFrame, AtWork DEF Inv, Filed, File
<1>1. CASE WritesRequest
  <2> DEFINE withdrawn == run.mem.claude \in Undelivered
  <2>1. journal'[r].status = Requested /\ journal'[r].recovered = "no"
        /\ journal'[r].was = IF run.retry
                             THEN [journal[r].was EXCEPT !.claude = IF withdrawn THEN "none" ELSE @]
                             ELSE Empty
    BY <1>0, <1>1 DEF WritesRequest, TypeOK
  <2>2. journal'[r] # None
    BY <1>1, JournalAtWork
  <2>3. IF run.retry THEN Has(r, Terminal) ELSE journal[r] = None
    BY <1>0, <1>1 DEF WritesRequest, InHand
  <2>4. shown[r] = "none" /\ (withdrawn => Unprompted(r))
    BY <1>0, <1>1 DEF WritesRequest, InHand
  <2>5. journal'[r].was.claude \in Undelivered => Unprompted(r)
    <3>1. CASE run.retry
      <4>1. journal[r] # None /\ journal[r].was \in Pair
        BY <2>3, <3>1, RoundTyped, JournalFields DEF Has
      <4>2. journal'[r].was.claude = IF withdrawn THEN "none" ELSE journal[r].was.claude
        BY <2>1, <3>1, <4>1 DEF Pair
      <4> QED BY <1>0, <4>1, <4>2 DEF File, Traced, Undelivered
    <3>2. CASE ~run.retry
      BY <2>1, <3>2 DEF Empty, Undelivered
    <3> QED BY <3>1, <3>2
  <2>6. UNCHANGED <<slots, cache, fallback, dir, shown, prompts, obtained>>
    BY <1>1 DEF WritesRequest
  <2>7. (cleanup'[r] = cleanup[r]) \/ Unprompted(r)
    BY <1>0, <1>1, <2>4 DEF WritesRequest, TypeOK
  <2>8. Traced(r)'
    BY <1>0, <2>5, <2>6, <2>7 DEF File, Traced, Unprompted, Evident
  <2>9. Kept(r)'
    BY <1>0, <2>1, <2>4, <2>6 DEF File, Kept, Has, Requested, Terminal
  <2> QED BY <2>2, <2>8, <2>9 DEF File
<1>2. CASE \/ KeepGrok \/ AskGrok \/ (\E out \in Outcomes : GrokEnds(out))
           \/ KeepClaude \/ BeginClaude \/ SettleClaude
  <2>1. PICK mem \in Pair, next \in Memory :
               /\ Writing(mem, next) /\ run.step = "working" /\ next.round = run.round
               /\ \A a \in obtained[run.round] : mem[a] = "answered"
               /\ \/ mem.claude = run.mem.claude
                  \/ mem.claude = "none"
                  \/ SettleClaude /\ mem.claude = run.out
    BY <1>2, Writings
  <2>2. Asking /\ journal[r] # None /\ ~Has(r, Terminal) /\ shown[r] = "none"
    BY <2>1, <1>0, Working
  <2>3. mem.claude \in Undelivered => Unprompted(r)
    <3>1. run.mem.claude \in Undelivered => Unprompted(r)
      BY <1>0, <2>1, <2>2 DEF InHand, Asking, Undelivered
    <3>2. SettleClaude /\ run.out \in Undelivered => Unprompted(r)
      BY <1>0, <2>2 DEF SettleClaude, Asking, At
    <3> QED BY <2>1, <3>1, <3>2 DEF Undelivered
  <2>4. slots'[r] = mem /\ \A a \in obtained'[r] : mem[a] = "answered"
    BY <2>1, Persisting DEF Writing
  <2>5. UNCHANGED <<journal, cache, fallback, dir, cleanup, shown, prompts>>
    BY <2>1 DEF Writing, outside
  <2>6. Traced(r)'
    BY <1>0, <2>3, <2>4, <2>5 DEF File, Traced, Unprompted, Evident
  <2>7. Kept(r)'
    BY <1>0, <2>2, <2>4, <2>5 DEF File, Kept, Has
  <2> QED BY <2>2, <2>5, <2>6, <2>7 DEF File
<1>3. CASE Session
  <2>1. Asking /\ journal[r] # None /\ ~Has(r, Terminal) /\ shown[r] = "none" /\ run.step = "working"
    BY <1>3, <1>0, SessionFrame, Working
  <2>2. UNCHANGED <<journal, slots, cache, shown, prompts, obtained>>
    BY <1>3, SessionFrame DEF outside
  <2>3. CASE UNCHANGED <<fallback, dir, cleanup>>
    BY <1>0, <2>2, <2>3, FileKept DEF Same
  <2>4. fallback[r] # None => fallback'[r] # None
    <3>1. [done |-> FALSE, out |-> "none"] \in Fallbacks /\ [done |-> TRUE, out |-> run.out] \in Fallbacks
      BY <1>3, SessionFrame, Working, MemoryFields DEF Fallbacks, ClaudeOutcomes
    <3>2. \/ fallback' = fallback
          \/ fallback' = [fallback EXCEPT ![run.round] = [done |-> FALSE, out |-> "none"]]
          \/ fallback' = [fallback EXCEPT ![run.round] = [done |-> TRUE, out |-> run.out]]
      BY <1>3 DEF Session, ClaudeUnavailable, PrepareClaude, DiscardClaude, OpenClaude,
         SendStarts, SendEnds, WaitEnds, CloseClaude, CloseFails, RecordCleanup, RemoveDirectory,
         ClaimFallback, RetireFable, FinishFallback
    <3> QED BY <1>0, <3>1, <3>2, NothingAssumption DEF TypeOK
  <2>5. Unprompted(r) => Unprompted(r)'
    BY <2>2, <2>4 DEF Unprompted
  <2>6. Unprompted(r)' \/ Evident(r)'
    <3>1. CASE PrepareClaude \/ DiscardClaude \/ OpenClaude
      <4>1. prompts[r][run.model] = 0 /\ Suits(r, run.model)
        BY <1>0, <2>1, <3>1 DEF Asking, PrepareClaude, DiscardClaude, OpenClaude, At
      <4>2. Unprompted(r)
        BY <4>1 DEF Suits, Unprompted
      <4> QED BY <2>5, <4>2
    <3>2. CASE RecordCleanup
      <4>1. cleanup[r] = None /\ dir[r] # None
        BY <1>0, <2>1, <3>2 DEF Asking, RecordCleanup, At, Clear
      <4>2. cleanup'[r] = [delivered |-> dir[r].sent]
        BY <1>0, <3>2, <4>1 DEF RecordCleanup, TypeOK
      <4>3. [delivered |-> dir[r].sent] \in Cleanups
        BY <4>1, RoundTyped DEF Cleanups, Inv
      <4>4. Evident(r) => Evident(r)'
        BY <4>1, <4>2, <4>3, NothingAssumption DEF Evident
      <4> QED BY <1>0, <2>5, <4>4 DEF File, Traced
    <3>3. CASE RemoveDirectory
      <4>1. cleanup[r] = [delivered |-> dir[r].sent] /\ dir[r] # None
        BY <1>0, <2>1, <3>3 DEF Asking, RemoveDirectory, At
      <4>2. [delivered |-> dir[r].sent] \in Cleanups
        BY <4>1, RoundTyped DEF Cleanups, Inv
      <4>3. cleanup' = cleanup /\ cleanup[r] # None
        BY <3>3, <4>1, <4>2, NothingAssumption DEF RemoveDirectory
      <4> QED BY <1>0, <2>5, <4>3 DEF File, Traced, Evident
    <3>4. CASE ClaimFallback \/ FinishFallback
      <4>1. [done |-> FALSE, out |-> "none"] \in Fallbacks /\ [done |-> TRUE, out |-> run.out] \in Fallbacks
        BY <1>3, SessionFrame, Working, MemoryFields DEF Fallbacks, ClaudeOutcomes
      <4>2. fallback'[r] # None
        BY <1>0, <3>4, <4>1, NothingAssumption DEF ClaimFallback, FinishFallback, TypeOK
      <4> QED BY <4>2 DEF Unprompted
    <3>5. CASE RetireFable
      <4>1. fallback[r] # None
        BY <1>0, <2>1, <3>5 DEF Asking, RetireFable, At
      <4> QED BY <2>4, <4>1 DEF Unprompted
    <3>6. CASE \/ ClaudeUnavailable \/ SendStarts \/ SendEnds \/ (\E how \in Waits : WaitEnds(how))
               \/ CloseClaude \/ CloseFails
      <4>1. UNCHANGED <<fallback, dir, cleanup>>
        BY <3>6 DEF ClaudeUnavailable, SendStarts, SendEnds, WaitEnds, CloseClaude, CloseFails
      <4> QED BY <1>0, <2>2, <4>1 DEF File, Traced, Unprompted, Evident
    <3> QED BY <1>3, <3>1, <3>2, <3>3, <3>4, <3>5, <3>6 DEF Session
  <2>7. Traced(r)'
    BY <1>0, <2>2, <2>4, <2>5, <2>6 DEF File, Traced
  <2>8. Kept(r)'
    BY <1>0, <2>1, <2>2 DEF File, Kept, Has
  <2> QED BY <2>1, <2>2, <2>7, <2>8 DEF File
<1>4. CASE FinishCache
  <2>1. Has(r, {Requested}) /\ ~Has(r, Terminal) /\ shown[r] = "none" /\ journal[r] \in Journals
    BY <1>4, <1>0, Working, RoundTyped DEF FinishCache, Has
  <2>2. journal'[r].status = journal[r].status /\ journal'[r].was = journal[r].was
        /\ journal'[r].recovered = journal[r].recovered
    BY <1>0, <1>4, <2>1 DEF FinishCache, TypeOK, Journals
  <2>3. journal'[r] # None
    BY <1>4, JournalAtWork
  <2>4. UNCHANGED <<slots, fallback, dir, cleanup, shown, prompts, obtained>>
    BY <1>4 DEF FinishCache, outside
  <2>5. Traced(r)'
    BY <1>0, <2>1, <2>2, <2>4 DEF File, Traced, Unprompted, Evident, Has
  <2>6. Kept(r)'
    BY <1>0, <2>1, <2>2, <2>4 DEF File, Kept, Has
  <2> QED BY <2>3, <2>5, <2>6 DEF File
<1>5. CASE FinishJournal
  <2>1. /\ Has(r, {Requested}) /\ journal[r] \in Journals /\ cache[r] # None /\ cache[r].was = run.mem
        /\ run.claude = "done"
    BY <1>5, <1>0, RoundTyped DEF FinishJournal, InHand, Has
  <2>2. /\ journal'[r].status \in {"reviewers-completed", "required-reviewer-failed", "stale-input"}
        /\ journal'[r].was = run.mem /\ journal'[r].recovered = "no" /\ journal'[r].bound
    BY <1>0, <1>5, <2>1 DEF FinishJournal, TypeOK, Journals, File, Kept
  <2>3. journal'[r] # None
    BY <1>5, JournalAtWork
  <2>4. UNCHANGED <<slots, cache, fallback, dir, cleanup, prompts, obtained>>
    BY <1>5 DEF FinishJournal
  <2>5. Agreed(r)' /\ ~Has(r, {Requested})'
    BY <2>1, <2>2, <2>3, <2>4 DEF Agreed, Has, Terminal, Requested
  <2>6. \A a \in obtained[r] : run.mem[a] = "answered"
    BY <1>0 DEF InHand
  <2>7. run.mem.claude \in Undelivered => Unprompted(r)
    BY <1>0, <2>1 DEF InHand
  <2>8. Traced(r)'
    BY <1>0, <2>2, <2>4, <2>7 DEF File, Traced, Unprompted, Evident
  <2>9. Kept(r)'
    BY <1>0, <2>1, <2>2, <2>4, <2>5, <2>6 DEF File, Kept
  <2> QED BY <2>3, <2>8, <2>9 DEF File
<1>6. CASE ReleaseClaim
  BY <1>0, <1>6, FileKept DEF ReleaseClaim, Same
<1> QED BY <1>1, <1>2, <1>3, <1>4, <1>5, <1>6 DEF Broker, Session

\* No step breaks what is known of the files.
LEMMA FiledStep == Inv /\ [Next]_vars => Filed'
<1> SUFFICES ASSUME Inv, [Next]_vars, NEW r \in Rounds PROVE File(r)'
  BY DEF Filed, File
<1>1. CASE Broker
  BY <1>1, FiledAtWork, FiledElsewhere
<1> QED BY <1>1, FiledAround, FiledStarting, FiledPolled, FiledHelped DEF Next

-----------------------------------------------------------------------------
(* The broker's memory of its round.                                       *)

\* What was written down is what the broker goes on with.
LEMMA InHandWriting ==
  ASSUME Inv, \/ KeepGrok \/ AskGrok \/ (\E out \in Outcomes : GrokEnds(out))
              \/ KeepClaude \/ BeginClaude \/ SettleClaude
  PROVE  InHand'
<1> PICK r : r = run.round
  OBVIOUS
<1>1. PICK mem \in Pair, next \in Memory :
           /\ Writing(mem, next) /\ run.step = "working" /\ next.round = run.round
           /\ next.step = "working" /\ next.retry = run.retry /\ next.auto = run.auto
           /\ next.model = run.model
           /\ \A a \in obtained[run.round] : mem[a] = "answered"
           /\ \/ /\ KeepGrok \/ AskGrok \/ \E out \in Outcomes : GrokEnds(out)
                 /\ mem.claude = run.mem.claude /\ next.claude = run.claude /\ next.out = run.out
                 /\ next.grok = "done" \/ (next.grok = "asked" /\ mem.grok = "none")
              \/ /\ KeepClaude /\ mem = run.mem /\ next.grok = run.grok /\ next.claude = "done"
              \/ /\ BeginClaude /\ mem.grok = run.mem.grok /\ mem.claude = "none"
                 /\ next.grok = run.grok
                 /\ \/ fallback[run.round] = None /\ next.claude = "asked"
                    \/ fallback[run.round] # None /\ next.claude = "final"
              \/ /\ SettleClaude /\ mem.grok = run.mem.grok /\ mem.claude = run.out
                 /\ next.grok = run.grok /\ next.claude = "done"
  BY Writings
<1>2. InHand /\ Asking /\ Has(r, {Requested}) /\ shown[r] = "none" /\ File(r) /\ r \in Rounds
      /\ run \in Memory
  BY <1>1, Working
<1>3. /\ slots'[r] = mem /\ \A a \in obtained'[r] : mem[a] = "answered"
      /\ run'.mem = mem /\ run'.round = run.round /\ run'.step = "working"
      /\ run'.retry = run.retry /\ run'.grok = next.grok /\ run'.claude = next.claude
      /\ run'.model = run.model /\ run'.out = next.out
  BY <1>1, Persisting DEF Writing
<1>4. UNCHANGED <<gen, life, lock, retired, shown, journal, cache, fallback, dir, cleanup, helper, prompts>>
  BY <1>1 DEF Writing, outside
<1>5. ClaudeKept' <=> (run.retry /\ mem.claude \notin Undelivered)
  BY <1>3 DEF ClaudeKept
<1>6. CASE /\ KeepGrok \/ AskGrok \/ \E out \in Outcomes : GrokEnds(out)
           /\ mem.claude = run.mem.claude /\ next.claude = run.claude /\ next.out = run.out
           /\ next.grok = "done" \/ (next.grok = "asked" /\ mem.grok = "none")
  <2>1. Asking'
    BY <1>2, <1>3, <1>4, <1>5, <1>6 DEF Asking, ClaudeKept, Clear, Suits, Has, Unprompted
  <2> QED BY <1>2, <1>3, <1>4, <1>6, <2>1 DEF InHand, Has, Unprompted
<1>7. CASE KeepClaude /\ mem = run.mem /\ next.grok = run.grok /\ next.claude = "done"
  <2>1. run.claude = "due"
    BY <1>7 DEF KeepClaude, At
  <2>2. Asking'
    BY <1>3, <1>4, <1>7 DEF Asking
  <2> QED BY <1>2, <1>3, <1>4, <1>7, <2>1, <2>2 DEF InHand, Has, Unprompted
<1>8. CASE /\ BeginClaude /\ mem.grok = run.mem.grok /\ mem.claude = "none"
           /\ next.grok = run.grok
           /\ \/ fallback[run.round] = None /\ next.claude = "asked"
              \/ fallback[run.round] # None /\ next.claude = "final"
  <2>1. run.claude = "due" /\ run.model = "fable" /\ Clear(r) /\ Unprompted(r)
    BY <1>2, <1>8 DEF BeginClaude, At, Asking
  <2>2. Asking'
    BY <1>2, <1>3, <1>4, <1>8, <2>1 DEF Asking, Clear, Suits, Has, Unprompted
  <2> QED BY <1>2, <1>3, <1>4, <1>8, <2>2 DEF InHand, Has, Unprompted
<1>9. CASE /\ SettleClaude /\ mem.grok = run.mem.grok /\ mem.claude = run.out
           /\ next.grok = run.grok /\ next.claude = "done"
  <2>1. run.out \in Undelivered => Unprompted(r)
    BY <1>2, <1>9 DEF SettleClaude, At, Asking
  <2>2. Asking'
    BY <1>3, <1>4, <1>9 DEF Asking
  <2> QED BY <1>2, <1>3, <1>4, <1>9, <2>1, <2>2 DEF InHand, Has, Unprompted
<1> QED BY <1>1, <1>6, <1>7, <1>8, <1>9

\* The session goes on only from where it may.
LEMMA InHandSession ==
  ASSUME Inv, Session
  PROVE  InHand'
<1> PICK r : r = run.round
  OBVIOUS
<1>1. /\ run'.step = "working" /\ run'.round = run.round /\ run'.mem = run.mem
      /\ run'.grok = run.grok /\ run'.retry = run.retry
      /\ UNCHANGED <<outside, journal, slots, cache, obtained, prompts>>
  BY SessionFrame
<1>2. InHand /\ Asking /\ Has(r, {Requested}) /\ shown[r] = "none" /\ File(r) /\ r \in Rounds
      /\ run \in Memory /\ TypeOK
  BY SessionFrame, Working DEF Inv
<1>3. UNCHANGED <<shown, journal, slots, cache, obtained, prompts>>
  BY <1>1 DEF outside
<1>4. SUFFICES Asking' /\ run'.claude \notin {"due", "done"}
  BY <1>1, <1>2, <1>3 DEF InHand, Has
<1>5. CASE /\ run'.claude = "result" /\ run'.out = "unsent"
           /\ \/ ClaudeUnavailable /\ run.claude = "asked"
              \/ DiscardClaude /\ run.claude = "prepared"
  <2>1. /\ run.claude \in {"asked", "prepared"} /\ run'.claude = "result" /\ run'.out = "unsent"
        /\ run'.model = run.model
    BY <1>5, SessionFrame DEF RetireFable, At
  <2>2. Suits(r, run.model) /\ Unprompted(r)
    BY <1>2, <2>1 DEF Asking, Suits, Unprompted
  <2>3. UNCHANGED fallback
    BY <1>5 DEF ClaudeUnavailable, DiscardClaude
  <2> QED BY <1>1, <1>2, <1>3, <2>1, <2>2, <2>3 DEF Asking, Suits, Unprompted
<1>6. CASE \/ PrepareClaude /\ run.claude = "asked" /\ run'.claude = "prepared"
           \/ OpenClaude /\ run.claude = "prepared" /\ run'.claude \in {"opened", "closing"}
  <2>1. /\ run.claude \in {"asked", "prepared"} /\ run'.claude \in {"prepared", "opened", "closing"}
        /\ run'.model = run.model
    BY <1>6, SessionFrame DEF RetireFable, At
  <2>2. dir'[r] # None
    <3>1. CASE PrepareClaude
      <4>1. [opened |-> FALSE, sent |-> FALSE] \in Folders
        BY DEF Folders
      <4>2. dir'[r] = [opened |-> FALSE, sent |-> FALSE]
        BY <1>2, <3>1 DEF PrepareClaude, TypeOK
      <4> QED BY <4>1, <4>2, NothingAssumption
    <3>2. CASE OpenClaude
      <4>1. dir[r] \in Folders
        BY <1>2, <3>2, RoundTyped DEF Asking, OpenClaude, At
      <4>2. [dir[r] EXCEPT !.opened = TRUE] \in Folders
        BY <4>1 DEF Folders
      <4>3. dir'[r] = [dir[r] EXCEPT !.opened = TRUE]
        BY <1>2, <3>2 DEF OpenClaude, TypeOK
      <4> QED BY <4>2, <4>3, NothingAssumption
    <3> QED BY <1>6, <3>1, <3>2
  <2>3. UNCHANGED <<fallback, cleanup>>
    BY <1>6 DEF PrepareClaude, OpenClaude
  <2> QED BY <1>1, <1>2, <1>3, <2>1, <2>2, <2>3 DEF Asking, Suits, Clear, Has
<1>7. CASE SendStarts
  <2>1. run.claude = "opened" /\ run'.claude = "sending" /\ run'.model = run.model
    BY <1>7, SessionFrame DEF SendStarts, RetireFable, At
  <2>2. helper' # None
    <3>1. helper' \in Helpers
      BY <1>2, <1>7, MemoryFields DEF SendStarts, Helpers
    <3> QED BY <3>1, NothingAssumption
  <2>3. UNCHANGED <<fallback, cleanup, dir>>
    BY <1>7 DEF SendStarts
  <2> QED BY <1>1, <1>2, <1>3, <2>1, <2>2, <2>3 DEF Asking, Suits, Clear, Has
<1>8. CASE \/ SendEnds /\ run.claude = "sending" /\ run'.claude \in {"closing", "waiting"}
           \/ /\ \E how \in Waits : WaitEnds(how)
              /\ run.claude = "waiting" /\ run'.claude = "closing"
           \/ CloseClaude /\ run.claude = "closing" /\ run'.claude = "closed"
  <2>1. /\ run.claude \in {"sending", "waiting", "closing"}
        /\ run'.claude \in {"waiting", "closing", "closed"} /\ run'.model = run.model
    BY <1>8, SessionFrame DEF RetireFable, At
  <2>2. UNCHANGED <<fallback, cleanup, dir>>
    BY <1>8 DEF SendEnds, WaitEnds, CloseClaude
  <2> QED BY <1>1, <1>2, <1>3, <2>1, <2>2 DEF Asking, Suits, Clear, Has
<1>9. CASE /\ CloseFails /\ run.claude = "closing"
           /\ run'.claude = "result" /\ run'.out \in {"residual", "live"}
  <2>1. /\ run.claude = "closing" /\ run'.claude = "result" /\ run'.out \in {"residual", "live"}
        /\ run'.model = run.model
    BY <1>9, SessionFrame DEF RetireFable, At
  <2>2. UNCHANGED <<fallback, cleanup, dir>>
    BY <1>9 DEF CloseFails
  <2> QED BY <1>1, <1>2, <1>3, <2>1, <2>2 DEF Asking, Suits, Undelivered
<1>10. CASE RecordCleanup
  <2>1. run.claude = "closed" /\ run'.claude = "recorded" /\ run'.model = run.model
    BY <1>10, SessionFrame DEF RecordCleanup, RetireFable, At
  <2>2. cleanup'[r] = [delivered |-> dir[r].sent] /\ UNCHANGED <<fallback, dir>>
    BY <1>2, <1>10, <2>1 DEF Asking, RecordCleanup, TypeOK, Clear
  <2> QED BY <1>1, <1>2, <1>3, <2>1, <2>2 DEF Asking, Suits
<1>11. CASE RemoveDirectory
  <2>1. /\ run.claude = "recorded" /\ run'.claude = "result" /\ run'.model = run.model
        /\ run'.out \in Undelivered => ~dir[r].sent
    BY <1>11, SessionFrame DEF RemoveDirectory, RetireFable, At
  <2>2. cleanup[r] = [delivered |-> dir[r].sent] /\ dir[r] # None
    BY <1>2, <2>1 DEF Asking
  <2>3. [delivered |-> dir[r].sent] \in Cleanups
    BY <1>2, <2>2, RoundTyped DEF Cleanups
  <2>4. Evident(r) => dir[r].sent
    BY <2>2, <2>3, NothingAssumption DEF Evident
  <2>5. run'.out \in Undelivered => Unprompted(r)
    BY <1>2, <2>1, <2>4 DEF File, Traced
  <2>6. UNCHANGED fallback
    BY <1>11 DEF RemoveDirectory
  <2> QED BY <1>1, <1>2, <1>3, <2>1, <2>5, <2>6 DEF Asking, Suits, Unprompted
<1>12. CASE ClaimFallback
  <2>1. run.claude = "result" /\ run'.claude = "claimed" /\ run.model = "fable" /\ run'.model = "fable"
    BY <1>12, SessionFrame DEF ClaimFallback, RetireFable, Switches, At
  <2>2. fallback'[r] # None
    <3>1. [done |-> FALSE, out |-> "none"] \in Fallbacks
      BY DEF Fallbacks, ClaudeOutcomes
    <3>2. fallback'[r] = [done |-> FALSE, out |-> "none"]
      BY <1>2, <1>12 DEF ClaimFallback, TypeOK
    <3> QED BY <3>1, <3>2, NothingAssumption
  <2>3. prompts[r]["opus"] = 0
    <3>1. fallback[r] = None /\ prompts[r]["opus"] \in 0..2
      BY <1>2, <2>1 DEF Asking, Suits, TypeOK, Models
    <3> QED BY <1>2, <3>1 DEF File, Traced
  <2> QED BY <1>1, <1>2, <1>3, <2>1, <2>2, <2>3 DEF Asking
<1>13. CASE RetireFable
  <2>1. run.claude = "claimed" /\ run'.claude = "asked" /\ run'.model = "opus"
    BY <1>13, SessionFrame DEF RetireFable, At
  <2>2. cleanup'[r] = None /\ UNCHANGED fallback
    BY <1>2, <1>13 DEF RetireFable, TypeOK
  <2> QED BY <1>1, <1>2, <1>3, <2>1, <2>2 DEF Asking, Suits, Clear, Has
<1>14. CASE FinishFallback
  <2>1. run.claude = "result" /\ run'.claude = "final" /\ run.model = "opus" /\ run'.model = "opus"
        /\ run'.out = run.out
    BY <1>14, SessionFrame DEF FinishFallback, RetireFable, At
  <2>2. fallback'[r] # None
    <3>1. [done |-> TRUE, out |-> run.out] \in Fallbacks
      BY <1>2, MemoryFields DEF Fallbacks
    <3>2. fallback'[r] = [done |-> TRUE, out |-> run.out]
      BY <1>2, <1>14 DEF FinishFallback, TypeOK
    <3> QED BY <3>1, <3>2, NothingAssumption
  <2> QED BY <1>1, <1>2, <1>3, <2>1, <2>2 DEF Asking, Suits, Unprompted
<1> QED BY <1>5, <1>6, <1>7, <1>8, <1>9, <1>10, <1>11, <1>12, <1>13, <1>14, SessionFrame

\* A poll of one round leaves the others alone.
LEMMA PolledElsewhere ==
  ASSUME TypeOK, NEW q \in Rounds, Poll(q), NEW r \in Rounds, r # q
  PROVE  journal'[r] = journal[r] /\ cache'[r] = cache[r] /\ shown'[r] = shown[r]
<1>1. PICK seen : shown' = [shown EXCEPT ![q] = seen]
  BY DEF Poll
<1>2. UNCHANGED journal \/ \E j : journal' = [journal EXCEPT ![q] = j]
  BY Zenon DEF Poll
<1>3. UNCHANGED cache \/ \E c : cache' = [cache EXCEPT ![q] = c]
  BY Zenon DEF Poll
<1> QED BY <1>1, <1>2, <1>3 DEF TypeOK

\* A round is taken in hand with what is known of it, and until it is over nobody else
\* has to do with it.
LEMMA InHandStep == Inv /\ [Next]_vars /\ run'.round # None => InHand'
<1> SUFFICES ASSUME Inv, [Next]_vars, run'.round # None PROVE InHand'
  OBVIOUS
<1>0. run' \in Memory /\ TypeOK' /\ run \in Memory /\ TypeOK
  BY TypeStep DEF Inv, Lived
<1>a. ASSUME run.round # None, UNCHANGED <<journal, slots, cache, fallback, dir, cleanup, run, shown,
                                           helper, prompts, obtained>>
      PROVE  InHand'
  <2>1. InHand
    BY <1>a DEF Inv
  <2> QED BY <1>a, <2>1 DEF InHand, Asking, ClaudeKept, Clear, Suits, Unprompted, Has
<1>1. CASE UNCHANGED vars \/ InputArrives \/ GenerationStarts
  BY <1>1, <1>a DEF vars, files, InputArrives, GenerationStarts
<1>2. CASE GenerationEnds
  BY <1>2, IdleInMemory DEF GenerationEnds
<1>3. CASE Retirement \/ \E r \in Rounds : Reconcile(r)
  <2>1. run' = run /\ life # "up"
    BY <1>3 DEF Retirement, Reap, Retire, FinaliseJournal, FinaliseLock, FinaliseReceipt, Reconcile,
       Inv, Lived, files
  <2> QED BY <2>1, IdleInMemory DEF Inv, Lived
<1>4. CASE Starts
  <2>1. ASSUME NEW r \in Rounds, ContinueFails(r) PROVE FALSE
    BY <2>1 DEF ContinueFails, Free
  <2>2. ASSUME NEW r \in Rounds, NEW with \in Memory, Starting(r, with) PROVE InHand'
    <3>1. /\ run'.round = r /\ run'.step = "claimed" /\ run'.mem = with.mem /\ run'.retry = with.retry
          /\ run'.grok = "due" /\ run'.claude = "due" /\ run'.model = "fable"
          /\ shown'[r] = "none" /\ UNCHANGED <<journal, fallback, prompts, obtained>>
      BY <1>0, <2>2, ClaimFrame DEF Starting, TypeOK
    <3>2. File(r)
      BY DEF Inv, Filed, File
    <3>3. /\ IF with.retry THEN Has(r, Terminal) ELSE journal[r] = None /\ with.mem = Empty
          /\ \A a \in obtained[r] : with.mem[a] = "answered"
          /\ with.mem.claude \in Undelivered => Unprompted(r)
      <4>1. CASE ~with.retry /\ journal[r] = None /\ with.mem = Empty
        BY <3>2, <4>1 DEF File, Blank, Empty, Undelivered
      <4>2. CASE with.retry /\ Recovered(r, TRUE) /\ with.mem = RecoveredPair(r)
        BY <4>2, Offerable
      <4>3. CASE with.retry /\ Restored(r) /\ journal[r].recovered = "no" /\ with.mem = cache[r].was
        <5>1. Has(r, Terminal) /\ \A a \in obtained[r] : cache[r].was[a] = "answered"
          BY <4>3, Offerable DEF Agreed
        <5>2. cache[r].was.claude \in Undelivered => Unprompted(r)
          BY <4>3, Offerable
        <5> QED BY <4>3, <5>1, <5>2
      <4> QED BY <2>2, <4>1, <4>2, <4>3 DEF Starting
    <3> QED BY <3>1, <3>3 DEF InHand, Has, Unprompted, Empty
  <2> QED BY <1>4, <2>1, <2>2, StartFrame
<1>5. CASE WritesRequest
  <2> PICK r : r = run.round
    OBVIOUS
  <2>1. InHand /\ r \in Rounds /\ File(r) /\ run.step = "claimed"
    BY <1>5, AtWork DEF WritesRequest, Inv, Filed, File
  <2>2. /\ run'.round = run.round /\ run'.step = "working" /\ run'.mem = run.mem
        /\ run'.grok = "due" /\ run'.claude = "due" /\ run'.model = "fable"
        /\ run'.retry = run.retry
    BY <1>0, <1>5, <2>1 DEF WritesRequest, Memory, InHand
  <2>3. UNCHANGED <<slots, cache, fallback, dir, shown, prompts, obtained>>
    BY <1>5 DEF WritesRequest
  <2>4. journal'[r].status = Requested
        /\ journal'[r].was = IF run.retry
                             THEN [journal[r].was EXCEPT !.claude =
                                     IF run.mem.claude \in Undelivered THEN "none" ELSE @]
                             ELSE Empty
    BY <1>0, <1>5, <2>1 DEF WritesRequest, TypeOK
  <2>5. journal'[r] # None
    BY <1>5, JournalAtWork
  <2>6. ASSUME ~ClaudeKept
        PROVE  journal'[r].was.claude = "none" /\ cleanup'[r] = None /\ Unprompted(r)
    <3>1. CASE run.retry
      <4>1. run.mem.claude \in Undelivered /\ Unprompted(r)
        BY <2>1, <2>6, <3>1 DEF ClaudeKept, InHand
      <4>2. journal[r].was \in Pair
        BY <2>1, <3>1, RoundTyped, JournalFields DEF InHand, Has
      <4> QED BY <1>0, <1>5, <2>1, <2>4, <3>1, <4>1, <4>2 DEF WritesRequest, TypeOK, Pair
    <3>2. CASE ~run.retry
      <4>1. Blank(r)
        BY <2>1, <3>2 DEF InHand, File
      <4> QED BY <1>5, <2>4, <3>2, <4>1 DEF WritesRequest, Empty, Blank, Unprompted, Models
    <3> QED BY <3>1, <3>2
  <2>7. Has(r, {Requested})'
    BY <2>2, <2>4, <2>5 DEF Has
  <2>8. ClaudeKept' <=> ClaudeKept
    BY <2>2 DEF ClaudeKept
  <2>9. Asking'
    BY <2>2, <2>3, <2>6, <2>7, <2>8 DEF Asking, Clear, Unprompted
  <2> QED BY <2>1, <2>2, <2>3, <2>7, <2>9 DEF InHand, Unprompted
<1>6. CASE \/ KeepGrok \/ AskGrok \/ (\E out \in Outcomes : GrokEnds(out))
           \/ KeepClaude \/ BeginClaude \/ SettleClaude
  BY <1>6, InHandWriting
<1>7. CASE Session
  BY <1>7, InHandSession
<1>8. CASE FinishCache
  <2> PICK r : r = run.round
    OBVIOUS
  <2>1. InHand /\ r \in Rounds /\ run.step = "working" /\ run.grok = "done" /\ run.claude = "done"
        /\ journal[r] \in Journals /\ Has(r, {Requested})
    BY <1>8, Working, RoundTyped DEF FinishCache, Has
  <2>2. /\ run'.round = run.round /\ run'.step = "cached" /\ run'.mem = run.mem
        /\ run'.grok = run.grok /\ run'.claude = run.claude /\ run'.retry = run.retry
    BY <1>0, <1>8 DEF FinishCache, Memory
  <2>3. UNCHANGED <<shown, fallback, prompts, obtained>>
    BY <1>8 DEF FinishCache, outside
  <2>4. cache'[r] = [was |-> run.mem, rec |-> run.rec] /\ cache'[r] # None
    <3>1. [was |-> run.mem, rec |-> run.rec] \in Caches
      BY <1>0, MemoryFields DEF Caches
    <3> QED BY <1>0, <1>8, <2>1, <3>1, NothingAssumption DEF FinishCache, TypeOK
  <2>5. journal'[r].status = Requested /\ journal'[r] # None
    BY <1>0, <1>8, <2>1, JournalAtWork DEF FinishCache, TypeOK, Journals, Has
  <2> QED BY <2>1, <2>2, <2>3, <2>4, <2>5 DEF InHand, Unprompted, Has
<1>9. CASE FinishJournal
  <2> PICK r : r = run.round
    OBVIOUS
  <2>1. InHand /\ r \in Rounds /\ run.step = "cached" /\ run.grok = "done" /\ run.claude = "done"
        /\ journal[r] \in Journals
    BY <1>9, AtWork, RoundTyped DEF FinishJournal, InHand, Has
  <2>2. /\ run'.round = run.round /\ run'.step = "written" /\ run'.mem = run.mem
        /\ run'.grok = run.grok /\ run'.claude = run.claude /\ run'.retry = run.retry
    BY <1>0, <1>9 DEF FinishJournal, Memory
  <2>3. UNCHANGED <<fallback, prompts, obtained>>
    BY <1>9 DEF FinishJournal
  <2>4. journal'[r].status \in Terminal /\ journal'[r] # None
    BY <1>0, <1>9, <2>1, JournalAtWork DEF FinishJournal, TypeOK, Journals, Terminal
  <2> QED BY <2>1, <2>2, <2>3, <2>4 DEF InHand, Unprompted, Has
<1>10. CASE ReleaseClaim
  BY <1>10, IdleInMemory DEF ReleaseClaim
<1>11. CASE HelperRecords \/ HelperTypes
  <2>1. run' = run /\ helper # None /\ helper' # None
    <3>1. helper' \in Helpers
      BY <1>0, <1>11 DEF HelperRecords, HelperTypes, TypeOK, Helpers
    <3> QED BY <1>11, <3>1, NothingAssumption DEF HelperRecords, HelperTypes
  <2>2. InHand /\ life = "up" /\ run.round \in Rounds
    BY <2>1, AtWork DEF Inv, Lived
  <2>3. run.round = helper.round /\ run.claude = "sending" /\ run.step = "working"
    BY <2>1, <2>2, BesideHelper
  <2>4. UNCHANGED <<journal, slots, cache, fallback, cleanup, shown, obtained>>
    BY <1>11 DEF HelperRecords, HelperTypes, outside
  <2>5. dir[run.round] # None => dir'[run.round] # None
    <3>1. CASE HelperRecords
      <4>1. dir[run.round] \in Folders
        BY <2>2, <2>3, <3>1, RoundTyped DEF HelperRecords
      <4>2. [dir[run.round] EXCEPT !.sent = TRUE] \in Folders
        BY <4>1 DEF Folders
      <4>3. dir'[run.round] = [dir[run.round] EXCEPT !.sent = TRUE]
        BY <1>0, <2>2, <2>3, <3>1 DEF HelperRecords, TypeOK
      <4> QED BY <4>2, <4>3, NothingAssumption
    <3>2. CASE HelperTypes
      BY <3>2 DEF HelperTypes
    <3> QED BY <1>11, <3>1, <3>2
  <2> QED BY <2>1, <2>2, <2>3, <2>4, <2>5 DEF InHand, Asking, Clear, Suits, Has
<1>12. ASSUME NEW q \in Rounds, Poll(q) PROVE InHand'
  <2>1. run' = run /\ run.round # None /\ run.round # q /\ run.round \in Rounds /\ InHand
    BY <1>12, RoundTyped DEF Poll, Inv
  <2>2. journal'[run.round] = journal[run.round] /\ cache'[run.round] = cache[run.round]
        /\ shown'[run.round] = shown[run.round]
    BY <1>0, <1>12, <2>1, PolledElsewhere
  <2>3. UNCHANGED <<slots, fallback, dir, cleanup, helper, prompts, obtained>>
    BY <1>12 DEF Poll
  <2> QED BY <2>1, <2>2, <2>3 DEF InHand, Asking, ClaudeKept, Clear, Suits, Unprompted, Has
<1> QED BY <1>1, <1>2, <1>3, <1>4, <1>5, <1>6, <1>7, <1>8, <1>9, <1>10, <1>11, <1>12
        DEF Next, Job, Broker, Session

-----------------------------------------------------------------------------
(* The theorems.                                                           *)

\* The invariant holds at first, and every step keeps it.
LEMMA InitInv == Init => Inv
<1> SUFFICES ASSUME Init PROVE Inv
  OBVIOUS
<1>1. TypeOK /\ run \in Memory
  BY InitTyped
<1>2. Lived
  BY <1>1, IdleInMemory DEF Init, Lived
<1>3. ASSUME NEW r \in Rounds PROVE journal[r] = None /\ Blank(r) /\ Traced(r) /\ Kept(r)
  <2>1. Blank(r) /\ journal[r] = None /\ fallback[r] = None
    BY DEF Init, Blank
  <2>2. \A m \in Models : prompts[r][m] <= 1 /\ prompts[r][m] = 0
    BY <2>1 DEF Blank
  <2> QED BY <2>1, <2>2 DEF Blank, Traced, Kept, Unprompted, Has, Empty, Undelivered, Models
<1> QED BY <1>1, <1>2, <1>3, IdleInMemory DEF Init, Inv, Filed

\* The invariant holds in every behaviour of the broker, its helper and the runner.
THEOREM Invariance == Spec => []Inv
<1>1. Init => Inv
  BY InitInv
<1>2. Inv /\ [Next]_vars => Inv'
  BY TypeStep, LivedStep, FiledStep, InHandStep, HelpedStep DEF Inv
<1> QED BY <1>1, <1>2, PTL DEF Spec

\* What was answered is offered to the job again once nothing is pending.
LEMMA Survives == Inv => AnswersSurvive
<1> SUFFICES ASSUME Inv, NEW r \in Rounds, NEW a \in obtained[r]
             PROVE  /\ slots[r][a] = "answered"
                    /\ Readable(r) /\ lock = None /\ retired = None => Offered(r)[a] = "answered"
  BY DEF AnswersSurvive
<1>1. File(r)
  BY DEF Inv, Filed, File
<1>2. slots[r][a] = "answered"
  BY <1>1 DEF File, Kept
<1>3. ASSUME Readable(r), lock = None, retired = None
      PROVE  Offered(r)[a] = "answered"
  <2>1. Has(r, Terminal) /\ journal[r] \in Journals
    BY <1>3, RoundTyped DEF Readable, Has
  <2>2. journal[r].recovered \in {"no", "sealed", "spent"}
    BY <1>1, <1>3, <2>1, JournalFields DEF File, Kept
  <2>3. CASE journal[r].recovered = "sealed"
    <3>1. Recovered(r, TRUE)
      BY <1>1, <1>3, <2>1, <2>3 DEF File, Kept, Recovered, Has
    <3> QED BY <3>1, Offerable DEF Offered
  <2>4. CASE journal[r].recovered # "sealed"
    <3>1. Agreed(r)
      BY <1>1, <2>1, <2>2, <2>4 DEF File, Kept
    <3>2. Restored(r) /\ ~Recovered(r, TRUE)
      BY <1>3, <2>4, <3>1 DEF Restored, Agreed, Recovered
    <3> QED BY <3>2, Offerable DEF Offered
  <2> QED BY <2>3, <2>4
<1> QED BY <1>2, <1>3

\* Each model is prompted at most once in a round, Opus only once its claim is durable,
\* and an answer once saved is never lost: through every death of the broker, its
\* helper or the runner, every retry and every continuation.
THEOREM SafetyHolds == Spec => []Safety
<1>1. Inv => Safety
  <2>1. Inv => NeverAskedTwice
    BY DEF Inv, Filed, Traced, NeverAskedTwice
  <2> QED BY <2>1, Survives DEF Inv, Safety
<1> QED BY <1>1, Invariance, PTL
=============================================================================
