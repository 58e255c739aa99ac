----------------------------- MODULE MonitorFeed -----------------------------
(***************************************************************************)
(* The feeds of a job's monitor tab: the runner appends the job's status   *)
(* and output to bounded files, and a viewer in a terminal pane shows them.*)
(*                                                                         *)
(* The two share nothing but the files: per feed an epoch that names the   *)
(* selected generation and says whether it is sealed, the generations, and *)
(* the viewer's progress.  A full generation is replaced only once the     *)
(* viewer acknowledged it; the next one is written whole before the epoch  *)
(* selects it, so that a runner that dies in between can finish the swap.  *)
(*                                                                         *)
(* A byte is its number in the order the feed was written in, and every    *)
(* two bytes are one character; two more bytes stand for the line that     *)
(* announces omitted output and for the line that ends the feeds.  Stamps, *)
(* stripped controls, timeouts and failing writes are left out.            *)
(***************************************************************************)
EXTENDS Naturals, Sequences, SequencesExt

CONSTANTS
  Order,     \* the feeds, in the order a pass of the viewer takes them
  Final,     \* the feed whose last line ends them all: status
  Limit,     \* the bytes a generation may hold
  ReadMax,   \* the bytes one pass reads of a feed
  MaxBytes,  \* bound: bytes the job writes to a feed, an even number
  MaxCrash   \* bound: deaths of the runner

VARIABLES
  epoch,     \* the selected generation of a feed, and whether it is sealed
  files,     \* the generations on disk
  progress,  \* what the viewer acknowledged
  runner,    \* the runner's step; [swap |-> k] between a generation and its epoch
  made,      \* bytes of a feed that reached the disk
  viewer,    \* the pass of the viewer
  shown,     \* what the terminal shows of a feed
  crashes

vars == <<epoch, files, progress, runner, made, viewer, shown, crashes>>

Kinds   == ToSet(Order)
Omitted == 0
End     == MaxBytes + 1
Bytes   == 0..End
At      == [gen : Nat, off : Nat]
Steps   == {"working", "swapping", "down", "sealed", "marking", "ended", "closed"}

TypeOK ==
  /\ epoch \in [Kinds -> [gen : Nat, sealed : BOOLEAN]]
  /\ \A k \in Kinds :
       /\ epoch[k].gen \in DOMAIN files[k] /\ DOMAIN files[k] \subseteq 0..(epoch[k].gen + 1)
       /\ \A g \in DOMAIN files[k] : files[k][g] \in Seq(Bytes) /\ Len(files[k][g]) <= Limit
       /\ shown[k] \in Seq(Bytes \ {Omitted})
  /\ progress \in [Kinds -> At] /\ made \in [Kinds -> 0..MaxBytes]
  /\ runner.step \in Steps /\ runner.feed \in Kinds
  /\ viewer.step \in {"epoch", "chunk", "progress", "rest", "dead", "broken"}
  /\ viewer.i \in 1..Len(Order) /\ viewer.read \in [gen : Nat, sealed : BOOLEAN]
  /\ viewer.at \in [Kinds -> At] /\ viewer.drained \in BOOLEAN /\ crashes \in 0..MaxCrash

Start == [k \in Kinds |-> [gen |-> 0, off |-> 0]]

\* The tab is active: the viewer has read every feed once.
Init ==
  /\ epoch = [k \in Kinds |-> [gen |-> 0, sealed |-> FALSE]]
  /\ files = [k \in Kinds |-> [g \in {0} |-> <<>>]]
  /\ progress = Start /\ made = [k \in Kinds |-> 0]
  /\ runner = [step |-> "working", feed |-> Final]
  /\ viewer = [step |-> "epoch", i |-> 1, read |-> [gen |-> 0, sealed |-> FALSE],
               at |-> Start, drained |-> TRUE]
  /\ shown = [k \in Kinds |-> <<>>] /\ crashes = 0

Current(k) == files[k][epoch[k].gen]

-----------------------------------------------------------------------------
(* The runner *)

IsLead(b) == b % 2 = 1 /\ b # End

\* readIncompleteUtf8Carry: what is left unacknowledged; it may be the head of a character.
Carry(k) == SubSeq(Current(k), progress[k].off + 1, Len(Current(k)))

Drained(k) ==
  /\ progress[k].gen = epoch[k].gen
  /\ \/ Carry(k) = <<>>
     \/ Len(Carry(k)) = 1 /\ IsLead(Carry(k)[1])

\* appendFeed removes retired generations once the viewer acknowledged the
\* selected one, not when it was selected.
Retired(k) == IF progress[k].gen = epoch[k].gen THEN 0..(epoch[k].gen - 1) ELSE {}

Kept(k) == [g \in DOMAIN files[k] \ Retired(k) |-> files[k][g]]

Fits(k, value) == Len(Current(k)) + Len(value) <= Limit
NextGeneration(k, value) == <<Omitted>> \o Carry(k) \o value
Rotates(k, value) == ~ Fits(k, value) /\ Drained(k) /\ Len(NextGeneration(k, value)) <= Limit

\* appendFeed, to the generation or to a next one that its epoch does not select yet.
AppendFeed(k, value, then) ==
  /\ ~ epoch[k].sealed
  /\ \/ /\ Fits(k, value)
        /\ files' = [files EXCEPT ![k] = [Kept(k) EXCEPT ![epoch[k].gen] = @ \o value]]
        /\ runner' = [runner EXCEPT !.step = then]
     \/ /\ Rotates(k, value)
        /\ files' = [files EXCEPT ![k] =
                       [g \in DOMAIN Kept(k) \cup {epoch[k].gen + 1} |->
                          IF g = epoch[k].gen + 1 THEN NextGeneration(k, value) ELSE Kept(k)[g]]]
        /\ runner' = [step |-> "swapping", feed |-> k]

Numbers(from, n) == [i \in 1..n |-> from + i]

\* The job's output comes in any pieces, its status in lines.
Output(k) ==
  /\ runner.step = "working"
  /\ \E n \in IF k = Final THEN {2} ELSE {1, 2} :
       /\ made[k] + n <= MaxBytes /\ AppendFeed(k, Numbers(made[k], n), "working")
       /\ made' = [made EXCEPT ![k] = @ + n]
  /\ UNCHANGED <<epoch, progress, viewer, shown, crashes>>

Swap ==
  /\ runner.step = "swapping"
  /\ epoch' = [epoch EXCEPT ![runner.feed].gen = @ + 1]
  /\ runner' = [runner EXCEPT !.step = IF Last(files[runner.feed][epoch'[runner.feed].gen]) = End
                                       THEN "marking" ELSE "working"]
  /\ UNCHANGED <<files, progress, made, viewer, shown, crashes>>

RunnerDies ==
  /\ crashes < MaxCrash /\ runner.step \notin {"down", "closed"}
  /\ runner' = [runner EXCEPT !.step = "down"] /\ crashes' = crashes + 1
  /\ UNCHANGED <<epoch, files, progress, made, viewer, shown>>

\* initializeFeeds: a generation written whole is selected.
Adopted(k) == IF epoch[k].gen + 1 \in DOMAIN files[k]
              THEN [gen |-> epoch[k].gen + 1, sealed |-> FALSE] ELSE epoch[k]

Restart ==
  /\ runner.step = "down"
  /\ epoch' = [k \in Kinds |-> Adopted(k)]
  /\ runner' = [runner EXCEPT !.step = "working"]
  /\ UNCHANGED <<files, progress, made, viewer, shown, crashes>>

\* confirmLiveViewerDrain: the other feeds are sealed first, and waited for.
Seal ==
  /\ runner.step = "working" /\ viewer.step # "dead"
  /\ epoch' = [k \in Kinds |-> IF k = Final THEN epoch[k] ELSE [epoch[k] EXCEPT !.sealed = TRUE]]
  /\ runner' = [runner EXCEPT !.step = "sealed"]
  /\ UNCHANGED <<files, progress, made, viewer, shown, crashes>>

Covered(k) == progress[k].gen = epoch[k].gen /\ progress[k].off >= Len(Current(k))

\* The last line is appended, once more when a restart came before the seal.
Mark ==
  /\ runner.step = "sealed" /\ \A k \in Kinds : Covered(k)
  /\ \/ epoch[Final].sealed /\ runner' = [runner EXCEPT !.step = "marking"] /\ UNCHANGED files
     \/ AppendFeed(Final, <<End>>, "marking")
  /\ UNCHANGED <<epoch, progress, made, viewer, shown, crashes>>

SealFinal ==
  /\ runner.step = "marking"
  /\ epoch' = [epoch EXCEPT ![Final].sealed = TRUE]
  /\ runner' = [runner EXCEPT !.step = "ended"]
  /\ UNCHANGED <<files, progress, made, viewer, shown, crashes>>

\* The close of the tab, after a live viewer or a dead one that had shown everything.
Close ==
  /\ \/ runner.step = "ended"
     \/ runner.step = "working" /\ viewer.step = "dead" /\ epoch[Final].sealed
  /\ \A k \in Kinds : Covered(k)
  /\ runner' = [runner EXCEPT !.step = "closed"]
  /\ UNCHANGED <<epoch, files, progress, made, viewer, shown, crashes>>

-----------------------------------------------------------------------------
(* The viewer *)

Feed == Order[viewer.i]

\* The next feed of the pass, or the progress it ends with.
Onward(v) == IF v.i = Len(Order) THEN [v EXCEPT !.step = "progress"]
             ELSE [v EXCEPT !.step = "epoch", !.i = @ + 1]

ReadEpoch ==
  /\ viewer.step = "epoch"
  /\ viewer' = [viewer EXCEPT !.step = "chunk", !.read = epoch[Feed],
                              !.at[Feed] = IF @.gen = epoch[Feed].gen THEN @
                                           ELSE [gen |-> epoch[Feed].gen, off |-> 0]]
  /\ UNCHANGED <<epoch, files, progress, runner, made, shown, crashes>>

\* Mutant: a sealed feed is read like an open one.
AcknowledgedOpen(sealed, bytes) ==
  IF bytes # <<>> /\ IsLead(Last(bytes)) THEN Len(bytes) - 1 ELSE Len(bytes)

\* completeUtf8PrefixLength: of a feed that is not sealed, the head of a character
\* stays unacknowledged.
Acknowledged(sealed, bytes) ==
  IF ~ sealed /\ bytes # <<>> /\ IsLead(Last(bytes)) THEN Len(bytes) - 1 ELSE Len(bytes)

\* The feed is sealed and read to its end.
Finished(off, file) == viewer.read.sealed /\ off = Len(file)

ReadChunk ==
  /\ viewer.step = "chunk" /\ viewer.read.gen \in DOMAIN files[Feed]
  /\ LET file  == files[Feed][viewer.read.gen]
         off   == viewer.at[Feed].off
         bytes == SubSeq(file, off + 1, IF off + ReadMax < Len(file) THEN off + ReadMax ELSE Len(file))
         n     == Acknowledged(viewer.read.sealed, bytes)
     IN /\ shown' = [shown EXCEPT ![Feed] = @ \o SelectSeq(SubSeq(bytes, 1, n),
                                                         LAMBDA b : b # Omitted)]
        /\ viewer' = Onward([viewer EXCEPT !.at[Feed].off = @ + n,
                               !.drained = @ /\ Finished(off + n, file)])
  /\ UNCHANGED <<epoch, files, progress, runner, made, crashes>>

\* The generation it is about to open was removed: the viewer gives up.
OpenFails ==
  /\ viewer.step = "chunk" /\ viewer.read.gen \notin DOMAIN files[Feed]
  /\ viewer' = [viewer EXCEPT !.step = "broken"]
  /\ UNCHANGED <<epoch, files, progress, runner, made, shown, crashes>>

\* The pass is acknowledged; a viewer that showed every sealed byte rests for good.
WriteProgress ==
  /\ viewer.step = "progress"
  /\ progress' = viewer.at
  /\ viewer' = [viewer EXCEPT !.step = IF viewer.drained THEN "rest" ELSE "epoch",
                              !.i = 1, !.drained = TRUE]
  /\ UNCHANGED <<epoch, files, runner, made, shown, crashes>>

ViewerDies ==
  /\ viewer.step \notin {"dead", "broken"} /\ runner.step # "closed"
  /\ viewer' = [viewer EXCEPT !.step = "dead"]
  /\ UNCHANGED <<epoch, files, progress, runner, made, shown, crashes>>

-----------------------------------------------------------------------------
Closes == Swap \/ Restart \/ Seal \/ Mark \/ SealFinal \/ Close
Runner == (\E k \in Kinds : Output(k)) \/ Closes
Viewer == ReadEpoch \/ ReadChunk \/ OpenFails \/ WriteProgress
Next   == Runner \/ RunnerDies \/ Viewer \/ ViewerDies

\* The viewer loops until it rests; the runner ends the feeds of a job that ended
\* and goes on with a close it began.
Fairness == WF_vars(Viewer) /\ WF_vars(Closes)

Spec == Init /\ [][Next]_vars /\ Fairness

-----------------------------------------------------------------------------
(* Properties *)

\* What the viewer has yet to read: the rest of the generation it is in, or a next one.
Ahead(k) ==
  LET staged == epoch[k].gen + 1 \in DOMAIN files[k]
      last   == IF staged THEN files[k][epoch[k].gen + 1] ELSE Current(k)
      read   == IF staged \/ viewer.at[k].gen # epoch[k].gen THEN 0 ELSE viewer.at[k].off
  IN SelectSeq(SubSeq(last, read + 1, Len(last)), LAMBDA b : b \in 1..MaxBytes)

Told(k) == SelectSeq(shown[k], LAMBDA b : b # End)

\* Rotations, chunks that end inside a character and deaths of the runner at any
\* step lose no byte that reached the disk and show none twice or out of order.
NothingSkipped == \A k \in Kinds : Told(k) \o Ahead(k) = Numbers(0, made[k])

\* A viewer preempted between an epoch and its generation still finds the file.
ViewerFindsFile == viewer.step # "broken"

\* A tab is closed only when all that was written is on the terminal, and the line
\* that ends the feeds appears behind all that was written to the others.
ClosedIsComplete ==
  \A k \in Kinds : runner.step = "closed" \/ (k # Final /\ Contains(shown[Final], End))
                   => Told(k) = Numbers(0, made[k])

\* A close that was begun ends, unless the viewer died before it showed everything.
Rests == runner.step # "sealed" \/ viewer.step = "dead"
CloseEnds == <>[]Rests
=============================================================================
