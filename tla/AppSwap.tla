------------------------------ MODULE AppSwap ------------------------------
(***************************************************************************)
(* The verification build of an application in place of the operator's own *)
(* copy.  Brokers of several jobs share one place to put things aside; the *)
(* transaction written there before anything is moved names the two        *)
(* bundles by identity, and a bundle keeps its identity when it is moved.  *)
(*                                                                         *)
(* The operator also uses the folder, whenever the broker waits for a      *)
(* command; what it does between two system calls of one broker is the     *)
(* window "race".  A broker may die between any two steps.  Contents of    *)
(* archives, signatures and the launch of the application are left out: a  *)
(* command succeeds or not.                                                *)
(***************************************************************************)
EXTENDS Naturals, FiniteSets

CONSTANTS
  Brokers,    \* of jobs that may put a build in place
  MaxBuilds,  \* bound: builds put in place
  MaxFaults,  \* bound: deaths, failed commands and moves, and what the operator does
  Windows     \* {} or {"race"}: the operator also acts between two moves

Nothing == "nothing"
Own == {"original", "other"}   \* the operator's copies
Bundles == Own \cup Brokers     \* a build is named by its broker

VARIABLES
  target,   \* the bundle in the applications folder
  backup,   \* the one put aside
  journal,  \* the transaction: its original and its build, or NoJournal
  staging,  \* of each broker: the bundle in its staging directory
  held,     \* of each broker: the original and the backup it has seen
  lock,     \* the broker that holds the lock of the application
  pc,       \* of each broker
  builds,
  copies,   \* history: the operator's copies that it has not taken away
  faults

folder == <<target, backup, staging>>
vars == <<folder, journal, held, lock, pc, builds, copies, faults>>

Free == "free"
NoJournal == [original |-> Nothing, build |-> Nothing]
Moving == {"aside", "place", "back", "return"}   \* between two moves of one broker

TypeOK ==
  /\ target \in Bundles \cup {Nothing} /\ backup \in Bundles \cup {Nothing}
  /\ staging \in [Brokers -> Bundles \cup {Nothing}]
  /\ journal \in [original : Own \cup {Nothing}, build : Brokers \cup {Nothing}]
  /\ lock \in Brokers \cup {Free} /\ copies \subseteq Own
  /\ pc \in [Brokers -> {"idle", "check", "stage", "begin", "look", "quit", "clean", "done"} \cup Moving]
  /\ builds \in 0..MaxBuilds /\ faults \in 0..MaxFaults

Init ==
  /\ target \in {"original", Nothing} /\ backup = Nothing /\ journal = NoJournal
  /\ staging = [b \in Brokers |-> Nothing]
  /\ held = [b \in Brokers |-> <<Nothing, Nothing>>] /\ lock = Free
  /\ pc = [b \in Brokers |-> "idle"] /\ builds = 0 /\ copies = {target} \ {Nothing} /\ faults = 0

Goto(b, p) == pc' = [pc EXCEPT ![b] = p]
Leave(b) == pc' = [pc EXCEPT ![b] = "idle"] /\ lock' = Free
Fault == faults < MaxFaults /\ faults' = faults + 1

-----------------------------------------------------------------------------
(* Putting a build in place *)

Install(b) ==
  /\ pc[b] = "idle" /\ lock = Free /\ builds < MaxBuilds
  /\ lock' = b /\ builds' = builds + 1 /\ Goto(b, "check")
  /\ UNCHANGED <<folder, journal, held, copies, faults>>

\* One build at a time, and none over what an earlier one has put aside.
Taken == journal # NoJournal \/ backup # Nothing
Stage(b) ==
  /\ pc[b] = "check"
  /\ IF Taken THEN Leave(b) /\ staging' = staging
     ELSE /\ staging' = [staging EXCEPT ![b] = b] /\ Goto(b, "stage") /\ lock' = lock
  /\ UNCHANGED <<target, backup, journal, held, builds, copies, faults>>

\* The archive is refused, or a command fails: the staging directory goes.
Abandon(b) ==
  /\ pc[b] = "stage" /\ Fault /\ staging' = [staging EXCEPT ![b] = Nothing] /\ Leave(b)
  /\ UNCHANGED <<target, backup, journal, held, builds, copies>>

\* The application was stopped, the build signed; the transaction comes before the
\* first move.
Begin(b) ==
  /\ pc[b] = "stage"
  /\ journal' = [original |-> target, build |-> b]
  /\ Goto(b, IF target = Nothing THEN "place" ELSE "aside")
  /\ UNCHANGED <<folder, held, lock, builds, copies, faults>>

Aside(b) ==
  /\ pc[b] = "aside" /\ target # Nothing /\ backup' = target /\ target' = Nothing /\ Goto(b, "place")
  /\ UNCHANGED <<staging, journal, held, lock, builds, copies, faults>>
Place(b) ==
  /\ pc[b] = "place" /\ target = Nothing
  /\ target' = staging[b] /\ staging' = [staging EXCEPT ![b] = Nothing] /\ Leave(b)
  /\ UNCHANGED <<backup, journal, held, builds, copies, faults>>

\* A move fails: what was done is undone at once.
MoveFails(b) ==
  /\ pc[b] \in {"aside", "place"} /\ Fault
  /\ Goto(b, "look")
  /\ UNCHANGED <<folder, journal, held, lock, builds, copies>>

-----------------------------------------------------------------------------
(* Putting the operator's copy back *)

Restore(b) ==
  /\ pc[b] = "idle" /\ lock = Free /\ journal # NoJournal
  /\ lock' = b /\ Goto(b, "look")
  /\ UNCHANGED <<folder, journal, held, builds, copies, faults>>

\* What the folder may hold for a restore: the build or the original, with the
\* original in one of the two places if there was one.
Fits ==
  /\ target \in {Nothing, journal.build, journal.original}
  /\ backup \in {Nothing, journal.original}
  /\ journal.original # Nothing => journal.original \in {target, backup}
Look(b) ==
  /\ pc[b] = "look"
  /\ IF Fits THEN held' = [held EXCEPT ![b] = <<target, backup>>] /\ Goto(b, "quit") /\ lock' = lock
     ELSE Leave(b) /\ held' = held
  /\ UNCHANGED <<folder, journal, builds, copies, faults>>

\* The build is stopped; whatever changed meanwhile is left alone.
Quit(b) ==
  /\ pc[b] = "quit"
  /\ \/ /\ held[b] = <<target, backup>>
        /\ Goto(b, IF target = journal.build THEN "back" ELSE "return") /\ lock' = lock /\ faults' = faults
     \/ held[b] # <<target, backup>> /\ Leave(b) /\ faults' = faults
     \/ Leave(b) /\ Fault
  /\ UNCHANGED <<folder, journal, held, builds, copies>>

\* The build goes to the staging directory of its broker, the original to its place.
Back(b) ==
  /\ pc[b] = "back"
  /\ staging' = [k \in Brokers |-> IF k = journal.build THEN target ELSE staging[k]]
  /\ target' = Nothing /\ Goto(b, "return")
  /\ UNCHANGED <<backup, journal, held, lock, builds, copies, faults>>
Return(b) ==
  /\ pc[b] = "return"
  /\ IF held[b][2] # Nothing /\ held[b][1] # journal.original
     THEN target' = held[b][2] /\ backup' = Nothing
     ELSE UNCHANGED <<target, backup>>
  /\ Goto(b, "clean")
  /\ UNCHANGED <<staging, journal, held, lock, builds, copies, faults>>
Clean(b) ==
  /\ pc[b] = "clean"
  /\ staging' = [k \in Brokers |-> IF k = journal.build THEN Nothing ELSE staging[k]]
  /\ journal' = NoJournal /\ Leave(b)
  /\ UNCHANGED <<target, backup, held, builds, copies, faults>>

\* The transaction stays when the directory is gone already.
CleanHalf(b) ==
  /\ pc[b] = "clean" /\ Fault
  /\ staging' = [k \in Brokers |-> IF k = journal.build THEN Nothing ELSE staging[k]]
  /\ Leave(b)
  /\ UNCHANGED <<target, backup, journal, held, builds, copies>>

-----------------------------------------------------------------------------
(* Around them *)

\* A broker dies; the lock of a dead process is taken over.
Die(b) ==
  /\ Fault /\ pc[b] # "idle" /\ Leave(b)
  /\ UNCHANGED <<folder, journal, held, builds, copies>>

\* The operator removes what is in the folder, or puts another copy there.
Meddles ==
  /\ Fault /\ ("race" \in Windows \/ \A b \in Brokers : pc[b] \notin Moving)
  /\ \E t \in {Nothing, "other"} \ {target, backup} :
       target' = t /\ copies' = (copies \ {target}) \cup ({t} \ {Nothing})
  /\ UNCHANGED <<backup, staging, journal, held, lock, pc, builds>>

Works == \E b \in Brokers :
  \/ Stage(b) \/ Begin(b) \/ Aside(b) \/ Place(b)
  \/ Look(b) \/ Quit(b) \/ Back(b) \/ Return(b) \/ Clean(b) \/ Restore(b)
Next ==
  \/ Works \/ Meddles
  \/ \E b \in Brokers : Install(b) \/ Abandon(b) \/ MoveFails(b) \/ CleanHalf(b) \/ Die(b)

Spec == Init /\ [][Next]_vars /\ WF_vars(Works)

-----------------------------------------------------------------------------
(* Properties *)

\* The operator's copy is somewhere, whatever died or was put in its place: in the
\* folder, or put aside under a transaction that says so.
CopyIsKept == copies \subseteq {target, backup}

\* What was put aside can be told from a build, and a build in the folder is known
\* to have to go again.
BuildsAreKnown ==
  /\ target \in Brokers => journal # NoJournal /\ journal.build = target
  /\ backup # Nothing => journal # NoJournal /\ journal.original = backup

Safety == TypeOK /\ CopyIsKept /\ BuildsAreKnown

\* Once nobody meddles, what can be restored is: no transaction stays but one that
\* found the operator's copy gone or another in its place.
Quiet == journal = NoJournal \/ ~Fits
Settles == <>[]Quiet
=============================================================================
