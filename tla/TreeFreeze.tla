------------------------------- MODULE TreeFreeze -------------------------------
(***************************************************************************)
(* A forced stop of a process that cannot be trusted to clean up           *)
(* (freezeAndKillTrackedProcessTree in process-tree.ts).  Its tree is      *)
(* scanned and stopped, pass after pass, until two scans find nothing new, *)
(* then the descendants are killed and the root last.  A failure before    *)
(* the root is killed lets everything go on.  Processes fork, and          *)
(* descendants exit, until they are stopped.                               *)
(***************************************************************************)
EXTENDS Naturals

CONSTANTS
  Root, Others,  \* the stopped process, and those it may ever have below it
  MaxPasses,     \* scans at most (100 in the code)
  MaxFaults      \* bound: processes that cannot be stopped or killed, failed callbacks

VARIABLES
  life,     \* none, run, stopped or dead
  parent,
  lost,     \* processes that were orphaned before a scan could see them
  tracked,  \* the pinned processes
  step, pass, stable, before,  \* of the call; before: what was pinned a pass ago
  faults

vars == <<life, parent, lost, tracked, step, pass, stable, before, faults>>

Processes == {Root} \cup Others
Live == {p \in Processes : life[p] \in {"run", "stopped"}}
Fault == faults < MaxFaults /\ faults' = faults + 1
Become(ps, l) == [p \in Processes |-> IF p \in ps \cap Live THEN l ELSE life[p]]

TypeOK ==
  /\ life \in [Processes -> {"none", "run", "stopped", "dead"}]
  /\ parent \in [Processes -> Processes] /\ lost \subseteq Others
  /\ tracked \subseteq Processes /\ before \subseteq Processes
  /\ step \in {"scan", "stop", "compare", "frozen", "kill", "root", "rest", "done", "failed"}
  /\ pass \in 0 .. MaxPasses /\ stable \in 0 .. 2 /\ faults \in 0 .. MaxFaults

Init ==
  /\ life = [p \in Processes |-> IF p = Root THEN "run" ELSE "none"]
  /\ parent = [p \in Processes |-> Root] /\ lost = {}
  /\ tracked = {Root} /\ step = "scan" /\ pass = 0 /\ stable = 0 /\ before = {} /\ faults = 0

Fork(p, q) ==
  /\ life[p] = "run" /\ life[q] = "none"
  /\ life' = [life EXCEPT ![q] = "run"] /\ parent' = [parent EXCEPT ![q] = p]
  /\ UNCHANGED <<lost, tracked, step, pass, stable, before, faults>>

\* What a process leaves behind unseen cannot be found through it any more.
Exit(p) ==
  /\ p # Root /\ life[p] = "run"
  /\ life' = [life EXCEPT ![p] = "dead"]
  /\ lost' = lost \cup {q \in Live \ tracked : parent[q] = p}
  /\ UNCHANGED <<parent, tracked, step, pass, stable, before, faults>>

Goto(s) == step' = s

\* Below the live pinned processes, through live parents, to a fixed point.
Below(ps) ==
  {q \in Live : \A qs \in SUBSET Live :
     ps \cap Live \subseteq qs /\ (\A r \in Live : parent[r] \in qs => r \in qs) => q \in qs}

Scan ==
  /\ step = "scan"
  /\ IF stable = 2 THEN Goto("frozen") /\ UNCHANGED <<tracked, pass>>
     ELSE IF pass = MaxPasses THEN Goto("failed") /\ UNCHANGED <<tracked, pass>>
     ELSE /\ tracked' = Below(tracked) \cup {Root} /\ pass' = pass + 1 /\ Goto("stop")
  /\ UNCHANGED <<life, parent, lost, stable, before, faults>>

\* Every pinned process is signalled and seen stopped, or the call fails.
StopAll ==
  /\ step = "stop"
  /\ \/ life' = Become(tracked, "stopped") /\ Goto("compare") /\ UNCHANGED faults
     \/ Fault /\ \E p \in tracked \cap Live : life' = Become(tracked \ {p}, "stopped")
        /\ Goto("failed")
  /\ UNCHANGED <<parent, lost, tracked, pass, stable, before>>

\* Mutant: one scan is taken for stable.
CompareOnce ==
  /\ step = "compare" /\ Goto("scan")
  /\ stable' = 2 /\ before' = tracked
  /\ UNCHANGED <<life, parent, lost, tracked, pass, faults>>

Compare ==
  /\ step = "compare" /\ Goto("scan")
  /\ stable' = IF tracked = before THEN stable + 1 ELSE 0
  /\ before' = tracked
  /\ UNCHANGED <<life, parent, lost, tracked, pass, faults>>

\* The caller's last look at what it is about to kill.
OnFrozen ==
  /\ step = "frozen"
  /\ \/ Goto("kill") /\ UNCHANGED faults
     \/ Fault /\ Goto("failed")
  /\ UNCHANGED <<life, parent, lost, tracked, pass, stable, before>>

\* The descendants, while the root is still stopped and can be let go on.
KillDescendants ==
  /\ step = "kill"
  /\ \/ life' = Become(tracked \ {Root}, "dead") /\ Goto("root") /\ UNCHANGED faults
     \/ Fault /\ Goto("failed") /\ \E p \in (tracked \cap Live) \ {Root} :
                                     life' = Become(tracked \ {Root, p}, "dead")
  /\ UNCHANGED <<parent, lost, tracked, pass, stable, before>>

KillRoot ==
  /\ step = "root"
  /\ \/ life' = Become({Root}, "dead") /\ Goto("done") /\ UNCHANGED faults
     \/ Fault /\ Goto("failed") /\ UNCHANGED life
  /\ UNCHANGED <<parent, lost, tracked, pass, stable, before>>

\* resumeFrozen
Resume ==
  /\ step = "failed" /\ \E p \in tracked : life[p] = "stopped"
  /\ life' = Become(tracked, "run")
  /\ UNCHANGED <<parent, lost, tracked, step, pass, stable, before, faults>>

Call == Scan \/ StopAll \/ Compare \/ OnFrozen \/ KillDescendants \/ KillRoot \/ Resume

Next == Call \/ (\E p, q \in Processes : Fork(p, q)) \/ (\E p \in Others : Exit(p))

Spec == Init /\ [][Next]_vars /\ WF_vars(Call)

-----------------------------------------------------------------------------
(* Properties. *)

\* When the root is dead nothing of its tree lives that had not lost its parent before it
\* could be seen: no fork slips between a scan and the stop that follows it.  And a root
\* that goes on never does so beside a process it did not know of.
NobodySlips ==
  /\ life[Root] = "dead" => Live \subseteq lost \cup Below(lost)
  /\ step \in {"frozen", "kill", "root"} => Live \ (lost \cup Below(lost)) \subseteq tracked

Safety == TypeOK /\ NobodySlips

\* The call ends, and leaves nobody stopped.
Quiet == step \in {"done", "failed"} /\ \A p \in Processes : life[p] # "stopped"
NobodyStaysStopped == <>[]Quiet
=============================================================================
