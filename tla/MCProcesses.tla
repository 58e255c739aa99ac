---------------------------- MODULE MCProcesses ----------------------------
(***************************************************************************)
(* The update lock, the bounded commands run under it, and the freezing of *)
(* a process tree, in one state space: the first state chooses which of    *)
(* the three runs, and the other two stay in their initial states.         *)
(***************************************************************************)
EXTENDS ProcessLock

CONSTANTS p1, p2, p3, i1, i2, Kinds, Windows, Root, Others, MaxPasses,
          MaxMishaps  \* MaxFaults of a bounded command

\* The numbers of passes and of faults are bounded.
ASSUME MishapsAssumption == MaxMishaps \in Nat /\ MaxPasses \in Nat

ThreePids == {p1, p2, p3}
TwoInodes == {i1, i2}

VARIABLES
  part,
  kind, life, parent, input, call, tracked, mark, next, mishaps,       \* Command
  run, below, lost, pinned, step, pass, stable, before, failures       \* Tree

Command == INSTANCE BoundedCommand WITH faults <- mishaps, MaxFaults <- MaxMishaps
Tree == INSTANCE TreeFreeze WITH life <- run, parent <- below, tracked <- pinned,
                                 faults <- failures, MaxFaults <- MaxFaults

commandVars == <<kind, life, parent, input, call, tracked, mark, next, mishaps>>
treeVars == <<run, below, lost, pinned, step, pass, stable, before, failures>>
allVars == <<part, vars, commandVars, treeVars>>

OfLock(A) == part = "lock" /\ A /\ UNCHANGED <<part, commandVars, treeVars>>
OfCommand(A) == part = "command" /\ A /\ UNCHANGED <<part, vars, treeVars>>
OfTree(A) == part = "tree" /\ A /\ UNCHANGED <<part, vars, commandVars>>

Starts ==
  /\ part \in {"lock", "command", "tree"}
  /\ Init /\ Command!Init /\ Tree!Init
  /\ part # "command" => kind = "update"

FairOne == OfLock(Guarded) \/ OfCommand(Command!CallStep) \/ OfTree(Tree!Call)
FairTwo == OfLock(Discard) \/ OfCommand(Command!GateStep)
FairThree == OfCommand(Command!Stop)
FairFour == OfCommand(Command!TakeOver)

Processes == Starts /\ [][OfLock(Next) \/ OfCommand(Command!Next) \/ OfTree(Tree!Next)]_allVars
             /\ WF_allVars(FairOne) /\ WF_allVars(FairTwo) /\ WF_allVars(FairThree) /\ WF_allVars(FairFour)

\* The safety of BoundedCommand and TreeFreeze; that of the lock is Safety of ProcessLock.
CommandSafety == Command!Safety /\ Tree!Safety

\* Each part comes to rest as its module says: the abandoned lock is taken, the call
\* ends, nobody stays stopped.
Settles == <>[](CASE part = "lock" -> ~Abandoned
                  [] part = "command" -> Command!Quiet
                  [] part = "tree" -> Tree!Quiet)
=============================================================================
