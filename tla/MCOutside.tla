------------------------------ MODULE MCOutside ------------------------------
(***************************************************************************)
(* Work that leaves the computer: a thread handed over through the cloud,  *)
(* and a publication set on GitHub, in one state space: the first state    *)
(* chooses which of the two runs, and the other stays in its first state.  *)
(*                                                                         *)
(* The thread has two computers, a task at the first and two further       *)
(* messages: tasks, continuations and hand-overs at either of them.  A     *)
(* second task and a control at the same computer are left to the README:  *)
(* a job that meets its limit while an interrupted import is retried is    *)
(* given up with the jobs of earlier epochs.  The publication has a        *)
(* promoted plan with a follow-up and an obsolete pull request, and an     *)
(* ordinary plan after it.                                                 *)
(***************************************************************************)
EXTENDS CloudHandoff

CONSTANTS N, Promoted, Followed, Replaces, MaxAttempts, MaxMishaps  \* GitHub

At(p, k) == [pc |-> p, kind |-> k]
Alone == <<At("a", "task"), At("a", "task"), At("b", "handoff")>>
Turns == {<<At("a", "task"), At("b", "handoff"), At("a", "continue")>>,
          <<At("a", "task"), At("a", "continue"), At("b", "handoff")>>, Alone}

VARIABLES
  part,
  remote, row, kept, set, state, cancel, attempt, runner, pub, mishaps  \* GitHub

GitHub == INSTANCE GitHubPublication WITH job <- state, faults <- mishaps,
                                          MaxFaults <- MaxMishaps

githubVars == <<remote, row, kept, set, state, cancel, attempt, runner, pub, mishaps>>
allVars == <<part, vars, githubVars>>

OfCloud(A) == part = "cloud" /\ A /\ UNCHANGED <<part, githubVars>>
OfGitHub(A) == part = "github" /\ A /\ UNCHANGED <<part, vars>>

Starts ==
  /\ part \in {"cloud", "github"} /\ Init /\ GitHub!Init
  /\ part # "cloud" => scene = Alone
  /\ part # "github" => \A p \in GitHub!Plans : ~remote[p].hist /\ ~remote[p].queue

FairOne == OfCloud(Goes) \/ OfGitHub(GitHub!Step)
FairTwo == OfCloud(Receives("a")) \/ OfGitHub(GitHub!Boot)
FairThree == OfCloud(Receives("b")) \/ OfGitHub(GitHub!Judge)
FairFour == OfGitHub(GitHub!QueueMerges)

Outside == Starts /\ [][OfCloud(Next) \/ OfGitHub(GitHub!Next)]_allVars
           /\ WF_allVars(FairOne) /\ WF_allVars(FairTwo)
           /\ WF_allVars(FairThree) /\ WF_allVars(FairFour)

\* The safety of a publication; that of a hand-over is Safety of CloudHandoff.
GitHubSafety == GitHub!Safety

\* What no step of a publication may do.
PublicationKept ==
  GitHub!ForeignWorkIsKept /\ GitHub!OldStaysUntilReplaced /\ GitHub!CancelKeepsReceipts

\* Each part comes to rest: every hand-over settles, every staged publication.
Settles == <>[](IF part = "cloud" THEN Quiet ELSE GitHub!Quiet)
=============================================================================
