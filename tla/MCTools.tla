------------------------------- MODULE MCTools -------------------------------
(***************************************************************************)
(* The tools beside a job: the rounds of the advisor broker, the feeds of  *)
(* the monitor and its tab, and the brokers that put a build of an         *)
(* application in place, in one state space: the first state chooses which *)
(* of the four runs, and the others stay in a first state.                 *)
(***************************************************************************)
EXTENDS AdvisorRound

CONSTANTS review1,
          Order, Final, Limit, ReadMax, MaxBytes, MaxCrash,  \* Feed
          Bare, MaxOps, MaxFaults,                           \* Tab
          Brokers, MaxBuilds, MaxDeaths, Windows             \* Swap

OneRound == {review1}
Feeds == <<"status", "stdout">>

VARIABLES
  part,
  epoch, generations, progress, runner, made, viewer, screen, crashes,       \* Feed
  job, folder, tabs, view, told, busy, plane, d, ops, calls, worked, faults,
  disturbed,                                                                 \* Tab
  target, backup, opened, staging, held, claim, pc, builds, copies, deaths  \* Swap

Feed == INSTANCE MonitorFeed WITH files <- generations, shown <- screen
Tab == INSTANCE JobMonitor WITH dir <- folder
Swap == INSTANCE AppSwap WITH lock <- claim, journal <- opened, faults <- deaths, MaxFaults <- MaxDeaths

feedVars == <<epoch, generations, progress, runner, made, viewer, screen, crashes>>
tabVars == <<job, folder, tabs, view, told, busy, plane, d, ops, calls, worked, faults, disturbed>>
swapVars == <<target, backup, opened, staging, held, claim, pc, builds, copies, deaths>>
allVars == <<part, vars, feedVars, tabVars, swapVars>>

OfAdvisor(A) == part = "advisor" /\ A /\ UNCHANGED <<part, feedVars, tabVars, swapVars>>
OfFeed(A) == part = "feed" /\ A /\ UNCHANGED <<part, vars, tabVars, swapVars>>
OfTab(A) == part = "tab" /\ A /\ UNCHANGED <<part, vars, feedVars, swapVars>>
OfSwap(A) == part = "swap" /\ A /\ UNCHANGED <<part, vars, feedVars, tabVars>>

Begins ==
  /\ part \in {"advisor", "feed", "tab", "swap"}
  /\ Init /\ Feed!Init /\ Tab!Init /\ Swap!Init
  /\ part # "swap" => target = "original"

FairOne == OfAdvisor(Broker) \/ OfFeed(Feed!Viewer) \/ OfTab(Tab!Runner) \/ OfSwap(Swap!Works)
FairTwo == OfAdvisor(Retirement) \/ OfFeed(Feed!Closes) \/ OfTab(Tab!Viewer)

ToolsNext == OfAdvisor(Next) \/ OfFeed(Feed!Next) \/ OfTab(Tab!Next) \/ OfSwap(Swap!Next)

Tools == Begins /\ [][ToolsNext]_allVars
         /\ WF_allVars(FairOne) /\ WF_allVars(FairTwo)

\* The safety of the parts beside the broker's rounds, which is Safety of AdvisorRound.
BesideSafety ==
  /\ Feed!TypeOK /\ Feed!NothingSkipped /\ Feed!ViewerFindsFile /\ Feed!ClosedIsComplete
  /\ Tab!TypeOK /\ Tab!OneViewer /\ Tab!ViewerHasFiles
  /\ Swap!Safety

\* What no step of the runner's tab may do.
TabKept == Tab!ClosedWhenTold /\ Tab!SavedResultKept

\* Each part comes to rest: no round stays requested, a close that was begun ends, and
\* a start of the runner; a build that can be taken out again is.
Settles == <>[](CASE part = "advisor" -> Rests
                  [] part = "feed" -> Feed!Rests
                  [] part = "tab" -> Tab!Rests
                  [] part = "swap" -> Swap!Quiet)
=============================================================================
