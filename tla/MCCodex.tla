------------------------------- MODULE MCCodex -------------------------------
(***************************************************************************)
(* Codex under its executor: the processes of its attempts, and the        *)
(* session with its App Server, in one state space: the first state        *)
(* chooses which of the two runs, and the other stays in a first state.    *)
(*                                                                         *)
(* Two attempts and one fault, none of the narrow start-up and polling     *)
(* races; a session with the peers' freedoms two at a time.       *)
(***************************************************************************)
EXTENDS Supervision

CONSTANTS MaxTurns, MaxReqs, MaxSlots, MaxAsks, MaxMishaps, MaxWire, EarlyLimit, Focus  \* Session

Questions == {"asks"}
Freedoms == {{"native", "early"}, {"native", "faults"}, {"early", "faults"},
             {"controls", "progress"}, {"controls", "faults"}, Questions}

VARIABLES
  part,
  features, wire, stdin, server, pending, view, notes, asked, reader, own, prog, verdict,
  mishaps  \* Session

Session == INSTANCE AppServerSession WITH faults <- mishaps, MaxFaults <- MaxMishaps

sessionVars == <<features, wire, stdin, server, pending, view, notes, asked, reader, own, prog,
                 verdict, mishaps>>
allVars == <<part, vars, sessionVars>>

OfProcesses(A) == part = "processes" /\ A /\ UNCHANGED <<part, sessionVars>>
OfSession(A) == part = "session" /\ A /\ UNCHANGED <<part, vars>>

Starts ==
  /\ part \in {"processes", "session"} /\ Init /\ Session!Init
  /\ part # "session" => features = Questions

FairOne == OfProcesses(Works) \/ OfSession(Session!ReaderStep)
FairTwo == OfProcesses(ExecPoll) \/ OfSession(Session!OwnerStep)
FairThree == OfProcesses(Leaves) \/ OfSession(Session!ServerStep)

Codex == Starts /\ [][OfProcesses(Next) \/ OfSession(Session!Next)]_allVars
         /\ WF_allVars(FairOne) /\ WF_allVars(FairTwo) /\ WF_allVars(FairThree)

\* The safety of a session; that of the processes is Safety of Supervision.
SessionSafety == Session!Safety /\ Session!EvidenceIsSound

\* What no step of a session may do.
AnswersAreCurrent == Session!AnswersAreCurrent

\* Each part comes to rest: whatever an attempt left is retired, every session ends.
Settles == <>[](IF part = "processes" THEN Quiet ELSE Session!Rests)
=============================================================================
