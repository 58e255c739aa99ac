------------------------------- MODULE MCSlack -------------------------------
(***************************************************************************)
(* What passes between Slack and the jobs, in one state space: the images  *)
(* of a job, messages on their way in, the notices of two jobs of a        *)
(* thread, and the socket; the first state chooses which of the four runs, *)
(* and the others stay in a first state.                                   *)
(*                                                                         *)
(* The job with images has up to two proposals, and two replies and no     *)
(* fault, a reply, a stop and one fault, or one reply and two faults.  The *)
(* messages are a root and its replies, in the cases that bring the thread *)
(* into every state: a conversation the App is asked into twice, and a     *)
(* request with a plain or a refused reply.  Of the two jobs the second    *)
(* has a result that can never be uploaded.                                *)
(***************************************************************************)
EXTENDS ArtifactDelivery

CONSTANTS m1, m2, x,
          MaxPosted, RootOf, KindSets, PageSize, MaxMishaps,                 \* In
          None, Thread, Broken, Topics, MaxAttempts, MaxNotes, MaxSaid, MaxFailures,  \* Out
          StartAttempts, MaxAttempt, MaxDrops                                \* Socket

\* Messages come after the root of their thread, as many as are posted.
ASSUME IngressAssumption ==
  /\ MaxPosted \in Nat /\ PageSize \in Nat /\ MaxMishaps \in Nat
  /\ RootOf \in [1 .. MaxPosted -> 1 .. MaxPosted]
  /\ \A m \in 1 .. MaxPosted : RootOf[m] =< m /\ RootOf[RootOf[m]] = RootOf[m]
  /\ \A k \in KindSets : k \in Seq({"mention", "plain", "refused"}) /\ Len(k) =< MaxPosted

\* One attempt at least, and a first wait to tell from none.
ASSUME SocketAssumption ==
  StartAttempts \in Nat \ {0} /\ MaxAttempt \in Nat \ {0} /\ MaxDrops \in Nat

Alone      == [people |-> {m1}, faults |-> 2]
Scenes     == {[people |-> {m1, m2}, faults |-> 0], [people |-> {m1, x}, faults |-> 1], Alone}
Asking     == <<"mention", "plain">>
Cases      == {<<"plain", "mention", "mention">>, Asking, <<"mention", "refused">>}
OneThread  == <<1, 1>>
OneRoot    == <<1, 1, 1>>

VARIABLES
  part,
  seenTo, kind, intent, snapped, held, inbound, owned, seen, recent, parents, scans, op, poll,
  sweep, updating, mishaps,                                                       \* In
  status, cancel, blocked, attempt, epoch, active, row, pc, head, mine, verdict, batch, sending,
  arrived, open, lifeSending, lifeArrived, posted, failures,                      \* Out
  process, link, call, opened, loop, connected, closed, since, tried, credit, drops  \* Socket

In == INSTANCE Ingress WITH N <- MaxPosted, Root <- RootOf, posted <- seenTo, ahead <- inbound,
                            faults <- mishaps, MaxFaults <- MaxMishaps
Out == INSTANCE Outbox WITH N <- 2, Kinds <- Topics, faults <- failures, MaxFaults <- MaxFailures
Socket == INSTANCE SlackSocket WITH attempt <- tried, faults <- drops, MaxFaults <- MaxDrops

inVars == <<seenTo, kind, intent, snapped, held, inbound, owned, seen, recent, parents, scans, op,
            poll, sweep, updating, mishaps>>
outVars == <<status, cancel, blocked, attempt, epoch, active, row, pc, head, mine, verdict, batch,
             sending, arrived, open, lifeSending, lifeArrived, posted, failures>>
socketVars == <<process, link, call, opened, loop, connected, closed, since, tried, credit, drops>>
allVars == <<part, vars, inVars, outVars, socketVars>>

OfImages(A) == part = "images" /\ A /\ UNCHANGED <<part, inVars, outVars, socketVars>>
OfIn(A) == part = "in" /\ A /\ UNCHANGED <<part, vars, outVars, socketVars>>
OfOut(A) == part = "out" /\ A /\ UNCHANGED <<part, vars, inVars, socketVars>>
OfSocket(A) == part = "socket" /\ A /\ UNCHANGED <<part, vars, inVars, outVars>>

Starts ==
  /\ part \in {"images", "in", "out", "socket"}
  /\ Init /\ In!Init /\ Out!Init /\ Socket!Init
  /\ part # "images" => people = Alone.people
  /\ part # "in" => kind = Asking

FairOne == \/ OfImages(LaneStep) \/ OfIn(In!Handles) \/ OfOut(Out!GoesOn) \/ OfSocket(Socket!Owns)
FairTwo == \/ OfImages(Goes) \/ OfIn(In!Polls) \/ OfOut(Out!Answers) \/ OfSocket(Socket!Hello)
FairThree == OfIn(In!Sweeps)
FairFour == OfIn(In!UpdateEnds)

SlackNext == \/ OfImages(Next) \/ OfIn(In!Next) \/ OfOut(Out!Next) \/ OfSocket(Socket!Next)

Slack == Starts /\ [][SlackNext]_allVars
         /\ WF_allVars(FairOne) /\ WF_allVars(FairTwo) /\ WF_allVars(FairThree)
         /\ WF_allVars(FairFour) /\ SF_allVars(OfOut(Out!Serves))

\* The safety of the ways in; that of the images is Safety of ArtifactDelivery.
InSafety == In!Safety /\ Socket!Safety

\* What no step may do: MentionsInOrder of Ingress, StoryInOrder and StartFollowsWait of
\* Outbox.
OrderKept == In!MentionsInOrder /\ Out!StoryInOrder /\ Out!StartFollowsWait

\* Each part comes to rest: the images of a job are shown or reported missing, a message
\* that asks the App is recorded, a result that can be uploaded is delivered, a gateway
\* is connected or has ended.
Settles == <>[](CASE part = "images" -> Quiet
                  [] part = "in" -> In!Quiet
                  [] part = "out" -> Out!Quiet
                  [] part = "socket" -> Socket!Quiet)
=============================================================================
