----------------------------- MODULE BoundedCommand -----------------------------
(***************************************************************************)
(* A command under a deadline, in a process group of its own.  Three       *)
(* callers run one: the updater under its lock (requireCommandAsync in     *)
(* update.ts), the advisor broker (runBounded in advisor-broker.ts) and    *)
(* the GitHub publisher (runBoundedHostCommand in github-publication.ts).  *)
(* The updater starts a gate that waits for its permission, and writes the *)
(* gate into the lock first, so that an update never follows one whose     *)
(* command still runs.  A helper stays in the group of the command, a      *)
(* stray leaves it; the tracker (process-tree.ts) sees a stray only while  *)
(* its parent lives.  SIGTERM is left out: a process may end at any time.  *)
(***************************************************************************)
EXTENDS Naturals

CONSTANTS
  Kinds,     \* of command to check: "update", "advisor", "host"
  Windows,   \* "pipe": a stray may keep the output of its command open
  MaxFaults  \* bound: killed updaters and gates, failed writes and observations

VARIABLES
  kind,     \* of this command
  life,     \* its processes
  parent,   \* of the stray
  input,    \* what the gate finds on its standard input
  call,     \* the call that runs the command
  tracked,  \* processes pinned by the tracker
  mark,     \* the delegate in the update lock, with its mark; "absent": none
  next,     \* a later updater has taken the lock over
  faults    \* bound used

vars == <<kind, life, parent, input, call, tracked, mark, next, faults>>

Group == {"root", "helper"}
Processes == Group \cup {"stray"}
Live == {p \in Processes : life[p] \notin {"none", "dead"}}
Ended == {"clean", "uncertain", "gone"}
Dead(ps) == [p \in Processes |-> IF p \in ps \cap Live THEN "dead" ELSE life[p]]
Fault == faults < MaxFaults /\ faults' = faults + 1

TypeOK ==
  /\ kind \in Kinds
  /\ life \in [Processes -> {"none", "gate", "run", "drain", "dead"}]
  /\ parent \in Group /\ input \in {"open", "start", "eof"}
  /\ call \in [step : {"spawn", "seeded", "delegated", "wait", "kill", "look"} \cup Ended,
               stop : {"no", "asked", "killed", "done"}, doubt : BOOLEAN]
  /\ tracked \subseteq Processes
  /\ mark \in {"absent", "none", "pending", "quiescent", "blocked"}
  /\ next \in BOOLEAN /\ faults \in 0 .. MaxFaults

Init ==
  /\ kind \in Kinds
  /\ life = [p \in Processes |-> "none"] /\ parent = "root" /\ input = "open"
  /\ call = [step |-> "spawn", stop |-> "no", doubt |-> FALSE]
  /\ tracked = {} /\ mark = "absent" /\ next = FALSE /\ faults = 0

-----------------------------------------------------------------------------
(* The processes. *)

\* The gate runs its command when told to, and leaves when its input ends.
GateOpens ==
  /\ life["root"] = "gate"
  /\ \/ input = "start" /\ life' = [life EXCEPT !["root"] = "run"]
     \/ (input = "eof" \/ (input = "open" /\ call.step = "gone")) /\ life' = Dead({"root"})
  /\ UNCHANGED <<kind, parent, input, call, tracked, mark, next, faults>>

Forks ==
  /\ \/ /\ life["root"] = "run" /\ life["helper"] = "none"
        /\ life' = [life EXCEPT !["helper"] = "run"] /\ UNCHANGED parent
     \/ /\ life["stray"] = "none"
        /\ \E p \in Group : life[p] = "run" /\ parent' = p
        /\ life' = [life EXCEPT !["stray"] = "run"]
  /\ UNCHANGED <<kind, input, call, tracked, mark, next, faults>>

Exits(p) ==
  /\ life[p] = "run"
  /\ life' = [life EXCEPT ![p] = IF p = "root" /\ kind = "update" THEN "drain" ELSE "dead"]
  /\ UNCHANGED <<kind, parent, input, call, tracked, mark, next, faults>>

\* The gate stays while its group has others, then says that it is quiet.
Drains ==
  /\ life["root"] = "drain" /\ "helper" \notin Live
  /\ mark' = IF mark \in {"none", "pending"} THEN "quiescent" ELSE mark
  /\ life' = Dead({"root"})
  /\ UNCHANGED <<kind, parent, input, call, tracked, next, faults>>

\* Somebody kills the root of the command, or the gate cannot write its mark.
RootKilled ==
  /\ "root" \in Live /\ Fault
  /\ life' = Dead({"root"})
  /\ UNCHANGED <<kind, parent, input, call, tracked, mark, next>>

-----------------------------------------------------------------------------
(* The tracker (updateTrackedProcesses). *)

\* The pinned ones that live, the group while its pinned leader lives, and the
\* children of both.
Capture(ps) ==
  LET found == (ps \cap Live) \cup (IF "root" \in ps \cap Live THEN Group \cap Live ELSE {})
  IN (ps \cap {"root"}) \cup found
     \cup IF "stray" \in Live /\ parent \in found THEN {"stray"} ELSE {}

Tracks == kind # "host"
Waiting == call.step \in {"seeded", "delegated", "wait"}

Poll ==
  /\ Tracks /\ Waiting /\ call.stop \in {"no", "asked"}
  /\ tracked' = Capture(tracked) /\ tracked' # tracked
  /\ UNCHANGED <<kind, life, parent, input, call, mark, next, faults>>

-----------------------------------------------------------------------------
(* The call. *)

Protected == IF kind = "update" /\ mark = "none" THEN "pending" ELSE mark

\* A root that cannot be pinned is never told to start; the broker kills it, others
\* run on without a record.
Spawn ==
  /\ call.step = "spawn"
  /\ \/ /\ life' = [life EXCEPT !["root"] = IF kind = "update" THEN "gate" ELSE "run"]
        /\ tracked' = IF Tracks THEN {"root"} ELSE {}
        /\ call' = [call EXCEPT !.step = IF kind = "update" THEN "seeded" ELSE "wait"]
        /\ UNCHANGED <<input, faults>>
     \/ /\ Tracks /\ Fault
        /\ life' = [life EXCEPT !["root"] = IF kind = "update" THEN "gate" ELSE "dead"]
        /\ input' = "eof" /\ call' = [call EXCEPT !.step = "uncertain"]
        /\ UNCHANGED tracked
  /\ UNCHANGED <<kind, parent, mark, next>>

\* The gate is written into the lock, or is let go and reaped.
Delegate ==
  /\ call.step = "seeded"
  /\ \/ /\ "root" \in Live
        /\ mark' = "none" /\ call' = [call EXCEPT !.step = "delegated"]
        /\ UNCHANGED <<input, faults>>
     \/ /\ ("root" \notin Live /\ UNCHANGED faults) \/ Fault
        /\ input' = "eof"
        /\ call' = [call EXCEPT !.step = "wait",
                                !.stop = IF call.stop = "no" THEN "asked" ELSE @]
        /\ UNCHANGED mark
  /\ UNCHANGED <<kind, life, parent, tracked, next>>

Start ==
  /\ call.step = "delegated"
  /\ input' = "start" /\ call' = [call EXCEPT !.step = "wait"]
  /\ UNCHANGED <<kind, life, parent, tracked, mark, next, faults>>

\* The deadline, an abort, or a tracker that failed (terminate, stop).  The intent to
\* clean up is written first; what cannot be written makes the end uncertain.
Stop ==
  /\ Waiting /\ call.stop = "no"
  /\ \/ "root" \in Live
     \/ kind = "host" /\ Live \cap {"helper"} # {}
     \/ kind = "host" /\ "pipe" \in Windows /\ "stray" \in Live
  /\ \/ mark' = Protected /\ call' = [call EXCEPT !.stop = "asked"] /\ UNCHANGED faults
     \/ /\ Tracks /\ Fault
        /\ UNCHANGED mark /\ call' = [call EXCEPT !.stop = "asked", !.doubt = kind = "update"]
  /\ UNCHANGED <<kind, life, parent, input, tracked, next>>

\* Mutant: only what the tracker pinned is killed.
ReachPinned(ps) == ps

\* The group is killed while its exact leader lives, and every pinned process
\* (reapTrackedProcesses); a failed observation leaves the group alone to be killed
\* (terminateDirect).  The publisher kills the group by its number.
Reach(ps) == (IF kind = "host" \/ "root" \in Live THEN Group ELSE {}) \cup ps

Kill ==
  /\ Waiting /\ call.stop = "asked"
  /\ \/ /\ life' = Dead(Reach(tracked)) /\ call' = [call EXCEPT !.stop = "killed"]
        /\ UNCHANGED faults
     \/ /\ Tracks /\ Fault
        /\ life' = Dead(Reach({})) /\ call' = [call EXCEPT !.stop = "killed", !.doubt = TRUE]
  /\ UNCHANGED <<kind, parent, input, tracked, mark, next>>

\* It looks again: what it finds now is left to the last look.
Killed ==
  /\ Waiting /\ call.stop = "killed"
  /\ tracked' = IF Tracks THEN Capture(tracked) ELSE tracked
  /\ call' = [call EXCEPT !.stop = "done"]
  /\ UNCHANGED <<kind, life, parent, input, mark, next, faults>>

\* The root is gone: the last look begins, behind a written intent.  The publisher
\* waits for the end of the output and looks no further.
OutputOpen == "helper" \in Live \/ ("pipe" \in Windows /\ "stray" \in Live)

Exited ==
  /\ call.step = "wait" /\ "root" \notin Live /\ call.stop \in {"no", "done"}
  /\ IF kind = "host"
     THEN /\ ~OutputOpen /\ call' = [call EXCEPT !.step = "clean"]
          /\ UNCHANGED <<tracked, mark>>
     ELSE /\ mark' = Protected /\ tracked' = Capture(tracked)
          /\ call' = [call EXCEPT !.step = "kill"]
  /\ UNCHANGED <<kind, life, parent, input, next, faults>>

LastKill ==
  /\ call.step = "kill"
  /\ \/ life' = Dead(tracked) /\ UNCHANGED faults /\ call' = [call EXCEPT !.step = "look"]
     \/ Fault /\ UNCHANGED life /\ call' = [call EXCEPT !.step = "look", !.doubt = TRUE]
  /\ UNCHANGED <<kind, parent, input, tracked, mark, next>>

\* The delegate is removed only after a clean last look and when its whole group is
\* gone; any doubt is written into the lock and blocks it.
LastLook ==
  /\ call.step = "look"
  /\ tracked' = Capture(tracked)
  /\ IF call.doubt \/ tracked' \cap Live # {}
     THEN /\ call' = [call EXCEPT !.step = "uncertain"]
          /\ mark' = IF mark = "absent" THEN mark ELSE "blocked"
     ELSE IF mark # "absent" /\ Group \cap Live # {}
     THEN call' = [call EXCEPT !.step = "uncertain"] /\ UNCHANGED mark
     ELSE call' = [call EXCEPT !.step = "clean"] /\ mark' = "absent"
  /\ UNCHANGED <<kind, life, parent, input, next, faults>>

\* The updater is killed.
OwnerDies ==
  /\ kind = "update" /\ call.step \notin Ended \cup {"spawn"} /\ Fault
  /\ call' = [call EXCEPT !.step = "gone"]
  /\ UNCHANGED <<kind, life, parent, input, tracked, mark, next>>

\* The lock of a dead updater is taken over when its delegate is certainly gone; one
\* that ended with its delegate still written dies with the process.
TakeOver ==
  /\ kind = "update" /\ call.step \in Ended /\ ~next
  /\ mark = "absent" \/ (mark \in {"none", "quiescent"} /\ Group \cap Live = {})
  /\ next' = TRUE
  /\ UNCHANGED <<kind, life, parent, input, call, tracked, mark, faults>>

CallStep == Spawn \/ Delegate \/ Start \/ Kill \/ Killed \/ Exited \/ LastKill \/ LastLook
GateStep == GateOpens \/ Drains

Next ==
  \/ CallStep \/ GateStep \/ Stop \/ TakeOver \/ Poll
  \/ Forks \/ (\E p \in Processes : Exits(p)) \/ RootKilled \/ OwnerDies

\* The deadline comes.
Spec == Init /\ [][Next]_vars /\ WF_vars(CallStep) /\ WF_vars(GateStep) /\ WF_vars(Stop)
             /\ WF_vars(TakeOver)

-----------------------------------------------------------------------------
(* Properties. *)

\* A leased command, and the helpers in its group, run only while the lock names them:
\* no later updater works beside them, whoever was killed (PROCESS_GROUP_GATE_SCRIPT,
\* update.ts 1046-1052).
LeaseCoversGroup ==
  kind = "update" /\ (life["root"] \in {"run", "drain"} \/ "helper" \in Live) => mark # "absent" /\ ~next

\* A call that ends without doubt leaves nothing behind that it ever pinned, nothing of
\* a group it leased, and, for the publisher, nothing of a group it had to stop.
CleanIsClean ==
  call.step = "clean" =>
    /\ tracked \cap Live = {}
    /\ kind = "update" \/ (kind = "host" /\ call.stop # "no") => Group \cap Live = {}

Safety == TypeOK /\ LeaseCoversGroup /\ CleanIsClean

\* Every call ends; after it, or its owner's death, the lock is free for the next
\* update unless its mark or a process of its group forbids it.
Quiet ==
  /\ call.step \in Ended
  /\ kind = "update" => next \/ mark \in {"pending", "blocked"} \/ Group \cap Live # {}
CallsEnd == <>[]Quiet
=============================================================================
