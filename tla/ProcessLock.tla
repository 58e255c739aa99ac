---------------------------- MODULE ProcessLock ----------------------------
(***************************************************************************)
(* The lock every process of the service takes before it changes shared    *)
(* state (process-lock.ts).                                                *)
(*                                                                         *)
(* On disk a lock is three files: the lock itself (a pid), its identity    *)
(* (which generation of that pid, a nonce, the inode of the lock file and, *)
(* when a setup group works under the lease, its delegate), and the        *)
(* candidate the lock is hard-linked from.  They are changed one system    *)
(* call at a time under an flock guard that the kernel drops when its      *)
(* holder dies, so a crash leaves any prefix of a change behind.           *)
(*                                                                         *)
(* Processes are generations: a pid, and a process group, can be used      *)
(* again by another generation.  The kernel's side (the actions Launch to  *)
(* Reboot) is external.  Identities of version 3 are modelled; the bridge  *)
(* to the two older formats is left out.  A guard that cannot be had in    *)
(* time, or a directory with the wrong owner, makes an operation fail      *)
(* without a change: here it simply does not begin.                        *)
(***************************************************************************)
EXTENDS Naturals, FiniteSets

CONSTANTS
  Pids, Inodes,
  None,
  MaxGenerations, \* bound: processes ever created
  MaxNonces,      \* bound: leases and delegations ever issued
  MaxFaults       \* bound: crashes, failed probes, failed calls and reboots

ASSUME NoneAssumption  == None \notin Pids \cup Inodes
ASSUME BoundAssumption == MaxGenerations \in Nat /\ MaxNonces \in Nat /\ MaxFaults \in Nat

VARIABLES
  process, \* generation -> life, pid, group and the boot it was born in
  boot,
  lock,    \* the lock file: a pid and an inode
  identity, staged,  \* the identity file and the candidate files
  op,      \* the operation inside the guard that writes more than once
  nonce,   \* nonces issued so far
  lease,   \* generation -> nonce of the lease it was given, or 0
  works,   \* generation -> nonce of the lease its group works under, or 0
  faults

vars  == <<process, boot, lock, identity, staged, op, nonce, lease, works, faults>>
files == <<lock, identity, staged>>
world == <<process, boot>>

Generations == 1..MaxGenerations
Marks == {"none", "cleanupPending", "blocked", "quiescent"}

Life       == [life : {"unborn", "live", "dead"}, pid : Pids \cup {None},
               group : Pids \cup {None}, boot : Nat]
LockFile   == [pid : Pids, inode : Inodes]
Candidate  == [pid : Pids, inode : Inodes, nonce : 1..MaxNonces]
Delegate   == [generation : Generations, pid : Pids, nonce : 1..MaxNonces,
               mark : Marks, participant : Generations \cup {0}]
Identity   == [pid : Pids, generation : Generations, nonce : 1..MaxNonces,
               inode : Inodes, delegate : Delegate \cup {None}]
Operation  == [kind : {"acquire", "release", "discard"},
               pc : {"reap", "forget", "stage", "identify", "link", "unstage"},
               by : Generations \cup {0}, pid : Pids \cup {None},
               token : 0..MaxNonces, inode : Inodes \cup {None}]

\* None is neither a file nor an operation.
ASSUME NothingAssumption ==
  None \notin LockFile /\ None \notin Identity /\ None \notin Delegate /\ None \notin Operation

TypeOK ==
  /\ process \in [Generations -> Life]
  /\ boot \in Nat
  /\ lock \in LockFile \cup {None}
  /\ identity \in Identity \cup {None}
  /\ staged \subseteq Candidate
  /\ op \in Operation \cup {None}
  /\ nonce \in 0..MaxNonces
  /\ lease \in [Generations -> 0..MaxNonces]
  /\ works \in [Generations -> 0..MaxNonces]
  /\ faults \in 0..MaxFaults

Init ==
  /\ process = [g \in Generations |-> [life |-> "unborn", pid |-> None, group |-> None, boot |-> 0]]
  /\ boot = 0
  /\ lock = None /\ identity = None /\ staged = {}
  /\ op = None
  /\ nonce = 0
  /\ lease = [g \in Generations |-> 0]
  /\ works = [g \in Generations |-> 0]
  /\ faults = 0

Live(g)       == process[g].life = "live"
PidLives(p)   == \E g \in Generations : Live(g) /\ process[g].pid = p
GroupLives(p) == \E g \in Generations : Live(g) /\ process[g].group = p
Leads(g)      == process[g].group = process[g].pid

(***************************************************************************)
(* The kernel.                                                             *)
(***************************************************************************)

\* A number is free when neither a process nor a process group has it (POSIX).
Born(g, p, group) ==
  /\ ~PidLives(p) /\ ~GroupLives(p)
  /\ process[g].life = "unborn" /\ \A h \in 1..(g - 1) : process[h].life # "unborn"
  /\ process' = [process EXCEPT ![g] = [life |-> "live", pid |-> p, group |-> group,
                                        boot |-> boot]]
  /\ UNCHANGED <<boot, files, op, nonce, lease, faults>>

\* A process that leads a group of its own.
Launch(g, p) == Born(g, p, p) /\ UNCHANGED works

\* A child stays in the group of its parent and shares what it works under.
Fork(parent, g, p) ==
  /\ Live(parent)
  /\ Born(g, p, process[parent].group)
  /\ works' = [works EXCEPT ![g] = works[parent]]

\* A descendant that detaches: from here on the group does not tell of it.
Leave(g) ==
  /\ Live(g) /\ ~Leads(g)
  /\ ~GroupLives(process[g].pid)
  /\ process' = [process EXCEPT ![g].group = process[g].pid]
  /\ works' = [works EXCEPT ![g] = 0]
  /\ UNCHANGED <<boot, files, op, nonce, lease, faults>>

Buried(p) == [p EXCEPT !.life = "dead", !.pid = None, !.group = None]

\* stopProcessLockOwner signals the exact generation it has probed, so a
\* stopped owner is one way to die among others.
Die(g) ==
  /\ Live(g)
  /\ process' = [process EXCEPT ![g] = Buried(@)]
  /\ lease' = [lease EXCEPT ![g] = 0]
  /\ works' = [works EXCEPT ![g] = 0]
  /\ UNCHANGED <<boot, files, op, nonce, faults>>

Fault == faults < MaxFaults /\ faults' = faults + 1

\* The process inside the guard dies; what it has written stays.
GuardHolderDies ==
  /\ op # None
  /\ Fault
  /\ op' = None
  /\ UNCHANGED <<world, files, nonce, lease, works>>

Reboot ==
  /\ Fault
  /\ boot' = boot + 1
  /\ process' = [g \in Generations |->
                   IF Live(g) THEN Buried(process[g]) ELSE process[g]]
  /\ op' = None
  /\ lease' = [g \in Generations |-> 0]
  /\ works' = [g \in Generations |-> 0]
  /\ UNCHANGED <<files, nonce>>

(***************************************************************************)
(* What the files and the probes say.                                      *)
(***************************************************************************)

Links == IF \E c \in staged : c.inode = lock.inode THEN 2 ELSE 1

\* The identity is that of the lock file: readIdentityForSnapshot.
Known == identity # None /\ identity.pid = lock.pid /\ identity.inode = lock.inode

OwnerLives ==
  IF Known THEN Live(identity.generation) ELSE PidLives(lock.pid)

\* Of two generations with the pid of the leader the probe sees the live one.
LeaderReused(d) == \E g \in Generations : Live(g) /\ process[g].pid = d.pid /\ Leads(g)

\* Mutant: a marked delegate is judged by its group alone.
ObserveDelegateUnmarked(d, allowPending) ==
  IF process[d.generation].boot # boot THEN "dead"
  ELSE IF Live(d.generation) \/ (GroupLives(d.pid) /\ ~LeaderReused(d)) THEN "alive"
  ELSE "dead"

\* An other boot ends every process; a mark makes the answer uncertain.
ObserveDelegate(d, allowPending) ==
  IF process[d.generation].boot # boot THEN "dead"
  ELSE IF d.mark = "blocked" \/ (d.mark = "cleanupPending" /\ ~allowPending) THEN "unknown"
  ELSE IF Live(d.generation) \/ (GroupLives(d.pid) /\ ~LeaderReused(d)) THEN "alive"
  ELSE "dead"

\* Mutant: the death of the owner is taken for the end of its setup group.
EffectiveOwnerAlone == IF OwnerLives THEN "alive" ELSE "dead"

EffectiveOwner ==
  IF OwnerLives THEN "alive"
  ELSE IF Known /\ identity.delegate # None THEN ObserveDelegate(identity.delegate, FALSE)
  ELSE "dead"

(***************************************************************************)
(* Taking and giving back the lock.  What an operation reads and probes    *)
(* and its first write are one step, for a process that was seen dead      *)
(* stays dead; one that finds the lock held, or cannot tell, changes       *)
(* nothing.                                                                *)
(***************************************************************************)

\* The publisher died before it removed the candidate: every operation but
\* the release removes it first, if it is the one the identity names.
FinishInterruptedPublication ==
  LET matches == {c \in staged : /\ c.pid = lock.pid /\ c.inode = lock.inode
                                 /\ Known => c.nonce = identity.nonce}
  IN /\ op = None /\ lock # None /\ Links = 2
     /\ Cardinality(matches) = 1
     /\ staged' = staged \ matches
     /\ UNCHANGED <<world, lock, identity, op, nonce, lease, works, faults>>

Settled == op = None /\ lock # None /\ Links = 1

\* A dead owner's lock; with an identity that is not its own it is nobody's.
Stale == Settled /\ (identity # None => Known) /\ EffectiveOwner = "dead"

Enter(kind, pc, by, token) ==
  /\ op' = [kind |-> kind, pc |-> pc, by |-> by, token |-> token, inode |-> None,
            pid |-> IF by = 0 THEN None ELSE process[by].pid]
  /\ UNCHANGED <<world, files, nonce, lease, works, faults>>

Acquire(g) ==
  /\ Live(g) /\ lease[g] = 0
  /\ op = None
  /\ nonce < MaxNonces
  /\ \/ lock = None /\ Enter("acquire", "stage", g, 0)
     \/ Stale /\ Enter("acquire", "reap", g, 0)

Discard == Stale /\ Enter("discard", "reap", 0, 0)

\* Only the exact lease is released, and never under a delegate.
Release(g) ==
  /\ Live(g) /\ lease[g] # 0
  /\ op = None /\ lock # None
  /\ Known /\ identity.nonce = lease[g]
  /\ identity.delegate = None
  /\ Enter("release", "reap", g, lease[g])

At(pc)   == op # None /\ op.pc = pc
Goto(pc) == op' = [op EXCEPT !.pc = pc]
Leaves   == op' = None

\* A holder that releases no longer works under the lease.
Reap ==
  /\ At("reap")
  /\ lock' = None
  /\ lease' = [g \in Generations |->
                 IF op.kind = "release" /\ g = op.by THEN 0 ELSE lease[g]]
  /\ Goto("forget")
  /\ UNCHANGED <<world, identity, staged, nonce, works, faults>>

Forget ==
  /\ At("forget")
  /\ identity' = None
  /\ IF op.kind = "acquire" THEN Goto("stage") ELSE Leaves
  /\ UNCHANGED <<world, lock, staged, nonce, lease, works, faults>>

\* publishLock: the candidate, the identity, the link, in this order.
Stage ==
  /\ At("stage") /\ Live(op.by)
  /\ \E i \in Inodes :
       /\ i \notin {c.inode : c \in staged}
       /\ nonce' = nonce + 1
       /\ staged' = staged \cup {[pid |-> op.pid, inode |-> i, nonce |-> nonce + 1]}
       /\ op' = [op EXCEPT !.pc = "identify", !.token = nonce + 1, !.inode = i]
  /\ UNCHANGED <<world, lock, identity, lease, works, faults>>

\* The owner to be is gone: nothing is published for it.
OwnerGone ==
  /\ At("stage") /\ ~Live(op.by)
  /\ Leaves
  /\ UNCHANGED <<world, files, nonce, lease, works, faults>>

Own == [pid |-> op.pid, inode |-> op.inode, nonce |-> op.token]

WriteIdentity ==
  /\ At("identify")
  /\ identity' = [pid |-> op.pid, generation |-> op.by, nonce |-> op.token,
                  inode |-> op.inode, delegate |-> None]
  /\ Goto("link")
  /\ UNCHANGED <<world, lock, staged, nonce, lease, works, faults>>

Link ==
  /\ At("link")
  /\ lock' = [pid |-> op.pid, inode |-> op.inode]
  /\ Goto("unstage")
  /\ UNCHANGED <<world, identity, staged, nonce, lease, works, faults>>

Granted == lease' = [lease EXCEPT ![op.by] = IF Live(op.by) THEN op.token ELSE 0]

Unstage ==
  /\ At("unstage")
  /\ staged' = staged \ {Own}
  /\ Granted
  /\ Leaves
  /\ UNCHANGED <<world, lock, identity, nonce, works, faults>>

\* A write or the link fails: nothing is published, and the candidate may stay behind.
PublishFails ==
  /\ At("identify") \/ At("link")
  /\ Fault
  /\ identity' = None
  /\ staged' \in {staged, staged \ {Own}}
  /\ Leaves
  /\ UNCHANGED <<world, lock, nonce, lease, works>>

\* The candidate cannot be removed: take the lock back, or keep the lease
\* when even that fails.
UnstageFails ==
  /\ At("unstage")
  /\ Fault
  /\ Leaves
  /\ \/ /\ lock' = None /\ identity' = None
        /\ staged' \in {staged, staged \ {Own}}
        /\ UNCHANGED lease
     \/ /\ Granted
        /\ UNCHANGED files
  /\ UNCHANGED <<world, nonce, works>>

(***************************************************************************)
(* The delegate of a lease.  Each operation is one rename of the identity  *)
(* file.                                                                   *)
(***************************************************************************)

Rewrite(delegate) ==
  /\ identity' = [identity EXCEPT !.delegate = delegate]
  /\ UNCHANGED <<world, lock, staged, op, lease, faults>>

\* g, the holder, admits the group that d leads, when no other delegate may
\* live.  (For the delegate it has already, the call changes nothing.)
DelegateTo(g, d) ==
  /\ Live(g) /\ lease[g] # 0
  /\ Settled /\ Known /\ identity.nonce = lease[g]
  /\ Live(d) /\ Leads(d) /\ process[d].pid # identity.pid
  /\ identity.delegate # None => ObserveDelegate(identity.delegate, FALSE) = "dead"
  /\ nonce < MaxNonces
  /\ nonce' = nonce + 1
  /\ Rewrite([generation |-> d, pid |-> process[d].pid, nonce |-> nonce + 1,
              mark |-> "none", participant |-> 0])
  /\ works' = [h \in Generations |->
                 IF Live(h) /\ process[h].group = process[d].pid
                 THEN identity.nonce ELSE works[h]]

\* The identity still names the delegation the caller holds the token of.
Names(token) ==
  Settled /\ Known /\ identity.delegate # None /\ identity.delegate.nonce = token

Undelegate(token) ==
  /\ Names(token)
  /\ identity.delegate.mark # "blocked"
  /\ ObserveDelegate(identity.delegate, TRUE) = "dead"
  /\ Rewrite(None)
  /\ UNCHANGED <<nonce, works>>

Marked(mark) ==
  Rewrite([identity.delegate EXCEPT !.mark = mark]) /\ UNCHANGED <<nonce, works>>

\* Write-ahead protection: from here on only the token removes the delegate.
ProtectCleanup(token) ==
  /\ Names(token)
  /\ identity.delegate.mark = "none"
  /\ Marked("cleanupPending")

\* The cleanup was not clean: nothing reclaims the lease in this boot.
Block(token) ==
  /\ Names(token)
  /\ identity.delegate.mark # "blocked"
  /\ Marked("blocked")

\* The gate, a child of the leader, has seen its command's group drain.
MarkQuiescent(g, token) ==
  /\ Names(token)
  /\ Live(g) /\ ~Leads(g) /\ process[g].group = identity.delegate.pid
  /\ identity.delegate.mark # "blocked"
  /\ ObserveDelegate(identity.delegate, FALSE) = "alive"
  /\ Marked("quiescent")

\* One process of the group learns that the lease covers it.
BindParticipant(g) ==
  LET d == identity.delegate
  IN /\ Settled /\ Known /\ d # None
     /\ d.mark # "blocked" /\ d.participant = 0
     /\ Live(d.generation)
     /\ Live(g) /\ process[g].group = d.pid
     /\ Rewrite([d EXCEPT !.participant = g])
     /\ UNCHANGED <<nonce, works>>

(***************************************************************************)
(* The specification.                                                      *)
(***************************************************************************)

Kernel ==
  \/ \E g \in Generations, p \in Pids : Launch(g, p)
  \/ \E parent, g \in Generations, p \in Pids : Fork(parent, g, p)
  \/ \E g \in Generations : Leave(g)
  \/ \E g \in Generations : Die(g)
  \/ GuardHolderDies
  \/ Reboot

Guarded ==
  \/ FinishInterruptedPublication
  \/ Reap \/ Forget
  \/ Stage \/ OwnerGone \/ WriteIdentity \/ Link \/ Unstage

Delegation ==
  \/ \E g, d \in Generations : DelegateTo(g, d)
  \/ \E token \in 1..nonce : Undelegate(token)
  \/ \E token \in 1..nonce : ProtectCleanup(token)
  \/ \E token \in 1..nonce : Block(token)
  \/ \E g \in Generations, token \in 1..nonce : MarkQuiescent(g, token)
  \/ \E g \in Generations : BindParticipant(g)

Next ==
  \/ Kernel
  \/ \E g \in Generations : Acquire(g)
  \/ \E g \in Generations : Release(g)
  \/ Discard
  \/ Guarded
  \/ PublishFails
  \/ UnstageFails
  \/ Delegation

\* A guarded section never waits, and whoever finds a stale lock in its way
\* keeps trying: service-control discards it before each start.  Probes may
\* fail, but not every time.
Fairness == WF_vars(Guarded) /\ WF_vars(Discard)

Spec == Init /\ [][Next]_vars /\ Fairness

(***************************************************************************)
(* Properties.                                                             *)
(***************************************************************************)

\* Whoever works under a lease - its owner, or a live process of the group it
\* was delegated to - finds exactly this lease on the disk, however pids and
\* groups are used again and wherever others were interrupted: nobody takes
\* it over, releases it or publishes over it.  Two leases at work at a time
\* are excluded by this.
WorkIsCovered ==
  \A g \in Generations :
    Live(g) => \A n \in {lease[g], works[g]} \ {0} :
                 lock # None /\ Known /\ identity.nonce = n

\* Wherever a process was interrupted inside the guard, the files are never
\* left so that the next one cannot tell whose they are: the identity is
\* that of the lock, and a lock that is half published has the candidate
\* the identity names.
NeverWedged ==
  op = None /\ lock # None =>
    /\ Known
    /\ \A c \in staged : c.inode = lock.inode => c.pid = lock.pid /\ c.nonce = identity.nonce

Safety == TypeOK /\ WorkIsCovered /\ NeverWedged

\* Once a cleanup may have left processes behind, the lease stays as it is
\* until the next boot: a blocked delegate is never removed and never loses
\* its mark, a pending one only to its token and after its group has ended.
UncertaintyIsKept ==
  [][lock # None /\ Known /\ identity.delegate # None
       /\ identity.delegate.mark \in {"blocked", "cleanupPending"}
       /\ process[identity.delegate.generation].boot = boot /\ boot' = boot
     => /\ lock' = lock
        /\ \/ identity' = identity
           \/ /\ identity'.nonce = identity.nonce
              /\ identity'.delegate # None
              /\ identity'.delegate.nonce = identity.delegate.nonce
              /\ identity'.delegate.mark \in {identity.delegate.mark, "blocked"}
           \/ /\ identity.delegate.mark = "cleanupPending"
              /\ identity' = [identity EXCEPT !.delegate = None]
              /\ \A g \in Generations : Live(g) => works[g] # identity.nonce]_vars

\* Everybody the lock on the disk stands for is gone for certain.
Abandoned ==
  /\ lock # None /\ Known
  /\ ~Live(identity.generation)
  /\ identity.delegate # None =>
       LET d == identity.delegate
       IN process[d.generation].boot # boot
            \/ (d.mark \in {"none", "quiescent"} /\ ~GroupLives(d.pid))

\* A lock nobody works under any more does not stay: whatever point its owner
\* died at, and even when a setup group was killed before it could say that
\* it was done, the next start gets past it.
AbandonedLockIsReclaimed == <>[]~Abandoned
=============================================================================
