--------------------------- MODULE ProcessProofs ---------------------------
(***************************************************************************)
(* Proofs about the parts of MCProcesses, whose constants are left open:   *)
(* ProcessLock for every set of pids and inodes and every number of        *)
(* processes, leases and faults, BoundedCommand for every set of kinds of  *)
(* command, windows and number of faults, TreeFreeze for every tree and    *)
(* number of passes and faults.                                            *)
(*                                                                         *)
(* A process that works under a lease finds that lease on the disk.  That  *)
(* holds because nobody gets past a lock unless its owner and the group it *)
(* was delegated to are seen dead, and the probe of the group can be       *)
(* believed: as long as one of the group lives the kernel gives its number *)
(* to nobody else.  The invariant has a part for the kernel's numbers, one *)
(* for the delegate, one for those at work and one for the files at each   *)
(* point of an operation.                                                  *)
(*                                                                         *)
(* A leased command runs only behind its delegate, because a gate that     *)
(* nobody wrote down is never told to start (Unleased).  A tree that stays *)
(* the same over a scan of stopped processes is closed (Closed), and what  *)
(* lives is below it or below what was lost before a scan saw it (Cover).  *)
(***************************************************************************)
EXTENDS MCProcesses, TLAPS

-----------------------------------------------------------------------------
(* The update lock: ProcessLock. *)

\* A live process has a pid of its own, belongs to this boot, and leads the group of
\* that number if there is one; one that is not alive holds nothing.
Numbered ==
  /\ \A g \in Generations : process[g].boot \in Nat /\ process[g].boot =< boot
  /\ \A g \in Generations : Live(g) =>
       /\ process[g].pid # None /\ process[g].group # None /\ process[g].boot = boot
       /\ GroupLives(process[g].pid) => Leads(g)
  /\ \A g, h \in Generations :
       Live(g) /\ Live(h) /\ process[g].pid = process[h].pid => g = h
  /\ \A g \in Generations : ~Live(g) =>
       /\ lease[g] = 0 /\ works[g] = 0
       /\ process[g].pid = None /\ process[g].group = None

\* The leader a delegation was made out to is that generation, or gone.
Delegated ==
  identity # None /\ identity.delegate # None =>
    LET d == identity.delegate
    IN /\ process[d.generation].life # "unborn"
       /\ Live(d.generation) => process[d.generation].pid = d.pid /\ Leads(d.generation)

\* Whoever holds a lease finds it on the disk, and whoever works under one does so
\* as one of the group it was delegated to, whose number nobody has taken over.
Held(g) ==
  /\ lock # None /\ Known
  /\ identity.nonce = lease[g] /\ identity.generation = g

\* A process at work finds its lease delegated to its group, whose leader is not somebody else.
Employed(g) ==
  /\ lock # None /\ Known
  /\ identity.nonce = works[g] /\ identity.delegate # None
  /\ process[identity.delegate.generation].boot = boot
  /\ process[g].group = identity.delegate.pid
  /\ LeaderReused(identity.delegate) => Live(identity.delegate.generation)

\* Every lease held or worked under is that of the lock.
Covered ==
  \A g \in Generations : (lease[g] # 0 => Held(g)) /\ (works[g] # 0 => Employed(g))

\* The files of a lock say whose it is, unless an operation is half way.
Whole ==
  /\ lock # None /\ Known
  /\ \A c \in staged : c.inode = lock.inode => c.pid = lock.pid /\ c.nonce = identity.nonce

\* Nobody holds or works under a lease.
Idle == \A g \in Generations : lease[g] = 0 /\ works[g] = 0

\* The delegate of the lock, if any, is of another boot or left no doubt.
NoDoubt ==
  identity.delegate # None =>
    \/ process[identity.delegate.generation].boot # boot
    \/ identity.delegate.mark \in {"none", "quiescent"}

\* What an operation has found and done, at each of its points.
Reaping ==
  /\ Whole /\ NoDoubt
  /\ op.kind = "release" =>
       /\ identity.delegate = None /\ op.by # 0
       /\ \A g \in Generations : works[g] = 0 /\ (lease[g] # 0 => g = op.by)

\* An acquisition that has written its candidate.
Publishing == op.by # 0 /\ op.pid # None /\ op.token # 0 /\ op.inode # None /\ Own \in staged

\* Its identity is the recorded one.
Identified ==
  identity = [pid |-> op.pid, generation |-> op.by, nonce |-> op.token,
              inode |-> op.inode, delegate |-> None]

\* What holds between two steps of the operation inside the guard.
Under ==
  /\ (op.kind = "release" /\ op.pc = "reap") \/ Idle
  /\ op.kind \in {"release", "discard"} => op.pc \in {"reap", "forget"}
  /\ op.kind = "acquire" => op.by # 0 /\ op.pid # None
  /\ op.kind = "acquire" /\ op.pc \in {"reap", "forget", "stage"} => nonce < MaxNonces
  /\ op.pc = "reap" => Reaping
  /\ op.pc \notin {"reap", "unstage"} => lock = None
  /\ op.pc \in {"identify", "link", "unstage"} => Publishing
  /\ op.pc \in {"link", "unstage"} => Identified
  /\ op.pc = "unstage" => lock = [pid |-> op.pid, inode |-> op.inode]

\* What the files say, between operations and during one.
Guard ==
  /\ \A c, e \in staged : c.inode = e.inode => c = e
  /\ op = None /\ lock # None => Whole
  /\ op # None => Under

\* The inductive invariant of the lock.
Inv == TypeOK /\ Numbered /\ Delegated /\ Covered /\ Guard

-----------------------------------------------------------------------------
(* Types.                                                                  *)

\* The bounds are numbers.
LEMMA Constants ==
  /\ Generations \subseteq Nat \ {0} /\ MaxNonces \in Nat /\ MaxFaults \in Nat
  /\ 0 \in 0 .. MaxNonces /\ 0 \in 0 .. MaxFaults /\ None \notin Pids /\ None \notin Inodes
  BY BoundAssumption, NoneAssumption DEF Generations

\* The first state is well typed.
LEMMA InitTypeOK == Init => TypeOK
  BY Constants DEF Init, TypeOK, Life

\* Only the kernel's actions change the table of processes, and they keep its type.
LEMMA ProcessTyped ==
  ASSUME TypeOK, Kernel \/ UNCHANGED world
  PROVE  process' \in [Generations -> Life] /\ boot' \in Nat
<1> USE DEF TypeOK
<1>1. ASSUME NEW g \in Generations, NEW p \in Pids, NEW q \in Pids \cup {None}, Born(g, p, q)
      PROVE  process' \in [Generations -> Life] /\ boot' \in Nat
  <2>1. [life |-> "live", pid |-> p, group |-> q, boot |-> boot] \in Life
    BY DEF Life
  <2> QED BY <1>1, <2>1 DEF Born
<1>2. ASSUME NEW g \in Generations, NEW p \in Pids, Launch(g, p)
      PROVE  process' \in [Generations -> Life] /\ boot' \in Nat
  BY <1>1, <1>2 DEF Launch
<1>3. ASSUME NEW from \in Generations, NEW g \in Generations, NEW p \in Pids,
             Fork(from, g, p)
      PROVE  process' \in [Generations -> Life] /\ boot' \in Nat
  <2>1. process[from].group \in Pids \cup {None}
    BY DEF Life
  <2> QED BY <1>1, <1>3, <2>1 DEF Fork
<1>4. ASSUME NEW g \in Generations, Leave(g)
      PROVE  process' \in [Generations -> Life] /\ boot' \in Nat
  <2>1. [process[g] EXCEPT !.group = process[g].pid] \in Life
    BY DEF Life
  <2> QED BY <1>4, <2>1 DEF Leave
<1>5. \A g \in Generations : Buried(process[g]) \in Life
  BY DEF Life, Buried
<1>6. ASSUME NEW g \in Generations, Die(g)
      PROVE  process' \in [Generations -> Life] /\ boot' \in Nat
  BY <1>5, <1>6 DEF Die
<1>7. CASE Reboot
  BY <1>5, <1>7 DEF Reboot
<1>8. CASE GuardHolderDies \/ UNCHANGED world
  BY <1>8 DEF GuardHolderDies, world
<1> QED BY <1>2, <1>3, <1>4, <1>6, <1>7, <1>8 DEF Kernel

\* The shapes the actions write.
LEMMA Shapes ==
  ASSUME TypeOK
  PROVE  /\ \A pc \in {"reap", "forget", "stage", "identify", "link", "unstage"} :
              op # None => [op EXCEPT !.pc = pc] \in Operation
         /\ \A d \in Delegate \cup {None} :
              identity # None => [identity EXCEPT !.delegate = d] \in Identity
         /\ \A m \in Marks : identity # None /\ identity.delegate # None =>
              [identity.delegate EXCEPT !.mark = m] \in Delegate
         /\ \A g \in Generations : identity # None /\ identity.delegate # None =>
              [identity.delegate EXCEPT !.participant = g] \in Delegate
<1> USE DEF TypeOK
<1>1. ASSUME NEW pc \in {"reap", "forget", "stage", "identify", "link", "unstage"}, op # None
      PROVE  [op EXCEPT !.pc = pc] \in Operation
  BY <1>1 DEF Operation
<1>2. ASSUME NEW d \in Delegate \cup {None}, identity # None
      PROVE  [identity EXCEPT !.delegate = d] \in Identity
  BY <1>2 DEF Identity
<1>3. identity # None /\ identity.delegate # None => identity.delegate \in Delegate
  BY DEF Identity
<1>4. ASSUME NEW m \in Marks, identity # None, identity.delegate # None
      PROVE  [identity.delegate EXCEPT !.mark = m] \in Delegate
  BY <1>3, <1>4 DEF Delegate
<1>5. ASSUME NEW g \in Generations, identity # None, identity.delegate # None
      PROVE  [identity.delegate EXCEPT !.participant = g] \in Delegate
  BY <1>3, <1>5 DEF Delegate
<1> QED BY <1>1, <1>2, <1>4, <1>5

\* What an operation has found stays well typed: its fields, one by one.
LEMMA Fields ==
  ASSUME TypeOK
  PROVE  /\ op # None =>
              /\ op.kind \in {"acquire", "release", "discard"}
              /\ op.pc \in {"reap", "forget", "stage", "identify", "link", "unstage"}
              /\ op.by \in Generations \cup {0} /\ op.pid \in Pids \cup {None}
              /\ op.token \in 0 .. MaxNonces /\ op.inode \in Inodes \cup {None}
         /\ identity # None =>
              /\ identity.pid \in Pids /\ identity.generation \in Generations
              /\ identity.nonce \in 1 .. MaxNonces /\ identity.inode \in Inodes
              /\ identity.delegate \in Delegate \cup {None}
         /\ identity # None /\ identity.delegate # None =>
              /\ identity.delegate.generation \in Generations
              /\ identity.delegate.pid \in Pids
              /\ identity.delegate.nonce \in 1 .. MaxNonces
              /\ identity.delegate.mark \in Marks
         /\ lock # None => lock.pid \in Pids /\ lock.inode \in Inodes
  BY DEF TypeOK, Operation, Identity, Delegate, LockFile

\* Entering an operation: its record is well typed.
LEMMA Entered ==
  ASSUME TypeOK, NEW k \in {"acquire", "release", "discard"}, NEW pc \in {"reap", "stage"},
         NEW by \in Generations \cup {0}, NEW token \in 0 .. MaxNonces,
         Enter(k, pc, by, token)
  PROVE  op' \in Operation
<1>1. (IF by = 0 THEN None ELSE process[by].pid) \in Pids \cup {None}
  BY Constants DEF TypeOK, Life
<1> QED BY <1>1 DEF Enter, Operation

\* The actions of the kernel.
LEMMA KernelTypes ==
  ASSUME TypeOK, Kernel
  PROVE  TypeOK'
<1> USE Constants DEF TypeOK
<1>1. process' \in [Generations -> Life] /\ boot' \in Nat
  BY ProcessTyped
<1>2. ASSUME NEW g \in Generations, NEW p \in Pids, Launch(g, p)
      PROVE  TypeOK'
  BY <1>1, <1>2 DEF Launch, Born, files
<1>3. ASSUME NEW from \in Generations, NEW g \in Generations, NEW p \in Pids,
             Fork(from, g, p)
      PROVE  TypeOK'
  BY <1>1, <1>3 DEF Fork, Born, files
<1>4. ASSUME NEW g \in Generations, Leave(g)
      PROVE  TypeOK'
  BY <1>1, <1>4 DEF Leave, files
<1>5. ASSUME NEW g \in Generations, Die(g)
      PROVE  TypeOK'
  BY <1>1, <1>5 DEF Die, files
<1>6. CASE Reboot
  BY <1>1, <1>6 DEF Reboot, Fault, files
<1>7. CASE GuardHolderDies
  BY <1>1, <1>7 DEF GuardHolderDies, Fault, files
<1> QED BY <1>2, <1>3, <1>4, <1>5, <1>6, <1>7 DEF Kernel

\* The actions of the lock.
LEMMA LockTypes ==
  ASSUME Inv,
         \/ \E g \in Generations : Acquire(g) \/ Release(g)
         \/ Discard \/ Guarded \/ PublishFails \/ UnstageFails
  PROVE  TypeOK'
<1> USE Constants DEF Inv, TypeOK
<1>a. op # None => Under
  BY DEF Guard
<1>1. ASSUME NEW g \in Generations, Acquire(g)
      PROVE  TypeOK'
  <2>1. op' \in Operation
    BY <1>1, Entered DEF Acquire
  <2> QED BY <1>1, <2>1 DEF Acquire, Enter, world, files
<1>2. ASSUME NEW g \in Generations, Release(g)
      PROVE  TypeOK'
  <2>1. op' \in Operation
    BY <1>2, Entered DEF Release
  <2> QED BY <1>2, <2>1 DEF Release, Enter, world, files
<1>3. CASE Discard
  <2>1. op' \in Operation
    BY <1>3, Entered DEF Discard
  <2> QED BY <1>3, <2>1 DEF Discard, Enter, world, files
<1>4. CASE FinishInterruptedPublication \/ OwnerGone
  BY <1>4 DEF FinishInterruptedPublication, OwnerGone, Leaves, world, files
<1>5. CASE Reap
  <2>1. op' \in Operation
    BY <1>5, Shapes DEF Reap, At, Goto
  <2> QED BY <1>5, <2>1 DEF Reap, world
<1>6. CASE Forget
  <2>1. op' \in Operation \cup {None}
    BY <1>6, Shapes DEF Forget, At, Goto, Leaves
  <2> QED BY <1>6, <2>1 DEF Forget, world
<1>7. CASE Stage
  <2>1. PICK i \in Inodes :
          /\ nonce' = nonce + 1
          /\ staged' = staged \cup {[pid |-> op.pid, inode |-> i, nonce |-> nonce + 1]}
          /\ op' = [op EXCEPT !.pc = "identify", !.token = nonce + 1, !.inode = i]
    BY <1>7 DEF Stage
  <2>2. op # None /\ op.pid # None /\ nonce < MaxNonces /\ op \in Operation
    BY <1>7, <1>a, Fields DEF Stage, At, Under
  <2>3. nonce + 1 \in 1 .. MaxNonces /\ nonce + 1 \in 0 .. MaxNonces /\ op.pid \in Pids
    BY <2>2, Fields
  <2>4. op' \in Operation
    BY <2>1, <2>2, <2>3 DEF Operation
  <2>5. staged' \subseteq Candidate
    BY <2>1, <2>3 DEF Candidate
  <2>6. nonce' \in 0 .. MaxNonces
    BY <2>1, <2>3
  <2> QED BY <1>7, <2>4, <2>5, <2>6 DEF Stage, world
<1>8. CASE WriteIdentity
  <2>1. op' \in Operation
    BY <1>8, Shapes DEF WriteIdentity, At, Goto
  <2>2. /\ op.pid \in Pids /\ op.by \in Generations
        /\ op.token \in 1 .. MaxNonces /\ op.inode \in Inodes
    BY <1>8, <1>a, Fields DEF WriteIdentity, At, Under, Publishing
  <2>3. identity' \in Identity
    BY <1>8, <2>2 DEF WriteIdentity, Identity
  <2> QED BY <1>8, <2>1, <2>3 DEF WriteIdentity, world
<1>9. CASE Link
  <2>1. op' \in Operation
    BY <1>9, Shapes DEF Link, At, Goto
  <2>2. op.pid \in Pids /\ op.inode \in Inodes
    BY <1>9, <1>a, Fields DEF Link, At, Under, Publishing
  <2>3. lock' \in LockFile
    BY <1>9, <2>2 DEF Link, LockFile
  <2> QED BY <1>9, <2>1, <2>3 DEF Link, world
<1>10. Granted /\ op # None => lease' \in [Generations -> 0 .. MaxNonces]
  BY Fields DEF Granted
<1>11. CASE Unstage
  BY <1>10, <1>11 DEF Unstage, At, Leaves, world
<1>12. CASE PublishFails
  BY <1>12 DEF PublishFails, Fault, Leaves, world
<1>13. CASE UnstageFails
  BY <1>10, <1>13 DEF UnstageFails, At, Fault, Leaves, world, files
<1> QED BY <1>1, <1>2, <1>3, <1>4, <1>5, <1>6, <1>7, <1>8, <1>9, <1>11, <1>12, <1>13 DEF Guarded

\* The actions of the delegate.
LEMMA DelegationTypes ==
  ASSUME TypeOK, Numbered, Delegation
  PROVE  TypeOK'
<1> USE Constants DEF TypeOK
<1>1. ASSUME NEW g \in Generations, NEW d \in Generations, DelegateTo(g, d)
      PROVE  TypeOK'
  <2>a. process[d].pid \in Pids
    BY <1>1 DEF DelegateTo, Numbered, Life
  <2>b. nonce + 1 \in 1 .. MaxNonces /\ nonce + 1 \in 0 .. MaxNonces
    BY <1>1 DEF DelegateTo
  <2>1. identity # None /\ process[d].pid \in Pids /\ nonce + 1 \in 1 .. MaxNonces
    BY <1>1, <2>a, <2>b DEF DelegateTo, Known
  <2>2. [generation |-> d, pid |-> process[d].pid, nonce |-> nonce + 1,
         mark |-> "none", participant |-> 0] \in Delegate
    BY <2>1 DEF Delegate, Marks
  <2>3. identity' \in Identity
    BY <1>1, <2>1, <2>2, Shapes DEF DelegateTo, Rewrite
  <2>4. identity.nonce \in 0 .. MaxNonces
    BY <2>1, Fields
  <2>5. works' \in [Generations -> 0 .. MaxNonces]
    BY <1>1, <2>4 DEF DelegateTo
  <2>6. nonce' \in 0 .. MaxNonces
    BY <1>1, <2>b DEF DelegateTo
  <2> QED BY <1>1, <2>3, <2>5, <2>6 DEF DelegateTo, Rewrite, world
<1>2. ASSUME NEW d \in Delegate \cup {None}, identity # None, Rewrite(d), UNCHANGED <<nonce, works>>
      PROVE  TypeOK'
  <2>1. identity' \in Identity
    BY <1>2, Shapes DEF Rewrite
  <2> QED BY <1>2, <2>1 DEF Rewrite, world
<1>3. ASSUME NEW m \in Marks, identity # None, identity.delegate # None, Marked(m)
      PROVE  TypeOK'
  BY <1>2, <1>3, Shapes DEF Marked
<1>4. "cleanupPending" \in Marks /\ "blocked" \in Marks /\ "quiescent" \in Marks
  BY DEF Marks
<1>5. ASSUME NEW token \in 1 .. nonce, Undelegate(token)
      PROVE  TypeOK'
  BY <1>2, <1>5 DEF Undelegate, Names, Known
<1>6. ASSUME NEW token \in 1 .. nonce, ProtectCleanup(token) \/ Block(token)
      PROVE  TypeOK'
  BY <1>3, <1>4, <1>6 DEF ProtectCleanup, Block, Names, Known
<1>7. ASSUME NEW g \in Generations, NEW token \in 1 .. nonce, MarkQuiescent(g, token)
      PROVE  TypeOK'
  BY <1>3, <1>4, <1>7 DEF MarkQuiescent, Names, Known
<1>8. ASSUME NEW g \in Generations, BindParticipant(g)
      PROVE  TypeOK'
  <2>1. identity # None /\ identity.delegate # None
    BY <1>8 DEF BindParticipant, Known
  <2> QED BY <1>2, <1>8, <2>1, Shapes DEF BindParticipant
<1> QED BY <1>1, <1>5, <1>6, <1>7, <1>8 DEF Delegation

\* Every step keeps the type.
LEMMA TypeStep ==
  ASSUME Inv, [Next]_vars
  PROVE  TypeOK'
<1>1. CASE Kernel
  BY <1>1, KernelTypes DEF Inv
<1>2. CASE Delegation
  BY <1>2, DelegationTypes DEF Inv
<1>3. CASE UNCHANGED vars
  BY <1>3 DEF Inv, TypeOK, vars, files
<1> QED BY <1>1, <1>2, <1>3, LockTypes DEF Next

-----------------------------------------------------------------------------
(* The kernel's numbers.                                                   *)

\* A step that touches no process and gives nothing to the dead keeps the numbers.
LEMMA NumberedKept ==
  ASSUME Numbered, UNCHANGED world,
         \A g \in Generations : ~Live(g) =>
           (lease[g] = 0 => lease'[g] = 0) /\ (works[g] = 0 => works'[g] = 0)
  PROVE  Numbered'
  BY DEF Numbered, world, Live, GroupLives, Leads

\* A new process gets a number no process and no group has.
LEMMA NumberedBorn ==
  ASSUME TypeOK, Numbered, NEW g \in Generations, NEW p \in Pids, NEW q \in Pids,
         Born(g, p, q), q = p \/ GroupLives(q),
         \A h \in Generations : h # g => works'[h] = works[h]
  PROVE  Numbered'
<1> USE DEF Live
<1>1. /\ \A h \in Generations : h # g => process'[h] = process[h]
      /\ process'[g] = [life |-> "live", pid |-> p, group |-> q, boot |-> boot]
      /\ ~Live(g) /\ boot' = boot /\ lease' = lease
  BY DEF Born, TypeOK
<1>2. \A h \in Generations : Live(h) => process[h].pid # p /\ process[h].group # p
  BY DEF Born, PidLives, GroupLives
<1>3. p # None /\ q # None /\ boot \in Nat
  BY Constants DEF TypeOK
<1>4. ASSUME NEW h \in Generations, Live(h)', GroupLives(process[h].pid)', h # g
      PROVE  Leads(h)'
  <2>1. PICK x \in Generations : process'[x].life = "live" /\ process'[x].group = process[h].pid
    BY <1>1, <1>4 DEF GroupLives
  <2>2. Live(h) /\ process[h].pid # p
    BY <1>1, <1>2, <1>4
  <2>3. GroupLives(process[h].pid)
    BY <1>1, <2>1, <2>2 DEF GroupLives
  <2> QED BY <1>1, <1>4, <2>2, <2>3 DEF Numbered, Leads
<1>5. GroupLives(p)' => q = p
  BY <1>1, <1>2 DEF GroupLives
<1>6. \A h \in Generations : process'[h].boot \in Nat /\ process'[h].boot =< boot'
  BY <1>1, <1>3 DEF Numbered
<1>7. \A h \in Generations : Live(h)' =>
        /\ process'[h].pid # None /\ process'[h].group # None /\ process'[h].boot = boot'
        /\ GroupLives(process[h].pid)' => Leads(h)'
  BY <1>1, <1>3, <1>4, <1>5 DEF Numbered, Leads
<1>8. \A h, e \in Generations :
        Live(h)' /\ Live(e)' /\ process'[h].pid = process'[e].pid => h = e
  BY <1>1, <1>2 DEF Numbered
<1>9. \A h \in Generations : ~Live(h)' =>
        /\ lease'[h] = 0 /\ works'[h] = 0
        /\ process'[h].pid = None /\ process'[h].group = None
  BY <1>1 DEF Numbered
<1> QED BY <1>6, <1>7, <1>8, <1>9 DEF Numbered

\* A process that detaches leads a group of its own.
LEMMA NumberedLeave ==
  ASSUME TypeOK, Numbered, NEW g \in Generations, Leave(g)
  PROVE  Numbered'
<1> USE DEF Live
<1>1. /\ \A h \in Generations : h # g => process'[h] = process[h] /\ works'[h] = works[h]
      /\ process'[g].group = process[g].pid /\ process'[g].pid = process[g].pid
      /\ process'[g].life = "live" /\ process'[g].boot = process[g].boot
      /\ Live(g) /\ boot' = boot /\ lease' = lease
  BY DEF Leave, TypeOK, Life
<1>2. ASSUME NEW h \in Generations, Live(h)', GroupLives(process[h].pid)', h # g
      PROVE  Leads(h)'
  <2>1. PICK x \in Generations : process'[x].life = "live" /\ process'[x].group = process[h].pid
    BY <1>1, <1>2 DEF GroupLives
  <2>2. x # g
    BY <1>1, <1>2, <2>1 DEF Numbered
  <2>3. GroupLives(process[h].pid)
    BY <1>1, <2>1, <2>2 DEF GroupLives
  <2> QED BY <1>1, <1>2, <2>3 DEF Numbered, Leads
<1>3. \A h \in Generations : process'[h].boot \in Nat /\ process'[h].boot =< boot'
  BY <1>1 DEF Numbered
<1>4. \A h \in Generations : Live(h)' =>
        /\ process'[h].pid # None /\ process'[h].group # None /\ process'[h].boot = boot'
        /\ GroupLives(process[h].pid)' => Leads(h)'
  BY <1>1, <1>2 DEF Numbered, Leads
<1>5. \A h, e \in Generations :
        Live(h)' /\ Live(e)' /\ process'[h].pid = process'[e].pid => h = e
  BY <1>1 DEF Numbered
<1>6. \A h \in Generations : ~Live(h)' =>
        /\ lease'[h] = 0 /\ works'[h] = 0
        /\ process'[h].pid = None /\ process'[h].group = None
  BY <1>1 DEF Numbered
<1> QED BY <1>3, <1>4, <1>5, <1>6 DEF Numbered

\* A process that ends gives its numbers back.
LEMMA NumberedDie ==
  ASSUME TypeOK, Numbered, NEW g \in Generations, Die(g)
  PROVE  Numbered'
<1> USE DEF Live
<1>1. /\ \A h \in Generations : h # g =>
           process'[h] = process[h] /\ works'[h] = works[h] /\ lease'[h] = lease[h]
      /\ process'[g].group = None /\ process'[g].pid = None /\ process'[g].life = "dead"
      /\ process'[g].boot = process[g].boot /\ boot' = boot
      /\ lease'[g] = 0 /\ works'[g] = 0
  BY DEF Die, Buried, TypeOK, Life
<1>2. \A h \in Generations : h # g /\ GroupLives(process[h].pid)' => GroupLives(process[h].pid)
  BY <1>1 DEF GroupLives
<1>3. \A h \in Generations : process'[h].boot \in Nat /\ process'[h].boot =< boot'
  BY <1>1 DEF Numbered
<1>4. \A h \in Generations : Live(h)' =>
        /\ process'[h].pid # None /\ process'[h].group # None /\ process'[h].boot = boot'
        /\ GroupLives(process[h].pid)' => Leads(h)'
  BY <1>1, <1>2 DEF Numbered, Leads
<1>5. \A h, e \in Generations :
        Live(h)' /\ Live(e)' /\ process'[h].pid = process'[e].pid => h = e
  BY <1>1 DEF Numbered
<1>6. \A h \in Generations : ~Live(h)' =>
        /\ lease'[h] = 0 /\ works'[h] = 0
        /\ process'[h].pid = None /\ process'[h].group = None
  BY <1>1 DEF Numbered
<1> QED BY <1>3, <1>4, <1>5, <1>6 DEF Numbered

\* After a reboot there is no process.
LEMMA NumberedReboot ==
  ASSUME TypeOK, Numbered, Reboot
  PROVE  Numbered' /\ \A h \in Generations : ~Live(h)' /\ process'[h].boot = process[h].boot
<1>1. \A h \in Generations :
        /\ ~Live(h)' /\ process'[h].boot = process[h].boot
        /\ process'[h].pid = None /\ process'[h].group = None
        /\ lease'[h] = 0 /\ works'[h] = 0
  BY DEF Reboot, Buried, Live, Numbered, TypeOK, Life
<1>2. boot \in Nat /\ boot' = boot + 1
  BY DEF Reboot, TypeOK
<1>3. \A h \in Generations : process'[h].boot \in Nat /\ process'[h].boot =< boot'
  BY <1>1, <1>2 DEF Numbered
<1> QED BY <1>1, <1>3 DEF Numbered

\* Every step keeps the kernel's numbers in order.
LEMMA NumberedStep ==
  ASSUME Inv, [Next]_vars
  PROVE  Numbered'
<1> USE DEF Inv
<1>0. op # None => op.by \in Generations \cup {0}
  BY Fields
<1>1. CASE UNCHANGED vars
  BY <1>1, NumberedKept DEF vars, world
<1>2. CASE Kernel
  <2>1. ASSUME NEW g \in Generations, NEW p \in Pids, Launch(g, p)
        PROVE  Numbered'
    BY <2>1, NumberedBorn DEF Launch
  <2>2. ASSUME NEW from \in Generations, NEW g \in Generations, NEW p \in Pids,
               Fork(from, g, p)
        PROVE  Numbered'
    <3>1. process[from].group \in Pids /\ GroupLives(process[from].group)
      BY <2>2 DEF Fork, Numbered, TypeOK, Life, GroupLives
    <3>2. \A h \in Generations : h # g => works'[h] = works[h]
      BY <2>2 DEF Fork, TypeOK
    <3> QED BY <2>2, <3>1, <3>2, NumberedBorn DEF Fork
  <2>3. CASE GuardHolderDies
    BY <2>3, NumberedKept DEF GuardHolderDies
  <2> QED BY <1>2, <2>1, <2>2, <2>3, NumberedLeave, NumberedDie, NumberedReboot DEF Kernel
<1>3. CASE (\E g \in Generations : Acquire(g) \/ Release(g)) \/ Discard
  BY <1>3, NumberedKept DEF Acquire, Release, Discard, Enter
<1>4. CASE FinishInterruptedPublication \/ Forget \/ Stage \/ OwnerGone
             \/ WriteIdentity \/ Link \/ PublishFails
  BY <1>4, NumberedKept DEF FinishInterruptedPublication, Forget, Stage, OwnerGone,
         WriteIdentity, Link, PublishFails
<1>5. CASE Reap
  BY <1>5, NumberedKept DEF Reap, TypeOK
<1>6. op # None /\ Granted => \A g \in Generations : ~Live(g) /\ lease[g] = 0 => lease'[g] = 0
  BY <1>0 DEF Granted, TypeOK
<1>7. CASE Unstage
  BY <1>6, <1>7, NumberedKept DEF Unstage, At
<1>8. CASE UnstageFails
  BY <1>6, <1>8, NumberedKept DEF UnstageFails, At
<1>9. CASE Delegation
  <2>1. UNCHANGED world /\ lease' = lease
    BY <1>9 DEF Delegation, DelegateTo, Undelegate, ProtectCleanup, Block, MarkQuiescent,
           BindParticipant, Marked, Rewrite
  <2>2. \A g \in Generations : ~Live(g) => works'[g] = works[g]
    BY <1>9 DEF Delegation, DelegateTo, Undelegate, ProtectCleanup, Block, MarkQuiescent,
           BindParticipant, Marked, TypeOK
  <2> QED BY <2>1, <2>2, NumberedKept
<1> QED BY <1>1, <1>2, <1>3, <1>4, <1>5, <1>7, <1>8, <1>9 DEF Next, Guarded

-----------------------------------------------------------------------------
(* The delegate, and those who work under a lease.                         *)

\* The kernel does not change what a dead generation was, nor which boot it had.
LEMMA Lasting ==
  ASSUME TypeOK, Kernel, NEW d \in Generations, process[d].life # "unborn"
  PROVE  /\ process'[d].life # "unborn" /\ process'[d].boot = process[d].boot
         /\ Live(d)' => Live(d)
         /\ Live(d)' /\ Leads(d) => process'[d].pid = process[d].pid /\ Leads(d)'
<1> USE DEF Live, Leads
<1>1. ASSUME NEW g \in Generations, NEW p \in Pids, Launch(g, p)
      PROVE  process'[d] = process[d]
  BY <1>1 DEF Launch, Born, TypeOK
<1>2. ASSUME NEW from \in Generations, NEW g \in Generations, NEW p \in Pids,
             Fork(from, g, p)
      PROVE  process'[d] = process[d]
  BY <1>2 DEF Fork, Born, TypeOK
<1>3. ASSUME NEW g \in Generations, Leave(g)
      PROVE  /\ process'[d].life = process[d].life /\ process'[d].boot = process[d].boot
             /\ Leads(d) => process'[d] = process[d]
  BY <1>3 DEF Leave, TypeOK, Life
<1>4. ASSUME NEW g \in Generations, Die(g)
      PROVE  process'[d].boot = process[d].boot
             /\ (process'[d] = process[d] \/ process'[d].life = "dead")
  BY <1>4 DEF Die, Buried, TypeOK, Life
<1>5. CASE Reboot
  <2>1. process'[d].boot = process[d].boot
        /\ (process'[d] = process[d] \/ process'[d].life = "dead")
    BY <1>5 DEF Reboot, Buried, TypeOK, Life
  <2> QED BY <2>1
<1>6. CASE GuardHolderDies
  BY <1>6 DEF GuardHolderDies, world
<1> QED BY <1>1, <1>2, <1>3, <1>4, <1>5, <1>6 DEF Kernel

\* What the other actions leave of a delegate: the leader it was made out to.
SameLeader ==
  identity' # None /\ identity'.delegate # None =>
    /\ identity # None /\ identity.delegate # None
    /\ identity'.delegate.generation = identity.delegate.generation
    /\ identity'.delegate.pid = identity.delegate.pid

\* A rewritten identity is the old one with an other delegate.
LEMMA Rewritten ==
  ASSUME TypeOK, identity # None, NEW d, Rewrite(d)
  PROVE  /\ identity'.pid = identity.pid /\ identity'.generation = identity.generation
         /\ identity'.nonce = identity.nonce /\ identity'.inode = identity.inode
         /\ identity'.delegate = d
  BY DEF TypeOK, Identity, Rewrite

\* The marks of a delegate change, its leader does not.
LEMMA Remarked ==
  ASSUME TypeOK,
         \/ \E token \in 1 .. nonce : ProtectCleanup(token) \/ Block(token)
         \/ \E g \in Generations, token \in 1 .. nonce : MarkQuiescent(g, token)
         \/ \E g \in Generations : BindParticipant(g)
  PROVE  /\ identity # None /\ identity.delegate # None /\ op = None
         /\ identity' # None /\ identity'.delegate # None
         /\ identity'.pid = identity.pid /\ identity'.generation = identity.generation
         /\ identity'.nonce = identity.nonce /\ identity'.inode = identity.inode
         /\ identity'.delegate.generation = identity.delegate.generation
         /\ identity'.delegate.pid = identity.delegate.pid
         /\ identity'.delegate.nonce = identity.delegate.nonce
         /\ UNCHANGED <<world, lock, staged, op, nonce, lease, works, faults>>
<1>1. identity # None /\ identity.delegate # None /\ op = None /\ identity.delegate \in Delegate
  BY Fields DEF ProtectCleanup, Block, MarkQuiescent, BindParticipant, Names, Known, Settled,
     TypeOK,
         Identity
<1>2. ASSUME NEW e \in Delegate, e.generation = identity.delegate.generation,
             e.pid = identity.delegate.pid, e.nonce = identity.delegate.nonce,
             Rewrite(e), UNCHANGED <<nonce, works>>
      PROVE  /\ identity' # None /\ identity'.delegate # None
             /\ identity'.pid = identity.pid /\ identity'.generation = identity.generation
             /\ identity'.nonce = identity.nonce /\ identity'.inode = identity.inode
             /\ identity'.delegate.generation = identity.delegate.generation
             /\ identity'.delegate.pid = identity.delegate.pid
             /\ identity'.delegate.nonce = identity.delegate.nonce
             /\ UNCHANGED <<world, lock, staged, op, nonce, lease, works, faults>>
  <2>1. identity' \in Identity
    BY <1>1, <1>2, Shapes DEF Rewrite
  <2> QED BY <1>1, <1>2, <2>1, Rewritten, NothingAssumption DEF Rewrite
<1>3. ASSUME NEW m \in Marks, Marked(m)
      PROVE  \E e \in Delegate :
               /\ e.generation = identity.delegate.generation
               /\ e.pid = identity.delegate.pid /\ e.nonce = identity.delegate.nonce
               /\ Rewrite(e) /\ UNCHANGED <<nonce, works>>
  <2> DEFINE e == [identity.delegate EXCEPT !.mark = m]
  <2>1. e \in Delegate /\ e.generation = identity.delegate.generation
        /\ e.pid = identity.delegate.pid /\ e.nonce = identity.delegate.nonce
    BY <1>1, Shapes DEF Delegate
  <2> QED BY <1>3, <2>1 DEF Marked
<1>4. ASSUME NEW g \in Generations, BindParticipant(g)
      PROVE  \E e \in Delegate :
               /\ e.generation = identity.delegate.generation
               /\ e.pid = identity.delegate.pid /\ e.nonce = identity.delegate.nonce
               /\ Rewrite(e) /\ UNCHANGED <<nonce, works>>
  <2> DEFINE e == [identity.delegate EXCEPT !.participant = g]
  <2>1. e \in Delegate /\ e.generation = identity.delegate.generation
        /\ e.pid = identity.delegate.pid /\ e.nonce = identity.delegate.nonce
    BY <1>1, Shapes DEF Delegate
  <2> QED BY <1>4, <2>1 DEF BindParticipant
<1>5. "cleanupPending" \in Marks /\ "blocked" \in Marks /\ "quiescent" \in Marks
  BY DEF Marks
<1>6. ASSUME NEW token \in 1 .. nonce, ProtectCleanup(token) \/ Block(token)
      PROVE  Marked("cleanupPending") \/ Marked("blocked")
  BY <1>6 DEF ProtectCleanup, Block
<1>7. ASSUME NEW g \in Generations, NEW token \in 1 .. nonce, MarkQuiescent(g, token)
      PROVE  Marked("quiescent")
  BY <1>7 DEF MarkQuiescent
<1> QED BY <1>1, <1>2, <1>3, <1>4, <1>5, <1>6, <1>7

\* Outside the kernel and DelegateTo no step makes out a delegation to somebody else.
LEMMA LeaderKept ==
  ASSUME Inv, [Next]_vars
  PROVE  \/ Kernel /\ identity' = identity
         \/ \E g, d \in Generations : DelegateTo(g, d)
         \/ UNCHANGED world /\ SameLeader
<1> USE DEF Inv
<1>1. CASE Kernel
  BY <1>1 DEF Kernel, Launch, Fork, Born, Leave, Die, GuardHolderDies, Reboot, files
<1>2. CASE UNCHANGED vars
  BY <1>2 DEF vars, files, world, SameLeader
<1>3. CASE (\E g \in Generations : Acquire(g) \/ Release(g)) \/ Discard
  BY <1>3 DEF Acquire, Release, Discard, Enter, files, SameLeader
<1>4. CASE FinishInterruptedPublication \/ Reap \/ Forget \/ Stage \/ OwnerGone
             \/ Link \/ Unstage \/ PublishFails \/ UnstageFails
  BY <1>4 DEF FinishInterruptedPublication, Reap, Forget, Stage, OwnerGone, Link, Unstage,
         PublishFails, UnstageFails, files, SameLeader
<1>5. CASE WriteIdentity
  BY <1>5 DEF WriteIdentity, SameLeader
<1>6. ASSUME NEW token \in 1 .. nonce, Undelegate(token)
      PROVE  UNCHANGED world /\ SameLeader
  BY <1>6, Rewritten DEF Undelegate, Names, Known, Rewrite, SameLeader
<1>7. CASE \/ \E token \in 1 .. nonce : ProtectCleanup(token) \/ Block(token)
           \/ \E g \in Generations, token \in 1 .. nonce : MarkQuiescent(g, token)
           \/ \E g \in Generations : BindParticipant(g)
  BY <1>7, Remarked DEF SameLeader
<1> QED BY <1>1, <1>2, <1>3, <1>4, <1>5, <1>6, <1>7 DEF Next, Guarded, Delegation

\* What a delegation to d leaves behind.
LEMMA NewDelegate ==
  ASSUME Inv, NEW g \in Generations, NEW d \in Generations, DelegateTo(g, d)
  PROVE  /\ identity # None /\ identity' # None /\ lock # None /\ Known /\ op = None
         /\ identity.nonce = lease[g]
         /\ identity'.pid = identity.pid /\ identity'.generation = identity.generation
         /\ identity'.nonce = identity.nonce /\ identity'.inode = identity.inode
         /\ identity'.delegate = [generation |-> d, pid |-> process[d].pid,
              nonce |-> nonce + 1, mark |-> "none", participant |-> 0]
         /\ identity'.delegate # None
         /\ Live(d) /\ Leads(d)
         /\ UNCHANGED <<world, lock, staged, op, lease, faults>>
         /\ works' = [h \in Generations |->
              IF Live(h) /\ process[h].group = process[d].pid THEN identity.nonce ELSE works[h]]
<1> USE DEF Inv
<1>1. identity # None /\ lock # None /\ Known /\ op = None /\ Live(d) /\ Leads(d)
  BY DEF DelegateTo, Settled, Known
<1>2. identity'.delegate = [generation |-> d, pid |-> process[d].pid,
              nonce |-> nonce + 1, mark |-> "none", participant |-> 0]
  BY <1>1, Rewritten DEF DelegateTo
<1>3. identity'.delegate \in Delegate
  <2>1. process[d].pid \in Pids
    BY <1>1 DEF DelegateTo, Numbered, TypeOK, Life
  <2>2. nonce + 1 \in 1 .. MaxNonces
    BY Constants DEF DelegateTo, TypeOK
  <2> QED BY <1>2, <2>1, <2>2 DEF Delegate, Marks
<1>4. identity' \in Identity
  <2>1. identity' = [identity EXCEPT !.delegate = identity'.delegate]
    BY <1>1, <1>2 DEF DelegateTo, Rewrite
  <2> QED BY <1>1, <1>3, <2>1, Shapes
<1> QED BY <1>1, <1>2, <1>3, <1>4, Rewritten, NothingAssumption DEF DelegateTo, Rewrite

\* The leader of the delegate stays that generation, or goes.
LEMMA DelegatedStep ==
  ASSUME Inv, [Next]_vars
  PROVE  Delegated'
<1> USE DEF Inv
<1>1. CASE Kernel /\ identity' = identity
  BY <1>1, Lasting, Fields DEF Delegated
<1>2. ASSUME NEW g \in Generations, NEW d \in Generations, DelegateTo(g, d)
      PROVE  Delegated'
  <2>a. identity'.delegate = [generation |-> d, pid |-> process[d].pid,
           nonce |-> nonce + 1, mark |-> "none", participant |-> 0]
    BY <1>2, NewDelegate
  <2>1. identity'.delegate.generation = d /\ identity'.delegate.pid = process[d].pid
    BY <2>a
  <2> QED BY <1>2, <2>1, NewDelegate DEF Delegated, world, Live, Leads
<1>3. CASE UNCHANGED world /\ SameLeader
  BY <1>3 DEF Delegated, SameLeader, world, Live, Leads
<1> QED BY <1>1, <1>2, <1>3, LeaderKept

-----------------------------------------------------------------------------
(* Those who work under a lease.                                           *)

\* A probe that finds the delegate dead can be believed: nobody works under the lease,
\* and its leader did not leave anything open.
LEMMA DeadDelegate ==
  ASSUME Inv, identity # None, identity.delegate # None, NEW allow \in BOOLEAN,
         ObserveDelegate(identity.delegate, allow) = "dead"
  PROVE  /\ \A g \in Generations : works[g] = 0
         /\ ~allow => NoDoubt
<1> USE DEF Inv
<1> DEFINE d == identity.delegate
<1>1. d.mark \in Marks /\ d.generation \in Generations
  BY Fields
<1>2. \/ process[d.generation].boot # boot
      \/ /\ ~(d.mark = "blocked" \/ (d.mark = "cleanupPending" /\ ~allow))
         /\ ~(Live(d.generation) \/ (GroupLives(d.pid) /\ ~LeaderReused(d)))
  BY DEF ObserveDelegate
<1>3. ASSUME NEW g \in Generations, works[g] # 0
      PROVE  FALSE
  <2>1. Employed(g) /\ Live(g)
    BY <1>3 DEF Covered, Numbered
  <2>2. process[d.generation].boot = boot /\ GroupLives(d.pid)
        /\ (LeaderReused(d) => Live(d.generation))
    BY <2>1 DEF Employed, GroupLives
  <2> QED BY <1>2, <2>2
<1>4. ASSUME ~allow
      PROVE  NoDoubt
  BY <1>1, <1>2, <1>4 DEF NoDoubt, Marks
<1> QED BY <1>3, <1>4

\* A lock that is found stale belongs to nobody.
LEMMA StaleIsIdle ==
  ASSUME Inv, Stale
  PROVE  Idle /\ NoDoubt /\ Whole /\ op = None
<1> USE DEF Inv
<1>1. Whole /\ lock # None /\ Known /\ op = None
  BY DEF Stale, Settled, Guard, Whole
<1>2. identity # None
  BY <1>1 DEF Known
<1>3. ~Live(identity.generation)
        /\ (identity.delegate # None => ObserveDelegate(identity.delegate, FALSE) = "dead")
  BY <1>1 DEF Stale, EffectiveOwner, OwnerLives
<1>4. \A g \in Generations : lease[g] = 0
  BY <1>3 DEF Covered, Held, Numbered
<1>5. CASE identity.delegate = None
  BY <1>1, <1>4, <1>5 DEF Covered, Employed, Idle, NoDoubt
<1>6. CASE identity.delegate # None
  BY <1>1, <1>2, <1>3, <1>4, <1>6, DeadDelegate DEF Idle
<1> QED BY <1>1, <1>5, <1>6

\* A step that leaves the files and gives nobody new work keeps everybody covered, as
\* long as the delegate and the numbers of those at work mean what they meant.
LEMMA CoveredKept ==
  ASSUME Covered, UNCHANGED <<lock, identity>>,
         \A g \in Generations : lease'[g] # 0 => lease'[g] = lease[g],
         \A g \in Generations : works'[g] # 0 => Employed(g)'
  PROVE  Covered'
<1>1. \A g \in Generations : lease'[g] # 0 => Held(g)'
  BY DEF Covered, Held, Known
<1> QED BY <1>1 DEF Covered

\* The kernel gives the number of a group to nobody while one of the group lives.
LEMMA CoveredKernel ==
  ASSUME Inv, Kernel
  PROVE  Covered'
<1> USE DEF Inv
<1>1. ASSUME NEW h \in Generations, works[h] # 0
      PROVE  /\ Live(h) /\ lock # None /\ Known /\ identity # None
             /\ identity.nonce = works[h] /\ identity.delegate # None
             /\ process[h].group = identity.delegate.pid
             /\ GroupLives(identity.delegate.pid)
             /\ identity.delegate.generation \in Generations
             /\ process[identity.delegate.generation].boot = boot
             /\ process[identity.delegate.generation].life # "unborn"
             /\ LeaderReused(identity.delegate) => Live(identity.delegate.generation)
             /\ Live(identity.delegate.generation) =>
                  /\ process[identity.delegate.generation].pid = identity.delegate.pid
                  /\ Leads(identity.delegate.generation)
  BY <1>1, Fields DEF Covered, Employed, Numbered, Delegated, GroupLives, Known
<1>2. ASSUME NEW g \in Generations, NEW p \in Pids, NEW q \in Pids, Born(g, p, q),
             \/ q = p /\ works' = works
             \/ \E e \in Generations :
                  /\ Live(e) /\ q = process[e].group
                  /\ works' = [works EXCEPT ![g] = works[e]]
      PROVE  Covered'
  <2>1. /\ \A h \in Generations : h # g => process'[h] = process[h]
        /\ process'[g] = [life |-> "live", pid |-> p, group |-> q, boot |-> boot]
        /\ ~Live(g) /\ UNCHANGED <<boot, lock, identity, lease>>
        /\ process[g].life = "unborn" /\ ~GroupLives(p)
    BY <1>2 DEF Born, TypeOK, Live, files
  <2>2. ASSUME NEW h \in Generations, works'[h] # 0
        PROVE  Employed(h)'
    <3>1. PICK e \in Generations : works[e] # 0 /\ works'[h] = works[e]
                                   /\ process'[h].group = process[e].group
      <4>1. CASE h # g
        BY <1>2, <2>1, <2>2, <4>1 DEF TypeOK
      <4>2. CASE h = g
        <5>1. works[g] = 0
          BY <2>1 DEF Numbered
        <5> QED BY <1>2, <2>1, <2>2, <4>2, <5>1 DEF TypeOK
      <4> QED BY <4>1, <4>2
    <3>2. identity.delegate.generation # g /\ p # identity.delegate.pid
      BY <1>1, <2>1, <3>1
    <3>3. LeaderReused(identity.delegate)' => LeaderReused(identity.delegate)
      BY <2>1, <3>2 DEF LeaderReused, Live, Leads
    <3>4. Live(identity.delegate.generation) => Live(identity.delegate.generation)'
      BY <1>1, <2>1, <3>1, <3>2 DEF Live
    <3> QED BY <1>1, <2>1, <3>1, <3>2, <3>3, <3>4 DEF Employed, Known
  <2> QED BY <2>1, <2>2, CoveredKept
<1>3. ASSUME NEW g \in Generations, NEW p \in Pids, Launch(g, p)
      PROVE  Covered'
  BY <1>2, <1>3 DEF Launch
<1>4. ASSUME NEW from \in Generations, NEW g \in Generations, NEW p \in Pids,
             Fork(from, g, p)
      PROVE  Covered'
  <2>1. process[from].group \in Pids
    BY <1>4 DEF Fork, Numbered, TypeOK, Life
  <2> QED BY <1>2, <1>4, <2>1 DEF Fork
<1>5. ASSUME NEW g \in Generations, Leave(g)
      PROVE  Covered'
  <2>1. /\ \A h \in Generations : h # g => process'[h] = process[h] /\ works'[h] = works[h]
        /\ process'[g].group = process[g].pid /\ process'[g].pid = process[g].pid
        /\ process'[g].life = "live" /\ process'[g].boot = process[g].boot /\ works'[g] = 0
        /\ Live(g) /\ ~Leads(g) /\ ~GroupLives(process[g].pid)
        /\ UNCHANGED <<boot, lock, identity, lease>>
    BY <1>5 DEF Leave, TypeOK, Life, files, Live
  <2>2. ASSUME NEW h \in Generations, works'[h] # 0
        PROVE  Employed(h)'
    <3>1. h # g /\ works[h] # 0 /\ works'[h] = works[h] /\ process'[h] = process[h]
      BY <2>1, <2>2
    <3>2. identity.delegate.pid # process[g].pid /\ identity.delegate.generation # g
      BY <1>1, <2>1, <3>1 DEF Live
    <3>3. LeaderReused(identity.delegate)' => LeaderReused(identity.delegate)
      BY <2>1, <3>2 DEF LeaderReused, Live, Leads
    <3>4. Live(identity.delegate.generation) => Live(identity.delegate.generation)'
      BY <1>1, <2>1, <3>1, <3>2 DEF Live
    <3> QED BY <1>1, <2>1, <3>1, <3>2, <3>3, <3>4 DEF Employed, Known
  <2> QED BY <2>1, <2>2, CoveredKept
<1>6. ASSUME NEW g \in Generations, Die(g)
      PROVE  Covered'
  <2>1. /\ \A h \in Generations : h # g =>
             process'[h] = process[h] /\ works'[h] = works[h] /\ lease'[h] = lease[h]
        /\ process'[g].life = "dead" /\ process'[g].boot = process[g].boot
        /\ works'[g] = 0 /\ lease'[g] = 0 /\ Live(g)
        /\ UNCHANGED <<boot, lock, identity>>
    BY <1>6 DEF Die, Buried, TypeOK, Life, files
  <2>2. ASSUME NEW h \in Generations, works'[h] # 0
        PROVE  Employed(h)'
    <3>1. h # g /\ works[h] # 0 /\ works'[h] = works[h] /\ process'[h] = process[h]
      BY <2>1, <2>2
    <3>2. ASSUME LeaderReused(identity.delegate)'
          PROVE  Live(identity.delegate.generation)'
      <4>1. PICK x \in Generations :
              Live(x)' /\ process'[x].pid = identity.delegate.pid /\ Leads(x)'
        BY <2>1, <3>2 DEF LeaderReused
      <4>2. x # g /\ Live(x) /\ process[x].pid = identity.delegate.pid /\ Leads(x)
        BY <2>1, <4>1 DEF Live, Leads
      <4>3. Live(identity.delegate.generation)
        BY <1>1, <3>1, <4>2 DEF LeaderReused
      <4>4. identity.delegate.generation = x
        BY <1>1, <3>1, <4>2, <4>3 DEF Numbered
      <4> QED BY <2>1, <4>1, <4>4
    <3>3. process'[identity.delegate.generation].boot = boot
      BY <1>1, <2>1, <3>1
    <3> QED BY <1>1, <2>1, <3>1, <3>2, <3>3 DEF Employed, Known
  <2> QED BY <2>1, <2>2, CoveredKept
<1>7. CASE Reboot
  BY <1>7 DEF Reboot, Covered
<1>8. CASE GuardHolderDies
  BY <1>8 DEF GuardHolderDies, world, files, Covered, Held, Employed, Known, LeaderReused, Live,
     Leads
<1> QED BY <1>3, <1>4, <1>5, <1>6, <1>7, <1>8 DEF Kernel

\* A lock that has just been published covers the one it was published for.
LEMMA CoveredGranted ==
  ASSUME Inv, At("unstage"), Granted, UNCHANGED <<world, lock, identity, works>>
  PROVE  Covered'
<1> USE DEF Inv
<1>1. Under
  BY DEF Guard, At
<1>2. Idle /\ Publishing /\ Identified /\ lock = [pid |-> op.pid, inode |-> op.inode] /\ op # None
  BY <1>1 DEF Under, At
<1>3. lock # None /\ identity # None
  <2>1. op.by \in Generations /\ op.pid \in Pids /\ op.inode \in Inodes /\ op.token \in 1 .. MaxNonces
    BY <1>2, Fields DEF Publishing
  <2>2. lock \in LockFile /\ identity \in Identity
    BY <1>2, <2>1 DEF LockFile, Identity, Identified
  <2> QED BY <2>2, NothingAssumption
<1>4. Known /\ identity.nonce = op.token /\ identity.generation = op.by
  BY <1>2, <1>3 DEF Known, Identified
<1>5. \A g \in Generations : lease'[g] # 0 => g = op.by /\ lease'[g] = op.token
  BY <1>2 DEF Granted, Idle, TypeOK
<1>6. \A g \in Generations : lease'[g] # 0 => Held(g)'
  BY <1>3, <1>4, <1>5 DEF Held, Known
<1> QED BY <1>2, <1>6 DEF Covered, Idle

\* Every step keeps those at work covered.
LEMMA CoveredStep ==
  ASSUME Inv, [Next]_vars
  PROVE  Covered'
<1> USE DEF Inv
<1>1. ASSUME Idle, UNCHANGED <<lease, works>>
      PROVE  Covered'
  BY <1>1 DEF Idle, Covered
<1>2. ASSUME UNCHANGED <<world, lock, identity, lease, works>>
      PROVE  Covered'
  BY <1>2 DEF world, Covered, Held, Employed, Known, LeaderReused, Live, Leads
<1>3. CASE UNCHANGED vars
  BY <1>2, <1>3 DEF vars, world
<1>4. CASE (\E g \in Generations : Acquire(g) \/ Release(g)) \/ Discard
  BY <1>2, <1>4 DEF Acquire, Release, Discard, Enter, files
<1>5. CASE FinishInterruptedPublication \/ OwnerGone
  BY <1>2, <1>5 DEF FinishInterruptedPublication, OwnerGone, files
<1>6. CASE Reap
  <2>1. \A g \in Generations : lease'[g] = 0 /\ works'[g] = 0
    BY <1>6 DEF Reap, At, Guard, Under, Reaping, Idle
  <2> QED BY <2>1 DEF Covered
<1>7. op # None /\ op.pc # "reap" => Idle
  BY DEF Guard, Under
<1>8. CASE Forget \/ Stage \/ WriteIdentity \/ Link \/ PublishFails
  BY <1>1, <1>7, <1>8 DEF Forget, Stage, WriteIdentity, Link, PublishFails, At
<1>9. CASE Unstage
  BY <1>9, CoveredGranted DEF Unstage
<1>10. CASE UnstageFails
  BY <1>1, <1>7, <1>10, CoveredGranted DEF UnstageFails, At, files
<1>11. ASSUME NEW g \in Generations, NEW d \in Generations, DelegateTo(g, d)
       PROVE  Covered'
  <2>1. /\ identity # None /\ lock # None /\ Known /\ Live(d) /\ Leads(d)
        /\ identity'.pid = identity.pid /\ identity'.generation = identity.generation
        /\ identity'.nonce = identity.nonce /\ identity'.inode = identity.inode
        /\ identity' # None /\ identity'.delegate # None
        /\ UNCHANGED <<world, lock, lease>>
        /\ works' = [h \in Generations |->
              IF Live(h) /\ process[h].group = process[d].pid THEN identity.nonce ELSE works[h]]
    BY <1>11, NewDelegate
  <2>a. identity'.delegate = [generation |-> d, pid |-> process[d].pid,
           nonce |-> nonce + 1, mark |-> "none", participant |-> 0]
    BY <1>11, NewDelegate
  <2>2. identity'.delegate.generation = d /\ identity'.delegate.pid = process[d].pid
    BY <2>a
  <2>3. \A h \in Generations : works[h] = 0
    <3>1. CASE identity.delegate = None
      BY <3>1 DEF Covered, Employed
    <3>2. CASE identity.delegate # None
      BY <1>11, <2>1, <3>2, DeadDelegate DEF DelegateTo
    <3> QED BY <3>1, <3>2
  <2>4. Known'
    BY <2>1 DEF Known
  <2>5. \A h \in Generations : lease'[h] # 0 => Held(h)'
    BY <2>1, <2>4 DEF Covered, Held
  <2>6. process'[d].boot = boot' /\ Live(d)'
    BY <2>1 DEF Numbered, world, Live
  <2>7. \A h \in Generations : works'[h] # 0 => Employed(h)'
    BY <2>1, <2>2, <2>3, <2>4, <2>6 DEF Employed, world
  <2> QED BY <2>5, <2>7 DEF Covered
<1>12. ASSUME NEW token \in 1 .. nonce, Undelegate(token)
       PROVE  Covered'
  <2>1. identity # None /\ identity.delegate # None /\ Rewrite(None) /\ Known /\ works' = works
        /\ ObserveDelegate(identity.delegate, TRUE) = "dead"
    BY <1>12 DEF Undelegate, Names, Known
  <2>2. \A h \in Generations : works[h] = 0
    BY <2>1, DeadDelegate
  <2>3. Known' /\ identity'.nonce = identity.nonce /\ identity'.generation = identity.generation
    <3>1. None \in Delegate \cup {None}
      OBVIOUS
    <3>2. identity' \in Identity
      BY <2>1, <3>1, Shapes DEF Rewrite
    <3> QED BY <2>1, <3>2, Rewritten, NothingAssumption DEF Known, Rewrite
  <2>4. \A h \in Generations : lease'[h] # 0 => Held(h)'
    BY <2>1, <2>3 DEF Covered, Held, Rewrite
  <2> QED BY <2>1, <2>2, <2>4 DEF Covered
<1>13. CASE \/ \E token \in 1 .. nonce : ProtectCleanup(token) \/ Block(token)
            \/ \E g \in Generations, token \in 1 .. nonce : MarkQuiescent(g, token)
            \/ \E g \in Generations : BindParticipant(g)
  BY <1>13, Remarked DEF Covered, Held, Employed, Known, LeaderReused, Live, Leads, world
<1> QED BY <1>3, <1>4, <1>5, <1>6, <1>8, <1>9, <1>10, <1>11, <1>12, <1>13, CoveredKernel
        DEF Next, Guarded, Delegation

-----------------------------------------------------------------------------
(* The files, at each point of an operation.                               *)

\* Wherever an operation has come to, a lock that is there says whose it is.
LEMMA WholeUnder ==
  ASSUME Inv, lock # None
  PROVE  Whole
<1> USE DEF Inv
<1>1. CASE op = None
  BY <1>1 DEF Guard
<1>2. CASE op # None /\ op.pc = "reap"
  BY <1>2 DEF Guard, Under, Reaping
<1>3. CASE op # None /\ op.pc = "unstage"
  <2>1. Publishing /\ Identified /\ lock = [pid |-> op.pid, inode |-> op.inode]
    BY <1>3 DEF Guard, Under
  <2>2. identity # None
    <3>1. op.by \in Generations /\ op.pid \in Pids /\ op.inode \in Inodes
          /\ op.token \in 1 .. MaxNonces
      BY <1>3, <2>1, Fields DEF Publishing
    <3>2. identity \in Identity
      BY <2>1, <3>1 DEF Identity, Identified
    <3> QED BY <3>2, NothingAssumption
  <2>3. Known /\ identity.nonce = op.token
    BY <2>1, <2>2 DEF Known, Identified
  <2>4. \A c \in staged : c.inode = lock.inode => c = Own
    BY <2>1 DEF Guard, Publishing, Own
  <2> QED BY <2>1, <2>3, <2>4 DEF Whole, Own
<1>4. CASE op # None /\ op.pc \notin {"reap", "unstage"}
  BY <1>4 DEF Guard, Under
<1> QED BY <1>1, <1>2, <1>3, <1>4

\* The first part of Guard: a new candidate has an inode no other has.
LEMMA CandidatesStep ==
  ASSUME Inv, [Next]_vars
  PROVE  \A c, e \in staged' : c.inode = e.inode => c = e
<1> USE DEF Inv
<1>1. ASSUME staged' \subseteq staged
      PROVE  \A c, e \in staged' : c.inode = e.inode => c = e
  BY <1>1 DEF Guard
<1>2. CASE Stage
  <2>1. PICK i \in Inodes :
          /\ i \notin {c.inode : c \in staged}
          /\ staged' = staged \cup {[pid |-> op.pid, inode |-> i, nonce |-> nonce + 1]}
    BY <1>2 DEF Stage
  <2> QED BY <2>1 DEF Guard
<1>3. CASE Kernel
  BY <1>1, <1>3 DEF Kernel, Launch, Fork, Born, Leave, Die, GuardHolderDies, Reboot, files
<1>4. CASE (\E g \in Generations : Acquire(g) \/ Release(g)) \/ Discard
  BY <1>1, <1>4 DEF Acquire, Release, Discard, Enter, files
<1>5. CASE FinishInterruptedPublication \/ Reap \/ Forget \/ OwnerGone
             \/ WriteIdentity \/ Link \/ Unstage
  BY <1>1, <1>5 DEF FinishInterruptedPublication, Reap, Forget, OwnerGone, WriteIdentity,
         Link, Unstage, files
<1>6. CASE PublishFails \/ UnstageFails
  BY <1>1, <1>6 DEF PublishFails, UnstageFails, files
<1>7. CASE Delegation
  BY <1>1, <1>7 DEF Delegation, DelegateTo, Undelegate, ProtectCleanup, Block, MarkQuiescent,
         BindParticipant, Marked, Rewrite
<1>8. CASE UNCHANGED vars
  BY <1>1, <1>8 DEF vars, files
<1> QED BY <1>2, <1>3, <1>4, <1>5, <1>6, <1>7, <1>8 DEF Next, Guarded

\* A lock that stays as it is says whose it is, however many candidates go.
LEMMA WholeKept ==
  ASSUME Whole, lock' = lock, staged' \subseteq staged, identity # None, identity' # None,
         identity'.pid = identity.pid, identity'.inode = identity.inode,
         identity'.nonce = identity.nonce
  PROVE  Whole'
  BY DEF Whole, Known

\* The second part of Guard: outside an operation a lock says whose it is.
LEMMA WholeStep ==
  ASSUME Inv, [Next]_vars, op' = None, lock' # None
  PROVE  Whole'
<1> USE DEF Inv
<1>1. ASSUME UNCHANGED <<lock, identity>>, staged' \subseteq staged
      PROVE  Whole'
  BY <1>1, WholeUnder, WholeKept DEF Whole, Known
<1>2. CASE Kernel \/ UNCHANGED vars
  BY <1>1, <1>2 DEF Kernel, Launch, Fork, Born, Leave, Die, GuardHolderDies, Reboot, files, vars
<1>3. CASE FinishInterruptedPublication \/ OwnerGone \/ Unstage
  BY <1>1, <1>3 DEF FinishInterruptedPublication, OwnerGone, Unstage, files
<1>4. op # None => op \in Operation /\ Under
  BY DEF Guard, TypeOK
<1>5. CASE (\E g \in Generations : Acquire(g) \/ Release(g)) \/ Discard
  <2>1. ASSUME NEW g \in Generations, Acquire(g) \/ Release(g)
        PROVE  op' # None
    <3>1. lease[g] \in 0 .. MaxNonces
      BY DEF TypeOK
    <3> QED BY <2>1, <3>1, Entered, Constants, NothingAssumption DEF Acquire, Release
  <2>2. Discard => op' # None
    BY Entered, Constants, NothingAssumption DEF Discard
  <2> QED BY <1>5, <2>1, <2>2
<1>6. CASE Reap \/ Forget
  BY <1>4, <1>6, Shapes, NothingAssumption DEF Reap, Forget, At, Goto, Leaves, Under
<1>7. CASE Stage \/ WriteIdentity \/ Link
  BY <1>4, <1>7, Shapes, NothingAssumption DEF Stage, WriteIdentity, Link, At, Goto, Under
<1>8. CASE PublishFails
  BY <1>4, <1>8 DEF PublishFails, At, Under
<1>9. CASE UnstageFails
  BY <1>1, <1>9 DEF UnstageFails, files
<1>10. ASSUME NEW g \in Generations, NEW d \in Generations, DelegateTo(g, d)
       PROVE  Whole'
  BY <1>10, NewDelegate, WholeUnder, WholeKept
<1>11. ASSUME NEW token \in 1 .. nonce, Undelegate(token)
       PROVE  Whole'
  <2>1. identity # None /\ Rewrite(None) /\ lock # None
    BY <1>11 DEF Undelegate, Names, Known, Settled
  <2>2. identity' # None
    <3>1. None \in Delegate \cup {None}
      OBVIOUS
    <3> QED BY <2>1, <3>1, Shapes, NothingAssumption DEF Rewrite
  <2> QED BY <2>1, <2>2, Rewritten, WholeUnder, WholeKept DEF Rewrite
<1>12. CASE \/ \E token \in 1 .. nonce : ProtectCleanup(token) \/ Block(token)
            \/ \E g \in Generations, token \in 1 .. nonce : MarkQuiescent(g, token)
            \/ \E g \in Generations : BindParticipant(g)
  BY <1>12, Remarked, WholeUnder, WholeKept
<1> QED BY <1>2, <1>3, <1>5, <1>6, <1>7, <1>8, <1>9, <1>10, <1>11, <1>12
        DEF Next, Guarded, Delegation

\* The kernel leaves a started operation what it has found: nobody comes to hold a
\* lease, or to work under one, and a delegate that left no doubt still leaves none.
LEMMA UnderKernel ==
  ASSUME Inv, Kernel, op' # None
  PROVE  Under'
<1> USE DEF Inv
<1>1. Under /\ op # None /\ op' = op /\ UNCHANGED <<files, nonce, boot>>
  BY DEF Kernel, Launch, Fork, Born, Leave, Die, GuardHolderDies, Reboot, Guard
<1>2. \A g \in Generations :
        /\ lease'[g] \in {0, lease[g]}
        /\ works'[g] # 0 => \E e \in Generations : works[e] # 0
  <2>1. ASSUME NEW g \in Generations, NEW p \in Pids, Launch(g, p)
        PROVE  lease' = lease /\ works' = works
    BY <2>1 DEF Launch, Born
  <2>2. ASSUME NEW from \in Generations, NEW g \in Generations, NEW p \in Pids,
               Fork(from, g, p)
        PROVE  lease' = lease /\ works' = [works EXCEPT ![g] = works[from]]
    BY <2>2 DEF Fork, Born
  <2>3. ASSUME NEW g \in Generations, Leave(g) \/ Die(g)
        PROVE  (lease' = lease \/ lease' = [lease EXCEPT ![g] = 0])
               /\ works' = [works EXCEPT ![g] = 0]
    BY <2>3 DEF Leave, Die
  <2>4. ~Reboot /\ ~GuardHolderDies
    BY DEF Reboot, GuardHolderDies
  <2> QED BY <2>1, <2>2, <2>3, <2>4 DEF Kernel, TypeOK
<1>3. Idle => Idle'
  BY <1>2 DEF Idle
<1>4. identity # None /\ NoDoubt => NoDoubt'
  BY <1>1, Lasting, Fields DEF NoDoubt, Delegated, files
<1>5. Whole => Whole'
  BY <1>1 DEF Whole, Known, files
<1>6. Reaping => Reaping'
  BY <1>1, <1>2, <1>4, <1>5 DEF Reaping, Whole, Known, files
<1> QED BY <1>1, <1>3, <1>6 DEF Under, Publishing, Identified, Own, files

\* Entering an operation: what the caller has found is what the operation relies on.
LEMMA UnderEntered ==
  ASSUME Inv, (\E g \in Generations : Acquire(g) \/ Release(g)) \/ Discard
  PROVE  Under'
<1> USE DEF Inv
<1>1. ASSUME NEW g \in Generations, Acquire(g), lock = None
      PROVE  Under'
  <2>1. /\ op' = [kind |-> "acquire", pc |-> "stage", by |-> g, token |-> 0, inode |-> None,
                  pid |-> process[g].pid]
        /\ UNCHANGED <<world, files, nonce, lease, works>> /\ nonce < MaxNonces
    BY <1>1, Constants DEF Acquire, Enter, Stale, Settled
  <2>2. op'.kind = "acquire" /\ op'.pc = "stage" /\ op'.by = g /\ op'.pid = process[g].pid
    BY <2>1
  <2>3. process[g].pid # None /\ g # 0
    BY <1>1, Constants DEF Acquire, Numbered
  <2>4. Idle
    BY <1>1 DEF Covered, Held, Employed, Idle
  <2>5. Idle'
    BY <2>1, <2>4 DEF Idle
  <2> QED BY <1>1, <2>1, <2>2, <2>3, <2>5 DEF Under, files
<1>2. ASSUME NEW k \in {"acquire", "discard"}, NEW g \in Generations \cup {0}, Stale,
             Enter(k, "reap", g, 0),
             k = "acquire" => g # 0 /\ Live(g) /\ nonce < MaxNonces
      PROVE  Under'
  <2>1. Idle /\ NoDoubt /\ Whole
    BY <1>2, StaleIsIdle
  <2>2. /\ op'.kind = k /\ op'.pc = "reap" /\ op'.by = g
        /\ g # 0 => op'.pid = process[g].pid
        /\ UNCHANGED <<world, files, nonce, lease, works>>
    BY <1>2 DEF Enter
  <2>3. Idle' /\ NoDoubt' /\ Whole'
    BY <2>1, <2>2 DEF Idle, NoDoubt, Whole, Known, world, files
  <2>4. k = "acquire" => op'.pid # None
    BY <1>2, <2>2 DEF Numbered
  <2>5. Reaping'
    BY <1>2, <2>2, <2>3 DEF Reaping
  <2> QED BY <1>2, <2>2, <2>3, <2>4, <2>5 DEF Under
<1>3. ASSUME NEW g \in Generations, Release(g)
      PROVE  Under'
  <2>1. /\ op'.kind = "release" /\ op'.pc = "reap" /\ op'.by = g
        /\ UNCHANGED <<world, files, nonce, lease, works>>
        /\ lease[g] # 0 /\ lock # None /\ Known /\ identity.nonce = lease[g]
        /\ identity.delegate = None
    BY <1>3 DEF Release, Enter
  <2>2. Whole /\ NoDoubt
    BY <2>1, WholeUnder DEF NoDoubt
  <2>3. Whole' /\ NoDoubt'
    BY <2>1, <2>2 DEF NoDoubt, Whole, Known, world, files
  <2>4. \A h \in Generations : works[h] = 0
    BY <2>1 DEF Covered, Employed
  <2>5. \A h \in Generations : lease[h] # 0 => h = g
    BY <2>1 DEF Covered, Held
  <2>6. g # 0
    BY Constants
  <2>7. Reaping'
    BY <2>1, <2>3, <2>4, <2>5, <2>6 DEF Reaping, files
  <2> QED BY <2>1, <2>7 DEF Under
<1>4. ASSUME NEW g \in Generations, Acquire(g), lock # None
      PROVE  Under'
  <2>1. Stale /\ Enter("acquire", "reap", g, 0) /\ Live(g) /\ nonce < MaxNonces /\ g # 0
    BY <1>4, Constants DEF Acquire
  <2> QED BY <1>2, <2>1
<1>5. CASE Discard
  BY <1>2, <1>5 DEF Discard
<1> QED BY <1>1, <1>3, <1>4, <1>5

\* Each step of an operation establishes what the next one relies on.
LEMMA UnderGuarded ==
  ASSUME Inv, Guarded \/ PublishFails \/ UnstageFails, op' # None
  PROVE  Under'
<1> USE DEF Inv
<1>1. op # None => Under /\ op \in Operation
  BY DEF Guard, TypeOK
<1>2. CASE FinishInterruptedPublication \/ OwnerGone \/ Unstage \/ PublishFails \/ UnstageFails
  BY <1>2 DEF FinishInterruptedPublication, OwnerGone, Unstage, PublishFails, UnstageFails, Leaves
<1>3. CASE Reap
  <2>1. /\ op'.kind = op.kind /\ op'.pc = "forget" /\ op'.by = op.by /\ op'.pid = op.pid
        /\ lock' = None /\ nonce' = nonce
        /\ \A g \in Generations : lease'[g] = 0 /\ works'[g] = 0
    BY <1>1, <1>3 DEF Reap, At, Goto, Under, Reaping, Idle, Operation
  <2>2. Idle'
    BY <2>1 DEF Idle
  <2> QED BY <1>1, <1>3, <2>1, <2>2 DEF Under, Reap, At
<1>4. CASE Forget
  <2>1. /\ op.kind = "acquire" /\ op'.kind = "acquire" /\ op'.pc = "stage" /\ op'.by = op.by
        /\ op'.pid = op.pid /\ op.pc = "forget" /\ UNCHANGED <<lock, nonce, lease, works>>
    BY <1>1, <1>4 DEF Forget, At, Goto, Leaves, Operation
  <2>2. Idle' /\ lock' = None
    BY <1>1, <1>4, <2>1 DEF Under, Idle, Forget, At
  <2> QED BY <1>1, <1>4, <2>1, <2>2 DEF Under, Forget, At
<1>5. CASE Stage
  <2>1. PICK i \in Inodes :
          /\ nonce' = nonce + 1
          /\ staged' = staged \cup {[pid |-> op.pid, inode |-> i, nonce |-> nonce + 1]}
          /\ op' = [op EXCEPT !.pc = "identify", !.token = nonce + 1, !.inode = i]
    BY <1>5 DEF Stage
  <2>2. /\ op # None /\ op.pc = "stage" /\ op.kind = "acquire" /\ UNCHANGED <<lock, lease, works>>
        /\ Idle /\ lock = None /\ op.by # 0 /\ op.pid # None
    BY <1>1, <1>5 DEF Stage, At, Under, Operation
  <2>3. /\ op'.kind = "acquire" /\ op'.pc = "identify" /\ op'.by = op.by /\ op'.pid = op.pid
        /\ op'.token = nonce + 1 /\ op'.inode = i
    BY <1>1, <2>1, <2>2 DEF Operation
  <2>4. nonce + 1 # 0 /\ i # None
    BY Constants DEF TypeOK
  <2>5. Publishing'
    BY <2>1, <2>2, <2>3, <2>4 DEF Publishing, Own
  <2>6. Idle'
    BY <2>2 DEF Idle
  <2> QED BY <2>2, <2>3, <2>5, <2>6 DEF Under
<1>6. CASE WriteIdentity
  <2>1. /\ op'.kind = op.kind /\ op'.pc = "link" /\ op'.by = op.by /\ op'.pid = op.pid
        /\ op'.token = op.token /\ op'.inode = op.inode /\ op # None /\ op.pc = "identify"
        /\ UNCHANGED <<lock, staged, nonce, lease, works>>
    BY <1>1, <1>6 DEF WriteIdentity, At, Goto, Operation
  <2>2. Publishing' /\ Idle' /\ lock' = None
    BY <1>1, <2>1 DEF Under, Publishing, Own, Idle
  <2>3. Identified'
    BY <1>6, <2>1 DEF WriteIdentity, Identified
  <2> QED BY <1>1, <2>1, <2>2, <2>3 DEF Under
<1>7. CASE Link
  <2>1. /\ op'.kind = op.kind /\ op'.pc = "unstage" /\ op'.by = op.by /\ op'.pid = op.pid
        /\ op'.token = op.token /\ op'.inode = op.inode /\ op # None /\ op.pc = "link"
        /\ UNCHANGED <<identity, staged, nonce, lease, works>>
        /\ lock' = [pid |-> op.pid, inode |-> op.inode]
    BY <1>1, <1>7 DEF Link, At, Goto, Operation
  <2>2. Publishing' /\ Idle' /\ Identified'
    BY <1>1, <2>1 DEF Under, Publishing, Own, Idle, Identified
  <2> QED BY <1>1, <2>1, <2>2 DEF Under
<1> QED BY <1>2, <1>3, <1>4, <1>5, <1>6, <1>7 DEF Guarded

\* The third part of Guard.
LEMMA UnderStep ==
  ASSUME Inv, [Next]_vars, op' # None
  PROVE  Under'
<1> USE DEF Inv
<1>1. CASE UNCHANGED vars
  BY <1>1 DEF vars, Guard, Under, Idle, Reaping, Whole, NoDoubt, Known, Publishing, Own,
         Identified
<1>2. ~Delegation
  <2>1. \A g, d \in Generations : ~DelegateTo(g, d)
    BY NewDelegate
  <2>2. \A token \in 1 .. nonce : ~Undelegate(token)
    BY DEF Undelegate, Names, Settled, Rewrite
  <2> QED BY <2>1, <2>2, Remarked DEF Delegation
<1> QED BY <1>1, <1>2, UnderKernel, UnderEntered, UnderGuarded DEF Next

-----------------------------------------------------------------------------
(* The theorems.                                                           *)

\* It holds at first.
LEMMA InitInv == Init => Inv
<1>1. ASSUME Init
      PROVE  \A g \in Generations : ~Live(g) /\ lease[g] = 0 /\ works[g] = 0
               /\ process[g].pid = None /\ process[g].group = None /\ process[g].boot = 0
  BY <1>1 DEF Init, Live
<1>2. ASSUME Init
      PROVE  Numbered
  BY <1>1, <1>2 DEF Init, Numbered
<1> QED BY <1>1, <1>2, InitTypeOK DEF Init, Inv, Delegated, Covered, Guard

\* It is inductive.
LEMMA Invariance == Spec => []Inv
<1>1. Inv /\ [Next]_vars => Inv'
  BY TypeStep, NumberedStep, DelegatedStep, CoveredStep, CandidatesStep, WholeStep, UnderStep
     DEF Inv, Guard
<1> QED BY <1>1, InitInv, PTL DEF Spec

\* The lock is a lock: who works under a lease finds it on the disk - however pids and
\* groups are used again, and wherever others were interrupted - and no interruption
\* leaves files the next process cannot interpret.
THEOREM SafetyHolds == Spec => []Safety
<1>1. ASSUME Inv
      PROVE  WorkIsCovered
  BY <1>1 DEF Inv, Covered, Held, Employed, WorkIsCovered
<1>2. ASSUME Inv
      PROVE  NeverWedged
  BY <1>2 DEF Inv, Guard, Whole, NeverWedged
<1>3. Inv => Safety
  BY <1>1, <1>2 DEF Inv, Safety
<1> QED BY <1>3, Invariance, PTL

\* A doubt about the processes of a delegation is kept: until the next boot the lease and
\* its delegate stay, and only the token takes them off, after the last process.
THEOREM UncertaintyIsKeptHolds == Spec => UncertaintyIsKept
<1> DEFINE doubt == /\ lock # None /\ Known /\ identity.delegate # None
                    /\ identity.delegate.mark \in {"blocked", "cleanupPending"}
                    /\ process[identity.delegate.generation].boot = boot
           stays == identity' = identity
           marked == /\ identity'.nonce = identity.nonce
                     /\ identity'.delegate # None
                     /\ identity'.delegate.nonce = identity.delegate.nonce
                     /\ identity'.delegate.mark \in {identity.delegate.mark, "blocked"}
           taken == /\ identity.delegate.mark = "cleanupPending"
                    /\ identity' = [identity EXCEPT !.delegate = None]
                    /\ \A g \in Generations : Live(g) => works[g] # identity.nonce
           kept == lock' = lock /\ (stays \/ marked \/ taken)
           body == doubt /\ boot' = boot => kept
<1>1. ASSUME Inv, [Next]_vars, doubt, boot' = boot
      PROVE  kept
  <2> USE DEF Inv
  <2>0. identity # None /\ op \in Operation \cup {None}
    BY <1>1 DEF Known, TypeOK
  <2>1. CASE Kernel \/ UNCHANGED vars
    BY <2>1 DEF Kernel, Launch, Fork, Born, Leave, Die, GuardHolderDies, Reboot, files, vars
  <2>2. CASE (\E g \in Generations : Acquire(g) \/ Release(g)) \/ Discard
    BY <2>2 DEF Acquire, Release, Discard, Enter, files
  <2>3. CASE FinishInterruptedPublication \/ OwnerGone \/ Stage
    BY <2>3 DEF FinishInterruptedPublication, OwnerGone, Stage, files
  <2>4. ASSUME op # None, Under
        PROVE  op.pc \notin {"reap", "forget", "identify", "link"} /\ (op.pc = "unstage" => Identified)
    <3>1. op.pc # "reap"
      BY <1>1, <2>4 DEF Under, Reaping, NoDoubt
    <3> QED BY <1>1, <2>4, <3>1 DEF Under
  <2>5. op # None => op.pc # "unstage"
    <3>1. ASSUME op # None, op.pc = "unstage"
          PROVE  FALSE
      <4>1. Identified
        BY <1>1, <3>1 DEF Guard, Under
      <4> QED BY <1>1, <4>1 DEF Identified
    <3> QED BY <3>1
  <2>6. CASE Reap \/ Forget \/ WriteIdentity \/ Link \/ Unstage \/ PublishFails \/ UnstageFails
    BY <1>1, <2>4, <2>5, <2>6 DEF Reap, Forget, WriteIdentity, Link, Unstage, PublishFails,
           UnstageFails, At, Guard
  <2>7. ASSUME NEW g \in Generations, NEW d \in Generations, DelegateTo(g, d)
        PROVE  FALSE
    BY <1>1, <2>7 DEF DelegateTo, ObserveDelegate
  <2>8. ASSUME NEW token \in 1 .. nonce, Undelegate(token)
        PROVE  kept
    <3>1. /\ identity.delegate.mark # "blocked" /\ Rewrite(None)
          /\ ObserveDelegate(identity.delegate, TRUE) = "dead"
      BY <2>8 DEF Undelegate
    <3>2. \A g \in Generations : works[g] = 0
      BY <1>1, <2>0, <3>1, DeadDelegate
    <3>3. identity.nonce # 0
      BY <2>0, Fields, <1>1, Constants
    <3>4. taken
      BY <1>1, <3>1, <3>2, <3>3 DEF Rewrite
    <3> QED BY <3>1, <3>4 DEF Rewrite
  <2>9. ASSUME NEW token \in 1 .. nonce, ProtectCleanup(token) \/ Block(token)
        PROVE  kept
    <3>1. Marked("cleanupPending") \/ Marked("blocked")
      BY <2>9 DEF ProtectCleanup, Block
    <3>2. identity.delegate.mark # "none"
      BY <1>1
    <3>3. Rewrite([identity.delegate EXCEPT !.mark = "blocked"])
      BY <2>9, <3>2 DEF ProtectCleanup, Block, Marked
    <3>4. identity'.delegate = [identity.delegate EXCEPT !.mark = "blocked"]
      BY <1>1, <2>0, <3>3, Rewritten
    <3>5. identity'.delegate.mark = "blocked"
      <4>1. identity.delegate \in Delegate
        BY <1>1, <2>0, Fields
      <4> QED BY <3>4, <4>1 DEF Delegate
    <3>6. /\ identity'.nonce = identity.nonce /\ identity'.delegate # None
          /\ identity'.delegate.nonce = identity.delegate.nonce /\ lock' = lock
      BY <1>1, <2>9, Remarked
    <3> QED BY <3>5, <3>6
  <2>10. ASSUME NEW g \in Generations, NEW token \in 1 .. nonce, MarkQuiescent(g, token)
         PROVE  FALSE
    BY <1>1, <2>10 DEF MarkQuiescent, ObserveDelegate
  <2>11. ASSUME NEW g \in Generations, BindParticipant(g)
         PROVE  kept
    <3>1. identity'.delegate = [identity.delegate EXCEPT !.participant = g]
      BY <1>1, <2>0, <2>11, Rewritten DEF BindParticipant
    <3>2. identity'.delegate.mark = identity.delegate.mark
      <4>1. identity.delegate \in Delegate
        BY <1>1, <2>0, Fields
      <4> QED BY <3>1, <4>1 DEF Delegate
    <3>3. /\ identity'.nonce = identity.nonce /\ identity'.delegate # None
          /\ identity'.delegate.nonce = identity.delegate.nonce /\ lock' = lock
      BY <1>1, <2>11, Remarked
    <3> QED BY <3>2, <3>3
  <2> QED BY <1>1, <2>1, <2>2, <2>3, <2>6, <2>7, <2>8, <2>9, <2>10, <2>11
          DEF Next, Guarded, Delegation
<1>2. Inv /\ [Next]_vars => [body]_vars
  BY <1>1
<1> QED BY <1>2, Invariance, PTL DEF Spec, UncertaintyIsKept

-----------------------------------------------------------------------------
(* A bounded command: BoundedCommand. *)

\* What a call can be at.
Steps == {"spawn", "seeded", "delegated", "wait", "kill", "look"} \cup Command!Ended
\* How far the stop of a call has come.
Stops == {"no", "asked", "killed", "done"}
\* The state of a call.
Calls == [step : Steps, stop : Stops, doubt : BOOLEAN]

\* TypeOK with these names.
CommandTypes ==
  /\ kind \in Kinds
  /\ life \in [Command!Processes -> {"none", "gate", "run", "drain", "dead"}]
  /\ parent \in Command!Group /\ input \in {"open", "start", "eof"}
  /\ call \in Calls
  /\ tracked \subseteq Command!Processes
  /\ mark \in {"absent", "none", "pending", "quiescent", "blocked"}
  /\ next \in BOOLEAN /\ mishaps \in 0 .. MaxMishaps

\* There is a root as soon as the call has begun, and what is pinned has been alive.
Hatched ==
  /\ life["root"] = "none" <=> call.step = "spawn"
  /\ \A p \in tracked : life[p] # "none"

\* The publisher pins nothing and looks no further than the end; only the updater has a
\* gate; the last look, and a clean end, come after the root; no gate is told to start
\* before it is in the lock.
Kept ==
  /\ kind = "host" => tracked = {} /\ call.step \notin {"kill", "look"}
  /\ call.step \in {"seeded", "delegated"} => kind = "update"
  /\ call.step \in {"kill", "look", "clean"} => "root" \notin Command!Live
  /\ input = "start" => call.step \notin {"spawn", "seeded", "delegated"}

\* Without a delegate in the lock the command of an update has not begun, and is never told
\* to.
Unleased ==
  kind = "update" /\ mark = "absent" =>
    /\ life["root"] \notin {"run", "drain"} /\ "helper" \notin Command!Live
    /\ life["root"] = "gate" => input # "start"
    /\ call.step # "delegated"

\* Nothing of the group is left when the lock is taken over from a delegate.
Taken ==
  next => call.step \in Command!Ended /\ (mark = "absent" \/ Command!Group \cap Command!Live = {})

\* All but the types.
CommandRest == Hatched /\ Kept /\ Unleased /\ Taken /\ Command!CleanIsClean

\* The named sets are those of the type invariant.
LEMMA CommandTypesAre == Command!TypeOK <=> CommandTypes
  BY DEF Command!TypeOK, CommandTypes, Calls, Steps, Stops

\* A call remains one.
LEMMA CallStays == ASSUME call \in Calls, Command!Next PROVE call' \in Calls
<1>1. CASE Command!Spawn
  <2>1. \/ call' = [call EXCEPT !.step = "seeded"]
        \/ call' = [call EXCEPT !.step = "wait"]
        \/ call' = [call EXCEPT !.step = "uncertain"]
    BY <1>1 DEF Command!Spawn
  <2> HIDE <1>1
  <2> QED BY <2>1, Zenon DEF Calls, Steps, Stops, Command!Ended
<1>2. CASE Command!Delegate
  <2>1. \/ call' = [call EXCEPT !.step = "delegated"]
        \/ call' = [call EXCEPT !.step = "wait", !.stop = "asked"]
        \/ call' = [call EXCEPT !.step = "wait", !.stop = call.stop]
    BY <1>2 DEF Command!Delegate
  <2> HIDE <1>2
  <2> QED BY <2>1, Zenon DEF Calls, Steps, Stops, Command!Ended
<1>3. CASE Command!Start
  <2>1. \/ call' = [call EXCEPT !.step = "wait"]
    BY <1>3 DEF Command!Start
  <2> HIDE <1>3
  <2> QED BY <2>1, Zenon DEF Calls, Steps, Stops, Command!Ended
<1>4. CASE Command!Kill
  <2>1. \/ call' = [call EXCEPT !.stop = "killed"]
        \/ call' = [call EXCEPT !.stop = "killed", !.doubt = TRUE]
    BY <1>4 DEF Command!Kill
  <2> HIDE <1>4
  <2> QED BY <2>1, Zenon DEF Calls, Steps, Stops, Command!Ended
<1>5. CASE Command!Killed
  <2>1. \/ call' = [call EXCEPT !.stop = "done"]
    BY <1>5 DEF Command!Killed
  <2> HIDE <1>5
  <2> QED BY <2>1, Zenon DEF Calls, Steps, Stops, Command!Ended
<1>6. CASE Command!Exited
  <2>1. \/ call' = [call EXCEPT !.step = "clean"]
        \/ call' = [call EXCEPT !.step = "kill"]
    BY <1>6 DEF Command!Exited
  <2> HIDE <1>6
  <2> QED BY <2>1, Zenon DEF Calls, Steps, Stops, Command!Ended
<1>7. CASE Command!LastKill
  <2>1. \/ call' = [call EXCEPT !.step = "look"]
        \/ call' = [call EXCEPT !.step = "look", !.doubt = TRUE]
    BY <1>7 DEF Command!LastKill
  <2> HIDE <1>7
  <2> QED BY <2>1, Zenon DEF Calls, Steps, Stops, Command!Ended
<1>8. CASE Command!LastLook
  <2>1. \/ call' = [call EXCEPT !.step = "uncertain"]
        \/ call' = [call EXCEPT !.step = "clean"]
    BY <1>8 DEF Command!LastLook
  <2> HIDE <1>8
  <2> QED BY <2>1, Zenon DEF Calls, Steps, Stops, Command!Ended
<1>9. CASE Command!Stop
  <2>1. \/ call' = [call EXCEPT !.stop = "asked"]
        \/ call' = [call EXCEPT !.stop = "asked", !.doubt = (kind = "update")]
    BY <1>9 DEF Command!Stop
  <2> HIDE <1>9
  <2> QED BY <2>1, Zenon DEF Calls, Steps, Stops, Command!Ended
<1>10. CASE Command!OwnerDies
  <2>1. \/ call' = [call EXCEPT !.step = "gone"]
    BY <1>10 DEF Command!OwnerDies
  <2> HIDE <1>10
  <2> QED BY <2>1, Zenon DEF Calls, Steps, Stops, Command!Ended
<1>11. CASE UNCHANGED call
  BY <1>11
<1> QED BY <1>1, <1>2, <1>3, <1>4, <1>5, <1>6, <1>7, <1>8, <1>9, <1>10, <1>11
     DEF Command!Next, Command!CallStep,
  Command!GateStep, Command!GateOpens, Command!Drains, Command!TakeOver, Command!Poll,
  Command!Forks, Command!Exits, Command!RootKilled

\* The invariant holds at first.
LEMMA CommandInit == ASSUME Command!Init PROVE CommandTypes /\ CommandRest
<1> USE DEF Command!Init, Command!Processes, Command!Group, Command!Live, Command!Ended
<1>1. call \in Calls
  BY DEF Calls, Steps, Stops
<1>2. /\ life \in [Command!Processes -> {"none", "gate", "run", "drain", "dead"}]
      /\ mishaps \in 0 .. MaxMishaps /\ next \in BOOLEAN
  <2>1. life \in [Command!Processes -> {"none", "gate", "run", "drain", "dead"}]
    OBVIOUS
  <2>2. mishaps \in 0 .. MaxMishaps
    BY MishapsAssumption
  <2>3. next \in BOOLEAN
    OBVIOUS
  <2> QED BY <2>1, <2>2, <2>3
<1>3. CommandTypes
  BY <1>1, <1>2, Zenon DEF CommandTypes
<1>4. Hatched /\ Kept /\ Unleased /\ Taken /\ Command!CleanIsClean
  BY DEF Hatched, Kept, Unleased, Taken, Command!CleanIsClean
<1> QED BY <1>3, <1>4 DEF CommandRest

\* The types are kept.
LEMMA CommandTypeStep == ASSUME CommandTypes, Command!Next PROVE CommandTypes'
<1> USE MishapsAssumption DEF CommandTypes, Command!Processes, Command!Group, Command!Live
<1>0. call' \in Calls
  BY CallStays
<1>1. CASE Command!Spawn
  BY <1>0, <1>1 DEF Command!Spawn, Command!Fault, Command!Tracks
<1>2. CASE Command!Delegate
  BY <1>0, <1>2 DEF Command!Delegate, Command!Fault
<1>3. CASE Command!Start
  BY <1>0, <1>3 DEF Command!Start
<1>4. CASE Command!Kill
  BY <1>0, <1>4 DEF Command!Kill, Command!Fault, Command!Dead, Command!Waiting
<1>5. CASE Command!Killed
  BY <1>0, <1>5 DEF Command!Killed, Command!Capture, Command!Waiting, Command!Tracks
<1>6. CASE Command!Exited
  BY <1>0, <1>6 DEF Command!Exited, Command!Capture, Command!Protected, Command!OutputOpen
<1>7. CASE Command!LastKill
  BY <1>0, <1>7 DEF Command!LastKill, Command!Fault, Command!Dead
<1>8. CASE Command!LastLook
  BY <1>0, <1>8 DEF Command!LastLook, Command!Capture
<1>9. CASE Command!GateOpens
  BY <1>0, <1>9 DEF Command!GateOpens, Command!Dead
<1>10. CASE Command!Drains
  BY <1>0, <1>10 DEF Command!Drains, Command!Dead
<1>11. CASE Command!Stop
  BY <1>0, <1>11 DEF Command!Stop, Command!Protected, Command!Fault, Command!Waiting,
     Command!Tracks
<1>12. CASE Command!TakeOver
  BY <1>0, <1>12 DEF Command!TakeOver
<1>13. CASE Command!Poll
  BY <1>0, <1>13 DEF Command!Poll, Command!Capture, Command!Waiting, Command!Tracks
<1>14. CASE Command!Forks
  BY <1>0, <1>14 DEF Command!Forks
<1>15. ASSUME NEW p \in Command!Processes, Command!Exits(p) PROVE CommandTypes'
  BY <1>0, <1>15 DEF Command!Exits
<1>16. CASE Command!RootKilled
  BY <1>0, <1>16 DEF Command!RootKilled, Command!Fault, Command!Dead
<1>17. CASE Command!OwnerDies
  BY <1>0, <1>17 DEF Command!OwnerDies, Command!Fault
<1> QED BY <1>1, <1>2, <1>3, <1>4, <1>5, <1>6, <1>7, <1>8, <1>9, <1>10, <1>11, <1>12, <1>13,
     <1>14, <1>15, <1>16, <1>17 DEF Command!Next, Command!CallStep, Command!GateStep

\* So is the rest.
LEMMA CommandRestStep == ASSUME CommandTypes, CommandRest, Command!Next PROVE CommandRest'
<1> USE DEF CommandTypes, Calls, Command!Processes, Command!Group, Command!Ended, Command!Live,
     CommandRest, Hatched, Kept, Unleased,
     Taken, Command!CleanIsClean
<1>1. CASE Command!Spawn
  BY <1>1 DEF Command!Spawn, Command!Fault, Command!Tracks
<1>2. CASE Command!Delegate
  BY <1>2 DEF Command!Delegate, Command!Fault
<1>3. CASE Command!Start
  BY <1>3 DEF Command!Start
<1>4. CASE Command!Kill
  <2>1. /\ call'.step = call.step /\ call.step \notin {"kill", "look", "clean"}
        /\ UNCHANGED <<kind, input, mark, next, tracked>>
        /\ \A p \in Command!Processes :
             life'[p] = life[p] \/ (life'[p] = "dead" /\ life[p] \notin {"none", "dead"})
    BY <1>4 DEF Command!Kill, Command!Fault, Command!Dead, Command!Waiting
  <2> QED BY <2>1
<1>5. CASE Command!Killed
  BY <1>5 DEF Command!Killed, Command!Capture, Command!Waiting, Command!Tracks
<1>6. CASE Command!Exited
  BY <1>6 DEF Command!Exited, Command!Capture, Command!Protected, Command!OutputOpen
<1>7. CASE Command!LastKill
  <2>1. /\ call.step = "kill" /\ call'.step = "look"
        /\ UNCHANGED <<kind, input, mark, next, tracked>>
        /\ \A p \in Command!Processes :
             life'[p] = life[p] \/ (life'[p] = "dead" /\ life[p] \notin {"none", "dead"})
    BY <1>7 DEF Command!LastKill, Command!Fault, Command!Dead
  <2> QED BY <2>1
<1>8. CASE Command!LastLook
  BY <1>8 DEF Command!LastLook, Command!Capture
<1>9. CASE Command!GateOpens
  BY <1>9 DEF Command!GateOpens, Command!Dead
<1>10. CASE Command!Drains
  BY <1>10 DEF Command!Drains, Command!Dead
<1>11. CASE Command!Stop
  BY <1>11 DEF Command!Stop, Command!Protected, Command!Fault, Command!Waiting, Command!Tracks
<1>12. CASE Command!TakeOver
  BY <1>12 DEF Command!TakeOver
<1>13. CASE Command!Poll
  BY <1>13 DEF Command!Poll, Command!Capture, Command!Waiting, Command!Tracks
<1>14. CASE Command!Forks
  BY <1>14 DEF Command!Forks
<1>15. ASSUME NEW p \in Command!Processes, Command!Exits(p) PROVE CommandRest'
  BY <1>15 DEF Command!Exits
<1>16. CASE Command!RootKilled
  BY <1>16 DEF Command!RootKilled, Command!Fault, Command!Dead
<1>17. CASE Command!OwnerDies
  BY <1>17 DEF Command!OwnerDies, Command!Fault
<1> QED BY <1>1, <1>2, <1>3, <1>4, <1>5, <1>6, <1>7, <1>8, <1>9, <1>10, <1>11, <1>12, <1>13,
     <1>14, <1>15, <1>16, <1>17 DEF Command!Next, Command!CallStep, Command!GateStep

\* The invariant is strong enough.
LEMMA CommandIsSafe == ASSUME CommandTypes, CommandRest PROVE Command!Safety
<1>1. Command!LeaseCoversGroup
  BY DEF CommandTypes, CommandRest, Unleased, Taken, Command!LeaseCoversGroup, Command!Group,
     Command!Live, Command!Processes
<1> QED BY <1>1, CommandTypesAre DEF CommandRest, Command!Safety

-----------------------------------------------------------------------------
(* The freezing of a tree: TreeFreeze. *)

\* What is below ps in a set of live processes with their parents.
Reach(ps, live, par) ==
  {q \in live : \A qs \in SUBSET live :
     ps \cap live \subseteq qs /\ (\A r \in live : par[r] \in qs => r \in qs) => q \in qs}

\* Below is that of the tree.
LEMMA BelowIs == \A ps : Tree!Below(ps) = Reach(ps, Tree!Live, below)
  BY Zenon DEF Tree!Below, Reach

\* It has ps and is closed under children.
LEMMA ReachHas ==
  ASSUME NEW ps, NEW live, NEW par
  PROVE  /\ Reach(ps, live, par) \subseteq live
         /\ ps \cap live \subseteq Reach(ps, live, par)
         /\ \A r \in live : par[r] \in Reach(ps, live, par) => r \in Reach(ps, live, par)
  BY Zenon DEF Reach

\* It is in every set that is.
LEMMA ReachIsLeast ==
  ASSUME NEW ps, NEW live, NEW par, NEW T,
         ps \cap live \subseteq T, \A r \in live : par[r] \in T \cap live => r \in T
  PROVE  Reach(ps, live, par) \subseteq T
<1>1. T \cap live \in SUBSET live /\ ps \cap live \subseteq T \cap live
  OBVIOUS
<1>2. \A r \in live : par[r] \in T \cap live => r \in T \cap live
  OBVIOUS
<1> QED BY <1>1, <1>2 DEF Reach

\* More live processes have more below them.
LEMMA ReachGrows ==
  ASSUME NEW ps, NEW live, NEW par, NEW more, NEW par2,
         live \subseteq more, \A r \in live : par2[r] = par[r]
  PROVE  Reach(ps, live, par) \subseteq Reach(ps, more, par2)
<1> DEFINE T == Reach(ps, more, par2)
<1>1. /\ ps \cap more \subseteq T
      /\ \A r \in more : par2[r] \in T => r \in T
  BY ReachHas
<1> HIDE DEF T
<1>2. ps \cap live \subseteq T /\ \A r \in live : par[r] \in T \cap live => r \in T
  BY <1>1
<1>3. Reach(ps, live, par) \subseteq T
  BY <1>2, ReachIsLeast
<1> QED BY <1>3 DEF T

\* TypeOK of the tree.
TreeTypes ==
  /\ run \in [Tree!Processes -> {"none", "run", "stopped", "dead"}]
  /\ below \in [Tree!Processes -> Tree!Processes] /\ lost \subseteq Others
  /\ pinned \subseteq Tree!Processes /\ before \subseteq Tree!Processes
  /\ step \in {"scan", "stop", "compare", "frozen", "kill", "root", "rest", "done", "failed"}
  /\ pass \in 0 .. MaxPasses /\ stable \in 0 .. 2 /\ failures \in 0 .. MaxFaults

\* The root is pinned, and dies last; what is pinned has been alive.
Rooted ==
  /\ Root \in pinned /\ run[Root] \in {"run", "stopped", "dead"}
  /\ run[Root] = "dead" <=> step = "done"
  /\ \A p \in pinned : run[p] # "none"

\* No pinned process runs.
Still == \A p \in pinned : run[p] # "run"
\* No child of a live pinned process is unknown.
Closed == \A q \in Tree!Live : below[q] \in pinned \cap Tree!Live => q \in pinned

\* Until the call fails, whatever lives is below the pinned ones, or below one that was lost.
Cover == step # "failed" =>
  \A q \in Tree!Live : q \in Tree!Below(lost) \/ q \in Tree!Below(pinned)

\* How far a pass has brought the tree: what was pinned before the last scan is stopped, and
\* if the scan added nothing the tree is closed; then it stays so until it is dead.
Passes ==
  /\ step = "scan" /\ pass = 0 => stable = 0 /\ before = {}
  /\ step = "scan" /\ pass # 0 => before = pinned /\ Still
  /\ step = "scan" /\ stable # 0 => Closed /\ pass # 0
  /\ step \in {"stop", "compare"} => stable # 2
  /\ step \in {"stop", "compare"} /\ pinned = before => Closed /\ Still
  /\ step = "compare" => Still /\ pass # 0
  /\ step = "stop" => pass # 0
  /\ step \in {"frozen", "kill", "root"} => Closed /\ Still
  /\ step = "root" => \A p \in pinned : p # Root => run[p] = "dead"
  /\ step = "done" => \A p \in pinned : run[p] = "dead"
  /\ step # "rest"

\* The inductive invariant.
TreeInv == TreeTypes /\ Rooted /\ Passes /\ Cover

\* TypeOK is that of the module.
LEMMA TreeTypesAre == Tree!TypeOK <=> TreeTypes
  BY DEF Tree!TypeOK, TreeTypes

\* The invariant is strong enough.
LEMMA TreeIsSafe == ASSUME TreeInv PROVE Tree!Safety
<1> USE DEF TreeInv
<1>1. Closed => Reach(pinned, Tree!Live, below) \subseteq pinned
  BY ReachIsLeast DEF Closed
<1>2. step \in {"frozen", "kill", "root"} =>
        Tree!Live \ (lost \cup Tree!Below(lost)) \subseteq pinned
  BY <1>1, BelowIs DEF Passes, Cover
<1>3. run[Root] = "dead" => Tree!Live \subseteq lost \cup Tree!Below(lost)
  <2> SUFFICES ASSUME run[Root] = "dead" PROVE Tree!Live \subseteq lost \cup Tree!Below(lost)
    OBVIOUS
  <2>1. pinned \cap Tree!Live = {}
    BY DEF Rooted, Passes, Tree!Live
  <2>2. Reach(pinned, Tree!Live, below) \subseteq {}
    BY <2>1, ReachIsLeast
  <2> QED BY <2>2, BelowIs DEF Rooted, Cover
<1> QED BY <1>2, <1>3, TreeTypesAre DEF Tree!Safety, Tree!NobodySlips

\* It holds at first.
LEMMA TreeInit == ASSUME Tree!Init PROVE TreeInv
<1> USE DEF Tree!Init, Tree!Processes
<1>1. TreeTypes
  BY MishapsAssumption, BoundAssumption DEF TreeTypes
<1>2. Rooted /\ Passes
  BY MishapsAssumption DEF Rooted, Passes, Still, Closed
<1>3. Tree!Live \subseteq pinned \cap Tree!Live
  BY DEF Tree!Live
<1>4. Cover
  BY <1>3, ReachHas, BelowIs DEF Cover
<1> QED BY <1>1, <1>2, <1>4 DEF TreeInv

\* The types are kept.
LEMMA TreeTypeStep == ASSUME TreeInv, Tree!Next PROVE TreeTypes'
<1> USE MishapsAssumption, BoundAssumption DEF TreeInv, TreeTypes, Tree!Processes, Tree!Goto
<1>1. CASE Tree!Scan
  BY <1>1, BelowIs DEF Tree!Scan, Tree!Below, Tree!Live
<1>2. CASE Tree!StopAll
  BY <1>2 DEF Tree!StopAll, Tree!Fault, Tree!Become, Tree!Live
<1>3. CASE Tree!Compare
  BY <1>3 DEF Tree!Compare, Passes
<1>4. CASE Tree!OnFrozen
  BY <1>4 DEF Tree!OnFrozen, Tree!Fault
<1>5. CASE Tree!KillDescendants
  BY <1>5 DEF Tree!KillDescendants, Tree!Fault, Tree!Become, Tree!Live
<1>6. CASE Tree!KillRoot
  BY <1>6 DEF Tree!KillRoot, Tree!Fault, Tree!Become, Tree!Live
<1>7. CASE Tree!Resume
  BY <1>7 DEF Tree!Resume, Tree!Become, Tree!Live
<1>8. ASSUME NEW p \in Tree!Processes, NEW q \in Tree!Processes, Tree!Fork(p, q) PROVE TreeTypes'
  BY <1>8 DEF Tree!Fork
<1>9. ASSUME NEW p \in Others, Tree!Exit(p) PROVE TreeTypes'
  BY <1>9 DEF Tree!Exit, Tree!Live, Rooted
<1> QED BY <1>1, <1>2, <1>3, <1>4, <1>5, <1>6, <1>7, <1>8, <1>9 DEF Tree!Next, Tree!Call

\* The passes go as they are said to.
LEMMA TreePassStep == ASSUME TreeInv, Tree!Next PROVE Rooted' /\ Passes'
<1> USE MishapsAssumption DEF TreeInv, TreeTypes, Tree!Processes, Tree!Goto, Rooted, Passes, Still
<1>1. CASE Tree!Scan
  <2>1. Reach(pinned, Tree!Live, below) \subseteq Tree!Live
    BY ReachHas
  <2>2. pinned \cap Tree!Live \subseteq Reach(pinned, Tree!Live, below)
        /\ \A r \in Tree!Live : below[r] \in Reach(pinned, Tree!Live, below) =>
             r \in Reach(pinned, Tree!Live, below)
    BY ReachHas
  <2> DEFINE found == Reach(pinned, Tree!Live, below)
  <2>3. /\ run' = run /\ below' = below /\ stable' = stable /\ before' = before /\ step = "scan"
        /\ \/ step' = "frozen" /\ stable = 2 /\ pinned' = pinned
           \/ step' = "failed" /\ pinned' = pinned
           \/ step' = "stop" /\ stable # 2 /\ pass' = pass + 1 /\ pinned' = found \cup {Root}
    BY <1>1, BelowIs DEF Tree!Scan
  <2> HIDE DEF found
  <2>4. Tree!Live' = Tree!Live
    BY <2>3 DEF Tree!Live
  <2>5. CASE step' # "stop"
    BY <2>3, <2>4, <2>5 DEF Closed
  <2>6. CASE step' = "stop"
    <3>1. pinned' = found \cup {Root} /\ pass' # 0 /\ stable' # 2
      BY <2>3, <2>6
    <3>2. \A p \in pinned' : run'[p] # "none"
      BY <2>1, <2>3, <3>1 DEF found, Tree!Live
    <3>3. pinned' = before' => Closed' /\ Still'
      <4> SUFFICES ASSUME pinned' = before' PROVE Closed' /\ Still'
        OBVIOUS
      <4>1. pinned = pinned'
        BY <2>3, <3>1
      <4> QED BY <2>2, <2>3, <2>4, <3>1, <4>1 DEF found, Closed
    <3> QED BY <2>3, <2>6, <3>1, <3>2, <3>3
  <2> QED BY <2>5, <2>6
<1>2. CASE Tree!StopAll
  BY <1>2 DEF Tree!StopAll, Tree!Fault, Tree!Become, Tree!Live, Closed
<1>3. CASE Tree!Compare
  BY <1>3 DEF Tree!Compare, Closed, Tree!Live
<1>4. CASE Tree!OnFrozen
  BY <1>4 DEF Tree!OnFrozen, Tree!Fault, Closed, Tree!Live
<1>5. CASE Tree!KillDescendants
  BY <1>5 DEF Tree!KillDescendants, Tree!Fault, Tree!Become, Tree!Live, Closed
<1>6. CASE Tree!KillRoot
  BY <1>6 DEF Tree!KillRoot, Tree!Fault, Tree!Become, Tree!Live, Closed
<1>7. CASE Tree!Resume
  BY <1>7 DEF Tree!Resume, Tree!Become, Tree!Live, Closed
<1>8. ASSUME NEW p \in Tree!Processes, NEW q \in Tree!Processes, Tree!Fork(p, q)
      PROVE  Rooted' /\ Passes'
  BY <1>8 DEF Tree!Fork, Closed, Tree!Live
<1>9. ASSUME NEW p \in Others, Tree!Exit(p) PROVE Rooted' /\ Passes'
  BY <1>9 DEF Tree!Exit, Tree!Live, Closed
<1> QED BY <1>1, <1>2, <1>3, <1>4, <1>5, <1>6, <1>7, <1>8, <1>9 DEF Tree!Next, Tree!Call

\* Cover in terms of Reach.
Covers(l, ps, live, par) == live \subseteq Reach(l, live, par) \cup Reach(ps, live, par)

\* Cover, so stated.
CoverForm == step # "failed" => Covers(lost, pinned, Tree!Live, below)

\* They say the same, now and next.
LEMMA CoverIs == Cover <=> CoverForm
  BY BelowIs, ReachHas DEF Cover, Covers, CoverForm

\* The same of the next state.
LEMMA CoverNext == Cover' <=> CoverForm'
  BY CoverIs, PTL

\* Nobody slips away from both.
LEMMA TreeCoverStep == ASSUME TreeInv, Tree!Next PROVE Cover'
<1> USE DEF TreeInv, TreeTypes, Tree!Processes, Tree!Goto
<1> SUFFICES ASSUME step' # "failed" PROVE Covers(lost', pinned', Tree!Live', below')
  BY CoverNext DEF CoverForm
<1>0. step # "failed" => Covers(lost, pinned, Tree!Live, below)
  BY CoverIs DEF CoverForm
<1>1. CASE Tree!Scan
  <2>1. /\ Tree!Live' = Tree!Live /\ lost' = lost /\ below' = below
    BY <1>1 DEF Tree!Scan, Tree!Live
  <2>3. pinned \cap Tree!Live \subseteq pinned'
    <3>1. pinned \cap Tree!Live \subseteq Reach(pinned, Tree!Live, below)
      BY ReachHas
    <3> QED BY <1>1, <3>1, BelowIs DEF Tree!Scan
  <2>2. Reach(pinned, Tree!Live, below) \subseteq Reach(pinned', Tree!Live, below)
    BY <2>3, ReachHas, ReachIsLeast
  <2> QED BY <1>0, <1>1, <2>1, <2>2 DEF Covers, Tree!Scan
<1>2. CASE Tree!StopAll \/ Tree!Resume
  <2>1. Tree!Live' = Tree!Live
    BY <1>2 DEF Tree!StopAll, Tree!Resume, Tree!Become, Tree!Live
  <2> QED BY <1>0, <1>2, <2>1 DEF Tree!StopAll, Tree!Resume
<1>3. CASE Tree!Compare \/ Tree!OnFrozen
  <2>1. Tree!Live' = Tree!Live
    BY <1>3 DEF Tree!Compare, Tree!OnFrozen, Tree!Live
  <2> QED BY <1>0, <1>3, <2>1 DEF Tree!Compare, Tree!OnFrozen
<1>5. CASE Tree!KillDescendants \/ Tree!KillRoot
  <2> DEFINE gone == Tree!Live \ Tree!Live'
  <2>1. /\ Tree!Live' = Tree!Live \ gone /\ gone \subseteq pinned
        /\ lost' = lost /\ below' = below /\ pinned' = pinned
        /\ step # "failed" /\ Closed
    <3>1. \A q \in Tree!Processes : run'[q] # run[q] => run'[q] = "dead" /\ q \in pinned
      BY <1>5 DEF Tree!KillDescendants, Tree!KillRoot, Tree!Become, Tree!Live, Rooted
    <3>2. Closed /\ step # "failed"
      BY <1>5 DEF Tree!KillDescendants, Tree!KillRoot, Passes
    <3> QED BY <1>5, <3>1, <3>2 DEF Tree!KillDescendants, Tree!KillRoot, Tree!Live
  <2>2. Tree!Live' \cap pinned \subseteq Reach(pinned, Tree!Live', below)
    BY ReachHas
  <2>3. Reach(pinned, Tree!Live, below) \subseteq pinned
    BY <2>1, ReachIsLeast DEF Closed
  <2> HIDE DEF gone
  <2> DEFINE T == Reach(lost, Tree!Live', below)
  <2>4. lost \cap Tree!Live' \subseteq T /\ \A r \in Tree!Live' : below[r] \in T => r \in T
    BY ReachHas
  <2> HIDE DEF T
  <2>5. lost \cap Tree!Live \subseteq T \cup pinned
    BY <2>1, <2>4
  <2>6. \A r \in Tree!Live : below[r] \in (T \cup pinned) \cap Tree!Live => r \in T \cup pinned
    BY <2>1, <2>4 DEF Closed
  <2>7. Reach(lost, Tree!Live, below) \subseteq T \cup pinned
    BY <2>5, <2>6, ReachIsLeast
  <2> QED BY <1>0, <2>1, <2>2, <2>3, <2>7 DEF Covers, T
<1>8. ASSUME NEW p \in Tree!Processes, NEW q \in Tree!Processes, Tree!Fork(p, q)
      PROVE  Covers(lost', pinned', Tree!Live', below')
  <2>1. /\ Tree!Live' = Tree!Live \cup {q} /\ p \in Tree!Live /\ q \notin Tree!Live
        /\ lost' = lost /\ pinned' = pinned /\ below'[q] = p /\ step # "failed"
        /\ \A r \in Tree!Live : below'[r] = below[r]
    BY <1>8 DEF Tree!Fork, Tree!Live
  <2>2. \A ps : Reach(ps, Tree!Live, below) \subseteq Reach(ps, Tree!Live', below')
    BY <2>1, ReachGrows
  <2>3. /\ q \in Tree!Live'
        /\ p \in Reach(lost, Tree!Live', below') => q \in Reach(lost, Tree!Live', below')
        /\ p \in Reach(pinned, Tree!Live', below') => q \in Reach(pinned, Tree!Live', below')
    BY <2>1, ReachHas
  <2> QED BY <1>0, <2>1, <2>2, <2>3 DEF Covers
<1>9. ASSUME NEW p \in Others, Tree!Exit(p)
      PROVE  Covers(lost', pinned', Tree!Live', below')
  <2>1. /\ Tree!Live' = Tree!Live \ {p} /\ pinned' = pinned /\ below' = below
        /\ lost' = lost \cup {q \in Tree!Live \ pinned : below[q] = p} /\ step # "failed"
    BY <1>9 DEF Tree!Exit, Tree!Live
  <2> DEFINE A == Reach(lost', Tree!Live', below)
             B == Reach(pinned, Tree!Live', below)
  <2>2. /\ lost' \cap Tree!Live' \subseteq A /\ \A r \in Tree!Live' : below[r] \in A => r \in A
        /\ pinned \cap Tree!Live' \subseteq B /\ \A r \in Tree!Live' : below[r] \in B => r \in B
    BY ReachHas
  <2> HIDE DEF A, B
  <2>3. \A r \in Tree!Live : r # p /\ below[r] = p => r \in A \cup B
    BY <2>1, <2>2
  <2>4. \A r \in Tree!Live :
          below[r] \in (A \cup B \cup {p}) \cap Tree!Live => r \in A \cup B \cup {p}
    BY <2>1, <2>2, <2>3
  <2>5. /\ lost \cap Tree!Live \subseteq A \cup B \cup {p}
        /\ pinned \cap Tree!Live \subseteq A \cup B \cup {p}
    BY <2>1, <2>2
  <2>6. /\ Reach(lost, Tree!Live, below) \subseteq A \cup B \cup {p}
        /\ Reach(pinned, Tree!Live, below) \subseteq A \cup B \cup {p}
    BY <2>4, <2>5, ReachIsLeast
  <2> QED BY <1>0, <2>1, <2>6 DEF Covers, A, B
<1> QED BY <1>1, <1>2, <1>3, <1>5, <1>8, <1>9 DEF Tree!Next, Tree!Call

-----------------------------------------------------------------------------
(* Both in one state space. *)

\* The inductive invariant of the two.
CommandInv == CommandTypes /\ CommandRest /\ TreeInv

\* A step of one leaves the other alone.
LEMMA CommandInvStep ==
  CommandInv /\ [OfLock(Next) \/ OfCommand(Command!Next) \/ OfTree(Tree!Next)]_allVars
    => CommandInv'
<1> SUFFICES ASSUME CommandInv,
                    [OfLock(Next) \/ OfCommand(Command!Next) \/ OfTree(Tree!Next)]_allVars
             PROVE  CommandInv'
  OBVIOUS
<1>1. ASSUME UNCHANGED commandVars
      PROVE  CommandTypes' /\ CommandRest'
  BY <1>1 DEF commandVars, CommandInv, CommandTypes, CommandRest, Hatched, Kept, Unleased, Taken,
     Command!CleanIsClean, Command!Live
<1>2. ASSUME UNCHANGED treeVars
      PROVE  TreeInv'
  BY <1>2 DEF treeVars, CommandInv, TreeInv, TreeTypes, Rooted, Passes, Still, Closed, Cover,
     Tree!Below, Tree!Live
<1>3. CASE OfCommand(Command!Next)
  BY <1>2, <1>3, CommandTypeStep, CommandRestStep DEF OfCommand, CommandInv
<1>4. CASE OfTree(Tree!Next)
  BY <1>1, <1>4, TreeTypeStep, TreePassStep, TreeCoverStep DEF OfTree, CommandInv, TreeInv
<1>5. CASE OfLock(Next) \/ UNCHANGED allVars
  BY <1>1, <1>2, <1>5 DEF OfLock, allVars, CommandInv
<1> QED BY <1>3, <1>4, <1>5

\* For every set of kinds and of windows, every tree, and every number of passes and faults:
\* a leased command and its helpers run only while the lock names them, a call that ends
\* without doubt leaves nothing behind that it knew of (update.ts, advisor-broker.ts,
\* github-publication.ts), and nobody slips between the scans of a tree and the kill of its
\* root (process-tree.ts).
THEOREM CommandSafetyHolds == Processes => []CommandSafety
<1>1. Starts => CommandInv
  BY CommandInit, TreeInit DEF Starts, CommandInv
<1>2. CommandInv => CommandSafety
  BY CommandIsSafe, TreeIsSafe DEF CommandInv, CommandSafety
<1> QED BY <1>1, <1>2, CommandInvStep, PTL DEF Processes
=============================================================================
