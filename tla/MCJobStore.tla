----------------------------- MODULE MCJobStore -----------------------------
(***************************************************************************)
(* Instances of JobStore for TLC.                                          *)
(***************************************************************************)
EXTENDS JobStore, TLC

CONSTANTS j1, j2, t1, t2

\* One thread: the second message may become live input of the first job or a
\* job of its own, as the first job's gate says when the message is drained.
OneThread  == (j1 :> t1) @@ (j2 :> t1)
TwoThreads == (j1 :> t1) @@ (j2 :> t2)

WriteRead  == (j1 :> "write") @@ (j2 :> "read")
\* An audit and other work never absorb each other.
AuditRead == (j1 :> "audit") @@ (j2 :> "read")
=============================================================================
