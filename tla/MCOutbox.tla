------------------------------ MODULE MCOutbox ------------------------------
(* Small instances of Outbox: one job, two of a Slack thread, two of two. *)
EXTENDS Outbox

OneThread  == [j \in 1..N |-> 1]
TwoThreads == [j \in 1..N |-> j]

NoJob     == {}
SecondJob == {2}

\* All that is said of a job once it runs.
Talk     == {"stopping", "answer", "note", "progress", "waiting", "deferred"}
Story    == {"accepted", "note"}
Waits    == {"accepted", "deferred"}
=============================================================================
