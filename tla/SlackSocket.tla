---------------------------- MODULE SlackSocket ----------------------------
(***************************************************************************)
(* The one connection of a gateway to Slack: the bounded start, and the    *)
(* supervisor that owns every later attempt.  The client of Slack's        *)
(* library is external: a call of start() opens a socket and is answered   *)
(* by a promise, whose continuation runs later than the events `connected` *)
(* and `disconnected` that came before it; a socket that closes schedules  *)
(* nothing by itself.                                                      *)
(*                                                                         *)
(* Waits are steps of their own; their length is the number of the attempt *)
(* they belong to, and a connection is young until it has held as long as  *)
(* the longest of them.                                                    *)
(***************************************************************************)
EXTENDS Naturals

CONSTANTS
  StartAttempts,  \* SLACK_SOCKET_START_ATTEMPTS
  MaxAttempt,     \* bound of the backoff: a longer wait is not told apart
  MaxFaults       \* bound: refused or failed calls, and closed sockets

VARIABLES
  process,    \* "starting", "armed", "stopped", "exited"
  link,       \* of the client: "idle", "opening", "open"; "double" if two were opened
  call,       \* start(): "none", "pending", and its answer "ok", "failed", "refused"
  opened,     \* the attempt of the process's first connection
  loop,       \* the reconnect loop: "off", "next", "sleeping", "calling"
  connected, closed, since, attempt,  \* as in the source; closed: closedDuringAttempt
  credit,     \* history: reconnects without a wait that the connections so far allow
  faults

owner == <<process, opened, loop, connected, attempt>>
vars == <<owner, link, call, closed, since, credit, faults>>

TypeOK ==
  /\ process \in {"starting", "armed", "stopped", "exited"}
  /\ link \in {"idle", "opening", "open", "double"}
  /\ call \in {"none", "pending", "ok", "failed", "refused"}
  /\ opened \in 0..StartAttempts /\ loop \in {"off", "next", "sleeping", "calling"}
  /\ connected \in BOOLEAN /\ closed \in BOOLEAN /\ since \in {"none", "young", "old"}
  /\ attempt \in 0..MaxAttempt /\ credit \in 0..2 /\ faults \in 0..MaxFaults

Init ==
  /\ process = "starting" /\ link = "idle" /\ call = "none" /\ opened = 0 /\ loop = "off"
  /\ connected = FALSE /\ closed = FALSE /\ since = "none" /\ attempt = 0
  /\ credit = 1 /\ faults = 0

Up == process \notin {"stopped", "exited"}

-----------------------------------------------------------------------------
(* The client *)

CallStart == call' = "pending" /\ link' = IF link = "idle" THEN "opening" ELSE "double"

\* No address, or none this time.
Answer ==
  /\ call = "pending" /\ link = "opening" /\ faults < MaxFaults /\ faults' = faults + 1
  /\ link' = "idle" /\ call' \in {"failed", "refused"}
  /\ UNCHANGED <<owner, closed, since, credit>>

\* `hello`.  A close noted before it belongs to an attempt that had failed already.
Hello ==
  /\ link = "opening" /\ link' = "open" /\ call' = "ok"
  /\ IF Up THEN closed' = FALSE /\ since' = "young" ELSE UNCHANGED <<closed, since>>
  /\ UNCHANGED <<owner, credit, faults>>

Hold ==
  /\ link = "open" /\ since = "young" /\ since' = "old"
  /\ UNCHANGED <<owner, link, call, closed, credit, faults>>

\* The loop is begun by an event only where none runs.
Woken == process = "armed" /\ loop = "off"

\* The socket closes, before `hello` or after.  Only a connection that has held
\* earns a reconnect without a wait.
Close ==
  /\ link \in {"opening", "open"} /\ faults < MaxFaults /\ faults' = faults + 1
  /\ link' = "idle" /\ call' = IF call = "pending" THEN "failed" ELSE call
  /\ IF ~Up THEN UNCHANGED <<connected, since, attempt, closed, loop, credit>>
     ELSE /\ connected' = FALSE /\ since' = "none"
          /\ attempt' = IF since = "old" THEN 0 ELSE attempt
          /\ credit' = IF since = "old" THEN 1 ELSE credit
          /\ IF Woken THEN loop' = "next" /\ closed' = closed
             ELSE loop' = loop /\ closed' = TRUE
  /\ UNCHANGED <<process, opened>>

-----------------------------------------------------------------------------
(* The first connection *)

Start ==
  /\ process = "starting" /\ call = "none" /\ CallStart /\ opened' = opened + 1
  /\ UNCHANGED <<process, loop, connected, attempt, closed, since, credit, faults>>

\* A failure that may clear is tried again after a wait, as often as the budget
\* allows; any other ends the process.
StartFails ==
  /\ process = "starting" /\ call \in {"failed", "refused"} /\ call' = "none"
  /\ process' = IF call = "refused" \/ opened = StartAttempts THEN "exited" ELSE process
  /\ UNCHANGED <<opened, loop, connected, attempt, link, closed, since, credit, faults>>

\* The supervisor takes over, and a close it was told of before.
Arm ==
  /\ process = "starting" /\ call = "ok" /\ call' = "none"
  /\ process' = "armed" /\ connected' = ~closed /\ closed' = FALSE
  /\ since' = IF closed THEN "none" ELSE since
  /\ loop' = IF closed THEN "next" ELSE loop
  /\ UNCHANGED <<opened, attempt, link, credit, faults>>

-----------------------------------------------------------------------------
(* The reconnect loop *)

Step(from) == process = "armed" /\ loop = from

Sleep ==
  /\ Step("next") /\ attempt > 0 /\ loop' = "sleeping"
  /\ UNCHANGED <<process, opened, connected, attempt, link, call, closed, since, credit, faults>>

Reconnect ==
  /\ Step("sleeping") \/ (Step("next") /\ attempt = 0)
  /\ attempt' = IF attempt = MaxAttempt THEN attempt ELSE attempt + 1
  /\ closed' = FALSE /\ loop' = "calling" /\ CallStart
  /\ credit' = IF loop = "next" /\ credit > 0 THEN credit - 1
               ELSE IF loop = "next" THEN 2 ELSE credit
  /\ UNCHANGED <<process, opened, connected, since, faults>>

\* A socket that closed again while the attempt was in flight has no other owner.
Reconnected ==
  /\ Step("calling") /\ call = "ok" /\ call' = "none"
  /\ IF closed
     THEN closed' = FALSE /\ since' = "none" /\ loop' = "next" /\ connected' = connected
     ELSE connected' = TRUE /\ loop' = "off" /\ UNCHANGED <<closed, since>>
  /\ UNCHANGED <<process, opened, attempt, link, credit, faults>>

ReconnectFails ==
  /\ Step("calling") /\ call \in {"failed", "refused"} /\ call' = "none"
  /\ connected' = FALSE /\ since' = "none"
  /\ IF call = "refused" THEN process' = "exited" /\ loop' = "off"
     ELSE loop' = "next" /\ process' = process
  /\ UNCHANGED <<opened, attempt, link, closed, credit, faults>>

Stop ==
  /\ process = "armed" /\ process' = "stopped"
  /\ UNCHANGED <<opened, loop, connected, attempt, link, call, closed, since, credit, faults>>

Owns == Start \/ StartFails \/ Arm \/ Sleep \/ Reconnect \/ Reconnected \/ ReconnectFails
Next == Owns \/ Answer \/ Hello \/ Hold \/ Close \/ Stop

Spec == Init /\ [][Next]_vars /\ WF_vars(Owns) /\ WF_vars(Hello)

-----------------------------------------------------------------------------
(* Properties *)

\* Nobody opens a second socket on top of a live one, whichever of the close, the
\* answer of the call and the taking over comes first.
OneSocket == link # "double"

\* The gateway is never up and mute: while it believes it is connected the socket
\* is open, and a socket that is down is being reopened by the one loop.
NeverMute ==
  process = "armed" =>
    /\ connected => link = "open"
    /\ loop = "off" => connected

\* A peer that greets and hangs up does not take the wait away: a reconnect with no
\* wait is paid for by a connection that held, or is the first of the process.
WaitsAreKept == credit < 2

Safety == TypeOK /\ OneSocket /\ NeverMute /\ WaitsAreKept

\* A gateway that was not stopped is in the end connected, or has ended.
Quiet == Up => connected /\ link = "open"
Settles == <>[]Quiet
=============================================================================
