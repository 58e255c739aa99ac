-------------------------------- MODULE Ingress --------------------------------
(***************************************************************************)
(* How a channel message reaches the queue of the gateway.  Slack's socket *)
(* offers a message at most once and may lose it; the poll of the owned    *)
(* threads, the catch-up cycles over the channel's history and the scans   *)
(* of replies offer it again.  A reply passes an audience gate first: a    *)
(* durable intent, a snapshot of the thread, a classifier.  The first      *)
(* mention in a thread nobody owns starts a bootstrap that takes what was  *)
(* said before it as context and only then owns the thread.                *)
(*                                                                         *)
(* A message is its place in Slack's order; the clock is the number of     *)
(* messages posted.  A read position advances only in the transaction that *)
(* finds every message it passes in the ledger.                            *)
(*                                                                         *)
(* Direct messages, routes, cloud controls, update requests, attachments   *)
(* and Slack's rate budgets are left out.                                  *)
(***************************************************************************)
EXTENDS Naturals, Sequences, FiniteSets, SequencesExt

CONSTANTS
  N,          \* bound: messages posted in the channel
  Root,       \* the root of the thread a message is in; of a root, itself
  KindSets,   \* the kinds of the messages that may come, one sequence per case
  PageSize,   \* the messages of a page Slack returns
  MaxFaults   \* bound: failures of the classifier, of Slack reads, of hydrations;
              \* deaths of the gateway; updates, in which nothing may be recorded

Msgs  == 1..N
Roots == {m \in Msgs : Root[m] = m}

\* A mention, what people say to each other, a mention by somebody the channel refuses.
Kinds == {"mention", "plain", "refused"}

VARIABLES
  posted,    \* messages posted so far
  kind,      \* what each message is
  intent,    \* the audience intent of a reply
  snapped,   \* replies whose snapshot is prepared
  held,      \* where the ledger holds a message
  ahead,     \* of an inbound delivery: those of its thread staged before it, not settled
  owned,     \* the message a thread was adopted from; 0: not owned
  seen,      \* the read cursor of an owned thread; 0: none
  recent,    \* the catch-up cycle over the channel's newest roots
  parents,   \* the catch-up cycle over all roots
  scans,     \* the reply scans, the one least recently touched first
  op,        \* the step of the hand-over of a message
  poll,      \* the page the poll has in hand
  sweep,     \* the step of the catch-up sweep and its page
  updating,  \* an update holds its journal
  faults

ledger   == <<intent, snapped, held, ahead, owned>>
cursors  == <<seen, recent, parents, scans>>
gateway  == <<op, poll, sweep>>
vars     == <<posted, kind, ledger, cursors, gateway, updating, faults>>

Intents == {"none", "pending", "processing", "addressed", "ignored"}
Places  == {"none", "bootstrap", "inbound", "job", "failed", "closed"}
Ops     == {"idle", "snapshot", "claim", "classify", "deliver"}

\* The inbound deliveries.
Rows == {m \in Msgs : held[m] \in {"bootstrap", "inbound"}}

NoPage  == [need |-> {}, next |-> 0, more |-> FALSE, of |-> 0]
Page    == [need : SUBSET Msgs, next : 0..N, more : BOOLEAN, of : 0..N]
Cycle   == [cursor : 0..(N + 1), complete : BOOLEAN, oldest : 0..(N + 1), started : 0..(N + 1)]
Scan    == [of : Roots, oldest : 0..(N + 1), cursor : 0..N]

TypeOK ==
  /\ posted \in 0..N /\ kind \in KindSets
  /\ intent \in [Msgs -> Intents] /\ snapped \subseteq Msgs /\ held \in [Msgs -> Places]
  /\ ahead \in [Msgs -> SUBSET Rows]
  /\ owned \in [Roots -> 0..N] /\ seen \in [Roots -> 0..N]
  /\ recent \in Cycle /\ parents \in Cycle /\ scans \in Seq(Scan)
  /\ op \in [Msgs -> Ops]
  /\ poll \in Page /\ sweep.step \in {"channel", "scan"} /\ sweep.page \in Page
  /\ sweep.busy \in BOOLEAN /\ updating \in BOOLEAN
  /\ faults \in 0..MaxFaults

NoCycle  == [cursor |-> 0, complete |-> TRUE, oldest |-> 0, started |-> 1]
Idle     == [m \in Msgs |-> "idle"]
Resting  == [step |-> "channel", page |-> NoPage, busy |-> FALSE]

Init ==
  /\ posted = 0 /\ kind \in KindSets
  /\ intent = [m \in Msgs |-> "none"] /\ snapped = {} /\ held = [m \in Msgs |-> "none"]
  /\ ahead = [m \in Msgs |-> {}] /\ owned = [t \in Roots |-> 0] /\ seen = [t \in Roots |-> 0]
  /\ recent = NoCycle /\ parents = NoCycle /\ scans = <<>>
  /\ op = Idle /\ poll = NoPage /\ sweep = Resting /\ updating = FALSE
  /\ faults = 0

-----------------------------------------------------------------------------
(* The ledger *)

Durable(m)  == held[m] # "none"
IsReply(m)  == Root[m] # m
Owned(m)    == owned[Root[m]] # 0
Mentions(m) == kind[m] # "plain"
Before(m)   == {e \in 1..posted : Root[e] = Root[m] /\ e < m}

Unsettled(m) == intent[m] \in {"pending", "processing", "addressed"} /\ ~ Durable(m)

EarlierSettled(m) == \A e \in Before(m) : ~ Unsettled(e)

Fail == faults < MaxFaults /\ faults' = faults + 1

-----------------------------------------------------------------------------
(* The socket, and the entry of admitSlackChannelThreadReply *)

\* What an offer of m starts: nothing for a settled or unaddressed message.
Starts(m) ==
  CASE ~ IsReply(m)                                -> IF kind[m] = "mention" THEN "deliver" ELSE "idle"
    [] intent[m] = "ignored"                       -> "idle"
    [] intent[m] = "addressed"                     -> IF Durable(m) THEN "idle" ELSE "deliver"
    [] intent[m] = "none" /\ Durable(m)            -> "idle"
    [] intent[m] = "none" /\ ~ (Owned(m) \/ Mentions(m)) -> "idle"
    [] OTHER                                       -> IF m \in snapped THEN "claim" ELSE "snapshot"

\* Messages are offered; the offer of one in hand joins its running hand-over.
Offer(S) ==
  LET new == {m \in S : op[m] = "idle"} IN
  /\ op' = [m \in Msgs |-> IF m \in new THEN Starts(m) ELSE op[m]]
  /\ intent' = [m \in Msgs |-> IF m \in new /\ intent[m] = "none" /\ Starts(m) = "snapshot"
                               THEN "pending" ELSE intent[m]]
  /\ UNCHANGED <<snapped, held, ahead, owned>>

\* The socket offers the message, or it is lost, as while the gateway is down.
Post ==
  /\ posted < Len(kind) /\ posted' = posted + 1
  /\ \/ ~ updating /\ Offer({posted'})
     \/ UNCHANGED <<ledger, op>>
  /\ UNCHANGED <<kind, cursors, poll, sweep, updating, faults>>

-----------------------------------------------------------------------------
(* The audience gate and deliver *)

\* stageEarlierSlackThreadIntentCandidates, of the thread as Slack shows it.
EarlierCandidates(m) ==
  {e \in Before(m) : IsReply(e) /\ (Owned(m) \/ Mentions(e)) /\ ~ Durable(e) /\ intent[e] = "none"}

Snapshot(m) ==
  /\ op[m] = "snapshot"
  /\ \/ /\ intent' = [e \in Msgs |-> IF e \in EarlierCandidates(m) THEN "pending" ELSE intent[e]]
        /\ snapped' = snapped \cup {m} /\ op' = [op EXCEPT ![m] = "claim"] /\ UNCHANGED faults
     \/ /\ Fail /\ op' = [op EXCEPT ![m] = "idle"] /\ UNCHANGED <<intent, snapped>>
  /\ UNCHANGED <<posted, kind, held, ahead, owned, cursors, poll, sweep, updating>>

\* claimSlackThreadReplyIntent; a lease left by a dead gateway expires.
Claim(m) ==
  /\ op[m] = "claim"
  /\ IF EarlierSettled(m)
     THEN intent' = [intent EXCEPT ![m] = "processing"] /\ op' = [op EXCEPT ![m] = "classify"]
     ELSE op' = [op EXCEPT ![m] = "idle"] /\ UNCHANGED intent
  /\ UNCHANGED <<posted, kind, snapped, held, ahead, owned, cursors, poll, sweep, updating, faults>>

\* completeSlackThreadReplyIntent: an ignored reply is closed in the same transaction.
Classify(m) ==
  /\ op[m] = "classify"
  /\ \/ /\ intent' = [intent EXCEPT ![m] = "addressed"] /\ op' = [op EXCEPT ![m] = "deliver"]
        /\ UNCHANGED <<held, faults>>
     \/ /\ intent' = [intent EXCEPT ![m] = "ignored"] /\ op' = [op EXCEPT ![m] = "idle"]
        /\ held' = [held EXCEPT ![m] = IF @ = "none" THEN "closed" ELSE @]
        /\ UNCHANGED faults
     \/ /\ Fail /\ intent' = [intent EXCEPT ![m] = "pending"] /\ op' = [op EXCEPT ![m] = "idle"]
        /\ UNCHANGED held
  /\ UNCHANGED <<posted, kind, snapped, ahead, owned, cursors, poll, sweep, updating>>

Pending(t) == \E m \in Msgs : Root[m] = t /\ held[m] = "bootstrap"

\* stageInboundDeliveryAndAdoptSlackThread
Stage(m) ==
  LET t == Root[m]
      first == owned[t] = 0 /\ ~ Pending(t)
      starts == first /\ IsReply(m) /\ Mentions(m)
  IN /\ held' = [held EXCEPT ![m] = IF starts THEN "bootstrap" ELSE "inbound"]
     /\ ahead' = [ahead EXCEPT ![m] = {e \in Rows : Root[e] = t}]
     /\ owned' = [owned EXCEPT ![t] = IF first /\ ~ starts THEN m ELSE @]

\* The gate, then deliver; during an update nothing is recorded.
Deliver(m) ==
  /\ op[m] = "deliver" /\ op' = [op EXCEPT ![m] = "idle"]
  /\ IF Durable(m) THEN UNCHANGED <<held, ahead, owned>>
     ELSE IF kind[m] = "refused"
          THEN held' = [held EXCEPT ![m] = "closed"] /\ UNCHANGED <<ahead, owned>>
     ELSE IF updating THEN UNCHANGED <<held, ahead, owned>>
     ELSE Stage(m)
  /\ UNCHANGED <<posted, kind, intent, snapped, cursors, poll, sweep, updating, faults>>

\* drainSlackThreadReplyIntents: what is due is offered again.
Drain(m) ==
  /\ Unsettled(m) /\ EarlierSettled(m) /\ op[m] = "idle" /\ Offer({m})
  /\ UNCHANGED <<posted, kind, cursors, poll, sweep, updating, faults>>

-----------------------------------------------------------------------------
(* The inbound queue *)

\* planInitialSlackThreadContext: everything said up to the mention.
Consumed(m) == Before(m)

\* claimNextInboundDelivery: in order within a thread, while a thread with an active job
\* overtakes the others; and the settlement of some.
First(m) == m \in Rows /\ ahead[m] = {}
Settle(ms) == ahead' = [m \in Msgs |-> IF m \in ms THEN {} ELSE ahead[m] \ ms]

HandedOver(m) == \E e \in Consumed(m) : held[e] = "job"

\* finalizeInboundThreadBootstrap
Finalize(m) ==
  /\ First(m) /\ held[m] = "bootstrap" /\ ~ HandedOver(m)
  /\ held' = [e \in Msgs |-> IF e = m THEN "inbound" ELSE IF e \in Consumed(m) THEN "closed" ELSE held[e]]
  /\ Settle(Consumed(m))
  /\ owned' = [owned EXCEPT ![Root[m]] = IF @ = 0 THEN m ELSE @]
  /\ UNCHANGED <<posted, kind, intent, snapped, cursors, gateway, updating, faults>>

\* failInboundDelivery: a failed bootstrap never owned its thread.
FailInbound(m) ==
  /\ First(m)
  /\ \/ held[m] = "bootstrap" /\ HandedOver(m) /\ UNCHANGED faults
     \/ Fail
  /\ held' = [held EXCEPT ![m] = "failed"] /\ Settle({m})
  /\ owned' = [owned EXCEPT ![Root[m]] = IF held[m] # "bootstrap" /\ @ = 0 THEN m ELSE @]
  /\ UNCHANGED <<posted, kind, intent, snapped, cursors, gateway, updating>>

\* enqueue and completeInboundDelivery
Enqueue(m) ==
  /\ First(m) /\ held[m] = "inbound"
  /\ held' = [held EXCEPT ![m] = "job"] /\ Settle({m})
  /\ owned' = [owned EXCEPT ![Root[m]] = IF @ = 0 THEN m ELSE @]
  /\ UNCHANGED <<posted, kind, intent, snapped, cursors, gateway, updating, faults>>

-----------------------------------------------------------------------------
(* The poll of the owned threads *)

Oldest(S, n) == {m \in S : Cardinality({e \in S : e < m}) < n}
Newest(S, n) == {m \in S : Cardinality({e \in S : e > m}) < n}
High(S, d)   == IF S = {} THEN d ELSE CHOOSE m \in S : \A e \in S : e <= m
Low(S, d)    == IF S = {} THEN d ELSE CHOOSE m \in S : \A e \in S : m <= e

\* The messages somebody still hands over.
Busy(S) == \E m \in S : op[m] # "idle"

\* threadPollCursor
PollFrom(t) == IF seen[t] # 0 THEN seen[t] ELSE owned[t]

Replies(t, from) == {m \in 1..posted : Root[m] = t /\ m > from}

\* planThreadPoll: the page is read, and every human reply on it is offered.
PollRead(t) ==
  /\ poll.of = 0 /\ owned[t] # 0
  /\ LET page == Oldest(Replies(t, PollFrom(t)), PageSize)
         need == {m \in page : kind[m] # "refused"} IN
     /\ page # {} \/ seen[t] = 0
     /\ poll' = [need |-> need, next |-> High(page, PollFrom(t)), more |-> FALSE, of |-> t]
     /\ Offer(need)
  /\ UNCHANGED <<posted, kind, cursors, sweep, updating, faults>>

\* Mutant: a message that was handed on counts, recorded or not.
NothingNeeded(S) == TRUE

\* commitSlackReadCursorIfDurable, commitSlackReplyScanPageIfDurable
AllDurable(S) == \A m \in S : Durable(m)

PollCommit ==
  /\ poll.of # 0 /\ ~ Busy(poll.need)
  /\ seen' = [seen EXCEPT ![poll.of] = IF AllDurable(poll.need) THEN poll.next ELSE @]
  /\ poll' = NoPage
  /\ UNCHANGED <<posted, kind, ledger, recent, parents, scans, op, sweep, updating, faults>>

\* confirmedWithin: the hand-over takes too long, and stays in flight.
PollGivesUp ==
  /\ poll.of # 0 /\ Busy(poll.need) /\ poll' = NoPage
  /\ UNCHANGED <<posted, kind, ledger, cursors, op, sweep, updating, faults>>

-----------------------------------------------------------------------------
(* The catch-up sweep *)

\* Mutant: the next cycle starts where the last one did.
NoOverlap(c) == c.started

\* One tick of overlap: Slack leaves out both ends of a range.
NextOldest(c) == c.started - 1

\* beginCatchupReadCycle
Begun(c) ==
  IF ~ c.complete THEN c
  ELSE [cursor |-> 0, complete |-> FALSE, oldest |-> NextOldest(c), started |-> posted + 1]

Latest(c) == IF c.cursor = 0 THEN c.started ELSE c.cursor

Goes(step, page) == sweep' = [step |-> step, page |-> page, busy |-> TRUE]
Done(next) == sweep' = [step |-> next, page |-> NoPage, busy |-> FALSE]

RecentRead(c) == {m \in Roots : m <= posted /\ m > c.oldest /\ m < Latest(c)}
ParentsRead(c) == {m \in Roots : m <= posted /\ m < Latest(c)}

LastReply(t) == High({m \in 1..posted : Root[m] = t /\ m # t}, 0)

\* catchupThreadParents, stageSlackReplyScans
Found(c, page) ==
  {[of |-> t, oldest |-> c.oldest, cursor |-> c.oldest] : t \in {t \in page : LastReply(t) # 0 /\ LastReply(t) >= c.oldest}}
Staged(new) ==
  scans \o SetToSeq({s \in new : \A i \in 1..Len(scans) : scans[i].of # s.of \/ scans[i].oldest # s.oldest})

\* What a cycle is once its page is committed.
Passed(c, left, page) ==
  IF left = page THEN [c EXCEPT !.cursor = 0, !.complete = TRUE] ELSE [c EXCEPT !.cursor = Low(page, 0)]

\* channelCatchupMessages: a page of new roots and one of old roots with new
\* replies; the roots that ask the App are offered.
SweepChannel ==
  /\ sweep.step = "channel" /\ ~ sweep.busy /\ ~ updating
  /\ LET page == Newest(RecentRead(Begun(recent)), PageSize)
         need == {m \in page : kind[m] = "mention"} IN
     /\ recent' = Begun(recent) /\ parents' = Begun(parents)
     /\ scans' = Staged(Found(Begun(recent), page)
                     \cup Found(Begun(parents), Newest(ParentsRead(Begun(parents)), PageSize)))
     /\ Goes("channel", [NoPage EXCEPT !.need = need]) /\ Offer(need)
  /\ UNCHANGED <<posted, kind, seen, poll, updating, faults>>

\* catchupSweep: the two positions are committed apart, the old roots need nothing.
ChannelCommit ==
  /\ sweep.step = "channel" /\ sweep.busy /\ ~ Busy(sweep.page.need)
  /\ recent' = IF AllDurable(sweep.page.need)
               THEN Passed(recent, RecentRead(recent), Newest(RecentRead(recent), PageSize)) ELSE recent
  /\ parents' = Passed(parents, ParentsRead(parents), Newest(ParentsRead(parents), PageSize))
  /\ Done("scan")
  /\ UNCHANGED <<posted, kind, ledger, seen, scans, op, poll, updating, faults>>

\* processPendingReplyScanPages: one page of the scan least recently touched.
\* planCatchupSweep needs every child reply, and leaves the audience to the gate.
SweepScan ==
  /\ sweep.step = "scan" /\ ~ sweep.busy
  /\ IF scans = <<>> THEN Done("channel") /\ UNCHANGED <<ledger, op>>
     ELSE LET s == Head(scans)
              left == Replies(s.of, s.cursor)
              page == Oldest(left, PageSize) IN
          /\ Goes("scan", [need |-> {m \in page : IsReply(m)}, next |-> High(page, s.cursor),
                           more |-> left # page, of |-> s.of])
          /\ Offer({m \in page : IsReply(m)})
  /\ UNCHANGED <<posted, kind, cursors, poll, updating, faults>>

\* A page that is not in the ledger yet goes behind the other scans.
ScanCommit ==
  /\ sweep.step = "scan" /\ sweep.busy /\ ~ Busy(sweep.page.need)
  /\ scans' = IF ~ AllDurable(sweep.page.need) THEN Append(Tail(scans), Head(scans))
              ELSE IF sweep.page.more THEN Append(Tail(scans), [Head(scans) EXCEPT !.cursor = sweep.page.next])
              ELSE Tail(scans)
  /\ Done("channel")
  /\ UNCHANGED <<posted, kind, ledger, seen, recent, parents, op, poll, updating, faults>>

-----------------------------------------------------------------------------
(* Crashes and updates *)

Crash ==
  /\ Fail
  /\ op' = Idle /\ poll' = NoPage /\ sweep' = Resting
  /\ UNCHANGED <<posted, kind, ledger, cursors, updating>>

UpdateStarts ==
  /\ ~ updating /\ updating' = TRUE /\ Fail
  /\ UNCHANGED <<posted, kind, ledger, cursors, gateway>>

UpdateEnds ==
  /\ updating /\ updating' = FALSE
  /\ UNCHANGED <<posted, kind, ledger, cursors, gateway, faults>>

HandOver(m) == Snapshot(m) \/ Claim(m) \/ Classify(m) \/ Deliver(m)
Inbound(m)  == Finalize(m) \/ FailInbound(m) \/ Enqueue(m)
Polls       == PollCommit \/ \E t \in Roots : PollRead(t)
Sweeps      == SweepChannel \/ ChannelCommit \/ SweepScan \/ ScanCommit

Next ==
  \/ Post \/ Polls \/ PollGivesUp \/ Sweeps \/ Crash \/ UpdateStarts \/ UpdateEnds
  \/ \E m \in Msgs : HandOver(m) \/ Drain(m) \/ Inbound(m)

\* The timers of the gateway go off for as long as it runs; an update ends.
Handles == \E m \in Msgs : HandOver(m) \/ Drain(m) \/ Inbound(m)
Fairness == WF_vars(Handles) /\ WF_vars(UpdateEnds) /\ WF_vars(Polls) /\ WF_vars(Sweeps)

Spec == Init /\ [][Next]_vars /\ Fairness

-----------------------------------------------------------------------------
(* Properties *)

\* Every message of an owned thread that a read cursor or a finished catch-up
\* cycle has passed is in the ledger.
NothingSkipped ==
  /\ \A m \in 1..posted : owned[Root[m]] < m /\ m <= seen[Root[m]] /\ kind[m] # "refused" => Durable(m)
  /\ \A m \in Roots : m <= posted /\ m <= recent.oldest /\ kind[m] = "mention" => Durable(m)

\* One mention at a time waits for its thread's first context.  Unless an
\* earlier request of the thread failed, the thread is not owned meanwhile and
\* nothing that becomes context was handed over as a request of its own.
OneBootstrap ==
  \A m \in Msgs : held[m] = "bootstrap" =>
    /\ \A e \in Msgs : held[e] = "bootstrap" /\ Root[m] = Root[e] => m = e
    /\ (\A e \in Before(m) : held[e] # "failed") => ~ Owned(m) /\ ~ HandedOver(m)

\* The state is well formed, no position is ahead of the ledger, bootstraps are apart.
Safety == TypeOK /\ NothingSkipped /\ OneBootstrap

\* A reply is handed over only after every earlier mention in its thread.
MentionsInOrder ==
  [][\A m \in Msgs : held[m] = "none" /\ held'[m] \in {"bootstrap", "inbound"} =>
       \A e \in Before(m) : IsReply(e) /\ Mentions(e) => Durable(e)]_vars

\* Every mention, and every reply in an owned thread, is recorded in the end,
\* whatever the socket lost, the gateway forgot or an update held up.
Quiet ==
  \A m \in 1..posted :
    kind[m] = "mention" \/ (kind[m] = "plain" /\ Owned(m) /\ m > owned[Root[m]]) => Durable(m)
EverythingIsHandled == <>[]Quiet

\* Every reply scan ends.
ScansEnd == \A t \in Roots :
  (\E i \in 1..Len(scans) : scans[i].of = t) ~> (\A i \in 1..Len(scans) : scans[i].of # t)
=============================================================================
