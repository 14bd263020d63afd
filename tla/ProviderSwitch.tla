--------------------------- MODULE ProviderSwitch ---------------------------
(***************************************************************************)
(* The durable provider switch of the split flow worker                    *)
(* (app/flow_provider_switch.py, app/flow_switch_recovery.py): what the    *)
(* worker does from a lost connection to the proof that closes the outage, *)
(* across reconnections, failovers, budget waits, crashes and the two      *)
(* commands an operator has for a switch that failed.                      *)
(*                                                                         *)
(* The cutover session is over (its state is neither pending nor failed),  *)
(* there is no epoch and no segment.  One target, not graduated, already   *)
(* bootstrapped, with one filter; every block carries one of its trades.   *)
(* Ordinary recovery is FlowCollector's: here it is one step.  A live      *)
(* socket delivers at once.  PRIMARY_ and FALLBACK_/VALIDATION_ states     *)
(* differ by the provider only and share a name.  Timers are dropped.      *)
(***************************************************************************)
EXTENDS Integers, Sequences, FiniteSets

CONSTANTS
    MaxBlock,      \* bound: blocks the chain mines
    MaxFaults      \* bound: sockets lost or refused, restarts, failed calls, budget waits

ASSUME BoundsAssumption ==
    MaxBlock \in Nat \ {0} /\ MaxFaults \in Nat

VARIABLES
    head, link, queue,                           \* the chain; the socket and its notices
    pc, ws, tries, conn, subs, pending, latest, upto,  \* the worker's memory
    active, cursor, covEnd, lcb,                 \* the flow database: target and state rows
    stored, gaps, marker, sw,                    \* events, gap ledger, handoff, switches
    faults                                       \* faults so far

socket == <<link, queue>>
route  == <<ws, tries, conn>>
work   == <<pc, upto>>
target == <<active, cursor, covEnd, lcb>>
vars   == <<head, socket, work, route, subs, pending, latest, target, stored,
            gaps, marker, sw, faults>>

Greatest(a, b) == IF a > b THEN a ELSE b

Terminal == {"HEALTHY", "FAILED"}
NoJob    == [first |-> 0, next |-> 0, last |-> 0]

\* pending(), latest() and blocked().
PendingIds == {i \in DOMAIN sw : sw[i].state \notin Terminal}
Blocked    == \E i \in DOMAIN sw : sw[i].state = "FAILED"
Blocking   == PendingIds # {} \/ Blocked
Cur        == CHOOSE i \in PendingIds : TRUE
IsLatest(i) == i = Len(sw)

AckedAlways == subs                             \* mutant: nothing to subscribe is not acknowledged
Acked == active => subs                         \* subscriptions_acknowledged()
OpenGaps   == {i \in DOMAIN gaps : gaps[i].open}
Closed(ids) == [i \in DOMAIN gaps |-> [gaps[i] EXCEPT !.open = @ /\ i \notin ids]]

\* A gap row: where to look for the missing trades and from which covered block they
\* are missing.
Gap(first, from) == [first |-> first, from |-> from, open |-> TRUE]

\* Startup and the except branch: the target is uncertain from its coverage mark.
OutageGap == Gap(lcb, covEnd)

\* recovery_gap() dates the uncertainty from the last stored event, which may lie
\* beyond the hole: only an outage gap still open keeps the hole itself visible.
LastEvent   == CHOOSE b \in stored : \A c \in stored : c <= b
RecoveryGap == Gap(Greatest(1, cursor - 2), LastEvent)

\* drain() and the shadow ingest: an event moves latest_block.
Ingest(T) ==
    /\ stored' = stored \cup T
    /\ latest' = IF T = {} THEN latest
                 ELSE Greatest(latest, CHOOSE b \in T : \A c \in T : c <= b)

\* switch_filters(): what is collected now, each filter as the cursor it has reached.
SwitchFilters == IF active THEN {cursor} ELSE {}

\* start(): the switch of an outage, with a snapshot of the filters.
NewSwitch(gapIds) ==
    [state |-> "DISCONNECTED", by |-> "none", bound |-> FALSE, ready |-> FALSE,
     head |-> 0, from |-> 0, filters |-> SwitchFilters, gapIds |-> gapIds,
     wait |-> "none", job |-> NoJob, superset |-> NoJob, failedAt |-> 0]

\* connected(): the transport of the switch; with no filters it alone completes it.
Connected(s) ==
    [s EXCEPT !.by = ws, !.bound = TRUE,
              !.state = IF s.filters # {} THEN "CONNECTED" ELSE "HEALTHY"]

\* failover_pending() and acknowledged().
FailedOver(s)   == [s EXCEPT !.state = "FAILOVER_PENDING", !.by = "validation"]
Acknowledged(s) == IF s.ready THEN s
                   ELSE [s EXCEPT !.ready = TRUE, !.state = "SUBSCRIPTIONS_READY"]

\* The connection a switch is bound to, and the one a handoff marker belongs to, is over.
Unbound(all) == [i \in DOMAIN all |-> [all[i] EXCEPT !.bound = FALSE]]

FailSwitch(s) == [s EXCEPT !.state = "FAILED", !.failedAt = head]

\* A worker that restarts over a target it has collected up to block 1.
Init ==
    /\ head = 1 /\ link = "none" /\ queue = {}
    /\ pc = "start" /\ ws = "publicnode" /\ tries = 0 /\ conn = FALSE /\ subs = FALSE
    /\ pending = FALSE /\ latest = 0 /\ upto = 0
    /\ active = TRUE /\ cursor = 1 /\ covEnd = 1 /\ lcb = 1
    /\ stored = {1} /\ gaps = <<>> /\ marker = 0 /\ sw = <<>>
    /\ faults = 0

(***************************************************************************)
(* The chain and the socket.                                               *)
(***************************************************************************)

\* The worker awaits: nothing else can change between two awaits.
Awaiting == pc \in {"start", "backoff", "idle", "freeze", "chunk"}
            \/ (pc = "subscribe" /\ active /\ ~subs)

Mine ==
    /\ Awaiting /\ head < MaxBlock
    /\ head' = head + 1
    /\ queue' = IF link = "up" /\ subs THEN queue \cup {head + 1} ELSE queue
    /\ UNCHANGED <<link, work, route, subs, pending, latest, target, stored, gaps,
                   marker, sw, faults>>

LinkDies ==
    /\ Awaiting /\ link = "up" /\ faults < MaxFaults
    /\ link' = "dead" /\ faults' = faults + 1
    /\ UNCHANGED <<head, queue, work, route, subs, pending, latest, target, stored,
                   gaps, marker, sw>>

(***************************************************************************)
(* Connection life: FlowWorker.run.                                        *)
(***************************************************************************)

StartQuietly == FALSE                           \* mutant: a restart records no gap
StartUncertain == active

\* A restart goes back to the primary and cannot know how long it was away.
Start ==
    /\ pc = "start"
    /\ gaps' = IF StartUncertain THEN Append(gaps, OutageGap) ELSE gaps
    /\ pc' = "down"
    /\ UNCHANGED <<head, socket, upto, route, subs, pending, latest, target, stored,
                   marker, sw, faults>>

\* connection_open, then connected(): every connection made while a switch is
\* pending becomes its transport, whatever state it was in.
Connect ==
    /\ pc = "down"
    /\ conn' = TRUE /\ link' = "up" /\ pc' = "idle"
    /\ sw' = IF PendingIds = {} THEN sw ELSE [sw EXCEPT ![Cur] = Connected(@)]
    /\ UNCHANGED <<head, queue, upto, ws, tries, subs, pending, latest, target, stored, gaps,
                   marker, faults>>

StartAnother(lost) == FALSE                     \* mutant: a pending switch is not looked for
Kept(lost) == PendingIds # {} /\ ~lost

\* The except branch.  A switch whose own transport is lost has failed; otherwise a
\* pending one goes on.  Without a pending one the outage gets a gap and, unless a
\* failed switch blocks it, a switch.  The second failure in a row on the primary
\* fails over.
HandleLoss ==
    LET lost == PendingIds # {} /\ conn /\ sw[Cur].bound
        kept == Kept(lost)
        sw1  == Unbound(IF lost THEN [sw EXCEPT ![Cur] = FailSwitch(@)] ELSE sw)
        gap1 == IF kept \/ ~active THEN gaps ELSE Append(gaps, OutageGap)
        free == ~lost /\ ~Blocked
        sw2  == IF kept \/ ~free THEN sw1
                ELSE Append(sw1, NewSwitch(IF active THEN {Len(gap1)} ELSE {}))
        over == ws = "publicnode" /\ tries >= 1
    IN  /\ gaps' = gap1
        /\ sw' = IF over /\ free THEN [sw2 EXCEPT ![Len(sw2)] = FailedOver(@)] ELSE sw2
        /\ ws' = IF over THEN "validation" ELSE ws
        /\ tries' = IF ws' = "validation" THEN 0 ELSE 1
        /\ marker' = 0
        /\ conn' = FALSE /\ link' = "none" /\ pc' = "backoff" /\ upto' = 0
        /\ UNCHANGED <<head, queue, subs, pending, latest, target, stored>>

NoticeLoss ==
    /\ link = "dead"
    /\ pc \in {"idle", "finish"} \/ (pc = "subscribe" /\ active /\ ~subs)
    /\ pc = "finish" => queue = {}
    /\ HandleLoss
    /\ UNCHANGED faults

\* The primary may refuse for as long as it is tried: two refusals fail over.
ConnectFails ==
    /\ pc = "down"
    /\ IF ws = "publicnode" THEN UNCHANGED faults
       ELSE faults < MaxFaults /\ faults' = faults + 1
    /\ HandleLoss

\* The finally branch stores what the queue still holds.
Backoff ==
    /\ pc = "backoff"
    /\ Ingest(queue) /\ queue' = {}
    /\ subs' = FALSE /\ pc' = "down"
    /\ UNCHANGED <<head, link, upto, route, pending, target, gaps, marker, sw, faults>>

Crash ==
    /\ pc # "start" /\ faults < MaxFaults
    /\ faults' = faults + 1
    /\ pc' = "start" /\ link' = "none" /\ queue' = {}
    /\ ws' = "publicnode" /\ tries' = 0 /\ conn' = FALSE /\ subs' = FALSE
    /\ pending' = FALSE /\ latest' = 0 /\ upto' = 0
    /\ marker' = 0 /\ sw' = Unbound(sw)
    /\ UNCHANGED <<head, target, stored, gaps>>

(***************************************************************************)
(* One tick: drain, reconcile, advance_provider_switch, drain, finalize.   *)
(***************************************************************************)

Tick ==
    /\ pc = "idle" /\ link = "up"
    /\ Ingest(queue) /\ queue' = {}
    /\ pc' = "subscribe"
    /\ UNCHANGED <<head, link, upto, route, subs, pending, target, gaps, marker, sw, faults>>

\* The window of the target ends at some block: from then on it is not collected.
Expire ==
    /\ pc = "subscribe" /\ active /\ head > 1
    /\ active' = FALSE /\ subs' = FALSE /\ pending' = FALSE
    /\ UNCHANGED <<head, socket, work, route, latest, cursor, covEnd, lcb, stored, gaps,
                   marker, sw, faults>>

\* subscribe(): a new subscription makes recovery pending.
Subscribe ==
    /\ pc = "subscribe"
    /\ active /\ ~subs => link = "up"
    /\ subs' = active
    /\ pending' = (active /\ (~subs \/ pending))
    /\ pc' = "recover"
    /\ UNCHANGED <<head, socket, upto, route, latest, target, stored, gaps, marker, sw, faults>>

\* The subscription cap: a gap that nothing closes, again on every tick.
SubscribeRefused ==
    /\ pc = "subscribe" /\ active /\ ~subs /\ faults < MaxFaults
    /\ faults' = faults + 1
    /\ gaps' = Append(gaps, Gap(0, covEnd))
    /\ pc' = "recover"
    /\ UNCHANGED <<head, socket, upto, route, subs, pending, latest, target, stored, marker, sw>>

\* accept_shadow_handoff(): a marker written since this connection began.
Handoff   == marker # 0 /\ subs /\ cursor >= marker

\* Nothing to recover, not now (a switch is pending or failed), or handed off.
SkipRecovery ==
    /\ pc = "recover"
    /\ ~pending \/ Blocking \/ Handoff
    /\ pending' = (pending /\ Blocking)
    /\ pc' = "proof"
    /\ UNCHANGED <<head, socket, upto, route, subs, latest, target, stored, gaps, marker,
                   sw, faults>>

\* Ordinary recovery proves [cursor - 2, head] and closes the gaps that begin in it.
Recover ==
    /\ pc = "recover" /\ pending /\ ~Blocking /\ ~Handoff
    /\ LET first == Greatest(1, cursor - 2)
       IN /\ Ingest(first..head)
          /\ cursor' = head
          /\ gaps' = Closed({i \in DOMAIN gaps : gaps[i].first \in first..head})
    /\ pending' = FALSE /\ pc' = "proof"
    /\ UNCHANGED <<head, socket, upto, route, subs, active, covEnd, lcb, marker, sw,
                   faults>>

\* ... or records what it could not prove and stays pending.
RecoveryFails ==
    /\ pc = "recover" /\ pending /\ ~Blocking /\ ~Handoff /\ faults < MaxFaults
    /\ faults' = faults + 1
    /\ gaps' = Append(gaps, RecoveryGap)
    /\ pc' = "proof"
    /\ UNCHANGED <<head, socket, upto, route, subs, pending, latest, target, stored,
                   marker, sw>>

(***************************************************************************)
(* prove_provider_switch.                                                  *)
(***************************************************************************)

NoSwitch ==
    /\ pc = "proof" /\ (PendingIds = {} \/ ~Acked)
    /\ pc' = "finish"
    /\ UNCHANGED <<head, socket, upto, route, subs, pending, latest, target, stored, gaps,
                   marker, sw, faults>>

AlwaysNeedsHead(s) == TRUE                      \* mutant: every connection freezes again
NeedsHead(s) == s.head = 0

\* A budget wait that is over restores the phase; the first proof on a connection
\* whose filters are subscribed records the acknowledgement.
BeginProof ==
    /\ pc = "proof" /\ PendingIds # {} /\ Acked
    /\ LET s == sw[Cur]
           r == IF s.state # "WAITING_FOR_BUDGET" THEN s
                ELSE [s EXCEPT !.state = s.wait, !.wait = "none"]
       IN /\ sw' = [sw EXCEPT ![Cur] = Acknowledged(r)]
          /\ pc' = IF NeedsHead(s) THEN "freeze" ELSE "chunk"
    /\ UNCHANGED <<head, socket, upto, route, subs, pending, latest, target, stored, gaps,
                   marker, faults>>

\* The wait of an exhausted budget is not over yet.
StillWaiting ==
    /\ pc = "proof" /\ PendingIds # {} /\ sw[Cur].state = "WAITING_FOR_BUDGET"
    /\ pc' = "finish"
    /\ UNCHANGED <<head, socket, upto, route, subs, pending, latest, target, stored, gaps,
                   marker, sw, faults>>

\* The proof reads the filter again from its cursor, less an overlap.
From(s) == CHOOSE b \in 1..head : \E c \in s.filters : b = Greatest(1, c - 2)

\* frozen() and add_jobs(): the head is read once and bounds the proof for good.
Freeze ==
    /\ pc = "freeze"
    /\ LET from == From(sw[Cur])
       IN sw' = [sw EXCEPT ![Cur].head = head, ![Cur].from = from,
                           ![Cur].state = "PROVIDER_SWITCH_RECOVERY",
                           ![Cur].job = [first |-> from, next |-> from, last |-> head]]
    /\ pc' = "chunk"
    /\ UNCHANGED <<head, socket, upto, route, subs, pending, latest, target, stored, gaps,
                   marker, faults>>

\* waiting_for_budget(): a second wait keeps the phase the first one saved.
BudgetWait ==
    /\ pc \in {"freeze", "chunk"} /\ faults < MaxFaults
    /\ pc = "chunk" => sw[Cur].job.next <= sw[Cur].job.last
    /\ faults' = faults + 1
    /\ sw' = [sw EXCEPT ![Cur].wait = IF @ = "none" THEN sw[Cur].state ELSE @,
                        ![Cur].state = "WAITING_FOR_BUDGET"]
    /\ pc' = "finish"
    /\ UNCHANGED <<head, socket, upto, route, subs, pending, latest, target, stored, gaps,
                   marker>>

\* The head call fails: failed(), for the connection the switch is bound to.
FreezeFails ==
    /\ pc = "freeze" /\ faults < MaxFaults
    /\ faults' = faults + 1
    /\ sw' = IF sw[Cur].bound
             THEN [sw EXCEPT ![Cur] = FailSwitch(@)] ELSE sw
    /\ pc' = "finish"
    /\ UNCHANGED <<head, socket, upto, route, subs, pending, latest, target, stored, gaps,
                   marker>>

LogsShort(a, b) == a..(b - 1)                   \* mutant: the last block is left out
Logs(a, b) == a..b

\* run_stage(): the events of a span are committed ...
Prove ==
    /\ pc = "chunk" /\ sw[Cur].job.next <= sw[Cur].job.last
    /\ \E to \in sw[Cur].job.next..sw[Cur].job.last :
         /\ Ingest(queue \cup Logs(sw[Cur].job.next, to))
         /\ upto' = to
    /\ queue' = {} /\ pc' = "range"
    /\ UNCHANGED <<head, link, route, subs, pending, target, gaps, marker, sw, faults>>

\* ... before the row that proves it.
CommitRange ==
    /\ pc = "range"
    /\ sw' = [sw EXCEPT ![Cur].job.next = upto + 1]
    /\ upto' = 0 /\ pc' = "chunk"
    /\ UNCHANGED <<head, socket, route, subs, pending, latest, target, stored, gaps, marker,
                   faults>>

\* A failed chunk ends the attempt; the switch stays pending.
ProveFails ==
    /\ pc = "chunk" /\ sw[Cur].job.next <= sw[Cur].job.last /\ faults < MaxFaults
    /\ faults' = faults + 1 /\ pc' = "finish"
    /\ UNCHANGED <<head, socket, upto, route, subs, pending, latest, target, stored, gaps,
                   marker, sw>>

\* promote(): the cursor, in a commit of its own.
Promote ==
    /\ pc = "chunk" /\ sw[Cur].job.next > sw[Cur].job.last
    /\ cursor' = Greatest(cursor, sw[Cur].job.last)
    /\ pc' = "close"
    /\ UNCHANGED <<head, socket, upto, route, subs, pending, latest, active, covEnd, lcb,
                   stored, gaps, marker, sw, faults>>

\* The gaps of this outage close, and with no other open gap the live stream takes
\* over from the frozen head without an ordinary recovery.
CloseGaps ==
    /\ pc = "close"
    /\ LET closed == sw[Cur].gapIds
       IN /\ gaps' = Closed(closed)
          /\ marker' = IF active /\ subs /\ OpenGaps \subseteq closed
                       THEN sw[Cur].head ELSE marker
    /\ pc' = "healthy"
    /\ UNCHANGED <<head, socket, upto, route, subs, pending, latest, target, stored, sw,
                   faults>>

Healthy ==
    /\ pc = "healthy"
    /\ sw' = [sw EXCEPT ![Cur].state = "HEALTHY"]
    /\ pc' = "finish"
    /\ UNCHANGED <<head, socket, upto, route, subs, pending, latest, target, stored, gaps,
                   marker, faults>>

\* drain() and finalize(True): coverage is claimed up to now unless a switch is
\* pending or failed.  A minute of connection forgets the failures before it.
Drain ==
    /\ pc = "finish" /\ queue # {}
    /\ Ingest(queue) /\ queue' = {}
    /\ UNCHANGED <<head, link, work, route, subs, pending, target, gaps, marker, sw, faults>>

Finish ==
    /\ pc = "finish" /\ link = "up" /\ queue = {}
    /\ IF Blocking THEN UNCHANGED <<covEnd, lcb>>
       ELSE covEnd' = (IF subs THEN head ELSE covEnd) /\ lcb' = latest
    /\ tries' \in {tries, 0}
    /\ pc' = "idle"
    /\ UNCHANGED <<head, socket, upto, ws, conn, subs, pending, latest, active, cursor,
                   stored, gaps, marker, sw, faults>>

(***************************************************************************)
(* The operator, in a process of his own.                                  *)
(***************************************************************************)

Fresh == PendingIds = {} /\ conn /\ ws = "validation"
ProofWhole(s) == s.job = [first |-> s.from, next |-> s.head + 1, last |-> s.head]

\* provider_switch_recover: the frozen range of a failed switch is proved by hand.
ProveFailed(i) ==
    /\ IsLatest(i) /\ sw[i].state = "FAILED" /\ sw[i].filters # {} /\ Fresh
    /\ sw[i].job # NoJob /\ sw[i].job.next <= sw[i].job.last
    /\ \E to \in sw[i].job.next..sw[i].job.last :
         /\ stored' = stored \cup Logs(sw[i].job.next, to)
         /\ sw' = [sw EXCEPT ![i].job.next = to + 1]
    /\ UNCHANGED <<head, socket, work, route, subs, pending, latest, target, gaps, marker,
                   faults>>

\* resume_proved_failure(): a failure whose range is proved goes back to the worker.
ResumeProvedFailure(i) ==
    /\ IsLatest(i) /\ sw[i].state = "FAILED"
    /\ Fresh /\ sw[i].by = "validation" /\ ~active
    /\ sw[i].filters # {} /\ sw[i].ready /\ sw[i].head # 0 /\ ProofWhole(sw[i])
    /\ \A g \in sw[i].gapIds : gaps[g].first \in sw[i].from..sw[i].head
    /\ sw' = [sw EXCEPT ![i].state = "PROVIDER_SWITCH_RECOVERY"]
    /\ UNCHANGED <<head, socket, work, route, subs, pending, latest, target, stored, gaps,
                   marker, faults>>

\* flow_switch_recovery.plan() and transport().
Recoverable(i) == IsLatest(i) /\ sw[i].state = "FAILED" /\ sw[i].head = 0 /\ sw[i].filters # {} /\ Fresh

\* recover(): a switch that failed before its head was frozen is proved from the
\* launch to a later head.  The head must be younger than the failure.
PinSuperset(i) ==
    /\ Recoverable(i) /\ sw[i].superset = NoJob
    /\ head > sw[i].failedAt
    /\ sw' = [sw EXCEPT ![i].superset = [first |-> 1, next |-> 1, last |-> head]]
    /\ UNCHANGED <<head, socket, work, route, subs, pending, latest, target, stored, gaps,
                   marker, faults>>

ProveSuperset(i) ==
    /\ Recoverable(i) /\ sw[i].superset # NoJob /\ sw[i].superset.next <= sw[i].superset.last
    /\ \E to \in sw[i].superset.next..sw[i].superset.last :
         /\ stored' = stored \cup Logs(sw[i].superset.next, to)
         /\ sw' = [sw EXCEPT ![i].superset.next = to + 1]
    /\ UNCHANGED <<head, socket, work, route, subs, pending, latest, target, gaps, marker,
                   faults>>

\* finish(): the gaps of the outage close and the switch is healthy; no cursor moves.
FinishSuperset(i) ==
    /\ Recoverable(i) /\ sw[i].superset # NoJob /\ sw[i].superset.next > sw[i].superset.last
    /\ \A g \in sw[i].gapIds : gaps[g].first \in 1..sw[i].superset.last
    /\ gaps' = Closed(sw[i].gapIds)
    /\ sw' = [sw EXCEPT ![i].state = "HEALTHY"]
    /\ UNCHANGED <<head, socket, work, route, subs, pending, latest, target, stored, marker,
                   faults>>

Operator == \E i \in DOMAIN sw :
    \/ ProveFailed(i) \/ ResumeProvedFailure(i)
    \/ PinSuperset(i) \/ ProveSuperset(i) \/ FinishSuperset(i)

Worker ==
    \/ Start \/ Connect \/ NoticeLoss \/ Backoff \/ Tick \/ Subscribe \/ SkipRecovery \/ Recover
    \/ NoSwitch \/ BeginProof \/ Freeze \/ Prove \/ CommitRange \/ Promote \/ CloseGaps \/ Healthy
    \/ Drain \/ Finish

Fault ==
    LinkDies \/ ConnectFails \/ SubscribeRefused \/ Crash \/ RecoveryFails \/ BudgetWait
    \/ FreezeFails \/ ProveFails

Next == Mine \/ Worker \/ Expire \/ StillWaiting \/ Fault \/ Operator

Spec == Init /\ [][Next]_vars
FairSpec == Spec /\ WF_vars(Worker) /\ SF_vars(BeginProof)

-----------------------------------------------------------------------------

States == {"DISCONNECTED", "FAILOVER_PENDING", "CONNECTED", "SUBSCRIPTIONS_READY",
           "PROVIDER_SWITCH_RECOVERY", "WAITING_FOR_BUDGET"} \cup Terminal
Blocks == 1..MaxBlock

\* Types; at most one switch is neither healthy nor failed.
TypeOK ==
    /\ head \in Blocks /\ link \in {"none", "up", "dead"} /\ queue \subseteq 1..head
    /\ ws \in {"publicnode", "validation"} /\ tries \in 0..1 /\ conn \in BOOLEAN
    /\ subs \in BOOLEAN /\ pending \in BOOLEAN /\ active \in BOOLEAN
    /\ latest \in 0..head /\ cursor \in 1..head /\ covEnd \in 1..head /\ lcb \in 0..head
    /\ stored \subseteq 1..head
    /\ \A i \in DOMAIN gaps : gaps[i].first \in 0..head /\ gaps[i].from \in 1..head
    /\ \A i \in DOMAIN sw : sw[i].state \in States /\ sw[i].gapIds \subseteq DOMAIN gaps
    /\ Cardinality(PendingIds) <= 1

\* The trades a feature row may count as covered: below the mark and before the start
\* of every open gap.
Claimed == {b \in 1..covEnd : \A g \in OpenGaps : b <= gaps[g].from}

\* The switch, its recoveries and every fault between them keep the promise: no
\* trade is claimed before it is stored.
Promise == INSTANCE CoveragePromise WITH
    Trades <- Blocks, happened <- 1..head, claimed <- Claimed
KeepsPromise == Promise!Spec

\* A switch that says HEALTHY with filters has the whole outage stored, up to the
\* frozen head or to the head of the superset proof, and its gaps are closed.
HealthyIsProved ==
    \A i \in DOMAIN sw : sw[i].state = "HEALTHY" /\ sw[i].filters # {} =>
        /\ \/ sw[i].head # 0 /\ sw[i].from..sw[i].head \subseteq stored
           \/ sw[i].head = 0 /\ 1..sw[i].superset.last \subseteq stored
        /\ sw[i].gapIds \cap OpenGaps = {}

\* Once a boundary is frozen no reconnection, acknowledgement, wait or recovery moves it.
BoundaryFixed ==
    [][\A i \in DOMAIN sw : sw[i].head # 0 =>
          sw'[i].head = sw[i].head /\ sw'[i].from = sw[i].from /\ sw'[i].gapIds = sw[i].gapIds]_vars

\* With the network back, every switch ends: healthy, or failed for the operator.
SwitchSettles == (PendingIds # {}) ~> (PendingIds = {})
=============================================================================
