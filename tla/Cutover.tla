------------------------------- MODULE Cutover -------------------------------
(***************************************************************************)
(* One cutover session (app/flow_cutover.py): the operator's commands      *)
(* (scripts/phase2b2_shadow.py, scripts/flow_config_status.py) move the    *)
(* flow worker from its legacy route to the split one and back, while the  *)
(* worker (FlowWorker.cutover_tick) collects, loses its connection, dies   *)
(* and is started again.                                                   *)
(*                                                                         *)
(* One target with one filter and a trade in every block, and a second     *)
(* launch that may be discovered meanwhile, of which only the bootstrap    *)
(* debt counts.  A live socket delivers at once; the HTTP endpoint that is *)
(* asked for a head may trail it.  A recovery or a provider switch of the  *)
(* worker is one step here (FlowCollector, ProviderSwitch).                *)
(* Revisions, fingerprints, integrity checks, budgets of a command and     *)
(* the waits of the acceptance are refusals that may always happen.        *)
(***************************************************************************)
EXTENDS Integers, Sequences, FiniteSets

CONSTANTS
    Overlap,       \* blocks a recovery reads again (2; a block here may stand for many)
    HttpLag,       \* blocks eth_blockNumber of the HTTP endpoint may trail the chain
    MaxBlock,      \* bound: blocks the chain mines
    MaxFaults      \* bound: lost connections, crashes, stops by hand, recoveries failed or put off

ASSUME BoundsAssumption ==
    MaxBlock \in Nat \ {0} /\ {MaxFaults, Overlap, HttpLag} \subseteq Nat

VARIABLES
    head, other,                         \* the chain, and the second launch
    blind,                               \* history: blocks a trailing head left out and no notice announced
    mode, wpc, config,                   \* the systemd unit, and the split flag in its file
    subs, pending, latest, seen,         \* the worker's memory
    stored, cursor, covEnd, lcb, gaps,   \* the flow database
    marker, switch,                      \* handoff marker; gap of a provider switch under way
    ses, job,                            \* the session and its three proof stages
    op,                                  \* the operator's command under way
    faults

chain  == <<head, other, blind>>
unit   == <<mode, wpc>>
memory == <<subs, pending, latest, seen>>
ledger == <<stored, cursor, covEnd, lcb, gaps>>
vars   == <<chain, unit, config, memory, ledger, marker, switch, ses, job, op, faults>>

PreStop  == {"CREATED", "SHADOW_IN_PROGRESS", "SHADOW_VERIFIED", "STOP_AUTHORIZED"}
Pending  == {"SOURCE_STOPPED", "STOP_TAIL_VERIFIED", "SPLIT_CONFIGURED",
             "SPLIT_WSS_CONNECTING", "READY_TAIL_PENDING"}
Watched  == {"POST_CUTOVER_VALIDATING", "SOAKING"}
Terminal == {"COMPLETE", "FAILED", "ROLLED_BACK", "ABORTED_PRE_STOP"}
Stages   == {"historical", "stop_tail", "wss_ready_tail"}

Greatest(a, b) == IF a > b THEN a ELSE b

\* What eth_blockNumber may answer, and the blocks that nobody will read if the answer is final.
Heads   == {h \in 1..MaxBlock : head - HttpLag <= h /\ h <= head}
Left(h) == ((h + 1)..head) \ stored

NoJob  == [first |-> 0, next |-> 0, last |-> -1]
Planned(stage) == job[stage] # NoJob
Whole(stage)   == Planned(stage) /\ job[stage].next > job[stage].last
NewJob(first, last) == [first |-> first, next |-> first, last |-> last]

\* A gap row: where to look, from which trade on the coverage is uncertain, and when it
\* was written (the chain is the clock).
Gap(first, from) == [first |-> first, from |-> from, end |-> head, open |-> TRUE]
OpenGaps    == {i \in DOMAIN gaps : gaps[i].open}
Closed(ids) == [i \in DOMAIN gaps |-> [gaps[i] EXCEPT !.open = @ /\ i \notin ids]]
OutageGap   == Gap(lcb, covEnd)
LastEvent   == CHOOSE b \in stored : \A c \in stored : c <= b
RecoveryGap == Gap(Greatest(1, cursor - Overlap), LastEvent)

Clean == OpenGaps = {} /\ other # "debt"      \* gap_counts(): a bootstrap debt is a gap too
Snapshot == other = "done"                    \* filter_snapshot(): which targets are active

Running   == wpc \in {"up", "recover", "finish"}
Split     == mode = "split"
\* The session a split worker sees holds back recovery, cursors and claims.
InHandoff == Split /\ ses.state \in Pending
Holding   == Split /\ (ses.state \in Pending \cup {"FAILED"} \/ switch # 0)
\* A handoff is spoiled by a gap younger than its stop-tail proof.
Unexpected(o) == o = "debt" \/ \E i \in OpenGaps : i > ses.gapBefore

NoOp == [cmd |-> "none", snap |-> FALSE]
Command(cmd) == [cmd |-> cmd, snap |-> Snapshot]

\* A legacy collector that has covered everything, and a session just created for it.
Init ==
    /\ head = 1 /\ other = "unborn" /\ blind = {}
    /\ mode = "legacy" /\ wpc = "up" /\ config = FALSE
    /\ subs = TRUE /\ pending = FALSE /\ latest = 1 /\ seen = FALSE
    /\ stored = {1} /\ cursor = 1 /\ covEnd = 1 /\ lcb = 1 /\ gaps = <<>>
    /\ marker = 0 /\ switch = 0
    /\ ses = [state |-> "CREATED", bound |-> TRUE, snap |-> FALSE, checked |-> FALSE,
              issued |-> FALSE, hpre |-> 0, hstop |-> 0, gapBefore |-> 0,
              provider |-> "publicnode", hlive |-> 0, at |-> 0, fresh |-> FALSE, intent |-> FALSE,
              outcome |-> FALSE, restarted |-> FALSE]
    /\ job = [s \in Stages |-> NoJob]
    /\ op = NoOp /\ faults = 0

(***************************************************************************)
(* The chain.                                                              *)
(***************************************************************************)

Mine ==
    /\ head < MaxBlock
    /\ head' = head + 1
    /\ IF Running /\ subs
       THEN stored' = stored \cup {head + 1} /\ latest' = head + 1
       ELSE UNCHANGED <<stored, latest>>
    /\ UNCHANGED <<other, blind, unit, config, subs, pending, seen, cursor, covEnd, lcb, gaps,
                   marker, switch, ses, job, op, faults>>

\* The scanner stores a second launch that the flow worker will collect.
Launch ==
    /\ other = "unborn"
    /\ other' = "launched"
    /\ UNCHANGED <<head, blind, unit, config, memory, ledger, marker, switch, ses, job, op, faults>>

(***************************************************************************)
(* The unit: FlowWorker.run around its connections.                        *)
(***************************************************************************)

RefusedAtStart == Split /\ ses.state \in PreStop \cup {"SOURCE_STOPPED", "STOP_TAIL_VERIFIED"}

\* Startup.  A split worker under a pending session becomes the session's process
\* and records no gap; any other start is uncertain from the coverage mark.
\* `restarted' only remembers that the handoff has had more than one process.
StartWorker ==
    /\ wpc = "start" /\ ~RefusedAtStart
    /\ wpc' = "down"
    /\ IF InHandoff
       THEN /\ ses' = [ses EXCEPT !.state = "SPLIT_WSS_CONNECTING", !.bound = TRUE,
                                  !.restarted = @ \/ ses.state # "SPLIT_CONFIGURED"]
            /\ UNCHANGED gaps
       ELSE gaps' = Append(gaps, OutageGap) /\ UNCHANGED ses
    /\ seen' = (mode = "legacy" /\ ses.state \in Pending \cup Watched \cup {"FAILED"})
    /\ UNCHANGED <<chain, mode, config, subs, pending, latest, stored, cursor, covEnd, lcb,
                   marker, switch, job, op, faults>>

\* A marker belongs to the connection it was written under.
ConnectWorker ==
    /\ wpc = "down"
    /\ wpc' = "up" /\ marker' = 0 /\ ses' = [ses EXCEPT !.fresh = FALSE]
    /\ UNCHANGED <<chain, mode, config, memory, ledger, switch, job, op, faults>>

LosesWithGap == switch = 0 \/ ~Split

\* The except branch: a handoff under way has failed; otherwise the split worker
\* starts a switch unless one is pending.
LoseConnection ==
    /\ wpc \in {"down", "up", "recover", "finish"} /\ faults < MaxFaults
    /\ faults' = faults + 1
    /\ ses' = IF InHandoff THEN [ses EXCEPT !.state = "FAILED"] ELSE ses
    /\ gaps' = IF LosesWithGap THEN Append(gaps, OutageGap) ELSE gaps
    /\ switch' = IF LosesWithGap /\ Split /\ ~Holding THEN Len(gaps') ELSE switch
    /\ wpc' = "down" /\ subs' = FALSE
    /\ UNCHANGED <<chain, mode, config, pending, latest, seen, stored, cursor, covEnd, lcb,
                   marker, job, op>>

\* The process dies and systemd starts it again on the route its file names.
Crash ==
    /\ mode # "none" /\ wpc # "start" /\ wpc # "blocked" /\ faults < MaxFaults
    /\ faults' = faults + 1
    /\ mode' = (IF config THEN "split" ELSE "legacy") /\ wpc' = "start"
    /\ subs' = FALSE /\ pending' = FALSE /\ latest' = 0 /\ seen' = FALSE
    /\ ses' = [ses EXCEPT !.bound = FALSE]
    /\ UNCHANGED <<chain, config, ledger, marker, switch, job, op>>

(***************************************************************************)
(* One tick of the worker: reconcile, cutover_tick, recovery, finalize.    *)
(***************************************************************************)

\* discover() and ensure_bootstrap_state(): the debt of a new launch is a gap row.
Discovered == IF other = "launched" THEN "debt" ELSE other

\* A split worker whose session failed discovers, and returns before it subscribes.
TickFailed ==
    /\ wpc = "up" /\ Split /\ ses.state = "FAILED"
    /\ other' = Discovered /\ wpc' = "finish"
    /\ UNCHANGED <<head, blind, mode, config, memory, ledger, marker, switch, ses, job, op, faults>>

\* cutover_tick() has nothing to hold back.
NoHandoff ==
    /\ Split => ses.state \notin Pending \cup {"FAILED", "READY_TAIL_VERIFIED"}
    /\ wpc' = "recover" /\ pending' = (pending \/ ~subs) /\ UNCHANGED ses

\* begin_validation(), or a verified cursor that is not there.
BeginValidation ==
    /\ Split /\ ses.state = "READY_TAIL_VERIFIED"
    /\ ses' = [ses EXCEPT !.state = IF cursor >= ses.hlive THEN "POST_CUTOVER_VALIDATING"
                                                          ELSE "FAILED"]
    /\ wpc' = IF cursor >= ses.hlive THEN "recover" ELSE "finish"
    /\ pending' = (pending \/ ~subs)

\* A debt or a gap that appeared since the stop tail fails the handoff.
SpoilHandoff ==
    /\ InHandoff /\ Unexpected(Discovered)
    /\ ses' = [ses EXCEPT !.state = "FAILED"]
    /\ wpc' = "finish" /\ pending' = (pending \/ ~subs)

\* Every filter is subscribed: SUBSCRIPTIONS_READY and READY_TAIL_PENDING at once.
AwaitReadyTail ==
    /\ InHandoff /\ ~Unexpected(Discovered)
    /\ ses' = [ses EXCEPT !.state = "READY_TAIL_PENDING", !.provider = "publicnode"]
    /\ wpc' = "finish" /\ pending' = TRUE

Tick ==
    /\ wpc = "up" /\ ~(Split /\ ses.state = "FAILED")
    /\ other' = Discovered /\ subs' = TRUE
    /\ NoHandoff \/ BeginValidation \/ SpoilHandoff \/ AwaitReadyTail
    /\ UNCHANGED <<head, blind, mode, config, latest, seen, ledger, marker, switch, job, op, faults>>

\* accept_shadow_handoff()
Accepts == marker # 0 /\ cursor >= marker

Recovering == wpc = "recover" /\ pending /\ ~Holding /\ ~Accepts

SkipRecovery ==
    /\ wpc = "recover" /\ ~Recovering
    /\ pending' = (pending /\ Holding)
    /\ wpc' = "finish"
    /\ UNCHANGED <<chain, mode, config, subs, latest, seen, ledger, marker, switch, ses, job,
                   op, faults>>

\* Ordinary recovery proves [cursor - Overlap, head] and closes the gaps that begin in it.
Recover ==
    /\ Recovering
    /\ \E h \in Heads :
          LET first == Greatest(1, cursor - Overlap)
          IN /\ first <= h
             /\ stored' = stored \cup (first..h) /\ blind' = blind \cup Left(h)
             /\ gaps' = Closed({i \in DOMAIN gaps : gaps[i].first \in first..h})
             /\ cursor' = h /\ latest' = Greatest(latest, h)
    /\ pending' = FALSE /\ wpc' = "finish"
    /\ UNCHANGED <<head, other, mode, config, subs, seen, covEnd, lcb, marker, switch, ses, job, op,
                   faults>>

\* Any failing call; an answer behind the cursor is one.
RecoveryFails ==
    /\ Recovering /\ faults < MaxFaults
    /\ faults' = faults + 1
    /\ gaps' = Append(gaps, RecoveryGap)
    /\ wpc' = "finish"
    /\ UNCHANGED <<chain, mode, config, memory, stored, cursor, covEnd, lcb, marker, switch,
                   ses, job, op>>

\* The head call meets an exhausted budget: no gap is written.
RecoveryDeferred ==
    /\ Recovering /\ faults < MaxFaults
    /\ faults' = faults + 1
    /\ wpc' = "finish"
    /\ UNCHANGED <<chain, mode, config, memory, ledger, marker, switch, ses, job, op>>

\* The bootstrap of the second launch (FlowCollector).
BootstrapOther ==
    /\ wpc = "recover" /\ ~Holding /\ other = "debt"
    /\ other' = "done"
    /\ UNCHANGED <<head, blind, unit, config, memory, ledger, marker, switch, ses, job, op, faults>>

\* advance_provider_switch() to its end (ProviderSwitch); it hands over as the ready tail does.
ProveSwitch ==
    /\ wpc = "finish" /\ Split /\ subs /\ switch # 0 /\ ses.state # "FAILED"
    /\ \E h \in Heads :
          LET first == Greatest(1, cursor - Overlap)
          IN /\ first <= h
             /\ stored' = stored \cup (first..h) /\ blind' = blind \cup Left(h)
             /\ cursor' = Greatest(cursor, h) /\ latest' = Greatest(latest, h)
             /\ marker' = IF OpenGaps \subseteq {switch} THEN h ELSE marker
    /\ gaps' = Closed({switch})
    /\ switch' = 0
    /\ UNCHANGED <<head, other, unit, config, subs, pending, seen, covEnd, lcb, ses, job, op, faults>>

\* A legacy worker that found the session at its start, and is healthy.
RollbackDue == wpc = "finish" /\ mode = "legacy" /\ seen /\ ~pending /\ Clean

\* record_rollback() and record_operational_outcome(): the outcome is refused when
\* the session never had a subscription provider, after ROLLED_BACK is committed.
RecordRollback ==
    /\ RollbackDue
    /\ ses.state \in Watched => ses.intent
    /\ LET known == ses.intent \/ ses.provider = "publicnode"
       IN /\ ses' = [ses EXCEPT !.state = "ROLLED_BACK", !.outcome = known]
          /\ seen' = FALSE
          /\ wpc' = IF known THEN "finish" ELSE "blocked"
          /\ subs' = known
    /\ UNCHANGED <<chain, mode, config, pending, latest, ledger, marker, switch, job, op, faults>>

\* A watched session without an intent: the ValueError blocks the worker for good.
RollbackRefused ==
    /\ RollbackDue /\ ses.state \in Watched /\ ~ses.intent
    /\ wpc' = "blocked" /\ subs' = FALSE
    /\ UNCHANGED <<chain, mode, config, pending, latest, seen, ledger, marker, switch, ses,
                   job, op, faults>>

ClaimsAlways == TRUE                           \* mutant: a handoff does not hold the claims back
MayClaim == ~Holding

\* finalize(True)
Finish ==
    /\ wpc = "finish" /\ ~RollbackDue
    /\ IF MayClaim THEN covEnd' = (IF subs THEN head ELSE covEnd) /\ lcb' = latest
       ELSE UNCHANGED <<covEnd, lcb>>
    /\ wpc' = "up"
    /\ UNCHANGED <<chain, mode, config, memory, stored, cursor, gaps, marker, switch, ses, job,
                   op, faults>>

(***************************************************************************)
(* The operator: one command at a time, which may be broken off at any     *)
(* await and run again.                                                    *)
(***************************************************************************)

Idle == op = NoOp
LegacyUp == mode = "legacy" /\ Running /\ ~config

\* run_stage() to the end of the job (FlowCollector has a crash among its chunks).
Prove(stage) ==
    /\ job[stage].next <= job[stage].last
    /\ stored' = stored \cup (job[stage].next..job[stage].last)
    /\ job' = [job EXCEPT ![stage].next = job[stage].last + 1]
    /\ UNCHANGED <<chain, unit, config, memory, cursor, covEnd, lcb, gaps, marker, switch, ses,
                   op, faults>>

\* Any error or kill of a command leaves what it has committed.
BreakOff ==
    /\ ~Idle
    /\ op' = NoOp
    /\ UNCHANGED <<chain, unit, config, memory, ledger, marker, switch, ses, job, faults>>

\* prefetch: the snapshot of the filters is taken first.
Prefetch ==
    /\ Idle /\ LegacyUp /\ ses.bound
    /\ ses.state \in {"CREATED", "SHADOW_IN_PROGRESS", "SHADOW_VERIFIED"} /\ Clean
    /\ ses' = [ses EXCEPT !.state = "SHADOW_IN_PROGRESS"]
    /\ op' = Command("prefetch")
    /\ UNCHANGED <<chain, unit, config, memory, ledger, marker, switch, job, faults>>

\* historical_start(): from the cursor, or from an older gap.
HistoricalStart ==
    LET start == Greatest(1, cursor - Overlap)
        firsts == {Greatest(1, gaps[i].first) : i \in OpenGaps}
    IN  CHOOSE b \in {start} \cup firsts : \A c \in {start} \cup firsts : b <= c

\* start_historical(): a new head, or a later one once the old one is proved.
StartHistorical ==
    /\ op.cmd = "prefetch"
    /\ \E h \in Heads :
          IF ~Planned("historical")
          THEN /\ cursor <= h + Overlap
               /\ job' = [job EXCEPT !["historical"] = NewJob(HistoricalStart, h)]
          ELSE /\ Whole("historical") /\ h > job["historical"].last
               /\ \A i \in OpenGaps : gaps[i].first >= job["historical"].first
               /\ job' = [job EXCEPT !["historical"].last = h]
    /\ UNCHANGED <<chain, unit, config, memory, ledger, marker, switch, ses, op, faults>>

ProveHistorical == op.cmd = "prefetch" /\ Prove("historical")

\* The snapshot must be what it was when the command began.
FinishPrefetch ==
    /\ op.cmd = "prefetch" /\ Whole("historical")
    /\ Clean /\ Snapshot = op.snap
    /\ ses' = [ses EXCEPT !.state = "SHADOW_VERIFIED", !.snap = op.snap,
                          !.hpre = job["historical"].last]
    /\ op' = NoOp
    /\ UNCHANGED <<chain, unit, config, memory, ledger, marker, switch, job, faults>>

SnapshotHolds == Clean /\ Snapshot = ses.snap
LegacyHealthy == LegacyUp /\ ses.bound /\ ~pending /\ Whole("historical")

\* preflight
Preflight ==
    /\ Idle /\ LegacyUp /\ ses.bound /\ ses.state = "SHADOW_VERIFIED" /\ SnapshotHolds
    /\ Whole("historical") /\ ~ses.checked
    /\ ses' = [ses EXCEPT !.checked = TRUE]
    /\ UNCHANGED <<chain, unit, config, memory, ledger, marker, switch, job, op, faults>>

AuthorizeStop ==
    /\ Idle /\ LegacyHealthy /\ ses.state = "SHADOW_VERIFIED" /\ ses.checked /\ SnapshotHolds
    /\ ses' = [ses EXCEPT !.state = "STOP_AUTHORIZED"]
    /\ UNCHANGED <<chain, unit, config, memory, ledger, marker, switch, job, op, faults>>

\* abort-session, for as long as the source process is the one the session names.
AbortPreStop ==
    /\ Idle /\ LegacyUp /\ ses.bound /\ ses.state \in PreStop
    /\ ses' = [ses EXCEPT !.state = "ABORTED_PRE_STOP"]
    /\ UNCHANGED <<chain, unit, config, memory, ledger, marker, switch, job, op, faults>>

\* stop-flow: every authorization is checked again, the intent is durable, ...
IssueStop ==
    /\ Idle /\ LegacyHealthy /\ ses.state = "STOP_AUTHORIZED" /\ SnapshotHolds
    /\ ses' = [ses EXCEPT !.issued = TRUE]
    /\ op' = Command("stop")
    /\ UNCHANGED <<chain, unit, config, memory, ledger, marker, switch, job, faults>>

\* ... systemd stops whatever runs, ...
StopSource ==
    /\ op.cmd = "stop" /\ mode # "none"
    /\ mode' = "none" /\ wpc' = "none"
    /\ subs' = FALSE /\ pending' = FALSE /\ latest' = 0 /\ seen' = FALSE
    /\ ses' = [ses EXCEPT !.bound = FALSE]
    /\ UNCHANGED <<chain, config, ledger, marker, switch, job, op, faults>>

\* ... and the stop is recorded, by this command or by a later one.
MarkSourceStopped ==
    /\ mode = "none" /\ ~config /\ ses.state = "STOP_AUTHORIZED" /\ ses.issued
    /\ op.cmd = "stop" \/ Idle
    /\ ses' = [ses EXCEPT !.state = "SOURCE_STOPPED"]
    /\ op' = NoOp
    /\ UNCHANGED <<chain, unit, config, memory, ledger, marker, switch, job, faults>>

FromPrefetch == ses.hpre + 2                   \* mutant: the stages do not touch
StopTailFrom == ses.hpre + 1

\* stop-tail: one head for good; another run must meet the same boundaries.  A head that trails
\* the historical one leaves nothing to prove.
StopTail ==
    /\ Idle /\ mode = "none" /\ ~config /\ ses.state = "SOURCE_STOPPED"
    /\ \E h \in Heads :
          IF Planned("stop_tail") THEN job["stop_tail"].last = h /\ UNCHANGED job
          ELSE job' = [job EXCEPT !["stop_tail"] = NewJob(StopTailFrom, h)]
    /\ op' = Command("tail")
    /\ UNCHANGED <<chain, unit, config, memory, ledger, marker, switch, ses, faults>>

ProveStopTail == op.cmd = "tail" /\ Prove("stop_tail")

\* promote('historical'), promote('stop_tail'): the cursor, in commits of their own.
Promoted(stage) == cursor >= job[stage].last

PromoteStopTail ==
    /\ op.cmd = "tail" /\ Whole("stop_tail")
    /\ \E stage \in {"historical", "stop_tail"} :
          Whole(stage) /\ ~Promoted(stage) /\ cursor' = job[stage].last
    /\ UNCHANGED <<chain, unit, config, memory, stored, covEnd, lcb, gaps, marker, switch, ses,
                   job, op, faults>>

\* new(): the session moves on only with no gap; later ones have higher ids.
VerifyStopTail ==
    /\ op.cmd = "tail"
    /\ \A stage \in {"historical", "stop_tail"} : Whole(stage) /\ Promoted(stage)
    /\ Clean /\ ses.state = "SOURCE_STOPPED"
    /\ ses' = [ses EXCEPT !.state = "STOP_TAIL_VERIFIED", !.hstop = job["stop_tail"].last,
                          !.gapBefore = Len(gaps), !.provider = "none"]
    /\ op' = NoOp
    /\ UNCHANGED <<chain, unit, config, memory, ledger, marker, switch, job, faults>>

\* --enable-split: the file is replaced, then the session says so; a failure in between
\* restores the file, a kill does not.
EnableSplit ==
    /\ Idle /\ mode = "none" /\ ses.state \in {"STOP_TAIL_VERIFIED", "SPLIT_CONFIGURED"}
    /\ config' = TRUE /\ op' = Command("enable")
    /\ UNCHANGED <<chain, unit, memory, ledger, marker, switch, ses, job, faults>>

MarkSplitConfigured ==
    /\ op.cmd = "enable"
    /\ ses' = IF ses.state = "STOP_TAIL_VERIFIED"
              THEN [ses EXCEPT !.state = "SPLIT_CONFIGURED"] ELSE ses
    /\ op' = NoOp
    /\ UNCHANGED <<chain, unit, config, memory, ledger, marker, switch, job, faults>>

\* --disable-split asks nothing of the session.
DisableSplit ==
    /\ Idle /\ config
    /\ config' = FALSE
    /\ UNCHANGED <<chain, unit, memory, ledger, marker, switch, ses, job, op, faults>>

\* systemctl start, by hand.
StartUnit ==
    /\ Idle /\ mode = "none"
    /\ mode' = (IF config THEN "split" ELSE "legacy") /\ wpc' = "start"
    /\ UNCHANGED <<chain, config, memory, ledger, marker, switch, ses, job, op, faults>>

\* systemctl stop, by hand: the emergency rollback, never before the session's stop.
StopUnit ==
    /\ Idle /\ mode # "none" /\ faults < MaxFaults
    /\ faults' = faults + 1
    /\ wpc = "blocked" \/ ses.state \in Pending \cup Watched \cup {"READY_TAIL_VERIFIED", "FAILED"}
    /\ mode' = "none" /\ wpc' = "none"
    /\ subs' = FALSE /\ pending' = FALSE /\ latest' = 0 /\ seen' = FALSE
    /\ ses' = [ses EXCEPT !.bound = FALSE]
    /\ UNCHANGED <<chain, config, ledger, marker, switch, job, op>>

(***************************************************************************)
(* ready-tail                                                              *)
(***************************************************************************)

ReadyTail ==
    /\ Idle /\ config /\ Split /\ Running /\ ses.bound
    /\ ses.state = "READY_TAIL_PENDING" /\ ~Unexpected(other)
    /\ op' = Command("ready")
    /\ UNCHANGED <<chain, unit, config, memory, ledger, marker, switch, ses, job, faults>>

PinsOnce == ses.hlive = 0

\* The head of the handoff is pinned once, when the subscriptions are acknowledged: blocks the
\* endpoint does not know yet are neither proved nor, if mined before that, announced.
PinLive ==
    /\ op.cmd = "ready" /\ ses.state = "READY_TAIL_PENDING" /\ PinsOnce
    /\ ~Unexpected(other)
    /\ \E h \in Heads :
          /\ h >= ses.hstop
          /\ ses' = [ses EXCEPT !.hlive = h, !.at = head, !.fresh = TRUE]
          /\ blind' = blind \cup Left(h)
    /\ UNCHANGED <<head, other, unit, config, memory, ledger, marker, switch, job, op, faults>>

PlanReadyTail ==
    /\ op.cmd = "ready" /\ ses.hlive # 0 /\ ~Planned("wss_ready_tail")
    /\ job' = [job EXCEPT !["wss_ready_tail"] = NewJob(ses.hstop + 1, ses.hlive)]
    /\ UNCHANGED <<chain, unit, config, memory, ledger, marker, switch, ses, op, faults>>

ProveReadyTail == op.cmd = "ready" /\ Prove("wss_ready_tail")

\* The stages, in a row, from the first to the pinned head.
Covered(first) == job["historical"].first <= first

StillPending == ses.state = "READY_TAIL_PENDING"

\* promote('wss_ready_tail'): cursor, proved gaps, marker and the state in one commit.
PromoteReadyTail ==
    /\ op.cmd = "ready" /\ StillPending /\ \A stage \in Stages : Whole(stage)
    /\ LET proved == {i \in OpenGaps : gaps[i].first <= ses.hlive /\ gaps[i].end <= ses.at
                                        /\ Covered(Greatest(1, gaps[i].first))}
       IN /\ ~ \E i \in OpenGaps \ proved : i > ses.gapBefore
          /\ gaps' = Closed(proved)
          /\ marker' = IF OpenGaps \subseteq proved /\ ses.fresh THEN ses.hlive ELSE marker
    /\ cursor' = Greatest(cursor, job["wss_ready_tail"].last)
    /\ lcb' = ses.hlive
    /\ ses' = [ses EXCEPT !.state = "READY_TAIL_VERIFIED"]
    /\ op' = NoOp
    /\ UNCHANGED <<chain, unit, config, memory, stored, covEnd, switch, job, faults>>

(***************************************************************************)
(* After the handoff.                                                      *)
(***************************************************************************)

OfTheSession == Idle /\ config /\ Split /\ Running /\ ses.bound
Acceptable == OfTheSession /\ ~pending /\ switch = 0 /\ Clean

AcceptValidation ==
    /\ Acceptable /\ ses.state = "POST_CUTOVER_VALIDATING"
    /\ ses' = [ses EXCEPT !.state = "SOAKING"]
    /\ UNCHANGED <<chain, unit, config, memory, ledger, marker, switch, job, op, faults>>

CompleteSoak ==
    /\ Acceptable /\ ses.state = "SOAKING"
    /\ ses' = [ses EXCEPT !.state = "COMPLETE"]
    /\ UNCHANGED <<chain, unit, config, memory, ledger, marker, switch, job, op, faults>>

RollbackIntent ==
    /\ OfTheSession /\ ses.state \in Watched /\ ~ses.intent
    /\ ses' = [ses EXCEPT !.intent = TRUE]
    /\ UNCHANGED <<chain, unit, config, memory, ledger, marker, switch, job, op, faults>>

Worker ==
    \/ StartWorker \/ ConnectWorker \/ TickFailed \/ Tick \/ SkipRecovery \/ Recover \/ BootstrapOther
    \/ ProveSwitch \/ RecordRollback \/ RollbackRefused \/ Finish

Fault == LoseConnection \/ Crash \/ RecoveryFails \/ RecoveryDeferred

Operator ==
    \/ BreakOff
    \/ Prefetch \/ StartHistorical \/ ProveHistorical \/ FinishPrefetch
    \/ Preflight \/ AuthorizeStop \/ AbortPreStop
    \/ IssueStop \/ StopSource \/ MarkSourceStopped
    \/ StopTail \/ ProveStopTail \/ PromoteStopTail \/ VerifyStopTail
    \/ EnableSplit \/ MarkSplitConfigured \/ DisableSplit
    \/ StartUnit \/ StopUnit
    \/ ReadyTail \/ PinLive \/ PlanReadyTail \/ ProveReadyTail \/ PromoteReadyTail
    \/ AcceptValidation \/ CompleteSoak \/ RollbackIntent

Next == Mine \/ Launch \/ Worker \/ Fault \/ Operator

Spec == Init /\ [][Next]_vars

-----------------------------------------------------------------------------

Blocks == 1..MaxBlock
Verified == {"READY_TAIL_VERIFIED", "POST_CUTOVER_VALIDATING", "SOAKING", "COMPLETE"}

\* The trades a feature row may count as covered: below the mark and before every
\* open gap.
Claimed == {b \in 1..covEnd : \A i \in OpenGaps : b <= gaps[i].from}

\* Through the cutover, its failures and its rollback no trade is claimed before it is
\* stored, unless the handoff went on under a second process.  The claims run ahead of the
\* store by what trailing heads left out, and by nothing else.
Promise == INSTANCE CoveragePromise WITH
    Trades <- Blocks, happened <- 1..head,
    claimed <- IF ses.restarted THEN {} ELSE Claimed \ blind
KeepsPromise == Promise!Spec

\* A handoff that says verified has every trade up to the pinned head.
ReadyMeansProved == ses.state \in Verified => ses.hlive # 0 /\ 1..ses.hlive \subseteq stored
=============================================================================
