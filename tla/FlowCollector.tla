--------------------------- MODULE FlowCollector ---------------------------
(***************************************************************************)
(* One tracking target of the flow worker (app/flow_worker.py) with split  *)
(* routing and without a cutover session, an epoch or a segment: no        *)
(* provider switch is recorded and promote() writes no handoff.  The live  *)
(* subscription, the bounded ordinary recovery, the resumable bootstrap    *)
(* proof (app/flow_bootstrap.py, app/flow_shadow.py), the gap ledger and   *)
(* the feature rows (app/flow_data.py) touch the same cursors and gaps.    *)
(*                                                                         *)
(* Abstractions.  The chain has no forks.  v4 and hook filters share one   *)
(* kind "v4".  Block b has timestamp 2*b and the wall clock lies between   *)
(* two blocks, so a clock reading never equals a block timestamp.  The     *)
(* retry timers (15 s, 30 s) are dropped: blocks pass between any two      *)
(* ticks.  Splitting after LogRangeError may end a chunk at any block of   *)
(* the span.                                                               *)
(***************************************************************************)
EXTENDS Integers, Sequences, FiniteSets, FiniteSetsExt

CONSTANTS
    EndBlock,     \* the last block inside the tracking window; launch is block 1
    MaxBlock,     \* bound: blocks the chain mines
    MaxTrades,    \* bound: trades of the target
    Grads,        \* blocks at which the token may graduate
    PerBlock,     \* trades of one kind that share a block
    Lag,          \* a live socket delivers within this many blocks (the 3 s of finalize)
    Grace,        \* blocks after the window at which the target expires (10 s)
    HttpLag,      \* how far the HTTP head may trail the chain
    RecoveryMax,  \* RECOVERY_MAX_BLOCKS
    Chunk,        \* RECOVERY_CHUNK_BLOCKS
    Span,         \* SHADOW_SPAN
    QueueMax,     \* capacity of the notification queue
    Windows,      \* feature cutoffs, as blocks
    MaxLosses, MaxCrashes, MaxFailures   \* bounds on faults

ASSUME BoundsAssumption ==
    /\ {EndBlock, MaxBlock, MaxTrades, PerBlock, RecoveryMax, Chunk, Span, QueueMax} \subseteq Nat \ {0}
    /\ {Lag, Grace, HttpLag, MaxLosses, MaxCrashes, MaxFailures} \subseteq Nat
    /\ Lag >= 1
    /\ Grads \subseteq 1..MaxBlock
    /\ Windows \subseteq 1..EndBlock

Launch == 1
Kinds  == {"curve", "v4"}
Stages == {"live_bootstrap", "live_graduation"}
Trades == [kind : Kinds, block : 1..MaxBlock, n : 1..PerBlock]

VARIABLES
    head, mined, grad, learned,                     \* the chain; what the base scanner stored
    link, inflight, queue,                          \* the socket and the notification queue
    pc, subs, pending, recHead, blocked, latest,    \* the worker's memory
    dirty, seen, plan, planFirst, upto,
    tracked, gradKnown, status, cursor, boot,       \* the flow database
    frozen, job, gaps, covStart, covEnd, lcb,
    connectedOnce, stored, feature, marker,
    losses, crashes, failures                       \* faults so far

chain  == <<head, mined, grad, learned>>
net    == <<link, inflight, queue>>
work   == <<plan, planFirst, upto>>
proof  == <<cursor, boot, frozen, job>>
target == <<tracked, gradKnown, status>>
cover  == <<covStart, covEnd, lcb, connectedOnce>>
faults == <<losses, crashes, failures>>
vars   == <<chain, net, pc, subs, pending, recHead, blocked, latest, dirty, seen, work,
            proof, target, cover, gaps, stored, feature, marker, faults>>

Least(a, b)    == IF a < b THEN a ELSE b
Greatest(a, b) == IF a > b THEN a ELSE b

At(b) == 2 * b
Now   == 2 * head + 1
SureNow == Now                     \* mutant: no buffer behind the clock
Sure == 2 * (head - Lag) + 1      \* now - 3 s

Active  == tracked /\ status = "active"
ExpiredWhenWhole == Active /\ Now > At(EndBlock + Grace) /\ gaps = {}   \* mutant: waits for the gaps
Expired == Active /\ Now > At(EndBlock + Grace)

\* filter_queries(): the live filters; bootstrap_kinds() adds the retired curve.
Filters  == IF gradKnown # 0 THEN {"v4"} ELSE {"curve"}
Required == IF gradKnown # 0 THEN Kinds ELSE {"curve"}
BaseLate(k) == IF k = "v4" THEN gradKnown + 1 ELSE Launch      \* mutant: after the graduation block
Base(k) == IF k = "v4" THEN gradKnown ELSE Launch
UpTo(k, h) == IF k = "curve" /\ gradKnown # 0 THEN Least(h, gradKnown) ELSE h
Missing  == {k \in Required : cursor[k] = 0}
Stage    == IF gradKnown # 0 THEN "live_graduation" ELSE "live_bootstrap"
NoJob    == [first |-> 0, next |-> 0, last |-> 0]
Planned  == {k \in Kinds : job[Stage][k] # NoJob}
Unproved == {k \in Planned : job[Stage][k].next <= job[Stage][k].last}

\* What reconcile() finds to do for the target between two awaits.
Transition  == learned /\ gradKnown = 0
NewRows     == {k \in Required : cursor[k] = 0 /\ boot[k] = "none"}
Subscribing == pc = "subscribe" \/ (pc = "learn" /\ ~Transition /\ NewRows = {})

Logs(k, from, to) == {t \in mined : t.kind = k /\ t.block \in from..to}
InWindow(T)       == {t \in T : t.block <= EndBlock}
Highest(T)        == Max({t.block : t \in T} \cup {0})
LastEventAt       == IF stored = {} THEN At(Launch) ELSE At(Highest(stored))

\* FlowWorker.ingest over a batch of logs: every event moves latest_block, those
\* inside the window are stored and leave the durable dirty marker.
Ingest(T) ==
    /\ latest' = Greatest(latest, Highest(T))
    /\ stored' = stored \cup InWindow(T)
    /\ dirty'  = (dirty \/ ~(InWindow(T) \subseteq stored))
    /\ marker' = (marker \/ ~(InWindow(T) \subseteq stored))

Gap(reason, start, end, first) ==
    [reason |-> reason, start |-> start, end |-> Greatest(start, end), first |-> first]

\* The UPDATE of flow_features that FlowDB.gap and require_bootstrap run in the
\* transaction of the gap row.
Downgrade(f, start) ==
    [w \in Windows |-> IF f[w] # "none" /\ At(w) >= start THEN "partial" ELSE f[w]]

\* The reason of the gap of a filter that has no proof yet.
BootstrapRequired(k) == IF k = "v4" THEN "bootstrap_required:v4" ELSE "bootstrap_required:curve"

AddGap(g) ==
    /\ gaps' = gaps \cup {g}
    /\ feature' = Downgrade(feature, g.start)

(***************************************************************************)
(* Feature rows.                                                           *)
(***************************************************************************)

\* required_filter_intervals: graduation after the cutoff leaves the curve only.
Intervals(w) == IF gradKnown # 0 /\ At(gradKnown) <= At(w) THEN Kinds ELSE {"curve"}

\* FlowDB.rebuild judges one cutoff from the open gaps, the bootstrap states and
\* the two coverage marks.
Complete(w, gs, bt, cs, ce) ==
    /\ cs /\ ce >= At(w)
    /\ \A g \in gs : g.start > At(w)
    /\ \A k \in Intervals(w) :
          bt[k] = "complete" \/ (bt[k] = "none" /\ Intervals(w) = {"curve"})

Rebuilt(f, until, gs, bt, cs, ce) ==
    [w \in Windows |-> IF At(w) > until THEN f[w]
                       ELSE IF Complete(w, gs, bt, cs, ce) THEN "complete" ELSE "partial"]

Due(f) == \E w \in Windows : At(w) <= Sure /\ f[w] = "none"

\* The part of finalize() that recomputes the rows of a dirty target.
Refresh(f, d, gs, ce) ==
    /\ feature' = IF tracked /\ (d \/ Due(f)) THEN Rebuilt(f, Sure, gs, boot, covStart, ce) ELSE f
    /\ dirty' = FALSE
    /\ marker' = FALSE

(***************************************************************************)
(* The chain and the socket.                                               *)
(***************************************************************************)

Init ==
    /\ head = 1 /\ grad = 0 /\ learned = FALSE
    /\ mined \in SUBSET [kind : {"curve"}, block : {1}, n : 1..PerBlock]
    /\ Cardinality(mined) <= MaxTrades
    /\ link = "none" /\ inflight = {} /\ queue = {}
    /\ pc = "start" /\ subs = {} /\ pending = FALSE /\ recHead = 0 /\ blocked = <<>>
    /\ latest = 0 /\ dirty = FALSE /\ seen = 0
    /\ plan = <<>> /\ planFirst = 0 /\ upto = 0
    /\ tracked = FALSE /\ gradKnown = 0 /\ status = "active"
    /\ cursor = [k \in Kinds |-> 0]
    /\ boot = [k \in Kinds |-> "none"]
    /\ frozen = [s \in Stages |-> 0]
    /\ job = [s \in Stages |-> [k \in Kinds |-> NoJob]]
    /\ gaps = {} /\ covStart = FALSE /\ covEnd = 0 /\ lcb = 0 /\ connectedOnce = FALSE
    /\ stored = {} /\ feature = [w \in Windows |-> "none"] /\ marker = FALSE
    /\ losses = 0 /\ crashes = 0 /\ failures = 0

\* The awaits of the loop.  Between two of them neither the reader nor anything but
\* a crash can run; steps of the chain in such a stretch commute with it, so they
\* are taken at the awaits.
Awaiting ==
    \/ pc \in {"start", "down", "backoff", "idle", "discover"}
    \/ pc = "expire" /\ subs # {}
    \/ Subscribing /\ subs # Filters
    \/ pc = "head" /\ recHead = 0
    \/ pc = "fetch" /\ plan # <<>>
    \/ pc = "freeze" /\ frozen[Stage] = 0
    \/ pc = "proof" /\ Unproved # {}

\* A block with some trades of the target, perhaps its graduation.  A live socket
\* has delivered what is older than Lag; the node notifies what is subscribed.
\* Bound: no trades after the window, where they would not be stored.
Mine ==
    /\ Awaiting /\ head < MaxBlock
    /\ \A t \in inflight : t.block > head + 1 - Lag
    /\ head' = head + 1
    /\ \E g \in {grad} \cup (IF grad = 0 THEN Grads \cap {head + 1} ELSE {}) :
         \E T \in SUBSET [kind : Kinds, block : {head + 1}, n : 1..PerBlock] :
           /\ Cardinality(mined \cup T) <= MaxTrades
           /\ head + 1 > EndBlock => T = {}
           /\ \A t \in T : t.kind = "v4" => g # 0
           /\ \A t \in T : t.kind = "curve" => grad = 0
           /\ \A t \in T : \A m \in 1..(t.n - 1) : [t EXCEPT !.n = m] \in T
           /\ grad' = g
           /\ mined' = mined \cup T
           /\ inflight' = IF link = "up" THEN inflight \cup {t \in T : t.kind \in subs}
                          ELSE inflight
    /\ UNCHANGED <<learned, link, queue, pc, subs, pending, recHead, blocked, latest, dirty,
                   seen, work, proof, target, cover, gaps, stored, feature, marker, faults>>

\* The base scanner commits the graduation it saw.
BaseLearns ==
    /\ Awaiting /\ grad # 0 /\ ~learned
    /\ learned' = TRUE
    /\ UNCHANGED <<head, mined, grad, net, pc, subs, pending, recHead, blocked, latest, dirty,
                   seen, work, proof, target, cover, gaps, stored, feature, marker, faults>>

HasRoom == Cardinality(queue) < QueueMax

\* read_socket: put_nowait on a full queue raises and ends the reader.
Deliver ==
    /\ Awaiting /\ link = "up"
    /\ \E t \in inflight :
         /\ \A u \in inflight : t.block <= u.block
         /\ IF HasRoom
            THEN /\ queue' = queue \cup {t}
                 /\ inflight' = inflight \ {t}
                 /\ link' = link
            ELSE link' = "dead" /\ inflight' = {} /\ queue' = queue
    /\ UNCHANGED <<chain, pc, subs, pending, recHead, blocked, latest, dirty, seen, work,
                   proof, target, cover, gaps, stored, feature, marker, faults>>

\* The socket closes or a ping times out; the reader task ends.
LinkDies ==
    /\ Awaiting /\ link = "up" /\ losses < MaxLosses
    /\ link' = "dead" /\ inflight' = {} /\ losses' = losses + 1
    /\ UNCHANGED <<chain, queue, pc, subs, pending, recHead, blocked, latest, dirty, seen, work,
                   proof, target, cover, gaps, stored, feature, marker, crashes, failures>>

(***************************************************************************)
(* Connection life of FlowWorker.run.                                      *)
(***************************************************************************)

\* Mutant: the outage starts when it is noticed, not where coverage ends.
OutageGapNow == Gap("ws_gap", Least(Now, At(EndBlock)), Least(Now, At(EndBlock)), lcb)
OutageGap == Gap("ws_gap", IF covEnd = 0 THEN At(Launch) ELSE covEnd,
                 Least(Now, At(EndBlock)), lcb)

UnknownOutage == connectedOnce /\ Active

\* Startup: an earlier connection leaves an outage of unknown length behind.
Start ==
    /\ pc = "start"
    /\ IF UnknownOutage THEN AddGap(OutageGap) ELSE UNCHANGED <<gaps, feature>>
    /\ dirty' = Active
    /\ pc' = "down"
    /\ UNCHANGED <<chain, net, subs, pending, recHead, blocked, latest, seen, work,
                   proof, target, cover, stored, marker, faults>>

Connect ==
    /\ pc = "down"
    /\ link' = "up" /\ pc' = "idle" /\ connectedOnce' = TRUE
    /\ UNCHANGED <<chain, inflight, queue, subs, pending, recHead, blocked, latest, dirty, seen,
                   work, proof, target, covStart, covEnd, lcb, gaps, stored, feature, marker, faults>>

\* The except branch of run(): a gap for the active target, then finalize(False),
\* which also retires an expired target as partial.
HandleLoss ==
    /\ gaps' = IF Active THEN gaps \cup {OutageGap} ELSE gaps
    /\ status' = IF Expired THEN "partial" ELSE status
    /\ Refresh(IF Active THEN Downgrade(feature, OutageGap.start) ELSE feature,
               dirty \/ marker \/ Active, gaps', covEnd)
    /\ link' = "none" /\ pc' = "backoff"
    /\ plan' = <<>> /\ planFirst' = 0 /\ upto' = 0 /\ seen' = 0
    /\ UNCHANGED <<chain, inflight, queue, subs, pending, recHead, blocked, latest,
                   proof, tracked, gradKnown, cover, stored, crashes, failures>>

NeedsSocket ==
    \/ pc \in {"idle", "finish"}
    \/ pc = "expire" /\ subs # {}
    \/ Subscribing /\ subs # Filters

NoticeLoss ==
    /\ link = "dead" /\ NeedsSocket
    /\ pc = "finish" => queue = {}
    /\ HandleLoss
    /\ UNCHANGED losses

ConnectFails ==
    /\ pc = "down" /\ losses < MaxLosses
    /\ HandleLoss
    /\ losses' = losses + 1

\* The finally branch, after the retry delay: buffered notices are stored before
\* their routes are dropped.
Backoff ==
    /\ pc = "backoff"
    /\ Ingest(queue) /\ queue' = {}
    /\ subs' = {} /\ pc' = "down"
    /\ UNCHANGED <<chain, link, inflight, pending, recHead, blocked, seen, work,
                   proof, target, cover, gaps, feature, faults>>

\* The process dies: the memory goes, the committed rows stay.
Crash ==
    /\ pc # "start" /\ crashes < MaxCrashes
    /\ crashes' = crashes + 1
    /\ pc' = "start" /\ link' = "none" /\ inflight' = {} /\ queue' = {}
    /\ subs' = {} /\ pending' = FALSE /\ recHead' = 0 /\ blocked' = <<>> /\ latest' = 0
    /\ dirty' = FALSE /\ seen' = 0 /\ plan' = <<>> /\ planFirst' = 0 /\ upto' = 0
    /\ UNCHANGED <<chain, proof, target, cover, gaps, stored, feature, marker, losses, failures>>

(***************************************************************************)
(* One tick: drain, reconcile(), drain, finalize(True).                    *)
(***************************************************************************)

Tick ==
    /\ pc = "idle" /\ link = "up"
    /\ Ingest(queue) /\ queue' = {}
    /\ seen' = LastEventAt'
    /\ pc' = IF Expired THEN "expire"
             ELSE IF tracked /\ status = "active" THEN "learn"
             ELSE IF ~tracked /\ At(EndBlock) > Now THEN "discover" ELSE "finish"
    /\ UNCHANGED <<chain, link, inflight, subs, pending, recHead, blocked, work,
                   proof, target, cover, gaps, feature, faults>>

\* Expiry: completed only without open gaps and with coverage to the window's end.
Expire ==
    /\ pc = "expire"
    /\ link = "up" \/ subs = {}
    /\ status' = IF gaps # {} \/ covEnd < At(EndBlock) THEN "partial" ELSE "completed"
    /\ subs' = {}
    /\ pending' = FALSE /\ recHead' = 0 /\ blocked' = <<>> /\ dirty' = TRUE
    /\ pc' = "finish"
    /\ UNCHANGED <<chain, net, latest, seen, work, proof, tracked, gradKnown, cover,
                   gaps, stored, feature, marker, faults>>

\* discover(): the target row is committed, then its bootstrap row; a token whose
\* window is over is skipped.
Discover ==
    /\ pc = "discover"
    /\ tracked' = TRUE
    /\ pc' = "enlist"
    /\ UNCHANGED <<chain, net, subs, pending, recHead, blocked, latest, dirty, seen, work, proof,
                   gradKnown, status, cover, gaps, stored, feature, marker, faults>>

\* The curve-to-v4 transition of reconcile() has a commit of its own ...
Learn ==
    /\ pc = "learn" /\ Transition
    /\ gradKnown' = grad
    /\ pc' = "ensure"
    /\ UNCHANGED <<chain, net, subs, pending, recHead, blocked, latest, dirty, seen, work, proof,
                   tracked, status, cover, gaps, stored, feature, marker, faults>>

\* ... before ensure_bootstrap_state: a required filter without a cursor becomes a
\* durable bootstrap row with its own gap.
Ensure ==
    /\ pc \in {"enlist", "ensure"} \/ (pc = "learn" /\ ~Transition)
    /\ NewRows # {}
    /\ boot' = [k \in Kinds |-> IF k \in NewRows THEN "required" ELSE boot[k]]
    /\ gaps' = gaps \cup {Gap(BootstrapRequired(k), At(Base(k)), At(Base(k)), Base(k)) : k \in NewRows}
    /\ feature' = Downgrade(feature, Min({At(Base(k)) : k \in NewRows}))
    /\ pc' = IF pc = "enlist" THEN "learn" ELSE "subscribe"
    /\ UNCHANGED <<chain, net, subs, pending, recHead, blocked, latest, dirty, seen, work,
                   cursor, frozen, job, target, cover, stored, marker, faults>>

HeadKept == recHead                            \* mutant: the pinned head survives
HeadAfterSubscribe == 0

\* subscribe(): a new filter makes recovery pending and forgets a pinned head.
Subscribe ==
    /\ Subscribing
    /\ subs = Filters \/ link = "up"
    /\ subs' = Filters
    /\ IF subs = Filters THEN UNCHANGED <<pending, recHead, blocked>>
       ELSE pending' = TRUE /\ recHead' = HeadAfterSubscribe /\ blocked' = <<>>
    /\ pc' = IF ~pending' THEN "finish" ELSE IF Missing # {} THEN "freeze" ELSE "head"
    /\ UNCHANGED <<chain, net, latest, dirty, seen, work, proof, target, cover, gaps, stored,
                   feature, marker, faults>>

\* The last lines of a tick: drain() ...
Drain ==
    /\ pc = "finish" /\ queue # {}
    /\ Ingest(queue) /\ queue' = {}
    /\ UNCHANGED <<chain, link, inflight, pc, subs, pending, recHead, blocked, seen, work, proof,
                   target, cover, gaps, feature, faults>>

\* ... then finalize(True): a subscribed target claims coverage up to three seconds
\* ago and the due windows are judged.
Finish ==
    /\ pc = "finish" /\ link = "up" /\ queue = {}
    /\ covEnd' = IF subs # {} THEN Least(At(EndBlock), Sure) ELSE covEnd
    /\ lcb' = latest
    /\ Refresh(feature, dirty \/ marker, gaps, covEnd')
    /\ seen' = 0 /\ pc' = "idle"
    /\ UNCHANGED <<chain, net, subs, pending, recHead, blocked, latest, work, proof, target,
                   covStart, connectedOnce, gaps, stored, faults>>

(***************************************************************************)
(* Ordinary recovery: recovery_plan and recover_plans.                     *)
(***************************************************************************)

\* recovery_gap: one open reconnect gap at a time.
RecoveryGap(first) ==
    /\ pending' = TRUE
    /\ IF \E g \in gaps : g.reason = "reconnect"
       THEN UNCHANGED <<gaps, feature>>
       ELSE AddGap(Gap("reconnect", seen, Now, first))

OldestCursor ==
    LET held == {cursor[k] - 2 : k \in {f \in Filters : cursor[f] # 0}}
    IN  IF held = {} THEN Launch ELSE Greatest(Launch, Min(held))

ReadHead ==
    /\ pc = "head"
    /\ IF recHead # 0 THEN UNCHANGED <<recHead, latest>>
       ELSE \E h \in Greatest(1, head - HttpLag)..head :
              recHead' = h /\ latest' = Greatest(latest, h)
    /\ pc' = IF blocked = [k \in Filters |-> cursor[k]] THEN "finish" ELSE "plan"
    /\ UNCHANGED <<chain, net, subs, pending, blocked, dirty, seen, work, proof, target, cover,
                   gaps, stored, feature, marker, faults>>

\* The head call fails: a provider error records a gap, an exhausted budget does not.
HeadFails ==
    /\ pc = "head" /\ recHead = 0 /\ failures < MaxFailures
    /\ failures' = failures + 1
    /\ RecoveryGap(OldestCursor) \/ UNCHANGED <<pending, gaps, feature>>
    /\ pc' = "finish"
    /\ UNCHANGED <<chain, net, subs, recHead, blocked, latest, dirty, seen, work, proof, target,
                   cover, stored, marker, losses, crashes>>

Order     == IF gradKnown # 0 THEN <<"v4", "curve">> ELSE <<"curve">>
BeginSkips(k) == Greatest(Base(k), cursor[k] + 2)   \* mutant: the overlap in the wrong direction
Begin(k) == Greatest(Base(k), cursor[k] - 2)
Finished(k) == k = "curve" /\ gradKnown # 0 /\ cursor[k] >= UpTo(k, recHead)
Wanted    == IF Finished("curve") THEN <<"v4">> ELSE Order
BadHead   == recHead < Greatest(Launch, gradKnown) \/ \E k \in Required : cursor[k] > recHead + 2
TooFar(k) == UpTo(k, recHead) - Begin(k) + 1 > RecoveryMax
Refused   == {i \in DOMAIN Wanted : TooFar(Wanted[i])}

Plan ==
    /\ pc = "plan" /\ ~BadHead /\ Refused = {}
    /\ plan' = [i \in DOMAIN Wanted |->
                  [kind |-> Wanted[i], next |-> Begin(Wanted[i]), last |-> UpTo(Wanted[i], recHead)]]
    /\ planFirst' = Min({Begin(Wanted[i]) : i \in DOMAIN Wanted})
    /\ pc' = "fetch"
    /\ UNCHANGED <<chain, net, subs, pending, recHead, blocked, latest, dirty, seen, upto, proof,
                   target, cover, gaps, stored, feature, marker, faults>>

\* More than RECOVERY_MAX_BLOCKS: held until a cursor moves (UNRECOVERABLE_GAP).
\* A head behind the boundary or the cursor is a provider error.
PlanRefused ==
    /\ pc = "plan"
    /\ \/ /\ BadHead /\ RecoveryGap(OldestCursor) /\ UNCHANGED blocked
       \/ /\ ~BadHead /\ Refused # {}
          /\ RecoveryGap(Begin(Wanted[Min(Refused)]))
          /\ blocked' = [k \in Filters |-> cursor[k]]
    /\ pc' = "finish"
    /\ UNCHANGED <<chain, net, subs, recHead, latest, dirty, seen, work, proof, target, cover,
                   stored, marker, faults>>

\* One eth_getLogs chunk: its events commit one by one ...
Fetch ==
    /\ pc = "fetch" /\ plan # <<>>
    /\ \E to \in plan[1].next..Least(plan[1].last, plan[1].next + Chunk - 1) :
         /\ Ingest(Logs(plan[1].kind, plan[1].next, to))
         /\ upto' = to
    /\ pc' = "save"
    /\ UNCHANGED <<chain, net, subs, pending, recHead, blocked, seen, plan, planFirst, proof,
                   target, cover, gaps, feature, faults>>

FetchFails ==
    /\ pc = "fetch" /\ plan # <<>> /\ failures < MaxFailures
    /\ failures' = failures + 1
    /\ RecoveryGap(OldestCursor)
    /\ plan' = <<>> /\ planFirst' = 0 /\ pc' = "finish"
    /\ UNCHANGED <<chain, net, subs, recHead, blocked, latest, dirty, seen, upto, proof, target,
                   cover, stored, marker, losses, crashes>>

\* ... and the cursor in a commit of its own, after which the queue is drained.
Save ==
    /\ pc = "save"
    /\ cursor' = [cursor EXCEPT ![plan[1].kind] = upto]
    /\ plan' = IF upto = plan[1].last THEN Tail(plan) ELSE [plan EXCEPT ![1].next = upto + 1]
    /\ upto' = 0
    /\ Ingest(queue) /\ queue' = {}
    /\ pc' = "fetch"
    /\ UNCHANGED <<chain, link, inflight, subs, pending, recHead, blocked, seen, planFirst,
                   boot, frozen, job, target, cover, gaps, feature, faults>>

\* Every plan is done: the gaps that begin inside the queried suffix close.
Recovered ==
    /\ pc = "fetch" /\ plan = <<>>
    /\ covStart' = TRUE
    /\ gaps' = {g \in gaps : ~(/\ g.reason \in {"ws_gap", "reconnect"}
                               /\ g.first \in planFirst..recHead
                               /\ g.end <= Now)}
    /\ pending' = FALSE /\ recHead' = 0 /\ blocked' = <<>> /\ dirty' = TRUE
    /\ planFirst' = 0 /\ pc' = "finish"
    /\ UNCHANGED <<chain, net, subs, latest, seen, plan, upto, proof, target, covEnd, lcb,
                   connectedOnce, stored, feature, marker, faults>>

(***************************************************************************)
(* Bootstrap: CursorBootstrap.run with one chunk per tick.                 *)
(***************************************************************************)

\* freeze(): the head of a stage is read once and stays for every later attempt.
Freeze ==
    /\ pc = "freeze"
    /\ IF frozen[Stage] # 0 THEN UNCHANGED frozen
       ELSE \E h \in Greatest(1, head - HttpLag)..head : frozen' = [frozen EXCEPT ![Stage] = h]
    /\ pc' = "jobs"
    /\ UNCHANGED <<chain, net, subs, pending, recHead, blocked, latest, dirty, seen, work, cursor,
                   boot, job, target, cover, gaps, stored, feature, marker, faults>>

\* _plan(): a job per missing filter whose base is not above the frozen head.
PlanJobs ==
    /\ pc = "jobs"
    /\ LET H == frozen[Stage]
           new == {k \in Missing : Base(k) <= H}
       IN /\ job' = [job EXCEPT ![Stage] = [k \in Kinds |->
                       IF k \in new /\ @[k] = NoJob
                       THEN [first |-> Base(k), next |-> Base(k), last |-> UpTo(k, H)] ELSE @[k]]]
          /\ boot' = [k \in Kinds |-> IF k \in new /\ boot[k] = "required" THEN "in_progress"
                                      ELSE boot[k]]
    /\ pc' = "proof"
    /\ UNCHANGED <<chain, net, subs, pending, recHead, blocked, latest, dirty, seen, work, cursor,
                   frozen, target, cover, gaps, stored, feature, marker, faults>>

Current == IF "curve" \in Unproved THEN "curve" ELSE "v4"     \* ORDER BY kind

\* run_stage(), one chunk: drain, query, commit the events ...
Prove ==
    /\ pc = "proof" /\ Unproved # {}
    /\ LET j == job[Stage][Current]
       IN \E to \in j.next..Least(j.last, j.next + Span - 1) :
            /\ Ingest(queue \cup Logs(Current, j.next, to))
            /\ upto' = to
    /\ queue' = {} /\ pc' = "range"
    /\ UNCHANGED <<chain, link, inflight, subs, pending, recHead, blocked, seen, plan, planFirst,
                   proof, target, cover, gaps, feature, faults>>

ProofFails ==
    /\ pc \in {"freeze", "proof"} /\ failures < MaxFailures
    /\ pc = "freeze" => frozen[Stage] = 0
    /\ failures' = failures + 1
    /\ pc' = "finish"
    /\ UNCHANGED <<chain, net, subs, pending, recHead, blocked, latest, dirty, seen, work, proof,
                   target, cover, gaps, stored, feature, marker, losses, crashes>>

\* ... then the range and the job in one transaction.
CommitRange ==
    /\ pc = "range"
    /\ job' = [job EXCEPT ![Stage][Current].next = upto + 1]
    /\ upto' = 0
    /\ Ingest(queue) /\ queue' = {}
    /\ pc' = IF Unproved = {Current} /\ upto = job[Stage][Current].last THEN "promote" ELSE "finish"
    /\ UNCHANGED <<chain, link, inflight, subs, pending, recHead, blocked, seen, plan, planFirst,
                   cursor, boot, frozen, target, cover, gaps, feature, faults>>

\* A stage without jobs is never complete; a finished one is promoted again.
NothingToProve ==
    /\ pc = "proof" /\ Unproved = {}
    /\ pc' = IF Planned = {} THEN "finish" ELSE "promote"
    /\ UNCHANGED <<chain, net, subs, pending, recHead, blocked, latest, dirty, seen, work, proof,
                   target, cover, gaps, stored, feature, marker, faults>>

\* bootstrap_missing(): what the worker takes over from a stage that is complete.
Bootstrapped(H) == latest' = Greatest(latest, H) /\ dirty' = TRUE /\ recHead' = 0

\* promote(): cursors, bootstrap rows, gaps and coverage move in one transaction.
\* Each job closes the outage gaps that begin in its own range and end before the
\* frozen head.
Promote ==
    /\ pc = "promote" /\ ~Expired
    /\ LET H  == frozen[Stage]
           J  == [k \in Planned |-> job[Stage][k]]
           gs == {g \in gaps : \A k \in Planned :
                    /\ ~(g.reason = BootstrapRequired(k) /\ g.first = J[k].first)
                    /\ ~(/\ g.reason \in {"ws_gap", "reconnect"}
                         /\ g.first \in J[k].first..J[k].last
                         /\ g.end <= At(H))}
           bt == [k \in Kinds |-> IF k \in Planned THEN "complete" ELSE boot[k]]
           cs == covStart \/ \E k \in Planned : J[k].first = Launch
           ce == Greatest(covEnd, Least(At(EndBlock), At(H)))
       IN /\ cursor' = [k \in Kinds |-> IF k \in Planned THEN Greatest(cursor[k], J[k].last)
                                        ELSE cursor[k]]
          /\ gaps' = gs /\ boot' = bt /\ covStart' = cs /\ covEnd' = ce
          /\ feature' = Rebuilt(feature, Now, gs, bt, cs, ce)
          /\ Bootstrapped(H)
    /\ pc' = "finish"
    /\ UNCHANGED <<chain, net, subs, pending, blocked, seen, work, frozen, job, target, lcb,
                   connectedOnce, stored, marker, faults>>

\* active_only: an expired target keeps its proof and gets no cursor.
PromoteTooLate ==
    /\ pc = "promote" /\ Expired
    /\ pc' = "finish"
    /\ UNCHANGED <<chain, net, subs, pending, recHead, blocked, latest, dirty, seen, work, proof,
                   target, cover, gaps, stored, feature, marker, faults>>

Worker ==
    \/ Start \/ Connect \/ NoticeLoss \/ Backoff
    \/ Tick \/ Expire \/ Discover \/ Learn \/ Ensure \/ Subscribe \/ Drain \/ Finish
    \/ ReadHead \/ Plan \/ PlanRefused \/ Fetch \/ Save \/ Recovered
    \/ Freeze \/ PlanJobs \/ Prove \/ CommitRange \/ NothingToProve \/ Promote \/ PromoteTooLate

Fault == LinkDies \/ ConnectFails \/ Crash \/ HeadFails \/ FetchFails \/ ProofFails

Next == Mine \/ BaseLearns \/ Deliver \/ Worker \/ Fault

Spec == Init /\ [][Next]_vars
FairSpec == Spec /\ SF_vars(Mine) /\ SF_vars(BaseLearns) /\ SF_vars(Deliver) /\ WF_vars(Worker)

-----------------------------------------------------------------------------

\* The trades of the filters that have a bootstrap row.
Watched  == {t \in InWindow(mined) : boot[t.kind] # "none"}
\* A cursor is a proof: every trade of the filter from its base up to the cursor is
\* stored, whatever crashed, failed or was lost on the way.
CursorProved ==
    \A k \in Kinds : \A t \in InWindow(mined) :
        (t.kind = k /\ t.block <= cursor[k]) => t \in stored

\* A feature row that says "complete" counts every trade up to its cutoff of the
\* filters the worker knows the target needs.
FeatureTruth ==
    \A w \in Windows : feature[w] = "complete" =>
        {t \in Watched : t.block <= w} \subseteq stored

\* An outage gap closes only when every watched trade inside it is stored or its
\* notice is on its way (or died with a socket whose loss is still to be recorded):
\* closing a gap is the step that turns "partial" rows into "complete" ones.
GapsCloseByProof ==
    [][\A g \in gaps \ gaps' : g.reason \in {"ws_gap", "reconnect"} =>
          \/ link = "dead"
          \/ \A t \in Watched' : At(t.block) \in g.start..g.end
                                => t \in stored' \cup queue' \cup inflight']_vars

\* A missing trade that the coverage mark has passed is never silent: a gap that
\* starts no later than the trade stays open until it is stored.
MissingIsVisible ==
    \A t \in Watched \ stored :
        (tracked /\ At(t.block) <= covEnd) => \E g \in gaps : g.start <= At(t.block)

\* Every tracked target is retired: no gap, proof or recovery that cannot finish
\* keeps it active for ever.
Retires == tracked ~> status # "active"
=============================================================================
