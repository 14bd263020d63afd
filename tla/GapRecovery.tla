---------------------------- MODULE GapRecovery ----------------------------
(***************************************************************************)
(* The debts of one graduated tracking target inside a collection epoch:   *)
(* every open gap row is an obligation that the worker proves one chunk    *)
(* per tick (app/flow_gap_recovery.py), against a frozen head, or, when    *)
(* the target has expired (app/flow_expired_recovery.py), between bounds   *)
(* an operator enrolled.  Proof committed elsewhere is reused as islands.  *)
(* The contracts of a research segment are in Activation.                  *)
(*                                                                         *)
(* Abstractions.  Every block holds one trade of every filter, so a block  *)
(* read without being stored is always a loss.  v4 and hook filters share  *)
(* one kind "v4".  Block b has timestamp 2*b and the clock lies between    *)
(* two blocks.  The target's bootstraps are complete and its lifecycle     *)
(* does not change: FlowCollector models both.  A lost connection and a    *)
(* dead process are the same here: the tick under way ends, blocks pass    *)
(* unseen, and the way back opens a gap.  Retry timers are                 *)
(* dropped, and a chunk may end early because LogRangeError halves spans.  *)
(***************************************************************************)
EXTENDS Integers, Sequences, FiniteSets, FiniteSetsExt

CONSTANTS
    Grad,         \* the block of the graduation; launch is block 1
    EndBlock,     \* the last block inside the tracking window
    MaxTip,       \* bound: blocks the chain mines
    MaxGaps,      \* bound: gap rows
    Span,         \* SHADOW_SPAN
    DebtMax,      \* RECOVERY_MAX_BLOCKS, and the most a debt may leave unproved
    Overlap,      \* blocks read again behind a cursor (2)
    HttpLag,      \* how far the HTTP head may trail the chain
    MaxRounds,    \* bound: frozen heads of the offline drain
    FirstHead     \* the chain's head when the worker has caught up for the first time

ASSUME WindowAssumption ==
    /\ {Grad, EndBlock, MaxTip, MaxGaps, Span, DebtMax} \subseteq Nat \ {0}
    /\ {Overlap, HttpLag, MaxRounds} \subseteq Nat
    /\ Grad < EndBlock /\ EndBlock <= MaxTip
    /\ FirstHead \in Grad..EndBlock

Filters   == {"curve", "v4"}
Ids       == 1..MaxGaps
Heights   == 1..MaxTip
Stages    == ({"live", "expired"} \X Ids) \cup ({"drain"} \X (1..MaxRounds))
Trades    == Filters \X Heights

VARIABLES
    tip, up, lcb, over,                  \* the chain; the worker, the last block it saw; the status
    events, cursor,                      \* the feature ledger and the recovery cursors
    gaps, debt, bounds,                  \* flow_gaps, gap_recovery:<id>, expired_gap_bounds:<id>
    stage,                               \* flow_shadow_meta, _jobs and _ranges by stage
    work                                 \* the tick under way: one chunk of one stage

ledger == <<events, cursor>>
debts  == <<gaps, debt, bounds>>
gvars  == <<tip, up, lcb, over, ledger, debts, stage, work>>

Least(a, b)    == IF a < b THEN a ELSE b
Greatest(a, b) == IF a > b THEN a ELSE b
At(b) == 2 * b
Now   == 2 * tip + 1

\* expired(): the tracking window is over.
Expired   == tip > EndBlock
WindowEnd == At(EndBlock) + 1

\* periods(): the curve ends and the pool begins at the graduation.
From(k)  == IF k = "v4" THEN Grad ELSE 1
To(k, h) == IF k = "curve" THEN Least(h, Grad) ELSE h

NoGap     == [first |-> 0, end |-> 0, open |-> FALSE]
NoJob     == [from |-> 0, upto |-> 0, next |-> 0, rows |-> {}]
NoStage   == [head |-> 0, at |-> 0, job |-> [k \in Filters |-> NoJob]]
Idle      == [phase |-> "idle", s |-> <<"live", 1>>, kind |-> "curve", from |-> 0, to |-> 0]
\* "queued" stands for queued, recovering and budget_wait alike: they differ in when to retry.
States    == {"none", "queued", "operator_blocked", "resolved"}

OpenGaps == {g \in Ids : gaps[g].open}
Fresh    == {g \in Ids : gaps[g] = NoGap}

(***************************************************************************)
(* Rows of proof.                                                          *)
(***************************************************************************)
Covers(rows) == UNION {r[1]..r[2] : r \in rows}

\* The maximal runs of a set of blocks: what merging adjacent ranges leaves.
Runs(B) == {r \in B \X B : /\ r[1] <= r[2] /\ r[1]..r[2] \subseteq B
                             /\ r[1] - 1 \notin B /\ r[2] + 1 \notin B}

\* compatible_ranges(): committed rows of any stage, clipped, behind the verified mark.
Compatible(k, from, upto) ==
    Covers(UNION {{r \in stage[s].job[k].rows : r[2] < stage[s].job[k].next} : s \in Stages})
        \cap (from..upto)

\* _verify_job(): the rows, in order, touch exactly and end at the upper bound.
Whole(j) ==
    /\ j.next = j.upto + 1
    /\ Covers(j.rows) = j.from..j.upto
    /\ \A r, q \in j.rows : r # q => (r[1]..r[2]) \cap (q[1]..q[2]) = {}

Planned(s)  == {k \in Filters : stage[s].job[k] # NoJob}
Holes(j)    == (j.next..j.upto) \ Covers(j.rows)
Complete(s, job) == \A k \in Planned(s) : job[k].next > job[k].upto

\* run_stage() skips rows that are there, up to the first hole or past the end.
Walked(j) == [j EXCEPT !.next = IF Holes(j) = {} THEN j.upto + 1 ELSE Min(Holes(j))]

\* Jobs run in the order of their kinds; the second is reached once the first is done.
WalkedAll(job) ==
    [k \in Filters |-> IF job[k] = NoJob \/ (k = "v4" /\ job["curve"] # NoJob /\ Holes(job["curve"]) # {})
                     THEN job[k] ELSE Walked(job[k])]

\* The chunks the next eth_getLogs may ask for: never across an island.
Chunks(job, k) ==
    LET j == job[k] IN
    {c \in {j.next} \X (j.next..Least(j.upto, j.next + Span - 1)) : c[1]..c[2] \subseteq Holes(j)}

NextKind(job) == IF job["curve"] # NoJob /\ Holes(job["curve"]) # {} THEN "curve" ELSE "v4"
Done(job)     == \A k \in Filters : job[k] = NoJob \/ Holes(job[k]) = {}

\* run_stage over seeded rows: ask for the next chunk, or go on to verify.
RunStage(s, at, job) ==
    /\ stage' = [stage EXCEPT ![s] = [head |-> at[1], at |-> at[2], job |-> WalkedAll(job)]]
    /\ IF Done(job)
       THEN work' = [Idle EXCEPT !.phase = "verify", !.s = s]
       ELSE \E c \in Chunks(WalkedAll(job), NextKind(job)) :
                work' = [phase |-> "ask", s |-> s, kind |-> NextKind(job),
                         from |-> c[1], to |-> c[2]]

(***************************************************************************)
(* The world.                                                              *)
(***************************************************************************)
Tracked(h) == UNION {{k} \X (From(k)..To(k, Least(h, EndBlock))) : k \in Filters}
Happened   == Tracked(tip)

GInit ==
    /\ tip = FirstHead /\ up = TRUE /\ lcb = tip
    /\ over = FALSE
    /\ events = Tracked(tip)
    /\ cursor = [k \in Filters |-> To(k, tip)]
    /\ gaps = [g \in Ids |-> NoGap] /\ debt = [g \in Ids |-> "none"] /\ bounds = [g \in Ids |-> 0]
    /\ stage = [s \in Stages |-> NoStage]
    /\ work = Idle

NewBlock ==
    /\ tip < MaxTip
    /\ tip' = tip + 1
    /\ IF up THEN events' = events \cup (Tracked(tip + 1) \ Tracked(tip)) /\ lcb' = tip + 1
             ELSE UNCHANGED <<events, lcb>>
    /\ UNCHANGED <<up, over, cursor, debts, stage, work>>

Stop ==
    /\ up
    /\ Fresh # {}
    /\ up' = FALSE /\ work' = Idle
    /\ UNCHANGED <<tip, lcb, over, ledger, debts, stage>>

\* FlowDB.gap: the row and its queued obligation, in one transaction.
AddGap(g, first, end) ==
    /\ gaps' = [gaps EXCEPT ![g] = [first |-> first, end |-> end, open |-> TRUE]]
    /\ debt' = [debt EXCEPT ![g] = "queued"]
    /\ UNCHANGED bounds

\* The worker is back: what it did not see of a target it still tracks is a gap,
\* from the last block it saw to the time of its return.
Uncertain == AddGap(Min(Fresh), lcb, Least(Now, WindowEnd))

Return ==
    /\ ~up /\ work = Idle                 \* flow_writer_lock(): one writer
    /\ up' = TRUE /\ lcb' = tip
    /\ IF over THEN UNCHANGED debts ELSE Uncertain
    /\ UNCHANGED <<tip, over, ledger, stage, work>>

Working == up /\ work = Idle

\* The target leaves the live set.
Expire ==
    /\ Working /\ Expired /\ ~over
    /\ over' = TRUE
    /\ UNCHANGED <<tip, up, lcb, ledger, debts, stage, work>>

Heads == {h \in (tip - HttpLag)..tip : h >= Grad}

ReadFrom(k) == Greatest(From(k), cursor[k] - Overlap)

(***************************************************************************)
(* A live target's gap: proved up to a frozen head.                        *)
(***************************************************************************)
Live(g)  == <<"live", g>>
Plain(g) == gaps[g].open /\ ~Expired /\ debt[g] # "operator_blocked"

\* historical_start(): behind the cursor, or at the oldest open gap.
StartAt(k) == Least(ReadFrom(k), Greatest(From(k), Min({gaps[g].first : g \in OpenGaps})))

\* A complete proof that ends after the uncertain end, and covers every filter up
\* to its own end, gives the head.
Candidates(g) ==
    {<<stage[p[1]].job[p[2]].upto, stage[p[1]].at>> : p \in
        {p \in Stages \X Filters : LET j == stage[p[1]].job[p[2]] IN
            j # NoJob /\ j.next > j.upto /\ At(stage[p[1]].at) >= gaps[g].end}}
Proves(g, u) ==
    /\ u >= Max({gaps[g].first} \cup {From(k) : k \in Filters})
    /\ \A k \in Filters : LET a == Greatest(From(k), gaps[g].first) IN
                        Compatible(k, a, To(k, u)) = a..To(k, u)
Reused(g) == LET C == {c \in Candidates(g) : Proves(g, c[1])} IN
             {c \in C : \A d \in C : c[2] <= d[2]}

PinHead(g) ==
    /\ Working /\ Plain(g) /\ stage[Live(g)].head = 0
    /\ \E c \in IF Reused(g) # {} THEN Reused(g) ELSE {<<h, h>> : h \in Heads} :
          stage' = [stage EXCEPT ![Live(g)].head = c[1], ![Live(g)].at = c[2]]
    /\ UNCHANGED <<tip, up, lcb, over, ledger, debts, work>>

\* CursorBootstrap._plan: a job keeps the bounds of its first planning.
Plan(g) ==
    [k \in Filters |->
        LET h == stage[Live(g)].head  j == stage[Live(g)].job[k] IN
        IF j # NoJob THEN j
        ELSE IF StartAt(k) > To(k, h) THEN NoJob
        ELSE [from |-> StartAt(k), upto |-> To(k, h), next |-> StartAt(k), rows |-> {}]]

PlanRefused(g) ==
    LET st == stage[Live(g)] IN
    \/ \E k \in Filters : cursor[k] > To(k, st.head) + Overlap
    \/ \E k \in Planned(Live(g)) : st.job[k].from > StartAt(k)
    \/ At(st.at) < gaps[g].end

\* recover() copies what is proved elsewhere, merged, into the stage's own rows.
Islands(k, j) == IF j = NoJob THEN {} ELSE Runs(Compatible(k, j.from, j.upto))
Seeded(job) == [k \in Filters |-> [job[k] EXCEPT !.rows = @ \cup Islands(k, job[k])]]

Unproved(job) ==
    Cardinality(UNION {{<<k, b>> : b \in (job[k].from..job[k].upto) \ Compatible(k, job[k].from, job[k].upto)}
                       : k \in {x \in Filters : job[x] # NoJob}})

Block(g) == debt' = [debt EXCEPT ![g] = "operator_blocked"]

Tick(g) ==
    /\ Working /\ Plain(g) /\ stage[Live(g)].head # 0
    /\ IF PlanRefused(g) THEN Block(g) /\ UNCHANGED <<stage, work>>
       ELSE LET st == stage[Live(g)]  job == Seeded(Plan(g)) IN
            IF Unproved(Plan(g)) > DebtMax
            THEN Block(g) /\ stage' = [stage EXCEPT ![Live(g)].job = job] /\ UNCHANGED work
            ELSE RunStage(Live(g), <<st.head, st.at>>, job) /\ UNCHANGED debt
    /\ UNCHANGED <<tip, up, lcb, over, ledger, gaps, bounds>>

Promoted(s) == [k \in Filters |-> IF k \in Planned(s) THEN Greatest(cursor[k], stage[s].job[k].upto)
                                ELSE cursor[k]]

Verified(s, required) == Planned(s) = required /\ \A k \in required : Whole(stage[s].job[k])

Resolve(g) ==
    /\ up /\ work.phase = "verify" /\ work.s = Live(g)
    /\ IF Verified(Live(g), Filters)
       THEN /\ gaps' = [gaps EXCEPT ![g].open = FALSE]
            /\ debt' = [debt EXCEPT ![g] = "resolved"]
            /\ cursor' = Promoted(Live(g))
       ELSE Block(g) /\ UNCHANGED <<gaps, cursor>>
    /\ work' = Idle
    /\ UNCHANGED <<tip, up, lcb, over, events, bounds, stage>>

(***************************************************************************)
(* An expired target's gap: proved between bounds an operator enrolled.    *)
(***************************************************************************)
Forensic(g) == <<"expired", g>>
Required(g) == {k \in Filters : Greatest(gaps[g].first, From(k)) <= To(k, bounds[g])}

\* obligations(): an expired gap without bounds is nobody's work.
BlockExpired(g) ==
    /\ Working /\ Expired /\ gaps[g].open /\ bounds[g] = 0 /\ debt[g] # "operator_blocked"
    /\ Block(g)
    /\ UNCHANGED <<tip, up, lcb, over, ledger, gaps, bounds, stage, work>>

\* retain_verified_bounds(): two adjacent headers bracket the end; kept for good.
Bracket(g, b) == At(b) <= Least(gaps[g].end, WindowEnd)
                 /\ Least(gaps[g].end, WindowEnd) < At(b + 1) /\ b + 1 <= tip

Enroll(g) ==
    /\ Expired /\ gaps[g].open /\ bounds[g] = 0
    /\ \E b \in Heights : /\ Bracket(g, b) /\ gaps[g].first <= b
                          /\ bounds' = [bounds EXCEPT ![g] = b]
    /\ debt' = [debt EXCEPT ![g] = "queued"]
    /\ UNCHANGED <<tip, up, lcb, over, ledger, gaps, stage, work>>

FixedPlan(g) ==
    [k \in Filters |->
        LET j == stage[Forensic(g)].job[k]  a == Greatest(gaps[g].first, From(k)) IN
        IF j # NoJob \/ k \notin Required(g) THEN j
        ELSE [from |-> a, upto |-> To(k, bounds[g]), next |-> a, rows |-> {}]]

\* Here only the holes of the stage's own rows are filled from other proof.
SeededHoles(job) ==
    [k \in Filters |-> IF job[k] = NoJob THEN NoJob ELSE
        [job[k] EXCEPT !.rows = @ \cup Runs(Compatible(k, job[k].from, job[k].upto) \ Covers(@))]]

FixedTick(g) ==
    /\ Working /\ Expired /\ gaps[g].open /\ bounds[g] # 0 /\ debt[g] # "operator_blocked"
    /\ RunStage(Forensic(g), <<bounds[g], bounds[g]>>, SeededHoles(FixedPlan(g)))
    /\ UNCHANGED <<tip, up, lcb, over, ledger, debts>>

\* An expired target gets its gap resolved and nothing else.
ResolveFixed(g) ==
    /\ up /\ work.phase = "verify" /\ work.s = Forensic(g)
    /\ IF Verified(Forensic(g), Required(g))
       THEN /\ gaps' = [gaps EXCEPT ![g].open = FALSE]
            /\ debt' = [debt EXCEPT ![g] = "resolved"]
       ELSE Block(g) /\ UNCHANGED gaps
    /\ work' = Idle
    /\ UNCHANGED <<tip, up, lcb, over, ledger, bounds, stage>>

(***************************************************************************)
(* The chunk under way, for every stage of the worker.                     *)
(***************************************************************************)
FetchedShort == {work.kind} \X (work.from..(work.to - 1))    \* mutant: the last block is not read
Fetched == {work.kind} \X (work.from..work.to)

\* A budget wait or a provider's refusal: the debt keeps its head and its rows.
Pause ==
    /\ up /\ work.phase = "ask"
    /\ work' = Idle
    /\ UNCHANGED <<tip, up, lcb, over, ledger, debts, stage>>

\* The events of a chunk are committed before the row that proves it.
Answer ==
    /\ work.phase = "ask"
    /\ events' = events \cup Fetched
    /\ work' = [work EXCEPT !.phase = "stored"]
    /\ UNCHANGED <<tip, up, lcb, over, cursor, debts, stage>>

WithRow == [stage[work.s].job EXCEPT ![work.kind].rows = @ \cup {<<work.from, work.to>>},
                                     ![work.kind].next = work.to + 1]

\* One chunk per tick: what is left waits for the next one.
CommitRow ==
    /\ work.phase = "stored"
    /\ stage' = [stage EXCEPT ![work.s].job = WalkedAll(WithRow)]
    /\ work' = IF Done(WithRow) THEN [work EXCEPT !.phase = "verify"] ELSE Idle
    /\ UNCHANGED <<tip, up, lcb, over, ledger, debts>>

GNext ==
    \/ NewBlock \/ Stop \/ Return \/ Expire
    \/ Pause \/ Answer \/ CommitRow
    \/ \E g \in Ids : PinHead(g) \/ Tick(g) \/ Resolve(g) \/ BlockExpired(g) \/ Enroll(g)
                      \/ FixedTick(g) \/ ResolveFixed(g)

GSpec == GInit /\ [][GNext]_gvars

(***************************************************************************)
(* Properties.                                                             *)
(***************************************************************************)
\* current_health(), for a connected worker: no gap and no unfinished job.
Healthy == up /\ OpenGaps = {} /\ \A s \in Stages : Complete(s, stage[s].job)

\* A healthy report is true: every trade of the tracking window so far is stored.
HealthyMeansWhole == Healthy => Happened \subseteq events

\* What is claimed: the blocks up to a cursor, less what a gap still covers, and what
\* a resolved gap stood for.
Of(g)      == {b \in gaps[g].first..MaxTip : At(b) <= gaps[g].end}
Doubted    == UNION {Of(g) : g \in OpenGaps}
ByCursor   == UNION {{k} \X ((1..cursor[k]) \ Doubted) : k \in Filters}
ByGap      == Filters \X UNION {Of(g) : g \in Ids \ (OpenGaps \cup Fresh)}
Claimed    == (ByCursor \cup ByGap) \cap Happened

Promise == INSTANCE CoveragePromise
               WITH happened <- Happened, stored <- events, claimed <- Claimed

\* Whatever the interleaving, only stored trades are ever claimed.
KeepsPromise == Promise!Spec
============================================================================
