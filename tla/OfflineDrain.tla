---------------------------- MODULE OfflineDrain ----------------------------
(***************************************************************************)
(* The offline drain (app/flow_offline_drain.py): with the worker stopped  *)
(* and its writer lock held, an operator proves what the worker would have *)
(* to read, up to a frozen head, moves the cursors, closes the gaps its    *)
(* proof covers, and repeats with a fresh head until a restart is safe.    *)
(* Its state is a manifest in the store: a drain that breaks off is run    *)
(* again and goes on with the head it froze.  Composed with the worker's   *)
(* own recovery of the same debts, over the same store.                    *)
(*                                                                         *)
(* A generation belongs to one stopped worker process: after a restart of  *)
(* the worker a new generation begins with a head of its own.  The service *)
(* guard before every statement is the guard ~up of each action.           *)
(***************************************************************************)
EXTENDS GapRecovery

VARIABLES
    round,     \* the rounds frozen so far, over all generations
    pendingd,  \* the last round's head is frozen and not promoted
    safe       \* the last assessment: restart_safe_now

drain == <<round, pendingd, safe>>
dvars == <<gvars, drain>>

Offline == ~up /\ ~Expired /\ work = Idle
Drain   == <<"drain", round>>

DInit == GInit /\ round = 0 /\ pendingd = FALSE /\ safe = FALSE

\* A new round: the head and the time of its header, kept before anything is read.
FreezeHead ==
    /\ Offline /\ ~pendingd /\ ~safe /\ round < MaxRounds
    /\ \E h \in Heads : stage' = [stage EXCEPT ![<<"drain", round + 1>>].head = h,
                                               ![<<"drain", round + 1>>].at = h]
    /\ round' = round + 1 /\ pendingd' = TRUE
    /\ UNCHANGED <<tip, up, lcb, over, ledger, debts, work, safe>>

NeedsWork(k, h) == OpenGaps # {} \/ To(k, h) - ReadFrom(k) + 1 > DebtMax

\* start_block(): after the cursor, or at the oldest open gap.
DrainFrom(k) ==
    Min({Greatest(From(k), cursor[k] + 1)} \cup {Greatest(From(k), gaps[g].first) : g \in OpenGaps})

\* plan(): what is proved elsewhere is taken over as far as it is contiguous.
Reach(k, from, upto) ==
    Max({from - 1} \cup {b \in from..upto : from..b \subseteq Compatible(k, from, upto)})

DrainPlan ==
    [k \in Filters |->
        LET h == stage[Drain].head  a == DrainFrom(k)  z == To(k, h)  c == Reach(k, a, z) IN
        IF stage[Drain].job[k] # NoJob THEN stage[Drain].job[k]
        ELSE IF ~NeedsWork(k, h) \/ a > z THEN NoJob
        ELSE [from |-> a, upto |-> z, next |-> c + 1, rows |-> IF c < a THEN {} ELSE {<<a, c>>}]]

\* A round without jobs is done; otherwise its chunks are asked for, one by one.
DrainTick ==
    /\ Offline /\ pendingd
    /\ IF DrainPlan = [k \in Filters |-> NoJob]
       THEN pendingd' = FALSE /\ UNCHANGED <<stage, work>>
       ELSE RunStage(Drain, <<stage[Drain].head, stage[Drain].at>>, DrainPlan) /\ UNCHANGED pendingd
    /\ UNCHANGED <<tip, up, lcb, over, ledger, debts, round, safe>>

Draining == ~up /\ work # Idle

\* The process ends, by a signal, for want of budget or because the target expired.
BreakOff ==
    /\ Draining
    /\ work' = Idle
    /\ UNCHANGED <<tip, up, lcb, over, ledger, debts, stage, drain>>

\* promote_offline(): a gap is closed when it ended before the head's time and every
\* filter is covered from the gap to the head by rows of any stage.
EndsLater(g)  == gaps[g].first <= stage[Drain].head                 \* mutant: its end is not asked
BeforeHead(g) == gaps[g].first <= stage[Drain].head /\ gaps[g].end <= At(stage[Drain].at)
CoveredAll(g) ==
    \A k \in Filters : LET a == Greatest(From(k), gaps[g].first)  z == To(k, stage[Drain].head)
                      IN  Reach(k, a, z) >= z

PromoteDrain ==
    /\ Draining /\ ~Expired /\ work.phase = "verify"
    /\ \A k \in Planned(Drain) : Whole(stage[Drain].job[k])
    /\ gaps' = [g \in Ids |-> IF g \in OpenGaps /\ BeforeHead(g) /\ CoveredAll(g)
                              THEN [gaps[g] EXCEPT !.open = FALSE] ELSE gaps[g]]
    /\ cursor' = Promoted(Drain)
    /\ pendingd' = FALSE /\ work' = Idle
    /\ UNCHANGED <<tip, up, lcb, over, events, debt, bounds, stage, round, safe>>

\* assessment(): against a fresh head, may the worker be started?
Lag(k, h) == To(k, h) - cursor[k]
Assess ==
    /\ Offline /\ round > 0 /\ ~pendingd /\ ~safe
    /\ \E h \in Heads :
          /\ OpenGaps = {}
          /\ \A k \in Filters :
                /\ cursor[k] <= h + Overlap
                /\ (k = "curve" \/ Lag(k, h) >= 0) /\ Lag(k, h) <= DebtMax
                /\ (k = "curve" /\ Lag(k, h) <= 0) \/ To(k, h) - ReadFrom(k) + 1 <= DebtMax
    /\ safe' = TRUE
    /\ UNCHANGED <<gvars, round, pendingd>>

\* The worker comes back; a broken-off generation belongs to a process that is gone.
Restart == Return /\ pendingd' = FALSE /\ safe' = FALSE /\ UNCHANGED round

OfWorker ==
    \/ NewBlock \/ Stop \/ Expire
    \/ Pause
    \/ \E g \in Ids : PinHead(g) \/ Tick(g) \/ Resolve(g) \/ BlockExpired(g) \/ Enroll(g)
                      \/ FixedTick(g) \/ ResolveFixed(g)

DNext ==
    \/ OfWorker /\ UNCHANGED drain
    \/ (Answer \/ CommitRow) /\ (up \/ ~Expired) /\ UNCHANGED drain
    \/ Restart \/ FreezeHead \/ DrainTick \/ BreakOff \/ PromoteDrain \/ Assess

DSpec == DInit /\ [][DNext]_dvars

\* Done by the worker, by the drain or by both in turns: what a restart declared safe
\* will not read again is stored.
SafeIsStored ==
    safe => \A k \in Filters, b \in Heights :
        <<k, b>> \in Happened /\ (b <= cursor[k] \/ b < lcb) => <<k, b>> \in events
=============================================================================
