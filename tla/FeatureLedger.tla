--------------------------- MODULE FeatureLedger ---------------------------
(***************************************************************************)
(* The stored trades of the flow worker under reorganisations, the feature *)
(* rows computed from them and the point-in-time ledger of versions        *)
(* (app/flow_data.py, FlowWorker.ingest and finalize).  Split routing,     *)
(* neither epoch nor switch, no graduation, no expiry: FlowCollector has   *)
(* those, on a chain without forks, and the failing calls: here a call is  *)
(* answered and the budget never makes one wait.                           *)
(*                                                                         *)
(* Abstractions.  Block b has timestamp 2*b in every fork and the clock    *)
(* lies between two blocks.  Each target has one cutoff.  A trade is an    *)
(* identity (transaction and log index); all trades have the same actors,  *)
(* so every earlier trade of another target is prior activity.  Metrics    *)
(* are the set of trades they count.  A proof is one getLogs call; its     *)
(* range row, cursor and gaps are one commit (FlowCollector splits them).  *)
(***************************************************************************)
EXTENDS Integers, Sequences, FiniteSets, SequencesExt, FiniteSetsExt

CONSTANTS
    Launches, Trades, None,
    Owner,        \* the target a trade belongs to
    Home,         \* the block that first includes a trade
    Start, Cut, End,  \* blocks: launch, feature cutoff and end of the window
    Born,         \* targets whose tracking began after the ledger did
    Lag,          \* a live socket delivers within this many blocks (the 3 s of finalize)
    Overlap,      \* blocks an ordinary recovery reads again (2)
    Depth,        \* bound: blocks a reorganisation replaces
    MaxBlock, MaxReorgs, MaxStops  \* bounds; a stop is a lost connection or a crash

ASSUME LedgerAssumption ==
    /\ Launches \subseteq Nat /\ Launches # {} /\ IsFiniteSet(Launches) /\ Born \subseteq Launches
    /\ IsFiniteSet(Trades)
    /\ Owner \in [Trades -> Launches]
    /\ Start \in [Launches -> 1..MaxBlock] /\ Home \in [Trades -> 1..MaxBlock]
    /\ Cut \in [Launches -> Nat] /\ End \in [Launches -> Nat]
    /\ \A l \in Launches : Start[l] <= Cut[l] /\ Cut[l] <= End[l]
    /\ {Lag, Overlap, Depth, MaxBlock} \subseteq Nat \ {0}
    /\ Depth <= Overlap + 1
    /\ {MaxReorgs, MaxStops} \subseteq Nat

\* Rows of flow_events, flow_features and flow_feature_versions.
Events   == [block : Nat \ {0}, hash : Nat, removed : BOOLEAN]
Rows     == [own : SUBSET Trades, prior : SUBSET Trades,
             quality : {"complete", "partial", "unavailable"}, early : BOOLEAN]
Versions == [own : SUBSET Trades, quality : {"complete", "partial", "unavailable"}, ready : BOOLEAN]

\* No row is a missing one.
ASSUME NoneAssumption == None \notin Events \cup Rows \cup Versions

VARIABLES
    head, hash, loc,              \* the chain: version of each block, block of each trade
    wire, unheard,                \* notices on the socket; trades whose removal was lost with it
    up, pc, after, queue, todo, step, hit, turn, reading, upto,  \* the worker's control
    headers, dirty, pending, latest,                             \* the worker's memory
    stored, marker, gaps, boot, frozen, cursor, covStart, covEnd, lcb, row, version,  \* the database
    reorgs, stops

chain  == <<head, hash, loc>>
work   == <<todo, step, hit>>
ask    == <<turn, reading, upto>>
memory == <<headers, dirty, pending, latest>>
events == <<stored, marker>>
proofs == <<boot, frozen, cursor, covStart>>
cover  == <<covEnd, lcb>>
ledger == <<gaps, row, version>>
faults == <<reorgs, stops>>
vars   == <<chain, wire, unheard, up, pc, after, queue, work, ask, memory, events, proofs,
            cover, ledger, faults>>

Blocks == 1..MaxBlock
At(b)  == 2 * b
Now    == 2 * head + 1
Sure   == 2 * (head - Lag) + 1
Least(a, b) == IF a < b THEN a ELSE b

Notice(x, b, v, gone) == [trade |-> x, block |-> b, hash |-> v, removed |-> gone, born |-> head]
Notices(T, where, v, gone) ==
    LET order == SetToSeq(T)
    IN  [i \in 1..Cardinality(T) |-> Notice(order[i], where[order[i]], v[where[order[i]]], gone)]
Mined(T, where, v) == Notices(T, where, v, FALSE)
Withdrawn(T) == Notices(T, loc, hash, TRUE)

InWindow(l, b) == Start[l] <= b /\ b <= End[l]

(***************************************************************************)
(* Feature rows and versions.                                              *)
(***************************************************************************)

Live(s, x) == s[x] # None /\ ~s[x].removed

\* _features(): the trades a row counts, and the earlier activity of its actors.
Own(s, l) == {x \in Trades : Owner[x] = l /\ Live(s, x) /\ s[x].block \in Start[l]..Cut[l]}
Prior(s, l) == IF Own(s, l) = {} THEN {}
               ELSE {x \in Trades : Owner[x] # l /\ Live(s, x) /\ s[x].block < Cut[l]}

Against(gs, l) == {g \in gs : g.launch = l /\ g.start <= At(Cut[l]) /\ g.end >= At(Start[l])}

Quality(l, gs, bt, cs, ce) ==
    IF Against(gs, l) = {} /\ bt[l] = "complete" /\ cs[l] /\ ce[l] >= At(Cut[l]) THEN "complete"
    ELSE IF Own(stored, l) = {} THEN "unavailable" ELSE "partial"

\* _append_feature_version(): the ledger keeps the trades of the row itself only.
Versioned(l, r, bt, cu) ==
    IF l \notin Born THEN version[l]
    ELSE [own |-> r.own, quality |-> r.quality,
          ready |-> r.quality = "complete" /\ bt[l] = "complete" /\ cu[l] # 0]

\* rebuild(): row and version are one transaction.  "early" notes a row built inside the
\* buffer that finalize() keeps behind the clock.
Rebuild(l, until, gs, bt, cu, cs, ce) ==
    IF At(Cut[l]) > until THEN UNCHANGED <<row, version>>
    ELSE LET r == [own |-> Own(stored, l), prior |-> Prior(stored, l),
                   quality |-> Quality(l, gs, bt, cs, ce), early |-> At(Cut[l]) > Sure]
         IN  /\ row' = [row EXCEPT ![l] = r]
             /\ version' = [version EXCEPT ![l] = Versioned(l, r, bt, cu)]

Gap(l, reason, start, end, first) ==
    [launch |-> l, reason |-> reason, start |-> start,
     end |-> IF end > start THEN end ELSE start, first |-> first]

\* gap(): the rows it makes partial and their versions are in the same transaction.
Contested(G) == {l \in Launches : row[l] # None /\ \E g \in G : g.launch = l /\ At(Cut[l]) >= g.start}
Partial(l) == [row[l] EXCEPT !.quality = "partial"]
AddGapsSilently(G) ==                                \* mutant: without a version
    /\ gaps' = gaps \cup G
    /\ row' = [l \in Launches |-> IF l \in Contested(G) THEN Partial(l) ELSE row[l]]
    /\ UNCHANGED version
AddGaps(G) ==
    /\ gaps' = gaps \cup G
    /\ row' = [l \in Launches |-> IF l \in Contested(G) THEN Partial(l) ELSE row[l]]
    /\ version' = [l \in Launches |->
          IF l \in Contested(G) THEN Versioned(l, Partial(l), boot, cursor) ELSE version[l]]

Init ==
    /\ head = Max({Start[l] : l \in Launches})
    /\ hash = [b \in Blocks |-> 0]
    /\ loc = [x \in Trades |-> IF Home[x] <= head THEN Home[x] ELSE 0]
    /\ wire = <<>> /\ unheard = {} /\ queue = <<>>
    /\ up = TRUE /\ pc = "sleep" /\ after = "sleep"
    /\ todo = <<>> /\ step = "header" /\ hit = {}
    /\ turn = {} /\ reading = 0 /\ upto = 0
    /\ headers = [b \in Blocks |-> None] /\ dirty = {} /\ pending = Launches /\ latest = 0
    /\ stored = [x \in Trades |-> None] /\ marker = 0
    /\ gaps = {Gap(l, "bootstrap_required", At(Start[l]), 0, Start[l]) : l \in Launches}
    /\ boot = [l \in Launches |-> "required"] /\ frozen = [l \in Launches |-> 0]
    /\ cursor = [l \in Launches |-> 0] /\ covStart = [l \in Launches |-> FALSE]
    /\ covEnd = [l \in Launches |-> 0] /\ lcb = 0
    /\ row = [l \in Launches |-> None] /\ version = [l \in Launches |-> None]
    /\ reorgs = 0 /\ stops = 0

(***************************************************************************)
(* The chain and the socket.  A section without an await sees neither: the *)
(* chain moves, and the socket dies, only while the worker waits.          *)
(***************************************************************************)

Waiting == pc \in {"sleep", "read", "connect", "boot"}
Send(s) == wire' = IF up THEN wire \o s ELSE wire

\* A live socket is never more than Lag blocks behind.
Mine ==
    /\ Waiting /\ head < MaxBlock
    /\ \A i \in 1..Len(wire) : head + 1 - wire[i].born <= Lag
    /\ \E T \in SUBSET {x \in Trades : loc[x] = 0 /\ Home[x] <= head + 1} :
          /\ \A x \in Trades : Home[x] = head + 1 => x \in T
          /\ loc' = [x \in Trades |-> IF x \in T THEN head + 1 ELSE loc[x]]
          /\ Send(Mined(T, loc', hash))
    /\ head' = head + 1
    /\ UNCHANGED <<hash, unheard, up, pc, after, queue, work, ask, memory, events, proofs,
                   cover, ledger, faults>>

\* A reorganisation replaces the blocks from b on: their trades are withdrawn, and
\* each is mined again in a new block or waits for a later one.
Reorg(b) ==
    /\ Waiting /\ reorgs < MaxReorgs
    /\ b > head - Depth /\ b <= head
    /\ LET T == {x \in Trades : loc[x] >= b} IN
       \E again \in [T -> {0} \cup b..head] :
          /\ \A x \in T : again[x] = 0 \/ again[x] >= Start[Owner[x]]
          /\ hash' = [n \in Blocks |-> IF n >= b /\ n <= head THEN hash[n] + 1 ELSE hash[n]]
          /\ loc' = [x \in Trades |-> IF x \in T THEN again[x] ELSE loc[x]]
          /\ Send(Withdrawn(T) \o Mined({x \in T : again[x] # 0}, loc', hash'))
          /\ unheard' = IF up THEN unheard ELSE unheard \cup T
    /\ reorgs' = reorgs + 1
    /\ UNCHANGED <<head, up, pc, after, queue, work, ask, memory, events, proofs, cover, ledger,
                   stops>>

\* read_socket() runs while the worker sleeps or waits for an answer.
Deliver ==
    /\ up /\ pc \in {"sleep", "read"} /\ wire # <<>>
    /\ queue' = Append(queue, [Head(wire) EXCEPT !.born = 0])
    /\ wire' = Tail(wire)
    /\ UNCHANGED <<chain, unheard, up, pc, after, work, ask, memory, events, proofs, cover, ledger,
                   faults>>

Unheard(s) == {s[i].trade : i \in {j \in 1..Len(s) : s[j].removed}}

LinkDies ==
    /\ up /\ pc \in {"sleep", "read"} /\ stops < MaxStops
    /\ up' = FALSE /\ wire' = <<>>
    /\ unheard' = unheard \cup Unheard(wire)
    /\ stops' = stops + 1
    /\ UNCHANGED <<chain, pc, after, queue, work, ask, memory, events, proofs, cover, ledger,
                   reorgs>>

Crash ==
    /\ pc # "boot" /\ stops < MaxStops
    /\ pc' = "boot" /\ after' = "sleep" /\ up' = FALSE
    /\ unheard' = unheard \cup Unheard(wire) \cup Unheard(queue)
                            \cup Unheard(IF step = "removed" THEN Tail(todo) ELSE todo)
    /\ wire' = <<>> /\ queue' = <<>> /\ todo' = <<>> /\ step' = "header" /\ hit' = {}
    /\ turn' = {} /\ reading' = 0 /\ upto' = 0
    /\ headers' = [b \in Blocks |-> None] /\ dirty' = {} /\ pending' = {} /\ latest' = 0
    /\ stops' = stops + 1
    /\ UNCHANGED <<chain, events, proofs, cover, ledger, reorgs>>

(***************************************************************************)
(* FlowWorker.ingest, one commit at a time.                                *)
(***************************************************************************)

\* Handle these notices, then go on there.
Handle(items, there) ==
    /\ todo' = items /\ step' = "header" /\ after' = there
    /\ pc' = IF items = <<>> THEN there ELSE "ingest"

NextItem ==
    /\ todo' = Tail(todo) /\ step' = "header"
    /\ pc' = IF Len(todo) = 1 THEN after ELSE "ingest"

Earlier(t) == IF marker = 0 THEN t ELSE Least(marker, t)
Item == Head(todo)
Target == Owner[Item.trade]
Clashes == headers[Item.block] \notin {None, Item.hash}
Orphans == {x \in Trades : stored[x] # None /\ stored[x].block = Item.block /\ stored[x].hash # Item.hash}
StoredOnly == IF Item.removed \/ InWindow(Target, Item.block) THEN "store" ELSE "skip"

\* A header that differs from the one remembered withdraws the events of the old block.
IngestHeader ==
    /\ pc = "ingest" /\ step = "header"
    /\ headers' = [headers EXCEPT ![Item.block] = Item.hash]
    /\ latest' = IF latest < Item.block THEN Item.block ELSE latest
    /\ IF Clashes
       THEN /\ stored' = [x \in Trades |-> IF x \in Orphans THEN [stored[x] EXCEPT !.removed = TRUE]
                                           ELSE stored[x]]
            /\ marker' = Earlier(At(Item.block))
            /\ hit' = {Owner[x] : x \in Orphans} \cup {Target} /\ step' = "gap"
            /\ UNCHANGED <<pc, todo>>
       ELSE /\ UNCHANGED <<events, hit>>
            /\ IF StoredOnly = "store" THEN step' = "store" /\ UNCHANGED <<pc, todo>> ELSE NextItem
    /\ UNCHANGED <<chain, wire, unheard, up, after, queue, ask, dirty, pending, proofs, cover,
                   ledger, faults>>

\* Each target of a withdrawn block gets its own gap, in its own commit.
ReorgGap ==
    /\ pc = "ingest" /\ step = "gap"
    /\ LET l == Min(hit) IN
          /\ AddGaps({Gap(l, "reorg_unresolved", At(Item.block), 0, 0)})
          /\ hit' = hit \ {l}
    /\ IF hit' # {} THEN UNCHANGED <<pc, todo, step, dirty>>
       ELSE /\ dirty' = dirty \cup {Owner[x] : x \in {y \in Trades : stored[y] # None /\
                                                                   stored[y].block = Item.block}}
            /\ IF StoredOnly = "store" THEN step' = "store" /\ UNCHANGED <<pc, todo>> ELSE NextItem
    /\ UNCHANGED <<chain, wire, unheard, up, after, queue, ask, headers, pending, latest, events,
                   proofs, cover, faults>>

Known == /\ stored[Item.trade] # None
         /\ stored[Item.trade].removed = Item.removed /\ stored[Item.trade].hash = Item.hash
         /\ stored[Item.trade].block = Item.block

DirtyFrom(x) == Earlier(At(IF stored[x] = None THEN Item.block ELSE Least(Item.block, stored[x].block)))

\* _store(): the row of a transaction and log index is replaced by whatever comes next.
IngestStore ==
    /\ pc = "ingest" /\ step = "store"
    /\ IF Known THEN UNCHANGED <<events, dirty>>
       ELSE /\ stored' = [stored EXCEPT ![Item.trade] =
                             [block |-> Item.block, hash |-> Item.hash, removed |-> Item.removed]]
            /\ marker' = DirtyFrom(Item.trade)
            /\ dirty' = dirty \cup {Target}
    /\ IF Item.removed THEN step' = "removed" /\ UNCHANGED <<pc, todo>> ELSE NextItem
    /\ UNCHANGED <<chain, wire, unheard, up, after, queue, hit, ask, headers, pending, latest,
                   proofs, cover, ledger, faults>>

IngestRemoved ==
    /\ pc = "ingest" /\ step = "removed"
    /\ AddGaps({Gap(Target, "reorg_unresolved", At(Item.block), Now, 0)})
    /\ NextItem
    /\ UNCHANGED <<chain, wire, unheard, up, after, queue, hit, ask, memory, events, proofs, cover,
                   faults>>

(***************************************************************************)
(* run(): drain, reconcile, drain, finalize, sleep.                        *)
(***************************************************************************)

Wake ==
    /\ pc = "sleep" /\ up
    /\ Handle(queue, "reconcile")
    /\ queue' = <<>> /\ turn' = pending
    /\ UNCHANGED <<chain, wire, unheard, up, hit, reading, upto, memory, events, proofs, cover,
                   ledger, faults>>

\* The head is read once per bootstrap stage and once per ordinary recovery.
Ask ==
    /\ pc = "reconcile" /\ turn # {}
    /\ LET l == Min(turn) IN
           /\ pc' = "read" /\ turn' = turn \ {l} /\ reading' = l
           /\ frozen' = IF cursor[l] = 0 /\ frozen[l] = 0 THEN [frozen EXCEPT ![l] = head] ELSE frozen
           /\ upto' = IF cursor[l] = 0 THEN frozen'[l] ELSE head
           /\ latest' = IF cursor[l] # 0 /\ latest < head THEN head ELSE latest
    /\ UNCHANGED <<chain, wire, unheard, up, after, queue, work, headers, dirty, pending, events,
                   boot, cursor, covStart, cover, ledger, faults>>

FirstAtCursor == IF cursor[reading] = 0 THEN Start[reading] ELSE cursor[reading]  \* mutant: no overlap
First == IF cursor[reading] = 0 \/ cursor[reading] - Overlap < Start[reading]
         THEN Start[reading] ELSE cursor[reading] - Overlap

\* eth_getLogs answers with the chain of the moment, in the order of the blocks.
Ordered(T) == {s \in Bijection(1..Cardinality(T), T) :
                 \A i, j \in DOMAIN s : i < j => loc[s[i]] <= loc[s[j]]}
Logs(l, from, to) ==
    {[i \in DOMAIN s |-> [Notice(s[i], loc[s[i]], hash[loc[s[i]]], FALSE) EXCEPT !.born = 0]] :
        s \in Ordered({x \in Trades : Owner[x] = l /\ loc[x] \in from..to})}

Answer ==
    /\ pc = "read"
    /\ \E s \in Logs(reading, First, upto) : Handle(s, "prove")
    /\ UNCHANGED <<chain, wire, unheard, up, queue, hit, ask, memory, events, proofs, cover, ledger,
                   faults>>

Closed(reasons, through) ==
    {g \in gaps : g.launch = reading /\ g.reason \in reasons /\ g.first \in First..upto /\ g.end <= through}

\* promote(): cursor, bootstrap row, gaps and coverage are one transaction; the rows
\* are rebuilt at once in another.
Promote ==
    /\ pc = "prove" /\ cursor[reading] = 0
    /\ boot' = [boot EXCEPT ![reading] = "complete"]
    /\ cursor' = [cursor EXCEPT ![reading] = upto]
    /\ covStart' = [covStart EXCEPT ![reading] = TRUE]
    /\ LET c == Least(At(End[reading]), At(upto)) IN
          covEnd' = IF covEnd[reading] < c THEN [covEnd EXCEPT ![reading] = c] ELSE covEnd
    /\ gaps' = gaps \ ({g \in gaps : g.launch = reading /\ g.reason = "bootstrap_required"}
                        \cup Closed({"ws_gap"}, At(upto)))
    /\ latest' = IF latest < upto THEN upto ELSE latest
    /\ pc' = "promoted"
    /\ UNCHANGED <<chain, wire, unheard, up, after, queue, work, ask, headers, dirty, pending, events,
                   frozen, lcb, row, version, faults>>

RebuildPromoted ==
    /\ pc = "promoted"
    /\ Rebuild(reading, Now, gaps, boot, cursor, covStart, covEnd)
    /\ dirty' = dirty \cup {reading}
    /\ pc' = "reconcile"
    /\ UNCHANGED <<chain, wire, unheard, up, after, queue, work, ask, headers, pending, latest, events,
                   proofs, cover, gaps, faults>>

Recovered ==
    /\ pc = "prove" /\ cursor[reading] # 0
    /\ cursor' = [cursor EXCEPT ![reading] = upto]
    /\ covStart' = [covStart EXCEPT ![reading] = TRUE]
    /\ gaps' = gaps \ Closed({"ws_gap"}, Now)
    /\ pending' = pending \ {reading} /\ dirty' = dirty \cup {reading}
    /\ pc' = "reconcile"
    /\ UNCHANGED <<chain, wire, unheard, up, after, queue, work, ask, headers, latest, events, boot,
                   frozen, cover, row, version, faults>>

Reconciled ==
    /\ pc = "reconcile" /\ turn = {}
    /\ Handle(queue, IF up THEN "finalize" ELSE "lost")
    /\ queue' = <<>> /\ turn' = {} /\ reading' = 0 /\ upto' = 0
    /\ UNCHANGED <<chain, wire, unheard, up, hit, memory, events, proofs, cover, ledger, faults>>

Coverage(l) == Least(At(End[l]), Sure)
Due == {l \in Launches : row[l] = None /\ At(Cut[l]) <= Sure}
StaleIgnored == {}                                   \* mutant: the durable marker is not read
Stale == IF marker = 0 THEN {} ELSE {l \in Launches : row[l] # None /\ At(Cut[l]) >= marker}

Finalize ==
    /\ pc = "finalize"
    /\ covEnd' = [l \in Launches |-> Coverage(l)]
    /\ lcb' = latest
    /\ hit' = dirty \cup Stale \cup Due /\ pc' = "rebuild"
    /\ UNCHANGED <<chain, wire, unheard, up, after, queue, todo, step, ask, memory, events, proofs,
                   ledger, faults>>

RebuildNext ==
    /\ pc = "rebuild" /\ hit # {}
    /\ Rebuild(Min(hit), Sure, gaps, boot, cursor, covStart, covEnd)
    /\ hit' = hit \ {Min(hit)}
    /\ UNCHANGED <<chain, wire, unheard, up, pc, after, queue, todo, step, ask, memory, events, proofs,
                   cover, gaps, faults>>

Rebuilt ==
    /\ pc = "rebuild" /\ hit = {}
    /\ dirty' = {} /\ marker' = 0
    /\ pc' = IF up THEN "sleep" ELSE "down"
    /\ UNCHANGED <<chain, wire, unheard, up, after, queue, work, ask, headers, pending, latest, stored,
                   proofs, cover, ledger, faults>>

(***************************************************************************)
(* A lost connection and a restart.                                        *)
(***************************************************************************)

Outage(l) ==
    Gap(l, "ws_gap", IF covEnd[l] = 0 THEN At(Start[l]) ELSE covEnd[l], Least(Now, At(End[l])), lcb)

NoticeLoss ==
    /\ pc = "sleep" /\ ~up
    /\ pc' = "lost"
    /\ UNCHANGED <<chain, wire, unheard, up, after, queue, work, ask, memory, events, proofs, cover,
                   ledger, faults>>

\* The gaps, then finalize(False): rows are rebuilt and no coverage is claimed.
HandleLoss ==
    /\ pc = "lost"
    /\ AddGaps({Outage(l) : l \in Launches})
    /\ dirty' = Launches /\ hit' = Launches /\ pc' = "rebuild"
    /\ UNCHANGED <<chain, wire, unheard, up, after, queue, todo, step, ask, headers, pending, latest,
                   events, proofs, cover, faults>>

\* What the queue still holds is stored after the back-off, before the next connection.
DrainAfterLoss ==
    /\ pc = "down"
    /\ Handle(queue, "connect")
    /\ queue' = <<>>
    /\ UNCHANGED <<chain, wire, unheard, up, hit, ask, memory, events, proofs, cover, ledger, faults>>

StartUncertain ==
    /\ pc = "boot"
    /\ AddGaps({Outage(l) : l \in Launches})
    /\ dirty' = Launches /\ pc' = "connect"
    /\ UNCHANGED <<chain, wire, unheard, up, after, queue, work, ask, headers, pending, latest, events,
                   proofs, cover, faults>>

Connect ==
    /\ pc = "connect"
    /\ up' = TRUE /\ pc' = "sleep" /\ pending' = Launches
    /\ UNCHANGED <<chain, wire, unheard, after, queue, work, ask, headers, dirty, latest, events, proofs,
                   cover, ledger, faults>>

Environment == Mine \/ (\E b \in Blocks : Reorg(b)) \/ LinkDies \/ Crash
Worker ==
    \/ Deliver \/ IngestHeader \/ ReorgGap \/ IngestStore \/ IngestRemoved
    \/ Wake \/ Ask \/ Answer \/ Promote \/ RebuildPromoted \/ Recovered
    \/ Reconciled \/ Finalize \/ RebuildNext \/ Rebuilt
    \/ NoticeLoss \/ HandleLoss \/ DrainAfterLoss \/ StartUncertain \/ Connect

Next == Environment \/ Worker
Spec == Init /\ [][Next]_vars

(***************************************************************************)
(* Properties.                                                             *)
(***************************************************************************)

\* Once no event waits in the durable marker, every feature row counts exactly the stored
\* trades: its own and the prior activity of its actors, whatever was withdrawn, mined again
\* or stored before a crash.  A row promote() builds less than Lag blocks after its cutoff
\* is not promised: finalize() passes it over and may clear the marker.
RowsMatchStore ==
    marker = 0 => \A l \in Launches : row[l] # None /\ ~row[l].early =>
        row[l].own = Own(stored, l) /\ row[l].prior = Prior(stored, l)

\* Between any two commits the ledger's last version says what the mutable row says, and a
\* version open to models has no open gap against its window.
LedgerAgrees ==
    \A l \in Born : row[l] # None =>
        /\ version[l] # None
        /\ version[l].own = row[l].own /\ version[l].quality = row[l].quality
        /\ version[l].ready => Against(gaps, l) = {}

Quiet == pc = "sleep" /\ up /\ wire = <<>> /\ queue = <<>> /\ dirty = {} /\ marker = 0 /\ pending = {}
Canonical(l) == {x \in Trades : Owner[x] = l /\ loc[x] \in Start[l]..Cut[l]}

\* When nothing is on its way and no recovery is due, a complete row counts the trades of the chain, in whatever
\* order removals, inclusions and recovered logs arrived; only a trade whose removal was
\* lost with a connection may be wrong.
CompleteIsCanonical ==
    Quiet => \A l \in Launches : row[l] # None /\ row[l].quality = "complete" =>
        row[l].own \ unheard = Canonical(l) \ unheard
=============================================================================
