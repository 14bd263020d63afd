------------------------- MODULE FeatureLedgerProofs -------------------------
(***************************************************************************)
(* Proofs about FeatureLedger: for any targets, trades, blocks, overlap    *)
(* and lag, any reorganisations and any stops, the feature rows count what *)
(* is stored and the ledger says what the rows say.                        *)
(*                                                                         *)
(* The argument.  A commit that changes what a row counts leaves the       *)
(* durable marker at or below the row's cutoff, and the marker is cleared  *)
(* only by a finalize that read it: what the marker named then is in hit   *)
(* until it is rebuilt, and no event is stored between the two.  A row     *)
(* outside the buffer stays outside, the clock only moves on.  A version   *)
(* is written with its row, and a gap against the window of a ready one    *)
(* begins at or before its cutoff, so it makes that row partial at once.   *)
(*                                                                         *)
(* What is stored is what the chain holds only when the notices of every   *)
(* reorganisation have been read.  The last part proves that for a         *)
(* connection that holds, from the order of the notices (Line).            *)
(***************************************************************************)
EXTENDS FeatureLedger, FiniteSetTheorems, SequenceTheorems, WellFoundedInduction, TLAPS

(***************************************************************************)
(* The inductive invariant.                                                *)
(***************************************************************************)
Notes == [trade : Trades, block : Nat \ {0}, hash : Nat, removed : BOOLEAN, born : Nat]

Types ==
    /\ head \in Blocks /\ hash \in [Blocks -> Nat] /\ loc \in [Trades -> {0} \cup Blocks]
    /\ wire \in Seq(Notes) /\ queue \in Seq(Notes) /\ todo \in Seq(Notes)
    /\ pending \subseteq Launches /\ turn \subseteq Launches /\ upto \in Nat
    /\ frozen \in [Launches -> Nat] /\ cursor \in [Launches -> Nat]
    /\ stored \in [Trades -> {None} \cup Events] /\ marker \in Nat
    /\ row \in [Launches -> {None} \cup Rows] /\ version \in [Launches -> {None} \cup Versions]

\* Where the worker can be: ingest has an item in hand, a call has a target.
Phases ==
    /\ after \notin {"ingest", "rebuild", "read"}
    /\ pc = "ingest" => todo # <<>>
    /\ pc = "read" => reading \in Launches

\* What row r of target l counts is what the events s say.
Matches(r, s, l) == r.own = Own(s, l) /\ r.prior = Prior(s, l)
Judged(l) == row[l] # None /\ ~row[l].early

\* A row that no longer matches is at or above the marker, and in hit once finalize has read it.
Marked ==
    \A l \in Launches : Judged(l) =>
        /\ At(Cut[l]) <= Sure
        /\ Matches(row[l], stored, l) \/ (marker # 0 /\ marker <= At(Cut[l]))
        /\ pc = "rebuild" => Matches(row[l], stored, l) \/ l \in hit

IInv == Types /\ Phases /\ Marked /\ LedgerAgrees


(***************************************************************************)
(* Sets of numbers, and sets written as sequences.                         *)
(***************************************************************************)

\* A set of naturals that is not empty has its least element.
LEMMA LeastIsIn ==
    ASSUME NEW S \in SUBSET Nat, S # {}
    PROVE  Min(S) \in S
<1>1. PICK x \in S : \A y \in S : ~(<<y, x>> \in OpToRel(<, Nat))
  BY NatLessThanWellFounded, WFMin
<1>2. \A y \in S : ~(y < x)
  BY <1>1 DEF OpToRel
<1>3. \A y \in S : x <= y
  BY <1>2
<1> QED
  BY <1>3 DEF Min

\* A set of naturals below a bound has its greatest.
LEMMA GreatestIsIn ==
    ASSUME NEW n \in Nat, NEW S \in SUBSET (0..n), S # {}
    PROVE  Max(S) \in S /\ \A b \in S : Max(S) >= b
<1> DEFINE D == {n - b : b \in S}
<1>0. \A b \in S : b \in Int /\ n - b \in Nat
  OBVIOUS
<1>1. D \subseteq Nat /\ D # {}
  BY <1>0
<1>a. \E x \in D : \A y \in D : ~(<<y, x>> \in OpToRel(<, Nat))
  BY <1>1, NatLessThanWellFounded, WFMin
<1>2. PICK b \in S : \A y \in D : ~(<<y, n - b>> \in OpToRel(<, Nat))
  BY <1>a
<1>3. \A c \in S : ~(n - c < n - b)
  BY <1>1, <1>2 DEF OpToRel
<1>4. ASSUME NEW c \in S PROVE b >= c
  <2>1. b \in Int /\ c \in Int /\ ~(n - c < n - b)
    BY <1>0, <1>3
  <2> QED
    BY <2>1
<1> QED
  BY <1>4 DEF Max

\* A finite set can be written as a sequence.
LEMMA Sequenced ==
    ASSUME NEW S, IsFiniteSet(S)
    PROVE  Cardinality(S) \in Nat /\ SetToSeq(S) \in [1..Cardinality(S) -> S]
<1>1. Cardinality(S) \in Nat /\ ExistsBijection(1..Cardinality(S), S)
  BY FS_CardinalityType
<1>2. PICK f \in [1..Cardinality(S) -> S] : IsInjective(f)
  BY <1>1 DEF ExistsBijection, Bijection, Injection
<1> QED
  BY <1>1, <1>2 DEF SetToSeq

\* Notices of trades in blocks are notices.
LEMMA Noticed ==
    ASSUME NEW T \in SUBSET Trades, NEW where, NEW v \in [Blocks -> Nat], NEW gone \in BOOLEAN,
           \A x \in T : where[x] \in Blocks, head \in Nat
    PROVE  Notices(T, where, v, gone) \in Seq(Notes)
<1>1. IsFiniteSet(T)
  BY LedgerAssumption, FS_Subset
<1>2. Cardinality(T) \in Nat /\ SetToSeq(T) \in [1..Cardinality(T) -> T]
  BY <1>1, Sequenced
<1>3. ASSUME NEW x \in T PROVE Notice(x, where[x], v[where[x]], gone) \in Notes
  <2>1. where[x] \in Nat \ {0} /\ v[where[x]] \in Nat
    BY LedgerAssumption DEF Blocks
  <2> QED
    BY <2>1 DEF Notice, Notes
<1> QED
  BY <1>2, <1>3 DEF Notices

\* So are the logs of a target from its launch on.
LEMMA Logged ==
    ASSUME Types, reading \in Launches, NEW s \in Logs(reading, First, upto)
    PROVE  s \in Seq(Notes)
<1> DEFINE T == {x \in Trades : Owner[x] = reading /\ loc[x] \in First..upto}
           N(x) == [Notice(x, loc[x], hash[loc[x]], FALSE) EXCEPT !.born = 0]
<1>1. First \in Nat \ {0} /\ upto \in Nat
  <2>1. cursor[reading] \in Nat /\ Start[reading] \in 1..MaxBlock /\ Overlap \in Nat /\ MaxBlock \in Nat
    BY LedgerAssumption DEF Types
  <2> QED
    BY <2>1 DEF First, Types
<1>2. ASSUME NEW x \in T PROVE N(x) \in Notes
  <2>1. loc[x] \in Blocks /\ loc[x] \in Nat \ {0}
    BY <1>1 DEF Types
  <2>2. hash[loc[x]] \in Nat /\ head \in Nat
    BY <2>1 DEF Types, Blocks
  <2>3. Notice(x, loc[x], hash[loc[x]], FALSE) \in Notes
    BY <2>1, <2>2 DEF Notice, Notes
  <2> QED
    BY <2>3 DEF Notes
<1>3. IsFiniteSet(T)
  BY LedgerAssumption, FS_Subset
<1>4. Cardinality(T) \in Nat
  BY <1>3, FS_CardinalityType
<1>5. PICK o \in Bijection(1..Cardinality(T), T) : s = [i \in DOMAIN o |-> N(o[i])]
  BY DEF Logs, Ordered
<1>6. o \in [1..Cardinality(T) -> T]
  BY <1>5 DEF Bijection, Injection
<1> HIDE DEF T, N
<1> QED
  BY <1>2, <1>4, <1>5, <1>6


(***************************************************************************)
(* Rows and versions are rows and versions.                                *)
(***************************************************************************)

\* A rebuilt row and its version.
LEMMA Rebuilding ==
    ASSUME Types, NEW l, NEW until, NEW gs, NEW bt, NEW cu, NEW cs, NEW ce,
           Rebuild(l, until, gs, bt, cu, cs, ce)
    PROVE  /\ row' \in [Launches -> {None} \cup Rows] /\ version' \in [Launches -> {None} \cup Versions]
           /\ \A m \in Launches \ {l} : row'[m] = row[m] /\ version'[m] = version[m]
           /\ \/ At(Cut[l]) > until /\ UNCHANGED <<row, version>>
              \/ /\ ~(At(Cut[l]) > until)
                 /\ l \in Launches =>
                      /\ row'[l] \in Rows /\ Matches(row'[l], stored, l)
                      /\ row'[l].quality = Quality(l, gs, bt, cs, ce)
                      /\ row'[l].early = (At(Cut[l]) > Sure)
                      /\ version'[l] = Versioned(l, row'[l], bt, cu)
<1>0. row \in [Launches -> {None} \cup Rows] /\ version \in [Launches -> {None} \cup Versions]
  BY DEF Types
<1> DEFINE r == [own |-> Own(stored, l), prior |-> Prior(stored, l),
                 quality |-> Quality(l, gs, bt, cs, ce), early |-> At(Cut[l]) > Sure]
<1>1. r \in Rows
  <2>1. Own(stored, l) \subseteq Trades /\ Prior(stored, l) \subseteq Trades
    BY DEF Own, Prior
  <2>2. Quality(l, gs, bt, cs, ce) \in {"complete", "partial", "unavailable"}
    BY DEF Quality
  <2>3. (At(Cut[l]) > Sure) \in BOOLEAN
    OBVIOUS
  <2> QED
    BY <2>1, <2>2, <2>3 DEF Rows
<1>2. ASSUME l \in Launches PROVE Versioned(l, r, bt, cu) \in {None} \cup Versions
  <2>1. r.own \in SUBSET Trades /\ r.quality \in {"complete", "partial", "unavailable"}
    BY <1>1 DEF Rows
  <2>2. (r.quality = "complete" /\ bt[l] = "complete" /\ cu[l] # 0) \in BOOLEAN
    OBVIOUS
  <2> HIDE DEF r
  <2>3. [own |-> r.own, quality |-> r.quality,
         ready |-> r.quality = "complete" /\ bt[l] = "complete" /\ cu[l] # 0] \in Versions
    BY <2>1, <2>2 DEF Versions
  <2> QED
    BY <1>0, <1>2, <2>3 DEF Versioned
<1>3. CASE At(Cut[l]) > until
  BY <1>0, <1>3 DEF Rebuild
<1>4. CASE ~(At(Cut[l]) > until)
  <2>1. row' = [row EXCEPT ![l] = r] /\ version' = [version EXCEPT ![l] = Versioned(l, r, bt, cu)]
    BY <1>4 DEF Rebuild
  <2>2. r.own = Own(stored, l) /\ r.prior = Prior(stored, l) /\ r.quality = Quality(l, gs, bt, cs, ce)
        /\ r.early = (At(Cut[l]) > Sure)
    OBVIOUS
  <2> HIDE DEF r
  <2>3. row' \in [Launches -> {None} \cup Rows] /\ version' \in [Launches -> {None} \cup Versions]
    BY <1>0, <1>1, <1>2, <2>1
  <2>4. \A m \in Launches \ {l} : row'[m] = row[m] /\ version'[m] = version[m]
    BY <1>0, <2>1
  <2>5. l \in Launches => row'[l] = r /\ version'[l] = Versioned(l, r, bt, cu)
    BY <1>0, <2>1
  <2> QED
    BY <1>1, <1>4, <2>2, <2>3, <2>4, <2>5 DEF Matches
<1> QED
  BY <1>3, <1>4

\* A gap changes the quality of rows and nothing else in them.
LEMMA Adding ==
    ASSUME Types, NEW G, AddGaps(G)
    PROVE  /\ row' \in [Launches -> {None} \cup Rows] /\ version' \in [Launches -> {None} \cup Versions]
           /\ \A l \in Launches \ Contested(G) : row'[l] = row[l] /\ version'[l] = version[l]
           /\ \A l \in Contested(G) :
                /\ row[l] \in Rows /\ row'[l] \in Rows
                /\ row'[l].own = row[l].own /\ row'[l].prior = row[l].prior
                /\ row'[l].early = row[l].early /\ row'[l].quality = "partial"
                /\ version'[l] = Versioned(l, row'[l], boot, cursor)
<1>0. /\ row \in [Launches -> {None} \cup Rows] /\ version \in [Launches -> {None} \cup Versions]
      /\ Contested(G) \subseteq Launches
  BY DEF Types, Contested
<1>1. row' = [l \in Launches |-> IF l \in Contested(G) THEN Partial(l) ELSE row[l]]
  BY DEF AddGaps
<1>2. version' = [l \in Launches |-> IF l \in Contested(G) THEN Versioned(l, Partial(l), boot, cursor)
                                     ELSE version[l]]
  BY DEF AddGaps
<1>3. ASSUME NEW l \in Contested(G)
      PROVE  /\ row[l] \in Rows /\ Partial(l) \in Rows
             /\ Partial(l).own = row[l].own /\ Partial(l).prior = row[l].prior
             /\ Partial(l).early = row[l].early /\ Partial(l).quality = "partial"
  <2>1. row[l] \in Rows
    BY <1>0 DEF Contested
  <2> QED
    BY <2>1 DEF Partial, Rows
<1>4. ASSUME NEW l \in Contested(G) PROVE Versioned(l, Partial(l), boot, cursor) \in {None} \cup Versions
  <2>1. Partial(l).own \in SUBSET Trades /\ Partial(l).quality \in {"complete", "partial", "unavailable"}
    BY <1>3 DEF Rows
  <2> DEFINE p == Partial(l)
             b == p.quality = "complete" /\ boot[l] = "complete" /\ cursor[l] # 0
  <2>2. b \in BOOLEAN
    OBVIOUS
  <2>3. [own |-> p.own, quality |-> p.quality, ready |-> b] \in Versions
    <3> HIDE DEF b
    <3> QED
      BY <2>1, <2>2 DEF Versions
  <2> QED
    BY <1>0, <2>3 DEF Versioned
<1>5. \A l \in Launches : row'[l] = IF l \in Contested(G) THEN Partial(l) ELSE row[l]
  BY <1>1
<1>6. \A l \in Launches : version'[l] = IF l \in Contested(G) THEN Versioned(l, Partial(l), boot, cursor)
                                        ELSE version[l]
  BY <1>2
<1> QED
  BY <1>0, <1>1, <1>2, <1>3, <1>4, <1>5, <1>6


(***************************************************************************)
(* The initial state.                                                      *)
(***************************************************************************)

\* Init establishes the invariant.
LEMMA InitInvariant == Init => IInv
<1> SUFFICES ASSUME Init PROVE IInv
  OBVIOUS
<1>1. head \in Blocks
  <2> DEFINE S == {Start[l] : l \in Launches}
  <2>a. MaxBlock \in Nat /\ Launches # {} /\ \A l \in Launches : Start[l] \in 1..MaxBlock
    BY LedgerAssumption
  <2>1. S \in SUBSET (0..MaxBlock) /\ S # {} /\ MaxBlock \in Nat /\ S \subseteq Blocks
    BY <2>a DEF Blocks
  <2>2. Max(S) \in S
    BY <2>1, GreatestIsIn
  <2>3. head = Max(S)
    BY DEF Init
  <2> QED
    BY <2>1, <2>2, <2>3
<1>2. Types
  <2>1. hash \in [Blocks -> Nat] /\ frozen \in [Launches -> Nat] /\ cursor \in [Launches -> Nat]
    BY DEF Init
  <2>2. loc \in [Trades -> {0} \cup Blocks]
    BY LedgerAssumption DEF Init, Blocks
  <2>3. wire = <<>> /\ queue = <<>> /\ todo = <<>> /\ <<>> \in Seq(Notes)
    BY DEF Init
  <2>4. stored \in [Trades -> {None} \cup Events] /\ marker \in Nat
    BY DEF Init
  <2>5. row \in [Launches -> {None} \cup Rows] /\ version \in [Launches -> {None} \cup Versions]
    BY DEF Init
  <2>6. pending \subseteq Launches /\ turn \subseteq Launches /\ upto \in Nat
    BY DEF Init
  <2> QED
    BY <1>1, <2>1, <2>2, <2>3, <2>4, <2>5, <2>6 DEF Types
<1>3. Phases
  BY DEF Init, Phases
<1>4. \A l \in Launches : row[l] = None
  BY DEF Init
<1>5. Marked
  BY <1>4 DEF Marked, Judged
<1>6. LedgerAgrees
  BY <1>4, LedgerAssumption DEF LedgerAgrees
<1> QED
  BY <1>2, <1>3, <1>5, <1>6 DEF IInv

(***************************************************************************)
(* The steps.                                                              *)
(***************************************************************************)

\* Every step is one of these.
LEMMA Steps ==
    ASSUME [Next]_vars
    PROVE  \/ Mine \/ (\E b \in Blocks : Reorg(b)) \/ LinkDies \/ Crash \/ Deliver
           \/ IngestHeader \/ ReorgGap \/ IngestStore \/ IngestRemoved \/ Wake \/ Ask \/ Answer
           \/ Promote \/ RebuildPromoted \/ Recovered \/ Reconciled \/ Finalize \/ RebuildNext
           \/ Rebuilt \/ NoticeLoss \/ HandleLoss \/ DrainAfterLoss \/ StartUncertain \/ Connect
           \/ UNCHANGED vars
BY DEF Next, Environment, Worker

Chained  == head' \in Blocks /\ hash' \in [Blocks -> Nat] /\ loc' \in [Trades -> {0} \cup Blocks]
Queued   == wire' \in Seq(Notes) /\ queue' \in Seq(Notes) /\ todo' \in Seq(Notes)
Asked    == /\ pending' \subseteq Launches /\ turn' \subseteq Launches /\ upto' \in Nat
            /\ frozen' \in [Launches -> Nat] /\ cursor' \in [Launches -> Nat]
Eventful == stored' \in [Trades -> {None} \cup Events] /\ marker' \in Nat
Written  == row' \in [Launches -> {None} \cup Rows] /\ version' \in [Launches -> {None} \cup Versions]

\* The chain moves by blocks and withdraws none it does not have.
LEMMA ChainedStep ==
    ASSUME Types, [Next]_vars
    PROVE  Chained
<1>0. /\ head \in Blocks /\ hash \in [Blocks -> Nat] /\ loc \in [Trades -> {0} \cup Blocks]
      /\ MaxBlock \in Nat
  BY LedgerAssumption DEF Types
<1>1. CASE Mine
  <2>1. head' = head + 1 /\ head < MaxBlock /\ hash' = hash
    BY <1>1 DEF Mine
  <2>2. PICK T \in SUBSET Trades : loc' = [x \in Trades |-> IF x \in T THEN head + 1 ELSE loc[x]]
    BY <1>1 DEF Mine
  <2>3. head + 1 \in Blocks
    BY <1>0, <2>1 DEF Blocks
  <2> QED
    BY <1>0, <2>1, <2>2, <2>3 DEF Chained
<1>2. ASSUME NEW b \in Blocks, Reorg(b) PROVE Chained
  <2> DEFINE T == {x \in Trades : loc[x] >= b}
  <2>1. head' = head /\ b <= head
    BY <1>2 DEF Reorg
  <2>2. PICK again \in [T -> {0} \cup b..head] :
          /\ hash' = [n \in Blocks |-> IF n >= b /\ n <= head THEN hash[n] + 1 ELSE hash[n]]
          /\ loc' = [x \in Trades |-> IF x \in T THEN again[x] ELSE loc[x]]
    BY <1>2 DEF Reorg
  <2>3. b..head \subseteq Blocks
    BY <1>0 DEF Blocks
  <2>4. hash' \in [Blocks -> Nat]
    BY <1>0, <2>2
  <2>5. loc' \in [Trades -> {0} \cup Blocks]
    <3> HIDE DEF T
    <3> QED
      BY <1>0, <2>2, <2>3
  <2> QED
    BY <1>0, <2>1, <2>4, <2>5 DEF Chained
<1>3. ASSUME UNCHANGED chain PROVE Chained
  BY <1>0, <1>3 DEF chain, Chained
<1>4. UNCHANGED chain \/ Mine \/ \E b \in Blocks : Reorg(b)
  <2>1. CASE LinkDies \/ Crash \/ Deliver \/ Connect \/ UNCHANGED vars
    BY <2>1 DEF LinkDies, Crash, Deliver, Connect, vars
  <2>2. CASE IngestHeader \/ ReorgGap \/ IngestStore \/ IngestRemoved
    BY <2>2 DEF IngestHeader, ReorgGap, IngestStore, IngestRemoved
  <2>3. CASE Wake \/ Ask \/ Answer \/ Promote \/ RebuildPromoted \/ Recovered \/ Reconciled
    BY <2>3 DEF Wake, Ask, Answer, Promote, RebuildPromoted, Recovered, Reconciled
  <2>4. CASE Finalize \/ RebuildNext \/ Rebuilt \/ NoticeLoss \/ HandleLoss \/ DrainAfterLoss \/ StartUncertain
    BY <2>4 DEF Finalize, RebuildNext, Rebuilt, NoticeLoss, HandleLoss, DrainAfterLoss, StartUncertain
  <2> QED
    BY <2>1, <2>2, <2>3, <2>4, Steps
<1> QED
  BY <1>1, <1>2, <1>3, <1>4

\* What is on the wire, in the queue and in hand are notices of blocks.
LEMMA QueuedStep ==
    ASSUME Types, Phases, Chained, [Next]_vars
    PROVE  Queued
<1>0. /\ wire \in Seq(Notes) /\ queue \in Seq(Notes) /\ todo \in Seq(Notes) /\ <<>> \in Seq(Notes)
      /\ head \in Blocks /\ hash \in [Blocks -> Nat] /\ loc \in [Trades -> {0} \cup Blocks]
      /\ head \in Nat
  BY DEF Types, Blocks
<1>1. CASE Mine
  <2>1. PICK T \in SUBSET {x \in Trades : loc[x] = 0 /\ Home[x] <= head + 1} :
          /\ loc' = [x \in Trades |-> IF x \in T THEN head + 1 ELSE loc[x]]
          /\ Send(Mined(T, loc', hash))
    BY <1>1 DEF Mine
  <2>2. \A x \in T : loc'[x] \in Blocks
    BY <1>1, <2>1 DEF Mine, Chained
  <2>3. Mined(T, loc', hash) \in Seq(Notes)
    BY <1>0, <2>2, Noticed DEF Mined
  <2>4. wire' \in Seq(Notes)
    BY <1>0, <2>1, <2>3 DEF Send
  <2> QED
    BY <1>0, <1>1, <2>4 DEF Mine, Queued, work
<1>2. ASSUME NEW b \in Blocks, Reorg(b) PROVE Queued
  <2> DEFINE T == {x \in Trades : loc[x] >= b}
  <2>1. PICK again \in [T -> {0} \cup b..head] :
          /\ loc' = [x \in Trades |-> IF x \in T THEN again[x] ELSE loc[x]]
          /\ Send(Withdrawn(T) \o Mined({x \in T : again[x] # 0}, loc', hash'))
    BY <1>2 DEF Reorg
  <2>2. \A x \in T : loc[x] \in Blocks
    BY <1>0 DEF Blocks
  <2>3. Withdrawn(T) \in Seq(Notes)
    BY <1>0, <2>2, Noticed DEF Withdrawn
  <2> DEFINE U == {x \in T : again[x] # 0}
  <2>4. \A x \in U : loc'[x] \in Blocks
    <3>1. \A x \in U : loc'[x] = again[x]
      BY <2>1
    <3>2. \A x \in U : loc'[x] \in {0} \cup Blocks
      BY DEF Chained
    <3> QED
      BY <3>1, <3>2
  <2>5. Mined(U, loc', hash') \in Seq(Notes)
    <3>1. hash' \in [Blocks -> Nat]
      BY DEF Chained
    <3>2. U \in SUBSET Trades
      OBVIOUS
    <3> HIDE DEF U, T
    <3> QED
      BY <1>0, <2>4, <3>1, <3>2, Noticed DEF Mined
  <2>6. wire' \in Seq(Notes)
    <3> HIDE DEF T
    <3> QED
      BY <1>0, <2>1, <2>3, <2>5 DEF Send
  <2> QED
    BY <1>0, <1>2, <2>6 DEF Reorg, Queued, work
<1>3. CASE LinkDies \/ Crash
  BY <1>0, <1>3 DEF LinkDies, Crash, Queued, work
<1>4. CASE Deliver
  <2>1. wire # <<>> /\ wire' = Tail(wire) /\ queue' = Append(queue, [Head(wire) EXCEPT !.born = 0])
    BY <1>4 DEF Deliver
  <2>2. Head(wire) \in Notes
    BY <1>0, <2>1
  <2>3. [Head(wire) EXCEPT !.born = 0] \in Notes
    BY <2>2 DEF Notes
  <2> QED
    BY <1>0, <1>4, <2>1, <2>3 DEF Deliver, Queued, work
<1>5. CASE IngestHeader \/ ReorgGap \/ IngestStore \/ IngestRemoved
  <2>1. todo # <<>> /\ (todo' = todo \/ todo' = Tail(todo)) /\ UNCHANGED <<wire, queue>>
    BY <1>5 DEF IngestHeader, ReorgGap, IngestStore, IngestRemoved, NextItem, Phases
  <2>2. Tail(todo) \in Seq(Notes)
    BY <1>0, <2>1
  <2> QED
    BY <1>0, <2>1, <2>2 DEF Queued
<1>6. CASE Wake \/ Reconciled \/ DrainAfterLoss
  BY <1>0, <1>6 DEF Wake, Reconciled, DrainAfterLoss, Handle, Queued
<1>7. CASE Answer
  <2>1. PICK s \in Logs(reading, First, upto) : Handle(s, "prove")
    BY <1>7 DEF Answer
  <2>2. s \in Seq(Notes)
    BY <1>7, Logged DEF Answer, Phases
  <2> QED
    BY <1>0, <1>7, <2>1, <2>2 DEF Answer, Handle, Queued
<1>8. CASE Ask \/ Promote \/ RebuildPromoted \/ Recovered \/ UNCHANGED vars
  BY <1>0, <1>8 DEF Ask, Promote, RebuildPromoted, Recovered, vars, Queued, work
<1>9. CASE Finalize \/ RebuildNext \/ Rebuilt \/ NoticeLoss \/ HandleLoss \/ StartUncertain \/ Connect
  BY <1>0, <1>9 DEF Finalize, RebuildNext, Rebuilt, NoticeLoss, HandleLoss, StartUncertain, Connect, Queued, work
<1> QED
  BY <1>1, <1>2, <1>3, <1>4, <1>5, <1>6, <1>7, <1>8, <1>9, Steps


\* A call is for a target, up to a block that was the head.
LEMMA AskedStep ==
    ASSUME Types, [Next]_vars
    PROVE  Asked
<1>0. /\ head \in Nat /\ pending \subseteq Launches /\ turn \subseteq Launches /\ upto \in Nat
      /\ frozen \in [Launches -> Nat] /\ cursor \in [Launches -> Nat] /\ Launches \subseteq Nat
  <2>1. Launches \subseteq Nat /\ Blocks \subseteq Nat
    BY LedgerAssumption DEF Blocks
  <2> QED
    BY <2>1 DEF Types
<1>1. CASE Ask
  <2> DEFINE l == Min(turn)
  <2>1. turn # {} /\ turn \in SUBSET Nat
    BY <1>0, <1>1 DEF Ask
  <2>2. l \in Launches
    BY <1>0, <2>1, LeastIsIn
  <2>3. /\ turn' = turn \ {l}
        /\ frozen' = IF cursor[l] = 0 /\ frozen[l] = 0 THEN [frozen EXCEPT ![l] = head] ELSE frozen
        /\ upto' = IF cursor[l] = 0 THEN frozen'[l] ELSE head
        /\ UNCHANGED <<pending, cursor>>
    BY <1>1 DEF Ask
  <2> HIDE DEF l
  <2>4. frozen' \in [Launches -> Nat]
    BY <1>0, <2>3
  <2>5. upto' \in Nat
    BY <1>0, <2>2, <2>3, <2>4
  <2> QED
    BY <1>0, <2>3, <2>4, <2>5 DEF Asked
<1>2. CASE Promote \/ Recovered
  <2>1. cursor' = [cursor EXCEPT ![reading] = upto] /\ UNCHANGED <<turn, upto, frozen>> /\ pending' \subseteq pending
    BY <1>2 DEF Promote, Recovered, ask
  <2> QED
    BY <1>0, <2>1 DEF Asked
<1>3. CASE Crash \/ Wake \/ Reconciled \/ Connect
  <2>1. CASE Crash
    BY <1>0, <2>1 DEF Crash, proofs, Asked
  <2>2. CASE Wake
    BY <1>0, <2>2 DEF Wake, memory, proofs, Asked
  <2>3. CASE Reconciled
    BY <1>0, <2>3 DEF Reconciled, memory, proofs, Asked
  <2>4. CASE Connect
    BY <1>0, <2>4 DEF Connect, ask, proofs, Asked
  <2> QED
    BY <1>3, <2>1, <2>2, <2>3, <2>4
<1>4. CASE Mine \/ (\E b \in Blocks : Reorg(b)) \/ LinkDies \/ Deliver \/ Answer \/ RebuildPromoted
  BY <1>0, <1>4 DEF Mine, Reorg, LinkDies, Deliver, Answer, RebuildPromoted, memory, ask, proofs, Asked
<1>5. CASE IngestHeader \/ ReorgGap \/ IngestStore \/ IngestRemoved
  BY <1>0, <1>5 DEF IngestHeader, ReorgGap, IngestStore, IngestRemoved, memory, ask, proofs, Asked
<1>6. CASE Finalize \/ RebuildNext \/ Rebuilt \/ NoticeLoss \/ HandleLoss \/ DrainAfterLoss \/ StartUncertain
  BY <1>0, <1>6 DEF Finalize, RebuildNext, Rebuilt, NoticeLoss, HandleLoss, DrainAfterLoss, StartUncertain,
                    memory, ask, proofs, Asked
<1>7. CASE UNCHANGED vars
  BY <1>0, <1>7 DEF vars, memory, ask, proofs, Asked
<1> QED
  BY <1>1, <1>2, <1>3, <1>4, <1>5, <1>6, <1>7, Steps

\* What ingest has in hand is a notice.
LEMMA InHand ==
    ASSUME Types, Phases, pc = "ingest"
    PROVE  Item \in Notes
BY DEF Types, Phases, Item

\* The marker only moves down, until it is cleared.
LEMMA Earliest ==
    ASSUME Types, NEW t \in Nat \ {0}
    PROVE  Earlier(t) \in Nat \ {0} /\ Earlier(t) <= t /\ (marker # 0 => Earlier(t) <= marker)
BY DEF Types, Earlier, Least

\* These events were stored or withdrawn, with the marker at or below all their blocks.
Touched(T) ==
    /\ \A x \in Trades \ T : stored'[x] = stored[x]
    /\ marker' # 0 /\ (marker # 0 => marker' <= marker)
    /\ \A x \in T : /\ stored[x] # None => marker' <= At(stored[x].block)
                    /\ stored'[x] # None /\ marker' <= At(stored'[x].block)

\* A changed header withdraws the events of the block it replaces.
LEMMA Withdrawing ==
    ASSUME Types, Phases, IngestHeader
    PROVE  Eventful /\ (UNCHANGED events \/ Touched(Orphans))
<1>0. stored \in [Trades -> {None} \cup Events] /\ marker \in Nat
  BY DEF Types
<1>1. CASE ~Clashes
  BY <1>0, <1>1 DEF IngestHeader, events, Eventful
<1>2. CASE Clashes
  <2>1. /\ stored' = [x \in Trades |-> IF x \in Orphans THEN [stored[x] EXCEPT !.removed = TRUE] ELSE stored[x]]
        /\ marker' = Earlier(At(Item.block)) /\ pc = "ingest"
    BY <1>2 DEF IngestHeader
  <2>2. Item \in Notes
    BY <2>1, InHand
  <2>3. Item.block \in Nat \ {0} /\ At(Item.block) \in Nat \ {0}
    BY <2>2 DEF Notes, At
  <2>4. marker' \in Nat \ {0} /\ marker' <= At(Item.block) /\ (marker # 0 => marker' <= marker)
    BY <2>1, <2>3, Earliest
  <2>5. ASSUME NEW x \in Orphans
        PROVE  /\ stored[x].block = Item.block /\ [stored[x] EXCEPT !.removed = TRUE] \in Events
               /\ [stored[x] EXCEPT !.removed = TRUE].block = Item.block
    <3>1. stored[x] \in Events /\ stored[x].block = Item.block
      BY <1>0 DEF Orphans
    <3> QED
      BY <3>1 DEF Events
  <2>6. ASSUME NEW x \in Orphans PROVE stored'[x] \in Events /\ stored'[x].block = Item.block
    BY <2>1, <2>5 DEF Orphans
  <2>7. \A x \in Trades \ Orphans : stored'[x] = stored[x]
    BY <2>1
  <2>8. stored' \in [Trades -> {None} \cup Events]
    BY <1>0, <2>1, <2>5
  <2>9. Touched(Orphans)
    BY <2>4, <2>5, <2>6, <2>7, NoneAssumption DEF Touched
  <2> QED
    BY <2>4, <2>8, <2>9 DEF Eventful
<1> QED
  BY <1>1, <1>2

\* A stored event replaces what was stored of its transaction and log index.
LEMMA Storing ==
    ASSUME Types, Phases, IngestStore
    PROVE  Eventful /\ (UNCHANGED events \/ Touched({Item.trade}))
<1>0. stored \in [Trades -> {None} \cup Events] /\ marker \in Nat
  BY DEF Types
<1>1. CASE Known
  BY <1>0, <1>1 DEF IngestStore, events, Eventful
<1>2. CASE ~Known
  <2> DEFINE x == Item.trade
             e == [block |-> Item.block, hash |-> Item.hash, removed |-> Item.removed]
             b == IF stored[x] = None THEN Item.block ELSE Least(Item.block, stored[x].block)
  <2>1. stored' = [stored EXCEPT ![x] = e] /\ marker' = Earlier(At(b)) /\ pc = "ingest"
    BY <1>2 DEF IngestStore, DirtyFrom
  <2>2. Item \in Notes
    BY <2>1, InHand
  <2>3. x \in Trades /\ e \in Events /\ e.block = Item.block /\ Item.block \in Nat \ {0}
    BY <2>2 DEF Notes, Events
  <2> HIDE DEF x, e
  <2>4. stored[x] # None => stored[x].block \in Nat \ {0}
    BY <1>0, <2>3 DEF Events
  <2>5. b \in Nat \ {0} /\ b <= Item.block /\ (stored[x] # None => b <= stored[x].block)
    BY <2>3, <2>4 DEF Least
  <2> HIDE DEF b
  <2>6. /\ At(b) \in Nat \ {0} /\ At(b) <= At(Item.block) /\ At(Item.block) \in Nat
        /\ stored[x] # None => At(b) <= At(stored[x].block) /\ At(stored[x].block) \in Nat
    BY <2>3, <2>4, <2>5 DEF At
  <2>7. marker' \in Nat \ {0} /\ marker' <= At(b) /\ (marker # 0 => marker' <= marker)
    BY <2>1, <2>6, Earliest
  <2>8. stored' \in [Trades -> {None} \cup Events] /\ stored'[x] = e /\ \A y \in Trades \ {x} : stored'[y] = stored[y]
    BY <1>0, <2>1, <2>3
  <2>9. Touched({x})
    BY <2>3, <2>6, <2>7, <2>8, NoneAssumption DEF Touched
  <2> QED
    BY <2>7, <2>8, <2>9 DEF Eventful, x
<1> QED
  BY <1>1, <1>2

\* Only these two store; only the end of finalize clears the marker.
LEMMA EventsKept ==
    ASSUME [Next]_vars
    PROVE  UNCHANGED events \/ IngestHeader \/ IngestStore \/ Rebuilt
<1>1. CASE Mine \/ (\E b \in Blocks : Reorg(b)) \/ LinkDies \/ Crash \/ Deliver \/ UNCHANGED vars
  BY <1>1 DEF Mine, Reorg, LinkDies, Crash, Deliver, vars
<1>2. CASE ReorgGap \/ IngestRemoved \/ Wake \/ Ask \/ Answer \/ Promote \/ RebuildPromoted \/ Recovered
  BY <1>2 DEF ReorgGap, IngestRemoved, Wake, Ask, Answer, Promote, RebuildPromoted, Recovered
<1>3. CASE Reconciled \/ Finalize \/ RebuildNext \/ NoticeLoss \/ HandleLoss \/ DrainAfterLoss \/ StartUncertain \/ Connect
  BY <1>3 DEF Reconciled, Finalize, RebuildNext, NoticeLoss, HandleLoss, DrainAfterLoss, StartUncertain, Connect
<1> QED
  BY <1>1, <1>2, <1>3, Steps

\* The rows change in a rebuild and with a new gap.
Writing == \/ ReorgGap \/ IngestRemoved \/ RebuildPromoted \/ RebuildNext \/ HandleLoss \/ StartUncertain
LEMMA RowsKept ==
    ASSUME [Next]_vars
    PROVE  UNCHANGED <<row, version>> \/ Writing
<1>1. CASE Mine \/ (\E b \in Blocks : Reorg(b)) \/ LinkDies \/ Crash \/ Deliver \/ UNCHANGED vars
  BY <1>1 DEF Mine, Reorg, LinkDies, Crash, Deliver, vars, ledger
<1>2. CASE IngestHeader \/ IngestStore \/ Wake \/ Ask \/ Answer \/ Promote \/ Recovered
  BY <1>2 DEF IngestHeader, IngestStore, Wake, Ask, Answer, Promote, Recovered, ledger
<1>3. CASE Reconciled \/ Finalize \/ Rebuilt \/ NoticeLoss \/ DrainAfterLoss \/ Connect
  BY <1>3 DEF Reconciled, Finalize, Rebuilt, NoticeLoss, DrainAfterLoss, Connect, ledger
<1> QED
  BY <1>1, <1>2, <1>3, Steps DEF Writing


\* Each rebuild and each gap of the worker, with what it is given.
LEMMA RowSteps ==
    ASSUME Types, Phases, Writing
    PROVE  \/ \E l, until : /\ Rebuild(l, until, gaps, boot, cursor, covStart, covEnd)
                            /\ UNCHANGED <<gaps, head, events>>
                            /\ pc' # "rebuild" \/ (pc = "rebuild" /\ hit' = hit \ {l} /\ until = Sure)
           \/ \E G : /\ AddGaps(G) /\ UNCHANGED <<head, events>>
                     /\ pc' = "rebuild" => Launches \subseteq hit'
<1>1. CASE RebuildPromoted
  BY <1>1 DEF RebuildPromoted, chain
<1>2. CASE RebuildNext
  BY <1>2 DEF RebuildNext, chain
<1>3. CASE ReorgGap
  <2>1. pc' # "rebuild"
    BY <1>3 DEF ReorgGap, NextItem, Phases
  <2> QED
    BY <1>3, <2>1 DEF ReorgGap, chain
<1>4. CASE IngestRemoved
  <2>1. pc' # "rebuild"
    BY <1>4 DEF IngestRemoved, NextItem, Phases
  <2> QED
    BY <1>4, <2>1 DEF IngestRemoved, chain
<1>5. CASE HandleLoss
  BY <1>5 DEF HandleLoss, chain
<1>6. CASE StartUncertain
  BY <1>6 DEF StartUncertain, chain
<1> QED
  BY <1>1, <1>2, <1>3, <1>4, <1>5, <1>6 DEF Writing

\* Rows and versions keep their types.
LEMMA WrittenStep ==
    ASSUME Types, Phases, [Next]_vars
    PROVE  Written
<1>1. CASE UNCHANGED <<row, version>>
  BY <1>1 DEF Types, Written
<1>2. ASSUME NEW l, NEW until, Rebuild(l, until, gaps, boot, cursor, covStart, covEnd) PROVE Written
  BY <1>2, Rebuilding DEF Written
<1>3. ASSUME NEW G, AddGaps(G) PROVE Written
  BY <1>3, Adding DEF Written
<1> QED
  BY <1>1, <1>2, <1>3, RowsKept, RowSteps

\* Every variable keeps its type.
LEMMA TypesStep ==
    ASSUME Types, Phases, [Next]_vars
    PROVE  Types'
<1>1. Chained /\ Asked /\ Written
  BY ChainedStep, AskedStep, WrittenStep
<1>2. Queued
  BY <1>1, QueuedStep
<1>3. Eventful
  <2>1. CASE UNCHANGED events
    BY <2>1 DEF events, Types, Eventful
  <2>2. CASE Rebuilt
    BY <2>2 DEF Rebuilt, Types, Eventful
  <2> QED
    BY <2>1, <2>2, EventsKept, Withdrawing, Storing
<1> QED
  BY <1>1, <1>2, <1>3 DEF Types, Chained, Queued, Asked, Eventful, Written, Blocks

\* The worker goes where the code goes.
LEMMA PhasesStep ==
    ASSUME Types, Phases, [Next]_vars
    PROVE  Phases'
<1>1. CASE Mine \/ (\E b \in Blocks : Reorg(b)) \/ LinkDies \/ Crash \/ Deliver
  BY <1>1 DEF Mine, Reorg, LinkDies, Crash, Deliver, Phases, work, ask
<1>2. CASE IngestHeader \/ ReorgGap \/ IngestStore \/ IngestRemoved
  <2>1. todo \in Seq(Notes) /\ todo # <<>>
    BY <1>2 DEF IngestHeader, ReorgGap, IngestStore, IngestRemoved, Types, Phases
  <2>2. (pc' = pc /\ todo' = todo) \/ NextItem
    BY <1>2 DEF IngestHeader, ReorgGap, IngestStore, IngestRemoved
  <2>3. after' = after /\ reading' = reading /\ pc = "ingest"
    BY <1>2 DEF IngestHeader, ReorgGap, IngestStore, IngestRemoved, ask
  <2>4. pc' = "ingest" => todo' # <<>>
    <3>1. NextItem /\ pc' = "ingest" => Len(todo) # 1 /\ todo' = Tail(todo)
      BY <2>3 DEF NextItem, Phases
    <3>2. ASSUME Len(todo) # 1 PROVE Tail(todo) # <<>>
      <4>1. Len(todo) \in Nat /\ Len(todo) # 0
        BY <2>1, EmptySeq
      <4>2. Tail(todo) \in Seq(Notes) /\ Len(Tail(todo)) = Len(todo) - 1
        BY <2>1, HeadTailProperties
      <4>3. Len(Tail(todo)) # 0
        BY <3>2, <4>1, <4>2
      <4> QED
        BY <4>2, <4>3, EmptySeq
    <3> QED
      BY <2>1, <2>2, <3>1, <3>2
  <2>5. pc' \in {pc, after, "ingest"}
    BY <2>2 DEF NextItem
  <2> QED
    BY <2>3, <2>4, <2>5 DEF Phases
<1>3. CASE Wake \/ Answer \/ Reconciled \/ DrainAfterLoss
  <2>1. \E items : \E there \in {"reconcile", "prove", "finalize", "lost", "connect"} : Handle(items, there)
    <3>1. CASE Wake
      BY <3>1 DEF Wake
    <3>2. CASE Answer
      BY <3>2 DEF Answer
    <3>3. CASE Reconciled
      BY <3>3 DEF Reconciled
    <3>4. CASE DrainAfterLoss
      BY <3>4 DEF DrainAfterLoss
    <3> QED
      BY <1>3, <3>1, <3>2, <3>3, <3>4
  <2> QED
    BY <2>1 DEF Handle, Phases
<1>4. CASE Ask
  <2>1. turn # {} /\ turn \in SUBSET Nat /\ reading' = Min(turn) /\ turn \subseteq Launches
    BY <1>4, LedgerAssumption DEF Ask, Types
  <2>2. reading' \in Launches
    BY <2>1, LeastIsIn
  <2> QED
    BY <1>4, <2>2 DEF Ask, Phases
<1>5. CASE Promote \/ RebuildPromoted \/ Recovered \/ UNCHANGED vars
  BY <1>5 DEF Promote, RebuildPromoted, Recovered, vars, Phases, work, ask
<1>6. CASE Finalize \/ RebuildNext \/ Rebuilt \/ NoticeLoss \/ HandleLoss \/ StartUncertain \/ Connect
  BY <1>6 DEF Finalize, RebuildNext, Rebuilt, NoticeLoss, HandleLoss, StartUncertain, Connect, Phases, work, ask
<1> QED
  BY <1>1, <1>2, <1>3, <1>4, <1>5, <1>6, Steps

\* A change of events leaves alone what a row below the marker counts.
LEMMA CountsKept ==
    ASSUME Types, Types', NEW T \in SUBSET Trades, Touched(T), NEW l \in Launches, ~(marker' <= At(Cut[l]))
    PROVE  Own(stored', l) = Own(stored, l) /\ Prior(stored', l) = Prior(stored, l)
<1>0. /\ stored \in [Trades -> {None} \cup Events] /\ stored' \in [Trades -> {None} \cup Events]
      /\ marker' \in Nat /\ Cut[l] \in Nat
  BY LedgerAssumption DEF Types
<1>1. ASSUME NEW x \in T PROVE /\ stored[x] # None => stored[x].block > Cut[l]
                               /\ stored'[x] # None /\ stored'[x].block > Cut[l]
  <2>1. stored'[x] # None /\ marker' <= At(stored'[x].block)
    BY DEF Touched
  <2>2. stored'[x].block \in Nat /\ (stored[x] # None => stored[x].block \in Nat)
    BY <1>0, <2>1 DEF Events
  <2>3. stored[x] # None => marker' <= At(stored[x].block)
    BY DEF Touched
  <2> QED
    BY <1>0, <2>1, <2>2, <2>3 DEF At
<1>2. \A x \in Trades \ T : stored'[x] = stored[x]
  BY DEF Touched
<1>3. \A x \in T : x \notin Own(stored, l) /\ x \notin Own(stored', l)
  BY <1>0, <1>1 DEF Own, Live, Events
<1>4. Own(stored', l) = Own(stored, l)
  BY <1>2, <1>3 DEF Own, Live
<1> DEFINE P(s) == {x \in Trades : Owner[x] # l /\ Live(s, x) /\ s[x].block < Cut[l]}
<1>5. \A x \in T : x \notin P(stored) /\ x \notin P(stored')
  BY <1>0, <1>1 DEF Live, Events
<1>6. P(stored') = P(stored)
  BY <1>2, <1>5 DEF Live
<1> QED
  BY <1>4, <1>6 DEF Prior


\* Only Mine moves the head.
LEMMA HeadKept ==
    ASSUME [Next]_vars
    PROVE  UNCHANGED head \/ Mine
<1>1. CASE (\E b \in Blocks : Reorg(b)) \/ LinkDies \/ Crash \/ Deliver \/ UNCHANGED vars
  BY <1>1 DEF Reorg, LinkDies, Crash, Deliver, vars, chain
<1>2. CASE IngestHeader \/ ReorgGap \/ IngestStore \/ IngestRemoved \/ Wake \/ Ask \/ Answer
  BY <1>2 DEF IngestHeader, ReorgGap, IngestStore, IngestRemoved, Wake, Ask, Answer, chain
<1>3. CASE Promote \/ RebuildPromoted \/ Recovered \/ Reconciled \/ Finalize \/ RebuildNext
  BY <1>3 DEF Promote, RebuildPromoted, Recovered, Reconciled, Finalize, RebuildNext, chain
<1>4. CASE Rebuilt \/ NoticeLoss \/ HandleLoss \/ DrainAfterLoss \/ StartUncertain \/ Connect
  BY <1>4 DEF Rebuilt, NoticeLoss, HandleLoss, DrainAfterLoss, StartUncertain, Connect, chain
<1> QED
  BY <1>1, <1>2, <1>3, <1>4, Steps

\* Apart from the steps that write rows, only finalize enters the rebuilding phase.
LEMMA RebuildBegins ==
    ASSUME Phases, [Next]_vars, ~Writing, pc' = "rebuild"
    PROVE  (pc = "rebuild" /\ hit' = hit) \/ Finalize
<1>1. CASE Mine \/ (\E b \in Blocks : Reorg(b)) \/ LinkDies \/ Crash \/ Deliver \/ UNCHANGED vars
  BY <1>1 DEF Mine, Reorg, LinkDies, Crash, Deliver, Waiting, vars, work
<1>2. CASE IngestHeader \/ IngestStore
  BY <1>2 DEF IngestHeader, IngestStore, NextItem, Phases
<1>3. CASE Wake \/ Answer \/ Reconciled \/ DrainAfterLoss
  BY <1>3 DEF Wake, Answer, Reconciled, DrainAfterLoss, Handle
<1>4. CASE Ask \/ Promote \/ Recovered \/ Rebuilt \/ NoticeLoss \/ Connect
  BY <1>4 DEF Ask, Promote, Recovered, Rebuilt, NoticeLoss, Connect
<1> QED
  BY <1>1, <1>2, <1>3, <1>4, Steps DEF Writing


\* The clock, and the buffer behind it, only move on.
LEMMA Buffered ==
    ASSUME Types, Types', [Next]_vars
    PROVE  Sure \in Int /\ Sure' \in Int /\ Sure <= Sure'
<1>1. head \in Nat /\ head' \in Nat
  BY DEF Types, Blocks
<1>2. Lag \in Nat
  BY LedgerAssumption
<1>3. head <= head'
  <2>1. CASE UNCHANGED head
    BY <1>1, <2>1
  <2>2. CASE Mine
    BY <1>1, <2>2 DEF Mine
  <2> QED
    BY <2>1, <2>2, HeadKept
<1> DEFINE S(h) == 2 * (h - Lag) + 1
<1>4. Sure = S(head) /\ Sure' = S(head')
  BY DEF Sure
<1>5. ASSUME NEW h \in Nat PROVE S(h) \in Int
  BY <1>2
<1>6. ASSUME NEW h \in Nat, NEW k \in Nat, h <= k PROVE S(h) <= S(k)
  BY <1>2, <1>6
<1> HIDE DEF S
<1> QED
  BY <1>1, <1>3, <1>4, <1>5, <1>6

\* A row that is judged stays judged, and is outside the buffer for good.
LEMMA MarkedStep ==
    ASSUME Types, Types', Phases, Phases', Marked, [Next]_vars
    PROVE  Marked'
<1> DEFINE Below(l) == marker # 0 /\ marker <= At(Cut[l])
<1> SUFFICES ASSUME NEW l \in Launches, row'[l] # None, ~row'[l].early
             PROVE  /\ At(Cut[l]) <= Sure'
                    /\ Matches(row'[l], stored', l) \/ Below(l)'
                    /\ pc' = "rebuild" => Matches(row'[l], stored', l) \/ l \in hit'
  BY DEF Marked, Judged
<1> DEFINE c == At(Cut[l])
<1>0. c \in Nat /\ marker \in Nat /\ marker' \in Nat
  <2>1. Cut[l] \in Nat
    BY LedgerAssumption
  <2>2. c \in Nat
    BY <2>1 DEF At
  <2> QED
    BY <2>2 DEF Types
<1>2. Sure \in Int /\ Sure' \in Int /\ Sure <= Sure'
  BY Buffered
<1>a. c <= Sure => c <= Sure'
  <2> HIDE DEF c
  <2> QED
    BY <1>0, <1>2
<1>b. ~(c > Sure) => c <= Sure
  <2> HIDE DEF c
  <2> QED
    BY <1>0, <1>2
<1>3. ASSUME ~Writing
      PROVE  /\ At(Cut[l]) <= Sure'
             /\ Matches(row'[l], stored', l) \/ Below(l)'
             /\ pc' = "rebuild" => Matches(row'[l], stored', l) \/ l \in hit'
  <2>0. UNCHANGED row
    BY <1>3, RowsKept
  <2>1. /\ At(Cut[l]) <= Sure /\ (Matches(row[l], stored, l) \/ Below(l))
        /\ pc = "rebuild" => Matches(row[l], stored, l) \/ l \in hit
    BY <2>0 DEF Marked, Judged
  <2>2. At(Cut[l]) <= Sure'
    BY <1>a, <2>1
  <2>3. CASE UNCHANGED events
    <3>1. Matches(row'[l], stored', l) \/ Below(l)'
      BY <2>0, <2>1, <2>3 DEF events
    <3>2. ASSUME pc' = "rebuild" PROVE Matches(row'[l], stored', l) \/ l \in hit'
      <4>1. CASE pc = "rebuild" /\ hit' = hit
        BY <2>0, <2>1, <2>3, <4>1 DEF events
      <4>2. CASE Finalize
        <5>1. Below(l) => l \in Stale
          BY <1>0, <2>0, <4>2 DEF Stale, Finalize, ledger
        <5> QED
          BY <2>0, <2>1, <2>3, <4>2, <5>1 DEF Finalize, events
      <4> QED
        BY <1>3, <3>2, <4>1, <4>2, RebuildBegins
    <3> QED
      BY <2>2, <3>1, <3>2
  <2>4. CASE Rebuilt
    <3>1. pc = "rebuild" /\ hit = {} /\ stored' = stored /\ pc' # "rebuild"
      BY <2>4 DEF Rebuilt
    <3> QED
      BY <2>0, <2>1, <2>2, <3>1
  <2>5. ASSUME NEW T \in SUBSET Trades, Touched(T), pc' # "rebuild"
        PROVE  Matches(row'[l], stored', l) \/ Below(l)'
    <3>1. CASE marker' <= At(Cut[l])
      BY <2>5, <3>1 DEF Touched
    <3>2. CASE ~(marker' <= At(Cut[l]))
      <4>1. ~Below(l)
        BY <1>0, <2>5, <3>2 DEF Touched
      <4>2. Own(stored', l) = Own(stored, l) /\ Prior(stored', l) = Prior(stored, l)
        BY <2>5, <3>2, CountsKept
      <4> QED
        BY <2>0, <2>1, <4>1, <4>2 DEF Matches
    <3> QED
      BY <3>1, <3>2
  <2>6. CASE IngestHeader
    <3>1. UNCHANGED events \/ Touched(Orphans)
      BY <2>6, Withdrawing
    <3>2. pc' # "rebuild" /\ Orphans \in SUBSET Trades
      BY <2>6 DEF IngestHeader, NextItem, Phases, Orphans
    <3> QED
      BY <2>2, <2>3, <2>5, <3>1, <3>2
  <2>7. CASE IngestStore
    <3>1. UNCHANGED events \/ Touched({Item.trade})
      BY <2>7, Storing
    <3>2. pc' # "rebuild" /\ pc = "ingest"
      BY <2>7 DEF IngestStore, NextItem, Phases
    <3>3. {Item.trade} \in SUBSET Trades
      BY <3>2, InHand DEF Notes
    <3> QED
      BY <2>2, <2>3, <2>5, <3>1, <3>2, <3>3
  <2> QED
    BY <2>3, <2>4, <2>6, <2>7, EventsKept
<1>4. ASSUME NEW m, NEW until, Rebuild(m, until, gaps, boot, cursor, covStart, covEnd),
             UNCHANGED <<gaps, head, events>>,
             pc' # "rebuild" \/ (pc = "rebuild" /\ hit' = hit \ {m} /\ until = Sure)
      PROVE  /\ At(Cut[l]) <= Sure'
             /\ Matches(row'[l], stored', l) \/ Below(l)'
             /\ pc' = "rebuild" => Matches(row'[l], stored', l) \/ l \in hit'
  <2>1. Sure' = Sure /\ UNCHANGED <<stored, marker>>
    BY <1>4 DEF Sure, events
  <2>2. ASSUME row'[l] = row[l]
        PROVE  /\ At(Cut[l]) <= Sure /\ (Matches(row'[l], stored', l) \/ Below(l)')
               /\ pc = "rebuild" => Matches(row'[l], stored', l) \/ l \in hit
    BY <2>1, <2>2 DEF Marked, Judged
  <2>3. CASE l # m
    <3>1. row'[l] = row[l]
      BY <1>4, <2>3, Rebuilding
    <3> QED
      BY <1>4, <2>1, <2>2, <2>3, <3>1
  <2>4. CASE l = m /\ ~(At(Cut[m]) > until)
    <3>1. Matches(row'[l], stored, l) /\ row'[l].early = (At(Cut[l]) > Sure)
      BY <1>4, <2>4, Rebuilding
    <3>2. At(Cut[l]) <= Sure
      BY <1>b, <3>1
    <3> QED
      BY <2>1, <3>1, <3>2
  <2>5. CASE l = m /\ At(Cut[m]) > until
    <3>1. row' = row
      BY <1>4, <2>5, Rebuilding
    <3>2. At(Cut[l]) <= Sure
      BY <2>2, <3>1
    <3>3. pc' # "rebuild"
      BY <1>0, <1>2, <1>4, <2>5, <3>2
    <3> QED
      BY <2>1, <2>2, <3>1, <3>3
  <2> QED
    BY <2>3, <2>4, <2>5
<1>5. ASSUME NEW G, AddGaps(G), UNCHANGED <<head, events>>, pc' = "rebuild" => Launches \subseteq hit'
      PROVE  /\ At(Cut[l]) <= Sure'
             /\ Matches(row'[l], stored', l) \/ Below(l)'
             /\ pc' = "rebuild" => Matches(row'[l], stored', l) \/ l \in hit'
  <2>1. /\ row[l] # None /\ row'[l].own = row[l].own /\ row'[l].prior = row[l].prior
        /\ row'[l].early = row[l].early
    <3>1. CASE l \in Contested(G)
      <4>1. row[l] # None
        BY <3>1 DEF Contested
      <4> QED
        BY <1>5, <3>1, <4>1, Adding
    <3>2. CASE l \notin Contested(G)
      BY <1>5, <3>2, Adding
    <3> QED
      BY <3>1, <3>2
  <2>2. At(Cut[l]) <= Sure /\ (Matches(row[l], stored, l) \/ Below(l))
    BY <2>1 DEF Marked, Judged
  <2> QED
    BY <1>2, <1>0, <1>5, <2>1, <2>2 DEF Matches, Sure, events
<1> QED
  BY <1>3, <1>4, <1>5, RowSteps


\* Gaps are closed only where no row is written.
LEMMA GapsClose ==
    ASSUME [Next]_vars, ~Writing
    PROVE  gaps' \subseteq gaps
<1>1. CASE Mine \/ (\E b \in Blocks : Reorg(b)) \/ LinkDies \/ Crash \/ Deliver \/ UNCHANGED vars
  BY <1>1 DEF Mine, Reorg, LinkDies, Crash, Deliver, vars, ledger
<1>2. CASE IngestHeader \/ IngestStore \/ Wake \/ Ask \/ Answer \/ Promote \/ Recovered
  BY <1>2 DEF IngestHeader, IngestStore, Wake, Ask, Answer, Promote, Recovered, ledger
<1>3. CASE Reconciled \/ Finalize \/ Rebuilt \/ NoticeLoss \/ DrainAfterLoss \/ Connect
  BY <1>3 DEF Reconciled, Finalize, Rebuilt, NoticeLoss, DrainAfterLoss, Connect, ledger
<1> QED
  BY <1>1, <1>2, <1>3, Steps DEF Writing

\* Row and version change together, and a new gap shuts the version it contests.
LEMMA AgreesStep ==
    ASSUME Types, Types', Phases, LedgerAgrees, [Next]_vars
    PROVE  LedgerAgrees'
<1> SUFFICES ASSUME NEW l \in Born, row'[l] # None
             PROVE  /\ version'[l] # None
                    /\ version'[l].own = row'[l].own /\ version'[l].quality = row'[l].quality
                    /\ version'[l].ready => Against(gaps', l) = {}
  BY DEF LedgerAgrees
<1>0. l \in Launches /\ Cut[l] \in Nat /\ Born \subseteq Launches
  BY LedgerAssumption
<1> DEFINE Agreed(gs) ==
      /\ version'[l] # None
      /\ version'[l].own = row'[l].own /\ version'[l].quality = row'[l].quality
      /\ version'[l].ready => Against(gs, l) = {}
<1>1. ASSUME row'[l] = row[l], version'[l] = version[l] PROVE Agreed(gaps)
  BY <1>1 DEF LedgerAgrees
<1>2. ASSUME NEW r \in Rows, NEW bt, NEW cu, version'[l] = Versioned(l, r, bt, cu)
      PROVE  /\ version'[l] # None /\ version'[l].own = r.own /\ version'[l].quality = r.quality
             /\ version'[l].ready => r.quality = "complete"
  <2> DEFINE b == r.quality = "complete" /\ bt[l] = "complete" /\ cu[l] # 0
             v == [own |-> r.own, quality |-> r.quality, ready |-> b]
  <2>1. version'[l] = v
    BY <1>2 DEF Versioned
  <2>2. b \in BOOLEAN
    OBVIOUS
  <2>3. v \in Versions
    <3> HIDE DEF b
    <3> QED
      BY <2>2 DEF Versions, Rows
  <2>4. v # None
    <3> HIDE DEF v
    <3> QED
      BY <2>3, NoneAssumption
  <2>5. v.own = r.own /\ v.quality = r.quality /\ (v.ready => r.quality = "complete")
    OBVIOUS
  <2> HIDE DEF v
  <2> QED
    BY <2>1, <2>4, <2>5
<1>3. CASE ~Writing
  <2>1. row' = row /\ version' = version
    BY <1>3, RowsKept
  <2>2. Agreed(gaps)
    BY <1>1, <2>1
  <2>3. Against(gaps', l) \subseteq Against(gaps, l)
    BY <1>3, GapsClose DEF Against
  <2> QED
    BY <2>2, <2>3
<1>4. ASSUME NEW m, NEW until, Rebuild(m, until, gaps, boot, cursor, covStart, covEnd), gaps' = gaps
      PROVE  Agreed(gaps')
  <2>1. CASE row'[l] = row[l] /\ version'[l] = version[l]
    BY <1>1, <1>4, <2>1
  <2>2. CASE /\ row'[l] \in Rows /\ row'[l].quality = Quality(l, gaps, boot, covStart, covEnd)
             /\ version'[l] = Versioned(l, row'[l], boot, cursor)
    <3>1. Quality(l, gaps, boot, covStart, covEnd) = "complete" => Against(gaps, l) = {}
      BY DEF Quality
    <3> QED
      BY <1>2, <1>4, <2>2, <3>1
  <2> QED
    BY <1>0, <1>4, <2>1, <2>2, Rebuilding
<1>5. ASSUME NEW G, AddGaps(G) PROVE Agreed(gaps')
  <2>1. gaps' = gaps \cup G
    BY <1>5 DEF AddGaps
  <2>2. CASE l \in Contested(G)
    <3>1. /\ row'[l] \in Rows /\ row'[l].quality = "partial"
          /\ version'[l] = Versioned(l, row'[l], boot, cursor)
      BY <1>5, <2>2, Adding
    <3> QED
      BY <1>2, <3>1
  <2>3. CASE l \notin Contested(G)
    <3>1. row'[l] = row[l] /\ version'[l] = version[l]
      BY <1>0, <1>5, <2>3, Adding
    <3>2. Against(G, l) = {}
      BY <1>0, <2>3, <3>1 DEF Contested, Against
    <3>3. Against(gaps', l) = Against(gaps, l) \cup Against(G, l)
      BY <2>1 DEF Against
    <3> QED
      BY <1>1, <3>1, <3>2, <3>3
  <2> QED
    BY <2>2, <2>3
<1> QED
  BY <1>3, <1>4, <1>5, RowSteps

(***************************************************************************)
(* The theorems.                                                           *)
(***************************************************************************)

\* The inductive invariant of the stored trades, the rows and their ledger.
THEOREM InductiveInvariant == Spec => []IInv
<1>1. IInv /\ [Next]_vars => IInv'
  <2> SUFFICES ASSUME IInv, [Next]_vars PROVE IInv'
    OBVIOUS
  <2>1. Types' /\ Phases'
    BY TypesStep, PhasesStep DEF IInv
  <2>2. Marked' /\ LedgerAgrees'
    BY <2>1, MarkedStep, AgreesStep DEF IInv
  <2> QED
    BY <2>1, <2>2 DEF IInv
<1> QED
  BY <1>1, InitInvariant, PTL DEF Spec

\* RowsMatchStore (flow_data.py, _store and rebuild; flow_worker.py, finalize): once no event waits in
\* the durable marker, a row counts what is stored, whatever was withdrawn, mined again or cut off by a crash.
THEOREM RowsCountTheStore == Spec => []RowsMatchStore
<1>1. IInv => RowsMatchStore
  BY DEF IInv, Marked, Judged, Matches, RowsMatchStore
<1> QED
  BY <1>1, InductiveInvariant, PTL

\* LedgerAgrees (flow_data.py, rebuild, gap and _append_feature_version): the last version says what the
\* row says, and none is open to models against an open gap.
THEOREM LedgerSaysWhatRowsSay == Spec => []LedgerAgrees
<1>1. IInv => LedgerAgrees
  BY DEF IInv
<1> QED
  BY <1>1, InductiveInvariant, PTL

(***************************************************************************)
(* Reorganisations on a connection that holds.                             *)
(*                                                                         *)
(* CompleteIsCanonical needs the order of the notices.  Line is all that   *)
(* ingest has still to read: what it has in hand, what waits in the queue  *)
(* and what is on the wire.  A block that is replaced puts a removal on    *)
(* the line for each of its trades, and the new inclusion, if there is     *)
(* one, behind it; a recovery puts what the chain holds now before it, so  *)
(* an old removal may undo it, and the inclusion that follows that removal *)
(* mends this again.  So what is wrong in the store has its removal on the *)
(* line (Unwound), and what the chain holds is stored, or will be and will *)
(* then stand (Seen), unless a gap says that the target is in doubt.       *)
(***************************************************************************)

\* No connection is lost and no process stops.  A removal that is cut off before its gap is
\* committed leaves no trace, and a restart need not read the block the trade is in now.
Connected == MaxStops = 0

\* A row is early only in the block of its cutoff: later, finalize builds it again.
OneBlock == Lag = 1

Line == todo \o queue \o wire

\* After place k the line removes trade x, removes it from block b; it includes x in
\* block b and does not remove it again.
Gone(s, k, x) == \E j \in 1..Len(s) : j > k /\ s[j].trade = x /\ s[j].removed
GoneFrom(s, k, x, b) == \E j \in 1..Len(s) : j > k /\ s[j].trade = x /\ s[j].removed /\ s[j].block = b
Stands(s, x, b) ==
    \E i \in 1..Len(s) : s[i].trade = x /\ ~s[i].removed /\ s[i].block = b /\ ~Gone(s, i, x)

Holds(x, b) == Live(stored, x) /\ stored[x].block = b
Shown(x)    == (Holds(x, loc[x]) /\ ~Gone(Line, 0, x)) \/ Stands(Line, x, loc[x])
Counts(x)   == loc[x] \in Start[Owner[x]]..Cut[Owner[x]]

\* A trade from before the first subscription, which the bootstrap will read.
Answering == pc = "prove" \/ (pc = "ingest" /\ after = "prove")
Answered(l) == reading = l /\ (Answering \/ pc = "promoted")
Owed(x) ==
    /\ cursor[Owner[x]] = 0 /\ ~Answered(Owner[x]) /\ ~Gone(Line, 0, x)
    /\ frozen[Owner[x]] # 0 => loc[x] <= frozen[Owner[x]]

\* A gap no recovery closes is open against the window of l, or about to be.
Contests(g, l) == g.launch = l /\ g.reason = "reorg_unresolved" /\ g.start <= At(Cut[l]) /\ g.end >= At(Start[l])
Naming(l)  == pc = "ingest" /\ step = "gap" /\ l \in hit
Doubted(l) == (\E g \in gaps : Contests(g, l)) \/ (Naming(l) /\ Item.block \in Start[l]..Cut[l])

Unwound ==
    /\ \A i \in 1..Len(Line) : ~Line[i].removed /\ Line[i].block # loc[Line[i].trade] =>
            GoneFrom(Line, i, Line[i].trade, Line[i].block)
    /\ \A x \in Trades : Live(stored, x) /\ stored[x].block # loc[x] => GoneFrom(Line, 0, x, stored[x].block)
Seen == \A x \in Trades : Counts(x) => Shown(x) \/ Owed(x) \/ Doubted(Owner[x])

\* While a bootstrap is stored, all it has read is stored or in hand.
Proving == pc = "promoted" \/ (Answering /\ cursor[reading] = 0)
Read ==
    Proving =>
      /\ \A i \in 1..Len(todo) : ~todo[i].removed /\ todo[i].block = loc[todo[i].trade]
      /\ \A x \in Trades : Owner[x] = reading /\ Counts(x) /\ loc[x] <= upto =>
            \/ Holds(x, loc[x])
            \/ \E i \in 1..Len(todo) : todo[i].trade = x
            \/ Doubted(reading)

\* A row counts trades of its target, and a complete one has no such gap.  One that is early counts
\* what the chain holds, or a removal is on its way that will contest it, or finalize will build it
\* again when the clock has passed it.
Complete(l) == row[l] # None /\ row[l].quality = "complete"
Owned  == \A l \in Launches : row[l] # None => \A x \in row[l].own : Owner[x] = l
Honest == \A l \in Launches : Complete(l) => \A g \in gaps : ~Contests(g, l)
Leaving(l) == \E i \in 1..Len(Line) : Line[i].removed /\ Owner[Line[i].trade] = l /\ Line[i].block <= Cut[l]
Owing(l)   == IF pc = "rebuild" THEN l \in hit ELSE marker # 0 /\ marker <= At(Cut[l])
Early ==
    \A l \in Launches : Complete(l) /\ row[l].early =>
      \/ Naming(l) /\ Item.block <= Cut[l]
      \/ Leaving(l)
      \/ \A x \in Trades : Owner[x] = l =>
           \/ x \in row[l].own <=> Counts(x)
           \/ head > Cut[l] /\ Counts(x) /\ x \notin row[l].own /\ (x \in Own(stored, l) => Owing(l))

\* Where the worker can be, and what it knows there.
Control ==
    /\ up /\ unheard = {} /\ stops = 0
    /\ pc \in {"sleep", "read", "reconcile", "ingest", "prove", "promoted", "finalize", "rebuild"}
    /\ pc = "ingest" => after \in {"reconcile", "prove", "finalize"}
    /\ pc # "ingest" => todo = <<>>
    /\ Answering \/ pc \in {"read", "promoted"} => reading \in Launches
    /\ pc = "ingest" /\ step = "removed" => Item.removed /\ ~Live(stored, Item.trade)
    /\ pc = "ingest" /\ step = "gap" => hit # {}
    /\ pc = "rebuild" \/ (pc = "ingest" /\ step = "gap") => hit \subseteq Launches
    /\ dirty \subseteq Launches

\* Where the clock, the bootstraps and the rows are.
Clocked ==
    /\ \A l \in Launches : Start[l] <= head /\ (row[l] # None => Cut[l] <= head)
    /\ \A x \in Trades : loc[x] <= head
    /\ covEnd \in [Launches -> Int]
    /\ \A l \in Launches : cursor[l] = 0 => l \in pending /\ (covEnd[l] <= Sure \/ covEnd[l] = 0) /\ frozen[l] <= head
    /\ Answering \/ pc = "read" => upto # 0 /\ (cursor[reading] = 0 => upto = frozen[reading])
    /\ pc = "promoted" => covEnd[reading] <= Sure \/ covEnd[reading] <= At(upto)

CInv == Control /\ Clocked /\ Unwound /\ Seen /\ Read /\ Owned /\ Honest

(***************************************************************************)
(* What the steps do to the line.                                          *)
(***************************************************************************)
Like(n, m)    == n.trade = m.trade /\ n.block = m.block /\ n.removed = m.removed
Same(s, u)    == Len(u) = Len(s) /\ \A i \in 1..Len(s) : Like(u[i], s[i])
TailOf(s, u)  == Len(s) > 0 /\ Len(u) = Len(s) - 1 /\ \A i \in 1..Len(u) : u[i] = s[i + 1]
FirstStands(s, u, x, b) == s[1].trade = x /\ ~s[1].removed /\ s[1].block = b /\ ~Gone(u, 0, x)
More(s, t, u) == /\ Len(u) = Len(s) + Len(t)
                 /\ \A i \in 1..Len(s) : u[i] = s[i]
                 /\ \A i \in 1..Len(t) : u[Len(s) + i] = t[i]

\* The line is a sequence of notices, and the item in hand is its first.
LEMMA LineType ==
    ASSUME Types
    PROVE  Line \in Seq(Notes) /\ Len(Line) \in Nat /\ \A i \in 1..Len(Line) : Line[i] \in Notes
<1>1. Line \in Seq(Notes)
  BY DEF Types, Line
<1> QED
  BY <1>1

LEMMA LineHead ==
    ASSUME Types, todo # <<>>
    PROVE  Len(Line) > 0 /\ Line[1] = Item
<1> DEFINE r == queue \o wire
<1>1. todo \in Seq(Notes) /\ queue \in Seq(Notes) /\ wire \in Seq(Notes)
  BY DEF Types
<1>2. r \in Seq(Notes) /\ Line = todo \o r
  BY <1>1, ConcatAssociative DEF Line
<1>3. Len(todo) \in Nat \ {0} /\ Len(r) \in Nat
  BY <1>1, <1>2, EmptySeq
<1>4. Line[1] = todo[1] /\ Len(Line) = Len(todo) + Len(r)
  <2> HIDE DEF r
  <2> QED
    BY <1>1, <1>2, <1>3, ConcatProperties
<1>5. todo[1] = Item
  BY <1>1 DEF Item
<1> QED
  BY <1>3, <1>4, <1>5

\* What waits is in hand, queued or on the wire: moving it leaves the line as it is.
LEMMA LineMoves ==
    ASSUME Types, Types', todo = <<>>
    PROVE  /\ todo' = queue /\ queue' = <<>> /\ wire' = wire => Line' = Line
           /\ Deliver => Same(Line, Line')
<1>1. todo = <<>> /\ queue \in Seq(Notes) /\ wire \in Seq(Notes) /\ queue' \in Seq(Notes) /\ wire' \in Seq(Notes)
      /\ todo' \in Seq(Notes)
  BY DEF Types
<1>2. Line = queue \o wire
  BY <1>1, ConcatEmptySeq DEF Line
<1>3. ASSUME todo' = queue, queue' = <<>>, wire' = wire PROVE Line' = Line
  <2>1. queue \o <<>> = queue
    BY <1>1, ConcatEmptySeq
  <2>2. Line' = (queue \o <<>>) \o wire
    BY <1>3 DEF Line
  <2> QED
    BY <1>2, <2>1, <2>2
<1>4. ASSUME Deliver PROVE Same(Line, Line')
  <2> DEFINE m == [Head(wire) EXCEPT !.born = 0]
  <2>1. wire # <<>> /\ wire' = Tail(wire) /\ queue' = Append(queue, m) /\ todo' = todo
    BY <1>4 DEF Deliver, work
  <2>2. Line' = queue' \o wire'
    BY <1>1, <2>1, ConcatEmptySeq DEF Line
  <2>3. Len(wire) \in Nat \ {0} /\ Len(queue) \in Nat /\ Head(wire) = wire[1] /\ Head(wire) \in Notes
    BY <1>1, <2>1, EmptySeq
  <2>4. Like(m, wire[1])
    BY <2>3 DEF Like, Notes
  <2>5. Len(wire') = Len(wire) - 1 /\ \A i \in 1..Len(wire') : wire'[i] = wire[i + 1]
    BY <1>1, <2>1, HeadTailProperties
  <2> HIDE DEF m
  <2>6. Len(queue') = Len(queue) + 1 /\ queue'[Len(queue) + 1] = m /\ \A i \in 1..Len(queue) : queue'[i] = queue[i]
    BY <1>1, <2>1
  <2>7. Len(Line) = Len(queue) + Len(wire) /\ \A i \in 1..Len(Line) :
          Line[i] = IF i <= Len(queue) THEN queue[i] ELSE wire[i - Len(queue)]
    BY <1>1, <1>2, ConcatProperties
  <2>8. Len(Line') = Len(queue') + Len(wire') /\ \A i \in 1..Len(Line') :
          Line'[i] = IF i <= Len(queue') THEN queue'[i] ELSE wire'[i - Len(queue')]
    BY <1>1, <2>2, ConcatProperties
  <2>9. Len(Line') = Len(Line)
    BY <2>3, <2>5, <2>6, <2>7, <2>8
  <2>10. ASSUME NEW i \in 1..Len(Line) PROVE Like(Line'[i], Line[i])
    <3>1. CASE i <= Len(queue)
      <4>1. i \in 1..Len(queue) /\ i <= Len(queue') /\ i \in 1..Len(Line')
        BY <2>3, <2>6, <2>7, <2>9, <3>1
      <4>2. Line'[i] = Line[i]
        BY <2>6, <2>7, <2>8, <3>1, <4>1
      <4> QED
        BY <4>2 DEF Like
    <3>2. CASE i = Len(queue) + 1
      <4>1. i \in 1..Len(Line') /\ i <= Len(queue') /\ ~(i <= Len(queue)) /\ i - Len(queue) = 1
        BY <2>3, <2>6, <2>7, <2>9, <3>2
      <4>2. Line'[i] = m /\ Line[i] = wire[1]
        BY <2>6, <2>7, <2>8, <3>2, <4>1
      <4> QED
        BY <2>4, <4>2
    <3>3. CASE i > Len(queue) + 1
      <4>1. i \in 1..Len(Line') /\ ~(i <= Len(queue')) /\ ~(i <= Len(queue))
        BY <2>3, <2>6, <2>7, <2>9, <3>3
      <4>2. i - Len(queue') \in 1..Len(wire') /\ (i - Len(queue')) + 1 = i - Len(queue)
        BY <2>3, <2>5, <2>6, <2>7, <3>3
      <4>3. Line'[i] = Line[i]
        BY <2>5, <2>7, <2>8, <4>1, <4>2
      <4> QED
        BY <4>3 DEF Like
    <3>4. Len(queue) \in Nat /\ i \in Nat
      BY <2>3, <2>7
    <3> QED
      BY <3>1, <3>2, <3>3, <3>4
  <2> QED
    BY <2>9, <2>10 DEF Same
<1> QED
  BY <1>3, <1>4

\* An item that is done leaves the line, new notices join its end, and logs its front.
LEMMA LineTail ==
    ASSUME Types, Types', todo # <<>>, todo' = Tail(todo), UNCHANGED <<queue, wire>>
    PROVE  TailOf(Line, Line')
<1> DEFINE r == queue \o wire
<1>1. todo \in Seq(Notes) /\ queue \in Seq(Notes) /\ wire \in Seq(Notes) /\ todo' \in Seq(Notes)
  BY DEF Types
<1>2. r \in Seq(Notes) /\ Line = todo \o r /\ Line' = todo' \o r
  <2>1. r \in Seq(Notes)
    BY <1>1
  <2>2. (todo \o queue) \o wire = todo \o r
    BY <1>1, ConcatAssociative
  <2>3. (todo' \o queue) \o wire = todo' \o r
    BY <1>1, ConcatAssociative
  <2> QED
    BY <2>1, <2>2, <2>3 DEF Line
<1>3. Len(todo) \in Nat \ {0} /\ Len(r) \in Nat
  BY <1>1, <1>2, EmptySeq
<1>4. Len(todo') = Len(todo) - 1 /\ \A i \in 1..Len(todo') : todo'[i] = todo[i + 1]
  BY <1>1, HeadTailProperties
<1> HIDE DEF r
<1>5. Len(Line) = Len(todo) + Len(r) /\ \A i \in 1..Len(Line) : Line[i] = IF i <= Len(todo) THEN todo[i] ELSE r[i - Len(todo)]
  BY <1>1, <1>2, ConcatProperties
<1>6. Len(Line') = Len(todo') + Len(r) /\ \A i \in 1..Len(Line') : Line'[i] = IF i <= Len(todo') THEN todo'[i] ELSE r[i - Len(todo')]
  BY <1>1, <1>2, ConcatProperties
<1>7. Len(Line) > 0 /\ Len(Line') = Len(Line) - 1
  BY <1>3, <1>4, <1>5, <1>6
<1>8. ASSUME NEW i \in 1..Len(Line') PROVE Line'[i] = Line[i + 1]
  <2>1. i + 1 \in 1..Len(Line) /\ i \in Nat
    BY <1>3, <1>5, <1>7
  <2>2. CASE i <= Len(todo')
    <3>1. i \in 1..Len(todo') /\ i + 1 <= Len(todo)
      BY <1>3, <1>4, <2>1, <2>2
    <3> QED
      BY <1>4, <1>5, <1>6, <2>1, <2>2, <3>1
  <2>3. CASE ~(i <= Len(todo'))
    <3>1. ~(i + 1 <= Len(todo)) /\ i - Len(todo') = (i + 1) - Len(todo)
      BY <1>3, <1>4, <2>1, <2>3
    <3> QED
      BY <1>5, <1>6, <2>1, <2>3, <3>1
  <2> QED
    BY <2>2, <2>3
<1> QED
  BY <1>7, <1>8 DEF TailOf

LEMMA LineMore ==
    ASSUME Types, NEW t \in Seq(Notes), wire' = wire \o t, UNCHANGED <<todo, queue>>
    PROVE  More(Line, t, Line')
<1> DEFINE r == todo \o queue
<1>1. r \in Seq(Notes) /\ wire \in Seq(Notes) /\ Line \in Seq(Notes)
  BY DEF Types, Line
<1>2. Line' = Line \o t
  <2>1. (r \o wire) \o t = r \o (wire \o t)
    <3> HIDE DEF r
    <3> QED
      BY <1>1, ConcatAssociative
  <2> QED
    BY <2>1 DEF Line
<1>3. /\ Len(Line \o t) = Len(Line) + Len(t)
      /\ \A i \in 1..Len(Line) + Len(t) : (Line \o t)[i] = IF i <= Len(Line) THEN Line[i] ELSE t[i - Len(Line)]
  BY <1>1, ConcatProperties
<1>4. Len(Line) \in Nat /\ Len(t) \in Nat
  BY <1>1
<1>5. ASSUME NEW i \in 1..Len(Line) PROVE Line'[i] = Line[i]
  <2>1. i \in 1..Len(Line) + Len(t) /\ i <= Len(Line)
    BY <1>4
  <2> QED
    BY <1>2, <1>3, <2>1
<1>6. ASSUME NEW i \in 1..Len(t) PROVE Line'[Len(Line) + i] = t[i]
  <2>1. Len(Line) + i \in 1..Len(Line) + Len(t) /\ ~(Len(Line) + i <= Len(Line)) /\ (Len(Line) + i) - Len(Line) = i
    BY <1>4
  <2> QED
    BY <1>2, <1>3, <2>1
<1> QED
  BY <1>2, <1>3, <1>5, <1>6 DEF More

LEMMA LineRead ==
    ASSUME Types, NEW t \in Seq(Notes), todo = <<>>, todo' = t, UNCHANGED <<queue, wire>>
    PROVE  More(t, Line, Line')
<1> DEFINE r == queue \o wire
<1>1. queue \in Seq(Notes) /\ wire \in Seq(Notes) /\ r \in Seq(Notes)
  BY DEF Types
<1>2. Line = r /\ Line' = t \o r
  BY <1>1, ConcatEmptySeq, ConcatAssociative DEF Line
<1> HIDE DEF r
<1>3. /\ Len(t \o r) = Len(t) + Len(r)
      /\ \A i \in 1..Len(t) + Len(r) : (t \o r)[i] = IF i <= Len(t) THEN t[i] ELSE r[i - Len(t)]
  BY <1>1, ConcatProperties
<1>4. Len(r) \in Nat /\ Len(t) \in Nat
  BY <1>1
<1>5. ASSUME NEW i \in 1..Len(t) PROVE Line'[i] = t[i]
  <2>1. i \in 1..Len(t) + Len(r) /\ i <= Len(t)
    BY <1>4
  <2> QED
    BY <1>2, <1>3, <2>1
<1>6. ASSUME NEW i \in 1..Len(r) PROVE Line'[Len(t) + i] = r[i]
  <2>1. Len(t) + i \in 1..Len(t) + Len(r) /\ ~(Len(t) + i <= Len(t)) /\ (Len(t) + i) - Len(t) = i
    BY <1>4
  <2> QED
    BY <1>2, <1>3, <2>1
<1> QED
  BY <1>2, <1>3, <1>5, <1>6 DEF More

(***************************************************************************)
(* What can be read off a line that has moved.                             *)
(***************************************************************************)

\* Order is all that matters, not how far a notice has come.
LEMMA SameReads ==
    ASSUME NEW s \in Seq(Notes), NEW u \in Seq(Notes), Same(s, u)
    PROVE  \A x, b : /\ \A k \in Nat : Gone(u, k, x) <=> Gone(s, k, x)
                     /\ \A k \in Nat : GoneFrom(u, k, x, b) <=> GoneFrom(s, k, x, b)
                     /\ Stands(s, x, b) => Stands(u, x, b)
<1>1. Len(u) = Len(s) /\ Len(s) \in Nat /\ \A i \in 1..Len(s) : Like(u[i], s[i])
  BY DEF Same
<1> SUFFICES ASSUME NEW x, NEW b
             PROVE  /\ \A k \in Nat : Gone(u, k, x) <=> Gone(s, k, x)
                    /\ \A k \in Nat : GoneFrom(u, k, x, b) <=> GoneFrom(s, k, x, b)
                    /\ Stands(s, x, b) => Stands(u, x, b)
  OBVIOUS
<1>2. \A k \in Nat : Gone(u, k, x) <=> Gone(s, k, x)
  BY <1>1 DEF Gone, Like
<1>3. \A k \in Nat : GoneFrom(u, k, x, b) <=> GoneFrom(s, k, x, b)
  BY <1>1 DEF GoneFrom, Like
<1>4. Stands(s, x, b) => Stands(u, x, b)
  BY <1>1, <1>2 DEF Stands, Like
<1> QED
  BY <1>2, <1>3, <1>4

\* Without its first item the line says what it said behind it.
LEMMA TailReads ==
    ASSUME NEW s \in Seq(Notes), NEW u \in Seq(Notes), TailOf(s, u)
    PROVE  \A x, b :
             /\ \A k \in Nat : Gone(u, k, x) <=> Gone(s, k + 1, x)
             /\ \A k \in Nat : GoneFrom(u, k, x, b) <=> GoneFrom(s, k + 1, x, b)
             /\ Gone(u, 0, x) => Gone(s, 0, x)
             /\ GoneFrom(s, 0, x, b) => GoneFrom(u, 0, x, b) \/ (s[1].trade = x /\ s[1].removed)
             /\ Stands(s, x, b) => Stands(u, x, b) \/ FirstStands(s, u, x, b)
<1>1. /\ Len(s) \in Nat /\ Len(u) \in Nat /\ Len(s) > 0 /\ Len(u) = Len(s) - 1
      /\ \A i \in 1..Len(u) : u[i] = s[i + 1]
  BY DEF TailOf
<1>2. ASSUME NEW j \in 1..Len(s), j > 1 PROVE j - 1 \in 1..Len(u) /\ u[j - 1] = s[j] /\ j - 1 \in Nat /\ (j - 1) + 1 = j
  <2>1. j - 1 \in 1..Len(u) /\ (j - 1) + 1 = j
    BY <1>1, <1>2
  <2> QED
    BY <1>1, <2>1
<1>3. ASSUME NEW j \in 1..Len(u) PROVE j + 1 \in 1..Len(s) /\ u[j] = s[j + 1]
  BY <1>1
<1> SUFFICES ASSUME NEW x, NEW b
             PROVE  /\ \A k \in Nat : Gone(u, k, x) <=> Gone(s, k + 1, x)
                    /\ \A k \in Nat : GoneFrom(u, k, x, b) <=> GoneFrom(s, k + 1, x, b)
                    /\ Gone(u, 0, x) => Gone(s, 0, x)
                    /\ GoneFrom(s, 0, x, b) => GoneFrom(u, 0, x, b) \/ (s[1].trade = x /\ s[1].removed)
                    /\ Stands(s, x, b) => Stands(u, x, b) \/ FirstStands(s, u, x, b)
  OBVIOUS
<1>4. ASSUME NEW k \in Nat PROVE Gone(u, k, x) <=> Gone(s, k + 1, x)
  <2>1. ASSUME NEW j \in 1..Len(u), j > k, u[j].trade = x, u[j].removed PROVE Gone(s, k + 1, x)
    <3>1. j + 1 \in 1..Len(s) /\ u[j] = s[j + 1] /\ j + 1 > k + 1
      BY <1>1, <1>3, <2>1
    <3> QED
      BY <2>1, <3>1 DEF Gone
  <2>2. ASSUME NEW j \in 1..Len(s), j > k + 1, s[j].trade = x, s[j].removed PROVE Gone(u, k, x)
    <3>1. j > 1 /\ j - 1 > k
      BY <1>1, <2>2
    <3>2. j - 1 \in 1..Len(u) /\ u[j - 1] = s[j]
      BY <1>2, <3>1
    <3> QED
      BY <2>2, <3>1, <3>2 DEF Gone
  <2> QED
    BY <2>1, <2>2 DEF Gone
<1>5. ASSUME NEW k \in Nat PROVE GoneFrom(u, k, x, b) <=> GoneFrom(s, k + 1, x, b)
  <2>1. ASSUME NEW j \in 1..Len(u), j > k, u[j].trade = x, u[j].removed, u[j].block = b PROVE GoneFrom(s, k + 1, x, b)
    <3>1. j + 1 \in 1..Len(s) /\ u[j] = s[j + 1] /\ j + 1 > k + 1
      BY <1>1, <1>3, <2>1
    <3> QED
      BY <2>1, <3>1 DEF GoneFrom
  <2>2. ASSUME NEW j \in 1..Len(s), j > k + 1, s[j].trade = x, s[j].removed, s[j].block = b PROVE GoneFrom(u, k, x, b)
    <3>1. j > 1 /\ j - 1 > k
      BY <1>1, <2>2
    <3>2. j - 1 \in 1..Len(u) /\ u[j - 1] = s[j]
      BY <1>2, <3>1
    <3> QED
      BY <2>2, <3>1, <3>2 DEF GoneFrom
  <2> QED
    BY <2>1, <2>2 DEF GoneFrom
<1>6. Gone(u, 0, x) => Gone(s, 0, x)
  <2>1. Gone(s, 0 + 1, x) => Gone(s, 0, x)
    BY <1>1 DEF Gone
  <2> QED
    BY <1>4, <2>1
<1>7. GoneFrom(s, 0, x, b) => GoneFrom(u, 0, x, b) \/ (s[1].trade = x /\ s[1].removed)
  <2>1. GoneFrom(s, 0, x, b) => GoneFrom(s, 0 + 1, x, b) \/ (s[1].trade = x /\ s[1].removed)
    BY <1>1 DEF GoneFrom
  <2> QED
    BY <1>5, <2>1
<1>8. Stands(s, x, b) => Stands(u, x, b) \/ FirstStands(s, u, x, b)
  <2> SUFFICES ASSUME NEW i \in 1..Len(s), s[i].trade = x, ~s[i].removed, s[i].block = b, ~Gone(s, i, x)
               PROVE  Stands(u, x, b) \/ FirstStands(s, u, x, b)
    BY DEF Stands
  <2>1. CASE i = 1
    <3>1. 0 \in Nat /\ 0 + 1 = 1
      OBVIOUS
    <3>2. ~Gone(u, 0, x)
      BY <1>4, <2>1, <3>1
    <3> QED
      BY <2>1, <3>2 DEF FirstStands
  <2>2. CASE i > 1
    <3>1. i - 1 \in 1..Len(u) /\ u[i - 1] = s[i] /\ i - 1 \in Nat /\ (i - 1) + 1 = i
      BY <1>2, <2>2
    <3>2. ~Gone(u, i - 1, x)
      BY <1>4, <3>1
    <3> QED
      BY <3>1, <3>2 DEF Stands
  <2>3. i = 1 \/ i > 1
    BY <1>1
  <2> QED
    BY <2>1, <2>2, <2>3
<1>9. \A k \in Nat : Gone(u, k, x) <=> Gone(s, k + 1, x)
  BY <1>4
<1>10. \A k \in Nat : GoneFrom(u, k, x, b) <=> GoneFrom(s, k + 1, x, b)
  BY <1>5
<1> QED
  BY <1>6, <1>7, <1>8, <1>9, <1>10

\* What is put before or behind.
LEMMA MoreReads ==
    ASSUME NEW s \in Seq(Notes), NEW t \in Seq(Notes), NEW u \in Seq(Notes), More(s, t, u)
    PROVE  \A x, b :
             /\ Gone(u, 0, x) <=> Gone(s, 0, x) \/ Gone(t, 0, x)
             /\ \A k \in 0..Len(s) : GoneFrom(s, k, x, b) \/ GoneFrom(t, 0, x, b) => GoneFrom(u, k, x, b)
             /\ \A k \in Nat : GoneFrom(t, k, x, b) => GoneFrom(u, Len(s) + k, x, b)
             /\ Stands(s, x, b) /\ ~Gone(t, 0, x) => Stands(u, x, b)
             /\ Stands(t, x, b) => Stands(u, x, b)
<1>1. /\ Len(s) \in Nat /\ Len(t) \in Nat /\ Len(u) = Len(s) + Len(t)
      /\ \A i \in 1..Len(s) : u[i] = s[i] /\ i \in 1..Len(u)
      /\ \A i \in 1..Len(t) : u[Len(s) + i] = t[i] /\ Len(s) + i \in 1..Len(u)
  <2>1. Len(s) \in Nat /\ Len(t) \in Nat
    OBVIOUS
  <2> QED
    BY <2>1 DEF More
<1>2. ASSUME NEW j \in 1..Len(u), ~(j <= Len(s))
      PROVE  j - Len(s) \in 1..Len(t) /\ u[j] = t[j - Len(s)]
  <2>1. j - Len(s) \in 1..Len(t) /\ Len(s) + (j - Len(s)) = j
    BY <1>1, <1>2
  <2> QED
    BY <1>1, <2>1
<1>3. ASSUME NEW j \in 1..Len(u), j <= Len(s) PROVE j \in 1..Len(s) /\ u[j] = s[j]
  BY <1>1, <1>3
<1> SUFFICES ASSUME NEW x, NEW b
             PROVE  /\ Gone(u, 0, x) <=> Gone(s, 0, x) \/ Gone(t, 0, x)
                    /\ \A k \in 0..Len(s) : GoneFrom(s, k, x, b) \/ GoneFrom(t, 0, x, b) => GoneFrom(u, k, x, b)
                    /\ \A k \in Nat : GoneFrom(t, k, x, b) => GoneFrom(u, Len(s) + k, x, b)
                    /\ Stands(s, x, b) /\ ~Gone(t, 0, x) => Stands(u, x, b)
                    /\ Stands(t, x, b) => Stands(u, x, b)
  OBVIOUS
<1>4. ASSUME NEW k \in 0..Len(s), Gone(u, k, x) PROVE Gone(s, k, x) \/ Gone(t, 0, x)
  <2>1. PICK j \in 1..Len(u) : j > k /\ u[j].trade = x /\ u[j].removed
    BY <1>4 DEF Gone
  <2>2. CASE j <= Len(s)
    <3>1. j \in 1..Len(s) /\ u[j] = s[j]
      BY <1>3, <2>2
    <3> QED
      BY <2>1, <3>1 DEF Gone
  <2>3. CASE ~(j <= Len(s))
    <3>1. j - Len(s) \in 1..Len(t) /\ u[j] = t[j - Len(s)] /\ j - Len(s) > 0
      BY <1>1, <1>2, <2>3
    <3> QED
      BY <2>1, <3>1 DEF Gone
  <2> QED
    BY <2>2, <2>3
<1>5. Gone(u, 0, x) <=> Gone(s, 0, x) \/ Gone(t, 0, x)
  <2>1. Gone(s, 0, x) => Gone(u, 0, x)
    BY <1>1 DEF Gone
  <2>2. ASSUME NEW i \in 1..Len(t), t[i].trade = x, t[i].removed PROVE Gone(u, 0, x)
    <3>1. u[Len(s) + i] = t[i] /\ Len(s) + i \in 1..Len(u) /\ Len(s) + i > 0
      BY <1>1
    <3> QED
      BY <2>2, <3>1 DEF Gone
  <2>3. Gone(t, 0, x) => Gone(u, 0, x)
    BY <2>2 DEF Gone
  <2>4. 0 \in 0..Len(s)
    BY <1>1
  <2> QED
    BY <1>4, <2>1, <2>3, <2>4
<1>6. ASSUME NEW k \in Nat, GoneFrom(t, k, x, b) PROVE GoneFrom(u, Len(s) + k, x, b)
  <2>1. PICK i \in 1..Len(t) : i > k /\ t[i].trade = x /\ t[i].removed /\ t[i].block = b
    BY <1>6 DEF GoneFrom
  <2>2. u[Len(s) + i] = t[i] /\ Len(s) + i \in 1..Len(u) /\ Len(s) + i > Len(s) + k
    BY <1>1, <2>1
  <2> QED
    BY <2>1, <2>2 DEF GoneFrom
<1>7. ASSUME NEW k \in 0..Len(s), GoneFrom(s, k, x, b) \/ GoneFrom(t, 0, x, b) PROVE GoneFrom(u, k, x, b)
  <2>1. GoneFrom(s, k, x, b) => GoneFrom(u, k, x, b)
    BY <1>1 DEF GoneFrom
  <2>2. ASSUME NEW i \in 1..Len(t), t[i].trade = x, t[i].removed, t[i].block = b PROVE GoneFrom(u, k, x, b)
    <3>1. u[Len(s) + i] = t[i] /\ Len(s) + i \in 1..Len(u) /\ Len(s) + i > k
      BY <1>1
    <3> QED
      BY <2>2, <3>1 DEF GoneFrom
  <2>3. GoneFrom(t, 0, x, b) => GoneFrom(u, k, x, b)
    BY <2>2 DEF GoneFrom
  <2> QED
    BY <1>7, <2>1, <2>3
<1>8. ASSUME Stands(s, x, b), ~Gone(t, 0, x) PROVE Stands(u, x, b)
  <2>1. PICK i \in 1..Len(s) : s[i].trade = x /\ ~s[i].removed /\ s[i].block = b /\ ~Gone(s, i, x)
    BY <1>8 DEF Stands
  <2>2. i \in 0..Len(s) /\ u[i] = s[i] /\ i \in 1..Len(u)
    BY <1>1
  <2>3. ~Gone(u, i, x)
    BY <1>4, <1>8, <2>1, <2>2
  <2> QED
    BY <2>1, <2>2, <2>3 DEF Stands
<1>9. ASSUME Stands(t, x, b) PROVE Stands(u, x, b)
  <2>1. PICK i \in 1..Len(t) : t[i].trade = x /\ ~t[i].removed /\ t[i].block = b /\ ~Gone(t, i, x)
    BY <1>9 DEF Stands
  <2>2. u[Len(s) + i] = t[i] /\ Len(s) + i \in 1..Len(u)
    BY <1>1
  <2>3. ASSUME NEW j \in 1..Len(u), j > Len(s) + i, u[j].trade = x, u[j].removed PROVE FALSE
    <3>1. ~(j <= Len(s)) /\ j - Len(s) > i
      BY <1>1, <2>3
    <3>2. j - Len(s) \in 1..Len(t) /\ u[j] = t[j - Len(s)]
      BY <1>2, <3>1
    <3> QED
      BY <2>1, <2>3, <3>1, <3>2 DEF Gone
  <2>4. ~Gone(u, Len(s) + i, x)
    BY <2>3 DEF Gone
  <2> QED
    BY <2>1, <2>2, <2>4 DEF Stands
<1> QED
  BY <1>5, <1>6, <1>7, <1>8, <1>9

(***************************************************************************)
(* The worker's control and its clocks.                                    *)
(***************************************************************************)

\* The steps that are left.
LEMMA CSteps ==
    ASSUME Connected, Control, [Next]_vars
    PROVE  \/ Mine \/ (\E b \in Blocks : Reorg(b)) \/ Deliver \/ UNCHANGED vars
           \/ IngestHeader \/ ReorgGap \/ IngestStore \/ IngestRemoved \/ Wake \/ Ask \/ Answer
           \/ Promote \/ RebuildPromoted \/ Recovered \/ Reconciled \/ Finalize \/ RebuildNext \/ Rebuilt
<1>1. ~LinkDies /\ ~Crash
  BY DEF Control, Connected, LinkDies, Crash
<1>2. ~NoticeLoss /\ ~HandleLoss /\ ~DrainAfterLoss /\ ~StartUncertain /\ ~Connect
  BY DEF Control, NoticeLoss, HandleLoss, DrainAfterLoss, StartUncertain, Connect
<1> QED
  BY <1>1, <1>2, Steps

\* A notice says whether it removes, and of which target.
LEMMA ItemFields ==
    ASSUME Types, Phases, pc = "ingest"
    PROVE  /\ Item.trade \in Trades /\ Item.block \in Nat \ {0} /\ Item.removed \in BOOLEAN
           /\ Target \in Launches
<1>1. Item \in Notes
  BY InHand
<1> QED
  BY <1>1, LedgerAssumption DEF Notes, Target

\* Going on to the next item, or to what follows.
LEMMA NextControl ==
    ASSUME Types, Phases, Control, pc = "ingest", NextItem, UNCHANGED <<after, reading>>
    PROVE  /\ pc' \in {"reconcile", "prove", "finalize", "ingest"}
           /\ pc' = "ingest" => after' \in {"reconcile", "prove", "finalize"}
           /\ pc' # "ingest" => todo' = <<>>
           /\ Answering' \/ pc' \in {"read", "promoted"} => reading' \in Launches
           /\ step' = "header"
           /\ Answering' => Answering
<1>1. todo \in Seq(Notes) /\ todo # <<>> /\ todo' = Tail(todo) /\ step' = "header"
      /\ pc' = IF Len(todo) = 1 THEN after ELSE "ingest"
  BY DEF Types, Phases, NextItem
<1>2. after \in {"reconcile", "prove", "finalize"}
  BY DEF Control
<1>3. Len(todo) = 1 => Tail(todo) = <<>>
  <2>1. Tail(todo) \in Seq(Notes) /\ Len(Tail(todo)) = Len(todo) - 1
    BY <1>1, HeadTailProperties
  <2>2. Tail(todo) # <<>> => Len(Tail(todo)) \in Nat \ {0}
    BY <2>1, EmptySeq
  <2> QED
    BY <2>1, <2>2
<1>4. Answering' => Answering
  BY <1>1, <1>2 DEF Answering
<1>5. Answering => reading \in Launches
  BY DEF Control
<1> QED
  BY <1>1, <1>2, <1>3, <1>4, <1>5

LEMMA ControlStep ==
    ASSUME Connected, Types, Types', Phases, Control, [Next]_vars
    PROVE  Control'
<1>0. /\ up /\ unheard = {} /\ stops = 0
      /\ pc \in {"sleep", "read", "reconcile", "ingest", "prove", "promoted", "finalize", "rebuild"}
      /\ pc # "ingest" => todo = <<>>
      /\ pc = "rebuild" \/ (pc = "ingest" /\ step = "gap") => hit \subseteq Launches
      /\ dirty \subseteq Launches
  BY DEF Control
<1>1. CASE Mine \/ (\E b \in Blocks : Reorg(b)) \/ Deliver
  <2>1. /\ UNCHANGED <<up, stops, pc, after, step, reading, stored, hit, dirty>> /\ unheard' = {}
        /\ todo' = todo /\ pc # "ingest"
    BY <1>0, <1>1 DEF Mine, Reorg, Deliver, Waiting, work, ask, memory, events, faults
  <2> QED
    BY <2>1 DEF Control, Answering
<1>2. CASE UNCHANGED vars
  BY <1>2 DEF vars, Control, Answering, work, ask, memory, events, faults, Item, Live
<1>3. CASE IngestHeader
  <2>1. /\ pc = "ingest" /\ step = "header" /\ UNCHANGED <<up, unheard, stops, after, reading, dirty>>
        /\ \/ Clashes /\ hit' = {Owner[x] : x \in Orphans} \cup {Target} /\ step' = "gap" /\ UNCHANGED <<pc, todo>>
           \/ step' = "store" /\ UNCHANGED <<pc, todo>>
           \/ NextItem
    BY <1>3 DEF IngestHeader, ask, faults
  <2>2. Target \in Launches /\ \A x \in Orphans : Owner[x] \in Launches
    BY <2>1, ItemFields, LedgerAssumption DEF Orphans
  <2>3. CASE Clashes /\ hit' = {Owner[x] : x \in Orphans} \cup {Target} /\ step' = "gap" /\ UNCHANGED <<pc, todo>>
    <3>1. hit' # {} /\ hit' \subseteq Launches
      BY <2>2, <2>3
    <3> QED
      BY <2>1, <2>3, <3>1 DEF Control, Answering
  <2>4. CASE step' = "store" /\ UNCHANGED <<pc, todo>>
    BY <2>1, <2>4 DEF Control, Answering
  <2>5. CASE NextItem
    BY <1>0, <2>1, <2>5, NextControl DEF Control
  <2> QED
    BY <2>1, <2>3, <2>4, <2>5
<1>4. CASE ReorgGap
  <2>1. /\ pc = "ingest" /\ step = "gap" /\ UNCHANGED <<up, unheard, stops, after, reading>>
        /\ hit' \subseteq hit
        /\ \/ hit' # {} /\ UNCHANGED <<pc, todo, step, dirty>>
           \/ step' = "store" /\ UNCHANGED <<pc, todo>>
           \/ NextItem
    BY <1>4 DEF ReorgGap, ask, faults
  <2>2. dirty' \subseteq Launches
    <3>1. dirty' = dirty \/ \E S \in SUBSET Trades : dirty' = dirty \cup {Owner[x] : x \in S}
      <4>1. CASE hit' # {}
        BY <1>4, <4>1 DEF ReorgGap
      <4>2. CASE hit' = {}
        <5> DEFINE S == {y \in Trades : stored[y] # None /\ stored[y].block = Item.block}
        <5>1. dirty' = dirty \cup {Owner[x] : x \in S}
          BY <1>4, <4>2 DEF ReorgGap
        <5>2. S \in SUBSET Trades
          OBVIOUS
        <5> HIDE DEF S
        <5> QED
          BY <5>1, <5>2
      <4> QED
        BY <4>1, <4>2
    <3>2. \A x \in Trades : Owner[x] \in Launches
      BY LedgerAssumption
    <3> QED
      BY <1>0, <3>1, <3>2
  <2>3. hit' \subseteq Launches
    BY <1>0, <2>1
  <2>4. CASE hit' # {} /\ UNCHANGED <<pc, todo, step, dirty>>
    BY <2>1, <2>2, <2>3, <2>4 DEF Control, Answering
  <2>5. CASE step' = "store" /\ UNCHANGED <<pc, todo>>
    BY <2>1, <2>2, <2>5 DEF Control, Answering
  <2>6. CASE NextItem
    BY <1>0, <2>1, <2>2, <2>6, NextControl DEF Control
  <2> QED
    BY <2>1, <2>4, <2>5, <2>6
<1>5. CASE IngestStore
  <2>1. /\ pc = "ingest" /\ step = "store" /\ UNCHANGED <<up, unheard, stops, after, reading>>
        /\ \/ Item.removed /\ step' = "removed" /\ UNCHANGED <<pc, todo>>
           \/ NextItem
    BY <1>5 DEF IngestStore, ask, faults
  <2>2. Item.trade \in Trades /\ Item.removed \in BOOLEAN /\ Target \in Launches
    BY <2>1, ItemFields
  <2>3. dirty' \subseteq Launches
    BY <1>0, <1>5, <2>2 DEF IngestStore
  <2>4. CASE Item.removed /\ step' = "removed" /\ UNCHANGED <<pc, todo>>
    <3>1. ~Live(stored', Item.trade)
      <4>1. CASE Known
        BY <1>5, <2>4, <4>1 DEF IngestStore, Known, Live, events
      <4>2. CASE ~Known
        <5> DEFINE e == [block |-> Item.block, hash |-> Item.hash, removed |-> Item.removed]
        <5>1. stored' = [stored EXCEPT ![Item.trade] = e]
          BY <1>5, <4>2 DEF IngestStore
        <5>2. e.removed
          BY <2>4
        <5>3. stored'[Item.trade] = e
          BY <2>2, <5>1 DEF Types
        <5> QED
          BY <5>2, <5>3 DEF Live
      <4> QED
        BY <4>1, <4>2
    <3>2. Item' = Item
      BY <2>4 DEF Item
    <3> QED
      BY <2>1, <2>3, <2>4, <3>1, <3>2 DEF Control, Answering
  <2>5. CASE NextItem
    BY <1>0, <2>1, <2>3, <2>5, NextControl DEF Control
  <2> QED
    BY <2>1, <2>4, <2>5
<1>6. CASE IngestRemoved
  <2>1. /\ pc = "ingest" /\ NextItem /\ UNCHANGED <<up, unheard, stops, after, reading, dirty>>
    BY <1>6 DEF IngestRemoved, ask, faults, memory
  <2> QED
    BY <1>0, <2>1, NextControl DEF Control
<1>7. CASE Wake \/ Reconciled \/ Answer
  <2>1. /\ UNCHANGED <<up, unheard, stops, dirty>> /\ step' = "header" /\ pc # "ingest"
        /\ after' \in {"reconcile", "prove", "finalize"}
        /\ pc' = IF todo' = <<>> THEN after' ELSE "ingest"
    BY <1>0, <1>7 DEF Wake, Reconciled, Answer, Handle, faults, memory
  <2>2. after' = "prove" => reading' \in Launches
    BY <1>7 DEF Wake, Reconciled, Answer, Handle, ask, Phases
  <2> QED
    BY <1>0, <2>1, <2>2 DEF Control, Answering
<1>8. CASE Ask
  <2>1. reading' \in Launches
    <3>1. turn # {} /\ turn \in SUBSET Nat /\ reading' = Min(turn) /\ turn \subseteq Launches
      BY <1>8, LedgerAssumption DEF Ask, Types
    <3> QED
      BY <3>1, LeastIsIn
  <2>2. UNCHANGED <<up, unheard, stops, dirty, todo>> /\ pc' = "read" /\ pc = "reconcile"
    BY <1>8 DEF Ask, faults, work
  <2> QED
    BY <1>0, <2>1, <2>2 DEF Control, Answering
<1>9. CASE Promote \/ RebuildPromoted \/ Recovered
  <2>1. reading \in Launches
    BY <1>9 DEF Promote, RebuildPromoted, Recovered, Control, Answering
  <2>2. /\ UNCHANGED <<up, unheard, stops, todo, reading>> /\ pc # "ingest" /\ pc' \in {"promoted", "reconcile"}
        /\ dirty' \subseteq dirty \cup {reading}
    BY <1>9 DEF Promote, RebuildPromoted, Recovered, faults, work, ask
  <2> QED
    BY <1>0, <2>1, <2>2 DEF Control, Answering
<1>10. CASE Finalize
  <2>1. hit' \subseteq Launches
    BY <1>0, <1>10 DEF Finalize, Stale, Due
  <2>2. UNCHANGED <<up, unheard, stops, dirty, todo>> /\ pc' = "rebuild" /\ pc = "finalize"
    BY <1>10 DEF Finalize, faults, memory
  <2> QED
    BY <1>0, <2>1, <2>2 DEF Control, Answering
<1>11. CASE RebuildNext \/ Rebuilt
  <2>1. /\ UNCHANGED <<up, unheard, stops, todo>> /\ pc = "rebuild" /\ pc' \in {"rebuild", "sleep"}
        /\ hit' \subseteq hit /\ dirty' \subseteq dirty
    BY <1>0, <1>11 DEF RebuildNext, Rebuilt, faults, memory, work
  <2> QED
    BY <1>0, <2>1 DEF Control, Answering
<1> QED
  BY <1>1, <1>2, <1>3, <1>4, <1>5, <1>6, <1>7, <1>8, <1>9, <1>10, <1>11, CSteps

\* Clocked speaks of the clocks, the chain, the recoveries and the rows.
LEMMA ClockedKept ==
    ASSUME Clocked, UNCHANGED <<head, loc, row, covEnd, cursor, frozen, reading, upto>>, pending \subseteq pending',
           (Answering \/ pc = "read")' => Answering \/ pc = "read", pc' = "promoted" => pc = "promoted"
    PROVE  Clocked'
<1>1. Sure' = Sure
  BY DEF Sure
<1> QED
  BY <1>1 DEF Clocked

LEMMA ClockedStep ==
    ASSUME Connected, Types, Types', Phases, Control, Clocked, [Next]_vars
    PROVE  Clocked'
<1>0. /\ head \in Nat \ {0} /\ Sure \in Int /\ Sure' \in Int /\ Sure <= Sure' /\ Sure <= Now /\ Now \in Int
      /\ Start \in [Launches -> Nat] /\ Cut \in [Launches -> Nat] /\ End \in [Launches -> Nat]
      /\ cursor \in [Launches -> Nat] /\ frozen \in [Launches -> Nat] /\ upto \in Nat
      /\ covEnd \in [Launches -> Int] /\ loc \in [Trades -> {0} \cup Blocks]
      /\ Blocks \subseteq Nat
  <2>1. head \in Nat \ {0}
    BY DEF Types, Blocks
  <2>2. Sure <= Now /\ Now \in Int
    BY <2>1, LedgerAssumption DEF Sure, Now
  <2>3. Start \in [Launches -> Nat]
    BY LedgerAssumption
  <2>4. Sure \in Int /\ Sure' \in Int /\ Sure <= Sure'
    BY Buffered
  <2>5. Cut \in [Launches -> Nat] /\ End \in [Launches -> Nat]
    BY LedgerAssumption
  <2>6. /\ cursor \in [Launches -> Nat] /\ frozen \in [Launches -> Nat] /\ upto \in Nat
        /\ covEnd \in [Launches -> Int] /\ loc \in [Trades -> {0} \cup Blocks] /\ Blocks \subseteq Nat
    BY DEF Types, Clocked, Blocks
  <2> QED
    BY <2>1, <2>2, <2>3, <2>4, <2>5, <2>6
<1>1. CASE Mine
  <2>1. PICK T \in SUBSET {x \in Trades : loc[x] = 0 /\ Home[x] <= head + 1} :
          loc' = [x \in Trades |-> IF x \in T THEN head + 1 ELSE loc[x]]
    BY <1>1 DEF Mine
  <2>2. head' = head + 1 /\ UNCHANGED <<row, covEnd, cursor, frozen, reading, upto, pending, pc, after>>
    BY <1>1 DEF Mine, ask, proofs, memory, cover, ledger
  <2>3. ASSUME NEW x \in Trades PROVE loc'[x] <= head'
    <3>1. loc[x] \in Nat /\ loc[x] <= head
      <4> DEFINE B == {0} \cup Blocks
      <4>0. B \subseteq Nat /\ loc \in [Trades -> B]
        BY DEF Types, Blocks
      <4> HIDE DEF B
      <4>1. loc[x] \in B /\ B \subseteq Nat
        BY <4>0
      <4>2. \A y \in Trades : loc[y] <= head
        BY DEF Clocked
      <4>3. loc[x] \in Nat
        BY <4>1
      <4> QED
        BY <2>3, <4>2, <4>3
    <3>2. loc'[x] = IF x \in T THEN head + 1 ELSE loc[x]
      BY <2>1
    <3> QED
      BY <1>0, <2>2, <3>1, <3>2
  <2>4. \A l \in Launches : Start[l] <= head' /\ (row'[l] # None => Cut[l] <= head')
    BY <1>0, <2>2 DEF Clocked
  <2>5. \A l \in Launches : cursor[l] = 0 => l \in pending /\ (covEnd[l] <= Sure' \/ covEnd[l] = 0) /\ frozen[l] <= head'
    <3>1. ASSUME NEW l \in Launches, cursor[l] = 0
          PROVE  l \in pending /\ (covEnd[l] <= Sure' \/ covEnd[l] = 0) /\ frozen[l] <= head'
      <4>1. l \in pending /\ (covEnd[l] <= Sure \/ covEnd[l] = 0) /\ frozen[l] <= head /\ covEnd[l] \in Int /\ frozen[l] \in Nat
        BY <1>0, <3>1 DEF Clocked
      <4> QED
        BY <1>0, <2>2, <4>1
    <3> QED
      BY <3>1
  <2>6. pc # "promoted"
    BY <1>1 DEF Mine, Waiting
  <2> QED
    BY <1>0, <2>2, <2>3, <2>4, <2>5, <2>6 DEF Clocked, Answering
<1>2. ASSUME NEW b \in Blocks, Reorg(b) PROVE Clocked'
  <2> DEFINE T == {x \in Trades : loc[x] >= b}
  <2>1. PICK again \in [T -> {0} \cup b..head] : loc' = [x \in Trades |-> IF x \in T THEN again[x] ELSE loc[x]]
    BY <1>2 DEF Reorg
  <2>2. head' = head /\ UNCHANGED <<row, covEnd, cursor, frozen, reading, upto, pending, pc, after>>
    BY <1>2 DEF Reorg, ask, proofs, memory, cover, ledger
  <2>3. \A x \in Trades : loc'[x] <= head
    <3>1. \A x \in T : again[x] <= head
      BY <1>0
    <3> HIDE DEF T
    <3> QED
      BY <1>0, <2>1, <3>1 DEF Clocked
  <2>4. Sure' = Sure
    BY <2>2 DEF Sure
  <2> QED
    BY <2>2, <2>3, <2>4 DEF Clocked, Answering
<1>3. CASE Deliver \/ UNCHANGED vars
  <2>1. UNCHANGED <<head, loc, row, covEnd, cursor, frozen, reading, upto, pending, pc, after>>
    BY <1>3 DEF Deliver, vars, chain, ask, proofs, memory, cover, ledger
  <2> QED
    BY <2>1, ClockedKept DEF Answering
<1>4. CASE IngestHeader \/ IngestStore
  <2>1. /\ UNCHANGED <<head, loc, row, covEnd, cursor, frozen, reading, upto, pending, after>> /\ pc = "ingest"
        /\ pc' = pc \/ NextItem
    BY <1>4 DEF IngestHeader, IngestStore, chain, ask, proofs, cover, ledger
  <2>2. (pc' = pc \/ pc' \in {"reconcile", "prove", "finalize", "ingest"}) /\ (Answering' => Answering)
    BY <2>1, NextControl DEF Answering
  <2> QED
    BY <2>1, <2>2, ClockedKept
<1>5. CASE ReorgGap \/ IngestRemoved
  <2>1. /\ UNCHANGED <<head, loc, covEnd, cursor, frozen, reading, upto, pending, after>> /\ pc = "ingest"
        /\ pc' = pc \/ NextItem
        /\ \E G : AddGaps(G)
    BY <1>5 DEF ReorgGap, IngestRemoved, chain, ask, proofs, cover, memory
  <2>2. (pc' = pc \/ pc' \in {"reconcile", "prove", "finalize", "ingest"}) /\ (Answering' => Answering)
    BY <2>1, NextControl DEF Answering
  <2>3. \A l \in Launches : row'[l] # None => row[l] # None
    BY <2>1 DEF AddGaps, Contested
  <2>4. Sure' = Sure
    BY <2>1 DEF Sure
  <2> QED
    BY <2>1, <2>2, <2>3, <2>4 DEF Clocked
<1>6. CASE Wake \/ Reconciled \/ Answer
  <2>1. /\ UNCHANGED <<head, loc, row, covEnd, cursor, frozen, pending>>
        /\ after' = "prove" => Answer /\ pc = "read" /\ UNCHANGED <<reading, upto>>
        /\ pc' \in {"ingest", after'}
        /\ after' \in {"reconcile", "finalize", "prove"}
    BY <1>6 DEF Wake, Reconciled, Answer, Handle, chain, ask, proofs, memory, cover, ledger, Control
  <2>2. Sure' = Sure
    BY <2>1 DEF Sure
  <2> QED
    BY <2>1, <2>2 DEF Clocked, Answering
<1>7. CASE Ask
  <2> DEFINE l == Min(turn)
  <2>1. l \in Launches
    <3>1. turn # {} /\ turn \in SUBSET Nat /\ turn \subseteq Launches
      BY <1>7, LedgerAssumption DEF Ask, Types
    <3> QED
      BY <3>1, LeastIsIn
  <2>2. /\ pc' = "read" /\ reading' = l
        /\ frozen' = IF cursor[l] = 0 /\ frozen[l] = 0 THEN [frozen EXCEPT ![l] = head] ELSE frozen
        /\ upto' = IF cursor[l] = 0 THEN frozen'[l] ELSE head
        /\ UNCHANGED <<head, loc, row, covEnd, cursor, pending>>
    BY <1>7 DEF Ask, chain, cover, ledger
  <2> HIDE DEF l
  <2>3. /\ cursor[l] = 0 => frozen'[l] # 0
        /\ \A m \in Launches : frozen'[m] <= head \/ frozen'[m] = frozen[m]
    BY <1>0, <2>1, <2>2
  <2>4. upto' # 0 /\ (cursor[l] = 0 => upto' = frozen'[l])
    BY <1>0, <2>2, <2>3
  <2>5. Sure' = Sure
    BY <2>2 DEF Sure
  <2>6. \A m \in Launches : cursor[m] = 0 => m \in pending /\ (covEnd[m] <= Sure \/ covEnd[m] = 0) /\ frozen'[m] <= head
    BY <2>3 DEF Clocked
  <2> QED
    BY <2>2, <2>4, <2>5, <2>6 DEF Clocked
<1>8. CASE Promote
  <2> DEFINE c == Least(At(End[reading]), At(upto))
  <2>1. reading \in Launches /\ upto # 0 /\ Answering
    BY <1>8 DEF Promote, Control, Clocked, Answering
  <2>2. /\ cursor' = [cursor EXCEPT ![reading] = upto] /\ pc' = "promoted"
        /\ covEnd' = IF covEnd[reading] < c THEN [covEnd EXCEPT ![reading] = c] ELSE covEnd
        /\ UNCHANGED <<head, loc, row, frozen, pending, reading, upto>> /\ cursor[reading] = 0
    BY <1>8 DEF Promote, chain, memory, ask
  <2>3. c \in Int /\ c <= At(upto) /\ 0 <= At(upto)
    BY <1>0, <2>1 DEF At, Least
  <2> HIDE DEF c
  <2>4. covEnd' \in [Launches -> Int]
    BY <1>0, <2>2, <2>3
  <2>5. Sure' = Sure
    BY <2>2 DEF Sure
  <2>6. \A m \in Launches : cursor'[m] = 0 => cursor[m] = 0 /\ m # reading
    BY <1>0, <2>1, <2>2
  <2>7. \A m \in Launches : m # reading => covEnd'[m] = covEnd[m]
    BY <1>0, <2>2
  <2>8. covEnd'[reading] <= Sure \/ covEnd'[reading] <= At(upto)
    BY <1>0, <2>1, <2>2, <2>3 DEF Clocked
  <2>9. \A m \in Launches : cursor'[m] = 0 => m \in pending' /\ (covEnd'[m] <= Sure' \/ covEnd'[m] = 0) /\ frozen'[m] <= head'
    BY <2>2, <2>5, <2>6, <2>7 DEF Clocked
  <2> QED
    BY <2>2, <2>4, <2>5, <2>8, <2>9 DEF Clocked, Answering
<1>9. CASE RebuildPromoted
  <2>1. /\ UNCHANGED <<head, loc, covEnd, cursor, frozen, reading, upto, pending>> /\ pc' = "reconcile"
        /\ Rebuild(reading, Now, gaps, boot, cursor, covStart, covEnd)
    BY <1>9 DEF RebuildPromoted, chain, ask, proofs, cover
  <2>2. ASSUME NEW l \in Launches, row'[l] # None PROVE Cut[l] <= head
    <3>1. row'[l] = row[l] \/ (l = reading /\ ~(At(Cut[l]) > Now))
      BY <2>1, Rebuilding
    <3>2. ~(At(Cut[l]) > Now) => Cut[l] <= head
      BY <1>0 DEF At, Now
    <3> QED
      BY <2>2, <3>1, <3>2 DEF Clocked
  <2>3. Sure' = Sure
    BY <2>1 DEF Sure
  <2> QED
    BY <2>1, <2>2, <2>3 DEF Clocked, Answering
<1>10. CASE Recovered
  <2>1. reading \in Launches /\ upto # 0 /\ Answering
    BY <1>10 DEF Recovered, Control, Clocked, Answering
  <2>2. /\ cursor' = [cursor EXCEPT ![reading] = upto] /\ pc' = "reconcile" /\ pending' = pending \ {reading}
        /\ UNCHANGED <<head, loc, row, frozen, covEnd, reading, upto>>
    BY <1>10 DEF Recovered, chain, ask, cover
  <2>3. Sure' = Sure
    BY <2>2 DEF Sure
  <2>4. \A m \in Launches : cursor'[m] = 0 => cursor[m] = 0 /\ m # reading
    BY <1>0, <2>1, <2>2
  <2> QED
    BY <2>2, <2>3, <2>4 DEF Clocked, Answering
<1>11. CASE Finalize
  <2>1. /\ UNCHANGED <<head, loc, row, cursor, frozen, reading, upto, pending>> /\ pc' = "rebuild"
        /\ covEnd' = [l \in Launches |-> Coverage(l)]
    BY <1>11 DEF Finalize, chain, ask, proofs, memory, ledger
  <2>2. \A l \in Launches : Coverage(l) \in Int /\ Coverage(l) <= Sure
    BY <1>0 DEF Coverage, Least, At
  <2>3. Sure' = Sure
    BY <2>1 DEF Sure
  <2>4. covEnd' \in [Launches -> Int] /\ \A l \in Launches : covEnd'[l] <= Sure
    BY <2>1, <2>2
  <2> QED
    BY <2>1, <2>3, <2>4 DEF Clocked, Answering
<1>12. CASE RebuildNext
  <2>1. /\ UNCHANGED <<head, loc, covEnd, cursor, frozen, reading, upto, pending, pc, after>>
        /\ Rebuild(Min(hit), Sure, gaps, boot, cursor, covStart, covEnd)
    BY <1>12 DEF RebuildNext, chain, ask, proofs, cover, memory
  <2>2. ASSUME NEW l \in Launches, row'[l] # None PROVE Cut[l] <= head
    <3>1. row'[l] = row[l] \/ (l = Min(hit) /\ ~(At(Cut[l]) > Sure))
      BY <2>1, Rebuilding
    <3>2. ~(At(Cut[l]) > Sure) => Cut[l] <= head
      <4>1. ~(At(Cut[l]) > Sure) => ~(At(Cut[l]) > Now)
        BY <1>0 DEF At
      <4> QED
        BY <1>0, <4>1 DEF At, Now
    <3> QED
      BY <2>2, <3>1, <3>2 DEF Clocked
  <2>3. Sure' = Sure
    BY <2>1 DEF Sure
  <2> QED
    BY <2>1, <2>2, <2>3 DEF Clocked, Answering
<1>13. CASE Rebuilt
  <2>1. UNCHANGED <<head, loc, row, covEnd, cursor, frozen, reading, upto, pending>> /\ pc' \in {"sleep", "down"}
    BY <1>13 DEF Rebuilt, chain, ask, proofs, cover, ledger
  <2> QED
    BY <2>1, ClockedKept DEF Answering
<1> QED
  BY <1>1, <1>2, <1>3, <1>4, <1>5, <1>6, <1>7, <1>8, <1>9, <1>10, <1>11, <1>12, <1>13, CSteps

(***************************************************************************)
(* The chain and the line.                                                 *)
(***************************************************************************)

\* A set of trades written as notices: one for each, of the block it is in.
Lists(s, T, where, gone) ==
    /\ Len(s) \in Nat
    /\ \A i \in 1..Len(s) : s[i].trade \in T /\ s[i].block = where[s[i].trade] /\ s[i].removed = gone
    /\ \A x \in T : \E i \in 1..Len(s) : s[i].trade = x
LEMMA NoticesOf ==
    ASSUME NEW T \in SUBSET Trades, NEW where, NEW v, NEW gone
    PROVE  Lists(Notices(T, where, v, gone), T, where, gone)
<1> DEFINE n == Cardinality(T)
           o == SetToSeq(T)
           s == Notices(T, where, v, gone)
<1>1. IsFiniteSet(T)
  BY LedgerAssumption, FS_Subset
<1>2. n \in Nat /\ ExistsBijection(1..n, T)
  BY <1>1, FS_CardinalityType
<1>3. PICK f \in [1..n -> T] : IsInjective(f)
  BY <1>2 DEF ExistsBijection, Bijection, Injection
<1>4. o \in [1..n -> T] /\ IsInjective(o)
  BY <1>3 DEF SetToSeq
<1>5. o \in Surjection(1..n, T)
  <2>1. o \in Injection(1..n, T)
    BY <1>4 DEF Injection
  <2>2. IsFiniteSet(1..n) /\ Cardinality(1..n) = n
    BY <1>2, FS_Interval
  <2> HIDE DEF o
  <2> QED
    BY <1>1, <2>1, <2>2, FS_Injection
<1> HIDE DEF n, o
<1>6. s = [i \in 1..n |-> Notice(o[i], where[o[i]], v[where[o[i]]], gone)]
  BY DEF Notices, n, o
<1>7. Len(s) = n
  BY <1>2, <1>6
<1>8. \A i \in 1..n : s[i].trade = o[i] /\ s[i].block = where[o[i]] /\ s[i].removed = gone
  BY <1>6 DEF Notice
<1>9. \A x \in T : \E i \in 1..n : o[i] = x
  BY <1>5 DEF Surjection
<1> HIDE DEF s
<1>10. \A i \in 1..n : o[i] \in T
  BY <1>4
<1>11. /\ \A i \in 1..Len(s) : s[i].trade \in T /\ s[i].block = where[s[i].trade] /\ s[i].removed = gone
       /\ \A x \in T : \E i \in 1..Len(s) : s[i].trade = x
  BY <1>7, <1>8, <1>9, <1>10
<1>12. Lists(s, T, where, gone)
  BY <1>2, <1>7, <1>11 DEF Lists
<1> QED
  BY <1>12 DEF s

\* What a block put on the line: the trades that moved are removed from where they were,
\* and included where they are.
Tells(t) ==
    /\ t \in Seq(Notes)
    /\ \A x \in Trades : loc'[x] # loc[x] => loc[x] = 0 \/ GoneFrom(t, 0, x, loc[x])
    /\ \A i \in 1..Len(t) : ~t[i].removed => t[i].block = loc'[t[i].trade]
    /\ \A x \in Trades : (~Gone(t, 0, x) /\ loc'[x] = loc[x]) \/ loc'[x] = 0 \/ Stands(t, x, loc'[x])

\* A new block.
LEMMA MineTells ==
    ASSUME Types, Types', Control, Mine
    PROVE  \E t : /\ Tells(t) /\ More(Line, t, Line')
                  /\ \A x \in Trades : loc'[x] = loc[x] \/ (loc[x] = 0 /\ loc'[x] = head + 1)
<1>1. PICK T \in SUBSET {x \in Trades : loc[x] = 0 /\ Home[x] <= head + 1} :
        /\ loc' = [x \in Trades |-> IF x \in T THEN head + 1 ELSE loc[x]]
        /\ Send(Mined(T, loc', hash))
  BY DEF Mine
<1> DEFINE t == Mined(T, loc', hash)
<1>2. up /\ UNCHANGED <<todo, queue>> /\ wire' = wire \o t
  BY <1>1 DEF Mine, Control, Send, work
<1>3. T \in SUBSET Trades
  BY <1>1
<1>a. Lists(t, T, loc', FALSE)
  BY <1>3, NoticesOf DEF Mined
<1> HIDE DEF t
<1>4. /\ Len(t) \in Nat
      /\ \A i \in 1..Len(t) : t[i].trade \in T /\ t[i].block = loc'[t[i].trade] /\ t[i].removed = FALSE
      /\ \A x \in T : \E i \in 1..Len(t) : t[i].trade = x
  BY <1>a DEF Lists
<1>5. t \in Seq(Notes)
  <2>1. \A x \in T : loc'[x] \in Blocks
    <3>1. head + 1 \in Blocks
      BY LedgerAssumption DEF Types, Mine, Blocks
    <3> QED
      BY <1>1, <3>1
  <2>2. head \in Nat /\ hash \in [Blocks -> Nat]
    BY DEF Types, Blocks
  <2> QED
    BY <1>3, <2>1, <2>2, Noticed DEF Mined, t
<1>6. More(Line, t, Line')
  BY <1>2, <1>5, LineMore
<1>7. \A k, x : ~Gone(t, k, x)
  BY <1>4 DEF Gone
<1>8. \A x \in T : Stands(t, x, loc'[x])
  BY <1>4, <1>7 DEF Stands
<1>9. \A x \in Trades : (x \in T => loc[x] = 0 /\ loc'[x] = head + 1) /\ (x \notin T => loc'[x] = loc[x])
  BY <1>1
<1> QED
  BY <1>4, <1>5, <1>6, <1>7, <1>8, <1>9 DEF Tells

\* A reorganisation.
LEMMA ReorgTells ==
    ASSUME Types, Types', Control, NEW b \in Blocks, Reorg(b)
    PROVE  \E t : Tells(t) /\ More(Line, t, Line')
<1> DEFINE T == {x \in Trades : loc[x] >= b}
<1>1. PICK again \in [T -> {0} \cup b..head] :
        /\ loc' = [x \in Trades |-> IF x \in T THEN again[x] ELSE loc[x]]
        /\ Send(Withdrawn(T) \o Mined({x \in T : again[x] # 0}, loc', hash'))
  BY DEF Reorg
<1> DEFINE U == {x \in T : again[x] # 0}
           w == Withdrawn(T)
           m == Mined(U, loc', hash')
           t == w \o m
<1>2. up /\ UNCHANGED <<todo, queue>> /\ wire' = wire \o t
  BY <1>1 DEF Reorg, Control, Send, work
<1>3. T \in SUBSET Trades /\ U \in SUBSET Trades
  OBVIOUS
<1>4. /\ \A x \in Trades : (x \notin T => loc'[x] = loc[x]) /\ (x \in T => loc[x] \in Blocks)
      /\ \A x \in U : loc'[x] \in Blocks
      /\ \A x \in T \ U : loc'[x] = 0
  <2>1. \A x \in T : loc[x] \in Blocks
    BY DEF Types, Blocks
  <2>2. \A x \in T : loc'[x] = again[x]
    BY <1>1
  <2>3. \A x \in Trades \ T : loc'[x] = loc[x]
    <3> HIDE DEF T
    <3> QED
      BY <1>1
  <2>4. \A x \in Trades : loc'[x] \in {0} \cup Blocks
    BY DEF Types, Blocks
  <2> QED
    BY <2>1, <2>2, <2>3, <2>4
<1>5. w \in Seq(Notes)
  <2>1. head \in Nat /\ hash \in [Blocks -> Nat] /\ \A x \in T : loc[x] \in Blocks
    BY <1>4 DEF Types, Blocks
  <2> HIDE DEF T
  <2> QED
    BY <1>3, <2>1, Noticed DEF Withdrawn
<1>6. m \in Seq(Notes)
  <2>1. head \in Nat /\ hash' \in [Blocks -> Nat]
    BY DEF Types, Blocks
  <2> HIDE DEF U
  <2> QED
    BY <1>3, <1>4, <2>1, Noticed DEF Mined
<1>7. /\ \A i \in 1..Len(w) : w[i].trade \in T /\ w[i].block = loc[w[i].trade] /\ w[i].removed = TRUE
      /\ \A x \in T : \E i \in 1..Len(w) : w[i].trade = x
  <2>1. Lists(w, T, loc, TRUE)
    <3> HIDE DEF T
    <3> QED
      BY <1>3, NoticesOf DEF Withdrawn
  <2> HIDE DEF T, w
  <2> QED
    BY <2>1 DEF Lists
<1>8. /\ \A i \in 1..Len(m) : m[i].trade \in U /\ m[i].block = loc'[m[i].trade] /\ m[i].removed = FALSE
      /\ \A x \in U : \E i \in 1..Len(m) : m[i].trade = x
  <2>1. Lists(m, U, loc', FALSE)
    <3> HIDE DEF U
    <3> QED
      BY <1>3, NoticesOf DEF Mined
  <2> HIDE DEF U, m
  <2> QED
    BY <2>1 DEF Lists
<1> HIDE DEF T, U, w, m
<1>9. t \in Seq(Notes) /\ More(w, m, t)
  <2>1. t \in Seq(Notes) /\ Len(t) = Len(w) + Len(m) /\ Len(w) \in Nat /\ Len(m) \in Nat
        /\ \A i \in 1..Len(w) + Len(m) : t[i] = IF i <= Len(w) THEN w[i] ELSE m[i - Len(w)]
    BY <1>5, <1>6, ConcatProperties
  <2> HIDE DEF t
  <2>2. \A i \in 1..Len(w) : t[i] = w[i]
    BY <2>1
  <2>3. ASSUME NEW i \in 1..Len(m) PROVE t[Len(w) + i] = m[i]
    <3>1. Len(w) + i \in 1..Len(w) + Len(m) /\ ~(Len(w) + i <= Len(w)) /\ (Len(w) + i) - Len(w) = i
      BY <2>1
    <3> QED
      BY <2>1, <3>1
  <2> QED
    BY <2>1, <2>2, <2>3 DEF More
<1> HIDE DEF t
<1>10. More(Line, t, Line')
  BY <1>2, <1>9, LineMore
<1>11. \A x, c : /\ Gone(t, 0, x) <=> Gone(w, 0, x) \/ Gone(m, 0, x)
                 /\ GoneFrom(w, 0, x, c) => GoneFrom(t, 0, x, c)
                 /\ Stands(m, x, c) => Stands(t, x, c)
  <2>1. 0 \in 0..Len(w)
    BY <1>5, LenProperties
  <2> QED
    BY <1>5, <1>6, <1>9, <2>1, MoreReads
<1>12. (\A k, x : ~Gone(m, k, x)) /\ \A x : Gone(w, 0, x) => x \in T
  BY <1>7, <1>8 DEF Gone
<1>13. \A x \in T : GoneFrom(t, 0, x, loc[x])
  <2>1. ASSUME NEW x \in T PROVE GoneFrom(w, 0, x, loc[x])
    <3>1. PICK i \in 1..Len(w) : w[i].trade = x
      BY <1>7
    <3>2. w[i].removed /\ w[i].block = loc[x] /\ i > 0
      BY <1>7, <3>1
    <3> QED
      BY <3>1, <3>2 DEF GoneFrom
  <2> QED
    BY <1>11, <2>1
<1>14. \A x \in U : Stands(t, x, loc'[x])
  <2>1. \A x \in U : Stands(m, x, loc'[x])
    BY <1>8, <1>12 DEF Stands
  <2> QED
    BY <1>11, <2>1
<1>15. ASSUME NEW i \in 1..Len(t), ~t[i].removed PROVE t[i].block = loc'[t[i].trade]
  <2>1. Len(t) = Len(w) + Len(m) /\ Len(w) \in Nat /\ Len(m) \in Nat
    BY <1>5, <1>6, <1>9 DEF More
  <2>2. CASE i <= Len(w)
    <3>1. i \in 1..Len(w) /\ t[i] = w[i]
      BY <1>9, <2>1, <2>2 DEF More
    <3> QED
      BY <1>7, <1>15, <3>1
  <2>3. CASE ~(i <= Len(w))
    <3>1. i - Len(w) \in 1..Len(m) /\ Len(w) + (i - Len(w)) = i
      BY <2>1, <2>3
    <3>2. t[i] = m[i - Len(w)]
      BY <1>9, <3>1 DEF More
    <3> QED
      BY <1>8, <3>1, <3>2
  <2> QED
    BY <2>2, <2>3
<1>16. Tells(t)
  BY <1>4, <1>9, <1>11, <1>12, <1>13, <1>14, <1>15 DEF Tells
<1> QED
  BY <1>10, <1>16

\* The answer of a recovery: what the chain holds of the target now.
Answers(t) ==
    /\ t \in Seq(Notes) /\ todo' = t
    /\ \A i \in 1..Len(t) : ~t[i].removed /\ t[i].block = loc[t[i].trade]
    /\ \A x \in Trades : Owner[x] = reading /\ loc[x] \in First..upto => \E i \in 1..Len(t) : t[i].trade = x
LEMMA AnswerTells ==
    ASSUME Types, Types', Phases, Control, Answer
    PROVE  \E t : Answers(t) /\ More(t, Line, Line')
<1> DEFINE T == {x \in Trades : Owner[x] = reading /\ loc[x] \in First..upto}
           N(x) == [Notice(x, loc[x], hash[loc[x]], FALSE) EXCEPT !.born = 0]
<1>1. PICK t \in Logs(reading, First, upto) : Handle(t, "prove")
  BY DEF Answer
<1>2. t \in Seq(Notes) /\ todo' = t
  BY <1>1, Logged DEF Answer, Phases, Handle
<1>3. PICK o \in Bijection(1..Cardinality(T), T) : t = [i \in DOMAIN o |-> N(o[i])]
  BY <1>1 DEF Logs, Ordered
<1>4. IsFiniteSet(T)
  BY LedgerAssumption, FS_Subset
<1>5. Cardinality(T) \in Nat
  BY <1>4, FS_CardinalityType
<1>6. o \in [1..Cardinality(T) -> T] /\ \A x \in T : \E i \in 1..Cardinality(T) : o[i] = x
  BY <1>3 DEF Bijection, Injection, Surjection
<1>7. \A x : N(x).trade = x /\ N(x).block = loc[x] /\ N(x).removed = FALSE
  BY DEF Notice
<1>8. \A x \in T : x \in Trades
  OBVIOUS
<1> HIDE DEF N
<1>9. Len(t) = Cardinality(T) /\ \A i \in 1..Len(t) : t[i] = N(o[i])
  <2> HIDE DEF T
  <2> QED
    BY <1>3, <1>5, <1>6
<1>10. \A i \in 1..Len(t) : ~t[i].removed /\ t[i].block = loc[t[i].trade]
  BY <1>7, <1>9
<1>11. \A x \in T : \E i \in 1..Len(t) : t[i].trade = x
  BY <1>6, <1>7, <1>9
<1>12. Answers(t)
  BY <1>2, <1>10, <1>11 DEF Answers
<1>13. todo = <<>> /\ UNCHANGED <<queue, wire>>
  BY DEF Answer, Control
<1> QED
  BY <1>2, <1>12, <1>13, LineRead

\* Any other step leaves the chain and the order of the line alone: an item in hand is put
\* aside when its block withdraws stored events or it is a removal, or is done with.
Pulled(x) == Naming(Owner[x])' /\ Item' = Item /\ stored[x].block = Item.block
Aside ==
    \/ stored' = stored
    \/ /\ pc = "ingest" /\ todo # <<>> /\ Item.removed
       /\ ~Live(stored', Item.trade) /\ \A x \in Trades \ {Item.trade} : stored'[x] = stored[x]
    \/ /\ pc = "ingest" /\ \A x \in Trades : stored'[x] = stored[x] \/ (~Live(stored', x) /\ Pulled(x))
Handled ==
    /\ pc = "ingest" /\ todo # <<>> /\ todo' = Tail(todo)
    /\ \A x \in Trades \ {Item.trade} : stored'[x] = stored[x]
    /\ \/ ~Item.removed /\ Live(stored', Item.trade) /\ stored'[Item.trade].block = Item.block
       \/ ~Item.removed /\ ~InWindow(Target, Item.block) /\ stored' = stored
       \/ Item.removed /\ ~Live(stored, Item.trade) /\ stored' = stored /\ IngestRemoved

LEMMA Moves ==
    ASSUME Connected, Types, Types', Phases, Control, [Next]_vars,
           ~Mine, ~(\E b \in Blocks : Reorg(b)), ~Answer
    PROVE  /\ UNCHANGED loc
           /\ \/ Same(Line, Line') /\ Aside
              \/ TailOf(Line, Line') /\ Handled
<1>0. Same(Line, Line) /\ (Line' = Line => Same(Line, Line'))
  BY LineType DEF Same, Like
<1>1. CASE Deliver
  <2>1. todo = <<>> /\ UNCHANGED <<loc, stored>>
    BY <1>1 DEF Deliver, Control, chain, events
  <2> QED
    BY <1>1, <2>1, LineMoves DEF Aside
<1>2. CASE Wake \/ Reconciled
  <2>1. todo = <<>> /\ UNCHANGED <<loc, stored>> /\ todo' = queue /\ queue' = <<>> /\ wire' = wire
    BY <1>2 DEF Wake, Reconciled, Handle, Control, chain, events, memory
  <2> QED
    BY <1>0, <2>1, LineMoves DEF Aside
<1>3. CASE Ask \/ Promote \/ RebuildPromoted \/ Recovered \/ UNCHANGED vars
  <2>1. UNCHANGED <<loc, stored, todo, queue, wire>>
    BY <1>3 DEF Ask, Promote, RebuildPromoted, Recovered, vars, chain, events, work
  <2>2. Line' = Line
    BY <2>1 DEF Line
  <2> QED
    BY <1>0, <2>1, <2>2 DEF Aside
<1>4. CASE Finalize \/ RebuildNext \/ Rebuilt
  <2>1. UNCHANGED <<loc, stored, todo, queue, wire>>
    BY <1>4 DEF Finalize, RebuildNext, Rebuilt, chain, events, work
  <2>2. Line' = Line
    BY <2>1 DEF Line
  <2> QED
    BY <1>0, <2>1, <2>2 DEF Aside
<1> DEFINE Ingesting == IngestHeader \/ ReorgGap \/ IngestStore \/ IngestRemoved
<1>5. ASSUME Ingesting
      PROVE  /\ pc = "ingest" /\ todo # <<>> /\ UNCHANGED <<loc, queue, wire>>
             /\ todo' = todo => Same(Line, Line') /\ Item' = Item
             /\ NextItem => TailOf(Line, Line') /\ todo' = Tail(todo)
             /\ Item.trade \in Trades /\ Item.removed \in BOOLEAN
  <2>1. pc = "ingest" /\ todo # <<>> /\ UNCHANGED <<loc, queue, wire>>
    BY <1>5 DEF IngestHeader, ReorgGap, IngestStore, IngestRemoved, chain, Phases
  <2>2. todo' = todo => Line' = Line /\ Item' = Item
    BY <2>1 DEF Line, Item
  <2>3. NextItem => TailOf(Line, Line') /\ todo' = Tail(todo)
    BY <2>1, LineTail DEF NextItem
  <2> QED
    BY <1>0, <2>1, <2>2, <2>3, ItemFields
<1>6. CASE IngestHeader
  <2>1. CASE Clashes
    <3>1. /\ stored' = [x \in Trades |-> IF x \in Orphans THEN [stored[x] EXCEPT !.removed = TRUE] ELSE stored[x]]
          /\ hit' = {Owner[x] : x \in Orphans} \cup {Target} /\ step' = "gap" /\ UNCHANGED <<pc, todo>>
      BY <1>6, <2>1 DEF IngestHeader
    <3>2. ASSUME NEW x \in Orphans PROVE ~Live(stored', x) /\ Pulled(x)
      <4>1. x \in Trades /\ stored[x] # None /\ stored[x].block = Item.block
        BY DEF Orphans
      <4>2. stored[x] \in Events
        BY <4>1 DEF Types
      <4>3. stored'[x] = [stored[x] EXCEPT !.removed = TRUE]
        BY <3>1, <4>1
      <4>4. stored'[x].removed
        BY <4>2, <4>3 DEF Events
      <4>5. Naming(Owner[x])'
        BY <1>5, <1>6, <3>1 DEF Naming
      <4> QED
        BY <1>5, <1>6, <3>1, <4>1, <4>4, <4>5 DEF Live, Pulled
    <3>3. \A x \in Trades \ Orphans : stored'[x] = stored[x]
      BY <3>1
    <3>4. Aside
      BY <1>5, <1>6, <3>2, <3>3 DEF Aside
    <3> QED
      BY <1>5, <1>6, <3>1, <3>4
  <2>2. CASE ~Clashes /\ StoredOnly = "store"
    BY <1>5, <1>6, <2>2 DEF IngestHeader, events, Aside
  <2>3. CASE ~Clashes /\ StoredOnly # "store"
    <3>1. NextItem /\ stored' = stored
      BY <1>6, <2>3 DEF IngestHeader, events
    <3>2. ~Item.removed /\ ~InWindow(Target, Item.block)
      BY <2>3 DEF StoredOnly
    <3>3. Handled
      BY <1>5, <1>6, <3>1, <3>2 DEF Handled
    <3> QED
      BY <1>5, <1>6, <3>1, <3>3
  <2> QED
    BY <2>1, <2>2, <2>3
<1>7. CASE ReorgGap
  <2>1. stored' = stored
    BY <1>7 DEF ReorgGap, events
  <2>2. CASE todo' = todo
    BY <1>5, <1>7, <2>1, <2>2 DEF Aside
  <2>3. CASE NextItem /\ StoredOnly # "store"
    <3>1. ~Item.removed /\ ~InWindow(Target, Item.block)
      BY <2>3 DEF StoredOnly
    <3>2. Handled
      BY <1>5, <1>7, <2>1, <2>3, <3>1 DEF Handled
    <3> QED
      BY <1>5, <1>7, <2>3, <3>2
  <2> QED
    BY <1>7, <2>2, <2>3 DEF ReorgGap
<1>8. CASE IngestStore
  <2> DEFINE x == Item.trade
             e == [block |-> Item.block, hash |-> Item.hash, removed |-> Item.removed]
  <2>1. /\ \A y \in Trades \ {x} : stored'[y] = stored[y]
        /\ stored'[x] # None /\ stored'[x].removed = Item.removed /\ stored'[x].block = Item.block
    <3>1. CASE Known
      BY <1>8, <3>1 DEF IngestStore, Known, events
    <3>2. CASE ~Known
      <4>1. stored' = [stored EXCEPT ![x] = e]
        BY <1>8, <3>2 DEF IngestStore
      <4>2. e.removed = Item.removed /\ e.block = Item.block
        OBVIOUS
      <4>3. e # None
        <5>1. Item \in Notes
          BY <1>5, <1>8, InHand
        <5>2. e \in Events
          BY <5>1 DEF Notes, Events
        <5> HIDE DEF e
        <5> QED
          BY <5>2, NoneAssumption
      <4> HIDE DEF e
      <4>4. stored'[x] = e /\ \A y \in Trades \ {x} : stored'[y] = stored[y]
        BY <1>5, <1>8, <4>1 DEF Types
      <4> QED
        BY <4>2, <4>3, <4>4
    <3> QED
      BY <3>1, <3>2
  <2>2. CASE Item.removed
    <3>1. todo' = todo
      BY <1>8, <2>2 DEF IngestStore
    <3>2. Aside
      BY <1>5, <1>8, <2>1, <2>2 DEF Aside, Live
    <3> QED
      BY <1>5, <1>8, <3>1, <3>2
  <2>3. CASE ~Item.removed
    <3>1. NextItem
      BY <1>8, <2>3 DEF IngestStore
    <3>2. Handled
      BY <1>5, <1>8, <2>1, <2>3, <3>1 DEF Handled, Live
    <3> QED
      BY <1>5, <1>8, <3>1, <3>2
  <2> QED
    BY <1>5, <1>8, <2>2, <2>3
<1>9. CASE IngestRemoved
  <2>1. NextItem /\ stored' = stored /\ pc = "ingest" /\ step = "removed"
    BY <1>9 DEF IngestRemoved, events
  <2>2. Item.removed /\ ~Live(stored, Item.trade)
    BY <2>1 DEF Control
  <2>3. Handled
    BY <1>5, <1>9, <2>1, <2>2 DEF Handled
  <2> QED
    BY <1>5, <1>9, <2>1, <2>3
<1> QED
  BY <1>1, <1>2, <1>3, <1>4, <1>6, <1>7, <1>8, <1>9, CSteps

(***************************************************************************)
(* What is wrong has its removal on the line.                              *)
(***************************************************************************)
LEMMA UnwoundStep ==
    ASSUME Connected, Types, Types', Phases, Control, Unwound, [Next]_vars
    PROVE  Unwound'
<1>0. /\ Line \in Seq(Notes) /\ Line' \in Seq(Notes) /\ Len(Line) \in Nat
      /\ \A i \in 1..Len(Line) : Line[i].trade \in Trades /\ Line[i].block \in Nat \ {0}
      /\ \A x \in Trades : stored[x] # None => stored[x].block \in Nat \ {0}
  <2>1. Line \in Seq(Notes) /\ Len(Line) \in Nat /\ \A i \in 1..Len(Line) : Line[i] \in Notes
    BY LineType
  <2>2. Line' \in Seq(Notes)
    BY DEF Types, Line
  <2>3. \A x \in Trades : stored[x] # None => stored[x] \in Events
    BY DEF Types
  <2> QED
    BY <2>1, <2>2, <2>3 DEF Notes, Events
<1> DEFINE On(s, lc, i) == ~s[i].removed /\ s[i].block # lc[s[i].trade] => GoneFrom(s, i, s[i].trade, s[i].block)
           In(s, lc, st, x) == Live(st, x) /\ st[x].block # lc[x] => GoneFrom(s, 0, x, st[x].block)
<1>a. (\A i \in 1..Len(Line) : On(Line, loc, i)) /\ (\A x \in Trades : In(Line, loc, stored, x))
  BY DEF Unwound
<1> SUFFICES (\A i \in 1..Len(Line') : On(Line', loc', i)) /\ (\A x \in Trades : In(Line', loc', stored', x))
  BY DEF Unwound
<1>1. ASSUME NEW t, Tells(t), More(Line, t, Line'), stored' = stored
      PROVE  (\A i \in 1..Len(Line') : On(Line', loc', i)) /\ (\A x \in Trades : In(Line', loc', stored', x))
  <2>0. t \in Seq(Notes) /\ Len(t) \in Nat
    BY <1>1 DEF Tells
  <2>1. \A x, b : \A k \in 0..Len(Line) : GoneFrom(Line, k, x, b) \/ GoneFrom(t, 0, x, b) => GoneFrom(Line', k, x, b)
    BY <1>0, <1>1, <2>0, MoreReads
  <2>2. Len(Line') = Len(Line) + Len(t)
    BY <1>1 DEF More
  <2>3. ASSUME NEW i \in 1..Len(Line') PROVE On(Line', loc', i)
    <3>1. CASE i <= Len(Line)
      <4>1. i \in 1..Len(Line) /\ i \in 0..Len(Line) /\ Line'[i] = Line[i]
        BY <1>0, <1>1, <3>1 DEF More
      <4>2. ASSUME ~Line[i].removed, Line[i].block # loc'[Line[i].trade]
            PROVE  GoneFrom(Line', i, Line[i].trade, Line[i].block)
        <5>1. CASE Line[i].block = loc[Line[i].trade]
          <6>1. GoneFrom(t, 0, Line[i].trade, Line[i].block)
            BY <1>0, <1>1, <4>1, <4>2, <5>1 DEF Tells
          <6> QED
            BY <2>1, <4>1, <6>1
        <5>2. CASE Line[i].block # loc[Line[i].trade]
          <6>1. GoneFrom(Line, i, Line[i].trade, Line[i].block)
            BY <1>a, <4>1, <4>2, <5>2
          <6> QED
            BY <2>1, <4>1, <6>1
        <5> QED
          BY <5>1, <5>2
      <4> QED
        BY <4>1, <4>2
    <3>2. CASE ~(i <= Len(Line))
      <4>1. i - Len(Line) \in 1..Len(t) /\ Len(Line) + (i - Len(Line)) = i
        BY <1>0, <2>0, <2>2, <3>2
      <4>2. Line'[i] = t[i - Len(Line)]
        BY <1>1, <4>1 DEF More
      <4> QED
        BY <1>1, <4>1, <4>2 DEF Tells
    <3> QED
      BY <3>1, <3>2
  <2>4. ASSUME NEW x \in Trades PROVE In(Line', loc', stored', x)
    <3>1. ASSUME Live(stored, x), stored[x].block # loc'[x] PROVE GoneFrom(Line', 0, x, stored[x].block)
      <4>0. 0 \in 0..Len(Line)
        BY <1>0
      <4>1. CASE stored[x].block = loc[x]
        <5>1. GoneFrom(t, 0, x, stored[x].block)
          BY <1>0, <1>1, <3>1, <4>1 DEF Tells, Live
        <5> QED
          BY <2>1, <4>0, <5>1
      <4>2. CASE stored[x].block # loc[x]
        <5>1. GoneFrom(Line, 0, x, stored[x].block)
          BY <1>a, <3>1, <4>2
        <5> QED
          BY <2>1, <4>0, <5>1
      <4> QED
        BY <4>1, <4>2
    <3> QED
      BY <1>1, <3>1
  <2> QED
    BY <2>3, <2>4
<1>2. CASE Mine \/ \E b \in Blocks : Reorg(b)
  <2>1. stored' = stored
    BY <1>2 DEF Mine, Reorg, events
  <2>2. \E t : Tells(t) /\ More(Line, t, Line')
    BY <1>2, MineTells, ReorgTells
  <2> QED
    BY <1>1, <2>1, <2>2
<1>3. CASE Answer
  <2>1. PICK t : Answers(t) /\ More(t, Line, Line')
    BY <1>3, AnswerTells
  <2>2. t \in Seq(Notes) /\ Len(t) \in Nat /\ UNCHANGED <<loc, stored>>
    BY <1>3, <2>1 DEF Answers, Answer, chain, events
  <2>3. \A x, b : /\ \A k \in 0..Len(t) : GoneFrom(Line, 0, x, b) => GoneFrom(Line', k, x, b)
                  /\ \A k \in Nat : GoneFrom(Line, k, x, b) => GoneFrom(Line', Len(t) + k, x, b)
    BY <1>0, <2>1, <2>2, MoreReads
  <2>4. ASSUME NEW i \in 1..Len(Line') PROVE On(Line', loc', i)
    <3>1. CASE i <= Len(t)
      <4>1. i \in 1..Len(t) /\ Line'[i] = t[i]
        BY <2>1, <2>2, <3>1 DEF More
      <4> QED
        BY <2>1, <2>2, <4>1 DEF Answers
    <3>2. CASE ~(i <= Len(t))
      <4>1. i - Len(t) \in 1..Len(Line) /\ Len(t) + (i - Len(t)) = i /\ i - Len(t) \in Nat
        BY <1>0, <2>1, <2>2, <3>2 DEF More
      <4>2. Line'[i] = Line[i - Len(t)]
        BY <2>1, <4>1 DEF More
      <4>3. On(Line, loc, i - Len(t))
        BY <1>a, <4>1
      <4> QED
        BY <2>2, <2>3, <4>1, <4>2, <4>3
    <3> QED
      BY <3>1, <3>2
  <2>5. 0 \in 0..Len(t)
    BY <2>2
  <2> QED
    BY <1>a, <2>2, <2>3, <2>4, <2>5
<1>4. ASSUME UNCHANGED loc, Same(Line, Line'), Aside
      PROVE  (\A i \in 1..Len(Line') : On(Line', loc', i)) /\ (\A x \in Trades : In(Line', loc', stored', x))
  <2>1. \A x, b : \A k \in Nat : GoneFrom(Line', k, x, b) <=> GoneFrom(Line, k, x, b)
    BY <1>0, <1>4, SameReads
  <2>2. ASSUME NEW i \in 1..Len(Line') PROVE On(Line', loc', i)
    <3>1. i \in 1..Len(Line) /\ i \in Nat /\ Like(Line'[i], Line[i])
      BY <1>0, <1>4 DEF Same
    <3>2. On(Line, loc, i)
      BY <1>a, <3>1
    <3> QED
      BY <1>4, <2>1, <3>1, <3>2 DEF Like
  <2>3. \A x \in Trades : Live(stored', x) => stored'[x] = stored[x]
    BY <1>4 DEF Aside
  <2>4. ASSUME NEW x \in Trades PROVE In(Line', loc', stored', x)
    <3>1. In(Line, loc, stored, x) /\ 0 \in Nat
      BY <1>a
    <3>2. Live(stored', x) => Live(stored, x) /\ stored'[x] = stored[x]
      BY <2>3 DEF Live
    <3> QED
      BY <1>4, <2>1, <3>1, <3>2
  <2> QED
    BY <2>2, <2>4
<1>5. ASSUME UNCHANGED loc, TailOf(Line, Line'), Handled
      PROVE  (\A i \in 1..Len(Line') : On(Line', loc', i)) /\ (\A x \in Trades : In(Line', loc', stored', x))
  <2>1. \A x, b : /\ \A k \in Nat : GoneFrom(Line', k, x, b) <=> GoneFrom(Line, k + 1, x, b)
                  /\ GoneFrom(Line, 0, x, b) => GoneFrom(Line', 0, x, b) \/ (Line[1].trade = x /\ Line[1].removed)
    BY <1>0, <1>5, TailReads
  <2>2. ASSUME NEW i \in 1..Len(Line') PROVE On(Line', loc', i)
    <3>1. i + 1 \in 1..Len(Line) /\ i \in Nat /\ Line'[i] = Line[i + 1]
      BY <1>0, <1>5 DEF TailOf
    <3>2. On(Line, loc, i + 1)
      BY <1>a, <3>1
    <3> QED
      BY <1>5, <2>1, <3>1, <3>2
  <2>3. Line[1] = Item /\ 1 \in 1..Len(Line)
    <3>1. Len(Line) > 0 /\ Line[1] = Item
      BY <1>5, LineHead DEF Handled
    <3> QED
      BY <1>0, <3>1
  <2>4. ASSUME NEW x \in Trades PROVE In(Line', loc', stored', x)
    <3>1. CASE stored'[x] = stored[x] /\ ~(x = Item.trade /\ Item.removed)
      <4>1. In(Line, loc, stored, x) /\ (Live(stored', x) => Live(stored, x))
        BY <1>a, <3>1 DEF Live
      <4> QED
        BY <1>5, <2>1, <2>3, <3>1, <4>1
    <3>2. CASE x = Item.trade /\ Item.removed
      BY <1>5, <3>2 DEF Handled
    <3>3. CASE x = Item.trade /\ ~Item.removed /\ stored'[x].block = Item.block
      <4>1. On(Line, loc, 1) /\ 0 \in Nat /\ 0 + 1 = 1
        BY <1>a, <2>3
      <4>2. stored'[x].block # loc[x] => GoneFrom(Line, 0 + 1, x, stored'[x].block)
        BY <2>3, <3>3, <4>1
      <4> QED
        BY <1>5, <2>1, <4>1, <4>2
    <3> QED
      BY <1>5, <3>1, <3>2, <3>3 DEF Handled
  <2> QED
    BY <2>2, <2>4
<1> QED
  BY <1>2, <1>3, <1>4, <1>5, Moves

(***************************************************************************)
(* Doubt stays, and a bootstrap goes on owing what it has not read.        *)
(***************************************************************************)

\* No recovery closes the gap of a reorganisation.
LEMMA ContestStays ==
    ASSUME [Next]_vars, Connected, Control, NEW g \in gaps, g.reason = "reorg_unresolved"
    PROVE  g \in gaps'
<1>1. CASE ~Writing /\ ~Promote /\ ~Recovered
  <2>1. CASE Mine \/ (\E b \in Blocks : Reorg(b)) \/ Deliver \/ UNCHANGED vars
    BY <2>1 DEF Mine, Reorg, Deliver, vars, ledger
  <2>2. CASE IngestHeader \/ IngestStore \/ Wake \/ Ask \/ Answer \/ Reconciled \/ Finalize \/ Rebuilt
    BY <2>2 DEF IngestHeader, IngestStore, Wake, Ask, Answer, Reconciled, Finalize, Rebuilt, ledger
  <2> QED
    BY <1>1, <2>1, <2>2, CSteps DEF Writing
<1>2. CASE Promote \/ Recovered
  BY <1>2 DEF Promote, Recovered, Closed
<1>3. CASE Writing
  BY <1>3 DEF Writing, ReorgGap, IngestRemoved, RebuildPromoted, RebuildNext, HandleLoss, StartUncertain, AddGaps
<1> QED
  BY <1>1, <1>2, <1>3

\* While the targets of a withdrawn block are named, nothing else moves.
LEMMA NamingStep ==
    ASSUME Connected, Types, Types', Phases, Control, [Next]_vars, NEW l \in Launches, Naming(l)
    PROVE  \/ UNCHANGED vars
           \/ ReorgGap /\ UNCHANGED <<pc, todo, step>> /\ Naming(l)' /\ Item' = Item
           \/ ReorgGap /\ l = Min(hit) /\ AddGaps({Gap(l, "reorg_unresolved", At(Item.block), 0, 0)})
<1>1. UNCHANGED vars \/ ReorgGap
  <2>1. pc = "ingest" /\ step = "gap"
    BY DEF Naming
  <2>2. ~Mine /\ ~(\E b \in Blocks : Reorg(b)) /\ ~Deliver /\ ~IngestHeader /\ ~IngestStore /\ ~IngestRemoved
    BY <2>1 DEF Mine, Reorg, Waiting, Deliver, IngestHeader, IngestStore, IngestRemoved
  <2>3. ~Wake /\ ~Ask /\ ~Answer /\ ~Promote /\ ~RebuildPromoted /\ ~Recovered
    BY <2>1 DEF Wake, Ask, Answer, Promote, RebuildPromoted, Recovered
  <2>4. ~Reconciled /\ ~Finalize /\ ~RebuildNext /\ ~Rebuilt
    BY <2>1 DEF Reconciled, Finalize, RebuildNext, Rebuilt
  <2> QED
    BY <2>2, <2>3, <2>4, CSteps
<1>2. ASSUME ReorgGap, l # Min(hit) PROVE UNCHANGED <<pc, todo, step>> /\ Naming(l)' /\ Item' = Item
  <2>1. l \in hit'
    BY <1>2 DEF ReorgGap, Naming
  <2>2. UNCHANGED <<pc, todo, step>>
    BY <1>2, <2>1 DEF ReorgGap
  <2> QED
    BY <2>1, <2>2 DEF Naming, Item
<1>3. ASSUME ReorgGap, l = Min(hit) PROVE AddGaps({Gap(l, "reorg_unresolved", At(Item.block), 0, 0)})
  BY <1>3 DEF ReorgGap
<1> QED
  BY <1>1, <1>2, <1>3

LEMMA DoubtStays ==
    ASSUME Connected, Types, Types', Phases, Control, [Next]_vars, NEW l \in Launches, Doubted(l)
    PROVE  Doubted(l)'
<1>1. CASE \E g \in gaps : Contests(g, l)
  <2>1. PICK g \in gaps : Contests(g, l)
    BY <1>1
  <2>2. g \in gaps'
    BY <2>1, ContestStays DEF Contests
  <2> QED
    BY <2>1, <2>2 DEF Doubted, Contests
<1>2. CASE Naming(l) /\ Item.block \in Start[l]..Cut[l]
  <2>1. CASE UNCHANGED vars
    <3>1. UNCHANGED <<gaps, pc, step, hit, todo>>
      BY <2>1 DEF vars, work, ledger
    <3> QED
      BY <1>2, <3>1 DEF Doubted, Naming, Item
  <2>2. CASE Naming(l)' /\ Item' = Item
    BY <1>2, <2>2 DEF Doubted
  <2>3. CASE AddGaps({Gap(l, "reorg_unresolved", At(Item.block), 0, 0)})
    <3> DEFINE g == Gap(l, "reorg_unresolved", At(Item.block), 0, 0)
    <3>1. Item.block \in Nat \ {0} /\ Start[l] \in Nat /\ Cut[l] \in Nat
      BY <1>2, ItemFields, LedgerAssumption DEF Naming
    <3>2. At(Item.block) \in Nat /\ At(Item.block) <= At(Cut[l]) /\ At(Item.block) >= At(Start[l]) /\ ~(0 > At(Item.block))
      BY <1>2, <3>1 DEF At
    <3>3. g.launch = l /\ g.reason = "reorg_unresolved" /\ g.start = At(Item.block) /\ g.end = At(Item.block)
      BY <3>2 DEF Gap
    <3>4. g \in gaps'
      BY <2>3 DEF AddGaps
    <3>5. Contests(g, l)
      BY <3>2, <3>3 DEF Contests
    <3> QED
      BY <3>4, <3>5 DEF Doubted, Contests
  <2> QED
    BY <1>2, <2>1, <2>2, <2>3, NamingStep
<1> QED
  BY <1>1, <1>2 DEF Doubted

\* Only an answer begins the work on an answer, and only the end of that work moves a cursor.
LEMMA AnswerBegins ==
    ASSUME Connected, Types, Phases, Control, [Next]_vars, pc' = pc \/ ~Answer, NEW l \in Launches, ~Answered(l)
    PROVE  ~Answered(l)' /\ cursor'[l] = cursor[l]
<1>0. cursor \in [Launches -> Nat]
  BY DEF Types
<1>1. CASE Mine \/ (\E b \in Blocks : Reorg(b)) \/ Deliver \/ UNCHANGED vars
  <2>1. UNCHANGED <<pc, after, reading, cursor>>
    BY <1>1 DEF Mine, Reorg, Deliver, vars, ask, proofs
  <2> QED
    BY <2>1 DEF Answered, Answering
<1>2. CASE IngestHeader \/ ReorgGap \/ IngestStore \/ IngestRemoved
  <2>1. UNCHANGED <<after, reading, cursor>> /\ pc = "ingest" /\ (pc' = pc \/ NextItem)
    BY <1>2 DEF IngestHeader, ReorgGap, IngestStore, IngestRemoved, ask, proofs
  <2>2. (Answering' => Answering) /\ pc' # "promoted"
    BY <2>1, NextControl DEF Answering
  <2> QED
    BY <2>1, <2>2 DEF Answered
<1>3. CASE Wake \/ Reconciled
  <2>1. after' \in {"reconcile", "finalize"} /\ pc' \in {"ingest", after'} /\ cursor' = cursor
    BY <1>3 DEF Wake, Reconciled, Handle, proofs, Control
  <2> QED
    BY <2>1 DEF Answered, Answering
<1>4. CASE Ask \/ RebuildPromoted \/ Finalize \/ RebuildNext \/ Rebuilt
  <2>1. pc' \in {"read", "reconcile", "rebuild", "sleep", "down"} /\ cursor' = cursor
    BY <1>4 DEF Ask, RebuildPromoted, Finalize, RebuildNext, Rebuilt, proofs
  <2> QED
    BY <2>1 DEF Answered, Answering
<1>5. CASE Promote \/ Recovered
  <2>1. /\ pc = "prove" /\ cursor' = [cursor EXCEPT ![reading] = upto] /\ reading' = reading
    BY <1>5 DEF Promote, Recovered, ask
  <2>2. reading # l
    BY <2>1 DEF Answered, Answering
  <2> QED
    BY <1>0, <2>1, <2>2 DEF Answered
<1>6. ~Answer
  BY DEF Answer, Handle
<1> QED
  BY <1>1, <1>2, <1>3, <1>4, <1>5, <1>6, CSteps

\* A bootstrap asks up to the head of that moment, and once only.
LEMMA FrozenStep ==
    ASSUME Connected, Types, Control, [Next]_vars, NEW l \in Launches
    PROVE  frozen'[l] = frozen[l] \/ (frozen'[l] = head /\ frozen[l] = 0 /\ Ask)
<1>1. CASE Ask
  <2>1. /\ frozen' = IF cursor[Min(turn)] = 0 /\ frozen[Min(turn)] = 0 THEN [frozen EXCEPT ![Min(turn)] = head]
                     ELSE frozen
    BY <1>1 DEF Ask
  <2> QED
    BY <1>1, <2>1 DEF Types
<1>2. CASE Mine \/ (\E b \in Blocks : Reorg(b)) \/ Deliver \/ UNCHANGED vars
  BY <1>2 DEF Mine, Reorg, Deliver, vars, proofs
<1>3. CASE IngestHeader \/ ReorgGap \/ IngestStore \/ IngestRemoved \/ Wake \/ Answer \/ Reconciled
  BY <1>3 DEF IngestHeader, ReorgGap, IngestStore, IngestRemoved, Wake, Answer, Reconciled, proofs
<1>4. CASE Promote \/ RebuildPromoted \/ Recovered \/ Finalize \/ RebuildNext \/ Rebuilt
  BY <1>4 DEF Promote, RebuildPromoted, Recovered, Finalize, RebuildNext, Rebuilt, proofs
<1> QED
  BY <1>1, <1>2, <1>3, <1>4, CSteps

LEMMA OwedStays ==
    ASSUME Connected, Types, Phases, Control, Clocked, [Next]_vars, pc' = pc \/ ~Answer, NEW x \in Trades, Owed(x),
           loc'[x] = loc[x], Gone(Line', 0, x) => Gone(Line, 0, x)
    PROVE  Owed(x)'
<1> DEFINE l == Owner[x]
<1>0. l \in Launches /\ loc[x] <= head
  BY LedgerAssumption DEF Clocked
<1>1. ~Answered(l)' /\ cursor'[l] = 0
  BY <1>0, AnswerBegins DEF Owed
<1>2. frozen'[l] # 0 => loc[x] <= frozen'[l]
  BY <1>0, FrozenStep DEF Owed
<1> QED
  BY <1>1, <1>2 DEF Owed

(***************************************************************************)
(* What the chain holds is stored or on its way.                           *)
(***************************************************************************)
LEMMA SeenStep ==
    ASSUME Connected, Types, Types', Phases, Control, Clocked, Unwound, Seen, [Next]_vars
    PROVE  Seen'
<1> SUFFICES ASSUME NEW x \in Trades, Counts(x)'
             PROVE  Shown(x)' \/ Owed(x)' \/ Doubted(Owner[x])'
  BY DEF Seen
<1> DEFINE l == Owner[x]
<1>0. /\ l \in Launches /\ Start[l] \in Nat \ {0} /\ Cut[l] \in Nat /\ End[l] \in Nat /\ Cut[l] <= End[l]
      /\ Line \in Seq(Notes) /\ Line' \in Seq(Notes) /\ Len(Line) \in Nat
      /\ loc' \in [Trades -> {0} \cup Blocks]
  <2>1. Line \in Seq(Notes) /\ Len(Line) \in Nat
    BY LineType
  <2>2. Line' \in Seq(Notes)
    BY DEF Types, Line
  <2>3. l \in Launches
    BY LedgerAssumption
  <2>a. Start[l] \in Nat \ {0} /\ Cut[l] \in Nat /\ End[l] \in Nat /\ Cut[l] <= End[l]
    <3> HIDE DEF l
    <3>1. Start[l] \in 1..MaxBlock /\ Cut[l] \in Nat /\ End[l] \in Nat /\ Cut[l] <= End[l]
      BY <2>3, LedgerAssumption
    <3> QED
      BY <3>1
  <2>4. loc' \in [Trades -> {0} \cup Blocks]
    BY DEF Types, Blocks
  <2> QED
    BY <2>1, <2>2, <2>3, <2>4, <2>a
<1>1. Doubted(l) => Doubted(l)'
  BY <1>0, DoubtStays
<1>2. loc'[x] = loc[x] => Shown(x) \/ Owed(x) \/ Doubted(l)
  BY DEF Seen, Counts
<1>3. CASE Mine \/ \E b \in Blocks : Reorg(b)
  <2>1. UNCHANGED <<stored, pc>>
    BY <1>3 DEF Mine, Reorg, events
  <2>2. PICK t : Tells(t) /\ More(Line, t, Line')
    BY <1>3, MineTells, ReorgTells
  <2>3. t \in Seq(Notes) /\ ((~Gone(t, 0, x) /\ loc'[x] = loc[x]) \/ loc'[x] = 0 \/ Stands(t, x, loc'[x]))
    BY <2>2 DEF Tells
  <2>4. \A b : /\ Gone(Line', 0, x) <=> Gone(Line, 0, x) \/ Gone(t, 0, x)
               /\ Stands(Line, x, b) /\ ~Gone(t, 0, x) => Stands(Line', x, b)
               /\ Stands(t, x, b) => Stands(Line', x, b)
    BY <1>0, <2>2, <2>3, MoreReads
  <2>5. CASE ~Gone(t, 0, x) /\ loc'[x] = loc[x]
    <3>1. Shown(x) => Shown(x)'
      BY <2>1, <2>4, <2>5 DEF Shown, Holds
    <3>2. Owed(x) => Owed(x)'
      BY <2>1, <2>4, <2>5, OwedStays
    <3> QED
      BY <1>1, <1>2, <2>5, <3>1, <3>2
  <2>6. loc'[x] # 0
    BY <1>0 DEF Counts
  <2> QED
    BY <2>3, <2>4, <2>5, <2>6 DEF Shown
<1>4. CASE Answer
  <2>1. PICK t : Answers(t) /\ More(t, Line, Line')
    BY <1>4, AnswerTells
  <2>2. t \in Seq(Notes) /\ UNCHANGED <<loc, stored, cursor, frozen, reading>> /\ pc = "read"
    BY <1>4, <2>1 DEF Answers, Answer, chain, events, proofs, ask
  <2>3. \A b : /\ Gone(Line', 0, x) <=> Gone(t, 0, x) \/ Gone(Line, 0, x)
               /\ Stands(t, x, b) /\ ~Gone(Line, 0, x) => Stands(Line', x, b)
               /\ Stands(Line, x, b) => Stands(Line', x, b)
    BY <1>0, <2>1, <2>2, MoreReads
  <2>4. \A k : ~Gone(t, k, x)
    BY <2>1 DEF Answers, Gone
  <2>5. Shown(x) => Shown(x)'
    BY <2>2, <2>3, <2>4 DEF Shown, Holds
  <2>6. ASSUME Owed(x), l = reading PROVE Shown(x)'
    <3>1. First = Start[l] /\ upto = frozen[l] /\ upto # 0
      BY <2>2, <2>6 DEF First, Owed, Clocked
    <3>2. loc[x] \in First..upto
      BY <1>0, <2>2, <2>6, <3>1 DEF Owed, Counts, Types
    <3>3. PICK i \in 1..Len(t) : t[i].trade = x
      BY <2>1, <2>6, <3>2 DEF Answers
    <3>4. Stands(t, x, loc[x])
      BY <2>1, <2>4, <3>3 DEF Answers, Stands
    <3> QED
      BY <2>2, <2>3, <2>6, <3>4 DEF Shown, Owed
  <2>7. ASSUME Owed(x), l # reading PROVE Owed(x)'
    BY <2>2, <2>3, <2>4, <2>7 DEF Owed, Answered
  <2> QED
    BY <1>1, <1>2, <2>2, <2>5, <2>6, <2>7
<1>5. ASSUME ~Mine, ~(\E b \in Blocks : Reorg(b)), ~Answer
      PROVE  Shown(x)' \/ Owed(x)' \/ Doubted(l)'
  <2>1. UNCHANGED loc /\ ((Same(Line, Line') /\ Aside) \/ (TailOf(Line, Line') /\ Handled))
    BY <1>5, Moves
  <2>2. ASSUME Same(Line, Line'), Aside PROVE Shown(x)' \/ Owed(x)' \/ Doubted(l)'
    <3>1. \A b : /\ Gone(Line', 0, x) <=> Gone(Line, 0, x)
                 /\ Stands(Line, x, b) => Stands(Line', x, b)
      BY <1>0, <2>2, SameReads
    <3>2. Owed(x) => Owed(x)'
      BY <1>5, <2>1, <3>1, OwedStays
    <3>3. ASSUME Holds(x, loc[x]), ~Gone(Line, 0, x) PROVE Shown(x)' \/ Doubted(l)'
      <4>1. CASE stored'[x] = stored[x]
        BY <2>1, <3>1, <3>3, <4>1 DEF Shown, Holds, Live
      <4>2. CASE todo # <<>> /\ Item.removed /\ x = Item.trade
        <5>1. Len(Line) > 0 /\ Line[1] = Item
          BY <4>2, LineHead
        <5>2. 1 \in 1..Len(Line) /\ 1 > 0
          BY <1>0, <5>1
        <5>3. Gone(Line, 0, x)
          BY <4>2, <5>1, <5>2 DEF Gone
        <5> QED
          BY <3>3, <5>3
      <4>3. CASE Pulled(x)
        <5>1. Naming(l)' /\ Item'.block = loc[x]
          BY <3>3, <4>3 DEF Pulled, Holds
        <5>2. Item'.block \in Start[l]..Cut[l]
          BY <2>1, <5>1 DEF Counts
        <5> QED
          BY <5>1, <5>2 DEF Doubted
      <4> QED
        BY <2>2, <4>1, <4>2, <4>3 DEF Aside
    <3>4. Stands(Line, x, loc[x]) => Shown(x)'
      BY <2>1, <3>1 DEF Shown
    <3> QED
      BY <1>1, <1>2, <2>1, <3>2, <3>3, <3>4 DEF Shown
  <2>3. ASSUME TailOf(Line, Line'), Handled PROVE Shown(x)' \/ Owed(x)' \/ Doubted(l)'
    <3>1. \A b : /\ Gone(Line', 0, x) => Gone(Line, 0, x)
                 /\ Stands(Line, x, b) => Stands(Line', x, b) \/ FirstStands(Line, Line', x, b)
      BY <1>0, <2>3, TailReads
    <3>2. Owed(x) => Owed(x)'
      BY <1>5, <2>1, <3>1, OwedStays
    <3>3. Line[1] = Item /\ 1 \in 1..Len(Line) /\ 1 \in Nat /\ 1 > 0
      <4>1. Len(Line) > 0 /\ Line[1] = Item
        BY <2>3, LineHead DEF Handled
      <4> QED
        BY <1>0, <4>1
    <3>4. ASSUME Holds(x, loc[x]), ~Gone(Line, 0, x) PROVE Shown(x)'
      <4>1. CASE stored'[x] = stored[x]
        BY <2>1, <3>1, <3>4, <4>1 DEF Shown, Holds, Live
      <4>2. CASE x = Item.trade /\ ~Item.removed /\ Live(stored', x) /\ stored'[x].block = Item.block
        <5>1. CASE Item.block = loc[x]
          BY <2>1, <3>1, <3>4, <4>2, <5>1 DEF Shown, Holds
        <5>2. CASE Item.block # loc[x]
          <6>1. GoneFrom(Line, 1, x, Item.block)
            BY <3>3, <4>2, <5>2 DEF Unwound
          <6>2. Gone(Line, 0, x)
            BY <6>1 DEF Gone, GoneFrom
          <6> QED
            BY <3>4, <6>2
        <5> QED
          BY <5>1, <5>2
      <4> QED
        BY <2>3, <4>1, <4>2 DEF Handled
    <3>5. ASSUME FirstStands(Line, Line', x, loc[x]) PROVE Shown(x)'
      <4>1. x = Item.trade /\ ~Item.removed /\ Item.block = loc[x] /\ ~Gone(Line', 0, x)
        BY <3>3, <3>5 DEF FirstStands
      <4>2. InWindow(Target, Item.block)
        <5>1. loc'[x] \in Nat
          BY <1>0 DEF Blocks
        <5> QED
          BY <1>0, <2>1, <4>1, <5>1 DEF InWindow, Target, Counts
      <4>3. Live(stored', x) /\ stored'[x].block = loc[x]
        BY <2>3, <4>1, <4>2 DEF Handled
      <4> QED
        BY <2>1, <4>1, <4>3 DEF Shown, Holds
    <3>6. Stands(Line', x, loc[x]) => Shown(x)'
      BY <2>1 DEF Shown
    <3> QED
      BY <1>1, <1>2, <2>1, <3>1, <3>2, <3>4, <3>5, <3>6 DEF Shown
  <2> QED
    BY <2>1, <2>2, <2>3
<1> QED
  BY <1>3, <1>4, <1>5

(***************************************************************************)
(* What a bootstrap has read.                                              *)
(***************************************************************************)
LEMMA ReadStep ==
    ASSUME Connected, Types, Types', Phases, Control, Control', Clocked, Read, [Next]_vars
    PROVE  Read'
<1> SUFFICES ASSUME Proving' PROVE Read'
  BY DEF Read
<1> DEFINE Clean == \A i \in 1..Len(todo) : ~todo[i].removed /\ todo[i].block = loc[todo[i].trade]
           InHandOf(x) == \E i \in 1..Len(todo) : todo[i].trade = x
<1>a. todo \in Seq(Notes) /\ todo' \in Seq(Notes)
  BY DEF Types
<1>b. reading' \in Launches
  BY DEF Control, Proving
<1>1. CASE Answer
  <2>1. PICK t : Answers(t) /\ More(t, Line, Line')
    BY <1>1, AnswerTells
  <2>2. todo' = t /\ UNCHANGED <<loc, cursor, reading, upto>> /\ pc = "read" /\ Answering' /\ pc' # "promoted"
    BY <1>1, <2>1 DEF Answers, Answer, Handle, chain, proofs, ask, Answering
  <2>3. cursor[reading] = 0 /\ First = Start[reading]
    BY <2>2 DEF Proving, First
  <2>4. Clean'
    BY <2>1, <2>2 DEF Answers
  <2>5. ASSUME NEW x \in Trades, Owner[x] = reading, Counts(x)', loc[x] <= upto PROVE InHandOf(x)'
    <3>1. loc[x] \in First..upto
      <4>1. loc[x] \in Start[reading]..Cut[reading]
        BY <2>2, <2>5 DEF Counts
      <4>2. Start[reading] \in Nat /\ Cut[reading] \in Nat /\ upto \in Nat
        <5>1. reading \in Launches /\ upto \in Nat
          BY <1>b, <2>2 DEF Types
        <5>2. Start[reading] \in 1..MaxBlock /\ Cut[reading] \in Nat
          BY <5>1, LedgerAssumption
        <5> QED
          BY <5>1, <5>2
      <4> QED
        BY <2>3, <2>5, <4>1, <4>2
    <3> QED
      BY <2>1, <2>2, <2>5, <3>1 DEF Answers
  <2> QED
    BY <2>2, <2>4, <2>5 DEF Read
<1>2. ASSUME Proving, UNCHANGED <<loc, reading, upto>>, ~Mine, ~(\E b \in Blocks : Reorg(b)), ~Answer,
             \/ UNCHANGED <<todo, stored>>
             \/ pc = "ingest" /\ (todo' = todo \/ NextItem)
      PROVE  Read'
  <2>1. Clean
    BY <1>2 DEF Read
  <2>2. Doubted(reading) => Doubted(reading)'
    BY <1>b, <1>2, DoubtStays
  <2>3. ASSUME NEW x \in Trades, Owner[x] = reading, Counts(x)', loc[x] <= upto
        PROVE  Holds(x, loc[x]) \/ InHandOf(x) \/ Doubted(reading)
    BY <1>2, <2>3 DEF Read, Counts
  <2>4. CASE UNCHANGED <<todo, stored>>
    <3>1. Clean'
      BY <1>2, <2>1, <2>4
    <3>2. \A x \in Trades : /\ Holds(x, loc[x]) => Holds(x, loc[x])'
                            /\ InHandOf(x) => InHandOf(x)'
      BY <1>2, <2>4 DEF Holds, Live
    <3> QED
      BY <1>2, <2>2, <2>3, <3>1, <3>2 DEF Read
  <2>5. ASSUME pc = "ingest", todo' = todo \/ NextItem PROVE Read'
    <3>1. todo # <<>> /\ Len(todo) \in Nat \ {0} /\ Item = todo[1] /\ 1 \in 1..Len(todo) /\ Line \in Seq(Notes)
      <4>1. todo # <<>>
        BY <2>5 DEF Phases
      <4>2. Len(todo) \in Nat \ {0}
        BY <1>a, <4>1, EmptySeq
      <4> QED
        BY <1>a, <4>1, <4>2, LineType DEF Item
    <3>2. ~Item.removed /\ Item.block = loc[Item.trade]
      BY <2>1, <3>1
    <3>3. todo' = Tail(todo) => Len(todo') = Len(todo) - 1 /\ \A i \in 1..Len(todo') : todo'[i] = todo[i + 1] /\ i + 1 \in 1..Len(todo)
      BY <1>a, <3>1, HeadTailProperties
    <3>4. Clean'
      <4>1. CASE todo' = todo
        BY <1>2, <2>1, <4>1
      <4>2. CASE todo' = Tail(todo)
        BY <1>2, <2>1, <3>3, <4>2
      <4> QED
        BY <2>5, <4>1, <4>2 DEF NextItem
    <3>5. (Same(Line, Line') /\ Aside) \/ (TailOf(Line, Line') /\ Handled)
      BY <1>2, Moves
    <3>6. ASSUME Same(Line, Line'), Aside PROVE Read'
      <4>1. ~TailOf(Line, Line')
        BY <3>1, <3>6, LenProperties DEF Same, TailOf
      <4>2. todo' = todo
        <5>1. UNCHANGED <<queue, wire>>
          <6>1. ~Deliver /\ ~Wake /\ ~Reconciled
            BY <2>5 DEF Deliver, Wake, Reconciled
          <6>2. ~Ask /\ ~Promote /\ ~RebuildPromoted /\ ~Recovered /\ ~Finalize /\ ~RebuildNext /\ ~Rebuilt
            BY <2>5 DEF Ask, Promote, RebuildPromoted, Recovered, Finalize, RebuildNext, Rebuilt
          <6>3. IngestHeader \/ ReorgGap \/ IngestStore \/ IngestRemoved \/ UNCHANGED vars
            BY <1>2, <6>1, <6>2, CSteps
          <6> QED
            BY <6>3 DEF IngestHeader, ReorgGap, IngestStore, IngestRemoved, vars
        <5> QED
          BY <2>5, <3>1, <4>1, <5>1, LineTail DEF NextItem
      <4>3. ASSUME NEW x \in Trades, Owner[x] = reading, Counts(x)', Holds(x, loc[x])
            PROVE  Holds(x, loc[x])' \/ Doubted(reading)'
        <5>1. CASE stored'[x] = stored[x]
          BY <1>2, <4>3, <5>1 DEF Holds, Live
        <5>2. CASE Pulled(x)
          <6>1. Naming(reading)' /\ Item'.block = loc[x]
            BY <1>2, <4>3, <5>2 DEF Pulled, Holds
          <6>2. Item'.block \in Start[reading]..Cut[reading]
            BY <1>2, <4>3, <6>1 DEF Counts
          <6> QED
            BY <1>2, <6>1, <6>2 DEF Doubted
        <5> QED
          BY <3>2, <3>6, <5>1, <5>2 DEF Aside
      <4>4. \A x \in Trades : InHandOf(x) => InHandOf(x)'
        BY <4>2
      <4> QED
        BY <1>2, <2>2, <2>3, <3>4, <4>3, <4>4 DEF Read
    <3>7. ASSUME Handled PROVE Read'
      <4>1. ASSUME NEW x \in Trades, Owner[x] = reading, Counts(x)', Holds(x, loc[x]) \/ InHandOf(x)
            PROVE  Holds(x, loc[x])' \/ InHandOf(x)'
        <5>1. CASE x = Item.trade
          <6>1. CASE Live(stored', x) /\ stored'[x].block = Item.block
            BY <1>2, <3>2, <5>1, <6>1 DEF Holds
          <6>2. CASE ~InWindow(Target, Item.block)
            <7>1. loc[x] \in Start[reading]..Cut[reading] /\ Target = reading /\ Item.block = loc[x]
              BY <1>2, <3>2, <4>1, <5>1 DEF Counts, Target
            <7>2. Start[reading] \in Nat /\ Cut[reading] \in Nat /\ End[reading] \in Nat /\ Cut[reading] <= End[reading]
              <8>1. reading \in Launches
                BY <1>b, <1>2
              <8>2. Start[reading] \in 1..MaxBlock
                BY <8>1, LedgerAssumption
              <8> QED
                BY <8>1, <8>2, LedgerAssumption
            <7>3. InWindow(Target, Item.block)
              BY <7>1, <7>2 DEF InWindow
            <7> QED
              BY <6>2, <7>3
          <6> QED
            BY <3>2, <3>7, <5>1, <6>1, <6>2 DEF Handled
        <5>2. CASE x # Item.trade
          <6>1. Holds(x, loc[x]) => Holds(x, loc[x])'
            BY <1>2, <3>7, <5>2 DEF Handled, Holds, Live
          <6>2. ASSUME InHandOf(x) PROVE InHandOf(x)'
            <7>1. PICK i \in 1..Len(todo) : todo[i].trade = x
              BY <6>2
            <7>2. i - 1 \in 1..Len(todo') /\ (i - 1) + 1 = i
              BY <3>1, <3>3, <3>7, <5>2, <7>1 DEF Handled
            <7>3. todo'[i - 1] = todo[i]
              BY <3>3, <3>7, <7>2 DEF Handled
            <7> QED
              BY <7>1, <7>2, <7>3
          <6> QED
            BY <4>1, <6>1, <6>2
        <5> QED
          BY <5>1, <5>2
      <4> QED
        BY <1>2, <2>2, <2>3, <3>4, <4>1 DEF Read
    <3> QED
      BY <3>5, <3>6, <3>7
  <2> QED
    BY <1>2, <2>4, <2>5
<1>3. CASE Mine \/ (\E b \in Blocks : Reorg(b)) \/ Deliver
  <2>1. pc' = pc /\ pc \notin {"ingest", "prove", "promoted"}
    BY <1>3 DEF Mine, Reorg, Deliver, Waiting
  <2> QED
    BY <2>1 DEF Proving, Answering
<1>4. CASE Wake \/ Reconciled
  <2>1. after' \in {"reconcile", "finalize"} /\ pc' \in {"ingest", after'}
    BY <1>4 DEF Wake, Reconciled, Handle, Control
  <2> QED
    BY <2>1 DEF Proving, Answering
<1>5. CASE Ask \/ RebuildPromoted \/ Recovered \/ Finalize \/ RebuildNext \/ Rebuilt
  <2>1. pc' \in {"read", "reconcile", "rebuild", "sleep", "down"}
    BY <1>5 DEF Ask, RebuildPromoted, Recovered, Finalize, RebuildNext, Rebuilt
  <2> QED
    BY <2>1 DEF Proving, Answering
<1>6. CASE Promote
  <2>1. Proving /\ UNCHANGED <<loc, reading, upto, todo, stored>>
    BY <1>6 DEF Promote, Proving, Answering, chain, ask, work, events
  <2> QED
    BY <1>2, <1>1, <1>3, <2>1
<1>7. CASE UNCHANGED vars
  <2>1. UNCHANGED <<loc, reading, upto, todo, stored, pc, after, cursor>>
    BY <1>7 DEF vars, chain, ask, work, events, proofs
  <2>2. Proving
    BY <2>1 DEF Proving, Answering
  <2> QED
    BY <1>1, <1>2, <1>3, <2>1, <2>2
<1>8. CASE IngestHeader \/ ReorgGap \/ IngestStore \/ IngestRemoved
  <2>1. UNCHANGED <<loc, reading, upto, after, cursor>> /\ pc = "ingest" /\ ((pc' = pc /\ todo' = todo) \/ NextItem)
    BY <1>8 DEF IngestHeader, ReorgGap, IngestStore, IngestRemoved, chain, ask, proofs
  <2>2. (Answering' => Answering) /\ pc' # "promoted"
    BY <2>1, NextControl DEF Answering
  <2>3. Proving
    BY <2>1, <2>2 DEF Proving
  <2> QED
    BY <1>1, <1>2, <1>3, <2>1, <2>3
<1> QED
  BY <1>1, <1>3, <1>4, <1>5, <1>6, <1>7, <1>8, CSteps

(***************************************************************************)
(* The rows.                                                               *)
(***************************************************************************)

\* A row is complete only without such a gap, and a new one makes it partial.
LEMMA HonestStep ==
    ASSUME Types, Types', Phases, Honest, [Next]_vars
    PROVE  Honest'
<1> SUFFICES ASSUME NEW l \in Launches, Complete(l)', NEW g \in gaps' PROVE ~Contests(g, l)
  BY DEF Honest, Contests
<1>1. row'[l] = row[l] => \A f \in gaps : ~Contests(f, l)
  BY DEF Honest, Complete
<1>2. CASE ~Writing
  BY <1>1, <1>2, RowsKept, GapsClose
<1>3. ASSUME NEW m, NEW until, Rebuild(m, until, gaps, boot, cursor, covStart, covEnd), gaps' = gaps
      PROVE  ~Contests(g, l)
  <2>1. CASE row'[l] = row[l]
    BY <1>1, <1>3, <2>1
  <2>2. CASE row'[l].quality = Quality(l, gaps, boot, covStart, covEnd)
    <3>1. Against(gaps, l) = {}
      BY <2>2 DEF Complete, Quality
    <3> QED
      BY <1>3, <3>1 DEF Against, Contests
  <2> QED
    BY <1>3, <2>1, <2>2, Rebuilding
<1>4. ASSUME NEW G, AddGaps(G) PROVE ~Contests(g, l)
  <2>1. l \notin Contested(G)
    BY <1>4, Adding DEF Complete
  <2>2. row'[l] = row[l] /\ row[l] # None
    BY <1>4, <2>1, Adding DEF Complete
  <2>3. \A f \in G : ~Contests(f, l)
    BY <2>1, <2>2 DEF Contested, Contests
  <2> QED
    BY <1>1, <1>4, <2>2, <2>3 DEF AddGaps
<1> QED
  BY <1>2, <1>3, <1>4, RowSteps

\* A removal stays on the line until it is stored, and then it contests the row.
LEMMA LeavingStep ==
    ASSUME Connected, Types, Types', Phases, Control, [Next]_vars, NEW l \in Launches, Leaving(l)
    PROVE  Leaving(l)' \/ (IngestRemoved /\ Target = l /\ Item.block <= Cut[l])
<1> DEFINE Leaves(n) == n.removed /\ Owner[n.trade] = l /\ n.block <= Cut[l]
<1>0. PICK i \in 1..Len(Line) : Leaves(Line[i])
  BY DEF Leaving
<1>a. Len(Line) \in Nat /\ Line \in Seq(Notes)
  BY LineType
<1>b. (\E j \in 1..Len(Line') : Leaves(Line'[j])) => Leaving(l)'
  BY DEF Leaving
<1>1. CASE Mine \/ \E b \in Blocks : Reorg(b)
  <2>1. PICK t : Tells(t) /\ More(Line, t, Line')
    BY <1>1, MineTells, ReorgTells
  <2>2. t \in Seq(Notes) /\ Len(t) \in Nat
    BY <2>1 DEF Tells
  <2>3. i \in 1..Len(Line') /\ Line'[i] = Line[i]
    BY <1>0, <1>a, <2>1, <2>2 DEF More
  <2> QED
    BY <1>0, <1>b, <2>3
<1>2. CASE Answer
  <2>1. PICK t : Answers(t) /\ More(t, Line, Line')
    BY <1>2, AnswerTells
  <2>2. t \in Seq(Notes) /\ Len(t) \in Nat
    BY <2>1 DEF Answers
  <2>3. Len(t) + i \in 1..Len(Line') /\ Line'[Len(t) + i] = Line[i]
    BY <1>0, <1>a, <2>1, <2>2 DEF More
  <2> QED
    BY <1>0, <1>b, <2>3
<1>3. CASE Same(Line, Line')
  <2>1. i \in 1..Len(Line') /\ Like(Line'[i], Line[i])
    BY <1>0, <1>3 DEF Same
  <2> QED
    BY <1>0, <1>b, <2>1 DEF Like
<1>4. CASE TailOf(Line, Line') /\ Handled
  <2>1. Line[1] = Item
    BY <1>4, LineHead DEF Handled
  <2>2. CASE i = 1
    BY <1>0, <1>4, <2>1, <2>2 DEF Handled, Target
  <2>3. CASE i # 1
    <3>1. i - 1 \in 1..Len(Line') /\ (i - 1) + 1 = i
      BY <1>0, <1>4, <1>a, <2>3 DEF TailOf
    <3>2. Line'[i - 1] = Line[i]
      BY <1>4, <3>1 DEF TailOf
    <3> QED
      BY <1>0, <1>b, <3>1, <3>2
  <2> QED
    BY <2>2, <2>3
<1> QED
  BY <1>1, <1>2, <1>3, <1>4, Moves

\* What is stored for an early row again is stored with the marker at or below its cutoff;
\* finalize passes such a row over only in the block of its cutoff.
LEMMA OwingStep ==
    ASSUME Connected, Types, Types', Phases, Control, [Next]_vars, OneBlock, UNCHANGED head,
           NEW l \in Launches, NEW x \in Trades, row[l] # None, row'[l] # None, row'[l].early, head > Cut[l],
           x \in Own(stored, l) => Owing(l)
    PROVE  x \in Own(stored', l) => Owing(l)'
<1>0. marker \in Nat /\ marker' \in Nat /\ Cut[l] \in Nat /\ head \in Nat
  BY LedgerAssumption DEF Types, Blocks
<1>1. ASSUME UNCHANGED <<stored, marker>>, (pc = "rebuild") = (pc' = "rebuild"), pc = "rebuild" => hit' = hit
      PROVE  x \in Own(stored', l) => Owing(l)'
  BY <1>1 DEF Owing
<1>2. ASSUME NEW T \in SUBSET Trades, UNCHANGED events \/ Touched(T), pc = "ingest", pc' # "rebuild"
      PROVE  x \in Own(stored', l) => Owing(l)'
  <2>1. CASE UNCHANGED events
    BY <1>1, <1>2, <2>1 DEF events
  <2>2. CASE Touched(T) /\ x \notin T
    <3>1. stored'[x] = stored[x] /\ marker' # 0 /\ (marker # 0 => marker' <= marker)
      BY <2>2 DEF Touched
    <3>2. x \in Own(stored', l) => marker # 0 /\ marker <= At(Cut[l])
      BY <1>2, <3>1 DEF Own, Live, Owing
    <3>3. At(Cut[l]) \in Nat
      BY <1>0 DEF At
    <3>4. x \in Own(stored', l) => marker' <= At(Cut[l])
      BY <1>0, <3>1, <3>2, <3>3
    <3> QED
      BY <1>2, <3>1, <3>4 DEF Owing
  <2>3. CASE Touched(T) /\ x \in T
    <3>1. marker' # 0 /\ stored'[x] # None /\ marker' <= At(stored'[x].block)
      BY <2>3 DEF Touched
    <3>2. stored'[x].block \in Nat
      BY <3>1 DEF Types, Events
    <3>3. stored'[x].block <= Cut[l] => marker' <= At(Cut[l])
      BY <1>0, <3>1, <3>2 DEF At
    <3>4. x \in Own(stored', l) => stored'[x].block <= Cut[l]
      BY DEF Own
    <3> QED
      BY <1>2, <3>1, <3>3, <3>4 DEF Owing
  <2> QED
    BY <1>2, <2>1, <2>2, <2>3
<1>3. CASE IngestHeader
  <2>1. pc = "ingest" /\ pc' # "rebuild" /\ Orphans \in SUBSET Trades
    BY <1>3 DEF IngestHeader, NextItem, Phases, Orphans
  <2> QED
    BY <1>2, <1>3, <2>1, Withdrawing
<1>4. CASE IngestStore
  <2>1. pc = "ingest" /\ pc' # "rebuild"
    BY <1>4 DEF IngestStore, NextItem, Phases
  <2>2. {Item.trade} \in SUBSET Trades
    BY <2>1, ItemFields
  <2> QED
    BY <1>2, <1>4, <2>1, <2>2, Storing
<1>5. CASE Finalize
  <2>1. /\ stored' = stored /\ marker' = marker /\ pc = "finalize" /\ pc' = "rebuild"
        /\ hit' = dirty \cup Stale \cup Due
    BY <1>5 DEF Finalize, events
  <2>2. ASSUME x \in Own(stored, l) PROVE l \in Stale
    <3>1. marker # 0 /\ marker <= At(Cut[l])
      BY <2>1, <2>2 DEF Owing
    <3>2. At(Cut[l]) \in Nat
      BY <1>0 DEF At
    <3> QED
      BY <1>0, <3>1, <3>2 DEF Stale
  <2> QED
    BY <2>1, <2>2 DEF Owing
<1>6. CASE RebuildNext
  <2>1. /\ stored' = stored /\ marker' = marker /\ pc = "rebuild" /\ pc' = pc /\ hit' = hit \ {Min(hit)}
        /\ Rebuild(Min(hit), Sure, gaps, boot, cursor, covStart, covEnd)
    BY <1>6 DEF RebuildNext, events
  <2>2. CASE l # Min(hit)
    BY <2>1, <2>2 DEF Owing
  <2>3. CASE l = Min(hit)
    <3>1. ~(At(Cut[l]) > Sure)
      BY <1>0 DEF At, Sure, OneBlock
    <3> QED
      BY <2>1, <2>3, <3>1, Rebuilding
  <2> QED
    BY <2>2, <2>3
<1>7. CASE Rebuilt
  <2>1. stored' = stored /\ pc = "rebuild" /\ hit = {}
    BY <1>7 DEF Rebuilt
  <2> QED
    BY <2>1 DEF Owing
<1>8. CASE Mine \/ (\E b \in Blocks : Reorg(b)) \/ Deliver \/ UNCHANGED vars
  <2>1. UNCHANGED <<stored, marker, pc, hit>>
    BY <1>8 DEF Mine, Reorg, Deliver, vars, events, work
  <2> QED
    BY <1>1, <2>1
<1>9. CASE ReorgGap \/ IngestRemoved
  <2>1. UNCHANGED <<stored, marker>> /\ pc = "ingest" /\ pc' # "rebuild"
    BY <1>9 DEF ReorgGap, IngestRemoved, events, NextItem, Phases
  <2> QED
    BY <1>1, <2>1
<1>10. CASE Wake \/ Answer \/ Reconciled
  <2>1. UNCHANGED <<stored, marker>> /\ pc # "rebuild" /\ pc' # "rebuild"
    BY <1>10 DEF Wake, Answer, Reconciled, Handle, events
  <2> QED
    BY <1>1, <2>1
<1>11. CASE Ask \/ Promote \/ RebuildPromoted \/ Recovered
  <2>1. UNCHANGED <<stored, marker>> /\ pc # "rebuild" /\ pc' # "rebuild"
    BY <1>11 DEF Ask, Promote, RebuildPromoted, Recovered, events
  <2> QED
    BY <1>1, <2>1
<1> QED
  BY <1>3, <1>4, <1>5, <1>6, <1>7, <1>8, <1>9, <1>10, <1>11, CSteps

\* What an early row counts of trade x.
Told(l, x) ==
    \/ x \in row[l].own <=> Counts(x)
    \/ head > Cut[l] /\ Counts(x) /\ x \notin row[l].own /\ (x \in Own(stored, l) => Owing(l))

\* A block that is replaced withdraws what leaves the window, and what enters it was not stored.
LEMMA ToldStep ==
    ASSUME Connected, OneBlock, Types, Types', Phases, Control, Clocked, Unwound, [Next]_vars,
           NEW l \in Launches, NEW x \in Trades, Owner[x] = l, row'[l] = row[l], Complete(l), row[l].early,
           Told(l, x), ~Leaving(l)'
    PROVE  Told(l, x)'
<1>0. /\ Cut[l] \in Nat /\ Start[l] \in Nat \ {0} /\ head \in Nat /\ head' \in Nat /\ Cut[l] <= head
      /\ loc[x] \in Nat /\ loc'[x] \in Nat /\ Line \in Seq(Notes) /\ row[l] # None
  <2>1. Start[l] \in 1..MaxBlock /\ Cut[l] \in Nat
    BY LedgerAssumption
  <2>2. head \in Blocks /\ head' \in Blocks /\ loc[x] \in {0} \cup Blocks /\ loc'[x] \in {0} \cup Blocks
    BY DEF Types
  <2>3. head \in Nat /\ head' \in Nat /\ loc[x] \in Nat /\ loc'[x] \in Nat
    BY <2>2 DEF Blocks
  <2> QED
    BY <2>1, <2>3, LineType DEF Clocked, Complete
<1>1. CASE Mine
  <2>1. /\ UNCHANGED <<stored, marker, pc, hit>> /\ head' = head + 1
        /\ (loc'[x] = loc[x] \/ (loc[x] = 0 /\ loc'[x] = head + 1))
    BY <1>1, MineTells DEF Mine, events, work
  <2>2. CASE loc'[x] = loc[x]
    <3>1. Counts(x)' = Counts(x) /\ (head > Cut[l] => head' > Cut[l]) /\ (Owing(l) => Owing(l)')
      BY <1>0, <2>1, <2>2 DEF Counts, Owing
    <3> QED
      BY <2>1, <3>1 DEF Told
  <2>3. CASE loc[x] = 0 /\ loc'[x] = head + 1
    <3>1. ~Counts(x) /\ ~Counts(x)'
      BY <1>0, <2>3 DEF Counts
    <3> QED
      BY <3>1 DEF Told
  <2> QED
    BY <2>1, <2>2, <2>3
<1>2. ASSUME NEW b \in Blocks, Reorg(b) PROVE Told(l, x)'
  <2>1. UNCHANGED <<stored, marker, pc, hit, head>> /\ (loc'[x] = loc[x] \/ loc[x] >= b)
    BY <1>2 DEF Reorg, events, work
  <2>2. PICK t : Tells(t) /\ More(Line, t, Line')
    BY <1>2, ReorgTells
  <2>3. CASE loc'[x] = loc[x]
    <3>1. Counts(x)' = Counts(x) /\ (Owing(l) => Owing(l)')
      BY <2>1, <2>3 DEF Counts, Owing
    <3> QED
      BY <2>1, <3>1 DEF Told
  <2>4. CASE loc'[x] # loc[x]
    <3>1. b \in Nat \ {0}
      BY DEF Blocks
    <3>2. loc[x] # 0 /\ loc[x] <= head
      BY <1>0, <2>1, <2>4, <3>1 DEF Clocked
    <3>3. loc[x] > Cut[l]
      <4>1. t \in Seq(Notes) /\ Len(t) \in Nat /\ Len(Line) \in Nat
        BY <1>0, <2>2 DEF Tells
      <4>2. PICK i \in 1..Len(t) : t[i].trade = x /\ t[i].removed /\ t[i].block = loc[x]
        BY <2>2, <2>4, <3>2 DEF Tells, GoneFrom
      <4>3. Len(Line) + i \in 1..Len(Line') /\ Line'[Len(Line) + i] = t[i]
        BY <2>2, <4>1 DEF More
      <4>4. ~(loc[x] <= Cut[l])
        BY <4>2, <4>3 DEF Leaving
      <4> QED
        BY <1>0, <4>4
    <3>4. ~Counts(x) /\ head > Cut[l]
      BY <1>0, <3>2, <3>3 DEF Counts
    <3>5. x \notin row[l].own
      BY <3>4 DEF Told
    <3>6. x \notin Own(stored, l)
      <4>1. SUFFICES ASSUME x \in Own(stored, l) PROVE FALSE
        OBVIOUS
      <4>2. Live(stored, x) /\ stored[x].block \in Start[l]..Cut[l]
        BY <4>1 DEF Own
      <4>3. stored[x].block # loc[x]
        BY <1>0, <3>3, <4>2
      <4>4. GoneFrom(Line, 0, x, stored[x].block)
        BY <4>2, <4>3 DEF Unwound
      <4>5. Leaving(l)
        BY <1>0, <4>2, <4>4 DEF GoneFrom, Leaving
      <4> QED
        BY <1>2, <4>5, LeavingStep DEF Reorg, Waiting, IngestRemoved
    <3> QED
      BY <2>1, <3>4, <3>5, <3>6 DEF Told
  <2> QED
    BY <2>3, <2>4
<1>3. ASSUME UNCHANGED <<head, loc>> PROVE Told(l, x)'
  <2>1. Counts(x)' = Counts(x)
    BY <1>3 DEF Counts
  <2>2. CASE x \in row[l].own <=> Counts(x)
    BY <2>1, <2>2 DEF Told
  <2>3. CASE head > Cut[l] /\ Counts(x) /\ x \notin row[l].own /\ (x \in Own(stored, l) => Owing(l))
    <3>1. x \in Own(stored', l) => Owing(l)'
      BY <1>0, <1>3, <2>3, OwingStep
    <3> QED
      BY <1>3, <2>1, <2>3, <3>1 DEF Told
  <2> QED
    BY <2>2, <2>3 DEF Told
<1>4. CASE Answer
  BY <1>3, <1>4 DEF Answer, chain
<1>5. CASE ~Mine /\ ~(\E b \in Blocks : Reorg(b)) /\ ~Answer
  BY <1>3, <1>5, Moves, HeadKept
<1> QED
  BY <1>1, <1>2, <1>4, <1>5

LEMMA EarlyStep ==
    ASSUME Connected, OneBlock, Types, Types', Phases, Control, Clocked, Unwound, Read, Early, [Next]_vars
    PROVE  Early'
<1> SUFFICES ASSUME NEW l \in Launches, Complete(l)', row'[l].early, ~Leaving(l)',
                    ~(Naming(l)' /\ Item'.block <= Cut[l]), NEW x \in Trades, Owner[x] = l
             PROVE  Told(l, x)'
  BY DEF Early, Told
<1>0. Cut[l] \in Nat /\ Start[l] \in Nat /\ row'[l] # None
  <2>1. Start[l] \in 1..MaxBlock /\ Cut[l] \in Nat
    BY LedgerAssumption
  <2> QED
    BY <2>1 DEF Complete
<1>1. ASSUME NEW G, AddGaps(G) PROVE l \notin Contested(G) /\ row'[l] = row[l]
  <2>1. l \notin Contested(G)
    BY <1>1, Adding DEF Complete
  <2> QED
    BY <1>1, <2>1, Adding
<1>2. ASSUME row'[l] = row[l] PROVE Told(l, x)'
  <2>1. Complete(l) /\ row[l].early /\ row[l] # None
    BY <1>0, <1>2 DEF Complete
  <2>2. ~(Naming(l) /\ Item.block <= Cut[l])
    <3>1. SUFFICES ASSUME Naming(l), Item.block <= Cut[l] PROVE FALSE
      OBVIOUS
    <3>2. CASE UNCHANGED vars
      <4>1. UNCHANGED <<pc, step, hit, todo>>
        BY <3>2 DEF vars, work
      <4> QED
        BY <3>1, <4>1 DEF Naming, Item
    <3>3. CASE Naming(l)' /\ Item' = Item
      BY <3>1, <3>3
    <3>4. CASE AddGaps({Gap(l, "reorg_unresolved", At(Item.block), 0, 0)})
      <4> DEFINE g == Gap(l, "reorg_unresolved", At(Item.block), 0, 0)
      <4>1. Item.block \in Nat
        BY <3>1, ItemFields DEF Naming
      <4>2. At(Cut[l]) >= At(Item.block)
        BY <1>0, <3>1, <4>1 DEF At
      <4>3. g.launch = l /\ g.start = At(Item.block)
        BY DEF Gap
      <4> HIDE DEF g
      <4>4. l \in Contested({g})
        BY <2>1, <4>2, <4>3 DEF Contested
      <4> QED
        BY <1>1, <3>4, <4>4 DEF g
    <3> QED
      BY <3>1, <3>2, <3>3, <3>4, NamingStep
  <2>3. ~Leaving(l)
    <3>1. SUFFICES ASSUME Leaving(l) PROVE FALSE
      OBVIOUS
    <3>2. IngestRemoved /\ Target = l /\ Item.block <= Cut[l]
      BY <3>1, LeavingStep
    <3> DEFINE g == Gap(l, "reorg_unresolved", At(Item.block), Now, 0)
    <3>3. AddGaps({g})
      BY <3>2 DEF IngestRemoved
    <3>4. Item.block \in Nat
      BY <3>2, ItemFields DEF IngestRemoved
    <3>5. At(Cut[l]) >= At(Item.block)
      BY <1>0, <3>2, <3>4 DEF At
    <3>6. g.launch = l /\ g.start = At(Item.block)
      BY DEF Gap
    <3> HIDE DEF g
    <3>7. l \in Contested({g})
      BY <2>1, <3>5, <3>6 DEF Contested
    <3> QED
      BY <1>1, <3>3, <3>7
  <2>4. Told(l, x)
    BY <2>1, <2>2, <2>3 DEF Early, Told
  <2> QED
    BY <1>2, <2>1, <2>4, ToldStep
<1>3. CASE ~Writing
  BY <1>2, <1>3, RowsKept
<1>4. CASE ReorgGap \/ IngestRemoved
  <2>1. \E G : AddGaps(G)
    BY <1>4 DEF ReorgGap, IngestRemoved
  <2> QED
    BY <1>1, <1>2, <2>1
<1>5. CASE HandleLoss \/ StartUncertain
  BY <1>5 DEF Control, HandleLoss, StartUncertain
<1>6. CASE RebuildNext
  <2>1. Rebuild(Min(hit), Sure, gaps, boot, cursor, covStart, covEnd)
    BY <1>6 DEF RebuildNext
  <2>2. row'[l] = row[l]
    <3>1. CASE l # Min(hit)
      BY <2>1, <3>1, Rebuilding
    <3>2. CASE l = Min(hit) /\ At(Cut[l]) > Sure
      BY <2>1, <3>2, Rebuilding
    <3>3. CASE l = Min(hit) /\ ~(At(Cut[l]) > Sure)
      BY <2>1, <3>3, Rebuilding
    <3> QED
      BY <3>1, <3>2, <3>3
  <2> QED
    BY <1>2, <2>2
<1>7. CASE RebuildPromoted
  <2>1. /\ Rebuild(reading, Now, gaps, boot, cursor, covStart, covEnd) /\ pc = "promoted"
        /\ UNCHANGED <<head, loc, todo, queue, wire, stored>>
    BY <1>7 DEF RebuildPromoted, chain, work, events
  <2>2. CASE row'[l] = row[l]
    BY <1>2, <2>2
  <2>3. CASE row'[l] # row[l]
    <3>1. /\ l = reading /\ row'[l].own = Own(stored, l)
          /\ row'[l].quality = Quality(l, gaps, boot, covStart, covEnd) /\ row'[l].early = (At(Cut[l]) > Sure)
      <4>1. l = reading
        BY <2>1, <2>3, Rebuilding
      <4>2. ~(At(Cut[reading]) > Now)
        BY <2>1, <2>3, Rebuilding
      <4>3. /\ Matches(row'[reading], stored, reading) /\ row'[reading].early = (At(Cut[reading]) > Sure)
            /\ row'[reading].quality = Quality(reading, gaps, boot, covStart, covEnd)
        BY <2>1, <4>1, <4>2, Rebuilding
      <4> QED
        BY <4>1, <4>3 DEF Matches
    <3>2. Against(gaps, l) = {} /\ covEnd[l] >= At(Cut[l]) /\ At(Cut[l]) > Sure
      BY <3>1 DEF Complete, Quality
    <3>3. Cut[l] <= upto
      <4>1. covEnd[l] \in Int /\ upto \in Nat /\ Sure \in Int
        BY Buffered DEF Clocked, Types
      <4>2. covEnd[l] <= Sure \/ covEnd[l] <= At(upto)
        BY <2>1, <3>1 DEF Clocked
      <4> QED
        BY <1>0, <3>2, <4>1, <4>2 DEF At
    <3>4. Line' = Line
      BY <2>1 DEF Line
    <3>5. todo = <<>> /\ Proving /\ ~Doubted(l)
      <4>1. ~Naming(l) /\ todo = <<>> /\ Proving
        BY <2>1 DEF Naming, Control, Proving
      <4> QED
        BY <3>2, <4>1 DEF Doubted, Against, Contests
    <3>6. ASSUME Counts(x) PROVE x \in Own(stored, l)
      <4>1. loc[x] \in Start[l]..Cut[l]
        BY <3>6 DEF Counts
      <4>2. loc[x] <= upto
        <5>1. upto \in Nat
          BY DEF Types
        <5> QED
          BY <1>0, <3>3, <4>1, <5>1
      <4>3. Holds(x, loc[x])
        BY <3>1, <3>5, <3>6, <4>2 DEF Read
      <4> QED
        BY <4>1, <4>3 DEF Holds, Own
    <3>7. ASSUME x \in Own(stored, l), ~Counts(x) PROVE FALSE
      <4>1. Live(stored, x) /\ stored[x].block \in Start[l]..Cut[l]
        BY <3>7 DEF Own
      <4>2. stored[x].block # loc[x]
        BY <3>7, <4>1 DEF Counts
      <4>3. GoneFrom(Line, 0, x, stored[x].block)
        BY <4>1, <4>2 DEF Unwound
      <4>4. Leaving(l)
        BY <1>0, <4>1, <4>3 DEF GoneFrom, Leaving
      <4> QED
        BY <3>4, <4>4 DEF Leaving
    <3>8. x \in row'[l].own <=> Counts(x)'
      BY <2>1, <3>1, <3>6, <3>7 DEF Counts
    <3> QED
      BY <3>8 DEF Told
  <2> QED
    BY <2>2, <2>3
<1> QED
  BY <1>3, <1>4, <1>5, <1>6, <1>7 DEF Writing

LEMMA OwnedStep ==
    ASSUME Types, Phases, Owned, [Next]_vars
    PROVE  Owned'
<1> SUFFICES ASSUME NEW l \in Launches, row'[l] # None, NEW x \in row'[l].own PROVE Owner[x] = l
  BY DEF Owned
<1>1. row[l] # None /\ row'[l].own = row[l].own => Owner[x] = l
  BY DEF Owned
<1>2. CASE ~Writing
  BY <1>1, <1>2, RowsKept
<1>3. ASSUME NEW m, NEW until, Rebuild(m, until, gaps, boot, cursor, covStart, covEnd) PROVE Owner[x] = l
  <2>1. row'[l] = row[l] \/ row'[l].own = Own(stored, l)
    BY <1>3, Rebuilding DEF Matches
  <2> QED
    BY <1>1, <2>1 DEF Own
<1>4. ASSUME NEW G, AddGaps(G) PROVE Owner[x] = l
  <2>1. row'[l] = row[l] \/ (row[l] # None /\ row'[l].own = row[l].own)
    BY <1>4, Adding DEF Contested
  <2> QED
    BY <1>1, <2>1
<1> QED
  BY <1>2, <1>3, <1>4, RowSteps

(***************************************************************************)
(* The theorem.                                                            *)
(***************************************************************************)

\* At first nothing is on the line and every trade is owed.
LEMMA InitConnected ==
    ASSUME Connected, Init, Types
    PROVE  CInv /\ Early
<1>1. Line = <<>> /\ todo = <<>>
  <2>1. <<>> \o <<>> = <<>>
    <3>1. <<>> \in Seq(Notes)
      OBVIOUS
    <3> QED
      BY <3>1, ConcatEmptySeq
  <2> QED
    BY <2>1 DEF Init, Line
<1>2. Control
  BY <1>1 DEF Init, Control, Answering
<1>3. head \in Nat \ {0} /\ \A l \in Launches : Start[l] <= head
  <2> DEFINE S == {Start[l] : l \in Launches}
  <2>1. MaxBlock \in Nat /\ Launches # {} /\ \A l \in Launches : Start[l] \in 1..MaxBlock
    BY LedgerAssumption
  <2>2. S \in SUBSET (0..MaxBlock) /\ S # {} /\ \A l \in Launches : Start[l] \in S /\ Start[l] \in Nat \ {0}
    BY <2>1
  <2>3. head = Max(S)
    BY DEF Init
  <2> HIDE DEF S
  <2>4. head \in S /\ \A b \in S : head >= b
    BY <2>1, <2>2, <2>3, GreatestIsIn
  <2>5. head \in Nat \ {0}
    BY DEF Types, Blocks
  <2>6. ASSUME NEW l \in Launches PROVE Start[l] <= head
    <3>1. head >= Start[l] /\ Start[l] \in Nat
      BY <2>2, <2>4
    <3> QED
      BY <2>5, <3>1
  <2> QED
    BY <2>5, <2>6
<1>4. Clocked
  <2>1. \A x \in Trades : loc[x] <= head
    BY <1>3 DEF Init
  <2>3. covEnd \in [Launches -> Int] /\ \A l \in Launches : l \in pending /\ covEnd[l] = 0 /\ frozen[l] <= head
    <3>1. covEnd = [l \in Launches |-> 0] /\ frozen = [l \in Launches |-> 0] /\ pending = Launches
      BY DEF Init
    <3> QED
      BY <1>3, <3>1
  <2>4. pc = "sleep" /\ \A l \in Launches : row[l] = None
    BY DEF Init
  <2> QED
    BY <1>3, <2>1, <2>3, <2>4 DEF Clocked, Answering
<1>5. (\A x \in Trades : ~Live(stored, x)) /\ (\A l \in Launches : row[l] = None) /\ Len(Line) = 0
  BY <1>1 DEF Init, Live
<1>6. Unwound
  BY <1>5 DEF Unwound
<1>7. Seen
  <2>1. \A x \in Trades : cursor[Owner[x]] = 0 /\ frozen[Owner[x]] = 0
    BY LedgerAssumption DEF Init
  <2>2. pc = "sleep"
    BY DEF Init
  <2>3. \A x \in Trades : Owed(x)
    BY <1>5, <2>1, <2>2 DEF Owed, Answered, Answering, Gone
  <2> QED
    BY <2>3 DEF Seen
<1>8. Read
  BY DEF Read, Proving, Answering, Init
<1>9. Owned /\ Honest /\ Early
  BY <1>5 DEF Owned, Honest, Early, Complete
<1> QED
  BY <1>2, <1>4, <1>6, <1>7, <1>8, <1>9 DEF CInv

\* When nothing is on its way, what is stored of a complete row's target is what the chain holds.
LEMMA QuietStore ==
    ASSUME IInv, CInv, Quiet, NEW l \in Launches, Complete(l)
    PROVE  /\ Len(Line) = 0 /\ ~Naming(l) /\ ~Owing(l)
           /\ \A x \in row[l].own : x \in Trades /\ Owner[x] = l
           /\ \A x \in Trades : Owner[x] = l => (x \in Own(stored, l) <=> Counts(x))
<1>1. /\ pc = "sleep" /\ todo = <<>> /\ queue = <<>> /\ wire = <<>> /\ marker = 0 /\ pending = {}
      /\ Control /\ Clocked /\ Unwound /\ Seen /\ Owned /\ Honest
  BY DEF Quiet, CInv, Control
<1>2. Len(Line) = 0
  <2>1. <<>> \in Seq(Notes)
    OBVIOUS
  <2>2. Line = <<>>
    BY <1>1, <2>1, ConcatEmptySeq DEF Line
  <2> QED
    BY <2>2
<1>3. row[l] # None /\ row[l].own \in SUBSET Trades /\ cursor[l] # 0 /\ ~Doubted(l) /\ ~Naming(l) /\ ~Owing(l)
  <2>1. row[l] \in Rows
    BY DEF Complete, IInv, Types
  <2>2. ~Naming(l) /\ ~Owing(l)
    BY <1>1 DEF Naming, Owing
  <2> QED
    BY <1>1, <2>1, <2>2 DEF Complete, Rows, Clocked, Doubted, Honest
<1>4. ASSUME NEW x \in Trades, Owner[x] = l PROVE x \in Own(stored, l) <=> Counts(x)
  <2>1. ASSUME Counts(x) PROVE x \in Own(stored, l)
    <3>1. Shown(x)
      BY <1>1, <1>3, <1>4, <2>1 DEF Seen, Owed
    <3>2. Holds(x, loc[x])
      BY <1>2, <3>1 DEF Shown, Stands
    <3> QED
      BY <1>4, <2>1, <3>2 DEF Holds, Own, Counts
  <2>2. ASSUME x \in Own(stored, l) PROVE Counts(x)
    <3>1. Live(stored, x) /\ stored[x].block \in Start[l]..Cut[l]
      BY <2>2 DEF Own
    <3>2. stored[x].block = loc[x]
      BY <1>1, <1>2, <3>1 DEF Unwound, GoneFrom
    <3> QED
      BY <1>4, <3>1, <3>2 DEF Counts
  <2> QED
    BY <2>1, <2>2
<1>5. \A x \in row[l].own : x \in Trades /\ Owner[x] = l
  BY <1>1, <1>3 DEF Owned
<1> QED
  BY <1>2, <1>3, <1>4, <1>5

\* A row finalize has built, or one built outside the buffer it keeps behind the clock.
FinalIsCanonical ==
    Quiet => \A l \in Launches : Complete(l) /\ ~row[l].early => row[l].own = Canonical(l)

LEMMA FinalRows ==
    ASSUME IInv, CInv
    PROVE  FinalIsCanonical
<1> SUFFICES ASSUME Quiet, NEW l \in Launches, Complete(l), ~row[l].early PROVE row[l].own = Canonical(l)
  BY DEF FinalIsCanonical
<1>1. row[l].own = Own(stored, l)
  BY DEF Quiet, Complete, IInv, Marked, Judged, Matches
<1>2. Canonical(l) = {x \in Trades : Owner[x] = l /\ Counts(x)}
  BY DEF Canonical, Counts
<1> QED
  BY <1>1, <1>2, QuietStore

LEMMA EarlyRows ==
    ASSUME IInv, CInv, Early, Quiet, NEW l \in Launches, Complete(l), row[l].early
    PROVE  row[l].own = Canonical(l)
<1>1. /\ Len(Line) = 0 /\ ~Naming(l) /\ ~Owing(l)
      /\ \A x \in row[l].own : x \in Trades /\ Owner[x] = l
      /\ \A x \in Trades : Owner[x] = l => (x \in Own(stored, l) <=> Counts(x))
  BY QuietStore
<1>2. ~Leaving(l)
  BY <1>1 DEF Leaving
<1>3. \A x \in Trades : Owner[x] = l => Told(l, x)
  BY <1>1, <1>2 DEF Early, Told
<1>4. \A x \in Trades : Owner[x] = l => (x \in row[l].own <=> Counts(x))
  BY <1>1, <1>3 DEF Told
<1>5. Canonical(l) = {x \in Trades : Owner[x] = l /\ Counts(x)}
  BY DEF Canonical, Counts
<1> QED
  BY <1>1, <1>4, <1>5

LEMMA ConnectedStep ==
    ASSUME Connected, IInv, IInv', CInv, [Next]_vars
    PROVE  CInv'
<1>1. Types /\ Types' /\ Phases /\ Control /\ Clocked /\ Unwound /\ Seen /\ Read /\ Owned /\ Honest
  BY DEF IInv, CInv
<1>2. Control' /\ Clocked'
  BY <1>1, ControlStep, ClockedStep
<1>3. Unwound' /\ Seen'
  BY <1>1, UnwoundStep, SeenStep
<1>4. Read'
  BY <1>1, <1>2, ReadStep
<1>5. Owned' /\ Honest'
  BY <1>1, OwnedStep, HonestStep
<1> QED
  BY <1>2, <1>3, <1>4, <1>5 DEF CInv

\* On a connection that holds (flow_worker.py, ingest and backfill; flow_data.py, rebuild and gap): in whatever
\* order removals, inclusions and recovered logs arrive, and however often the chain is rewritten, once nothing
\* is on its way a complete row that finalize answers for counts the trades of the chain, whatever its buffer.
THEOREM FinalRowsAreCanonical == Connected => (Spec => []FinalIsCanonical)
<1> SUFFICES ASSUME Connected PROVE Spec => []FinalIsCanonical
  OBVIOUS
<1>1. Init => IInv /\ CInv
  BY InitInvariant, InitConnected DEF IInv
<1>2. IInv /\ IInv' /\ CInv /\ [Next]_vars => CInv'
  BY ConnectedStep
<1>3. IInv /\ CInv => FinalIsCanonical
  BY FinalRows
<1>4. Spec => []IInv
  BY InductiveInvariant
<1> QED
  BY <1>1, <1>2, <1>3, <1>4, PTL DEF Spec

\* CompleteIsCanonical, for a buffer of one block: then the rows promote() builds before finalize would are no
\* exception. Within two blocks a trade can leave the buffer and enter it again unseen by either.
THEOREM CompleteRowsAreCanonical == Connected /\ OneBlock => (Spec => []CompleteIsCanonical)
<1> SUFFICES ASSUME Connected, OneBlock PROVE Spec => []CompleteIsCanonical
  OBVIOUS
<1>1. Init => IInv /\ CInv /\ Early
  BY InitInvariant, InitConnected DEF IInv
<1>2. IInv /\ IInv' /\ CInv /\ Early /\ [Next]_vars => CInv' /\ Early'
  <2> SUFFICES ASSUME IInv, IInv', CInv, Early, [Next]_vars PROVE CInv' /\ Early'
    OBVIOUS
  <2>1. Early'
    BY EarlyStep DEF IInv, CInv
  <2> QED
    BY <2>1, ConnectedStep
<1>3. IInv /\ CInv /\ Early => CompleteIsCanonical
  <2> SUFFICES ASSUME IInv, CInv, Early, Quiet, NEW l \in Launches, Complete(l)
               PROVE  row[l].own = Canonical(l)
    BY DEF CompleteIsCanonical, Complete
  <2>1. CASE row[l].early
    BY <2>1, EarlyRows
  <2>2. CASE ~row[l].early
    BY <2>2, FinalRows DEF FinalIsCanonical
  <2> QED
    BY <2>1, <2>2
<1>4. Spec => []IInv
  BY InductiveInvariant
<1> QED
  BY <1>1, <1>2, <1>3, <1>4, PTL DEF Spec
==============================================================================
