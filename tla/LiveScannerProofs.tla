-------------------------- MODULE LiveScannerProofs --------------------------
(***************************************************************************)
(* Safety of the ws_first process: of its watcher (LiveScanner), and in    *)
(* the last part of the market task beside it (MarketTargets).             *)
(*                                                                         *)
(* The watcher, for every set of logs and every configuration the loader   *)
(* accepts: with any number of faults what the tables say of one another;  *)
(* without failing calls and replaced blocks that no block is left out;    *)
(* with a connection that holds as well that no log is lost.  The market,  *)
(* for any launches, ages, limits and failures.                            *)
(***************************************************************************)
EXTENDS LiveScanner, MarketTargets, CoverageTheorems, SequenceTheorems, FiniteSetTheorems

(* What each phase of the watcher knows between two commits: a scan has a  *)
(* proper range, and the commit that precedes a segment write moved the    *)
(* cursor to at least the block the segment will follow.                   *)
PhaseInv ==
  /\ pc \in {"gapState", "scan", "scanState"} => range.first <= range.last
  /\ pc = "scanState" => range.last <= checkpoint
  /\ pc \in {"event", "eventState"} => msg \in Notices
  /\ pc = "eventState" => msg.block <= checkpoint

IInv == /\ TypeOK
        /\ SegmentBehindCheckpoint
        /\ CoverageCanonical
        /\ StoredIsCovered
        /\ PhaseInv

(* The constants are numbers. *)
LEMMA ConfigTypes ==
  /\ Confirmations \in Nat /\ LiveOverlap \in Nat /\ RecoveryMax \in Nat
  /\ StartupRecoveryMax \in Nat /\ QueueSize \in Nat /\ MaxPerBlock \in Nat
  /\ MaxCrashes \in Nat /\ MaxDrops \in Nat /\ MaxFailures \in Nat /\ MaxReorgs \in Nat
  /\ MaxFaults \in Nat
BY LiveConfig

(* The rows of any kind, as record_coverage finds them. *)
LEMMA RowsCanonical ==
  ASSUME TypeOK, CoverageCanonical, NEW k \in Kinds
  PROVE  Canonical(coverage[k]) /\ coverage[k] \subseteq Rows
<1>1. coverage[k] \subseteq Rows
  BY DEF TypeOK
<1>2. Rows \subseteq IntRows
  BY DEF Rows, IntRows
<1> QED
  BY <1>1, <1>2 DEF CoverageCanonical, Canonical

(* A notice sequence for one block's logs. *)
LEMMA AnnounceType ==
  ASSUME NEW ids, ids \subseteq Logs, NEW s \in BlockContents(ids),
         NEW b \in Nat, NEW gone \in BOOLEAN
  PROVE  Announce(s, b, gone) \in Seq(Notices)
<1>1. PICK n \in 0 .. MaxPerBlock : s \in [1 .. n -> ids]
  BY DEF BlockContents
<1>2. n \in Nat
  BY <1>1, ConfigTypes
<1>3. DOMAIN s = 1 .. n /\ \A p \in 1 .. n : s[p] \in Logs
  BY <1>1
<1>4. \A p \in 1 .. n : Notice(s[p], b, gone) \in Notices
  BY <1>3 DEF Notice, Notices
<1>5. Announce(s, b, gone) \in [1 .. n -> Notices]
  BY <1>3, <1>4 DEF Announce
<1> QED
  BY <1>2, <1>5

(* Spending a fault leaves a number of each kind. *)
LEMMA SpendType ==
  ASSUME TypeOK, NEW fault \in {"crashes", "drops", "failures", "reorgs"}, Spend(fault)
  PROVE  left' \in [{"crashes", "drops", "failures", "reorgs", "all"} -> Nat]
BY DEF TypeOK, Spend

(* A step that leaves scanner.db alone keeps what the invariant says of it. *)
LEMMA DurableFrame ==
  ASSUME IInv, UNCHANGED durable
  PROVE  SegmentBehindCheckpoint' /\ CoverageCanonical' /\ StoredIsCovered'
BY DEF IInv, durable, SegmentBehindCheckpoint, CoverageCanonical, StoredIsCovered, Covered

(* A fresh database has nothing to claim. *)
LEMMA InitIInv == Init => IInv
<1> SUFFICES ASSUME Init PROVE IInv
  OBVIOUS
<1> USE ConfigTypes DEF Init
<1>1. TypeOK
  <2>1. recovery \in GapKinds /\ range \in Rows
    BY DEF GapKinds, NoRange, Row, Rows
  <2>2. {checkpoint, start, segment} \subseteq BlocksOrNone
    BY DEF BlocksOrNone
  <2>3. left \in [{"crashes", "drops", "failures", "reorgs", "all"} -> Nat]
    OBVIOUS
  <2>4. wire \in Seq(Notices) /\ queue \in Seq(Notices)
    OBVIOUS
  <2>5. coverage \in [Kinds -> SUBSET Rows]
    OBVIOUS
  <2> QED
    BY <2>1, <2>2, <2>3, <2>4, <2>5 DEF TypeOK
<1>2. SegmentBehindCheckpoint /\ CoverageCanonical /\ StoredIsCovered /\ PhaseInv
  BY DEF SegmentBehindCheckpoint, CoverageCanonical, StoredIsCovered, PhaseInv,
         WellFormed, Separated, NoBlock
<1> QED
  BY <1>1, <1>2 DEF IInv

(* The chain's and the feed's steps. *)
LEMMA EnvironmentStep ==
  ASSUME IInv, Mine \/ Reorg \/ Feed
  PROVE  IInv'
<1> USE DEF IInv
<1>1. UNCHANGED durable /\ UNCHANGED watcher
  BY DEF Mine, Reorg, Feed, FeedSubscribe, FeedReceive, FeedDrop
<1>2. PhaseInv'
  BY <1>1 DEF PhaseInv, watcher, durable
<1>3. CASE Mine
  <2>1. PICK s \in BlockContents({i \in Logs : onchain[i] = 0}) :
          /\ head' = head + 1
          /\ onchain' = [i \in Logs |-> IF i \in Included(s) THEN head + 1 ELSE onchain[i]]
          /\ wire' = IF feed = "up" THEN wire \o Announce(s, head + 1, FALSE) ELSE wire
          /\ UNCHANGED <<feed, queue, overflowed, unseen, watcher, durable, left>>
    BY <1>3 DEF Mine
  <2>2. head + 1 \in Nat
    BY DEF TypeOK
  <2>3. Announce(s, head + 1, FALSE) \in Seq(Notices)
    BY <2>2, AnnounceType
  <2>4. wire' \in Seq(Notices)
    <3>1. wire \in Seq(Notices)
      BY DEF TypeOK
    <3>2. wire \o Announce(s, head + 1, FALSE) \in Seq(Notices)
      BY <2>3, <3>1, ConcatProperties
    <3> QED
      BY <2>1, <3>1, <3>2
  <2>5. TypeOK'
    BY <2>1, <2>2, <2>4 DEF TypeOK, watcher, durable
  <2> QED
    BY <2>5, <1>1, <1>2, DurableFrame
<1>4. CASE Reorg
  <2> DEFINE orphaned == {i \in Logs : onchain[i] = head}
  <2>1. PICK old \in BlockContents(orphaned),
             new \in BlockContents({i \in Logs : onchain[i] \in {0, head}}) :
          /\ Spend("reorgs")
          /\ onchain' = [i \in Logs |-> IF i \in Included(new) THEN head
                                        ELSE IF i \in orphaned THEN 0 ELSE onchain[i]]
          /\ wire' = IF feed = "up"
                     THEN wire \o Announce(old, head, TRUE) \o Announce(new, head, FALSE)
                     ELSE wire
          /\ UNCHANGED <<head, feed, queue, overflowed, unseen, watcher, durable>>
    BY <1>4 DEF Reorg
  <2>2. head \in Nat
    BY DEF TypeOK
  <2>3. /\ Announce(old, head, TRUE) \in Seq(Notices)
        /\ Announce(new, head, FALSE) \in Seq(Notices)
    BY <2>2, AnnounceType
  <2>4. wire' \in Seq(Notices)
    <3>1. wire \in Seq(Notices)
      BY DEF TypeOK
    <3>2. wire \o Announce(old, head, TRUE) \in Seq(Notices)
      BY <2>3, <3>1, ConcatProperties
    <3>3. wire \o Announce(old, head, TRUE) \o Announce(new, head, FALSE) \in Seq(Notices)
      BY <2>3, <3>2, ConcatProperties
    <3> QED
      BY <2>1, <3>1, <3>3
  <2>5. left' \in [{"crashes", "drops", "failures", "reorgs", "all"} -> Nat]
    BY <2>1, SpendType
  <2>6. onchain' \in [Logs -> Nat]
    BY <2>1 DEF TypeOK
  <2>7. TypeOK'
    BY <2>1, <2>4, <2>5, <2>6 DEF TypeOK, watcher, durable
  <2> QED
    BY <2>7, <1>1, <1>2, DurableFrame
<1>5. CASE FeedSubscribe
  <2>1. TypeOK'
    BY <1>5 DEF FeedSubscribe, TypeOK, chain, watcher, durable
  <2> QED
    BY <2>1, <1>1, <1>2, DurableFrame
<1>6. CASE FeedReceive
  <2>1. wire' \in Seq(Notices) /\ Head(wire) \in Notices
    BY <1>6 DEF FeedReceive, TypeOK
  <2>2. queue' \in Seq(Notices) /\ overflowed' \in BOOLEAN
    <3>1. queue \in Seq(Notices) /\ Append(queue, Head(wire)) \in Seq(Notices)
      BY <2>1 DEF TypeOK
    <3>2. overflowed \in BOOLEAN
      BY DEF TypeOK
    <3>3. CASE Len(queue) < QueueSize
      BY <1>6, <3>1, <3>2, <3>3, Zenon DEF FeedReceive
    <3>4. CASE ~(Len(queue) < QueueSize)
      BY <1>6, <3>1, <3>4, Zenon DEF FeedReceive
    <3> QED
      BY <3>3, <3>4
  <2>3. TypeOK'
    BY <1>6, <2>1, <2>2 DEF FeedReceive, TypeOK, chain, watcher, durable
  <2> QED
    BY <2>3, <1>1, <1>2, DurableFrame
<1>7. CASE FeedDrop
  <2>1. left' \in [{"crashes", "drops", "failures", "reorgs", "all"} -> Nat]
    BY <1>7, SpendType DEF FeedDrop
  <2>2. TypeOK'
    BY <1>7, <2>1 DEF FeedDrop, TypeOK, chain, watcher, durable
  <2> QED
    BY <2>2, <1>1, <1>2, DurableFrame
<1> QED
  BY <1>3, <1>4, <1>5, <1>6, <1>7 DEF Feed

(* Stopping and starting the process touches nothing durable. *)
LEMMA StopType ==
  ASSUME Stop
  PROVE  /\ pc' = "down" /\ feed' = "idle" /\ recovery' \in GapKinds /\ range' \in Rows
         /\ msg' \in Notices \cup {NoNotice}
         /\ wire' \in Seq(Notices) /\ queue' \in Seq(Notices)
         /\ overflowed' \in BOOLEAN /\ unseen' \in BOOLEAN
<1>1. recovery' \in GapKinds /\ range' \in Rows
  BY DEF Stop, GapKinds, NoRange, Row, Rows
<1>2. wire' \in Seq(Notices) /\ queue' \in Seq(Notices)
  BY DEF Stop
<1> QED
  BY <1>1, <1>2 DEF Stop

(* Crash, boot and the first connection write nothing durable. *)
LEMMA ProcessStep ==
  ASSUME IInv, Crash \/ Boot \/ Connected \/ ConnectTimeout
  PROVE  IInv'
<1> USE DEF IInv
<1>1. UNCHANGED durable /\ UNCHANGED chain
  BY DEF Crash, Boot, Connected, ConnectTimeout
<1>2. SegmentBehindCheckpoint' /\ CoverageCanonical' /\ StoredIsCovered'
  BY <1>1, DurableFrame
<1>3. pc' \in {"down", "connect", "recover"}
  BY DEF Crash, Boot, Connected, ConnectTimeout, Stop
<1>4. PhaseInv'
  BY <1>3 DEF PhaseInv
<1>5. CASE Crash \/ ConnectTimeout
  <2>1. left' \in [{"crashes", "drops", "failures", "reorgs", "all"} -> Nat]
    <3>1. CASE UNCHANGED left
      BY <3>1 DEF TypeOK
    <3>2. CASE Spend("crashes") \/ Spend("drops")
      BY <3>2, SpendType
    <3> QED
      BY <1>5, <3>1, <3>2 DEF Crash, ConnectTimeout
  <2>2. Stop
    BY <1>5 DEF Crash, ConnectTimeout
  <2>3. TypeOK'
    BY <1>1, <2>1, <2>2, StopType DEF TypeOK, chain, durable
  <2> QED
    BY <1>2, <1>4, <2>3
<1>6. CASE Boot
  <2>1. TypeOK'
    BY <1>6 DEF Boot, TypeOK, chain, durable
  <2> QED
    BY <1>2, <1>4, <2>1
<1>7. CASE Connected
  <2>1. TypeOK'
    BY <1>7 DEF Connected, TypeOK, chain, durable, GapKinds
  <2> QED
    BY <1>2, <1>4, <2>1
<1> QED
  BY <1>5, <1>6, <1>7

(* The bounds ws_recover computes are block numbers in order. *)
LEMMA RecoverBounds ==
  ASSUME TypeOK, NEW h \in Heads
  PROVE  /\ Target(h) \in Nat /\ StartBlock(Target(h)) \in Nat
         /\ RecoverFirst(Target(h)) \in Nat
         /\ StartBlock(Target(h)) <= RecoverFirst(Target(h))
         /\ Limit \in Nat /\ Limit >= LiveOverlap
<1>1. h \in Nat
  BY DEF Heads, TypeOK
<1>2. Target(h) \in Nat
  BY <1>1, ConfigTypes DEF Target, Larger
<1>3. StartBlock(Target(h)) \in Nat
  BY <1>2, ConfigTypes DEF StartBlock, Larger, TypeOK, BlocksOrNone
<1>4. /\ RecoverFirst(Target(h)) \in Nat
      /\ StartBlock(Target(h)) <= RecoverFirst(Target(h))
  <2> DEFINE sb == StartBlock(Target(h))
  <2>1. sb \in Nat
    BY <1>3
  <2>2. checkpoint \in Nat \/ checkpoint = NoBlock
    BY DEF TypeOK, BlocksOrNone
  <2>3. RecoverFirst(Target(h)) = IF checkpoint = NoBlock THEN sb
                                  ELSE Larger(sb, checkpoint - LiveOverlap)
    BY DEF RecoverFirst
  <2> HIDE DEF sb
  <2>4. RecoverFirst(Target(h)) \in Nat /\ sb <= RecoverFirst(Target(h))
    BY <2>1, <2>2, <2>3, ConfigTypes DEF Larger
  <2> QED
    BY <2>4 DEF sb
<1>5. Limit \in Nat /\ Limit >= LiveOverlap
  BY ConfigTypes, LiveConfig DEF Limit
<1> QED
  BY <1>2, <1>3, <1>4, <1>5

(* A recovery returns to the place of the loop it was called from. *)
LEMMA ReturnType ==
  ASSUME TypeOK, Return
  PROVE  /\ pc' \in {"loop", "overflow", "get"}
         /\ recovery' \in GapKinds /\ range' \in Rows
<1>1. recovery \in {"startup-gap", "ws-gap", "ws-queue-gap", "ws-reorg-gap"}
  BY DEF TypeOK, GapKinds
<1>2. Resume \in {"loop", "overflow", "get"}
  BY <1>1 DEF Resume
<1> QED
  BY <1>2 DEF Return, GapKinds, NoRange, Row, Rows

(* One more interval in one kind's rows: the table stays canonical, and the *)
(* blocks it stands for grow by that interval.                              *)
LEMMA CoverageStep ==
  ASSUME TypeOK, CoverageCanonical, NEW k \in Kinds, NEW f \in Nat, NEW l \in Nat, f <= l,
         coverage' = [coverage EXCEPT ![k] = RecordCoverage(@, f, l)]
  PROVE  /\ coverage' \in [Kinds -> SUBSET Rows]
         /\ CoverageCanonical'
         /\ Blocks(coverage'[k]) = Blocks(coverage[k]) \cup (f .. l)
         /\ \A j \in Kinds \ {k} : coverage'[j] = coverage[j]
<1>1. coverage \in [Kinds -> SUBSET Rows]
  BY DEF TypeOK
<1>2. Canonical(coverage[k]) /\ coverage[k] \subseteq Rows
  BY RowsCanonical
<1>3. Canonical(RecordCoverage(coverage[k], f, l))
  BY <1>2, RecordCoverageCanonical
<1>4. RecordCoverage(coverage[k], f, l) \subseteq Rows
  BY <1>2, RecordCoverageNat DEF Rows
<1>5. Blocks(RecordCoverage(coverage[k], f, l)) = Blocks(coverage[k]) \cup (f .. l)
  BY <1>2, RecordCoverageBlocks
<1>6. /\ coverage'[k] = RecordCoverage(coverage[k], f, l)
      /\ \A j \in Kinds \ {k} : coverage'[j] = coverage[j]
  BY <1>1
<1>7. coverage' \in [Kinds -> SUBSET Rows]
  BY <1>1, <1>4
<1>8. CoverageCanonical'
  BY <1>3, <1>6 DEF CoverageCanonical, Canonical
<1> QED
  BY <1>5, <1>6, <1>7, <1>8

(* The live rows are of a kind of their own. *)
LEMMA LiveKind == "live" \in Kinds /\ GapKinds \subseteq Kinds /\ "live" \notin GapKinds
BY DEF Kinds, GapKinds

(* A recovery that raises ends the startup or goes back to the loop. *)
LEMMA RaisesType ==
  ASSUME TypeOK, RecoveryRaises
  PROVE  /\ pc' \in {"down", "loop"}
         /\ feed' \in {"idle", "connecting", "up", "done"}
         /\ recovery' \in GapKinds /\ range' \in Rows /\ msg' \in Notices \cup {NoNotice}
         /\ wire' \in Seq(Notices) /\ queue' \in Seq(Notices)
         /\ overflowed' \in BOOLEAN /\ unseen' \in BOOLEAN
<1>1. CASE recovery = "startup-gap"
  <2>1. Stop
    BY <1>1 DEF RecoveryRaises
  <2> QED
    BY <2>1, StopType
<1>2. CASE recovery # "startup-gap"
  <2>1. /\ pc' = "loop" /\ recovery' = "startup-gap" /\ range' = NoRange
        /\ UNCHANGED <<feedVars, msg>>
    BY <1>2 DEF RecoveryRaises
  <2>2. recovery' \in GapKinds /\ range' \in Rows
    BY <2>1 DEF GapKinds, NoRange, Row, Rows
  <2> QED
    BY <2>1, <2>2 DEF TypeOK, feedVars
<1> QED
  BY <1>1, <1>2

(* The steps of ws_recover. *)
LEMMA RecoverStep ==
  ASSUME IInv, Recover
  PROVE  IInv'
<1> USE DEF IInv
<1>1. CASE RecoverNothing
  <2>1. PICK h \in Heads : /\ start' = StartBlock(Target(h)) /\ Return
          /\ UNCHANGED <<chain, feedVars, msg, checkpoint, segment, coverage, stored, left>>
    BY <1>1 DEF RecoverNothing
  <2>2. TypeOK'
    BY <2>1, RecoverBounds, ReturnType DEF TypeOK, chain, feedVars, BlocksOrNone
  <2>3. SegmentBehindCheckpoint' /\ CoverageCanonical' /\ StoredIsCovered'
    BY <2>1 DEF SegmentBehindCheckpoint, CoverageCanonical, StoredIsCovered, Covered
  <2>4. PhaseInv'
    BY <2>1, ReturnType DEF PhaseInv
  <2> QED
    BY <2>2, <2>3, <2>4
<1>2. CASE RecoverAll
  <2>1. PICK h \in Heads :
          /\ Target(h) >= RecoverFirst(Target(h))
          /\ start' = StartBlock(Target(h))
          /\ range' = Row(RecoverFirst(Target(h)), Target(h)) /\ pc' = "scan"
          /\ UNCHANGED <<chain, feedVars, recovery, msg, checkpoint, segment, coverage, stored, left>>
    BY <1>2 DEF RecoverAll
  <2>2. range' \in Rows /\ range'.first <= range'.last
    BY <2>1, RecoverBounds DEF Row, Rows
  <2>3. TypeOK'
    BY <2>1, <2>2, RecoverBounds DEF TypeOK, chain, feedVars, BlocksOrNone
  <2>4. SegmentBehindCheckpoint' /\ CoverageCanonical' /\ StoredIsCovered'
    BY <2>1 DEF SegmentBehindCheckpoint, CoverageCanonical, StoredIsCovered, Covered
  <2>5. PhaseInv'
    BY <2>1, <2>2 DEF PhaseInv
  <2> QED
    BY <2>3, <2>4, <2>5
<1>3. CASE RecoverTail
  <2>1. PICK h \in Heads :
          LET target == Target(h)
              first == RecoverFirst(target)
              skipped == Larger(first - 1, target - LiveOverlap)
          IN /\ target >= first /\ TooLong(target)
             /\ start' = StartBlock(target)
             /\ coverage' = [coverage EXCEPT ![recovery] = RecordCoverage(@, first, skipped)]
             /\ range' = Row(Larger(StartBlock(target), target - LiveOverlap), target)
             /\ pc' = "gapState"
             /\ UNCHANGED <<chain, feedVars, recovery, msg, checkpoint, segment, stored, left>>
    BY <1>3 DEF RecoverTail
  <2> DEFINE target == Target(h)
             first == RecoverFirst(target)
             skipped == Larger(first - 1, target - LiveOverlap)
             sb == StartBlock(target)
             tail == Larger(sb, target - LiveOverlap)
  <2>2. /\ target \in Nat /\ first \in Nat /\ sb \in Nat /\ sb <= first
        /\ Limit \in Nat /\ Limit >= LiveOverlap /\ LiveOverlap \in Nat
    BY RecoverBounds, ConfigTypes
  <2>3. /\ target >= first /\ target - first + 1 > Limit
        /\ start' = sb /\ range' = Row(tail, target) /\ pc' = "gapState"
        /\ coverage' = [coverage EXCEPT ![recovery] = RecordCoverage(@, first, skipped)]
        /\ UNCHANGED <<chain, feedVars, recovery, msg, checkpoint, segment, stored, left>>
    BY <2>1 DEF TooLong
  <2> HIDE DEF target, first, sb
  <2>4. skipped \in Nat /\ first <= skipped
    BY <2>2, <2>3 DEF Larger
  <2>5. tail \in Nat /\ tail <= target
    BY <2>2, <2>3 DEF Larger
  <2> HIDE DEF skipped, tail
  <2>6. range' \in Rows /\ range'.first <= range'.last
    BY <2>2, <2>3, <2>5 DEF Row, Rows
  <2>7. recovery \in GapKinds /\ recovery \in Kinds /\ recovery # "live"
    BY LiveKind DEF TypeOK
  <2>8. /\ coverage' \in [Kinds -> SUBSET Rows] /\ CoverageCanonical'
        /\ coverage'["live"] = coverage["live"]
    BY <2>2, <2>3, <2>4, <2>7, LiveKind, CoverageStep
  <2>9. TypeOK'
    BY <2>2, <2>3, <2>6, <2>8 DEF TypeOK, chain, feedVars, BlocksOrNone
  <2>10. SegmentBehindCheckpoint' /\ StoredIsCovered'
    BY <2>3, <2>8 DEF SegmentBehindCheckpoint, StoredIsCovered, Covered
  <2>11. PhaseInv'
    BY <2>3, <2>6 DEF PhaseInv
  <2> QED
    BY <2>8, <2>9, <2>10, <2>11
<1>4. CASE GapState
  <2>1. TypeOK'
    BY <1>4 DEF GapState, TypeOK, chain, feedVars, BlocksOrNone
  <2>2. SegmentBehindCheckpoint' /\ CoverageCanonical' /\ StoredIsCovered'
    BY <1>4 DEF GapState, SegmentBehindCheckpoint, CoverageCanonical, StoredIsCovered, Covered
  <2>3. PhaseInv'
    BY <1>4 DEF GapState, PhaseInv
  <2> QED
    BY <2>1, <2>2, <2>3
<1>5. CASE ScanCommit
  <2> DEFINE found == LogsIn(range.first, range.last)
  <2>1. /\ stored' = [i \in Logs |-> IF i \in found THEN onchain[i] ELSE stored[i]]
        /\ coverage' = [coverage EXCEPT !["live"] = RecordCoverage(@, range.first, range.last)]
        /\ checkpoint' = Larger(range.last, Larger(0, checkpoint))
        /\ pc' = "scanState" /\ pc = "scan"
        /\ UNCHANGED <<chain, feedVars, recovery, range, msg, start, segment, left>>
    BY <1>5 DEF ScanCommit
  <2>2. range.first \in Nat /\ range.last \in Nat /\ range.first <= range.last
    BY <2>1 DEF TypeOK, Rows, PhaseInv
  <2>3. /\ coverage' \in [Kinds -> SUBSET Rows] /\ CoverageCanonical'
        /\ Covered' = Covered \cup (range.first .. range.last)
    BY <2>1, <2>2, LiveKind, CoverageStep DEF Covered
  <2>4. /\ checkpoint' \in Nat /\ checkpoint' >= range.last /\ checkpoint' >= checkpoint
    BY <2>1, <2>2 DEF Larger, TypeOK, BlocksOrNone, NoBlock
  <2>5. \A i \in found : onchain[i] \in range.first .. range.last
    BY <2>2 DEF LogsIn, TypeOK
  <2>6. stored' \in [Logs -> Nat]
    BY <2>1 DEF TypeOK
  <2>7. TypeOK'
    BY <2>1, <2>3, <2>4, <2>6 DEF TypeOK, chain, feedVars, BlocksOrNone
  <2>8. SegmentBehindCheckpoint'
    BY <2>1, <2>4 DEF SegmentBehindCheckpoint, TypeOK, BlocksOrNone, NoBlock
  <2>9. StoredIsCovered'
    <3>1. SUFFICES ASSUME NEW i \in Logs, stored'[i] # 0
                   PROVE  stored'[i] \in Covered' /\ stored'[i] <= checkpoint'
      BY DEF StoredIsCovered
    <3>2. CASE i \in found
      <4>1. stored'[i] = onchain[i]
        BY <2>1, <3>2
      <4> QED
        BY <2>2, <2>3, <2>4, <2>5, <3>2, <4>1
    <3>3. CASE i \notin found
      <4>1. stored'[i] = stored[i] /\ stored[i] \in Nat
        BY <2>1, <3>3 DEF TypeOK
      <4>2. stored[i] \in Covered /\ stored[i] <= checkpoint
        BY <3>1, <4>1 DEF StoredIsCovered
      <4>3. checkpoint \in Int
        BY DEF TypeOK, BlocksOrNone, NoBlock
      <4> QED
        BY <2>3, <2>4, <4>1, <4>2, <4>3
    <3> QED
      BY <3>2, <3>3
  <2>10. PhaseInv'
    BY <2>1, <2>2, <2>4 DEF PhaseInv
  <2> QED
    BY <2>3, <2>7, <2>8, <2>9, <2>10
<1>6. CASE ScanState
  <2>1. /\ segment' = range.last + 1 /\ Return /\ range.last <= checkpoint
        /\ UNCHANGED <<chain, feedVars, msg, checkpoint, start, coverage, stored, left>>
    BY <1>6 DEF ScanState, PhaseInv
  <2>2. range.last \in Nat
    BY DEF TypeOK, Rows
  <2>3. TypeOK'
    BY <2>1, <2>2, ReturnType DEF TypeOK, chain, feedVars, BlocksOrNone
  <2>4. SegmentBehindCheckpoint'
    BY <2>1, <2>2 DEF SegmentBehindCheckpoint, TypeOK, BlocksOrNone, NoBlock
  <2>5. CoverageCanonical' /\ StoredIsCovered'
    BY <2>1 DEF CoverageCanonical, StoredIsCovered, Covered
  <2>6. PhaseInv'
    BY <2>1, ReturnType DEF PhaseInv
  <2> QED
    BY <2>3, <2>4, <2>5, <2>6
<1>7. CASE RecoverFails \/ ScanMoved
  <2>1. RecoveryRaises /\ UNCHANGED <<chain, durable>>
    BY <1>7 DEF RecoverFails, ScanMoved
  <2>2. left' \in [{"crashes", "drops", "failures", "reorgs", "all"} -> Nat]
    <3>1. CASE UNCHANGED left
      BY <3>1 DEF TypeOK
    <3>2. CASE Spend("failures")
      BY <3>2, SpendType
    <3> QED
      BY <1>7, <3>1, <3>2 DEF RecoverFails, ScanMoved
  <2>3. TypeOK'
    BY <2>1, <2>2, RaisesType DEF TypeOK, chain, durable
  <2>4. SegmentBehindCheckpoint' /\ CoverageCanonical' /\ StoredIsCovered'
    BY <2>1, DurableFrame
  <2>5. PhaseInv'
    BY <2>1, RaisesType DEF PhaseInv
  <2> QED
    BY <2>3, <2>4, <2>5
<1> QED
  BY <1>1, <1>2, <1>3, <1>4, <1>5, <1>6, <1>7 DEF Recover

(* The loop's own steps write nothing durable. *)
LEMMA LoopStep ==
  ASSUME IInv, Loop
  PROVE  IInv'
<1> USE DEF IInv
<1>1. UNCHANGED <<chain, durable, left>>
  BY DEF Loop, NoticeReconnect, NoticeOverflow, AwaitEvent, Healthcheck, PopRemoved, PopEvent
<1>2. SegmentBehindCheckpoint' /\ CoverageCanonical' /\ StoredIsCovered'
  BY <1>1, DurableFrame
<1>3. CASE NoticeReconnect \/ NoticeOverflow \/ AwaitEvent
  <2>1. /\ feed' \in {"idle", "connecting", "up", "done"}
        /\ pc' \in {"recover", "get"} /\ recovery' \in GapKinds
        /\ UNCHANGED <<wire, queue, range, msg>>
    BY <1>3 DEF NoticeReconnect, NoticeOverflow, AwaitEvent, PastReconnect, TaskRestarted,
                TypeOK, GapKinds
  <2>2. overflowed' \in BOOLEAN /\ unseen' \in BOOLEAN
    BY <1>3 DEF NoticeReconnect, NoticeOverflow, AwaitEvent, TypeOK
  <2>3. TypeOK'
    BY <1>1, <2>1, <2>2 DEF TypeOK, chain, durable
  <2>4. PhaseInv'
    BY <2>1 DEF PhaseInv
  <2> QED
    BY <1>2, <2>3, <2>4
<1>4. CASE Healthcheck
  <2>1. TypeOK' /\ PhaseInv'
    BY <1>1, <1>4 DEF Healthcheck, TypeOK, PhaseInv, chain, durable, feedVars
  <2> QED
    BY <1>2, <2>1
<1>5. CASE PopRemoved \/ PopEvent
  <2>1. queue # <<>> /\ queue \in Seq(Notices)
    BY <1>5 DEF PopRemoved, PopEvent, TypeOK
  <2>2. Head(queue) \in Notices /\ Tail(queue) \in Seq(Notices)
    BY <2>1
  <2>3. CASE PopRemoved
    <3>1. TypeOK'
      BY <1>1, <2>2, <2>3 DEF PopRemoved, TypeOK, chain, durable, GapKinds
    <3>2. PhaseInv'
      BY <2>3 DEF PopRemoved, PhaseInv
    <3> QED
      BY <1>2, <3>1, <3>2
  <2>4. CASE PopEvent
    <3>1. TypeOK'
      BY <1>1, <2>2, <2>4 DEF PopEvent, TypeOK, chain, durable
    <3>2. PhaseInv'
      BY <2>2, <2>4 DEF PopEvent, PhaseInv
    <3> QED
      BY <1>2, <3>1, <3>2
  <2> QED
    BY <1>5, <2>3, <2>4
<1> QED
  BY <1>3, <1>4, <1>5 DEF Loop

(* The row process_ws_event claims is never empty: this is where the        *)
(* segment's bound matters.                                                 *)
LEMMA CoverageFirstBound ==
  ASSUME TypeOK, SegmentBehindCheckpoint, msg \in Notices
  PROVE  CoverageFirst \in Nat /\ CoverageFirst <= msg.block
<1>1. msg.block \in Nat
  BY DEF Notices
<1>2. /\ segment \in Nat \/ segment = NoBlock
      /\ checkpoint \in Nat \/ checkpoint = NoBlock
  BY DEF TypeOK, BlocksOrNone
<1> QED
  BY <1>1, <1>2 DEF CoverageFirst, SegmentBehindCheckpoint, NoBlock

(* The notice in hand: its event, then the rows of the segment. *)
LEMMA EventStep ==
  ASSUME IInv, Event
  PROVE  IInv'
<1> USE DEF IInv
<1>1. CASE SaveEvent
  <2>1. /\ stored' = [stored EXCEPT ![msg.log] = msg.block]
        /\ coverage' = [coverage EXCEPT !["live"] = RecordCoverage(@, CoverageFirst, msg.block)]
        /\ checkpoint' = Larger(msg.block, Larger(0, checkpoint))
        /\ pc = "event" /\ pc' = "eventState"
        /\ UNCHANGED <<chain, feedVars, recovery, range, msg, start, segment, left>>
    BY <1>1 DEF SaveEvent
  <2>2. msg \in Notices /\ msg.block \in Nat /\ msg.log \in Logs
    BY <2>1 DEF PhaseInv, Notices
  <2>3. CoverageFirst \in Nat /\ CoverageFirst <= msg.block
    BY <2>2, CoverageFirstBound
  <2>4. /\ coverage' \in [Kinds -> SUBSET Rows] /\ CoverageCanonical'
        /\ Covered' = Covered \cup (CoverageFirst .. msg.block)
    BY <2>1, <2>2, <2>3, LiveKind, CoverageStep DEF Covered
  <2>5. checkpoint' \in Nat /\ checkpoint' >= msg.block /\ checkpoint' >= checkpoint
    BY <2>1, <2>2 DEF Larger, TypeOK, BlocksOrNone, NoBlock
  <2>6. stored' \in [Logs -> Nat]
    BY <2>1, <2>2 DEF TypeOK
  <2>7. TypeOK'
    BY <2>1, <2>4, <2>5, <2>6 DEF TypeOK, chain, feedVars, BlocksOrNone
  <2>8. SegmentBehindCheckpoint'
    BY <2>1, <2>5 DEF SegmentBehindCheckpoint, TypeOK, BlocksOrNone, NoBlock
  <2>9. StoredIsCovered'
    <3>1. SUFFICES ASSUME NEW i \in Logs, stored'[i] # 0
                   PROVE  stored'[i] \in Covered' /\ stored'[i] <= checkpoint'
      BY DEF StoredIsCovered
    <3>2. CASE i = msg.log
      <4>1. stored'[i] = msg.block
        BY <2>1, <3>2 DEF TypeOK
      <4> QED
        BY <2>2, <2>3, <2>4, <2>5, <4>1
    <3>3. CASE i # msg.log
      <4>1. stored'[i] = stored[i] /\ stored[i] \in Nat
        BY <2>1, <3>3 DEF TypeOK
      <4>2. stored[i] \in Covered /\ stored[i] <= checkpoint
        BY <3>1, <4>1 DEF StoredIsCovered
      <4>3. checkpoint \in Int
        BY DEF TypeOK, BlocksOrNone, NoBlock
      <4> QED
        BY <2>4, <2>5, <4>1, <4>2, <4>3
    <3> QED
      BY <3>2, <3>3
  <2>10. PhaseInv'
    BY <2>1, <2>2, <2>5 DEF PhaseInv
  <2> QED
    BY <2>4, <2>7, <2>8, <2>9, <2>10
<1>2. CASE EventState
  <2>1. /\ segment' = msg.block + 1 /\ msg' = NoNotice /\ pc' = "loop"
        /\ msg \in Notices /\ msg.block <= checkpoint
        /\ UNCHANGED <<chain, feedVars, recovery, range, checkpoint, start, coverage, stored, left>>
    BY <1>2 DEF EventState, PhaseInv
  <2>2. msg.block \in Nat
    BY <2>1 DEF Notices
  <2>3. TypeOK'
    BY <2>1, <2>2 DEF TypeOK, chain, feedVars, BlocksOrNone
  <2>4. SegmentBehindCheckpoint'
    BY <2>1, <2>2 DEF SegmentBehindCheckpoint, TypeOK, BlocksOrNone, NoBlock
  <2>5. CoverageCanonical' /\ StoredIsCovered' /\ PhaseInv'
    BY <2>1 DEF CoverageCanonical, StoredIsCovered, Covered, PhaseInv
  <2> QED
    BY <2>3, <2>4, <2>5
<1>3. CASE EventFails \/ EventMoved
  <2>1. EventRaises
    BY <1>3 DEF EventFails, EventMoved
  <2>2. left' \in [{"crashes", "drops", "failures", "reorgs", "all"} -> Nat]
    <3>1. CASE UNCHANGED left
      BY <3>1 DEF TypeOK
    <3>2. CASE Spend("failures")
      BY <3>2, SpendType
    <3> QED
      BY <1>3, <3>1, <3>2 DEF EventFails, EventMoved
  <2>3. TypeOK'
    BY <2>1, <2>2 DEF EventRaises, TypeOK, chain, feedVars, durable
  <2>4. SegmentBehindCheckpoint' /\ CoverageCanonical' /\ StoredIsCovered'
    BY <2>1, DurableFrame DEF EventRaises
  <2>5. PhaseInv'
    BY <2>1 DEF EventRaises, PhaseInv
  <2> QED
    BY <2>3, <2>4, <2>5
<1> QED
  BY <1>1, <1>2, <1>3 DEF Event
(* One step keeps the types and the canonical table. *)
LEMMA StepIInv == ASSUME IInv, [Next]_vars PROVE IInv'
<1>1. CASE Next
  BY <1>1, EnvironmentStep, ProcessStep, RecoverStep, LoopStep, EventStep DEF Next
<1>2. CASE UNCHANGED vars
  <2>1. UNCHANGED durable
    BY <1>2 DEF vars
  <2>2. TypeOK' /\ PhaseInv'
    BY <1>2 DEF IInv, vars, chain, feedVars, watcher, durable, TypeOK, PhaseInv
  <2> QED
    BY <2>1, <2>2, DurableFrame DEF IInv
<1> QED
  BY <1>1, <1>2

-----------------------------------------------------------------------------
(* The inductive invariant holds in every reachable state. *)
THEOREM InductiveInvariant == Spec => []IInv
<1>1. Init => IInv
  BY InitIInv
<1>2. IInv /\ [Next]_vars => IInv'
  BY StepIInv
<1> QED
  BY <1>1, <1>2, PTL DEF Spec

(* Every variable keeps the type its column, field or local has. *)
THEOREM TypeCorrect == Spec => []TypeOK
<1>1. IInv => TypeOK
  BY DEF IInv
<1> QED
  BY <1>1, InductiveInvariant, PTL

(* live_segment_start never runs ahead of the cursor (block_watcher.py      *)
(* process_ws_event and ws_recover write it in a later commit).             *)
THEOREM SegmentBehind == Spec => []SegmentBehindCheckpoint
<1>1. IInv => SegmentBehindCheckpoint
  BY DEF IInv
<1> QED
  BY <1>1, InductiveInvariant, PTL

(* The coverage table is canonical in every state, so its CHECK constraint  *)
(* and its primary key are never violated by record_coverage.               *)
THEOREM CoverageIsCanonical == Spec => []CoverageCanonical
<1>1. IInv => CoverageCanonical
  BY DEF IInv
<1> QED
  BY <1>1, InductiveInvariant, PTL

(* A stored log lies in a covered block at or below the cursor.             *)
THEOREM StoredCovered == Spec => []StoredIsCovered
<1>1. IInv => StoredIsCovered
  BY DEF IInv
<1> QED
  BY <1>1, InductiveInvariant, PTL
-----------------------------------------------------------------------------
(***************************************************************************)
(* No block is left out, while no call fails and no block is replaced.     *)
(***************************************************************************)

(* Nothing fails and no block is replaced, and the head a call answers with *)
(* is the chain's.                                                          *)
Unbroken == MaxFailures = 0 /\ MaxReorgs = 0 /\ RpcLag = 0

(* A notice says what is on the chain. *)
Truthful(n, c) == n.log \in Logs /\ ~n.removed /\ n.block = c[n.log] /\ n.block # 0

Notified ==
  /\ left["failures"] = 0 /\ left["reorgs"] = 0
  /\ \A p \in DOMAIN queue : Truthful(queue[p], onchain)
  /\ \A p \in DOMAIN wire : Truthful(wire[p], onchain)
  /\ pc \in {"event", "eventState"} => Truthful(msg, onchain)
  /\ \A i \in Logs : onchain[i] <= head /\ stored[i] \in {0, onchain[i]}

(* What the watcher has read is on the chain; the loop runs only after a    *)
(* recovery has returned.                                                   *)
Looping == pc \in {"loop", "overflow", "get", "event", "eventState"}
Bounded ==
  /\ checkpoint <= head /\ start <= Target(head)
  /\ checkpoint # NoBlock \/ pc \notin {"down", "connect", "recover"} => start # NoBlock
  /\ pc \in {"gapState", "scan", "scanState"} => range.last <= head
  /\ Looping => checkpoint # NoBlock /\ segment # NoBlock

(* With the range under way, no block up to its end is left out. *)
Known == Covered \cup Gapped
Filled ==
  pc \in {"gapState", "scan"} =>
    \A b \in start .. range.last : b \in Known \cup (range.first .. range.last)

UnbrokenInv == Notified /\ Bounded /\ Filled /\ EveryBlockAccounted

(* A fault that is spent stays spent. *)
LEMMA Spent ==
  ASSUME TypeOK, [Next]_vars, NEW f \in {"drops", "failures", "reorgs"}, left[f] = 0
  PROVE  left'[f] = 0 /\ ~Spend(f)
<1>1. UNCHANGED left \/ \E g \in {"crashes", "drops", "failures", "reorgs"} : Spend(g)
  <2>1. CASE Mine \/ Reorg \/ Feed \/ Crash \/ Boot \/ Connected \/ ConnectTimeout
    BY <2>1 DEF Mine, Reorg, Feed, FeedSubscribe, FeedReceive, FeedDrop, Crash, Boot, Connected,
                ConnectTimeout
  <2>2. CASE Recover
    BY <2>2 DEF Recover, RecoverNothing, RecoverAll, RecoverTail, GapState, ScanCommit, ScanState,
                RecoverFails, ScanMoved
  <2>3. CASE Loop
    BY <2>3 DEF Loop, NoticeReconnect, NoticeOverflow, AwaitEvent, Healthcheck, PopRemoved, PopEvent
  <2>4. CASE Event
    BY <2>4 DEF Event, SaveEvent, EventState, EventFails, EventMoved
  <2>5. CASE UNCHANGED vars
    BY <2>5 DEF vars
  <2> QED
    BY <2>1, <2>2, <2>3, <2>4, <2>5 DEF Next
<1>2. left \in [{"crashes", "drops", "failures", "reorgs", "all"} -> Nat]
  BY DEF TypeOK
<1>3. ~Spend(f)
  BY DEF Spend
<1> QED
  BY <1>1, <1>2, <1>3 DEF Spend

(* The head a call answers with, and where a recovery begins. *)
LEMMA HeadRead ==
  ASSUME Unbroken, TypeOK, Bounded, NEW target \in {Target(h) : h \in Heads}
  PROVE  /\ target = Target(head) /\ target \in Nat /\ target <= head
         /\ target = Larger(0, head - Confirmations)
         /\ StartBlock(target) \in Nat /\ start <= StartBlock(target)
         /\ StartBlock(target) <= target /\ (start # NoBlock => StartBlock(target) = start)
         /\ RecoverFirst(target) \in Nat /\ RecoverFirst(target) <= target
         /\ StartBlock(target) <= RecoverFirst(target)
         /\ RecoverFirst(target) = StartBlock(target)
              \/ (checkpoint # NoBlock /\ RecoverFirst(target) = checkpoint - LiveOverlap)
<1>1. PICK h \in Heads : target = Target(h)
  OBVIOUS
<1>2. h = head /\ head \in Nat
  BY DEF Heads, TypeOK, Unbroken
<1>3. target = Larger(0, head - Confirmations) /\ target \in Nat /\ target <= head
  BY <1>1, <1>2, ConfigTypes DEF Target, Larger
<1>4. /\ start \in Nat \/ start = NoBlock
      /\ checkpoint \in Nat \/ checkpoint = NoBlock
      /\ start <= target /\ checkpoint <= head
  BY <1>1, <1>2 DEF TypeOK, BlocksOrNone, Bounded
<1>5. /\ StartBlock(target) \in Nat /\ start <= StartBlock(target)
      /\ StartBlock(target) <= target /\ (start # NoBlock => StartBlock(target) = start)
  BY <1>3, <1>4, ConfigTypes DEF StartBlock, Larger, NoBlock
<1>6. /\ RecoverFirst(target) \in Nat /\ RecoverFirst(target) <= target
      /\ StartBlock(target) <= RecoverFirst(target)
      /\ RecoverFirst(target) = StartBlock(target)
           \/ (checkpoint # NoBlock /\ RecoverFirst(target) = checkpoint - LiveOverlap)
  <2> DEFINE sb == StartBlock(target)
  <2>1. RecoverFirst(target) = IF checkpoint = NoBlock THEN sb
                               ELSE Larger(sb, checkpoint - LiveOverlap)
    BY DEF RecoverFirst
  <2>2. sb \in Nat /\ sb <= target
    BY <1>5
  <2>3. Confirmations <= LiveOverlap
    BY LiveConfig
  <2> HIDE DEF sb
  <2>4. checkpoint # NoBlock => checkpoint - LiveOverlap <= target
    BY <1>2, <1>3, <1>4, <2>3, ConfigTypes DEF Larger
  <2>5. /\ RecoverFirst(target) \in Nat /\ RecoverFirst(target) <= target
        /\ sb <= RecoverFirst(target)
        /\ RecoverFirst(target) = sb
             \/ (checkpoint # NoBlock /\ RecoverFirst(target) = checkpoint - LiveOverlap)
    <3>1. CASE checkpoint = NoBlock
      BY <2>1, <2>2, <3>1
    <3>2. CASE checkpoint # NoBlock
      <4>1. checkpoint - LiveOverlap \in Int /\ checkpoint - LiveOverlap <= target
        BY <1>4, <2>4, <3>2, ConfigTypes
      <4>2. RecoverFirst(target) = Larger(sb, checkpoint - LiveOverlap)
        BY <2>1, <3>2
      <4> QED
        BY <1>3, <2>2, <3>2, <4>1, <4>2 DEF Larger
    <3> QED
      BY <3>1, <3>2
  <2> QED
    BY <2>5 DEF sb
<1> QED
  BY <1>1, <1>2, <1>3, <1>5, <1>6

(* The steps that are left. *)
LEMMA UnbrokenSteps ==
  ASSUME Unbroken, IInv, Notified, Bounded, [Next]_vars
  PROVE  \/ Mine \/ FeedSubscribe \/ FeedReceive \/ FeedDrop
         \/ Crash \/ Boot \/ Connected \/ ConnectTimeout
         \/ RecoverAll \/ RecoverTail \/ GapState \/ ScanCommit \/ ScanState
         \/ NoticeReconnect \/ NoticeOverflow \/ AwaitEvent \/ Healthcheck \/ PopEvent
         \/ SaveEvent \/ EventState \/ UNCHANGED vars
<1>1. ~Reorg /\ ~RecoverFails /\ ~EventFails
  BY Spent DEF Notified, IInv, Reorg, RecoverFails, EventFails
<1>2. ~RecoverNothing
  <2> SUFFICES ASSUME RecoverNothing PROVE FALSE
    OBVIOUS
  <2>1. PICK target \in {Target(h) : h \in Heads} : target < RecoverFirst(target)
    BY DEF RecoverNothing
  <2>2. target \in Nat /\ RecoverFirst(target) \in Nat /\ RecoverFirst(target) <= target
    BY HeadRead DEF IInv
  <2> QED
    BY <2>1, <2>2
<1>3. ~ScanMoved /\ ~EventMoved
  BY DEF ScanMoved, EventMoved, Moved, Notified, Truthful, LogsIn
<1>4. ~PopRemoved
  <2> SUFFICES ASSUME PopRemoved PROVE FALSE
    OBVIOUS
  <2>1. queue # <<>> /\ queue \in Seq(Notices) /\ Head(queue).removed
    BY DEF PopRemoved, IInv, TypeOK
  <2>2. 1 \in DOMAIN queue /\ Head(queue) = queue[1]
    BY <2>1
  <2> QED
    BY <2>1, <2>2 DEF Notified, Truthful
<1> QED
  BY <1>1, <1>2, <1>3, <1>4 DEF Next, Feed, Recover, Loop, Event

(* The head of the wire goes to the end of the queue, or is dropped. *)
LEMMA Received ==
  ASSUME TypeOK, FeedReceive
  PROVE  /\ 1 \in DOMAIN wire
         /\ \A p \in DOMAIN wire' : p + 1 \in DOMAIN wire /\ wire'[p] = wire[p + 1]
         /\ \A p \in DOMAIN wire : p = 1 \/ (p - 1 \in DOMAIN wire' /\ wire'[p - 1] = wire[p])
         /\ \/ /\ overflowed' = overflowed
               /\ \A p \in DOMAIN queue : p \in DOMAIN queue' /\ queue'[p] = queue[p]
               /\ Len(queue) + 1 \in DOMAIN queue' /\ queue'[Len(queue) + 1] = wire[1]
               /\ \A p \in DOMAIN queue' : p \in DOMAIN queue \/ p = Len(queue) + 1
            \/ overflowed' /\ queue' = queue /\ 1 \in DOMAIN queue
<1>1. wire # <<>> /\ wire \in Seq(Notices) /\ queue \in Seq(Notices) /\ wire' = Tail(wire)
  BY DEF FeedReceive, TypeOK
<1>2. /\ Head(wire) = wire[1] /\ Head(wire) \in Notices /\ 1 \in DOMAIN wire
      /\ \A p \in DOMAIN wire' : p + 1 \in DOMAIN wire /\ wire'[p] = wire[p + 1]
      /\ \A p \in DOMAIN wire : p = 1 \/ (p - 1 \in DOMAIN wire' /\ wire'[p - 1] = wire[p])
  BY <1>1, HeadTailProperties
<1>3. CASE Len(queue) < QueueSize
  <2>1. queue' = Append(queue, Head(wire)) /\ overflowed' = overflowed
    BY <1>3 DEF FeedReceive
  <2> QED
    BY <1>1, <1>2, <2>1
<1>4. CASE ~(Len(queue) < QueueSize)
  <2>1. queue' = queue /\ overflowed'
    BY <1>4 DEF FeedReceive
  <2>2. QueueSize >= 1 /\ QueueSize \in Nat
    BY LiveConfig
  <2>3. 1 \in DOMAIN queue
    BY <1>1, <1>4, <2>2
  <2> QED
    BY <1>1, <1>2, <2>1, <2>3
<1> QED
  BY <1>3, <1>4

(* The watcher takes the first notice. *)
LEMMA Popped ==
  ASSUME TypeOK, PopEvent
  PROVE  /\ 1 \in DOMAIN queue /\ msg' = queue[1]
         /\ \A p \in DOMAIN queue' : p + 1 \in DOMAIN queue /\ queue'[p] = queue[p + 1]
         /\ \A p \in DOMAIN queue : p = 1 \/ (p - 1 \in DOMAIN queue' /\ queue'[p - 1] = queue[p])
<1>1. queue # <<>> /\ queue \in Seq(Notices) /\ queue' = Tail(queue) /\ msg' = Head(queue)
  BY DEF PopEvent, TypeOK
<1> QED
  BY <1>1, HeadTailProperties

(* A mined block: its logs are new, and a subscription is told of each. *)
LEMMA Mined ==
  ASSUME TypeOK, Mine
  PROVE  /\ head' = head + 1 /\ head \in Nat
         /\ \E ids \in SUBSET {i \in Logs : onchain[i] = 0} :
              /\ onchain' = [i \in Logs |-> IF i \in ids THEN head + 1 ELSE onchain[i]]
              /\ \/ feed # "up" /\ wire' = wire
                 \/ /\ \A p \in DOMAIN wire : p \in DOMAIN wire' /\ wire'[p] = wire[p]
                    /\ \A p \in DOMAIN wire' : p \in DOMAIN wire
                         \/ \E i \in ids : wire'[p] = Notice(i, head + 1, FALSE) /\ p > Len(wire)
                    /\ \A i \in ids : \E p \in DOMAIN wire' : wire'[p].log = i
<1> DEFINE fresh == {i \in Logs : onchain[i] = 0}
<1>1. PICK s \in BlockContents(fresh) :
        /\ head' = head + 1
        /\ onchain' = [i \in Logs |-> IF i \in Included(s) THEN head + 1 ELSE onchain[i]]
        /\ wire' = IF feed = "up" THEN wire \o Announce(s, head + 1, FALSE) ELSE wire
  BY DEF Mine
<1>2. PICK n \in 0 .. MaxPerBlock : s \in [1 .. n -> fresh]
  BY DEF BlockContents
<1>3. n \in Nat /\ DOMAIN s = 1 .. n /\ head + 1 \in Nat /\ head \in Nat
  BY <1>2, ConfigTypes DEF TypeOK
<1>4. Included(s) \in SUBSET fresh
  BY <1>2, <1>3 DEF Included
<1>5. CASE feed # "up"
  BY <1>1, <1>3, <1>4, <1>5
<1>6. CASE feed = "up"
  <2> DEFINE t == Announce(s, head + 1, FALSE)
  <2>1. t \in Seq(Notices) /\ wire \in Seq(Notices) /\ wire' = wire \o t
    BY <1>1, <1>3, <1>6, AnnounceType DEF TypeOK
  <2>2. /\ DOMAIN t = 1 .. n /\ Len(t) = n
        /\ \A p \in 1 .. n : t[p] = Notice(s[p], head + 1, FALSE) /\ s[p] \in Included(s)
    BY <1>2, <1>3, <2>1 DEF Announce, Included
  <2> HIDE DEF t
  <2>3. /\ Len(wire') = Len(wire) + n /\ Len(wire) \in Nat /\ DOMAIN wire = 1 .. Len(wire)
        /\ DOMAIN wire' = 1 .. (Len(wire) + n)
        /\ \A p \in 1 .. (Len(wire) + n) : wire'[p] = IF p <= Len(wire) THEN wire[p]
                                                  ELSE t[p - Len(wire)]
    <3>1. /\ wire' \in Seq(Notices) /\ Len(wire') = Len(wire) + Len(t)
          /\ \A p \in 1 .. Len(wire) + Len(t) :
               wire'[p] = IF p <= Len(wire) THEN wire[p] ELSE t[p - Len(wire)]
      BY <2>1, ConcatProperties
    <3> QED
      BY <2>1, <2>2, <3>1
  <2>4. \A p \in DOMAIN wire : p \in DOMAIN wire' /\ wire'[p] = wire[p]
    BY <1>3, <2>3
  <2>5. ASSUME NEW p \in DOMAIN wire', p \notin DOMAIN wire
        PROVE  \E i \in Included(s) : wire'[p] = Notice(i, head + 1, FALSE) /\ p > Len(wire)
    <3>1. p \in Int /\ p > Len(wire) /\ p - Len(wire) \in 1 .. n
      BY <1>3, <2>3, <2>5
    <3>2. wire'[p] = t[p - Len(wire)]
      BY <2>3, <3>1
    <3> QED
      BY <2>2, <3>1, <3>2
  <2>6. ASSUME NEW i \in Included(s) PROVE \E p \in DOMAIN wire' : wire'[p].log = i
    <3>1. PICK q \in 1 .. n : s[q] = i
      BY <1>3 DEF Included
    <3>2. Len(wire) + q \in DOMAIN wire' /\ wire'[Len(wire) + q] = t[q]
      BY <1>3, <2>3
    <3> QED
      BY <2>2, <3>1, <3>2 DEF Notice
  <2> QED
    BY <1>1, <1>3, <1>4, <2>4, <2>5, <2>6
<1> QED
  BY <1>5, <1>6

(* Notices stay true: the chain only grows. *)
LEMMA NotifiedStep ==
  ASSUME Unbroken, IInv, Notified, Bounded, [Next]_vars
  PROVE  Notified'
<1>0. /\ TypeOK /\ PhaseInv /\ left'["failures"] = 0 /\ left'["reorgs"] = 0
      /\ \A i \in Logs : onchain[i] \in Nat /\ stored[i] \in Nat
  BY Spent DEF IInv, TypeOK, Notified
<1>1. CASE Mine
  <2>1. PICK ids \in SUBSET {i \in Logs : onchain[i] = 0} :
          /\ onchain' = [i \in Logs |-> IF i \in ids THEN head + 1 ELSE onchain[i]]
          /\ \A p \in DOMAIN wire' : (p \in DOMAIN wire /\ wire'[p] = wire[p])
               \/ \E i \in ids : wire'[p] = Notice(i, head + 1, FALSE)
    <3>1. PICK ids \in SUBSET {i \in Logs : onchain[i] = 0} :
            /\ onchain' = [i \in Logs |-> IF i \in ids THEN head + 1 ELSE onchain[i]]
            /\ \/ feed # "up" /\ wire' = wire
               \/ /\ \A p \in DOMAIN wire : p \in DOMAIN wire' /\ wire'[p] = wire[p]
                  /\ \A p \in DOMAIN wire' : p \in DOMAIN wire
                       \/ \E i \in ids : wire'[p] = Notice(i, head + 1, FALSE) /\ p > Len(wire)
                  /\ \A i \in ids : \E p \in DOMAIN wire' : wire'[p].log = i
      BY <1>0, <1>1, Mined
    <3>2. \A p \in DOMAIN wire' : (p \in DOMAIN wire /\ wire'[p] = wire[p])
             \/ \E i \in ids : wire'[p] = Notice(i, head + 1, FALSE)
      BY <3>1
    <3> QED
      BY <3>1, <3>2
  <2>2. /\ head' = head + 1 /\ head \in Nat
        /\ UNCHANGED <<queue, pc, msg, stored>>
    BY <1>0, <1>1, Mined DEF Mine, watcher, durable
  <2>3. \A n : Truthful(n, onchain) => Truthful(n, onchain')
    BY <2>1 DEF Truthful
  <2>4. \A i \in ids : Truthful(Notice(i, head + 1, FALSE), onchain')
    BY <2>1, <2>2 DEF Truthful, Notice
  <2>5. \A p \in DOMAIN wire' : Truthful(wire'[p], onchain')
    BY <2>1, <2>3, <2>4 DEF Notified
  <2>6. \A i \in Logs : onchain'[i] <= head' /\ stored'[i] \in {0, onchain'[i]}
    BY <1>0, <2>1, <2>2 DEF Notified
  <2> QED
    BY <1>0, <2>2, <2>3, <2>5, <2>6 DEF Notified
<1>2. CASE FeedReceive
  <2>1. UNCHANGED <<head, onchain, stored, pc, msg>>
    BY <1>2 DEF FeedReceive, chain, watcher, durable
  <2>2. \A n : Truthful(n, onchain) => Truthful(n, onchain')
    BY <2>1 DEF Truthful
  <2>3. /\ \A p \in DOMAIN wire' : Truthful(wire'[p], onchain')
        /\ \A p \in DOMAIN queue' : Truthful(queue'[p], onchain')
    BY <1>0, <1>2, <2>2, Received DEF Notified
  <2> QED
    BY <1>0, <2>1, <2>2, <2>3 DEF Notified
<1>3. CASE PopEvent
  <2>1. UNCHANGED <<head, onchain, stored, wire>>
    BY <1>3 DEF PopEvent, chain, durable
  <2>2. \A n : Truthful(n, onchain) => Truthful(n, onchain')
    BY <2>1 DEF Truthful
  <2>3. Truthful(msg', onchain') /\ \A p \in DOMAIN queue' : Truthful(queue'[p], onchain')
    BY <1>0, <1>3, <2>2, Popped DEF Notified
  <2> QED
    BY <1>0, <2>1, <2>2, <2>3 DEF Notified
<1>4. CASE ScanCommit \/ SaveEvent
  <2>1. UNCHANGED <<head, onchain, wire, queue, msg>> /\ (pc' = "eventState" => pc = "event") /\ pc' # "event"
    BY <1>4 DEF ScanCommit, SaveEvent, chain, feedVars
  <2>2. \A n : Truthful(n, onchain) => Truthful(n, onchain')
    BY <2>1 DEF Truthful
  <2>3. \A i \in Logs : stored'[i] \in {stored[i], onchain[i]}
    <3>1. CASE ScanCommit
      BY <3>1 DEF ScanCommit
    <3>2. CASE SaveEvent
      <4>1. Truthful(msg, onchain) /\ stored' = [stored EXCEPT ![msg.log] = msg.block]
        BY <3>2 DEF SaveEvent, Notified
      <4> QED
        BY <1>0, <4>1 DEF Truthful, TypeOK
    <3> QED
      BY <1>4, <3>1, <3>2
  <2> QED
    BY <1>0, <2>1, <2>2, <2>3 DEF Notified
<1>5. CASE Crash \/ ConnectTimeout \/ FeedDrop
  <2>1. /\ UNCHANGED <<head, onchain, stored>> /\ wire' = <<>>
        /\ queue' = <<>> \/ queue' = queue
        /\ pc' = "down" \/ UNCHANGED <<pc, msg>>
    BY <1>5 DEF Crash, ConnectTimeout, FeedDrop, Stop, chain, durable, watcher
  <2>2. \A n : Truthful(n, onchain) => Truthful(n, onchain')
    BY <2>1 DEF Truthful
  <2> QED
    BY <1>0, <2>1, <2>2 DEF Notified
<1>6. CASE \/ FeedSubscribe \/ Boot \/ Connected \/ RecoverAll \/ RecoverTail \/ GapState \/ ScanState
           \/ NoticeReconnect \/ NoticeOverflow \/ AwaitEvent \/ Healthcheck \/ EventState
           \/ UNCHANGED vars
  <2>1. UNCHANGED <<head, onchain, stored, wire, queue>>
    BY <1>6 DEF FeedSubscribe, Boot, Connected, RecoverAll, RecoverTail, GapState, ScanState,
                NoticeReconnect, NoticeOverflow, AwaitEvent, Healthcheck, EventState, vars,
                chain, durable, feedVars
  <2>2. pc' \in {"event", "eventState"} => pc \in {"event", "eventState"} /\ msg' = msg
    BY <1>0, <1>6, ReturnType DEF FeedSubscribe, Boot, Connected, RecoverAll, RecoverTail, GapState,
                ScanState, NoticeReconnect, NoticeOverflow, AwaitEvent, Healthcheck, EventState, vars,
                watcher
  <2>3. \A n : Truthful(n, onchain) => Truthful(n, onchain')
    BY <2>1 DEF Truthful
  <2> QED
    BY <1>0, <2>1, <2>2, <2>3 DEF Notified
<1> QED
  BY <1>1, <1>2, <1>3, <1>4, <1>5, <1>6, UnbrokenSteps

(* The range a recovery takes, and what it declares lost before it. *)
LEMMA RangeTaken ==
  ASSUME Unbroken, IInv, Notified, Bounded, RecoverAll \/ RecoverTail
  PROVE  /\ start' \in Nat /\ start <= start' /\ (start # NoBlock => start' = start)
         /\ range'.first \in Nat /\ range'.last = Target(head)
         /\ range'.last \in Nat /\ range'.last <= head
         /\ pc = "recover" /\ pc' \in {"gapState", "scan"} /\ Covered' = Covered
         /\ UNCHANGED <<chain, feedVars, recovery, msg, checkpoint, segment, stored, left>>
         /\ \E first \in Nat :
              /\ start' <= first /\ first <= range'.first
              /\ first = start' \/ (checkpoint # NoBlock /\ first = checkpoint - LiveOverlap)
              /\ \/ Gapped' = Gapped /\ range'.first = first
                 \/ Gapped' = Gapped \cup (first .. range'.first)
<1>0. TypeOK /\ CoverageCanonical
  BY DEF IInv
<1>1. CASE RecoverAll
  <2>1. PICK target \in {Target(h) : h \in Heads} :
          /\ start' = StartBlock(target) /\ range' = Row(RecoverFirst(target), target)
          /\ pc = "recover" /\ pc' = "scan"
          /\ UNCHANGED <<chain, feedVars, recovery, msg, checkpoint, segment, coverage, stored, left>>
    BY <1>1 DEF RecoverAll
  <2>2. Covered' = Covered /\ Gapped' = Gapped
    BY <2>1 DEF Covered, Gapped
  <2>3. range'.first = RecoverFirst(target) /\ range'.last = target
    BY <2>1 DEF Row
  <2> QED
    BY <1>0, <2>1, <2>2, <2>3, HeadRead
<1>2. CASE RecoverTail
  <2>1. PICK target \in {Target(h) : h \in Heads} :
          LET first == RecoverFirst(target)
              skipped == Larger(first - 1, target - LiveOverlap)
          IN /\ pc = "recover" /\ target >= first /\ TooLong(target)
             /\ start' = StartBlock(target)
             /\ coverage' = [coverage EXCEPT ![recovery] = RecordCoverage(@, first, skipped)]
             /\ range' = Row(Larger(StartBlock(target), target - LiveOverlap), target)
             /\ pc' = "gapState"
             /\ UNCHANGED <<chain, feedVars, recovery, msg, checkpoint, segment, stored, left>>
    BY <1>2 DEF RecoverTail
  <2> DEFINE first == RecoverFirst(target)
             sb == StartBlock(target)
             skipped == Larger(first - 1, target - LiveOverlap)
  <2>2. /\ target = Target(head) /\ target \in Nat /\ target <= head
        /\ sb \in Nat /\ start <= sb /\ (start # NoBlock => sb = start)
        /\ first \in Nat /\ sb <= first
        /\ first = sb \/ (checkpoint # NoBlock /\ first = checkpoint - LiveOverlap)
    BY <1>0, HeadRead
  <2>3. Limit \in Nat /\ LiveOverlap <= Limit /\ target - first + 1 > Limit
    BY <2>1, ConfigTypes, LiveConfig DEF Limit, TooLong
  <2>4. /\ pc = "recover" /\ start' = sb /\ pc' = "gapState"
        /\ coverage' = [coverage EXCEPT ![recovery] = RecordCoverage(@, first, skipped)]
        /\ range' = Row(Larger(sb, target - LiveOverlap), target)
        /\ UNCHANGED <<chain, feedVars, recovery, msg, checkpoint, segment, stored, left>>
    BY <2>1
  <2> HIDE DEF first, sb
  <2>5. /\ skipped = target - LiveOverlap /\ skipped \in Nat /\ first <= skipped
        /\ Larger(sb, target - LiveOverlap) = skipped
    BY <2>2, <2>3, ConfigTypes DEF Larger
  <2> HIDE DEF skipped
  <2>6. range'.first = skipped /\ range'.last = target
    BY <2>4, <2>5 DEF Row
  <2>7. recovery \in GapKinds /\ recovery \in Kinds /\ recovery # "live"
    BY <1>0, LiveKind DEF TypeOK
  <2>8. /\ Blocks(coverage'[recovery]) = Blocks(coverage[recovery]) \cup (first .. skipped)
        /\ \A j \in Kinds \ {recovery} : coverage'[j] = coverage[j]
    BY <1>0, <2>2, <2>4, <2>5, <2>7, CoverageStep
  <2>9. Covered' = Covered
    BY <2>7, <2>8, LiveKind DEF Covered
  <2>10. \A k \in GapKinds : Blocks(coverage'[k]) = IF k = recovery
                                                    THEN Blocks(coverage[k]) \cup (first .. skipped)
                                                    ELSE Blocks(coverage[k])
    BY <2>8, LiveKind
  <2>11. Gapped' = Gapped \cup (first .. skipped)
    <3> DEFINE B(k) == Blocks(coverage[k])
               C(k) == Blocks(coverage'[k])
    <3>1. \A k \in GapKinds : C(k) = IF k = recovery THEN B(k) \cup (first .. skipped) ELSE B(k)
      BY <2>10
    <3>2. Gapped = UNION {B(k) : k \in GapKinds} /\ Gapped' = UNION {C(k) : k \in GapKinds}
      BY DEF Gapped
    <3> HIDE DEF B, C
    <3> QED
      BY <2>7, <3>1, <3>2
  <2> QED
    BY <2>2, <2>4, <2>5, <2>6, <2>9, <2>11
<1> QED
  BY <1>1, <1>2

(* The scan's commit. *)
LEMMA Scanned ==
  ASSUME IInv, ScanCommit
  PROVE  /\ Covered' = Covered \cup (range.first .. range.last) /\ Gapped' = Gapped
         /\ checkpoint' \in Nat /\ pc = "scan" /\ pc' = "scanState"
         /\ range.first \in Nat /\ range.last \in Nat /\ range.first <= range.last
         /\ checkpoint' = range.last \/ (checkpoint' = checkpoint /\ checkpoint # NoBlock)
         /\ range.last <= checkpoint' /\ checkpoint <= checkpoint'
         /\ \A i \in Logs : stored'[i] = IF range.first <= onchain[i] /\ onchain[i] <= range.last /\ onchain[i] # 0
                                         THEN onchain[i] ELSE stored[i]
         /\ UNCHANGED <<chain, feedVars, recovery, range, msg, start, segment, left>>
<1>1. /\ stored' = [i \in Logs |-> IF i \in LogsIn(range.first, range.last) THEN onchain[i] ELSE stored[i]]
      /\ coverage' = [coverage EXCEPT !["live"] = RecordCoverage(@, range.first, range.last)]
      /\ checkpoint' = Larger(range.last, Larger(0, checkpoint))
      /\ pc = "scan" /\ pc' = "scanState"
      /\ UNCHANGED <<chain, feedVars, recovery, range, msg, start, segment, left>>
  BY DEF ScanCommit
<1>2. /\ range.first \in Nat /\ range.last \in Nat /\ range.first <= range.last
      /\ TypeOK /\ CoverageCanonical
  BY <1>1 DEF IInv, TypeOK, Rows, PhaseInv
<1>3. /\ Covered' = Covered \cup (range.first .. range.last)
      /\ \A j \in Kinds \ {"live"} : coverage'[j] = coverage[j]
  BY <1>1, <1>2, LiveKind, CoverageStep DEF Covered
<1>4. Gapped' = Gapped
  <2>1. \A k \in GapKinds : coverage'[k] = coverage[k]
    BY <1>3, LiveKind
  <2> QED
    BY <2>1 DEF Gapped
<1>5. /\ checkpoint' \in Nat /\ range.last <= checkpoint' /\ checkpoint <= checkpoint'
      /\ checkpoint' = range.last \/ (checkpoint' = checkpoint /\ checkpoint # NoBlock)
  <2>1. checkpoint \in Nat \/ checkpoint = NoBlock
    BY <1>2 DEF TypeOK, BlocksOrNone
  <2> QED
    BY <1>1, <1>2, <2>1 DEF Larger, NoBlock
<1> QED
  BY <1>1, <1>2, <1>3, <1>4, <1>5 DEF LogsIn

(* The event's commit: once the loop runs, the row begins at the segment or *)
(* the block is one the cursor has passed.                                  *)
LEMMA Saved ==
  ASSUME IInv, Bounded, SaveEvent
  PROVE  /\ Gapped' = Gapped /\ Covered \subseteq Covered'
         /\ msg.block \in Nat /\ msg.log \in Logs /\ checkpoint \in Nat /\ checkpoint' \in Nat
         /\ pc = "event" /\ pc' = "eventState"
         /\ checkpoint' = Larger(msg.block, checkpoint)
         /\ (checkpoint + 1) .. checkpoint' \subseteq Covered'
         /\ stored' = [stored EXCEPT ![msg.log] = msg.block]
         /\ UNCHANGED <<chain, feedVars, recovery, range, msg, start, segment, left>>
<1>1. /\ stored' = [stored EXCEPT ![msg.log] = msg.block]
      /\ coverage' = [coverage EXCEPT !["live"] = RecordCoverage(@, CoverageFirst, msg.block)]
      /\ checkpoint' = Larger(msg.block, Larger(0, checkpoint))
      /\ pc = "event" /\ pc' = "eventState"
      /\ UNCHANGED <<chain, feedVars, recovery, range, msg, start, segment, left>>
  BY DEF SaveEvent
<1>2. /\ msg \in Notices /\ msg.block \in Nat /\ msg.log \in Logs
      /\ TypeOK /\ CoverageCanonical /\ SegmentBehindCheckpoint
  BY <1>1 DEF IInv, PhaseInv, Notices
<1>3. checkpoint \in Nat /\ segment \in Nat /\ segment <= checkpoint + 1 /\ segment # NoBlock
  BY <1>1, <1>2 DEF Bounded, Looping, TypeOK, BlocksOrNone, SegmentBehindCheckpoint
<1>4. CoverageFirst \in Nat /\ CoverageFirst <= msg.block
  BY <1>2, CoverageFirstBound
<1>5. /\ Covered' = Covered \cup (CoverageFirst .. msg.block)
      /\ \A j \in Kinds \ {"live"} : coverage'[j] = coverage[j]
  BY <1>1, <1>2, <1>4, LiveKind, CoverageStep DEF Covered
<1>6. Gapped' = Gapped
  <2>1. \A k \in GapKinds : coverage'[k] = coverage[k]
    BY <1>5, LiveKind
  <2> QED
    BY <2>1 DEF Gapped
<1>7. checkpoint' = Larger(msg.block, checkpoint) /\ checkpoint' \in Nat
  BY <1>1, <1>2, <1>3 DEF Larger
<1>8. (checkpoint + 1) .. checkpoint' \subseteq Covered'
  <2>1. CASE msg.block <= checkpoint
    BY <1>2, <1>3, <1>7, <2>1 DEF Larger
  <2>2. CASE ~(msg.block <= checkpoint)
    <3>1. CoverageFirst = segment
      BY <1>3, <2>2 DEF CoverageFirst
    <3> QED
      BY <1>2, <1>3, <1>5, <1>7, <2>2, <3>1 DEF Larger
  <2> QED
    BY <2>1, <2>2
<1> QED
  BY <1>1, <1>2, <1>3, <1>5, <1>6, <1>7, <1>8

(* The chain only grows, and with it what a recovery may read. *)
LEMMA HeadGrows ==
  ASSUME Unbroken, IInv, Notified, Bounded, [Next]_vars
  PROVE  /\ head \in Nat /\ head' \in Nat /\ head <= head'
         /\ Target(head) \in Nat /\ Target(head)' \in Nat /\ Target(head) <= Target(head)'
<1>1. head \in Nat /\ head' \in Nat
  BY StepIInv DEF IInv, TypeOK
<1>2. head' = head + 1 \/ head' = head
  BY UnbrokenSteps DEF Mine, FeedSubscribe, FeedReceive, FeedDrop, Crash, Boot, Connected, ConnectTimeout,
     RecoverAll, RecoverTail, GapState, ScanCommit, ScanState, NoticeReconnect, NoticeOverflow, AwaitEvent,
     Healthcheck, PopEvent, SaveEvent, EventState, vars, chain
<1>3. head <= head'
  BY <1>1, <1>2
<1>4. \A h \in Nat : Target(h) = IF h >= Confirmations THEN h - Confirmations ELSE 0
  BY ConfigTypes DEF Target, Larger
<1>5. Target(head)' = Target(head')
  BY DEF Target, Larger
<1> QED
  BY <1>1, <1>3, <1>4, <1>5, ConfigTypes

(* Steps that write neither the database nor the range under way. *)
LEMMA Undisturbed ==
  ASSUME IInv, Bounded, Filled, EveryBlockAccounted,
         \/ Mine \/ FeedSubscribe \/ FeedReceive \/ FeedDrop \/ Crash \/ Boot \/ Connected \/ ConnectTimeout
         \/ NoticeReconnect \/ NoticeOverflow \/ AwaitEvent \/ Healthcheck \/ PopEvent \/ UNCHANGED vars
  PROVE  /\ UNCHANGED <<checkpoint, start, segment>> /\ Known' = Known
         /\ pc' \in {"gapState", "scan", "scanState"} => pc' = pc /\ range' = range
         /\ Looping' => Looping
         /\ pc' \notin {"down", "connect", "recover"} => pc \notin {"down", "connect", "recover"}
<1>1. UNCHANGED durable
  BY DEF Mine, FeedSubscribe, FeedReceive, FeedDrop, Crash, Boot, Connected, ConnectTimeout,
     NoticeReconnect, NoticeOverflow, AwaitEvent, Healthcheck, PopEvent, vars
<1>2. Known' = Known
  BY <1>1 DEF durable, Known, Covered, Gapped
<1>3. CASE \/ Mine \/ FeedSubscribe \/ FeedReceive \/ FeedDrop \/ UNCHANGED vars
  <2>1. pc' = pc /\ range' = range
    BY <1>3 DEF Mine, FeedSubscribe, FeedReceive, FeedDrop, vars, watcher
  <2> QED
    BY <1>1, <1>2, <2>1 DEF durable, Looping
<1>4. CASE Crash \/ Boot \/ Connected \/ ConnectTimeout
  <2>1. pc' \in {"down", "connect", "recover"}
    BY <1>4 DEF Crash, Boot, Connected, ConnectTimeout, Stop
  <2> QED
    BY <1>1, <1>2, <2>1 DEF durable, Looping
<1>5. CASE NoticeReconnect \/ NoticeOverflow \/ AwaitEvent \/ Healthcheck \/ PopEvent
  <2>1. pc \in {"loop", "overflow", "get"} /\ pc' \in {"recover", "get", "loop", "event"}
    BY <1>5 DEF NoticeReconnect, NoticeOverflow, AwaitEvent, Healthcheck, PopEvent, PastReconnect
  <2> QED
    BY <1>1, <1>2, <2>1 DEF durable, Looping
<1> QED
  BY <1>3, <1>4, <1>5

LEMMA BoundedStep ==
  ASSUME Unbroken, IInv, UnbrokenInv, [Next]_vars
  PROVE  Bounded'
<1>0. /\ TypeOK /\ PhaseInv /\ Notified /\ Bounded /\ Filled /\ EveryBlockAccounted
      /\ head \in Nat /\ head' \in Nat /\ head <= head'
      /\ Target(head) \in Nat /\ Target(head)' \in Nat /\ Target(head) <= Target(head)'
      /\ checkpoint \in Int /\ start \in Int /\ range.last \in Nat
  BY HeadGrows DEF UnbrokenInv, IInv, TypeOK, BlocksOrNone, NoBlock, Rows
<1>1. CASE \/ Mine \/ FeedSubscribe \/ FeedReceive \/ FeedDrop \/ Crash \/ Boot \/ Connected \/ ConnectTimeout
           \/ NoticeReconnect \/ NoticeOverflow \/ AwaitEvent \/ Healthcheck \/ PopEvent \/ UNCHANGED vars
  <2>1. /\ UNCHANGED <<checkpoint, start, segment>>
        /\ pc' \in {"gapState", "scan", "scanState"} => pc' = pc /\ range' = range
        /\ Looping' => Looping
        /\ pc' \notin {"down", "connect", "recover"} => pc \notin {"down", "connect", "recover"}
    BY <1>0, <1>1, Undisturbed
  <2>2. checkpoint' <= head' /\ start' <= Target(head)'
    BY <1>0, <2>1 DEF Bounded
  <2>3. pc' \in {"gapState", "scan", "scanState"} => range'.last <= head'
    BY <1>0, <2>1 DEF Bounded
  <2> QED
    BY <1>0, <2>1, <2>2, <2>3 DEF Bounded
<1>2. CASE RecoverAll \/ RecoverTail
  <2>1. /\ start' \in Nat /\ range'.last \in Nat /\ range'.last <= head
        /\ pc' \in {"gapState", "scan"} /\ UNCHANGED <<head, checkpoint>>
        /\ start' <= Target(head)
    <3>1. /\ start' \in Nat /\ range'.last \in Nat /\ range'.last <= head
          /\ pc' \in {"gapState", "scan"} /\ UNCHANGED <<head, checkpoint>>
          /\ range'.last = Target(head)
      BY <1>0, <1>2, RangeTaken DEF chain
    <3>2. start' <= Target(head)
      BY <1>0, <1>2, HeadRead DEF RecoverAll, RecoverTail
    <3> QED
      BY <3>1, <3>2
  <2> QED
    BY <1>0, <2>1 DEF Bounded, Looping, NoBlock
<1>3. CASE GapState
  BY <1>0, <1>3 DEF GapState, chain, Bounded, Looping
<1>4. CASE ScanCommit
  <2>1. /\ checkpoint' <= head /\ UNCHANGED <<head, range, start>> /\ pc = "scan" /\ pc' = "scanState"
    BY <1>0, <1>4, Scanned DEF chain, Bounded
  <2> QED
    BY <1>0, <2>1 DEF Bounded, Looping
<1>5. CASE ScanState
  <2>1. /\ segment' = range.last + 1 /\ Return /\ UNCHANGED <<head, checkpoint, start>>
        /\ pc = "scanState" /\ range.last <= checkpoint
    BY <1>0, <1>5 DEF ScanState, chain, PhaseInv
  <2>2. pc' \in {"loop", "overflow", "get"} /\ checkpoint # NoBlock /\ segment' # NoBlock
    BY <1>0, <2>1, ReturnType DEF NoBlock
  <2> QED
    BY <1>0, <2>1, <2>2 DEF Bounded
<1>6. CASE SaveEvent
  <2>1. /\ msg.block <= head /\ pc = "event" /\ pc' = "eventState"
        /\ checkpoint' = Larger(msg.block, checkpoint) /\ checkpoint' # NoBlock
        /\ UNCHANGED <<head, start, segment>>
    <3>1. Truthful(msg, onchain)
      BY <1>0, <1>6 DEF SaveEvent, Notified
    <3> QED
      BY <1>0, <1>6, <3>1, Saved DEF chain, Notified, Truthful, NoBlock
  <2>2. checkpoint' <= head
    BY <1>0, <2>1 DEF Larger, Bounded
  <2> QED
    BY <1>0, <2>1, <2>2 DEF Bounded, Looping
<1>7. CASE EventState
  <2>1. msg.block \in Nat
    BY <1>0, <1>7 DEF EventState, PhaseInv, Notices
  <2>2. /\ pc = "eventState" /\ pc' = "loop" /\ segment' # NoBlock
        /\ UNCHANGED <<head, checkpoint, start>>
    BY <1>7, <2>1 DEF EventState, chain, NoBlock
  <2> QED
    BY <1>0, <2>2 DEF Bounded, Looping
<1> QED
  BY <1>0, <1>1, <1>2, <1>3, <1>4, <1>5, <1>6, <1>7, UnbrokenSteps

(* Every block stays accounted for. *)
LEMMA AccountedStep ==
  ASSUME Unbroken, IInv, UnbrokenInv, [Next]_vars
  PROVE  Filled' /\ EveryBlockAccounted'
<1>0. /\ TypeOK /\ Notified /\ Bounded /\ Filled /\ EveryBlockAccounted
      /\ checkpoint \in Int /\ start \in Int /\ head \in Nat
  BY DEF UnbrokenInv, IInv, TypeOK, BlocksOrNone, NoBlock
<1>1. CASE \/ Mine \/ FeedSubscribe \/ FeedReceive \/ FeedDrop \/ Crash \/ Boot \/ Connected \/ ConnectTimeout
           \/ NoticeReconnect \/ NoticeOverflow \/ AwaitEvent \/ Healthcheck \/ PopEvent \/ UNCHANGED vars
  BY <1>0, <1>1, Undisturbed DEF Filled, EveryBlockAccounted, Known
<1>2. CASE RecoverAll \/ RecoverTail
  <2>1. PICK first \in Nat :
          /\ start' <= first /\ first <= range'.first
          /\ first = start' \/ (checkpoint # NoBlock /\ first = checkpoint - LiveOverlap)
          /\ \/ Gapped' = Gapped /\ range'.first = first
             \/ Gapped' = Gapped \cup (first .. range'.first)
    BY <1>0, <1>2, RangeTaken
  <2>2. /\ start' \in Nat /\ (start # NoBlock => start' = start) /\ checkpoint' = checkpoint
        /\ range'.first \in Nat /\ range'.last \in Nat /\ Covered' = Covered
    BY <1>0, <1>2, RangeTaken
  <2>3. /\ Known \subseteq Known'
        /\ \A b \in first .. range'.first : b \in Known' \/ b = range'.first
    BY <2>1, <2>2 DEF Known
  <2>4. checkpoint # NoBlock => start' = start
    BY <1>0, <2>2 DEF Bounded
  <2>5. EveryBlockAccounted'
    BY <1>0, <2>2, <2>3, <2>4 DEF EveryBlockAccounted, Known
  <2>6. ASSUME NEW b \in start' .. range'.last
        PROVE  b \in Known' \cup (range'.first .. range'.last)
    <3>1. CASE b < first
      <4>1. checkpoint # NoBlock /\ b <= checkpoint /\ b \in start .. checkpoint
        BY <1>0, <2>1, <2>2, <2>4, <2>6, <3>1, ConfigTypes
      <4> QED
        BY <1>0, <2>3, <4>1 DEF EveryBlockAccounted, Known
    <3>2. CASE first <= b
      BY <2>1, <2>2, <2>3, <2>6, <3>2
    <3> QED
      BY <2>1, <2>2, <2>6, <3>1, <3>2
  <2> QED
    BY <2>5, <2>6 DEF Filled
<1>3. CASE GapState
  BY <1>0, <1>3 DEF GapState, Filled, EveryBlockAccounted, Known, Covered, Gapped
<1>4. CASE ScanCommit
  <2>1. /\ Known' = Known \cup (range.first .. range.last) /\ start' = start /\ pc = "scan" /\ pc' = "scanState"
        /\ checkpoint' = range.last \/ (checkpoint' = checkpoint /\ checkpoint # NoBlock)
    BY <1>0, <1>4, Scanned DEF Known
  <2>2. EveryBlockAccounted'
    BY <1>0, <2>1 DEF EveryBlockAccounted, Filled, Known
  <2> QED
    BY <2>1, <2>2 DEF Filled
<1>5. CASE SaveEvent
  <2>1. /\ Known \subseteq Known' /\ start' = start /\ pc = "event" /\ pc' = "eventState"
        /\ checkpoint \in Nat /\ checkpoint' \in Nat
        /\ (checkpoint + 1) .. checkpoint' \subseteq Known'
    BY <1>0, <1>5, Saved DEF Known
  <2>2. checkpoint # NoBlock
    BY <2>1 DEF NoBlock
  <2>3. ASSUME NEW b \in start' .. checkpoint' PROVE b \in Known'
    <3>1. b \in start .. checkpoint \/ b \in (checkpoint + 1) .. checkpoint'
      BY <1>0, <2>1, <2>3
    <3> QED
      BY <1>0, <2>1, <2>2, <3>1 DEF EveryBlockAccounted, Known
  <2> QED
    BY <2>1, <2>3 DEF EveryBlockAccounted, Filled, Known
<1>6. CASE ScanState \/ EventState
  <2>1. /\ UNCHANGED <<checkpoint, start, coverage>> /\ pc' \in {"loop", "overflow", "get"}
    BY <1>0, <1>6, ReturnType DEF ScanState, EventState
  <2> QED
    BY <1>0, <2>1 DEF Filled, EveryBlockAccounted, Known, Covered, Gapped
<1> QED
  BY <1>0, <1>1, <1>2, <1>3, <1>4, <1>5, <1>6, UnbrokenSteps

LEMMA InitUnbroken == Unbroken /\ Init => UnbrokenInv
<1> SUFFICES ASSUME Unbroken, Init PROVE UnbrokenInv
  OBVIOUS
<1>1. Notified
  BY DEF Unbroken, Init, Notified
<1>2. Bounded
  BY ConfigTypes DEF Init, Bounded, Looping, NoBlock, Target, Larger
<1> QED
  BY <1>1, <1>2 DEF Init, UnbrokenInv, Filled, EveryBlockAccounted

(* Between live_start_block and the cursor every block is covered or in a   *)
(* recorded gap, whatever the socket does and wherever a crash falls, as    *)
(* long as no call fails and no block is replaced (Watcher.ws_recover and   *)
(* process_ws_event; section 5 of the README says what breaks it).          *)
THEOREM EveryBlockAccountedFor ==
  ASSUME Unbroken
  PROVE  Spec => []EveryBlockAccounted
<1>1. Init => IInv /\ UnbrokenInv
  BY InitIInv, InitUnbroken
<1>2. IInv /\ UnbrokenInv /\ [Next]_vars => (IInv /\ UnbrokenInv)'
  <2> SUFFICES ASSUME IInv, UnbrokenInv, [Next]_vars PROVE IInv' /\ UnbrokenInv'
    OBVIOUS
  <2> QED
    BY StepIInv, NotifiedStep, BoundedStep, AccountedStep DEF UnbrokenInv
<1>3. UnbrokenInv => EveryBlockAccounted
  BY DEF UnbrokenInv
<1> QED
  BY <1>1, <1>2, <1>3, PTL DEF Spec
-----------------------------------------------------------------------------
(***************************************************************************)
(* No log is lost without a gap, while the connection holds as well and    *)
(* the recovery reads up to the block at which the subscription begins.    *)
(***************************************************************************)
Steady == Unbroken /\ MaxDrops = 0 /\ Confirmations = 0

Connection ==
  /\ left["drops"] = 0
  /\ pc = "connect" => feed \in {"connecting", "up"}
  /\ pc \notin {"down", "connect"} => feed = "up" /\ ~unseen
  /\ recovery \in {"startup-gap", "ws-queue-gap"}

(* Notices arrive in the order of their blocks. *)
InOrder ==
  /\ \A p, q \in DOMAIN queue : p <= q => queue[p].block <= queue[q].block
  /\ \A p, q \in DOMAIN wire : p <= q => wire[p].block <= wire[q].block
  /\ \A p \in DOMAIN queue, q \in DOMAIN wire : queue[p].block <= wire[q].block
  /\ pc = "event" => /\ \A p \in DOMAIN queue : msg.block <= queue[p].block
                     /\ \A p \in DOMAIN wire : msg.block <= wire[p].block

(* A log of the selected range that is neither stored nor in a gap. *)
Unread(i) ==
  /\ onchain[i] # 0 /\ start # NoBlock /\ onchain[i] >= start
  /\ stored[i] # onchain[i] /\ onchain[i] \notin Gapped

(* Its notice is on its way, or was dropped after the first of the queue. *)
Waiting(i) ==
  \/ \E p \in DOMAIN queue : queue[p].log = i
  \/ \E p \in DOMAIN wire : wire[p].log = i
Held(i) == Waiting(i) \/ (pc = "event" /\ msg.log = i)
Dropped(i) == overflowed /\ 1 \in DOMAIN queue /\ queue[1].block <= onchain[i]

(* Where an unread log can be.  The flag alone is enough where the loop     *)
(* looks at it next; where it takes a notice first, the notices it may take *)
(* are older than what was dropped.                                         *)
Within(i) ==
  /\ checkpoint # NoBlock => checkpoint - LiveOverlap <= onchain[i]
  /\ pc \in {"gapState", "scan"} =>
       range.first <= onchain[i] /\ (onchain[i] <= range.last \/ Held(i) \/ Dropped(i))
  /\ pc \in {"scanState", "get"} => Held(i) \/ Dropped(i)
  /\ pc \in {"loop", "overflow", "eventState"} => Held(i) \/ overflowed
  /\ pc = "event" => Held(i) \/ (overflowed /\ msg.block <= onchain[i])
Fate == \A i \in Logs : Unread(i) => Within(i)

SteadyInv == UnbrokenInv /\ Connection /\ InOrder /\ Fate

(* The steps that are left once the connection holds. *)
LEMMA SteadySteps ==
  ASSUME Steady, IInv, SteadyInv, [Next]_vars
  PROVE  \/ Mine \/ FeedSubscribe \/ FeedReceive
         \/ Crash \/ Boot \/ Connected
         \/ RecoverAll \/ RecoverTail \/ GapState \/ ScanCommit \/ ScanState
         \/ NoticeOverflow \/ AwaitEvent \/ Healthcheck \/ PopEvent
         \/ SaveEvent \/ EventState \/ UNCHANGED vars
<1>1. ~FeedDrop
  BY Spent DEF SteadyInv, Connection, IInv, FeedDrop
<1>2. ~ConnectTimeout
  BY Spent DEF SteadyInv, Connection, IInv, ConnectTimeout
<1>3. ~NoticeReconnect
  BY DEF SteadyInv, Connection, NoticeReconnect
<1> QED
  BY <1>1, <1>2, <1>3, UnbrokenSteps DEF Steady, SteadyInv, UnbrokenInv

LEMMA ConnectionStep ==
  ASSUME Steady, IInv, SteadyInv, [Next]_vars
  PROVE  Connection'
<1>0. Connection /\ left'["drops"] = 0 /\ recovery \in {"startup-gap", "ws-queue-gap"}
  BY Spent DEF SteadyInv, Connection, IInv
<1>1. CASE Mine \/ FeedSubscribe \/ FeedReceive \/ UNCHANGED vars
  <2>1. CASE FeedSubscribe
    BY <1>0, <2>1 DEF FeedSubscribe, watcher, Connection
  <2>2. CASE Mine \/ FeedReceive \/ UNCHANGED vars
    <3>1. UNCHANGED <<pc, recovery, feed, unseen>>
      BY <2>2 DEF Mine, FeedReceive, vars, watcher, feedVars
    <3> QED
      BY <1>0, <3>1 DEF Connection
  <2> QED
    BY <1>1, <2>1, <2>2
<1>2. CASE Crash \/ Boot \/ Connected
  BY <1>0, <1>2 DEF Crash, Stop, Boot, Connected, Connection
<1>3. CASE RecoverAll \/ RecoverTail \/ GapState \/ ScanCommit
  BY <1>0, <1>3 DEF RecoverAll, RecoverTail, GapState, ScanCommit, feedVars, Connection
<1>4. CASE ScanState
  <2>1. UNCHANGED <<feed, unseen>> /\ pc = "scanState" /\ pc' \in {"loop", "overflow", "get"}
        /\ recovery' = "startup-gap"
    BY <1>4, ReturnType DEF IInv, ScanState, Return, feedVars
  <2> QED
    BY <1>0, <2>1 DEF Connection
<1>5. CASE NoticeOverflow \/ AwaitEvent \/ Healthcheck \/ PopEvent
  BY <1>0, <1>5 DEF NoticeOverflow, AwaitEvent, Healthcheck, PopEvent, PastReconnect, TaskRestarted,
                    feedVars, Connection
<1>6. CASE SaveEvent \/ EventState
  BY <1>0, <1>6 DEF SaveEvent, EventState, feedVars, Connection
<1> QED
  BY <1>1, <1>2, <1>3, <1>4, <1>5, <1>6, SteadySteps

(* New blocks are the highest; a notice leaves either sequence at its head. *)
LEMMA InOrderStep ==
  ASSUME Steady, IInv, SteadyInv, [Next]_vars
  PROVE  InOrder'
<1>0. /\ TypeOK /\ Notified /\ InOrder /\ head \in Nat
      /\ wire \in Seq(Notices) /\ queue \in Seq(Notices)
      /\ \A p \in DOMAIN wire : p \in Nat \ {0} /\ wire[p].block \in Nat /\ wire[p].block <= head
      /\ \A p \in DOMAIN queue : p \in Nat \ {0} /\ queue[p].block \in Nat /\ queue[p].block <= head
      /\ pc = "event" => msg.block \in Nat /\ msg.block <= head
  <2>1. TypeOK /\ Notified /\ InOrder
    BY DEF SteadyInv, UnbrokenInv, IInv
  <2>2. head \in Nat /\ wire \in Seq(Notices) /\ queue \in Seq(Notices)
        /\ \A i \in Logs : onchain[i] \in Nat /\ onchain[i] <= head
    BY <2>1 DEF TypeOK, Notified
  <2>3. \A n : Truthful(n, onchain) => n.block \in Nat /\ n.block <= head
    BY <2>2 DEF Truthful
  <2>4. \A p \in DOMAIN wire : p \in Nat \ {0} /\ wire[p].block \in Nat /\ wire[p].block <= head
    BY <2>1, <2>2, <2>3 DEF Notified
  <2>5. \A p \in DOMAIN queue : p \in Nat \ {0} /\ queue[p].block \in Nat /\ queue[p].block <= head
    BY <2>1, <2>2, <2>3 DEF Notified
  <2> QED
    BY <2>1, <2>2, <2>3, <2>4, <2>5 DEF Notified
<1>1. CASE Mine
  <2>1. UNCHANGED <<queue, pc, msg>>
    BY <1>1 DEF Mine, watcher
  <2>2. CASE wire' = wire
    BY <1>0, <2>1, <2>2 DEF InOrder
  <2>3. CASE /\ \A p \in DOMAIN wire : p \in DOMAIN wire' /\ wire'[p] = wire[p]
             /\ \A p \in DOMAIN wire' : p \in DOMAIN wire
                  \/ \E i \in Logs : wire'[p] = Notice(i, head + 1, FALSE) /\ p > Len(wire)
    <3>1. \A p \in DOMAIN wire' : (p \in DOMAIN wire /\ wire'[p] = wire[p])
                                    \/ (wire'[p].block = head + 1 /\ p > Len(wire))
      BY <2>3 DEF Notice
    <3>2. Len(wire) \in Nat /\ \A p \in DOMAIN wire : p <= Len(wire)
      BY <1>0
    <3>3. wire' \in Seq(Notices) /\ \A p \in DOMAIN wire' : p \in Nat
      BY StepIInv DEF IInv, TypeOK
    <3>4. ASSUME NEW p \in DOMAIN wire', NEW q \in DOMAIN wire', p <= q
          PROVE  wire'[p].block <= wire'[q].block
      BY <1>0, <3>1, <3>2, <3>3, <3>4 DEF InOrder
    <3> QED
      BY <1>0, <2>1, <3>1, <3>4 DEF InOrder
  <2> QED
    <3>1. PICK ids \in SUBSET {i \in Logs : onchain[i] = 0} :
              \/ feed # "up" /\ wire' = wire
              \/ /\ \A p \in DOMAIN wire : p \in DOMAIN wire' /\ wire'[p] = wire[p]
                 /\ \A p \in DOMAIN wire' : p \in DOMAIN wire
                      \/ \E i \in ids : wire'[p] = Notice(i, head + 1, FALSE) /\ p > Len(wire)
                 /\ \A i \in ids : \E p \in DOMAIN wire' : wire'[p].log = i
      BY <1>0, <1>1, Mined
    <3> QED
      BY <2>2, <2>3, <3>1
<1>2. CASE FeedReceive
  <2>1. UNCHANGED <<pc, msg>>
    BY <1>2 DEF FeedReceive, watcher
  <2>2. /\ 1 \in DOMAIN wire
        /\ \A p \in DOMAIN wire' : p + 1 \in DOMAIN wire /\ wire'[p] = wire[p + 1]
        /\ \A p \in DOMAIN queue' : (p \in DOMAIN queue /\ queue'[p] = queue[p])
                                      \/ (p = Len(queue) + 1 /\ queue'[p] = wire[1])
    BY <1>0, <1>2, Received
  <2>3. /\ wire' \in Seq(Notices) /\ \A p \in DOMAIN wire' : p \in Nat \ {0}
        /\ queue' \in Seq(Notices) /\ \A p \in DOMAIN queue' : p \in Nat \ {0}
    <3>1. wire' \in Seq(Notices) /\ queue' \in Seq(Notices)
      BY StepIInv DEF IInv, TypeOK
    <3> QED
      BY <3>1
  <2>4. Len(queue) \in Nat /\ \A p \in DOMAIN queue : p <= Len(queue)
    BY <1>0
  <2>5. \A p, q \in DOMAIN queue' : p <= q => queue'[p].block <= queue'[q].block
    BY <1>0, <2>2, <2>3, <2>4 DEF InOrder
  <2>6. \A p, q \in DOMAIN wire' : p <= q => wire'[p].block <= wire'[q].block
    <3> SUFFICES ASSUME NEW p \in DOMAIN wire', NEW q \in DOMAIN wire', p <= q
                 PROVE  wire'[p].block <= wire'[q].block
      OBVIOUS
    <3>1. p + 1 \in DOMAIN wire /\ q + 1 \in DOMAIN wire /\ p + 1 <= q + 1
      BY <2>2, <2>3
    <3> QED
      BY <1>0, <2>2, <3>1 DEF InOrder
  <2>7. \A p \in DOMAIN queue', q \in DOMAIN wire' : queue'[p].block <= wire'[q].block
    BY <1>0, <2>2 DEF InOrder
  <2>8. pc' = "event" => /\ \A p \in DOMAIN queue' : msg'.block <= queue'[p].block
                         /\ \A p \in DOMAIN wire' : msg'.block <= wire'[p].block
    BY <1>0, <2>1, <2>2 DEF InOrder
  <2> QED
    BY <2>5, <2>6, <2>7, <2>8 DEF InOrder
<1>3. CASE PopEvent
  <2>1. wire' = wire
    BY <1>3 DEF PopEvent
  <2>2. /\ 1 \in DOMAIN queue /\ msg' = queue[1]
        /\ \A p \in DOMAIN queue' : p + 1 \in DOMAIN queue /\ queue'[p] = queue[p + 1]
    BY <1>0, <1>3, Popped
  <2>3. queue' \in Seq(Notices) /\ \A p \in DOMAIN queue' : p \in Nat \ {0}
    <3>1. queue' \in Seq(Notices)
      BY StepIInv DEF IInv, TypeOK
    <3> QED
      BY <3>1
  <2>4. \A p, q \in DOMAIN queue' : p <= q => queue'[p].block <= queue'[q].block
    <3> SUFFICES ASSUME NEW p \in DOMAIN queue', NEW q \in DOMAIN queue', p <= q
                 PROVE  queue'[p].block <= queue'[q].block
      OBVIOUS
    <3>1. p + 1 \in DOMAIN queue /\ q + 1 \in DOMAIN queue /\ p + 1 <= q + 1
      BY <2>2, <2>3
    <3> QED
      BY <1>0, <2>2, <3>1 DEF InOrder
  <2>5. \A p \in DOMAIN queue : msg'.block <= queue[p].block
    BY <1>0, <2>2 DEF InOrder
  <2>6. \A p \in DOMAIN wire : msg'.block <= wire[p].block
    BY <1>0, <2>2 DEF InOrder
  <2> QED
    BY <1>0, <2>1, <2>2, <2>4, <2>5, <2>6 DEF InOrder
<1>4. CASE Crash
  BY <1>4 DEF Crash, Stop, InOrder
<1>5. CASE \/ FeedSubscribe \/ Boot \/ Connected \/ RecoverAll \/ RecoverTail \/ GapState \/ ScanCommit
           \/ ScanState \/ NoticeOverflow \/ AwaitEvent \/ Healthcheck \/ SaveEvent \/ EventState
           \/ UNCHANGED vars
  <2>1. UNCHANGED <<queue, wire>>
    BY <1>5 DEF FeedSubscribe, Boot, Connected, RecoverAll, RecoverTail, GapState, ScanCommit, ScanState,
       NoticeOverflow, AwaitEvent, Healthcheck, SaveEvent, EventState, vars, feedVars
  <2>2. pc' = "event" => pc = "event" /\ msg' = msg
    BY <1>0, <1>5, ReturnType DEF FeedSubscribe, Boot, Connected, RecoverAll, RecoverTail, GapState,
       ScanCommit, ScanState, NoticeOverflow, AwaitEvent, Healthcheck, SaveEvent, EventState, vars, watcher
  <2> QED
    BY <1>0, <2>1, <2>2 DEF InOrder
<1> QED
  BY <1>1, <1>2, <1>3, <1>4, <1>5, SteadySteps

(* The steps that write nothing durable and leave the chain alone. *)
LEMMA FateOfWatching ==
  ASSUME Steady, IInv, SteadyInv,
         \/ FeedSubscribe \/ Crash \/ Boot \/ Connected \/ GapState \/ ScanState
         \/ NoticeOverflow \/ AwaitEvent \/ Healthcheck \/ PopEvent \/ EventState \/ UNCHANGED vars
  PROVE  Fate'
<1>0. Fate /\ Connection /\ TypeOK /\ InOrder /\ Notified
  BY DEF SteadyInv, UnbrokenInv, IInv
<1>1. UNCHANGED <<onchain, start, stored, checkpoint, coverage>>
  BY DEF FeedSubscribe, Crash, Boot, Connected, GapState, ScanState, NoticeOverflow, AwaitEvent,
     Healthcheck, PopEvent, EventState, vars, chain, durable
<1> SUFFICES ASSUME NEW i \in Logs, Unread(i)' PROVE Within(i)'
  BY DEF Fate
<1>2. Unread(i) /\ Within(i)
  BY <1>0, <1>1 DEF Unread, Gapped, Fate
<1>3. checkpoint' # NoBlock => checkpoint' - LiveOverlap <= onchain'[i]
  BY <1>1, <1>2 DEF Within
<1>4. CASE Crash \/ Boot \/ Connected \/ NoticeOverflow
  <2>1. pc' \in {"down", "connect", "recover"}
    BY <1>4 DEF Crash, Stop, Boot, Connected, NoticeOverflow
  <2> QED
    BY <1>3, <2>1 DEF Within
<1>5. CASE PopEvent
  <2>1. /\ 1 \in DOMAIN queue /\ msg' = queue[1]
        /\ \A p \in DOMAIN queue : p = 1 \/ (p - 1 \in DOMAIN queue' /\ queue'[p - 1] = queue[p])
    BY <1>0, <1>5, Popped
  <2>2. pc = "get" /\ pc' = "event" /\ UNCHANGED <<wire, overflowed>>
    BY <1>5 DEF PopEvent
  <2>3. Waiting(i) => Held(i)'
    BY <2>1, <2>2 DEF Waiting, Held
  <2>4. Waiting(i) \/ Dropped(i)
    BY <1>2, <2>2 DEF Within, Held
  <2>5. Held(i)' \/ (overflowed' /\ msg'.block <= onchain'[i])
    BY <1>1, <2>1, <2>2, <2>3, <2>4 DEF Dropped
  <2> QED
    BY <1>3, <2>2, <2>5 DEF Within
<1>6. CASE FeedSubscribe \/ GapState \/ ScanState \/ AwaitEvent \/ Healthcheck \/ EventState \/ UNCHANGED vars
  <2>1. UNCHANGED <<queue, wire, overflowed>>
    BY <1>6 DEF FeedSubscribe, GapState, ScanState, AwaitEvent, Healthcheck, EventState, vars, feedVars
  <2>2. (Waiting(i) <=> Waiting(i)') /\ (Dropped(i) <=> Dropped(i)')
    BY <1>1, <2>1 DEF Waiting, Dropped
  <2>3. CASE FeedSubscribe \/ UNCHANGED vars
    <3>1. UNCHANGED <<pc, msg, range>>
      BY <2>3 DEF FeedSubscribe, vars, watcher
    <3> QED
      BY <1>1, <1>2, <2>1, <2>2, <3>1 DEF Within, Held
  <2>4. CASE GapState
    <3>1. pc = "gapState" /\ pc' = "scan" /\ range' = range
      BY <2>4 DEF GapState
    <3> QED
      BY <1>1, <1>2, <1>3, <2>2, <3>1 DEF Within, Held
  <2>5. CASE ScanState
    <3>1. pc = "scanState" /\ pc' \in {"loop", "overflow", "get"}
      BY <1>0, <2>5, ReturnType DEF ScanState
    <3>2. Waiting(i)' \/ Dropped(i)'
      BY <1>2, <2>2, <3>1 DEF Within, Held
    <3> QED
      BY <1>3, <3>1, <3>2 DEF Within, Held, Dropped
  <2>6. CASE AwaitEvent
    <3>1. pc \in {"loop", "overflow"} /\ ~overflowed /\ pc' = "get"
      BY <2>6 DEF AwaitEvent, PastReconnect
    <3> QED
      BY <1>2, <1>3, <2>2, <3>1 DEF Within, Held
  <2>7. CASE Healthcheck \/ EventState
    <3>1. (pc = "get" \/ pc = "eventState") /\ pc' = "loop"
      BY <2>7 DEF Healthcheck, EventState
    <3> QED
      BY <1>2, <1>3, <2>1, <2>2, <3>1 DEF Within, Held, Dropped
  <2> QED
    BY <1>6, <2>3, <2>4, <2>5, <2>6, <2>7
<1> QED
  BY <1>4, <1>5, <1>6

(* A notice that moves is still held, or it is dropped behind older ones. *)
LEMMA FateOfNotices ==
  ASSUME Steady, IInv, SteadyInv, FeedReceive
  PROVE  Fate'
<1>0. Fate /\ TypeOK /\ InOrder /\ Notified
  BY DEF SteadyInv, UnbrokenInv, IInv
<1>1. UNCHANGED <<onchain, start, stored, checkpoint, coverage, pc, msg, range>>
  BY DEF FeedReceive, chain, durable, watcher
<1>2. /\ 1 \in DOMAIN wire
      /\ \A p \in DOMAIN wire : p = 1 \/ (p - 1 \in DOMAIN wire' /\ wire'[p - 1] = wire[p])
      /\ \/ /\ overflowed' = overflowed
            /\ \A p \in DOMAIN queue : p \in DOMAIN queue' /\ queue'[p] = queue[p]
            /\ Len(queue) + 1 \in DOMAIN queue' /\ queue'[Len(queue) + 1] = wire[1]
         \/ overflowed' /\ queue' = queue /\ 1 \in DOMAIN queue
  BY <1>0, Received
<1>3. queue[1].block <= wire[1].block \/ 1 \notin DOMAIN queue
  BY <1>0, <1>2 DEF InOrder
<1>4. wire[1].block = onchain[wire[1].log]
  BY <1>0, <1>2 DEF Notified, Truthful
<1> SUFFICES ASSUME NEW i \in Logs, Unread(i)' PROVE Within(i)'
  BY DEF Fate
<1>5. Unread(i) /\ Within(i)
  BY <1>0, <1>1 DEF Unread, Gapped, Fate
<1>6. Dropped(i) => Dropped(i)'
  BY <1>1, <1>2 DEF Dropped
<1>7. Waiting(i) => Waiting(i)' \/ (wire[1].log = i /\ overflowed' /\ Dropped(i)')
  BY <1>1, <1>2, <1>3, <1>4 DEF Waiting, Dropped
<1>8. Held(i) => Held(i)' \/ (wire[1].log = i /\ overflowed' /\ Dropped(i)')
  BY <1>1, <1>7 DEF Held
<1>9. overflowed => overflowed'
  BY <1>2
<1>10. pc = "event" => msg.block <= wire[1].block
  BY <1>0, <1>2 DEF InOrder
<1> QED
  BY <1>1, <1>4, <1>5, <1>6, <1>8, <1>9, <1>10 DEF Within

(* A new log is announced; the others are where they were. *)
LEMMA FateOfMined ==
  ASSUME Steady, IInv, SteadyInv, Mine
  PROVE  Fate'
<1>0. Fate /\ TypeOK /\ Connection /\ Bounded /\ PhaseInv
  BY DEF SteadyInv, UnbrokenInv, IInv
<1>1. UNCHANGED <<start, stored, checkpoint, coverage, pc, msg, range, queue, overflowed, feed>>
  BY DEF Mine, durable, watcher
<1>2. PICK ids \in SUBSET {i \in Logs : onchain[i] = 0} :
        /\ onchain' = [i \in Logs |-> IF i \in ids THEN head + 1 ELSE onchain[i]]
        /\ \/ feed # "up" /\ wire' = wire
           \/ /\ \A p \in DOMAIN wire : p \in DOMAIN wire' /\ wire'[p] = wire[p]
              /\ \A p \in DOMAIN wire' : p \in DOMAIN wire
                   \/ \E i \in ids : wire'[p] = Notice(i, head + 1, FALSE) /\ p > Len(wire)
              /\ \A i \in ids : \E p \in DOMAIN wire' : wire'[p].log = i
  BY <1>0, Mined
<1> SUFFICES ASSUME NEW i \in Logs, Unread(i)' PROVE Within(i)'
  BY DEF Fate
<1>3. CASE i \notin ids
  <2>1. onchain'[i] = onchain[i]
    BY <1>2, <1>3
  <2>2. Unread(i) /\ Within(i)
    BY <1>0, <1>1, <2>1 DEF Unread, Gapped, Fate
  <2>3. \A p \in DOMAIN wire : p \in DOMAIN wire' /\ wire'[p] = wire[p]
    BY <1>2
  <2>4. (Held(i) => Held(i)') /\ (Dropped(i) => Dropped(i)')
    BY <1>1, <2>1, <2>3 DEF Held, Waiting, Dropped
  <2> QED
    BY <1>1, <2>1, <2>2, <2>4 DEF Within
<1>4. CASE i \in ids
  <2>1. onchain'[i] = head + 1 /\ head \in Nat
    BY <1>0, <1>2, <1>4 DEF TypeOK
  <2>2. pc \notin {"down", "connect"} => Held(i)'
    BY <1>0, <1>2, <1>4 DEF Connection, Held, Waiting
  <2>3. checkpoint # NoBlock => checkpoint - LiveOverlap <= head + 1
    BY <1>0, <2>1, ConfigTypes DEF Bounded, TypeOK, BlocksOrNone, NoBlock
  <2>4. pc \in {"gapState", "scan"} => range.first <= head + 1
    BY <1>0, <2>1 DEF Bounded, PhaseInv, TypeOK, Rows
  <2> QED
    BY <1>1, <2>1, <2>2, <2>3, <2>4 DEF Within
<1> QED
  BY <1>3, <1>4

(* The recovery's range takes in every unread log, or they are in its gap;  *)
(* its commit stores them; an event's commit passes none.                   *)
LEMMA FateOfScans ==
  ASSUME Steady, IInv, SteadyInv, RecoverAll \/ RecoverTail \/ ScanCommit \/ SaveEvent
  PROVE  Fate'
<1>0. /\ Fate /\ TypeOK /\ Connection /\ Notified /\ Bounded /\ PhaseInv /\ InOrder
      /\ head \in Nat /\ checkpoint \in Int /\ start \in Int
      /\ \A j \in Logs : onchain[j] \in Nat /\ onchain[j] <= head
  BY DEF SteadyInv, UnbrokenInv, IInv, TypeOK, Notified, BlocksOrNone, NoBlock
<1> SUFFICES ASSUME NEW i \in Logs, Unread(i)' PROVE Within(i)'
  BY DEF Fate
<1>1. CASE RecoverAll \/ RecoverTail
  <2>1. PICK first \in Nat :
          /\ start' <= first /\ first <= range'.first
          /\ first = start' \/ (checkpoint # NoBlock /\ first = checkpoint - LiveOverlap)
          /\ \/ Gapped' = Gapped /\ range'.first = first
             \/ Gapped' = Gapped \cup (first .. range'.first)
    BY <1>0, <1>1, RangeTaken DEF Steady
  <2>2. /\ start' \in Nat /\ (start # NoBlock => start' = start)
        /\ range'.first \in Nat /\ range'.last = Target(head)
        /\ pc' \in {"gapState", "scan"}
        /\ UNCHANGED <<onchain, checkpoint, stored>>
    BY <1>0, <1>1, RangeTaken DEF Steady, chain
  <2>3. range'.last = head
    BY <1>0, <2>2 DEF Steady, Target, Larger
  <2>4. start # NoBlock => Unread(i)
    BY <2>1, <2>2 DEF Unread
  <2>5. checkpoint # NoBlock => checkpoint - LiveOverlap <= onchain[i]
    BY <1>0, <2>4 DEF Bounded, Fate, Within
  <2>6. start' <= onchain[i] /\ onchain[i] \notin Gapped'
    BY <2>2 DEF Unread
  <2>7. first <= onchain[i]
    BY <2>1, <2>5, <2>6
  <2>8. range'.first <= onchain[i]
    BY <1>0, <2>1, <2>2, <2>6, <2>7
  <2> QED
    BY <1>0, <2>2, <2>3, <2>5, <2>8 DEF Within
<1>2. CASE ScanCommit
  <2>1. /\ Gapped' = Gapped /\ pc = "scan" /\ pc' = "scanState"
        /\ range.first \in Nat /\ range.last \in Nat /\ checkpoint' \in Nat
        /\ checkpoint' = range.last \/ (checkpoint' = checkpoint /\ checkpoint # NoBlock)
        /\ stored'[i] = IF range.first <= onchain[i] /\ onchain[i] <= range.last /\ onchain[i] # 0
                        THEN onchain[i] ELSE stored[i]
        /\ UNCHANGED <<onchain, start, queue, wire, overflowed>>
    BY <1>0, <1>2, Scanned DEF chain, feedVars
  <2>2. Unread(i) /\ ~(range.first <= onchain[i] /\ onchain[i] <= range.last)
    BY <2>1 DEF Unread
  <2>3. Within(i)
    BY <1>0, <2>2 DEF Fate
  <2>4. range.last < onchain[i] /\ (Waiting(i) \/ Dropped(i))
    BY <1>0, <2>1, <2>2, <2>3 DEF Within, Held
  <2>5. checkpoint' - LiveOverlap <= onchain[i]
    BY <1>0, <2>1, <2>3, <2>4, ConfigTypes DEF Within
  <2>6. Waiting(i)' \/ Dropped(i)'
    BY <2>1, <2>4 DEF Waiting, Dropped
  <2> QED
    BY <2>1, <2>5, <2>6 DEF Within, Held
<1>3. CASE SaveEvent
  <2>1. /\ Gapped' = Gapped /\ pc = "event" /\ pc' = "eventState"
        /\ msg.block \in Nat /\ msg.log \in Logs /\ checkpoint \in Nat /\ checkpoint' \in Nat
        /\ checkpoint' = Larger(msg.block, checkpoint)
        /\ stored' = [stored EXCEPT ![msg.log] = msg.block]
        /\ UNCHANGED <<onchain, start, queue, wire, overflowed, msg>>
    BY <1>0, <1>3, Saved DEF chain, feedVars
  <2>2. msg.block = onchain[msg.log]
    BY <1>0, <2>1 DEF Notified, Truthful
  <2>3. i # msg.log /\ Unread(i)
    BY <1>0, <2>1, <2>2 DEF Unread, TypeOK
  <2>4. Within(i)
    BY <1>0, <2>3 DEF Fate
  <2>5. Waiting(i) \/ (overflowed /\ msg.block <= onchain[i])
    BY <2>1, <2>3, <2>4 DEF Within, Held
  <2>6. Waiting(i) => msg.block <= onchain[i]
    BY <1>0, <2>1 DEF Waiting, InOrder, Notified, Truthful
  <2>7. checkpoint' - LiveOverlap <= onchain[i]
    <3>1. checkpoint - LiveOverlap <= onchain[i]
      BY <2>1, <2>4 DEF Within, NoBlock
    <3> QED
      BY <1>0, <2>1, <2>5, <2>6, <3>1, ConfigTypes DEF Larger
  <2>8. Waiting(i)' \/ overflowed'
    BY <2>1, <2>5 DEF Waiting
  <2> QED
    BY <2>1, <2>7, <2>8 DEF Within, Held
<1> QED
  BY <1>1, <1>2, <1>3

LEMMA FateStep ==
  ASSUME Steady, IInv, SteadyInv, [Next]_vars
  PROVE  Fate'
BY SteadySteps, FateOfWatching, FateOfNotices, FateOfMined, FateOfScans

(* A log no later recovery reads again is stored or in a recorded gap:      *)
(* crashes, restarts, a full queue and the bounded recovery lose none       *)
(* without a row that says so.                                              *)
THEOREM NothingIsSilentlyMissing ==
  ASSUME Steady
  PROVE  Spec => []NothingSilentlyMissing
<1>1. Init => IInv /\ SteadyInv
  <2> SUFFICES ASSUME Init PROVE IInv /\ SteadyInv
    OBVIOUS
  <2>1. Connection /\ InOrder
    BY DEF Init, Steady, Connection, InOrder
  <2>2. Fate
    BY DEF Init, Fate, Unread
  <2> QED
    BY <2>1, <2>2, InitIInv, InitUnbroken DEF Steady, SteadyInv
<1>2. IInv /\ SteadyInv /\ [Next]_vars => (IInv /\ SteadyInv)'
  <2> SUFFICES ASSUME IInv, SteadyInv, [Next]_vars PROVE IInv' /\ SteadyInv'
    OBVIOUS
  <2>1. UnbrokenInv'
    BY NotifiedStep, BoundedStep, AccountedStep DEF Steady, SteadyInv, UnbrokenInv
  <2> QED
    BY <2>1, StepIInv, ConnectionStep, InOrderStep, FateStep DEF SteadyInv
<1>3. IInv /\ SteadyInv => NothingSilentlyMissing
  <2> SUFFICES ASSUME IInv, SteadyInv, NEW i \in Logs, onchain[i] # 0, Settled(onchain[i])
               PROVE  stored[i] = onchain[i] \/ onchain[i] \in Gapped
    BY DEF NothingSilentlyMissing
  <2>1. /\ checkpoint # NoBlock /\ onchain[i] < checkpoint - LiveOverlap /\ onchain[i] >= start
        /\ start # NoBlock /\ checkpoint \in Int /\ onchain[i] \in Nat
    BY DEF Settled, SteadyInv, UnbrokenInv, Bounded, IInv, TypeOK, BlocksOrNone, NoBlock
  <2>2. Unread(i) => checkpoint - LiveOverlap <= onchain[i]
    BY <2>1 DEF SteadyInv, Fate, Within
  <2> QED
    BY <2>1, <2>2, ConfigTypes DEF Unread
<1> QED
  BY <1>1, <1>2, <1>3, PTL DEF Spec

------------------------------------------------------------------------------
(***************************************************************************)
(* The market task.                                                        *)
(***************************************************************************)

(* Calls the target at the head of the pass may have sent. *)
Sent == CASE step = "market" -> 2 [] step = "static" -> 4 [] OTHER -> 0

(* What a pass may still spend shrinks as it goes: every target left in it *)
(* has its four calls in hand.                                             *)
BudgetHeld ==
  /\ minuteCalls < MinuteLimit + 4 * (PassLimit - Len(batch)) + Sent
  /\ dayCalls < DailyLimit + 4 * (PassLimit - Len(batch)) + Sent

(* The targets of a pass are different ones, and none of them is settled.  *)
BatchOpen ==
  /\ \A i \in 1 .. Len(batch) : status[batch[i]] = "pending"
  /\ \A i, j \in 1 .. Len(batch) : i < j => batch[i] # batch[j]

MarketInv == MarketTypeOK /\ BudgetHeld /\ BatchOpen

(* The limits are positive numbers. *)
LEMMA MarketConstants ==
  /\ MinuteLimit \in Nat /\ MinuteLimit >= 1 /\ DailyLimit \in Nat /\ DailyLimit >= 1
  /\ PassLimit \in Nat /\ PassLimit >= 1 /\ MaxLaunch \in Nat /\ MaxTime \in Nat /\ MaxMishaps \in Nat
BY MarketConfig

(* quote_decimals and supply: at most two calls, whatever is kept. *)
LEMMA MissingSize ==
  Cardinality(Missing) \in 0 .. 2
<1> DEFINE pair == {Quote, Head(batch)[1]}
<1>1. IsFiniteSet({Quote}) /\ Cardinality({Quote}) = 1
  BY FS_Singleton
<1>2. pair = {Quote} \cup {Head(batch)[1]}
  OBVIOUS
<1>3. IsFiniteSet(pair) /\ (Cardinality(pair) = 1 \/ Cardinality(pair) = 2)
  BY <1>1, <1>2, FS_AddElement
<1>4. Missing \subseteq pair
  BY DEF Missing
<1>5. IsFiniteSet(Missing) /\ Cardinality(Missing) <= Cardinality(pair)
  BY <1>3, <1>4, FS_Subset
<1>6. Cardinality(Missing) \in Nat
  BY <1>5, FS_CardinalityType
<1> QED
  BY <1>3, <1>5, <1>6

(* The next target of a pass: the rest of the batch, or the end. *)
LEMMA AdvanceFacts ==
  ASSUME MarketTypeOK, step # "idle", Advance
  PROVE  /\ batch # <<>> /\ Len(batch) >= 1 /\ Head(batch) = batch[1] /\ Head(batch) \in Targets
         /\ batch' \in Seq(Targets) /\ Len(batch') = Len(batch) - 1
         /\ \A i \in 1 .. Len(batch') : batch'[i] = batch[i + 1]
         /\ step' \in {"idle", "ask"} /\ (step' = "idle" <=> batch' = <<>>)
<1>1. batch \in Seq(Targets) /\ batch # <<>>
  BY DEF MarketTypeOK
<1>2. Len(batch) \in Nat /\ Len(batch) >= 1 /\ Head(batch) = batch[1] /\ Head(batch) \in Targets
  BY <1>1, LenProperties, HeadTailProperties, EmptySeq
<1>3. batch' = Tail(batch) /\ step' = IF Len(batch) = 1 THEN "idle" ELSE "ask"
  BY DEF Advance
<1>4. /\ batch' \in Seq(Targets) /\ Len(batch') = Len(batch) - 1
      /\ \A i \in 1 .. Len(batch') : batch'[i] = batch[i + 1]
  BY <1>1, <1>3, HeadTailProperties
<1>5. batch' = <<>> <=> Len(batch) = 1
  BY <1>2, <1>4, EmptySeq
<1> QED
  BY <1>1, <1>2, <1>3, <1>4, <1>5

(* Nothing is scheduled, no call is sent. *)
LEMMA MarketInitInv == MarketInit => MarketInv
<1> SUFFICES ASSUME MarketInit PROVE MarketInv
  OBVIOUS
<1> USE MarketConstants DEF MarketInit
<1>1. MarketTypeOK
  <2>1. batch \in Seq(Targets) /\ Len(batch) = 0
    OBVIOUS
  <2>2. rows \in [Launches -> 0 .. MaxTime \cup {Never}]
    OBVIOUS
  <2>3. status \in [Targets -> Statuses]
    BY DEF Statuses
  <2> QED
    BY <2>1, <2>2, <2>3 DEF MarketTypeOK
<1>2. BudgetHeld /\ BatchOpen
  BY DEF BudgetHeld, BatchOpen, Sent
<1> QED
  BY <1>1, <1>2 DEF MarketInv

(* A new minute or day. *)
LEMMA ClockStep ==
  ASSUME MarketInv, Minute \/ Day
  PROVE  MarketInv'
<1> USE MarketConstants DEF MarketInv
<1>1. UNCHANGED <<store, task, mishaps>> /\ now' = (IF now < MaxTime THEN now + 1 ELSE now)
  BY DEF Minute, Day, Tick
<1>2. minuteCalls' = 0 /\ (dayCalls' = dayCalls \/ dayCalls' = 0)
  BY DEF Minute, Day, Tick
<1>3. MarketTypeOK'
  <2>1. now' \in 0 .. MaxTime
    BY <1>1 DEF MarketTypeOK
  <2>2. {minuteCalls', dayCalls'} \subseteq Nat
    BY <1>2 DEF MarketTypeOK
  <2> QED
    BY <1>1, <2>1, <2>2 DEF MarketTypeOK, store, task
<1>4. BudgetHeld'
  <2>1. Len(batch) \in 0 .. PassLimit
    BY LenProperties DEF MarketTypeOK
  <2>2. batch' = batch /\ step' = step /\ Sent' = Sent /\ Sent \in {0, 2, 4}
    BY <1>1 DEF task, Sent
  <2> QED
    BY <1>2, <2>1, <2>2 DEF BudgetHeld
<1>5. BatchOpen'
  BY <1>1 DEF BatchOpen, task, store
<1> QED
  BY <1>3, <1>4, <1>5

(* A pass that is lost, with its process or by itself, leaves the bound.   *)
LEMMA PassLost ==
  ASSUME MarketInv, batch' = <<>>, step' = "idle", UNCHANGED calls
  PROVE  batch' \in Seq(Targets) /\ Len(batch') = 0 /\ BudgetHeld' /\ BatchOpen'
<1> USE MarketConstants DEF MarketInv
<1>1. batch' \in Seq(Targets) /\ Len(batch') = 0
  OBVIOUS
<1>2. Len(batch) \in 0 .. PassLimit /\ Sent \in {0, 2, 4} /\ (step = "idle" \/ Len(batch) >= 1)
  BY LenProperties, EmptySeq DEF MarketTypeOK, Sent
<1>3. Sent' = 0 /\ (step = "idle" => Sent = 0)
  BY DEF Sent
<1>4. minuteCalls' = minuteCalls /\ dayCalls' = dayCalls /\ minuteCalls \in Nat /\ dayCalls \in Nat
  BY DEF calls, MarketTypeOK
<1>5. BudgetHeld'
  BY <1>1, <1>2, <1>3, <1>4 DEF BudgetHeld
<1>6. BatchOpen'
  BY <1>1 DEF BatchOpen
<1> QED
  BY <1>1, <1>5, <1>6

(* A launch is stored: its row is dated once, its targets are scheduled or *)
(* were; what a pass holds stays pending.                                  *)
LEMMA StoreStep ==
  ASSUME MarketInv, NEW l \in Launches, Store(l),
         status' = Scheduled(l) \/ UNCHANGED status, UNCHANGED <<now, calls, static>>,
         \/ UNCHANGED <<task, mishaps>>
         \/ Fault /\ process' = "down" /\ worker' = "stopped" /\ batch' = <<>> /\ step' = "idle"
  PROVE  MarketInv'
<1> USE MarketConstants DEF MarketInv
<1>1. rows' \in [Launches -> 0 .. MaxTime \cup {Never}]
  BY DEF Store, MarketTypeOK
<1>2. status' \in [Targets -> Statuses] /\ \A t \in Targets : status[t] # "none" => status'[t] = status[t]
  BY DEF Scheduled, MarketTypeOK, Statuses
<1>3. mishaps' \in 0 .. MaxMishaps
  BY DEF Fault, MarketTypeOK
<1>4. CASE UNCHANGED <<task, mishaps>>
  <2>1. MarketTypeOK'
    BY <1>1, <1>2, <1>4 DEF MarketTypeOK, task, calls
  <2>2. BudgetHeld'
    BY <1>4 DEF BudgetHeld, Sent, task, calls
  <2>3. \A i \in 1 .. Len(batch) : batch[i] \in Targets
    BY ElementOfSeq DEF MarketTypeOK
  <2>4. BatchOpen'
    BY <1>2, <1>4, <2>3 DEF BatchOpen, task
  <2> QED
    BY <2>1, <2>2, <2>4
<1>5. CASE process' = "down" /\ worker' = "stopped" /\ batch' = <<>> /\ step' = "idle"
  <2>1. batch' \in Seq(Targets) /\ Len(batch') = 0 /\ BudgetHeld' /\ BatchOpen'
    BY <1>5, PassLost
  <2>2. MarketTypeOK'
    BY <1>1, <1>2, <1>3, <1>5, <2>1 DEF MarketTypeOK, calls
  <2> QED
    BY <2>1, <2>2
<1> QED
  BY <1>4, <1>5

(* The process dies or is started again. *)
LEMMA MarketProcessStep ==
  ASSUME MarketInv, ProcessDies \/ Start
  PROVE  MarketInv'
<1> USE MarketConstants DEF MarketInv
<1>1. CASE ProcessDies
  <2>1. batch' \in Seq(Targets) /\ Len(batch') = 0 /\ BudgetHeld' /\ BatchOpen'
    BY <1>1, PassLost DEF ProcessDies
  <2>2. MarketTypeOK'
    BY <1>1, <2>1 DEF ProcessDies, Fault, MarketTypeOK, calls, store
  <2> QED
    BY <2>1, <2>2
<1>2. CASE Start
  <2>1. UNCHANGED <<now, calls, store, batch, step, mishaps>> /\ process' = "up" /\ worker' = "running"
    BY <1>2 DEF Start
  <2>2. MarketTypeOK'
    BY <2>1 DEF MarketTypeOK, calls, store
  <2>3. BudgetHeld' /\ BatchOpen'
    BY <2>1 DEF BudgetHeld, BatchOpen, Sent, calls, store
  <2> QED
    BY <2>2, <2>3
<1> QED
  BY <1>1, <1>2

(* A pass begins only below both limits: what it may spend fits the bound. *)
LEMMA PickStep ==
  ASSUME MarketInv, Pick
  PROVE  MarketInv'
<1> USE MarketConstants DEF MarketInv
<1>1. PICK n \in 1 .. PassLimit : \E q \in [1 .. n -> Targets] : Oldest(q) /\ batch' = q
  BY DEF Pick
<1>2. PICK q \in [1 .. n -> Targets] : Oldest(q) /\ batch' = q
  BY <1>1
<1>3. n \in Nat /\ batch' \in Seq(Targets) /\ Len(batch') = n /\ DOMAIN batch' = 1 .. n
  BY <1>2
<1>4. batch' # <<>>
  BY <1>3, EmptySeq
<1>5. UNCHANGED <<now, calls, store, process, worker, mishaps>> /\ step' = "ask"
  BY DEF Pick
<1>6. MarketTypeOK'
  BY <1>3, <1>4, <1>5 DEF MarketTypeOK, calls, store
<1>7. BudgetHeld'
  <2>1. minuteCalls' < MinuteLimit /\ dayCalls' < DailyLimit
    BY DEF Pick, Allowed, calls
  <2>2. Sent' = 0
    BY <1>5 DEF Sent
  <2>3. minuteCalls' \in Nat /\ dayCalls' \in Nat
    BY <1>6 DEF MarketTypeOK
  <2> QED
    BY <1>3, <2>1, <2>2, <2>3 DEF BudgetHeld
<1>8. BatchOpen'
  <2>1. status' = status
    BY <1>5 DEF store
  <2>2. \A i \in DOMAIN q : IsDue(q[i])
    BY <1>2 DEF Oldest
  <2>3. \A i, j \in DOMAIN q : i < j => q[i] # q[j]
    BY <1>2 DEF Oldest
  <2>4. batch' = q /\ DOMAIN q = 1 .. Len(batch')
    BY <1>2, <1>3
  <2> QED
    BY <2>1, <2>2, <2>3, <2>4 DEF BatchOpen, IsDue
<1> QED
  BY <1>6, <1>7, <1>8

(* Calls are sent: two for the market, then those of the static answers    *)
(* not kept yet.                                                           *)
LEMMA CallStep ==
  ASSUME MarketInv, Ask \/ MarketAnswered
  PROVE  MarketInv'
<1> USE MarketConstants DEF MarketInv
<1>1. UNCHANGED <<now, store, process, worker, batch, mishaps>>
  BY DEF Ask, MarketAnswered
<1>2. PICK n \in 0 .. 2 : CallsSent(n)
  BY MissingSize DEF Ask, MarketAnswered
<1>3. /\ minuteCalls' = minuteCalls + n /\ dayCalls' = dayCalls + n
      /\ minuteCalls \in Nat /\ dayCalls \in Nat
  BY <1>2 DEF CallsSent, MarketTypeOK
<1>4. step # "idle" /\ step' \in {"market", "static"} /\ Sent' = Sent + 2 /\ Sent \in {0, 2}
  BY DEF Ask, MarketAnswered, Sent
<1>5. MarketTypeOK'
  BY <1>1, <1>3, <1>4 DEF MarketTypeOK, store
<1>6. BudgetHeld'
  <2>1. Len(batch) \in Nat /\ batch' = batch
    BY <1>1, LenProperties DEF MarketTypeOK
  <2> QED
    BY <1>3, <1>4, <2>1 DEF BudgetHeld
<1>7. BatchOpen'
  BY <1>1 DEF BatchOpen, store
<1> QED
  BY <1>5, <1>6, <1>7
(* A target is left: measured, refused or for another pass. *)
LEMMA TargetLeft ==
  ASSUME MarketInv, step \in {"market", "static"}, Advance,
         UNCHANGED <<now, calls, rows, process, worker>>,
         \/ UNCHANGED status
         \/ \E s \in {"completed", "unavailable"} : status' = [status EXCEPT ![Head(batch)] = s],
         static' \subseteq static \cup Missing, mishaps' = mishaps \/ Fault
  PROVE  MarketInv'
<1> USE MarketConstants DEF MarketInv
<1>1. /\ Len(batch) >= 1 /\ Head(batch) = batch[1] /\ Head(batch) \in Targets
      /\ batch' \in Seq(Targets) /\ Len(batch') = Len(batch) - 1
      /\ \A i \in 1 .. Len(batch') : batch'[i] = batch[i + 1]
      /\ step' \in {"idle", "ask"} /\ (step' = "idle" <=> batch' = <<>>)
  BY AdvanceFacts
<1>2. Len(batch) \in Nat
  BY LenProperties DEF MarketTypeOK
<1>3. static' \subseteq Launches \cup {Quote}
  <2>1. Head(batch)[1] \in Launches
    BY <1>1 DEF Targets
  <2> QED
    BY <2>1 DEF MarketTypeOK, Missing
<1>4. status' \in [Targets -> Statuses]
  BY DEF MarketTypeOK, Statuses
<1>5. mishaps' \in 0 .. MaxMishaps
  BY DEF MarketTypeOK, Fault
<1>6. MarketTypeOK'
  BY <1>1, <1>2, <1>3, <1>4, <1>5 DEF MarketTypeOK, calls
<1>7. BudgetHeld'
  <2>1. Sent \in {0, 2, 4} /\ Sent' = 0
    BY <1>1 DEF Sent
  <2>2. minuteCalls' = minuteCalls /\ dayCalls' = dayCalls /\ minuteCalls \in Nat /\ dayCalls \in Nat
    BY DEF calls, MarketTypeOK
  <2> QED
    BY <1>1, <1>2, <2>1, <2>2 DEF BudgetHeld
<1>8. BatchOpen'
  <2>1. \A i, j \in 1 .. Len(batch') : i < j => batch'[i] # batch'[j]
    <3>1. SUFFICES ASSUME NEW i \in 1 .. Len(batch'), NEW j \in 1 .. Len(batch'), i < j
                   PROVE  batch'[i] # batch'[j]
      OBVIOUS
    <3>2. i + 1 \in 1 .. Len(batch) /\ j + 1 \in 1 .. Len(batch) /\ i + 1 < j + 1
      BY <1>1, <1>2, <3>1
    <3>3. batch[i + 1] # batch[j + 1]
      BY <3>2 DEF BatchOpen
    <3> QED
      BY <1>1, <3>3
  <2>2. \A i \in 1 .. Len(batch') : status'[batch'[i]] = "pending"
    <3>1. SUFFICES ASSUME NEW i \in 1 .. Len(batch') PROVE status'[batch'[i]] = "pending"
      OBVIOUS
    <3>2. i + 1 \in 1 .. Len(batch) /\ 1 \in 1 .. Len(batch) /\ 1 < i + 1
      BY <1>1, <1>2
    <3>3. batch'[i] = batch[i + 1] /\ batch[i + 1] # batch[1] /\ status[batch[i + 1]] = "pending"
      BY <1>1, <3>2 DEF BatchOpen
    <3>4. status'[batch[i + 1]] = status[batch[i + 1]]
      <4>1. batch[i + 1] \in Targets
        BY <3>2, ElementOfSeq DEF MarketTypeOK
      <4> QED
        BY <1>1, <3>3, <4>1 DEF MarketTypeOK
    <3> QED
      BY <3>3, <3>4
  <2> QED
    BY <2>1, <2>2 DEF BatchOpen
<1> QED
  BY <1>6, <1>7, <1>8

(* A target of the batch is measured, left, refused, or the task dies. *)
LEMMA PassEnds ==
  ASSUME MarketInv, Measured \/ Retry \/ Unavailable \/ Die
  PROVE  MarketInv'
<1>1. CASE Measured
  BY <1>1, TargetLeft DEF Measured
<1>2. CASE Retry
  <2>1. static' \subseteq static \cup Missing
    BY <1>2 DEF Retry
  <2> QED
    BY <1>2, <2>1, TargetLeft DEF Retry
<1>3. CASE Unavailable
  BY <1>3, TargetLeft DEF Unavailable
<1>4. CASE Die
  <2>1. batch' \in Seq(Targets) /\ Len(batch') = 0 /\ BudgetHeld' /\ BatchOpen'
    BY <1>4, PassLost DEF Die
  <2>2. MarketTypeOK'
    BY <1>4, <2>1, MarketConstants DEF Die, Fault, MarketInv, MarketTypeOK, calls, store
  <2> QED
    BY <2>1, <2>2 DEF MarketInv
<1> QED
  BY <1>1, <1>2, <1>3, <1>4

(* Every step keeps the invariant. *)
LEMMA MarketNextInv == MarketInv /\ [MarketNext]_marketVars => MarketInv'
<1> SUFFICES ASSUME MarketInv, [MarketNext]_marketVars PROVE MarketInv'
  OBVIOUS
<1>1. CASE Minute \/ Day
  BY <1>1, ClockStep
<1>2. CASE \E l \in Launches : LaunchEvent(l) \/ EventCut(l) \/ RecoverRow(l)
  <2>1. PICK l \in Launches : LaunchEvent(l) \/ EventCut(l) \/ RecoverRow(l)
    BY <1>2
  <2>2. CASE LaunchEvent(l)
    BY <2>2, StoreStep DEF LaunchEvent
  <2>3. CASE EventCut(l)
    BY <2>3, StoreStep DEF EventCut
  <2>4. CASE RecoverRow(l)
    BY <2>4, StoreStep DEF RecoverRow
  <2> QED
    BY <2>1, <2>2, <2>3, <2>4
<1>3. CASE ProcessDies \/ Start
  BY <1>3, MarketProcessStep
<1>4. CASE Pick
  BY <1>4, PickStep
<1>5. CASE Ask \/ MarketAnswered
  BY <1>5, CallStep
<1>6. CASE Measured \/ Retry \/ Unavailable \/ Die
  BY <1>6, PassEnds
<1>7. CASE UNCHANGED marketVars
  BY <1>7 DEF MarketInv, MarketTypeOK, BudgetHeld, BatchOpen, Sent, marketVars, calls, store, task
<1> QED
  BY <1>1, <1>2, <1>3, <1>4, <1>5, <1>6, <1>7 DEF MarketNext

(* The inductive invariant: types, what a pass may still spend, and that a *)
(* pass holds different, open targets.                                     *)
THEOREM MarketInvariant == MarketSpec => []MarketInv
BY MarketInitInv, MarketNextInv, PTL DEF MarketSpec

(* Every variable keeps its type; in particular a pass at work has a       *)
(* target in hand and an idle task has none (MarketWorker.run).            *)
THEOREM MarketTypeCorrect == MarketSpec => []MarketTypeOK
<1>1. MarketInv => MarketTypeOK
  BY DEF MarketInv
<1> QED
  BY <1>1, MarketInvariant, PTL

(* The limits of a minute and of a day are exceeded by less than the calls *)
(* of one pass, whatever the limits, the size of a pass and the faults     *)
(* (allowed is read once, before the targets of MarketWorker.run).         *)
THEOREM BudgetIsBounded == MarketSpec => []BudgetBounded
<1>1. MarketInv => BudgetBounded
  <2> SUFFICES ASSUME MarketInv PROVE BudgetBounded
    OBVIOUS
  <2>1. Len(batch) \in 0 .. PassLimit /\ Sent \in {0, 2, 4} /\ (step = "idle" \/ Len(batch) >= 1)
    BY LenProperties, EmptySeq DEF MarketInv, MarketTypeOK, Sent
  <2>2. step = "idle" => Sent = 0
    BY DEF Sent
  <2>3. minuteCalls \in Nat /\ dayCalls \in Nat
    BY DEF MarketInv, MarketTypeOK
  <2> QED
    BY <2>1, <2>2, <2>3, MarketConstants DEF MarketInv, BudgetHeld, BudgetBounded, PassCalls
<1> QED
  BY <1>1, MarketInvariant, PTL

(* No step takes an outcome back: only a target of the pass at work is     *)
(* settled, and a pass holds open targets only; scheduling again leaves    *)
(* what is there (INSERT OR IGNORE, finish_market_target).                 *)
THEOREM OutcomesAreFinal == MarketSpec => OutcomesFinal
<1> DEFINE Judged(t) == status[t] \in {"completed", "unavailable"}
           Final == \A t \in Targets : Judged(t) => status'[t] = status[t]
<1>1. ASSUME MarketInv, MarketNext PROVE Final
  <2> SUFFICES ASSUME NEW t \in Targets, Judged(t) PROVE status'[t] = status[t]
    OBVIOUS
  <2> USE <1>1 DEF MarketInv, MarketTypeOK
  <2>1. CASE Minute \/ Day \/ ProcessDies \/ Start \/ Pick \/ Ask \/ MarketAnswered \/ Retry \/ Die
    BY <2>1 DEF Minute, Day, Tick, ProcessDies, Start, Pick, Ask, MarketAnswered, Retry, Die, store
  <2>2. CASE \E l \in Launches : LaunchEvent(l) \/ EventCut(l) \/ RecoverRow(l)
    BY <2>2 DEF LaunchEvent, EventCut, RecoverRow, Scheduled
  <2>3. CASE Measured \/ Unavailable
    <3>1. step # "idle" /\ Advance
      BY <2>3 DEF Measured, Unavailable
    <3>2. Head(batch) = batch[1] /\ Len(batch) >= 1 /\ Head(batch) \in Targets
      BY <3>1, AdvanceFacts
    <3>3. status[Head(batch)] = "pending"
      <4>1. Len(batch) \in Nat
        BY LenProperties
      <4> QED
        BY <3>2, <4>1 DEF BatchOpen
    <3> QED
      BY <2>3, <3>2, <3>3 DEF Measured, Unavailable
  <2> QED
    BY <1>1, <2>1, <2>2, <2>3 DEF MarketNext
<1>2. ASSUME MarketInv, [MarketNext]_marketVars PROVE [Final]_marketVars
  BY <1>1, <1>2
<1>3. MarketInv /\ [MarketNext]_marketVars => [Final]_marketVars
  BY <1>2
<1> QED
  BY <1>3, MarketInvariant, PTL DEF MarketSpec, OutcomesFinal
=============================================================================
