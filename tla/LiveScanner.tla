----------------------------- MODULE LiveScanner -----------------------------
(***************************************************************************)
(* The base scanner in its default transport, LIVE_TRANSPORT_MODE=ws_first *)
(* (app/block_watcher.py run_ws_first and what it calls, app/heads.py      *)
(* HeadFeed, the durable part of app/database.py it writes).               *)
(*                                                                         *)
(* Three actors share a process: the provider's chain, the feed task that  *)
(* turns subscription notices into a bounded queue, and the watcher task.  *)
(* Only an await lets the others run, so a watcher step is the code from   *)
(* one await, or one commit, to the next; a crash may fall between any two *)
(* commits.  A log is a model value: one (tx_hash, log_index) identity.    *)
(* A range scan reads the logs between two equal reads of its last block's *)
(* hash, so it sees the chain of the instant it commits (hashes are never  *)
(* reused); headers, which only decide whether a scan fails, are left to   *)
(* module HttpScanner: here any scan may fail.                             *)
(***************************************************************************)
EXTENDS Integers, Sequences, FiniteSets, Coverage

CONSTANTS
  Logs,                \* the launch and graduation logs the chain may emit
  Confirmations,       \* CONFIRMATIONS
  LiveOverlap,         \* LIVE_START_OVERLAP_BLOCKS
  StartupRecoveryMax,  \* LIVE_MAX_STARTUP_RECOVERY_BLOCKS
  RecoveryMax,         \* LIVE_MAX_RECOVERY_BLOCKS
  QueueSize,           \* asyncio.Queue(maxsize=1024)
  MaxBlock,            \* bound: the last block the chain reaches
  MaxPerBlock,         \* bound: logs in one block
  MaxCrashes,          \* bound: kills of the process
  MaxDrops,            \* bound: lost connections, and connects that time out
  MaxFailures,         \* bound: RPC or decoding failures of the watcher
  MaxReorgs,           \* bound: replacements of the head block
  MaxFaults,           \* bound: crashes, drops, failures and reorgs together
  RpcLag               \* bound: blocks the HTTP head is behind the subscription

ASSUME LiveConfig ==
  /\ {Confirmations, LiveOverlap, StartupRecoveryMax, RecoveryMax} \subseteq Nat
  /\ Confirmations <= LiveOverlap
  /\ LiveOverlap <= RecoveryMax /\ LiveOverlap <= StartupRecoveryMax
  /\ QueueSize \in Nat \ {0} /\ MaxBlock \in Nat \ {0}
  /\ {MaxPerBlock, MaxCrashes, MaxDrops, MaxFailures, MaxReorgs, MaxFaults, RpcLag} \subseteq Nat

VARIABLES
  head, onchain,                            \* the provider's canonical chain
  feed, wire, queue, overflowed, unseen,    \* HeadFeed; unseen: connections > feed_connections
  pc, recovery, range, msg,                 \* the watcher task
  checkpoint, start, segment, coverage, stored,   \* scanner.db
  left                                      \* faults the run may still inject

chain == <<head, onchain>>
feedVars == <<feed, wire, queue, overflowed, unseen>>
watcher == <<pc, recovery, range, msg>>
durable == <<checkpoint, start, segment, coverage, stored>>
vars == <<chain, feedVars, watcher, durable, left>>

NoBlock == -1        \* a missing chain_state row, and live_segment_start = ""
GapKinds == {"startup-gap", "ws-gap", "ws-queue-gap", "ws-reorg-gap"}
Kinds == GapKinds \cup {"live"}
Notices == [log : Logs, block : Nat, removed : BOOLEAN]
NoNotice == [log |-> NoBlock, block |-> 0, removed |-> FALSE]
NoRange == Row(0, 0)

Larger(a, b) == IF a >= b THEN a ELSE b
LogsIn(f, l) == {i \in Logs : onchain[i] # 0 /\ f <= onchain[i] /\ onchain[i] <= l}
Notice(i, b, gone) == [log |-> i, block |-> b, removed |-> gone]

(* save_range raises when a stored identity reappears in another block. *)
Moved(i, b) == stored[i] \notin {0, b}

Covered == Blocks(coverage["live"])
Gapped == UNION {Blocks(coverage[k]) : k \in GapKinds}

Init ==
  /\ head = 1 /\ onchain = [i \in Logs |-> 0]
  /\ feed = "idle" /\ wire = <<>> /\ queue = <<>> /\ overflowed = FALSE /\ unseen = FALSE
  /\ pc = "down" /\ recovery = "startup-gap" /\ range = NoRange /\ msg = NoNotice
  /\ checkpoint = NoBlock /\ start = NoBlock /\ segment = NoBlock
  /\ coverage = [k \in Kinds |-> {}] /\ stored = [i \in Logs |-> 0]
  /\ left = [crashes |-> MaxCrashes, drops |-> MaxDrops,
             failures |-> MaxFailures, reorgs |-> MaxReorgs, all |-> MaxFaults]

Spend(fault) ==
  /\ left[fault] > 0 /\ left["all"] > 0
  /\ left' = [f \in DOMAIN left |-> IF f \in {fault, "all"} THEN left[f] - 1 ELSE left[f]]
------------------------------------------------------------------------------
(* The chain, and the notices a live subscription is sent. *)

(* The logs of one block in log order: no repetition. *)
BlockContents(ids) ==
  {s \in UNION {[1 .. n -> ids] : n \in 0 .. MaxPerBlock} :
     \A p, q \in DOMAIN s : s[p] = s[q] => p = q}
Announce(s, b, gone) == [p \in DOMAIN s |-> Notice(s[p], b, gone)]
Included(s) == {s[p] : p \in DOMAIN s}

Mine ==
  \E s \in BlockContents({i \in Logs : onchain[i] = 0}) :
    /\ head < MaxBlock
    /\ head' = head + 1
    /\ onchain' = [i \in Logs |-> IF i \in Included(s) THEN head + 1 ELSE onchain[i]]
    /\ wire' = IF feed = "up" THEN wire \o Announce(s, head + 1, FALSE) ELSE wire
    /\ UNCHANGED <<feed, queue, overflowed, unseen, watcher, durable, left>>

(* The head block is replaced: the subscription gets its logs again with    *)
(* removed=true, then the logs of the new block of that number.             *)
Reorg ==
  LET orphaned == {i \in Logs : onchain[i] = head} IN
  \E old \in BlockContents(orphaned),
     new \in BlockContents({i \in Logs : onchain[i] \in {0, head}}) :
    /\ orphaned # {} /\ Included(old) = orphaned
    /\ Spend("reorgs")
    /\ onchain' = [i \in Logs |-> IF i \in Included(new) THEN head
                                  ELSE IF i \in orphaned THEN 0 ELSE onchain[i]]
    /\ wire' = IF feed = "up"
               THEN wire \o Announce(old, head, TRUE) \o Announce(new, head, FALSE)
               ELSE wire
    /\ UNCHANGED <<head, feed, queue, overflowed, unseen, watcher, durable>>
------------------------------------------------------------------------------
(* HeadFeed.run *)

(* eth_subscribe is confirmed: connections += 1.  Notices start here. *)
FeedSubscribe ==
  /\ feed = "connecting"
  /\ feed' = "up" /\ unseen' = TRUE
  /\ UNCHANGED <<chain, wire, queue, overflowed, watcher, durable, left>>

(* events.put_nowait: a full queue drops the notice and raises the flag. *)
FeedReceive ==
  /\ feed = "up" /\ wire # <<>>
  /\ wire' = Tail(wire)
  /\ IF Len(queue) < QueueSize
     THEN queue' = Append(queue, Head(wire)) /\ UNCHANGED overflowed
     ELSE overflowed' = TRUE /\ UNCHANGED queue
  /\ UNCHANGED <<chain, feed, unseen, watcher, durable, left>>

(* The socket fails: back off and reconnect, or end the task when the       *)
(* retry budget is spent ("done").  Queued notices survive, in-flight ones  *)
(* do not.                                                                  *)
FeedDrop ==
  /\ feed = "up" /\ Spend("drops")
  /\ feed' \in {"connecting", "done"} /\ wire' = <<>>
  /\ UNCHANGED <<chain, queue, overflowed, unseen, watcher, durable>>
------------------------------------------------------------------------------
(* Process start and stop *)

(* Everything in memory is gone: the queue, the flags, the task. *)
Stop ==
  /\ pc' = "down" /\ recovery' = "startup-gap" /\ range' = NoRange /\ msg' = NoNotice
  /\ feed' = "idle" /\ wire' = <<>> /\ queue' = <<>>
  /\ overflowed' = FALSE /\ unseen' = FALSE

Crash ==
  /\ pc # "down" /\ Spend("crashes") /\ Stop
  /\ UNCHANGED <<chain, durable>>

(* main() and the top of run_ws_first: chain and deployment checked, feed   *)
(* task created; recovery starts only once the feed is connected.           *)
Boot ==
  /\ pc = "down"
  /\ pc' = "connect" /\ feed' = "connecting"
  /\ UNCHANGED <<chain, wire, queue, overflowed, unseen, recovery, range, msg, durable, left>>

Connected ==
  /\ pc = "connect" /\ feed = "up"
  /\ pc' = "recover" /\ recovery' = "startup-gap" /\ unseen' = FALSE
  /\ UNCHANGED <<chain, feed, wire, queue, overflowed, range, msg, durable, left>>

(* RpcError("Filtered WebSocket did not connect") ends the process. *)
ConnectTimeout ==
  /\ pc = "connect" /\ Stop
  /\ \/ feed = "connecting" /\ Spend("drops")
     \/ feed = "done" /\ UNCHANGED left
  /\ UNCHANGED <<chain, durable>>
------------------------------------------------------------------------------
(* ws_recover *)

(* The head rpc.head() answers with, and the bounds ws_recover derives. *)
Heads == {h \in 0 .. head : h >= head - RpcLag}
Target(h) == Larger(0, h - Confirmations)
StartBlock(target) == IF start = NoBlock THEN Larger(0, target - LiveOverlap) ELSE start
RecoverFirstUnbounded(target) ==   \* slip: live_start_block not a floor
  IF checkpoint = NoBlock THEN StartBlock(target) ELSE checkpoint - LiveOverlap
RecoverFirstNoOverlap(target) ==   \* slip: resume after the cursor
  IF checkpoint = NoBlock THEN StartBlock(target)
  ELSE Larger(StartBlock(target), checkpoint + 1)
RecoverFirst(target) ==
  IF checkpoint = NoBlock THEN StartBlock(target)
  ELSE Larger(StartBlock(target), checkpoint - LiveOverlap)
Limit == IF recovery = "startup-gap" THEN StartupRecoveryMax ELSE RecoveryMax
TooLong(target) == target - RecoverFirst(target) + 1 > Limit

(* Where run_ws_first goes on after a recovery that returned. *)
Resume == CASE recovery = "startup-gap" -> "loop"
            [] recovery = "ws-gap" -> "overflow"
            [] recovery = "ws-queue-gap" -> "get"
            [] recovery = "ws-reorg-gap" -> "loop"

Return == pc' = Resume /\ recovery' = "startup-gap" /\ range' = NoRange

(* A lagging RPC: nothing to scan yet. *)
RecoverNothing ==
  \E target \in {Target(h) : h \in Heads} :
    /\ pc = "recover" /\ target < RecoverFirst(target)
    /\ start' = StartBlock(target) /\ Return
    /\ UNCHANGED <<chain, feedVars, msg, checkpoint, segment, coverage, stored, left>>

RecoverAll ==
  \E target \in {Target(h) : h \in Heads} :
    /\ pc = "recover" /\ target >= RecoverFirst(target) /\ ~TooLong(target)
    /\ start' = StartBlock(target) /\ range' = Row(RecoverFirst(target), target)
    /\ pc' = "scan"
    /\ UNCHANGED <<chain, feedVars, recovery, msg, checkpoint, segment, coverage, stored, left>>

(* Slip: the skipped blocks are not recorded. *)
RecoverTailUnrecorded ==
  \E target \in {Target(h) : h \in Heads} :
    /\ pc = "recover" /\ target >= RecoverFirst(target) /\ TooLong(target)
    /\ start' = StartBlock(target) /\ pc' = "gapState"
    /\ range' = Row(Larger(StartBlock(target), target - LiveOverlap), target)
    /\ UNCHANGED <<chain, feedVars, recovery, msg, checkpoint, segment, coverage, stored, left>>

(* Too far behind: record the gap (a commit of its own), keep the tail.     *)
(* The limits are at least LiveOverlap, so the gap is never empty.          *)
RecoverTail ==
  \E target \in {Target(h) : h \in Heads} :
    LET first == RecoverFirst(target)
        skipped == Larger(first - 1, target - LiveOverlap)
    IN /\ pc = "recover" /\ target >= first /\ TooLong(target)
       /\ start' = StartBlock(target)
       /\ coverage' = [coverage EXCEPT ![recovery] = RecordCoverage(@, first, skipped)]
       /\ range' = Row(Larger(StartBlock(target), target - LiveOverlap), target)
       /\ pc' = "gapState"
       /\ UNCHANGED <<chain, feedVars, recovery, msg, checkpoint, segment, stored, left>>

(* The second commit of Watcher.record_gap: live_segment_start = "". *)
GapState ==
  /\ pc = "gapState"
  /\ segment' = NoBlock /\ pc' = "scan"
  /\ UNCHANGED <<chain, feedVars, recovery, range, msg, checkpoint, start, coverage, stored, left>>

(* process_range's one transaction: logs, coverage and cursor together. *)
ScanCommit ==
  LET found == LogsIn(range.first, range.last) IN
  /\ pc = "scan"
  /\ \A i \in found : ~Moved(i, onchain[i])
  /\ stored' = [i \in Logs |-> IF i \in found THEN onchain[i] ELSE stored[i]]
  /\ coverage' = [coverage EXCEPT !["live"] = RecordCoverage(@, range.first, range.last)]
  /\ checkpoint' = Larger(range.last, Larger(0, checkpoint))
  /\ pc' = "scanState"
  /\ UNCHANGED <<chain, feedVars, recovery, range, msg, start, segment, left>>

(* Slip: the segment starts after the observed head, not after the scan. *)
ScanStateAtHead ==
  /\ pc = "scanState"
  /\ segment' = head + 1 /\ Return
  /\ UNCHANGED <<chain, feedVars, msg, checkpoint, start, coverage, stored, left>>

ScanState ==
  /\ pc = "scanState"
  /\ segment' = range.last + 1 /\ Return
  /\ UNCHANGED <<chain, feedVars, msg, checkpoint, start, coverage, stored, left>>

(* An exception out of ws_recover: the startup recovery is outside the try  *)
(* and ends the process; the others are logged and the loop goes on.        *)
RecoveryRaises ==
  IF recovery = "startup-gap" THEN Stop
  ELSE /\ pc' = "loop" /\ recovery' = "startup-gap" /\ range' = NoRange
       /\ UNCHANGED <<feedVars, msg>>

RecoverFails ==
  /\ pc \in {"recover", "scan"} /\ Spend("failures") /\ RecoveryRaises
  /\ UNCHANGED <<chain, durable>>

ScanMoved ==
  /\ pc = "scan" /\ \E i \in LogsIn(range.first, range.last) : Moved(i, onchain[i])
  /\ RecoveryRaises
  /\ UNCHANGED <<chain, durable, left>>
------------------------------------------------------------------------------
(* The loop of run_ws_first *)

(* if self.feed.task.done(): a new feed task is created at the loop's top. *)
TaskRestarted == feed' = IF feed = "done" THEN "connecting" ELSE feed

(* feed_connections is brought up to date before the recovery is awaited. *)
NoticeReconnect ==
  /\ pc = "loop" /\ unseen /\ TaskRestarted
  /\ unseen' = FALSE /\ recovery' = "ws-gap" /\ pc' = "recover"
  /\ UNCHANGED <<chain, wire, queue, overflowed, range, msg, durable, left>>

PastReconnect ==
  \/ pc = "loop" /\ ~unseen /\ TaskRestarted
  \/ pc = "overflow" /\ UNCHANGED feed

(* Slip: the flag is cleared and the lost notices forgotten. *)
NoticeOverflowIgnored ==
  /\ PastReconnect /\ overflowed
  /\ overflowed' = FALSE /\ pc' = "get"
  /\ UNCHANGED <<chain, wire, queue, unseen, recovery, range, msg, durable, left>>

NoticeOverflow ==
  /\ PastReconnect /\ overflowed
  /\ overflowed' = FALSE /\ recovery' = "ws-queue-gap" /\ pc' = "recover"
  /\ UNCHANGED <<chain, wire, queue, unseen, range, msg, durable, left>>

AwaitEvent ==
  /\ PastReconnect /\ ~overflowed /\ pc' = "get"
  /\ UNCHANGED <<chain, wire, queue, overflowed, unseen, recovery, range, msg, durable, left>>

(* wait_for(events.get(), head_healthcheck) timed out: back to the top. *)
Healthcheck ==
  /\ pc = "get" /\ queue = <<>> /\ pc' = "loop"
  /\ UNCHANGED <<chain, feedVars, recovery, range, msg, durable, left>>

PopRemoved ==
  /\ pc = "get" /\ queue # <<>> /\ Head(queue).removed
  /\ queue' = Tail(queue) /\ recovery' = "ws-reorg-gap" /\ pc' = "recover"
  /\ UNCHANGED <<chain, feed, wire, overflowed, unseen, range, msg, durable, left>>

PopEvent ==
  /\ pc = "get" /\ queue # <<>> /\ ~Head(queue).removed
  /\ queue' = Tail(queue) /\ msg' = Head(queue) /\ pc' = "event"
  /\ UNCHANGED <<chain, feed, wire, overflowed, unseen, recovery, range, durable, left>>
------------------------------------------------------------------------------
(* process_ws_event *)

CoverageFirst ==
  IF segment = NoBlock \/ (checkpoint # NoBlock /\ msg.block <= checkpoint)
  THEN msg.block ELSE segment

(* Slip: the cursor is left to a later commit. *)
SaveEventWithoutCursor ==
  /\ pc = "event" /\ ~Moved(msg.log, msg.block)
  /\ stored' = [stored EXCEPT ![msg.log] = msg.block]
  /\ coverage' = [coverage EXCEPT !["live"] = RecordCoverage(@, CoverageFirst, msg.block)]
  /\ pc' = "eventState"
  /\ UNCHANGED <<chain, feedVars, recovery, range, msg, checkpoint, start, segment, left>>

SaveEvent ==
  /\ pc = "event" /\ ~Moved(msg.log, msg.block)
  /\ stored' = [stored EXCEPT ![msg.log] = msg.block]
  /\ coverage' = [coverage EXCEPT !["live"] = RecordCoverage(@, CoverageFirst, msg.block)]
  /\ checkpoint' = Larger(msg.block, Larger(0, checkpoint))
  /\ pc' = "eventState"
  /\ UNCHANGED <<chain, feedVars, recovery, range, msg, start, segment, left>>

EventState ==
  /\ pc = "eventState"
  /\ segment' = msg.block + 1 /\ msg' = NoNotice /\ pc' = "loop"
  /\ UNCHANGED <<chain, feedVars, recovery, range, checkpoint, start, coverage, stored, left>>

(* The except clause: "event held" is logged; the event has left the queue. *)
EventRaises ==
  /\ msg' = NoNotice /\ pc' = "loop"
  /\ UNCHANGED <<chain, feedVars, recovery, range, durable>>

EventFails == pc = "event" /\ Spend("failures") /\ EventRaises

EventMoved ==
  /\ pc = "event" /\ Moved(msg.log, msg.block) /\ EventRaises
  /\ UNCHANGED left
------------------------------------------------------------------------------
Feed == FeedSubscribe \/ FeedReceive \/ FeedDrop
Recover == RecoverNothing \/ RecoverAll \/ RecoverTail \/ GapState
             \/ ScanCommit \/ ScanState \/ RecoverFails \/ ScanMoved
Loop == NoticeReconnect \/ NoticeOverflow \/ AwaitEvent \/ Healthcheck
          \/ PopRemoved \/ PopEvent
Event == SaveEvent \/ EventState \/ EventFails \/ EventMoved

Next == Mine \/ Reorg \/ Feed \/ Crash \/ Boot \/ Connected \/ ConnectTimeout
          \/ Recover \/ Loop \/ Event

Spec == Init /\ [][Next]_vars

(* The provider answers, the socket library delivers, and the event loop    *)
(* runs a ready task; systemd starts a process that ended.                  *)
Fairness ==
  /\ WF_vars(FeedSubscribe) /\ WF_vars(FeedReceive)
  /\ WF_vars(Boot) /\ WF_vars(Connected)
  /\ WF_vars(Recover) /\ WF_vars(Loop) /\ WF_vars(Event)

FairSpec == Spec /\ Fairness
------------------------------------------------------------------------------
Rows == [first : Nat, last : Nat]
BlocksOrNone == Nat \cup {NoBlock}

TypeOK ==
  /\ head \in Nat /\ onchain \in [Logs -> Nat]
  /\ feed \in {"idle", "connecting", "up", "done"}
  /\ wire \in Seq(Notices) /\ queue \in Seq(Notices)
  /\ overflowed \in BOOLEAN /\ unseen \in BOOLEAN
  /\ pc \in {"down", "connect", "recover", "gapState", "scan", "scanState",
             "loop", "overflow", "get", "event", "eventState"}
  /\ recovery \in GapKinds /\ range \in Rows
  /\ msg \in Notices \cup {NoNotice}
  /\ checkpoint \in BlocksOrNone /\ start \in BlocksOrNone /\ segment \in BlocksOrNone
  /\ coverage \in [Kinds -> SUBSET Rows]
  /\ stored \in [Logs -> Nat]
  /\ left \in [{"crashes", "drops", "failures", "reorgs", "all"} -> Nat]

(* live_segment_start names the first block after a run of coverage: it is  *)
(* written in a commit of its own after the cursor, and a crash may leave   *)
(* it behind, but never past checkpoint + 1.  process_ws_event relies on it *)
(* when it starts a row there.                                              *)
SegmentBehindCheckpoint == segment # NoBlock => segment <= checkpoint + 1

(* The coverage table is canonical whatever fails: each row a non-empty     *)
(* interval, no two rows of a kind overlapping or adjacent, in any order of *)
(* recoveries, duplicate notices and crashes.                               *)
CoverageCanonical == \A k \in Kinds : WellFormed(coverage[k]) /\ Separated(coverage[k])

(* A stored log never outruns what the table claims: its block is covered   *)
(* and at or below the cursor, although logs, coverage and cursor are       *)
(* written by two different paths and a crash may follow each commit.       *)
StoredIsCovered ==
  \A i \in Logs : stored[i] # 0 => stored[i] \in Covered /\ stored[i] <= checkpoint

(* Blocks the next recovery will not look at again. *)
Settled(b) == checkpoint # NoBlock /\ b < checkpoint - LiveOverlap /\ b >= start

(* A log in a block no later recovery rescans is stored, or its block lies  *)
(* in a recorded gap: crashes, restarts, queue overflow and the bounded     *)
(* recovery never lose a log without a row that says so.                    *)
NothingSilentlyMissing ==
  \A i \in Logs : onchain[i] # 0 /\ Settled(onchain[i]) => stored[i] = onchain[i] \/ onchain[i] \in Gapped

(* Between live_start_block and the cursor every block is either covered or *)
(* in a recorded gap, also when a crash separates the gap row, the segment  *)
(* reset and the scan of the tail.                                          *)
EveryBlockAccounted ==
  checkpoint # NoBlock => \A b \in start .. checkpoint : b \in Covered \cup Gapped

(* The fate of a log of the selected live range, once it is decided. *)
Accounted(i) == stored[i] # 0 \/ onchain[i] \in Gapped

(* A notice the watcher has taken is settled: its log ends up stored, or    *)
(* its block in a gap, even if the process is killed while it handles it.   *)
EventSettled ==
  \A i \in Logs : pc = "event" /\ msg.log = i /\ msg.block >= start ~> Accounted(i)

(* An overflow is never forgotten: a log that was on chain when the queue   *)
(* dropped a notice is eventually stored or in a gap.                       *)
OverflowRepaired ==
  \A i \in Logs : overflowed /\ start # NoBlock /\ onchain[i] >= Larger(1, start) ~> Accounted(i)
==============================================================================
