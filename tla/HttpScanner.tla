----------------------------- MODULE HttpScanner -----------------------------
(***************************************************************************)
(* The base scanner with LIVE_TRANSPORT_MODE=http_complete                 *)
(* (app/block_watcher.py run, step, reconcile, process_range), the manual  *)
(* backfill that runs while the service is stopped, and the reorganisation *)
(* rollback of app/database.py.                                            *)
(*                                                                         *)
(* A block hash is <<number, branch>>, where the branch counts the         *)
(* reorganisations so far: a hash fixes every ancestor and never comes     *)
(* back.  The watcher awaits between its reads, so the chain moves between *)
(* the actions.  process_range reads the hash of its last block before and *)
(* after everything else and commits only if both agree: what it commits   *)
(* is the chain of the instant it commits, except for the stored headers   *)
(* it reuses.                                                              *)
(***************************************************************************)
EXTENDS Integers, FiniteSets, Coverage

CONSTANTS
  Logs,           \* the launch and graduation logs the chain may emit
  Confirmations,  \* CONFIRMATIONS
  LiveOverlap,    \* LIVE_START_OVERLAP_BLOCKS
  RecoveryMax,    \* LIVE_MAX_RECOVERY_BLOCKS
  Batch,          \* BATCH_BLOCKS
  Retention,      \* BLOCK_RETENTION
  ReorgDepth,     \* MAX_REORG_DEPTH
  RetryAttempts,  \* RPC_MAX_ATTEMPTS, of one call and of the watcher's loop alike
  MaxBlock,       \* bound: the last block the chain reaches
  MaxReorgs,      \* bound: reorganisations, of any depth
  MaxCrashes,     \* bound: kills of the process
  MaxFailures,    \* bound: failing calls
  MaxLags,        \* bound: head reads that lag
  RpcLag,         \* bound: blocks a lagging head is behind
  MaxLinks,       \* bound: connections of the feed
  MaxBackfills,   \* bound: manual backfill ranges
  MaxRestarts,    \* bound: operator restarts after exit 2 or 3
  MaxFaults       \* bound: all of these together

ASSUME HttpConfig ==
  /\ {Confirmations, LiveOverlap, RecoveryMax, Retention, ReorgDepth} \subseteq Nat
  /\ Confirmations <= LiveOverlap /\ LiveOverlap <= ReorgDepth
  /\ LiveOverlap <= RecoveryMax /\ ReorgDepth < Retention
  /\ {Batch, RetryAttempts, MaxBlock} \subseteq Nat \ {0}
  /\ {MaxReorgs, MaxCrashes, MaxFailures, MaxLags, RpcLag, MaxLinks, MaxBackfills,
      MaxRestarts, MaxFaults} \subseteq Nat

VARIABLES
  head, branch, onchain,                      \* the provider's canonical chain
  links, seenLinks,                           \* feed.connections, feed_connections
  pc, nextBlock, seenHead, probe, failures,   \* the watcher task
  checkpoint, start, headers, coverage, stored,   \* scanner.db
  exposed,   \* history: a window this design leaves open was hit (see Raced, Backfill)
  left       \* faults the run may still inject

chain == <<head, branch, onchain>>
feed == <<links, seenLinks>>
watcher == <<pc, nextBlock, seenHead, probe, failures>>
durable == <<checkpoint, start, headers, coverage, stored>>
vars == <<chain, feed, watcher, durable, exposed, left>>

NoBlock == -1
Numbers == 0 .. MaxBlock
Kinds == {"live", "backfill"}
Headers == [hash : 0 .. MaxReorgs, parent : 0 .. MaxReorgs]
NoHeader == [hash |-> NoBlock, parent |-> NoBlock]
(* Exit 2, exit 3 of the watcher's loop, exit 3 of a single call. *)
Stopped == {"deepReorg", "exhausted", "refused"}

Larger(a, b) == IF a >= b THEN a ELSE b
Smaller(a, b) == IF a <= b THEN a ELSE b
LogsIn(f, l) == {i \in Logs : onchain[i] # 0 /\ f <= onchain[i] /\ onchain[i] <= l}

(* What eth_getBlockByNumber answers. *)
BlockAt(n) == [hash |-> branch[n], parent |-> IF n = 0 THEN 0 ELSE branch[n - 1]]
Retained(n) == n \in Numbers /\ headers[n] # NoHeader

Spend(fault) ==
  /\ left[fault] > 0 /\ left["all"] > 0
  /\ left' = [left EXCEPT ![fault] = @ - 1, !["all"] = @ - 1]

Init ==
  /\ head = 1 /\ branch = [n \in Numbers |-> 0] /\ onchain = [i \in Logs |-> 0]
  /\ links = 0 /\ seenLinks = 0
  /\ pc = "down" /\ nextBlock = NoBlock /\ seenHead = 0 /\ probe = 0 /\ failures = 0
  /\ checkpoint = NoBlock /\ start = NoBlock
  /\ headers = [n \in Numbers |-> NoHeader]
  /\ coverage = [k \in Kinds |-> {}] /\ stored = [i \in Logs |-> 0]
  /\ exposed = FALSE
  /\ left = [reorgs |-> MaxReorgs, crashes |-> MaxCrashes, failures |-> MaxFailures,
             lags |-> MaxLags, backfills |-> MaxBackfills, restarts |-> MaxRestarts,
             links |-> MaxLinks, all |-> MaxFaults]
------------------------------------------------------------------------------
(* The chain *)

Tip == MaxReorgs - left.reorgs     \* the branch new blocks are built on

Mine ==
  \E mined \in SUBSET {i \in Logs : onchain[i] = 0} :
    /\ head < MaxBlock
    /\ head' = head + 1
    /\ branch' = [branch EXCEPT ![head + 1] = Tip]
    /\ onchain' = [i \in Logs |-> IF i \in mined THEN head + 1 ELSE onchain[i]]
    /\ UNCHANGED <<feed, watcher, durable, exposed, left>>

(* Blocks fork..head are replaced; their logs are mined again or not at all. *)
Reorg ==
  \E fork \in 1 .. head :
    LET orphaned == {i \in Logs : onchain[i] >= fork} IN
    \E again \in [orphaned -> {0} \cup fork .. head] :
      /\ Spend("reorgs")
      /\ branch' = [n \in Numbers |-> IF fork <= n /\ n <= head THEN Tip + 1 ELSE branch[n]]
      /\ onchain' = [i \in Logs |-> IF i \in orphaned THEN again[i] ELSE onchain[i]]
      /\ UNCHANGED <<head, feed, watcher, durable, exposed>>
------------------------------------------------------------------------------
(* Process start and stop *)

Exit(how) ==
  /\ pc' = how /\ nextBlock' = NoBlock /\ seenHead' = 0 /\ probe' = 0 /\ failures' = 0
  /\ links' = 0 /\ seenLinks' = 0

Crash ==
  /\ pc \notin Stopped \cup {"down"} /\ Spend("crashes") /\ Exit("down")
  /\ UNCHANGED <<chain, durable, exposed>>

(* Restart=on-failure *)
Boot ==
  /\ pc = "down" /\ pc' = "idle"
  /\ UNCHANGED <<chain, feed, nextBlock, seenHead, probe, failures, durable, exposed, left>>

(* RestartPreventExitStatus=2 3: only the operator starts it again. *)
OperatorRestart ==
  /\ pc \in Stopped /\ Spend("restarts")
  /\ pc' = "idle"
  /\ UNCHANGED <<chain, feed, nextBlock, seenHead, probe, failures, durable, exposed>>

(* The feed only wakes the loop and tells it of reconnections. *)
FeedConnect ==
  /\ pc = "idle" /\ nextBlock # NoBlock /\ Spend("links")
  /\ links' = links + 1
  /\ UNCHANGED <<chain, seenLinks, watcher, durable, exposed>>

(* The last except clause of run: retry, until the budget is spent (exit 3). *)
Fail ==
  IF failures + 1 >= RetryAttempts THEN Exit("exhausted")
  ELSE /\ failures' = failures + 1
       /\ pc' = "idle" /\ seenHead' = 0 /\ probe' = 0
       /\ UNCHANGED <<nextBlock, feed>>

Calling == pc \in {"idle", "check", "search", "range"}

(* An answer rpc.execute does not retry: RpcError reaches the loop at once. *)
CallFails ==
  /\ Calling /\ Spend("failures") /\ Fail
  /\ UNCHANGED <<chain, durable, exposed>>

(* A call refused (429, 5xx, transport) on each of its own attempts raises   *)
(* RetriesExhausted, which run re-raises: exit 3, whatever `failures` says.  *)
CallRefused ==
  /\ Calling /\ Spend("failures") /\ Exit("refused")
  /\ UNCHANGED <<chain, durable, exposed>>
------------------------------------------------------------------------------
(* step *)

StartBlock(h) == IF start = NoBlock THEN Larger(0, h - LiveOverlap) ELSE start
Rewound(h) ==
  IF checkpoint = NoBlock THEN StartBlock(h)
  ELSE Larger(StartBlock(h), checkpoint - LiveOverlap)
Reconnected == links > seenLinks /\ seenLinks # 0 /\ checkpoint # NoBlock
NextFirst(h) == IF nextBlock = NoBlock \/ Reconnected THEN Rewound(h) ELSE nextBlock
Target(h) == Larger(0, h - Confirmations)

(* The head, the live start, the rewind and the recovery bound: no await    *)
(* between them.                                                            *)
StepBegin ==
  \E h \in {n \in Numbers : n <= head /\ n >= head - RpcLag} :
    /\ pc = "idle"
    /\ IF h = head THEN UNCHANGED left ELSE Spend("lags")
    /\ start' = StartBlock(h)
    /\ IF Target(h) - NextFirst(h) + 1 > RecoveryMax
       THEN Exit("deepReorg")
       ELSE /\ nextBlock' = NextFirst(h) /\ seenLinks' = links
            /\ seenHead' = h /\ pc' = "check"
            /\ UNCHANGED <<links, probe, failures>>
    /\ UNCHANGED <<chain, checkpoint, headers, coverage, stored, exposed>>
------------------------------------------------------------------------------
(* reconcile *)

CheckAgrees ==
  /\ pc = "check"
  /\ checkpoint # NoBlock =>
       seenHead >= checkpoint /\ headers[checkpoint].hash = BlockAt(checkpoint).hash
  /\ pc' = "range"
  /\ UNCHANGED <<chain, feed, nextBlock, seenHead, probe, failures, durable, exposed, left>>

(* RpcError("RPC head is behind the stored checkpoint") *)
CheckLags ==
  /\ pc = "check" /\ checkpoint # NoBlock /\ seenHead < checkpoint
  /\ Fail
  /\ UNCHANGED <<chain, durable, exposed, left>>

CheckDiffers ==
  /\ pc = "check" /\ checkpoint # NoBlock /\ seenHead >= checkpoint
  /\ headers[checkpoint].hash # BlockAt(checkpoint).hash
  /\ pc' = "search" /\ probe' = checkpoint
  /\ UNCHANGED <<chain, feed, nextBlock, seenHead, failures, durable, exposed, left>>

(* Slip: MAX_REORG_DEPTH itself left out. *)
AncestorsShort ==
  {n \in Numbers : Retained(n) /\ n < probe /\ n > Larger(0, checkpoint - ReorgDepth)}
Ancestors ==
  {n \in Numbers : Retained(n) /\ n < probe /\ n >= Larger(0, checkpoint - ReorgDepth)}
NextAncestor == CHOOSE n \in Ancestors : \A m \in Ancestors : m <= n

SearchOn ==
  /\ pc = "search" /\ Ancestors # {}
  /\ BlockAt(NextAncestor).hash # headers[NextAncestor].hash
  /\ probe' = NextAncestor
  /\ UNCHANGED <<chain, feed, pc, nextBlock, seenHead, failures, durable, exposed, left>>

NoAncestor ==
  /\ pc = "search" /\ Ancestors = {}
  /\ Exit("deepReorg")
  /\ UNCHANGED <<chain, durable, exposed, left>>

Found(n) ==
  /\ pc = "search" /\ Ancestors # {} /\ n = NextAncestor
  /\ BlockAt(n).hash = headers[n].hash

(* DeepReorg("Reorg predates live coverage") *)
AncestorBelowStart ==
  /\ \E n \in Ancestors : Found(n) /\ n < start
  /\ Exit("deepReorg")
  /\ UNCHANGED <<chain, durable, exposed, left>>

(* Slip: the orphaned logs stay. *)
RollBackKeepsLogs ==
  \E n \in Ancestors :
    /\ Found(n) /\ n >= start
    /\ headers' = [m \in Numbers |-> IF m > n THEN NoHeader ELSE headers[m]]
    /\ coverage' = [k \in Kinds |-> Truncate(coverage[k], n)]
    /\ checkpoint' = n /\ nextBlock' = n + 1
    /\ pc' = "range" /\ probe' = 0
    /\ UNCHANGED <<chain, feed, seenHead, failures, start, stored, exposed, left>>

(* Slip: the coverage rows stay. *)
RollBackKeepsCoverage ==
  \E n \in Ancestors :
    /\ Found(n) /\ n >= start
    /\ stored' = [i \in Logs |-> IF stored[i] > n THEN 0 ELSE stored[i]]
    /\ headers' = [m \in Numbers |-> IF m > n THEN NoHeader ELSE headers[m]]
    /\ checkpoint' = n /\ nextBlock' = n + 1
    /\ pc' = "range" /\ probe' = 0
    /\ UNCHANGED <<chain, feed, seenHead, failures, start, coverage, exposed, left>>

(* Database.rollback_to, one transaction. *)
RollBack ==
  \E n \in Ancestors :
    /\ Found(n) /\ n >= start
    /\ stored' = [i \in Logs |-> IF stored[i] > n THEN 0 ELSE stored[i]]
    /\ headers' = [m \in Numbers |-> IF m > n THEN NoHeader ELSE headers[m]]
    /\ coverage' = [k \in Kinds |-> Truncate(coverage[k], n)]
    /\ checkpoint' = n /\ nextBlock' = n + 1
    /\ pc' = "range" /\ probe' = 0
    /\ UNCHANGED <<chain, feed, seenHead, failures, start, exposed, left>>
------------------------------------------------------------------------------
(* process_range *)

RangeEnd == Smaller(Target(seenHead), nextBlock + Batch - 1)

(* The blocks whose headers are needed, and the header used for each: a     *)
(* stored one is trusted except at the end of the range.                    *)
Needed(f, l) == {f, l} \cup {onchain[i] : i \in LogsIn(f, l)}
Used(n, l) == IF n # l /\ Retained(n) THEN headers[n] ELSE BlockAt(n)

(* The hash the parent of block n must have, when it is known. *)
Previous(n, f, l) ==
  CASE n = f -> IF Retained(n - 1) THEN headers[n - 1].hash ELSE NoBlock
    [] n - 1 \in Needed(f, l) -> Used(n - 1, l).hash
    [] OTHER -> NoBlock

Linked(f, l) ==
  \A n \in Needed(f, l) : Previous(n, f, l) \in {NoBlock, Used(n, l).parent}
(* decode_launch: the log's block hash is the header's. *)
Decodes(f, l) == \A i \in LogsIn(f, l) : Used(onchain[i], l).hash = branch[onchain[i]]
(* save_range: an identity stored under another block raises. *)
Unmoved(f, l) == \A i \in LogsIn(f, l) : stored[i] \in {0, onchain[i]}
ValidWithoutParents(f, l) == Decodes(f, l) /\ Unmoved(f, l)   \* slip: parents unchecked
Valid(f, l) == Linked(f, l) /\ Decodes(f, l) /\ Unmoved(f, l)

(* The transaction's part that live and manual ranges share. *)
Save(kind, f, l) ==
  LET ceiling == Larger(l, Larger(0, checkpoint)) IN
  /\ stored' = [i \in Logs |-> IF i \in LogsIn(f, l) THEN onchain[i] ELSE stored[i]]
  /\ headers' = [n \in Numbers |->
                   IF n < ceiling - Retention + 1 THEN NoHeader
                   ELSE IF n \in Needed(f, l) THEN Used(n, l) ELSE headers[n]]
  /\ coverage' = [coverage EXCEPT ![kind] = RecordCoverage(@, f, l)]

NothingNew ==
  /\ pc = "range" /\ nextBlock > Target(seenHead)
  /\ pc' = "idle" /\ failures' = 0 /\ seenHead' = 0
  /\ UNCHANGED <<chain, feed, nextBlock, probe, durable, exposed, left>>

(* The checkpoint was replaced after reconcile compared it, and a range at  *)
(* or below it stores fresh headers over what the replaced blocks left: a   *)
(* later search takes one of them for an ancestor.                          *)
Orphaned == checkpoint # NoBlock /\ headers[checkpoint].hash # branch[checkpoint]
Raced(f) == Orphaned /\ f <= checkpoint

CursorNext(l) == Larger(l + 1, Larger(0, checkpoint))   \* slip: the next block, not the last
Cursor(l) == Larger(l, Larger(0, checkpoint))

ScanCommit ==
  /\ pc = "range" /\ nextBlock <= Target(seenHead)
  /\ Valid(nextBlock, RangeEnd) /\ Save("live", nextBlock, RangeEnd)
  /\ checkpoint' = Cursor(RangeEnd)
  /\ nextBlock' = RangeEnd + 1
  /\ exposed' = (exposed \/ Raced(nextBlock))
  /\ pc' = "idle" /\ failures' = 0 /\ seenHead' = 0
  /\ UNCHANGED <<chain, feed, probe, start, left>>

ScanHeld ==
  /\ pc = "range" /\ nextBlock <= Target(seenHead) /\ ~Valid(nextBlock, RangeEnd)
  /\ Fail
  /\ UNCHANGED <<chain, durable, exposed, left>>
------------------------------------------------------------------------------
(* python -m app.backfill: one range of it, with the service stopped (the   *)
(* writer lock) and cursor None.  Two windows: rows above the live           *)
(* checkpoint, which the live cursor later scans over, and a range written   *)
(* before the service has seen that its checkpoint was replaced.             *)
Backfill ==
  \E f, l \in Numbers :
    /\ pc \in Stopped \cup {"down"} /\ Spend("backfills")
    /\ f <= l /\ l < f + Batch /\ l <= head - Confirmations
    /\ \A n \in Needed(f, l) : Retained(n) => headers[n].hash = branch[n]
    /\ Valid(f, l) /\ Save("backfill", f, l)
    /\ exposed' = (exposed \/ l > checkpoint \/ Orphaned)
    /\ UNCHANGED <<chain, feed, watcher, checkpoint, start>>
------------------------------------------------------------------------------
Chain == Mine \/ Reorg
Reconcile == CheckAgrees \/ CheckLags \/ CheckDiffers \/ SearchOn \/ NoAncestor
               \/ AncestorBelowStart \/ RollBack
ScanRange == NothingNew \/ ScanCommit \/ ScanHeld
Watch == StepBegin \/ Reconcile \/ ScanRange

Next == Chain \/ Crash \/ Boot \/ OperatorRestart \/ FeedConnect \/ CallFails
          \/ CallRefused \/ Watch \/ Backfill

Spec == Init /\ [][Next]_vars

(* systemd restarts a killed process; the event loop runs the watcher and   *)
(* the provider answers it.                                                 *)
FairSpec == Spec /\ WF_vars(Boot) /\ WF_vars(Watch)
------------------------------------------------------------------------------
TypeOK ==
  /\ head \in Numbers /\ branch \in [Numbers -> 0 .. MaxReorgs]
  /\ onchain \in [Logs -> Numbers]
  /\ links \in 0 .. MaxLinks /\ seenLinks \in 0 .. MaxLinks
  /\ pc \in {"down", "idle", "check", "search", "range"} \cup Stopped
  /\ nextBlock \in NoBlock .. MaxBlock + 1 /\ seenHead \in Numbers /\ probe \in Numbers
  /\ failures \in 0 .. RetryAttempts - 1
  /\ checkpoint \in {NoBlock} \cup Numbers /\ start \in {NoBlock} \cup Numbers
  /\ headers \in [Numbers -> Headers \cup {NoHeader}]
  /\ coverage \in [Kinds -> SUBSET [first : Numbers, last : Numbers]]
  /\ stored \in [Logs -> Numbers]
  /\ exposed \in BOOLEAN
  /\ left \in [{"reorgs", "crashes", "failures", "lags", "backfills", "restarts",
             "links", "all"} -> Nat]

(* Every block from the live start to the cursor is covered: a rollback     *)
(* cuts the table and the cursor together, and overlap ranges, crashes and  *)
(* reconnections never open a hole.                                         *)
NoHoles ==
  checkpoint # NoBlock => start .. checkpoint = Blocks(coverage["live"])

Agrees ==
  \A i \in Logs, b \in Larger(1, start) .. checkpoint : onchain[i] = b <=> stored[i] = b

(* While the stored checkpoint is on the chain, the database says exactly   *)
(* what the chain says of every block up to it: no orphaned log, no missing *)
(* one.  Comparing that one hash is what reconcile relies on.               *)
CheckpointCertifies ==
  checkpoint # NoBlock /\ headers[checkpoint].hash = branch[checkpoint] /\ ~exposed => Agrees

(* The search gives up only when every block from the lowest header kept    *)
(* within MAX_REORG_DEPTH on was replaced.  Headers are kept at range ends  *)
(* and launches, so that is up to a batch short of the setting; a rollback  *)
(* lowers the cursor under the headers retention has already removed, so it *)
(* can be shorter still.                                                    *)
OnlyDeepForksStop ==
  [][NoAncestor /\ ~exposed =>
       \A n \in start .. checkpoint :
         (\E m \in Larger(start, checkpoint - ReorgDepth) .. n : Retained(m))
         => branch[n] > headers[checkpoint].hash]_vars

(* Once the chain rests, the database agrees with it up to the confirmed    *)
(* head, or the service has stopped for the operator, and then for one of   *)
(* two reasons: the fork was too deep (exit 2), or the provider refused one *)
(* call on each of its attempts (exit 3).  No other failure, lag, crash or  *)
(* reorganisation leaves behind what fails on every retry: the watcher's    *)
(* own budget is never what ends it.  A run injects fewer failures than     *)
(* RetryAttempts; as many in a row do end it, by design.                    *)
EventuallySynced ==
  <>[](\/ exposed
       \/ pc \in {"deepReorg", "refused"}
       \/ checkpoint = Target(head) /\ Agrees)
=============================================================================
