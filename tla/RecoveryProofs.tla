--------------------------- MODULE RecoveryProofs ---------------------------
(***************************************************************************)
(* The two components that recover what they missed by reading ranges of   *)
(* blocks, and nothing else: the http_complete scanner, whose first pass   *)
(* is such a recovery, and the worker's gap recovery with the offline      *)
(* drain.                                                                  *)
(*                                                                         *)
(* 1. Safety of HttpScanner for every set of logs, every configuration the *)
(*    loader accepts, any number of faults and reorganisations of any      *)
(*    depth.                                                               *)
(* 2. Safety of OfflineDrain, and of GapRecovery in it, for every window,  *)
(*    span, overlap, lag and number of gaps and rounds, when the worker    *)
(*    first caught up after the graduation.                                *)
(***************************************************************************)
EXTENDS HttpScanner, OfflineDrain, CoverageTheorems, WellFoundedInduction

(***************************************************************************)
(* 1. The http_complete scanner.                                           *)
(***************************************************************************)

(* What the counters bound: nobody is ahead of the chain, and no hash names *)
(* a branch that does not exist yet.                                        *)
BoundsInv ==
  /\ left.reorgs <= MaxReorgs /\ links + left.links <= MaxLinks
  /\ seenHead <= head /\ checkpoint <= head
  /\ \A n \in Numbers : branch[n] <= Tip /\ headers[n].hash <= Tip

(* The live start, the cursor in memory and the stored checkpoint.          *)
CursorInv ==
  /\ IF checkpoint = NoBlock THEN coverage["live"] = {}
     ELSE start # NoBlock /\ start <= checkpoint
  /\ nextBlock # NoBlock =>
       /\ start # NoBlock /\ start <= nextBlock
       /\ nextBlock <= IF checkpoint = NoBlock THEN start ELSE checkpoint + 1
  /\ pc \in {"check", "search", "range"} => nextBlock # NoBlock
  /\ pc = "search" => checkpoint # NoBlock /\ probe <= checkpoint

CoverageCanonical ==
  \A k \in Kinds : WellFormed(coverage[k]) /\ Separated(coverage[k])

(* A rollback and the retention rule leave the checkpoint's header and      *)
(* nothing above it.                                                        *)
NothingAbove ==
  ~exposed =>
    /\ checkpoint # NoBlock => Retained(checkpoint)
    /\ \A n \in Numbers : n > checkpoint => headers[n] = NoHeader
    /\ \A i \in Logs : stored[i] <= Larger(0, checkpoint)

(* Any stored header that is still on the chain vouches for every block up  *)
(* to it, not only the checkpoint's: that is what the ancestor search needs. *)
AgreesTo(m) ==
  \A i \in Logs, b \in Larger(1, start) .. m : onchain[i] = b <=> stored[i] = b
HeadersCertify ==
  ~exposed =>
    \A n \in Numbers : n <= checkpoint /\ headers[n].hash = branch[n] => AgreesTo(n)

IInv == /\ TypeOK
        /\ BoundsInv
        /\ CursorInv
        /\ CoverageCanonical
        /\ NoHoles
        /\ NothingAbove
        /\ HeadersCertify

Faults == {"reorgs", "crashes", "failures", "lags", "backfills", "restarts", "links", "all"}

(* The constants are numbers. *)
LEMMA ConfigTypes ==
  /\ Confirmations \in Nat /\ LiveOverlap \in Nat /\ RecoveryMax \in Nat
  /\ Retention \in Nat /\ ReorgDepth \in Nat /\ Retention >= 1
  /\ Batch \in Nat /\ Batch >= 1 /\ RetryAttempts \in Nat /\ RetryAttempts >= 1
  /\ MaxBlock \in Nat /\ MaxBlock >= 1
  /\ MaxReorgs \in Nat /\ MaxCrashes \in Nat /\ MaxFailures \in Nat /\ MaxLags \in Nat
  /\ RpcLag \in Nat /\ MaxLinks \in Nat /\ MaxBackfills \in Nat /\ MaxRestarts \in Nat
  /\ MaxFaults \in Nat
BY HttpConfig

(* Spending a fault: the budgets stay numbers, only the fault's own and the *)
(* common one shrink, and the fault's own was not used up.                  *)
LEMMA SpendLeft ==
  ASSUME TypeOK, NEW fault \in Faults \ {"all"}, Spend(fault)
  PROVE  /\ left' \in [Faults -> Nat]
         /\ left[fault] > 0 /\ left'[fault] = left[fault] - 1
         /\ \A other \in Faults \ {fault, "all"} : left'[other] = left[other]
<1>1. left \in [Faults -> Nat]
  BY DEF TypeOK, Faults
<1>2. /\ left[fault] > 0 /\ left["all"] > 0
      /\ left' = [left EXCEPT ![fault] = @ - 1, !["all"] = @ - 1]
  BY DEF Spend
<1> QED
  BY <1>1, <1>2 DEF Faults

(* A step that leaves scanner.db, the chain and the history alone keeps     *)
(* what the invariant says of them.                                         *)
LEMMA StoreFrame ==
  ASSUME IInv, UNCHANGED <<chain, durable, exposed>>
  PROVE  CoverageCanonical' /\ NoHoles' /\ NothingAbove' /\ HeadersCertify'
BY DEF IInv, chain, durable, CoverageCanonical, NoHoles, NothingAbove, HeadersCertify,
       AgreesTo, Retained

(* Rows of block numbers stay rows of block numbers. *)
LEMMA RecordCoverageNumbers ==
  ASSUME NEW rows, Canonical(rows), rows \subseteq [first : Numbers, last : Numbers],
         NEW f \in Numbers, NEW l \in Numbers, f <= l
  PROVE  RecordCoverage(rows, f, l) \subseteq [first : Numbers, last : Numbers]
<1>1. f \in Int /\ l \in Int
  BY DEF Numbers
<1>2. Lowest(rows, f, l) \in Numbers
  BY <1>1, LowestBounds DEF Touching
<1>3. Highest(rows, f, l) \in Numbers
  BY <1>1, HighestBounds DEF Touching
<1> QED
  BY <1>2, <1>3 DEF RecordCoverage, Row

(* The same for the rows a rollback cuts. *)
LEMMA TruncateNumbers ==
  ASSUME NEW rows, rows \subseteq [first : Numbers, last : Numbers], NEW n \in Numbers
  PROVE  Truncate(rows, n) \subseteq [first : Numbers, last : Numbers]
BY DEF Truncate

(* The rows of any kind, as record_coverage finds them. *)
LEMMA RowsCanonical ==
  ASSUME TypeOK, CoverageCanonical, NEW k \in Kinds
  PROVE  /\ Canonical(coverage[k])
         /\ coverage[k] \subseteq [first : Numbers, last : Numbers]
<1>1. coverage[k] \subseteq [first : Numbers, last : Numbers]
  BY DEF TypeOK
<1>2. [first : Numbers, last : Numbers] \subseteq IntRows
  BY DEF IntRows, Numbers
<1> QED
  BY <1>1, <1>2 DEF CoverageCanonical, Canonical

(* A fresh database on a chain of two blocks. *)
LEMMA InitIInv == Init => IInv
<1> SUFFICES ASSUME Init PROVE IInv
  OBVIOUS
<1> USE ConfigTypes DEF Init, NoBlock, Numbers
<1>1. TypeOK
  <2>1. headers \in [Numbers -> Headers \cup {NoHeader}]
    OBVIOUS
  <2>2. coverage \in [Kinds -> SUBSET [first : Numbers, last : Numbers]]
    OBVIOUS
  <2>3. left \in [Faults -> Nat]
    BY DEF Faults
  <2>4. /\ head \in Numbers /\ branch \in [Numbers -> 0 .. MaxReorgs]
        /\ onchain \in [Logs -> Numbers] /\ stored \in [Logs -> Numbers]
    OBVIOUS
  <2>5. /\ links \in 0 .. MaxLinks /\ seenLinks \in 0 .. MaxLinks
        /\ nextBlock \in NoBlock .. MaxBlock + 1 /\ seenHead \in Numbers
        /\ probe \in Numbers /\ failures \in 0 .. RetryAttempts - 1
    OBVIOUS
  <2> QED
    BY <2>1, <2>2, <2>3, <2>4, <2>5 DEF TypeOK, Faults
<1>2. BoundsInv
  BY DEF BoundsInv, Tip, NoHeader
<1>3. CursorInv /\ CoverageCanonical /\ NoHoles
  BY DEF CursorInv, CoverageCanonical, NoHoles, WellFormed, Separated, Kinds
<1>4. NothingAbove /\ HeadersCertify
  BY DEF NothingAbove, HeadersCertify, Larger
<1> QED
  BY <1>1, <1>2, <1>3, <1>4 DEF IInv

(* The blocks the certificates speak of. *)
LEMMA CertifiedBlock ==
  ASSUME TypeOK, NEW n \in Numbers, NEW b \in Larger(1, start) .. n
  PROVE  b \in Numbers /\ b >= 1 /\ b >= start /\ b <= n
<1>1. start \in Int /\ n \in Nat /\ n <= MaxBlock /\ MaxBlock \in Nat
  BY ConfigTypes DEF TypeOK, Numbers, NoBlock
<1>2. /\ Larger(1, start) \in Int
      /\ Larger(1, start) >= 1 /\ Larger(1, start) >= start
  BY <1>1 DEF Larger
<1> QED
  BY <1>1, <1>2 DEF Numbers

(* Types of what the chain and the database hold. *)
LEMMA StoreTypes ==
  ASSUME TypeOK, UNCHANGED <<chain, durable, exposed>>
  PROVE  /\ head' \in Numbers /\ branch' \in [Numbers -> 0 .. MaxReorgs]
         /\ onchain' \in [Logs -> Numbers]
         /\ checkpoint' \in {NoBlock} \cup Numbers /\ start' \in {NoBlock} \cup Numbers
         /\ headers' \in [Numbers -> Headers \cup {NoHeader}]
         /\ coverage' \in [Kinds -> SUBSET [first : Numbers, last : Numbers]]
         /\ stored' \in [Logs -> Numbers] /\ exposed' \in BOOLEAN
BY DEF TypeOK, chain, durable

(* Leaving the process: nothing in memory is left to be wrong. *)
LEMMA ExitStep ==
  ASSUME IInv, NEW how \in Stopped \cup {"down"}, Exit(how),
         UNCHANGED <<chain, durable, exposed>>, left' \in [Faults -> Nat],
         left'["reorgs"] = left["reorgs"], left'["links"] = left["links"]
  PROVE  IInv'
<1> USE ConfigTypes DEF IInv
<1>1. TypeOK'
  <2>1. /\ links' \in 0 .. MaxLinks /\ seenLinks' \in 0 .. MaxLinks
        /\ nextBlock' \in NoBlock .. MaxBlock + 1 /\ seenHead' \in Numbers
        /\ probe' \in Numbers /\ failures' \in 0 .. RetryAttempts - 1
    BY DEF Exit, Numbers, NoBlock
  <2>2. pc' \in {"down", "idle", "check", "search", "range"} \cup Stopped
    BY DEF Exit
  <2> QED
    BY <2>1, <2>2, StoreTypes DEF TypeOK, Faults
<1>2. BoundsInv'
  <2>1. links \in Nat /\ left["links"] \in Nat /\ head \in Nat
    BY DEF TypeOK, Numbers
  <2>2. seenHead' <= head' /\ links' + left'["links"] <= MaxLinks
    BY <2>1 DEF BoundsInv, Exit, chain
  <2> QED
    BY <2>2 DEF BoundsInv, Tip, chain, durable
<1>3. CursorInv'
  BY DEF CursorInv, Exit, durable, Stopped
<1> QED
  BY <1>1, <1>2, <1>3, StoreFrame

(* A failing call: another try, or exit 3. *)
LEMMA FailStep ==
  ASSUME IInv, Fail, UNCHANGED <<chain, durable, exposed>>, left' \in [Faults -> Nat],
         left'["reorgs"] = left["reorgs"], left'["links"] = left["links"]
  PROVE  IInv'
<1>1. CASE Exit("exhausted")
  BY <1>1, ExitStep DEF Stopped
<1>2. CASE /\ failures + 1 < RetryAttempts /\ failures' = failures + 1
           /\ pc' = "idle" /\ seenHead' = 0 /\ probe' = 0
           /\ UNCHANGED <<nextBlock, feed>>
  <2> USE ConfigTypes DEF IInv
  <2>1. TypeOK'
    <3>1. /\ failures' \in 0 .. RetryAttempts - 1
          /\ seenHead' \in Numbers /\ probe' \in Numbers
          /\ pc' \in {"down", "idle", "check", "search", "range"} \cup Stopped
      BY <1>2 DEF TypeOK, Numbers
    <3>2. /\ links' \in 0 .. MaxLinks /\ seenLinks' \in 0 .. MaxLinks
          /\ nextBlock' \in NoBlock .. MaxBlock + 1
      BY <1>2 DEF TypeOK, feed
    <3> QED
      BY <3>1, <3>2, StoreTypes DEF TypeOK, Faults
  <2>2. BoundsInv'
    <3>1. head \in Nat
      BY DEF TypeOK, Numbers
    <3> QED
      BY <1>2, <3>1 DEF BoundsInv, Tip, chain, durable, feed
  <2>3. CursorInv'
    BY <1>2 DEF CursorInv, durable
  <2> QED
    BY <2>1, <2>2, <2>3, StoreFrame
<1>3. failures \in Nat
  BY DEF IInv, TypeOK
<1> QED
  BY <1>1, <1>2, <1>3, ConfigTypes DEF Fail

(* The process is killed, started again, or told to start again. *)
LEMMA ProcessStep ==
  ASSUME IInv, Crash \/ Boot \/ OperatorRestart \/ CallFails \/ CallRefused
  PROVE  IInv'
<1> USE DEF IInv
<1>1. CASE Crash \/ CallRefused
  BY <1>1, ExitStep, SpendLeft DEF Crash, CallRefused, Faults, Stopped
<1>2. CASE CallFails
  BY <1>2, FailStep, SpendLeft DEF CallFails, Faults
<1>3. CASE Boot \/ OperatorRestart
  <2>1. /\ pc' = "idle" /\ UNCHANGED <<chain, durable, exposed>>
        /\ UNCHANGED <<feed, nextBlock, seenHead, probe, failures>>
    BY <1>3 DEF Boot, OperatorRestart
  <2>2. /\ left' \in [Faults -> Nat] /\ left'["reorgs"] = left["reorgs"]
        /\ left'["links"] = left["links"]
    BY <1>3, SpendLeft DEF Boot, OperatorRestart, Faults, TypeOK
  <2>3. TypeOK'
    BY <2>1, <2>2 DEF TypeOK, chain, durable, feed, Faults
  <2>4. BoundsInv'
    BY <2>1, <2>2 DEF BoundsInv, Tip, chain, durable, feed
  <2>5. CursorInv'
    BY <2>1 DEF CursorInv, durable
  <2> QED
    BY <2>1, <2>3, <2>4, <2>5, StoreFrame
<1> QED
  BY <1>1, <1>2, <1>3

(* The feed connects again. *)
LEMMA FeedStep ==
  ASSUME IInv, FeedConnect
  PROVE  IInv'
<1> USE DEF IInv
<1>1. /\ links' = links + 1 /\ UNCHANGED <<chain, seenLinks, watcher, durable, exposed>>
      /\ left' \in [Faults -> Nat] /\ left'["reorgs"] = left["reorgs"]
      /\ left["links"] > 0 /\ left'["links"] = left["links"] - 1
  BY SpendLeft DEF FeedConnect, Faults
<1>2. links \in Nat /\ left["links"] \in Nat /\ links + left["links"] <= MaxLinks
  BY DEF TypeOK, BoundsInv
<1>3. links' \in 0 .. MaxLinks /\ links' + left'["links"] <= MaxLinks
  BY <1>1, <1>2, ConfigTypes
<1>4. TypeOK'
  BY <1>1, <1>3 DEF TypeOK, chain, durable, watcher, Faults
<1>5. BoundsInv'
  BY <1>1, <1>3 DEF BoundsInv, Tip, chain, durable, watcher
<1>6. CursorInv'
  BY <1>1 DEF CursorInv, durable, watcher
<1> QED
  BY <1>1, <1>4, <1>5, <1>6, StoreFrame

(* A new block, on top of everything scanned. *)
LEMMA MineStep ==
  ASSUME IInv, Mine
  PROVE  IInv'
<1> USE DEF IInv
<1>1. PICK mined \in SUBSET {i \in Logs : onchain[i] = 0} :
        /\ head < MaxBlock /\ head' = head + 1
        /\ branch' = [branch EXCEPT ![head + 1] = Tip]
        /\ onchain' = [i \in Logs |-> IF i \in mined THEN head + 1 ELSE onchain[i]]
        /\ UNCHANGED <<feed, watcher, durable, exposed, left>>
  BY DEF Mine
<1>2. /\ head \in Nat /\ head + 1 \in Numbers /\ Tip \in 0 .. MaxReorgs /\ checkpoint \in Int
      /\ seenHead \in Nat /\ checkpoint <= head /\ seenHead <= head
  BY <1>1, ConfigTypes DEF TypeOK, BoundsInv, Tip, Numbers, NoBlock
<1>3. TypeOK'
  <2>1. onchain' \in [Logs -> Numbers] /\ branch' \in [Numbers -> 0 .. MaxReorgs]
    BY <1>1, <1>2 DEF TypeOK
  <2> QED
    BY <1>1, <1>2, <2>1 DEF TypeOK, feed, watcher, durable
<1>4. BoundsInv'
  <2>1. Tip' = Tip
    BY <1>1 DEF Tip
  <2>2. \A n \in Numbers : branch'[n] <= Tip /\ headers'[n].hash <= Tip
    BY <1>1, <1>2 DEF TypeOK, BoundsInv, durable
  <2> QED
    BY <1>1, <1>2, <2>1, <2>2 DEF BoundsInv, feed, watcher, durable
<1>5. CursorInv' /\ CoverageCanonical' /\ NoHoles' /\ NothingAbove'
  BY <1>1 DEF CursorInv, CoverageCanonical, NoHoles, NothingAbove, Retained, watcher, durable
<1>6. HeadersCertify'
  <2>1. SUFFICES ASSUME ~exposed, NEW n \in Numbers, n <= checkpoint,
                        headers[n].hash = branch'[n], NEW i \in Logs,
                        NEW b \in Larger(1, start) .. n
                 PROVE  onchain'[i] = b <=> stored[i] = b
    BY <1>1 DEF HeadersCertify, AgreesTo, durable
  <2>2. n # head + 1 /\ branch'[n] = branch[n]
    BY <1>1, <1>2, <2>1 DEF TypeOK, Numbers
  <2>3. onchain[i] = b <=> stored[i] = b
    BY <2>1, <2>2 DEF HeadersCertify, AgreesTo
  <2>4. b >= 1 /\ b # head + 1
    BY <1>2, <2>1, CertifiedBlock DEF Numbers
  <2> QED
    BY <1>1, <2>3, <2>4
<1> QED
  BY <1>3, <1>4, <1>5, <1>6

(* A reorganisation: the hashes it replaces never come back, so a stored    *)
(* header that is still on the chain lies below the fork, where no log      *)
(* moved.                                                                   *)
LEMMA ReorgStep ==
  ASSUME IInv, Reorg
  PROVE  IInv'
<1> USE DEF IInv
<1> DEFINE orphaned(f) == {i \in Logs : onchain[i] >= f}
<1>1. PICK fork \in 1 .. head : \E again \in [orphaned(fork) -> {0} \cup fork .. head] :
        /\ Spend("reorgs")
        /\ branch' = [n \in Numbers |-> IF fork <= n /\ n <= head THEN Tip + 1 ELSE branch[n]]
        /\ onchain' = [i \in Logs |-> IF i \in orphaned(fork) THEN again[i] ELSE onchain[i]]
        /\ UNCHANGED <<head, feed, watcher, durable, exposed>>
  BY DEF Reorg
<1>2. PICK again \in [orphaned(fork) -> {0} \cup fork .. head] :
        /\ Spend("reorgs")
        /\ branch' = [n \in Numbers |-> IF fork <= n /\ n <= head THEN Tip + 1 ELSE branch[n]]
        /\ onchain' = [i \in Logs |-> IF i \in orphaned(fork) THEN again[i] ELSE onchain[i]]
        /\ UNCHANGED <<head, feed, watcher, durable, exposed>>
  BY <1>1
<1>3. /\ left' \in [Faults -> Nat] /\ left["reorgs"] > 0
      /\ left'["reorgs"] = left["reorgs"] - 1 /\ left'["links"] = left["links"]
  BY <1>2, SpendLeft DEF Faults
<1>4. /\ head \in Numbers /\ fork \in Numbers /\ left["reorgs"] \in Nat
      /\ left["reorgs"] <= MaxReorgs /\ checkpoint \in Int /\ checkpoint <= head
  <2>1. head \in Numbers /\ left["reorgs"] \in Nat /\ checkpoint \in Int
    BY DEF TypeOK, Numbers, NoBlock
  <2>2. fork \in Numbers
    BY <1>1, <2>1, ConfigTypes DEF Numbers
  <2> QED
    BY <2>1, <2>2 DEF BoundsInv
<1>5. /\ Tip \in Nat /\ Tip' = Tip + 1 /\ Tip + 1 <= MaxReorgs
      /\ \A n \in Numbers : branch[n] \in Nat /\ branch[n] <= Tip
                             /\ headers[n].hash \in Int /\ headers[n].hash <= Tip
  BY <1>3, <1>4, ConfigTypes DEF Tip, TypeOK, BoundsInv, Headers, NoHeader, NoBlock
<1>6. TypeOK'
  <2>1. branch' \in [Numbers -> 0 .. MaxReorgs]
    BY <1>2, <1>5 DEF TypeOK
  <2>2. \A i \in orphaned(fork) : again[i] \in Numbers
    <3>1. {0} \cup fork .. head \subseteq Numbers
      BY <1>4, ConfigTypes DEF Numbers
    <3> QED
      BY <3>1
  <2>3. onchain' \in [Logs -> Numbers]
    BY <1>2, <2>2 DEF TypeOK
  <2> QED
    BY <1>2, <1>3, <2>1, <2>3 DEF TypeOK, feed, watcher, durable, Faults
<1>7. BoundsInv'
  <2>1. \A n \in Numbers : branch'[n] <= Tip' /\ headers'[n].hash <= Tip'
    BY <1>2, <1>5 DEF durable
  <2>2. left'["reorgs"] <= MaxReorgs /\ links' + left'["links"] <= MaxLinks
    BY <1>2, <1>3, <1>4, ConfigTypes DEF BoundsInv, feed
  <2>3. seenHead' <= head' /\ checkpoint' <= head'
    BY <1>2 DEF BoundsInv, watcher, durable
  <2> QED
    BY <2>1, <2>2, <2>3 DEF BoundsInv
<1>8. CursorInv' /\ CoverageCanonical' /\ NoHoles' /\ NothingAbove'
  BY <1>2 DEF CursorInv, CoverageCanonical, NoHoles, NothingAbove, Retained, watcher, durable
<1>9. HeadersCertify'
  <2>1. SUFFICES ASSUME ~exposed, NEW n \in Numbers, n <= checkpoint,
                        headers[n].hash = branch'[n], NEW i \in Logs,
                        NEW b \in Larger(1, start) .. n
                 PROVE  onchain'[i] = b <=> stored[i] = b
    BY <1>2 DEF HeadersCertify, AgreesTo, durable
  <2>2. n < fork
    BY <1>2, <1>4, <1>5, <2>1 DEF Numbers
  <2>3. branch'[n] = branch[n]
    BY <1>2, <1>4, <2>2 DEF Numbers
  <2>4. onchain[i] = b <=> stored[i] = b
    BY <2>1, <2>3 DEF HeadersCertify, AgreesTo
  <2>5. b \in Nat /\ b >= 1 /\ b < fork
    BY <1>4, <2>1, <2>2, CertifiedBlock DEF Numbers
  <2>6. CASE i \in orphaned(fork)
    <3>1. onchain'[i] = again[i] /\ (again[i] = 0 \/ again[i] \in fork .. head)
      BY <1>2, <2>6
    <3> QED
      BY <1>4, <2>4, <2>5, <2>6, <3>1 DEF Numbers
  <2>7. CASE i \notin orphaned(fork)
    BY <1>2, <2>4, <2>7
  <2> QED
    BY <2>6, <2>7
<1> QED
  BY <1>6, <1>7, <1>8, <1>9

(* The head read at the start of a step. *)
LEMMA HeadRead ==
  ASSUME TypeOK, NEW h \in {n \in Numbers : n <= head /\ n >= head - RpcLag}
  PROVE  /\ h \in Numbers /\ h \in Nat /\ h <= head /\ head \in Nat
         /\ StartBlock(h) \in Numbers
         /\ start # NoBlock => StartBlock(h) = start
<1>1. h \in Numbers /\ h <= head /\ head \in Nat /\ h \in Nat
  BY DEF TypeOK, Numbers
<1>2. LiveOverlap \in Nat /\ MaxBlock \in Nat
  BY ConfigTypes
<1>3. Larger(0, h - LiveOverlap) \in Numbers
  BY <1>1, <1>2 DEF Larger, Numbers
<1> QED
  BY <1>1, <1>3 DEF StartBlock, TypeOK

(* The cursor a step goes on from: at the live start, or a rewind from the  *)
(* stored checkpoint that stays above it.                                   *)
LEMMA RewindBounds ==
  ASSUME IInv, NEW h \in {n \in Numbers : n <= head /\ n >= head - RpcLag}
  PROVE  /\ NextFirst(h) \in Numbers \cup {MaxBlock + 1} /\ StartBlock(h) <= NextFirst(h)
         /\ NextFirst(h) <= IF checkpoint = NoBlock THEN StartBlock(h) ELSE checkpoint + 1
<1> USE DEF IInv
<1> DEFINE s == StartBlock(h)
<1>1. /\ s \in Nat /\ s <= MaxBlock /\ MaxBlock \in Nat /\ LiveOverlap \in Nat
      /\ start # NoBlock => s = start
  BY HeadRead, ConfigTypes DEF Numbers
<1> HIDE DEF s
<1>2. checkpoint \in {NoBlock} \cup Numbers /\ nextBlock \in NoBlock .. MaxBlock + 1
  BY DEF TypeOK
<1>3. CASE nextBlock = NoBlock \/ Reconnected
  <2>1. NextFirst(h) = Rewound(h)
    BY <1>3 DEF NextFirst
  <2>2. CASE checkpoint = NoBlock
    <3>1. Rewound(h) = s
      BY <2>2 DEF Rewound, s
    <3> QED
      BY <1>1, <2>1, <2>2, <3>1 DEF Numbers, s
  <2>3. CASE checkpoint # NoBlock
    <3>1. start <= checkpoint /\ s = start /\ checkpoint \in Nat /\ checkpoint <= MaxBlock
      BY <1>1, <1>2, <2>3 DEF CursorInv, Numbers
    <3>2. Rewound(h) = Larger(s, checkpoint - LiveOverlap)
      BY <2>3 DEF Rewound, s
    <3>3. Rewound(h) \in Nat /\ s <= Rewound(h) /\ Rewound(h) <= checkpoint
      BY <1>1, <3>1, <3>2 DEF Larger
    <3> QED
      BY <1>1, <2>1, <2>3, <3>1, <3>3 DEF Numbers, s
  <2> QED
    BY <2>2, <2>3
<1>4. CASE nextBlock # NoBlock /\ ~Reconnected
  <2>1. NextFirst(h) = nextBlock
    BY <1>4 DEF NextFirst
  <2>2. /\ s = start /\ start <= nextBlock
        /\ nextBlock <= IF checkpoint = NoBlock THEN start ELSE checkpoint + 1
    BY <1>1, <1>4 DEF CursorInv
  <2>3. nextBlock \in Numbers \cup {MaxBlock + 1}
    BY <1>1, <1>2, <1>4 DEF Numbers, NoBlock
  <2> QED
    BY <2>1, <2>2, <2>3 DEF s
<1> QED
  BY <1>3, <1>4

(* A step begins: the live start is fixed before anything is committed. *)
LEMMA StepBeginStep ==
  ASSUME IInv, StepBegin
  PROVE  IInv'
<1> USE DEF IInv
<1>1. PICK h \in {n \in Numbers : n <= head /\ n >= head - RpcLag} :
        /\ pc = "idle"
        /\ IF h = head THEN UNCHANGED left ELSE Spend("lags")
        /\ start' = StartBlock(h)
        /\ IF Target(h) - NextFirst(h) + 1 > RecoveryMax
           THEN Exit("deepReorg")
           ELSE /\ nextBlock' = NextFirst(h) /\ seenLinks' = links
                /\ seenHead' = h /\ pc' = "check"
                /\ UNCHANGED <<links, probe, failures>>
        /\ UNCHANGED <<chain, checkpoint, headers, coverage, stored, exposed>>
  BY DEF StepBegin
<1>2. /\ left' \in [Faults -> Nat] /\ left'["reorgs"] = left["reorgs"]
      /\ left'["links"] = left["links"]
  BY <1>1, SpendLeft DEF Faults, TypeOK
<1>3. /\ h \in Numbers /\ h <= head /\ start' \in Numbers
      /\ start # NoBlock => start' = start
  BY <1>1, HeadRead
<1>4. start' # NoBlock
  BY <1>3 DEF Numbers, NoBlock
<1>5. CoverageCanonical' /\ NoHoles'
  BY <1>1, <1>3 DEF CoverageCanonical, NoHoles, CursorInv
<1>6. NothingAbove'
  BY <1>1 DEF NothingAbove, Retained
<1>7. HeadersCertify'
  <2>1. CASE checkpoint = NoBlock
    BY <1>1, <2>1 DEF HeadersCertify, Numbers, chain, NoBlock
  <2>2. CASE checkpoint # NoBlock
    BY <1>1, <1>3, <2>2 DEF HeadersCertify, AgreesTo, chain, CursorInv
  <2> QED
    BY <2>1, <2>2
<1>8. /\ head' \in Numbers /\ branch' \in [Numbers -> 0 .. MaxReorgs]
      /\ onchain' \in [Logs -> Numbers] /\ stored' \in [Logs -> Numbers]
      /\ checkpoint' \in {NoBlock} \cup Numbers /\ start' \in {NoBlock} \cup Numbers
      /\ headers' \in [Numbers -> Headers \cup {NoHeader}]
      /\ coverage' \in [Kinds -> SUBSET [first : Numbers, last : Numbers]]
      /\ exposed' \in BOOLEAN
  BY <1>1, <1>3 DEF TypeOK, chain
<1>9. CASE Exit("deepReorg")
  <2>1. TypeOK'
    <3>1. /\ links' \in 0 .. MaxLinks /\ seenLinks' \in 0 .. MaxLinks
          /\ nextBlock' \in NoBlock .. MaxBlock + 1 /\ seenHead' \in Numbers
          /\ probe' \in Numbers /\ failures' \in 0 .. RetryAttempts - 1
          /\ pc' = "deepReorg"
      BY <1>9, ConfigTypes DEF Exit, Numbers, NoBlock
    <3> QED
      BY <1>2, <1>8, <3>1 DEF TypeOK, Faults, Stopped
  <2>2. BoundsInv'
    <3>1. links \in Nat /\ left["links"] \in Nat /\ head \in Nat
      BY DEF TypeOK, Numbers
    <3>2. seenHead' <= head' /\ links' + left'["links"] <= MaxLinks
      BY <1>1, <1>2, <1>9, <3>1, ConfigTypes DEF BoundsInv, Exit, chain
    <3> QED
      BY <1>1, <1>2, <3>2 DEF BoundsInv, Tip, chain
  <2>3. CursorInv'
    BY <1>1, <1>3, <1>9 DEF CursorInv, Exit
  <2> QED
    BY <1>5, <1>6, <1>7, <2>1, <2>2, <2>3
<1>10. CASE /\ nextBlock' = NextFirst(h) /\ seenLinks' = links
            /\ seenHead' = h /\ pc' = "check"
            /\ UNCHANGED <<links, probe, failures>>
  <2>1. nextBlock' \in Numbers \cup {MaxBlock + 1}
    BY <1>10, RewindBounds
  <2>2. nextBlock' \in NoBlock .. MaxBlock + 1 /\ nextBlock' # NoBlock
    BY <2>1, ConfigTypes DEF Numbers, NoBlock
  <2>3. TypeOK'
    BY <1>2, <1>3, <1>8, <1>10, <2>2 DEF TypeOK, Faults
  <2>4. BoundsInv'
    BY <1>1, <1>2, <1>3, <1>10 DEF BoundsInv, Tip, chain
  <2>5. /\ start' <= nextBlock'
        /\ nextBlock' <= IF checkpoint = NoBlock THEN start' ELSE checkpoint + 1
    BY <1>1, <1>10, RewindBounds
  <2>6. CursorInv'
    BY <1>1, <1>3, <1>4, <1>10, <2>2, <2>5 DEF CursorInv
  <2> QED
    BY <1>5, <1>6, <1>7, <2>3, <2>4, <2>6
<1> QED
  BY <1>1, <1>9, <1>10

(* The ancestors come in descending order: there is a highest one. *)
LEMMA HighestAncestor ==
  ASSUME TypeOK, Ancestors # {}
  PROVE  NextAncestor \in Ancestors /\ \A m \in Ancestors : m <= NextAncestor
<1> DEFINE below == {MaxBlock - n : n \in Ancestors}
<1>1. MaxBlock \in Nat /\ \A n \in Ancestors : n \in Nat /\ MaxBlock - n \in Nat
  BY ConfigTypes DEF Ancestors, Numbers
<1>2. below \subseteq Nat /\ below # {}
  BY <1>1
<1>3. PICK x \in below : \A y \in below : ~(<<y, x>> \in OpToRel(<, Nat))
  BY <1>2, NatLessThanWellFounded, WFMin
<1>4. \A y \in below : ~(y < x)
  BY <1>2, <1>3 DEF OpToRel
<1>5. PICK n \in Ancestors : x = MaxBlock - n
  OBVIOUS
<1>6. ASSUME NEW m \in Ancestors PROVE m <= n
  <2>1. ~(MaxBlock - m < MaxBlock - n)
    BY <1>4, <1>5
  <2>2. m \in Int /\ n \in Int /\ MaxBlock \in Int
    BY <1>1
  <2> QED
    BY <2>1, <2>2
<1> QED
  BY <1>5, <1>6 DEF NextAncestor

(* The steps of reconcile that only read, or give up. *)
LEMMA CheckStep ==
  ASSUME IInv, CheckAgrees \/ CheckLags \/ CheckDiffers \/ SearchOn \/ NoAncestor
                 \/ AncestorBelowStart
  PROVE  IInv'
<1> USE DEF IInv
<1>1. left \in [Faults -> Nat]
  BY DEF TypeOK, Faults
<1>2. CASE CheckLags
  BY <1>1, <1>2, FailStep DEF CheckLags
<1>3. CASE NoAncestor \/ AncestorBelowStart
  BY <1>1, <1>3, ExitStep DEF NoAncestor, AncestorBelowStart, Stopped
<1>4. CASE CheckAgrees \/ CheckDiffers \/ SearchOn
  <2>1. /\ UNCHANGED <<chain, feed, nextBlock, seenHead, failures, durable, exposed, left>>
        /\ pc \in {"check", "search"}
        /\ \/ pc' = "range" /\ probe' = probe
           \/ pc' = "search" /\ probe' \in Numbers /\ checkpoint # NoBlock
                /\ probe' <= checkpoint
    <3>1. CASE CheckAgrees
      BY <3>1 DEF CheckAgrees
    <3>2. CASE CheckDiffers
      BY <3>2 DEF CheckDiffers, TypeOK, Numbers
    <3>3. CASE SearchOn
      <4>1. NextAncestor \in Numbers /\ NextAncestor < probe
        BY <3>3, HighestAncestor DEF SearchOn, Ancestors
      <4>2. checkpoint # NoBlock /\ probe <= checkpoint /\ probe \in Int /\ checkpoint \in Int
        BY <3>3 DEF SearchOn, CursorInv, TypeOK, Numbers, NoBlock
      <4>3. NextAncestor <= checkpoint
        BY <4>1, <4>2 DEF Numbers
      <4> QED
        BY <3>3, <4>1, <4>2, <4>3 DEF SearchOn
    <3> QED
      BY <1>4, <3>1, <3>2, <3>3
  <2>2. TypeOK'
    <3>1. probe' \in Numbers
      BY <2>1 DEF TypeOK
    <3> QED
      BY <2>1, <3>1 DEF TypeOK, chain, durable, feed
  <2>3. BoundsInv'
    BY <2>1 DEF BoundsInv, Tip, chain, durable, feed
  <2>4. CursorInv'
    BY <2>1 DEF CursorInv, durable
  <2> QED
    BY <2>1, <2>2, <2>3, <2>4, StoreFrame
<1> QED
  BY <1>2, <1>3, <1>4

(* Database.rollback_to: rows, headers and logs are cut together, and the   *)
(* ancestor's header vouches for what is left.                              *)
LEMMA RollBackStep ==
  ASSUME IInv, RollBack
  PROVE  IInv'
<1> USE DEF IInv
<1>1. PICK n \in Ancestors :
        /\ Found(n) /\ n >= start
        /\ stored' = [i \in Logs |-> IF stored[i] > n THEN 0 ELSE stored[i]]
        /\ headers' = [m \in Numbers |-> IF m > n THEN NoHeader ELSE headers[m]]
        /\ coverage' = [k \in Kinds |-> Truncate(coverage[k], n)]
        /\ checkpoint' = n /\ nextBlock' = n + 1
        /\ pc' = "range" /\ probe' = 0
        /\ UNCHANGED <<chain, feed, seenHead, failures, start, exposed, left>>
  BY DEF RollBack
<1>2. /\ pc = "search" /\ headers[n].hash = branch[n]
      /\ n \in Numbers /\ Retained(n) /\ n < probe
  BY <1>1 DEF Found, Ancestors, BlockAt
<1>3. /\ checkpoint \in Numbers /\ n < checkpoint /\ n \in Nat /\ n # NoBlock
      /\ start \in Numbers /\ start # NoBlock /\ start <= n /\ checkpoint <= head
      /\ head \in Nat /\ MaxBlock \in Nat
  BY <1>1, <1>2, ConfigTypes DEF CursorInv, BoundsInv, TypeOK, Numbers, NoBlock
<1>4. TypeOK'
  <2>1. coverage' \in [Kinds -> SUBSET [first : Numbers, last : Numbers]]
    BY <1>1, <1>2, TruncateNumbers DEF TypeOK
  <2>2. headers' \in [Numbers -> Headers \cup {NoHeader}]
    BY <1>1 DEF TypeOK
  <2>3. stored' \in [Logs -> Numbers]
    BY <1>1, ConfigTypes DEF TypeOK, Numbers
  <2>4. checkpoint' \in Numbers /\ nextBlock' \in NoBlock .. MaxBlock + 1 /\ probe' \in Numbers
    BY <1>1, <1>2, <1>3 DEF Numbers, NoBlock
  <2> QED
    BY <1>1, <2>1, <2>2, <2>3, <2>4 DEF TypeOK, chain, feed
<1>5. BoundsInv'
  <2>1. \A m \in Numbers : headers'[m].hash <= Tip
    <3>1. Tip \in Nat
      BY ConfigTypes DEF TypeOK, BoundsInv, Tip
    <3> QED
      BY <1>1, <3>1 DEF BoundsInv, NoHeader, NoBlock
  <2>2. n <= head
    BY <1>3 DEF Numbers
  <2> QED
    BY <1>1, <2>1, <2>2 DEF BoundsInv, Tip, chain, feed
<1>6. CursorInv'
  <2>1. start <= n + 1 /\ n + 1 # NoBlock
    BY <1>3 DEF Numbers, NoBlock
  <2> QED
    BY <1>1, <1>3, <2>1 DEF CursorInv
<1>7. CoverageCanonical' /\ NoHoles'
  <2>1. \A k \in Kinds : /\ Canonical(Truncate(coverage[k], n))
                         /\ Blocks(Truncate(coverage[k], n)) = {b \in Blocks(coverage[k]) : b <= n}
    BY <1>3, RowsCanonical, TruncateBlocks
  <2>2. CoverageCanonical'
    BY <1>1, <2>1 DEF CoverageCanonical, Canonical
  <2>3. Blocks(coverage["live"]) = start .. checkpoint
    BY <1>3 DEF NoHoles, Numbers, NoBlock
  <2>4. Blocks(coverage'["live"]) = {b \in start .. checkpoint : b <= n}
    BY <1>1, <2>1, <2>3 DEF Kinds
  <2>5. {b \in start .. checkpoint : b <= n} = start .. n
    BY <1>3 DEF Numbers
  <2> QED
    BY <1>1, <2>2, <2>4, <2>5 DEF NoHoles
<1>8. NothingAbove'
  <2>1. headers'[n] = headers[n]
    BY <1>1, <1>2, <1>3
  <2>2. \A m \in Numbers : m > n => headers'[m] = NoHeader
    BY <1>1
  <2>3. ASSUME NEW i \in Logs PROVE stored'[i] <= Larger(0, n)
    <3>1. stored[i] \in Nat /\ Larger(0, n) = n
      BY <1>3 DEF TypeOK, Larger, Numbers
    <3> QED
      BY <1>1, <1>3, <3>1
  <2> QED
    BY <1>1, <1>2, <2>1, <2>2, <2>3 DEF NothingAbove, Retained
<1>9. HeadersCertify'
  <2>1. SUFFICES ASSUME ~exposed, NEW m \in Numbers, m <= n,
                        headers'[m].hash = branch[m], NEW i \in Logs,
                        NEW b \in Larger(1, start) .. m
                 PROVE  onchain[i] = b <=> stored'[i] = b
    BY <1>1 DEF HeadersCertify, AgreesTo, chain
  <2>2. m <= checkpoint /\ headers'[m] = headers[m]
    BY <1>1, <1>3, <2>1 DEF Numbers
  <2>3. onchain[i] = b <=> stored[i] = b
    BY <2>1, <2>2 DEF HeadersCertify, AgreesTo
  <2>4. b \in Nat /\ b >= 1 /\ b <= n
    BY <1>3, <2>1, CertifiedBlock DEF Numbers
  <2>5. stored[i] \in Nat /\ stored'[i] = IF stored[i] > n THEN 0 ELSE stored[i]
    BY <1>1 DEF TypeOK, Numbers
  <2>6. stored'[i] = b <=> stored[i] = b
    BY <1>3, <2>4, <2>5
  <2> QED
    BY <2>3, <2>6
<1> QED
  BY <1>4, <1>5, <1>6, <1>7, <1>8, <1>9

(* The blocks a range needs, and the header used for each. *)
LEMMA NeededBlocks ==
  ASSUME TypeOK, NEW f \in Numbers, NEW l \in Numbers, f <= l
  PROVE  /\ Needed(f, l) \subseteq Numbers
         /\ \A n \in Needed(f, l) : f <= n /\ n <= l
<1>1. f \in Int /\ l \in Int
  BY DEF Numbers
<1>2. \A i \in LogsIn(f, l) : onchain[i] \in Numbers /\ f <= onchain[i] /\ onchain[i] <= l
  BY DEF LogsIn, TypeOK
<1> QED
  BY <1>1, <1>2 DEF Needed

(* A stored header or the provider's answer, either way of an existing branch. *)
LEMMA UsedHeader ==
  ASSUME TypeOK, BoundsInv, NEW n \in Numbers, NEW l \in Numbers
  PROVE  Used(n, l) \in Headers /\ Used(n, l).hash <= Tip
<1>1. CASE n # l /\ Retained(n)
  <2>1. Used(n, l) = headers[n] /\ headers[n] \in Headers
    BY <1>1 DEF Used, Retained, TypeOK
  <2> QED
    BY <2>1 DEF BoundsInv
<1>2. CASE ~(n # l /\ Retained(n))
  <2>1. Used(n, l) = BlockAt(n)
    BY <1>2 DEF Used
  <2>2. branch[n] \in 0 .. MaxReorgs /\ branch[n] <= Tip
    BY DEF TypeOK, BoundsInv
  <2>3. n = 0 \/ n - 1 \in Numbers
    BY ConfigTypes DEF Numbers
  <2>4. (IF n = 0 THEN 0 ELSE branch[n - 1]) \in 0 .. MaxReorgs
    BY <2>3, ConfigTypes DEF TypeOK
  <2> QED
    BY <2>1, <2>2, <2>4 DEF BlockAt, Headers
<1> QED
  BY <1>1, <1>2

(* What both kinds of range write, in one transaction. *)
LEMMA SaveStep ==
  ASSUME TypeOK, BoundsInv, CoverageCanonical, NEW kind \in Kinds,
         NEW f \in Numbers, NEW l \in Numbers, f <= l, Save(kind, f, l)
  PROVE  /\ stored' \in [Logs -> Numbers]
         /\ headers' \in [Numbers -> Headers \cup {NoHeader}]
         /\ \A n \in Numbers : headers'[n].hash <= Tip
         /\ coverage' \in [Kinds -> SUBSET [first : Numbers, last : Numbers]]
         /\ CoverageCanonical'
         /\ Blocks(coverage'[kind]) = Blocks(coverage[kind]) \cup (f .. l)
         /\ \A k \in Kinds \ {kind} : coverage'[k] = coverage[k]
<1> DEFINE ceiling == Larger(l, Larger(0, checkpoint))
<1>1. /\ stored' = [i \in Logs |-> IF i \in LogsIn(f, l) THEN onchain[i] ELSE stored[i]]
      /\ headers' = [n \in Numbers |->
                       IF n < ceiling - Retention + 1 THEN NoHeader
                       ELSE IF n \in Needed(f, l) THEN Used(n, l) ELSE headers[n]]
      /\ coverage' = [coverage EXCEPT ![kind] = RecordCoverage(@, f, l)]
  BY DEF Save
<1> HIDE DEF ceiling
<1>2. stored' \in [Logs -> Numbers]
  BY <1>1 DEF TypeOK
<1>3. headers' \in [Numbers -> Headers \cup {NoHeader}]
  BY <1>1, UsedHeader DEF TypeOK
<1>4. \A n \in Numbers : headers'[n].hash <= Tip
  <2>1. Tip \in Nat /\ NoHeader.hash <= Tip
    BY ConfigTypes DEF TypeOK, BoundsInv, Tip, NoHeader, NoBlock
  <2>2. \A n \in Numbers : headers'[n] \in {NoHeader, Used(n, l), headers[n]}
    BY <1>1
  <2> QED
    BY <2>1, <2>2, UsedHeader DEF BoundsInv
<1>5. f \in Int /\ l \in Int
  BY DEF Numbers
<1>6. /\ Canonical(coverage[kind])
      /\ coverage[kind] \subseteq [first : Numbers, last : Numbers]
  BY RowsCanonical
<1>7. /\ Canonical(RecordCoverage(coverage[kind], f, l))
      /\ Blocks(RecordCoverage(coverage[kind], f, l)) = Blocks(coverage[kind]) \cup (f .. l)
      /\ RecordCoverage(coverage[kind], f, l) \subseteq [first : Numbers, last : Numbers]
  BY <1>5, <1>6, RecordCoverageCanonical, RecordCoverageBlocks, RecordCoverageNumbers
<1>8. /\ coverage'[kind] = RecordCoverage(coverage[kind], f, l)
      /\ \A k \in Kinds \ {kind} : coverage'[k] = coverage[k]
  BY <1>1 DEF TypeOK
<1>9. coverage' \in [Kinds -> SUBSET [first : Numbers, last : Numbers]]
  BY <1>1, <1>7 DEF TypeOK
<1>10. CoverageCanonical'
  BY <1>7, <1>8 DEF CoverageCanonical, Canonical
<1> QED
  BY <1>2, <1>3, <1>4, <1>7, <1>8, <1>9, <1>10

(* Nothing new, or a range that is not accepted. *)
LEMMA NoRangeStep ==
  ASSUME IInv, NothingNew \/ ScanHeld
  PROVE  IInv'
<1> USE DEF IInv
<1>1. CASE NothingNew
  <2>1. /\ pc' = "idle" /\ failures' = 0 /\ seenHead' = 0
        /\ UNCHANGED <<chain, feed, nextBlock, probe, durable, exposed, left>>
    BY <1>1 DEF NothingNew
  <2>2. failures' \in 0 .. RetryAttempts - 1 /\ seenHead' \in Numbers
    BY <2>1, ConfigTypes DEF Numbers
  <2>3. TypeOK'
    BY <2>1, <2>2, StoreTypes DEF TypeOK, feed
  <2>4. BoundsInv'
    <3>1. head \in Nat
      BY DEF TypeOK, Numbers
    <3> QED
      BY <2>1, <3>1 DEF BoundsInv, Tip, chain, durable, feed
  <2>5. CursorInv'
    BY <2>1 DEF CursorInv, durable
  <2> QED
    BY <2>1, <2>3, <2>4, <2>5, StoreFrame
<1>2. CASE ScanHeld
  BY <1>2, FailStep DEF ScanHeld, TypeOK, Faults
<1> QED
  BY <1>1, <1>2

(* The range a commit scans. *)
LEMMA RangeBounds ==
  ASSUME IInv, pc = "range", nextBlock <= Target(seenHead)
  PROVE  /\ nextBlock \in Numbers /\ RangeEnd \in Numbers
         /\ nextBlock <= RangeEnd /\ RangeEnd <= head
         /\ start \in Numbers /\ start # NoBlock /\ start <= nextBlock
         /\ nextBlock <= IF checkpoint = NoBlock THEN start ELSE checkpoint + 1
<1> USE DEF IInv
<1>1. /\ nextBlock # NoBlock /\ start # NoBlock /\ start <= nextBlock
      /\ nextBlock <= IF checkpoint = NoBlock THEN start ELSE checkpoint + 1
      /\ seenHead <= head
  BY DEF CursorInv, BoundsInv
<1>2. /\ nextBlock \in Int /\ nextBlock >= 0 /\ start \in Numbers
      /\ seenHead \in Nat /\ head \in Nat /\ head <= MaxBlock
  BY <1>1, ConfigTypes DEF TypeOK, Numbers, NoBlock
<1>3. Target(seenHead) \in Nat /\ Target(seenHead) <= head
  BY <1>1, <1>2, ConfigTypes DEF Target, Larger
<1>4. RangeEnd \in Nat /\ nextBlock <= RangeEnd /\ RangeEnd <= Target(seenHead)
  BY <1>2, <1>3, ConfigTypes DEF RangeEnd, Smaller
<1> QED
  BY <1>1, <1>2, <1>3, <1>4, ConfigTypes DEF Numbers

(* The parent check: a range that goes on from the checkpoint is accepted   *)
(* only if the checkpoint's header is still on the chain.                   *)
LEMMA LinkedMeansOnChain ==
  ASSUME IInv, ~exposed, checkpoint # NoBlock, NEW l \in Numbers,
         checkpoint + 1 \in Numbers, checkpoint + 1 <= l, Linked(checkpoint + 1, l)
  PROVE  headers[checkpoint].hash = branch[checkpoint]
<1> USE DEF IInv
<1> DEFINE f == checkpoint + 1
<1>1. checkpoint \in Numbers /\ checkpoint \in Int
  BY DEF TypeOK, Numbers
<1>2. Retained(checkpoint) /\ headers[f] = NoHeader
  BY <1>1 DEF NothingAbove
<1>3. Used(f, l) = BlockAt(f)
  BY <1>2 DEF Used, Retained
<1>4. f \in Needed(f, l)
  BY DEF Needed
<1>5. f - 1 = checkpoint /\ f # 0
  BY <1>1 DEF Numbers
<1>6. Previous(f, f, l) = headers[checkpoint].hash
  <2>1. f - 1 \notin Needed(f, l)
    BY <1>1, <1>5, NeededBlocks
  <2> QED
    BY <1>2, <1>5, <2>1 DEF Previous
<1>7. headers[checkpoint].hash \in {NoBlock, BlockAt(f).parent}
  BY <1>3, <1>4, <1>6 DEF Linked
<1>8. headers[checkpoint].hash # NoBlock
  BY <1>1, <1>2 DEF Retained, TypeOK, Headers, NoBlock
<1> QED
  BY <1>5, <1>7, <1>8 DEF BlockAt

(* So a commit outside the windows is made over a checkpoint on the chain. *)
LEMMA CommitOverChain ==
  ASSUME IInv, ScanCommit, ~exposed', checkpoint # NoBlock
  PROVE  headers[checkpoint].hash = branch[checkpoint]
<1> DEFINE f == nextBlock
           l == RangeEnd
<1>1. /\ Valid(f, l) /\ ~exposed /\ ~Raced(f)
  BY DEF ScanCommit, IInv, TypeOK
<1>2. f \in Numbers /\ l \in Numbers /\ f <= l /\ f <= checkpoint + 1
  BY RangeBounds DEF ScanCommit
<1>3. checkpoint \in Int /\ f \in Int
  BY <1>2 DEF IInv, TypeOK, Numbers, NoBlock
<1> HIDE DEF f, l
<1>4. CASE f <= checkpoint
  BY <1>1, <1>4 DEF Raced, Orphaned
<1>5. CASE ~(f <= checkpoint)
  <2>1. f = checkpoint + 1
    BY <1>2, <1>3, <1>5
  <2> QED
    BY <1>1, <1>2, <2>1, LinkedMeansOnChain DEF Valid
<1> QED
  BY <1>4, <1>5

(* The commit of a live range. *)
LEMMA ScanCommitStep ==
  ASSUME IInv, ScanCommit
  PROVE  IInv'
<1> USE DEF IInv
<1> DEFINE f == nextBlock
           l == RangeEnd
           ceiling == Larger(l, Larger(0, checkpoint))
<1>1. /\ pc = "range" /\ f <= Target(seenHead) /\ Valid(f, l) /\ Save("live", f, l)
      /\ checkpoint' = ceiling /\ nextBlock' = l + 1
      /\ exposed' = (exposed \/ Raced(f))
      /\ pc' = "idle" /\ failures' = 0 /\ seenHead' = 0
      /\ UNCHANGED <<chain, feed, probe, start, left>>
  BY DEF ScanCommit, Cursor
<1>2. /\ f \in Numbers /\ l \in Numbers /\ f <= l /\ l <= head
      /\ start \in Numbers /\ start # NoBlock /\ start <= f
      /\ f <= IF checkpoint = NoBlock THEN start ELSE checkpoint + 1
  BY <1>1, RangeBounds
<1>3. /\ f \in Nat /\ l \in Nat /\ start \in Nat /\ head \in Nat /\ MaxBlock \in Nat
      /\ l <= MaxBlock
      /\ checkpoint = NoBlock \/ (checkpoint \in Nat /\ checkpoint \in Numbers)
      /\ checkpoint <= head
  BY <1>2, ConfigTypes DEF TypeOK, BoundsInv, Numbers
<1> HIDE DEF f, l
<1>4. /\ ceiling \in Numbers /\ ceiling # NoBlock /\ ceiling <= head
      /\ l <= ceiling /\ checkpoint <= ceiling
      /\ ceiling = l \/ (checkpoint # NoBlock /\ ceiling = checkpoint /\ l < checkpoint)
  BY <1>2, <1>3 DEF Larger, Numbers, NoBlock
<1> HIDE DEF ceiling
<1>5. /\ stored' \in [Logs -> Numbers]
      /\ headers' \in [Numbers -> Headers \cup {NoHeader}]
      /\ \A n \in Numbers : headers'[n].hash <= Tip
      /\ coverage' \in [Kinds -> SUBSET [first : Numbers, last : Numbers]]
      /\ CoverageCanonical'
      /\ Blocks(coverage'["live"]) = Blocks(coverage["live"]) \cup (f .. l)
  BY <1>1, <1>2, SaveStep DEF Kinds
<1>6. /\ stored' = [i \in Logs |-> IF i \in LogsIn(f, l) THEN onchain[i] ELSE stored[i]]
      /\ headers' = [n \in Numbers |->
                       IF n < ceiling - Retention + 1 THEN NoHeader
                       ELSE IF n \in Needed(f, l) THEN Used(n, l) ELSE headers[n]]
  BY <1>1 DEF Save, ceiling
<1>7. TypeOK'
  <2>1. /\ nextBlock' \in NoBlock .. MaxBlock + 1 /\ seenHead' \in Numbers
        /\ failures' \in 0 .. RetryAttempts - 1 /\ checkpoint' \in Numbers
        /\ exposed' \in BOOLEAN
    BY <1>1, <1>3, <1>4, ConfigTypes DEF Numbers, NoBlock, TypeOK, Raced, Orphaned
  <2> QED
    BY <1>1, <1>5, <2>1 DEF TypeOK, chain, feed
<1>8. BoundsInv'
  BY <1>1, <1>3, <1>4, <1>5 DEF BoundsInv, Tip, chain, feed
<1>9. CursorInv'
  <2>1. start <= l + 1 /\ l + 1 <= ceiling + 1 /\ l + 1 # NoBlock /\ start <= ceiling
    BY <1>2, <1>3, <1>4 DEF Numbers, NoBlock
  <2> QED
    BY <1>1, <1>2, <1>4, <2>1 DEF CursorInv
<1>10. NoHoles'
  <2>1. CASE checkpoint = NoBlock
    <3>1. Blocks(coverage["live"]) = {} /\ f = start
      BY <1>2, <1>3, <2>1 DEF CursorInv, Blocks
    <3>2. ceiling = l
      BY <1>4, <2>1
    <3> QED
      BY <1>1, <1>5, <3>1, <3>2 DEF NoHoles
  <2>2. CASE checkpoint # NoBlock
    <3>1. Blocks(coverage["live"]) = start .. checkpoint
      BY <2>2 DEF NoHoles
    <3>2. start .. ceiling = (start .. checkpoint) \cup (f .. l)
      BY <1>2, <1>3, <1>4, <2>2 DEF Numbers
    <3> QED
      BY <1>1, <1>5, <3>1, <3>2 DEF NoHoles
  <2> QED
    BY <2>1, <2>2
<1>11. \A n \in Needed(f, l) : n \in Numbers /\ n <= l
  BY <1>2, NeededBlocks
<1>12. NothingAbove'
  <2> SUFFICES ASSUME ~exposed' PROVE NothingAbove'
    BY DEF NothingAbove
  <2>1. ~exposed
    BY <1>1 DEF TypeOK
  <2>2. ~(ceiling < ceiling - Retention + 1)
    BY <1>4, ConfigTypes DEF Numbers
  <2>3. headers'[ceiling] # NoHeader
    <3>1. CASE ceiling = l
      <4>1. headers'[ceiling] = Used(l, l)
        BY <1>2, <1>6, <2>2, <3>1 DEF Needed
      <4> QED
        BY <1>2, <4>1, UsedHeader DEF Headers, NoHeader, NoBlock
    <3>2. CASE checkpoint # NoBlock /\ ceiling = checkpoint /\ l < checkpoint
      <4>1. ceiling \notin Needed(f, l)
        BY <1>3, <1>11, <3>2
      <4>2. headers'[ceiling] = headers[checkpoint]
        BY <1>4, <1>6, <2>2, <3>2, <4>1
      <4> QED
        BY <2>1, <3>2, <4>2 DEF NothingAbove, Retained
    <3> QED
      BY <1>4, <3>1, <3>2
  <2>4. ASSUME NEW n \in Numbers, n > ceiling PROVE headers'[n] = NoHeader
    <3>1. n > l /\ n > checkpoint
      BY <1>3, <1>4, <2>4 DEF Numbers, NoBlock
    <3>2. n \notin Needed(f, l)
      BY <1>3, <1>11, <3>1 DEF Numbers
    <3> QED
      BY <1>6, <2>1, <3>1, <3>2 DEF NothingAbove
  <2>5. ASSUME NEW i \in Logs PROVE stored'[i] <= Larger(0, ceiling)
    <3>1. Larger(0, ceiling) = ceiling /\ Larger(0, checkpoint) <= ceiling
      BY <1>3, <1>4 DEF Larger, Numbers, NoBlock
    <3>2. CASE i \in LogsIn(f, l)
      <4>1. stored'[i] = onchain[i] /\ onchain[i] <= l /\ onchain[i] \in Nat
        BY <1>6, <3>2 DEF LogsIn, TypeOK, Numbers
      <4>2. ceiling \in Nat /\ l <= ceiling
        BY <1>4 DEF Numbers
      <4> QED
        BY <1>3, <3>1, <4>1, <4>2
    <3>3. CASE i \notin LogsIn(f, l)
      <4>1. stored[i] <= Larger(0, checkpoint) /\ stored[i] \in Nat
        BY <2>1 DEF NothingAbove, TypeOK, Numbers
      <4>2. Larger(0, checkpoint) \in Int /\ ceiling \in Int
        BY <1>3, <1>4 DEF Larger, Numbers, NoBlock
      <4> QED
        BY <1>6, <3>1, <3>3, <4>1, <4>2
    <3> QED
      BY <3>2, <3>3
  <2> QED
    BY <1>1, <1>4, <2>3, <2>4, <2>5 DEF NothingAbove, Retained
<1>13. HeadersCertify'
  <2> SUFFICES ASSUME ~exposed' PROVE HeadersCertify'
    BY DEF HeadersCertify
  <2>1. ~exposed /\ ~Raced(f)
    BY <1>1 DEF TypeOK
  <2>2. checkpoint # NoBlock => headers[checkpoint].hash = branch[checkpoint]
    BY CommitOverChain
  <2>3. checkpoint # NoBlock => AgreesTo(checkpoint)
    BY <1>3, <2>1, <2>2 DEF HeadersCertify
  <2>4. ASSUME NEW n \in Numbers, n <= ceiling, NEW i \in Logs,
               NEW b \in Larger(1, start) .. n
        PROVE  onchain[i] = b <=> stored'[i] = b
    <3>1. b \in Numbers /\ b \in Nat /\ b >= 1 /\ b >= start /\ b <= ceiling
      BY <1>4, <2>4, CertifiedBlock DEF Numbers
    <3>2. CASE i \in LogsIn(f, l)
      BY <1>6, <3>2
    <3>3. CASE i \notin LogsIn(f, l)
      <4>1. stored'[i] = stored[i] /\ stored[i] \in Nat /\ onchain[i] \in Nat
        BY <1>6, <3>3 DEF TypeOK, Numbers
      <4>2. CASE checkpoint # NoBlock /\ b <= checkpoint
        <5>1. b \in Larger(1, start) .. checkpoint
          BY <1>3, <2>4, <3>1, <4>2 DEF Larger
        <5> QED
          BY <2>3, <4>1, <4>2, <5>1 DEF AgreesTo
      <4>3. CASE ~(checkpoint # NoBlock /\ b <= checkpoint)
        <5>1. f <= b /\ b <= l
          BY <1>2, <1>3, <1>4, <3>1, <4>3 DEF Numbers, NoBlock
        <5>2. onchain[i] # b
          BY <3>1, <3>3, <4>1, <5>1 DEF LogsIn
        <5>3. stored[i] <= Larger(0, checkpoint) /\ Larger(0, checkpoint) < b
          BY <1>3, <2>1, <3>1, <4>3 DEF NothingAbove, Larger, NoBlock
        <5>4. Larger(0, checkpoint) \in Int
          BY <1>3 DEF Larger, NoBlock
        <5>5. stored[i] # b
          BY <3>1, <4>1, <5>3, <5>4
        <5> QED
          BY <4>1, <5>2, <5>5
      <4> QED
        BY <4>2, <4>3
    <3> QED
      BY <3>2, <3>3
  <2> QED
    BY <1>1, <2>4 DEF HeadersCertify, AgreesTo, chain
<1> QED
  BY <1>5, <1>7, <1>8, <1>9, <1>10, <1>12, <1>13

(* A manual range, with the service stopped. *)
LEMMA BackfillStep ==
  ASSUME IInv, Backfill
  PROVE  IInv'
<1> USE DEF IInv
<1>1. PICK f \in Numbers, l \in Numbers :
        /\ pc \in Stopped \cup {"down"} /\ Spend("backfills")
        /\ f <= l /\ Save("backfill", f, l)
        /\ exposed' = (exposed \/ l > checkpoint \/ Orphaned)
        /\ UNCHANGED <<chain, feed, watcher, checkpoint, start>>
  BY DEF Backfill
<1> DEFINE ceiling == Larger(l, Larger(0, checkpoint))
<1>2. /\ left' \in [Faults -> Nat] /\ left'["reorgs"] = left["reorgs"]
      /\ left'["links"] = left["links"]
  BY <1>1, SpendLeft DEF Faults
<1>3. /\ stored' \in [Logs -> Numbers]
      /\ headers' \in [Numbers -> Headers \cup {NoHeader}]
      /\ \A n \in Numbers : headers'[n].hash <= Tip
      /\ coverage' \in [Kinds -> SUBSET [first : Numbers, last : Numbers]]
      /\ CoverageCanonical' /\ coverage'["live"] = coverage["live"]
  BY <1>1, SaveStep DEF Kinds
<1>4. /\ stored' = [i \in Logs |-> IF i \in LogsIn(f, l) THEN onchain[i] ELSE stored[i]]
      /\ headers' = [n \in Numbers |->
                       IF n < ceiling - Retention + 1 THEN NoHeader
                       ELSE IF n \in Needed(f, l) THEN Used(n, l) ELSE headers[n]]
  BY <1>1 DEF Save
<1> HIDE DEF ceiling
<1>5. TypeOK'
  <2>1. exposed' \in BOOLEAN
    BY <1>1 DEF TypeOK, Orphaned
  <2> QED
    BY <1>1, <1>2, <1>3, <2>1 DEF TypeOK, chain, feed, watcher, Faults
<1>6. BoundsInv'
  BY <1>1, <1>2, <1>3 DEF BoundsInv, Tip, chain, feed, watcher
<1>7. CursorInv' /\ NoHoles'
  BY <1>1, <1>3 DEF CursorInv, NoHoles, watcher
<1>8. ASSUME ~exposed'
      PROVE  /\ ~exposed /\ checkpoint \in Numbers /\ checkpoint # NoBlock
             /\ l <= checkpoint /\ ceiling = checkpoint
             /\ headers[checkpoint].hash = branch[checkpoint]
             /\ \A n \in Needed(f, l) : n <= checkpoint
             /\ \A i \in LogsIn(f, l) : onchain[i] <= checkpoint
  <2>1. ~exposed /\ ~(l > checkpoint) /\ ~Orphaned
    BY <1>1, <1>8 DEF TypeOK
  <2>2. l \in Nat /\ (checkpoint = NoBlock \/ (checkpoint \in Nat /\ checkpoint \in Numbers))
    BY DEF TypeOK, Numbers
  <2>3. checkpoint \in Nat /\ checkpoint \in Numbers /\ checkpoint # NoBlock /\ l <= checkpoint
    BY <2>1, <2>2 DEF NoBlock
  <2>4. ceiling = checkpoint
    BY <2>2, <2>3 DEF ceiling, Larger
  <2>5. \A n \in Needed(f, l) : n \in Nat /\ n <= l
    BY <1>1, NeededBlocks DEF Numbers
  <2>6. \A i \in LogsIn(f, l) : onchain[i] \in Nat /\ onchain[i] <= l
    BY DEF LogsIn, TypeOK, Numbers
  <2> QED
    BY <2>1, <2>2, <2>3, <2>4, <2>5, <2>6 DEF Orphaned
<1>9. NothingAbove'
  <2> SUFFICES ASSUME ~exposed' PROVE NothingAbove'
    BY DEF NothingAbove
  <2>1. checkpoint \in Nat /\ ~(checkpoint < checkpoint - Retention + 1)
    BY <1>8, ConfigTypes DEF Numbers
  <2>2. headers'[checkpoint] # NoHeader
    <3>1. headers'[checkpoint] \in {Used(checkpoint, l), headers[checkpoint]}
      BY <1>4, <1>8, <2>1
    <3>2. Used(checkpoint, l) # NoHeader
      BY <1>8, UsedHeader DEF Headers, NoHeader, NoBlock
    <3> QED
      BY <1>8, <3>1, <3>2 DEF NothingAbove, Retained
  <2>3. ASSUME NEW n \in Numbers, n > checkpoint PROVE headers'[n] = NoHeader
    <3>1. n \notin Needed(f, l)
      BY <1>8, <2>1, <2>3 DEF Numbers
    <3> QED
      BY <1>4, <1>8, <2>3, <3>1 DEF NothingAbove
  <2>4. \A i \in Logs : stored'[i] <= Larger(0, checkpoint)
    <3>1. Larger(0, checkpoint) = checkpoint
      BY <2>1 DEF Larger
    <3> QED
      BY <1>4, <1>8, <3>1 DEF NothingAbove
  <2> QED
    BY <1>1, <1>8, <2>2, <2>3, <2>4 DEF NothingAbove, Retained
<1>10. HeadersCertify'
  <2> SUFFICES ASSUME ~exposed' PROVE HeadersCertify'
    BY DEF HeadersCertify
  <2>1. AgreesTo(checkpoint)
    BY <1>8 DEF HeadersCertify, Numbers
  <2>2. ASSUME NEW n \in Numbers, n <= checkpoint, NEW i \in Logs,
               NEW b \in Larger(1, start) .. n
        PROVE  onchain[i] = b <=> stored'[i] = b
    <3>1. b \in Larger(1, start) .. checkpoint
      BY <1>8, <2>2, CertifiedBlock DEF Numbers, Larger, TypeOK, NoBlock
    <3>2. CASE i \in LogsIn(f, l)
      BY <1>4, <3>2
    <3>3. CASE i \notin LogsIn(f, l)
      BY <1>4, <2>1, <3>1, <3>3 DEF AgreesTo
    <3> QED
      BY <3>2, <3>3
  <2> QED
    BY <1>1, <2>2 DEF HeadersCertify, AgreesTo, chain
<1> QED
  BY <1>3, <1>5, <1>6, <1>7, <1>9, <1>10

(* A step that changes nothing. *)
LEMMA StutterStep ==
  ASSUME IInv, UNCHANGED vars
  PROVE  IInv'
<1> USE DEF IInv
<1>1. UNCHANGED <<chain, durable, exposed>> /\ UNCHANGED <<feed, watcher, left>>
  BY DEF vars
<1>2. TypeOK'
  BY <1>1, StoreTypes DEF TypeOK, feed, watcher
<1>3. BoundsInv' /\ CursorInv'
  BY <1>1 DEF BoundsInv, CursorInv, Tip, chain, durable, feed, watcher
<1> QED
  BY <1>1, <1>2, <1>3, StoreFrame

(* The inductive invariant holds of every reachable state. *)
THEOREM InductiveInvariant == Spec => []IInv
<1>1. Init => IInv
  BY InitIInv
<1>2. IInv /\ [Next]_vars => IInv'
  <2> SUFFICES ASSUME IInv, [Next]_vars PROVE IInv'
    OBVIOUS
  <2>1. CASE Mine \/ Reorg
    BY <2>1, MineStep, ReorgStep
  <2>2. CASE Crash \/ Boot \/ OperatorRestart \/ CallFails \/ CallRefused
    BY <2>2, ProcessStep
  <2>3. CASE FeedConnect
    BY <2>3, FeedStep
  <2>4. CASE StepBegin
    BY <2>4, StepBeginStep
  <2>5. CASE Reconcile
    BY <2>5, CheckStep, RollBackStep DEF Reconcile
  <2>6. CASE ScanRange
    BY <2>6, NoRangeStep, ScanCommitStep DEF ScanRange
  <2>7. CASE Backfill
    BY <2>7, BackfillStep
  <2>8. CASE UNCHANGED vars
    BY <2>8, StutterStep
  <2> QED
    BY <2>1, <2>2, <2>3, <2>4, <2>5, <2>6, <2>7, <2>8 DEF Next, Chain, Watch
<1> QED
  BY <1>1, <1>2, PTL DEF Spec

(* Type correctness, for every configuration. *)
THEOREM TypeCorrect == Spec => []TypeOK
<1>1. IInv => TypeOK
  BY DEF IInv
<1> QED
  BY <1>1, InductiveInvariant, PTL

(* Every block from the live start to the cursor is covered, whatever the   *)
(* batch, the overlap and the order of crashes, reconnections, rollbacks    *)
(* and manual ranges.                                                       *)
THEOREM CoverageHasNoHoles == Spec => []NoHoles
<1>1. IInv => NoHoles
  BY DEF IInv
<1> QED
  BY <1>1, InductiveInvariant, PTL

(* Comparing one stored hash with the chain certifies everything stored     *)
(* below it: what reconcile relies on, for reorganisations of any depth.    *)
THEOREM OneHashCertifies == Spec => []CheckpointCertifies
<1>1. IInv => CheckpointCertifies
  <2> SUFFICES ASSUME IInv, checkpoint # NoBlock,
                      headers[checkpoint].hash = branch[checkpoint], ~exposed
               PROVE  Agrees
    BY DEF CheckpointCertifies
  <2>1. checkpoint \in Numbers /\ checkpoint <= checkpoint
    BY DEF IInv, TypeOK, Numbers
  <2> QED
    BY <2>1 DEF IInv, HeadersCertify, AgreesTo, Agrees
<1> QED
  BY <1>1, InductiveInvariant, PTL

------------------------------------------------------------------------------
(* The ancestor search.                                                     *)

(* The headers up to one that is on the chain are its ancestors.            *)
HeadersOnChain ==
  ~exposed =>
    \A n \in Numbers : n <= checkpoint /\ headers[n].hash = branch[n] =>
      \A m \in Numbers : m <= n /\ Retained(m) => headers[m].hash = branch[m]

(* A header that left the chain took every block from it to the checkpoint  *)
(* with it.                                                                 *)
ReplacedFrom ==
  ~exposed =>
    \A k \in Numbers : k <= checkpoint /\ Retained(k) /\ headers[k].hash # branch[k] =>
      \A n \in k .. checkpoint : branch[n] > headers[checkpoint].hash

(* What the search has passed over was not an ancestor, and stays none. *)
SearchInv ==
  pc = "search" =>
    \A k \in Numbers :
      /\ Retained(k) /\ probe <= k /\ k <= checkpoint
      /\ k >= Larger(0, checkpoint - ReorgDepth)
      => headers[k].hash # branch[k]

AncestryInv == HeadersOnChain /\ ReplacedFrom /\ SearchInv

(* Steps that leave the chain and the database alone, outside the search. *)
LEMMA AncestryFrame ==
  ASSUME AncestryInv, UNCHANGED <<chain, headers, exposed, checkpoint>>,
         pc' # "search" \/ UNCHANGED <<pc, probe>>
  PROVE  AncestryInv'
BY DEF AncestryInv, HeadersOnChain, ReplacedFrom, SearchInv, Retained, chain

(* The blocks between a header and the checkpoint. *)
LEMMA UpToCheckpoint ==
  ASSUME TypeOK, NEW k \in Numbers, NEW n \in k .. checkpoint
  PROVE  /\ n \in Numbers /\ n <= checkpoint /\ k <= n /\ checkpoint \in Numbers
         /\ n \in Nat /\ k \in Nat
<1>1. k \in Nat /\ MaxBlock \in Nat /\ checkpoint \in Int /\ checkpoint <= MaxBlock
  BY ConfigTypes DEF TypeOK, Numbers, NoBlock
<1>2. n \in Nat /\ k <= n /\ n <= checkpoint
  BY <1>1
<1> QED
  BY <1>1, <1>2 DEF Numbers

(* A new block is above every stored header. *)
LEMMA MineAncestry ==
  ASSUME IInv, AncestryInv, Mine
  PROVE  AncestryInv'
<1> USE DEF IInv
<1>1. /\ head' = head + 1 /\ branch' = [branch EXCEPT ![head + 1] = Tip]
      /\ UNCHANGED <<watcher, durable, exposed>>
  BY DEF Mine
<1>2. head \in Nat /\ checkpoint \in Int /\ checkpoint <= head
  BY DEF TypeOK, BoundsInv, Numbers, NoBlock
<1>3. \A n \in Numbers : n <= checkpoint => branch'[n] = branch[n]
  BY <1>1, <1>2 DEF TypeOK, Numbers
<1>4. \A n \in Numbers : n <= checkpoint => \A m \in Numbers : m <= n => m <= checkpoint
  BY <1>2 DEF Numbers
<1>5. ASSUME NEW k \in Numbers, NEW n \in k .. checkpoint
      PROVE  n \in Numbers /\ n <= checkpoint
  BY UpToCheckpoint
<1>6. UNCHANGED <<headers, checkpoint, pc, probe, exposed>>
  BY <1>1 DEF watcher, durable
<1>7. HeadersOnChain'
  BY <1>3, <1>4, <1>6 DEF AncestryInv, HeadersOnChain, Retained
<1>8. ReplacedFrom'
  BY <1>3, <1>5, <1>6 DEF AncestryInv, ReplacedFrom, Retained
<1>9. SearchInv'
  BY <1>3, <1>6 DEF AncestryInv, SearchInv, Retained
<1> QED
  BY <1>7, <1>8, <1>9 DEF AncestryInv

(* A reorganisation takes a header and everything above it, or neither. *)
LEMMA ReorgAncestry ==
  ASSUME IInv, AncestryInv, Reorg
  PROVE  AncestryInv'
<1> USE DEF IInv
<1>1. PICK fork \in 1 .. head :
        branch' = [n \in Numbers |-> IF fork <= n /\ n <= head THEN Tip + 1 ELSE branch[n]]
  BY DEF Reorg
<1>2. UNCHANGED <<watcher, durable, exposed>>
  BY DEF Reorg
<1>3. head \in Nat /\ fork \in Nat /\ checkpoint \in Int /\ checkpoint <= head
  BY <1>1 DEF TypeOK, BoundsInv, Numbers, NoBlock
<1>4. /\ Tip \in Int
      /\ \A n \in Numbers : branch[n] \in Nat /\ branch[n] <= Tip
                             /\ headers[n].hash \in Int /\ headers[n].hash <= Tip
  BY ConfigTypes DEF Tip, TypeOK, BoundsInv, Headers, NoHeader, NoBlock
<1>5. \A n \in Numbers : n <= checkpoint =>
        /\ n < fork => branch'[n] = branch[n]
        /\ ~(n < fork) => branch'[n] = Tip + 1
        /\ headers[n].hash = branch'[n] => n < fork
        /\ headers[n].hash # branch[n] => headers[n].hash # branch'[n]
  BY <1>1, <1>3, <1>4 DEF Numbers
<1>6. UNCHANGED <<headers, checkpoint, pc, probe, exposed>>
  BY <1>2 DEF watcher, durable
<1>7. HeadersOnChain'
  <2>1. SUFFICES ASSUME ~exposed, NEW n \in Numbers, n <= checkpoint,
                        headers[n].hash = branch'[n],
                        NEW m \in Numbers, m <= n, Retained(m)
                 PROVE  headers[m].hash = branch'[m]
    BY <1>6 DEF HeadersOnChain, Retained
  <2>2. n < fork /\ headers[n].hash = branch[n]
    BY <1>5, <2>1
  <2>3. m < fork /\ m <= checkpoint
    BY <1>3, <2>1, <2>2 DEF Numbers
  <2> QED
    BY <1>5, <2>1, <2>2, <2>3 DEF AncestryInv, HeadersOnChain
<1>8. ReplacedFrom'
  <2>1. SUFFICES ASSUME ~exposed, NEW k \in Numbers, k <= checkpoint, Retained(k),
                        headers[k].hash # branch'[k], NEW n \in k .. checkpoint
                 PROVE  branch'[n] > headers[checkpoint].hash
    BY <1>6 DEF ReplacedFrom, Retained
  <2>2. /\ n \in Numbers /\ n <= checkpoint /\ k <= n /\ checkpoint \in Numbers
        /\ n \in Nat /\ k \in Nat
    BY <2>1, UpToCheckpoint
  <2>3. CASE n < fork
    <3>1. branch'[n] = branch[n] /\ branch'[k] = branch[k]
      BY <1>3, <1>5, <2>1, <2>2, <2>3
    <3> QED
      BY <2>1, <3>1 DEF AncestryInv, ReplacedFrom
  <2>4. CASE ~(n < fork)
    <3>1. branch'[n] = Tip + 1
      BY <1>5, <2>2, <2>4
    <3>2. headers[checkpoint].hash \in Int /\ headers[checkpoint].hash <= Tip
      BY <1>4, <2>2
    <3> QED
      BY <1>4, <1>6, <3>1, <3>2
  <2> QED
    BY <2>3, <2>4
<1>9. SearchInv'
  BY <1>5, <1>6 DEF AncestryInv, SearchInv, Retained
<1> QED
  BY <1>7, <1>8, <1>9 DEF AncestryInv

(* The search moves down past one more header that is not on the chain. *)
LEMMA SearchAncestry ==
  ASSUME IInv, AncestryInv, CheckDiffers \/ SearchOn
  PROVE  AncestryInv'
<1> USE DEF IInv
<1>1. UNCHANGED <<chain, headers, exposed, checkpoint>>
  BY DEF CheckDiffers, SearchOn, durable
<1>2. HeadersOnChain' /\ ReplacedFrom'
  BY <1>1 DEF AncestryInv, HeadersOnChain, ReplacedFrom, Retained, chain
<1>3. CASE CheckDiffers
  <2>1. probe' = checkpoint /\ headers[checkpoint].hash # branch[checkpoint]
        /\ checkpoint \in Int
    BY <1>3 DEF CheckDiffers, BlockAt, TypeOK, Numbers, NoBlock
  <2>2. \A k \in Numbers : checkpoint <= k /\ k <= checkpoint => k = checkpoint
    BY <2>1 DEF Numbers
  <2>3. SearchInv'
    BY <1>1, <2>1, <2>2 DEF SearchInv, chain
  <2> QED
    BY <1>2, <2>3 DEF AncestryInv
<1>4. CASE SearchOn
  <2> DEFINE a == NextAncestor
  <2>1. /\ pc = "search" /\ probe' = a /\ a \in Ancestors
        /\ headers[a].hash # branch[a]
        /\ \A m \in Ancestors : m <= a
    BY <1>4, HighestAncestor DEF SearchOn, BlockAt
  <2>2. a \in Int /\ probe \in Int
    BY <2>1 DEF Ancestors, TypeOK, Numbers
  <2> HIDE DEF a
  <2>3. ASSUME NEW k \in Numbers, Retained(k), a <= k, k <= checkpoint,
               k >= Larger(0, checkpoint - ReorgDepth)
        PROVE  headers[k].hash # branch[k]
    <3>1. k \in Int
      BY DEF Numbers
    <3>2. CASE probe <= k
      BY <2>1, <2>3, <3>2 DEF AncestryInv, SearchInv
    <3>3. CASE k < probe
      <4>1. k \in Ancestors
        BY <2>3, <3>3 DEF Ancestors
      <4>2. k = a
        BY <2>1, <2>2, <2>3, <3>1, <4>1
      <4> QED
        BY <2>1, <4>2
    <3> QED
      BY <2>2, <3>1, <3>2, <3>3
  <2>4. SearchInv'
    BY <1>1, <2>1, <2>3 DEF SearchInv, Retained, chain
  <2> QED
    BY <1>2, <2>4 DEF AncestryInv
<1> QED
  BY <1>3, <1>4

(* Below the ancestor every header is on the chain. *)
LEMMA RollBackAncestry ==
  ASSUME IInv, AncestryInv, RollBack
  PROVE  AncestryInv'
<1> USE DEF IInv
<1>1. PICK a \in Ancestors :
        /\ Found(a) /\ a >= start
        /\ headers' = [m \in Numbers |-> IF m > a THEN NoHeader ELSE headers[m]]
        /\ checkpoint' = a /\ pc' = "range"
        /\ UNCHANGED <<chain, exposed>>
  BY DEF RollBack
<1>2. /\ pc = "search" /\ headers[a].hash = branch[a] /\ a \in Numbers /\ Retained(a)
      /\ a < probe
  BY <1>1 DEF Found, Ancestors, BlockAt
<1>3. a \in Nat /\ a <= checkpoint
  BY <1>2 DEF CursorInv, TypeOK, Numbers, NoBlock
<1>4. ASSUME ~exposed, NEW m \in Numbers, m <= a, Retained(m)'
      PROVE  headers'[m].hash = branch'[m]
  <2>1. m \in Nat /\ headers'[m] = headers[m]
    BY <1>1, <1>3, <1>4 DEF Numbers
  <2>2. Retained(m)
    BY <1>4, <2>1 DEF Retained
  <2> QED
    BY <1>1, <1>2, <1>3, <1>4, <2>1, <2>2 DEF AncestryInv, HeadersOnChain, chain
<1>5. \A n \in Numbers : n <= a => \A m \in Numbers : m <= n => m <= a
  BY <1>3 DEF Numbers
<1>6. HeadersOnChain'
  BY <1>1, <1>4, <1>5 DEF HeadersOnChain
<1>7. ReplacedFrom'
  BY <1>1, <1>4 DEF ReplacedFrom
<1>8. SearchInv'
  BY <1>1 DEF SearchInv
<1> QED
  BY <1>6, <1>7, <1>8 DEF AncestryInv

(* A range written over a checkpoint that is on the chain stores headers of *)
(* the chain only.                                                          *)
LEMMA SaveAncestry ==
  ASSUME IInv, AncestryInv, NEW kind \in Kinds, NEW f \in Numbers, NEW l \in Numbers,
         f <= l, Save(kind, f, l), UNCHANGED chain, ~exposed,
         checkpoint # NoBlock => headers[checkpoint].hash = branch[checkpoint]
  PROVE  \A m \in Numbers : Retained(m)' => headers'[m].hash = branch'[m]
<1> USE DEF IInv
<1>1. SUFFICES ASSUME NEW m \in Numbers, Retained(m)'
               PROVE  headers'[m].hash = branch[m]
  BY DEF chain
<1>2. headers'[m] \in {NoHeader, BlockAt(m), headers[m]}
  BY DEF Save, Used
<1>3. headers'[m] # NoHeader
  BY <1>1 DEF Retained
<1>4. CASE headers'[m] = BlockAt(m)
  BY <1>4 DEF BlockAt
<1>5. CASE headers'[m] = headers[m]
  <2>1. Retained(m) /\ ~(m > checkpoint)
    BY <1>1, <1>3, <1>5 DEF Retained, NothingAbove
  <2>2. m \in Int /\ checkpoint \in Int /\ m >= 0
    BY DEF TypeOK, Numbers, NoBlock
  <2>3. m <= checkpoint /\ checkpoint # NoBlock /\ checkpoint \in Numbers
    BY <2>1, <2>2 DEF NoBlock, TypeOK
  <2>4. headers[m].hash = branch[m]
    BY <2>1, <2>2, <2>3 DEF AncestryInv, HeadersOnChain
  <2> QED
    BY <1>5, <2>4
<1> QED
  BY <1>2, <1>3, <1>4, <1>5

(* A commit leaves headers of the chain only. *)
LEMMA RangeAncestry ==
  ASSUME IInv, AncestryInv, ScanCommit \/ Backfill
  PROVE  AncestryInv'
<1>1. SearchInv'
  BY DEF SearchInv, ScanCommit, Backfill, watcher, Exit, Stopped
<1>2. ASSUME ~exposed' PROVE HeadersOnChain' /\ ReplacedFrom'
  <2>1. \A m \in Numbers : Retained(m)' => headers'[m].hash = branch'[m]
    <3>1. CASE ScanCommit
      <4>1. /\ Save("live", nextBlock, RangeEnd) /\ UNCHANGED chain
            /\ exposed' = (exposed \/ Raced(nextBlock))
            /\ nextBlock \in Numbers /\ RangeEnd \in Numbers /\ nextBlock <= RangeEnd
        BY <3>1, RangeBounds DEF ScanCommit
      <4>2. ~exposed
        BY <1>2, <4>1 DEF IInv, TypeOK
      <4>3. checkpoint # NoBlock => headers[checkpoint].hash = branch[checkpoint]
        BY <1>2, <3>1, CommitOverChain
      <4> QED
        BY <4>1, <4>2, <4>3, SaveAncestry DEF Kinds
    <3>2. CASE Backfill
      <4>1. PICK f \in Numbers, l \in Numbers :
              /\ f <= l /\ Save("backfill", f, l) /\ UNCHANGED chain
              /\ exposed' = (exposed \/ l > checkpoint \/ Orphaned)
        BY <3>2 DEF Backfill
      <4>2. ~exposed /\ ~Orphaned
        BY <1>2, <4>1 DEF IInv, TypeOK
      <4> QED
        BY <4>1, <4>2, SaveAncestry DEF Kinds, Orphaned
    <3> QED
      BY <3>1, <3>2
  <2> QED
    BY <2>1 DEF HeadersOnChain, ReplacedFrom
<1> QED
  BY <1>1, <1>2 DEF AncestryInv, HeadersOnChain, ReplacedFrom

(* What the search knows, in every reachable state. *)
THEOREM AncestryInvariant == Spec => []AncestryInv
<1>1. Init => AncestryInv
  <2> SUFFICES ASSUME Init PROVE AncestryInv
    OBVIOUS
  <2>1. \A n \in Numbers : ~(n <= checkpoint)
    BY DEF Init, Numbers, NoBlock
  <2> QED
    BY <2>1 DEF Init, AncestryInv, HeadersOnChain, ReplacedFrom, SearchInv
<1>2. IInv /\ AncestryInv /\ [Next]_vars => AncestryInv'
  <2> SUFFICES ASSUME IInv, AncestryInv, [Next]_vars PROVE AncestryInv'
    OBVIOUS
  <2>1. CASE Mine \/ Reorg
    BY <2>1, MineAncestry, ReorgAncestry
  <2>2. CASE Crash \/ Boot \/ OperatorRestart \/ FeedConnect
    BY <2>2, AncestryFrame
       DEF Crash, Boot, OperatorRestart, FeedConnect, Exit, durable, watcher
  <2>3. CASE CallFails \/ CallRefused
    BY <2>3, AncestryFrame DEF CallFails, CallRefused, Fail, Exit, durable
  <2>4. CASE StepBegin
    BY <2>4, AncestryFrame DEF StepBegin, Exit
  <2>5. CASE CheckAgrees \/ CheckLags \/ NoAncestor \/ AncestorBelowStart
    BY <2>5, AncestryFrame
       DEF CheckAgrees, CheckLags, NoAncestor, AncestorBelowStart, Fail, Exit, durable
  <2>6. CASE CheckDiffers \/ SearchOn \/ RollBack
    BY <2>6, SearchAncestry, RollBackAncestry
  <2>7. CASE NothingNew \/ ScanHeld
    BY <2>7, AncestryFrame DEF NothingNew, ScanHeld, Fail, Exit, durable
  <2>8. CASE ScanCommit \/ Backfill
    BY <2>8, RangeAncestry
  <2>9. CASE UNCHANGED vars
    BY <2>9, AncestryFrame DEF vars, durable, watcher
  <2> QED
    BY <2>1, <2>2, <2>3, <2>4, <2>5, <2>6, <2>7, <2>8, <2>9
       DEF Next, Chain, Watch, Reconcile, ScanRange
<1> QED
  BY <1>1, <1>2, InductiveInvariant, PTL DEF Spec

(* reconcile gives up only on a reorganisation that replaced every block    *)
(* from the lowest header within MAX_REORG_DEPTH on, whatever the chain did *)
(* between the reads of the search.                                         *)
THEOREM GivesUpOnlyOnDeepForks == Spec => OnlyDeepForksStop
<1> DEFINE P == NoAncestor /\ ~exposed =>
                  \A n \in start .. checkpoint :
                    (\E m \in Larger(start, checkpoint - ReorgDepth) .. n : Retained(m))
                    => branch[n] > headers[checkpoint].hash
<1>1. IInv /\ AncestryInv => P
  <2> SUFFICES ASSUME IInv, AncestryInv, NoAncestor, ~exposed,
                      NEW n \in start .. checkpoint,
                      NEW m \in Larger(start, checkpoint - ReorgDepth) .. n, Retained(m)
               PROVE  branch[n] > headers[checkpoint].hash
    OBVIOUS
  <2>1. /\ pc = "search" /\ Ancestors = {} /\ checkpoint # NoBlock
        /\ probe <= checkpoint
    BY DEF NoAncestor, IInv, CursorInv
  <2>2. /\ checkpoint \in Nat /\ start \in Nat /\ probe \in Nat /\ ReorgDepth \in Nat
    BY <2>1, ConfigTypes DEF IInv, TypeOK, CursorInv, Numbers, NoBlock
  <2>3. /\ m \in Numbers /\ m \in Int /\ n \in Int /\ m <= n /\ n <= checkpoint
        /\ m >= Larger(start, checkpoint - ReorgDepth)
    BY <2>2 DEF Retained, Larger
  <2>4. m >= Larger(0, checkpoint - ReorgDepth) /\ m <= checkpoint
    BY <2>2, <2>3 DEF Larger
  <2>5. probe <= m
    BY <2>1, <2>2, <2>3, <2>4 DEF Ancestors
  <2>6. headers[m].hash # branch[m]
    BY <2>1, <2>3, <2>4, <2>5 DEF AncestryInv, SearchInv
  <2>7. n \in m .. checkpoint
    BY <2>2, <2>3
  <2> QED
    BY <2>3, <2>4, <2>6, <2>7 DEF AncestryInv, ReplacedFrom
<1>2. P => [P]_vars
  OBVIOUS
<1> QED
  BY <1>1, <1>2, InductiveInvariant, AncestryInvariant, PTL DEF OnlyDeepForksStop

(***************************************************************************)
(* 2. The worker's gap recovery and the offline drain.                     *)
(*                                                                         *)
(* The inductive invariant.                                                *)
(***************************************************************************)
GapRows  == [first : Nat, end : Nat, open : BOOLEAN]
JobRows  == [from : Nat, upto : Nat, next : Nat, rows : SUBSET (Int \X Int)]
StageRows == [head : Nat, at : Nat, job : [Filters -> JobRows]]
WorkRows == [phase : {"idle", "ask", "stored", "verify"}, s : Stages, kind : Filters,
             from : Nat, to : Nat]

DrainTypes ==
    /\ Grad < FirstHead
    /\ tip \in FirstHead..MaxTip /\ lcb \in FirstHead..tip /\ up \in BOOLEAN
    /\ events \subseteq Happened /\ cursor \in [Filters -> Nat]
    /\ gaps \in [Ids -> GapRows] /\ bounds \in [Ids -> Nat]
    /\ stage \in [Stages -> StageRows] /\ work \in WorkRows
    /\ round \in 0..MaxRounds /\ safe \in BOOLEAN

\* The trades of the pool that are not stored; the curve ended before the first head.
Edge     == Least(tip, EndBlock)
Missing  == {b \in Grad..Edge : <<"v4", b>> \notin events}
CurveWhole == {"curve"} \X (1..Grad) \subseteq events
Guarded(b) == \E g \in OpenGaps : b \in Of(g)

\* Where a missing trade is: behind an open gap, or in what the worker will find on its return.
Losses ==
    /\ CurveWhole /\ cursor["v4"] \in FirstHead..tip
    /\ \A b \in Missing : Guarded(b) \/ (~up /\ ~over /\ lcb < b)
    /\ \A b \in Missing : b <= cursor["v4"] => Guarded(b)
    /\ \A g \in Ids \ (OpenGaps \cup Fresh) : \A b \in Missing : b \notin Of(g)
    /\ over => Expired
    /\ safe => ~up /\ OpenGaps = {}

\* A gap was opened on a return, and bounds bracket its end.
GapBounds ==
    /\ ~up => Fresh # {}
    /\ \A g \in Ids \ Fresh : gaps[g].first \in FirstHead..tip /\ gaps[g].end <= Now
    /\ \A g \in Fresh : bounds[g] = 0
    /\ \A g \in Ids : bounds[g] # 0 =>
          /\ gaps[g].first <= bounds[g] /\ bounds[g] <= Edge
          /\ Least(gaps[g].end, WindowEnd) < At(bounds[g] + 1)

\* A job of filter k under head h: inside the filter's period up to e, over trades of ev.
JobHolds(k, j, h, e, ev) ==
    \/ j = NoJob
    \/ /\ From(k) <= j.from /\ j.from <= j.upto /\ j.upto <= To(k, e) /\ From(k) <= j.next
       /\ k = "v4" => j.upto = h /\ {"v4"} \X Covers(j.rows) \subseteq ev

\* Where the job of the pool may begin, and what its head has to reach.
Aim(s, j) ==
    j # NoJob =>
        /\ s[1] \in {"live", "drain"} => j.from <= cursor["v4"] + 1
        /\ s[1] = "live" => LET g == gaps[s[2]] IN
              s[2] \notin Fresh /\ j.from <= g.first /\ g.end <= At(j.upto)
        /\ s[1] = "expired" => j.from = gaps[s[2]].first /\ j.upto = bounds[s[2]]
        /\ s[1] = "drain" => s[2] <= round

StageHolds(s, st) ==
    /\ st.at = st.head /\ st.head <= Edge
    /\ \A k \in Filters : JobHolds(k, st.job[k], st.head, Edge, events)
    /\ Aim(s, st.job["v4"])
Proofs == \A s \in Stages : StageHolds(s, stage[s])

\* The chunk under way lies inside the job it was cut from.
Chunk ==
    /\ pendingd => round > 0
    /\ work # Idle => (up \/ round > 0) /\ (work.s[1] = "expired" => bounds[work.s[2]] # 0)
    /\ work.phase \in {"ask", "stored"} =>
          LET j == stage[work.s].job[work.kind] IN
          j # NoJob /\ From(work.kind) <= work.from /\ work.from <= work.to /\ work.to <= j.upto
    /\ work.phase = "stored" => Fetched \subseteq events

DrainInv == DrainTypes /\ Losses /\ GapBounds /\ Proofs /\ Chunk

(***************************************************************************)
(* Lemmas about the operators.                                             *)
(***************************************************************************)
LEMMA WindowFacts ==
    /\ Grad \in Nat /\ Grad >= 1 /\ EndBlock \in Nat /\ MaxTip \in Nat /\ MaxGaps \in Nat
    /\ MaxGaps >= 1 /\ Span \in Nat /\ Overlap \in Nat /\ MaxRounds \in Nat /\ HttpLag \in Nat /\ FirstHead \in Nat
    /\ Grad < EndBlock /\ EndBlock <= MaxTip /\ Grad <= FirstHead /\ FirstHead <= EndBlock
<1>1. Grad \in Nat \ {0} /\ EndBlock \in Nat \ {0} /\ MaxTip \in Nat \ {0} /\ MaxGaps \in Nat \ {0}
      /\ Span \in Nat \ {0} /\ Overlap \in Nat /\ MaxRounds \in Nat /\ HttpLag \in Nat
  BY WindowAssumption
<1>2. FirstHead \in Grad..EndBlock
  BY WindowAssumption
<1> QED
  BY <1>1, <1>2, WindowAssumption

\* A set of block numbers that is not empty has a least member, and below a bound a greatest.
LEMMA MinOfNumbers ==
    ASSUME NEW S, S \subseteq Nat, S # {}
    PROVE  Min(S) \in S /\ \A c \in S : Min(S) <= c
<1>1. PICK m \in S : \A i \in S : ~(<<i, m>> \in OpToRel(<, Nat))
  BY NatLessThanWellFounded, WFMin
<1>2. \A i \in S : ~(i < m)
  BY <1>1 DEF OpToRel
<1>3. \E m1 \in S : \A c \in S : m1 <= c
  BY <1>2
<1> QED
  BY <1>3 DEF Min

LEMMA MaxOfNumbers ==
    ASSUME NEW n \in Nat, NEW S, S \subseteq 0..n, S # {}
    PROVE  Max(S) \in S /\ \A c \in S : c <= Max(S)
<1> DEFINE D == {n - b : b \in S}
<1>1. \A b \in S : b \in Nat /\ b <= n
  OBVIOUS
<1>2. \A b \in S : n - b \in Nat /\ n - b \in D
  BY <1>1
<1>3. D \subseteq Nat /\ D # {}
  BY <1>2
<1>4. Min(D) \in D /\ \A e \in D : Min(D) <= e
  BY <1>3, MinOfNumbers
<1>5. PICK b \in S : Min(D) = n - b
  BY <1>4
<1>6. ASSUME NEW c \in S PROVE c <= b
  <2>1. n - b <= n - c
    BY <1>2, <1>4, <1>5
  <2> QED
    BY <2>1, <1>1
<1>7. \A c \in S : b >= c
  BY <1>6, <1>1
<1>8. \E x \in S : \A y \in S : x >= y
  BY <1>7
<1>9. Max(S) \in S /\ \A y \in S : Max(S) >= y
  BY <1>8 DEF Max
<1> QED
  BY <1>9, <1>1

\* Before the window's end the curve has ended, and the pool has been traded since the graduation.
LEMMA TrackedBlocks ==
    ASSUME NEW h \in Nat, Grad < h
    PROVE  Tracked(h) = ({"curve"} \X (1..Grad)) \cup ({"v4"} \X (Grad..Least(h, EndBlock)))
<1>1. /\ From("curve") = 1 /\ To("curve", Least(h, EndBlock)) = Grad
      /\ From("v4") = Grad /\ To("v4", Least(h, EndBlock)) = Least(h, EndBlock)
  BY WindowFacts DEF From, To, Least
<1>2. Tracked(h) = UNION {{k} \X (From(k)..To(k, Least(h, EndBlock))) : k \in {"curve", "v4"}}
  BY DEF Tracked, Filters
<1> QED
  BY <1>1, <1>2

LEMMA EdgeFacts ==
    ASSUME DrainTypes
    PROVE  /\ tip \in Nat /\ Edge \in Nat /\ FirstHead <= Edge /\ Edge <= tip /\ Edge <= EndBlock
           /\ Grad < Edge /\ Grad < tip /\ (~Expired => Edge = tip)
           /\ Happened = ({"curve"} \X (1..Grad)) \cup ({"v4"} \X (Grad..Edge))
<1>1. /\ tip \in Nat /\ Edge \in Nat /\ FirstHead <= Edge /\ Edge <= tip /\ Edge <= EndBlock
      /\ Grad < Edge /\ Grad < tip /\ (~Expired => Edge = tip)
  BY WindowFacts DEF DrainTypes, Edge, Least, Expired
<1> QED
  BY <1>1, TrackedBlocks DEF Happened, Edge

LEMMA CoversOfUnion ==
    ASSUME NEW A, NEW B
    PROVE  Covers(A \cup B) = Covers(A) \cup Covers(B)
  BY DEF Covers

LEMMA CoversOfRow ==
    ASSUME NEW a, NEW b
    PROVE  Covers({<<a, b>>}) = a..b
  BY DEF Covers

LEMMA CoversOfNone == Covers({}) = {}
  BY DEF Covers

LEMMA CoversOfRuns ==
    ASSUME NEW B
    PROVE  Covers(Runs(B)) \subseteq B /\ Runs(B) \subseteq B \X B
<1>1. \A r \in Runs(B) : r[1]..r[2] \subseteq B
  BY DEF Runs
<1> QED
  BY <1>1 DEF Covers, Runs

\* What is proved anywhere is stored.
LEMMA CompatibleIsStored ==
    ASSUME Proofs, NEW from, NEW upto
    PROVE  /\ {"v4"} \X Compatible("v4", from, upto) \subseteq events
           /\ \A k \in Filters : Compatible(k, from, upto) \subseteq from..upto
<1>1. \A k \in Filters : Compatible(k, from, upto) \subseteq from..upto
  BY DEF Compatible
<1>2. ASSUME NEW b \in Compatible("v4", from, upto) PROVE <<"v4", b>> \in events
  <2> DEFINE R(s) == {r \in stage[s].job["v4"].rows : r[2] < stage[s].job["v4"].next}
  <2>1. b \in Covers(UNION {R(s) : s \in Stages})
    BY <1>2 DEF Compatible
  <2>2. PICK s \in Stages : \E r \in R(s) : b \in r[1]..r[2]
    BY <2>1 DEF Covers
  <2>3. b \in Covers(stage[s].job["v4"].rows)
    BY <2>2 DEF Covers
  <2>4. JobHolds("v4", stage[s].job["v4"], stage[s].head, Edge, events)
    BY DEF Proofs, StageHolds, Filters
  <2>5. stage[s].job["v4"] # NoJob
    BY <2>3 DEF NoJob, Covers
  <2> QED
    BY <2>3, <2>4, <2>5 DEF JobHolds
<1> QED
  BY <1>1, <1>2

\* Skipping the rows that are there keeps a job's bounds and its proof.
LEMMA WalkedHolds ==
    ASSUME DrainTypes, NEW k \in Filters, NEW h, NEW e, NEW ev, NEW j \in JobRows, j # NoJob, JobHolds(k, j, h, e, ev)
    PROVE  /\ Walked(j) \in JobRows /\ Walked(j) # NoJob /\ JobHolds(k, Walked(j), h, e, ev)
           /\ Walked(j).from = j.from /\ Walked(j).upto = j.upto /\ Walked(j).rows = j.rows
<1> DEFINE n == IF Holes(j) = {} THEN j.upto + 1 ELSE Min(Holes(j))
<1>1. /\ From(k) \in Nat /\ From(k) >= 1 /\ From(k) <= j.from /\ j.from <= j.upto /\ From(k) <= j.next
      /\ j.from \in Nat /\ j.upto \in Nat /\ j.next \in Nat
  BY WindowFacts DEF JobHolds, JobRows, From
<1>2. n \in Nat /\ From(k) <= n
  <2>1. CASE Holes(j) = {}
    BY <1>1, <2>1
  <2>2. CASE Holes(j) # {}
    <3>1. Holes(j) \subseteq j.next..j.upto
      BY DEF Holes
    <3>2. Holes(j) \subseteq Nat
      BY <1>1, <3>1
    <3>3. Min(Holes(j)) \in Holes(j)
      BY <2>2, <3>2, MinOfNumbers
    <3> HIDE DEF Holes
    <3> QED
      BY <1>1, <2>2, <3>1, <3>3
  <2> QED
    BY <2>1, <2>2
<1>3. Walked(j) = [j EXCEPT !.next = n]
  BY DEF Walked
<1> HIDE DEF n
<1>4. /\ Walked(j) \in JobRows /\ Walked(j).from = j.from /\ Walked(j).upto = j.upto
      /\ Walked(j).rows = j.rows /\ Walked(j).next = n
  BY <1>2, <1>3 DEF JobRows
<1>5. Walked(j) # NoJob
  BY <1>1, <1>4 DEF NoJob
<1> QED
  BY <1>2, <1>4, <1>5 DEF JobHolds

LEMMA WalkedAllHolds ==
    ASSUME DrainTypes, NEW h, NEW e, NEW ev, NEW job \in [Filters -> JobRows],
           \A k \in Filters : JobHolds(k, job[k], h, e, ev)
    PROVE  /\ WalkedAll(job) \in [Filters -> JobRows]
           /\ \A k \in Filters :
                /\ JobHolds(k, WalkedAll(job)[k], h, e, ev) /\ (WalkedAll(job)[k] = NoJob <=> job[k] = NoJob)
                /\ WalkedAll(job)[k].from = job[k].from /\ WalkedAll(job)[k].upto = job[k].upto
<1>1. ASSUME NEW k \in Filters
      PROVE  /\ WalkedAll(job)[k] \in JobRows /\ JobHolds(k, WalkedAll(job)[k], h, e, ev)
             /\ WalkedAll(job)[k] = NoJob <=> job[k] = NoJob
             /\ WalkedAll(job)[k].from = job[k].from /\ WalkedAll(job)[k].upto = job[k].upto
  <2>1. CASE WalkedAll(job)[k] = job[k]
    BY <2>1
  <2>2. CASE job[k] # NoJob /\ WalkedAll(job)[k] = Walked(job[k])
    BY <2>2, WalkedHolds
  <2>3. WalkedAll(job)[k] = job[k] \/ (job[k] # NoJob /\ WalkedAll(job)[k] = Walked(job[k]))
    BY DEF WalkedAll
  <2> QED
    BY <2>1, <2>2, <2>3
<1>2. WalkedAll(job) \in [Filters -> JobRows]
  BY <1>1 DEF WalkedAll
<1> QED
  BY <1>1, <1>2

\* Running a stage over a plan that holds keeps the plan, and cuts a chunk from it.
LEMMA RunStageKeeps ==
    ASSUME DrainTypes, NEW s \in Stages, NEW h \in Nat, NEW e, NEW ev, NEW job \in [Filters -> JobRows],
           \A k \in Filters : JobHolds(k, job[k], h, e, ev), RunStage(s, <<h, h>>, job)
    PROVE  /\ stage' \in [Stages -> StageRows] /\ stage'[s].head = h /\ stage'[s].at = h
           /\ stage'[s].job = WalkedAll(job) /\ \A z \in Stages : z # s => stage'[z] = stage[z]
           /\ work' \in WorkRows /\ work' # Idle /\ work'.s = s /\ work'.phase # "stored"
           /\ work'.phase = "ask" =>
                LET j == WalkedAll(job)[work'.kind] IN
                /\ j # NoJob /\ From(work'.kind) <= work'.from /\ work'.from <= work'.to
                /\ work'.to <= j.upto
<1> DEFINE w == WalkedAll(job)
<1>1. w \in [Filters -> JobRows] /\ \A k \in Filters : JobHolds(k, w[k], h, e, ev)
                                                      /\ (w[k] = NoJob <=> job[k] = NoJob)
  BY WalkedAllHolds
<1>2. stage' = [stage EXCEPT ![s] = [head |-> h, at |-> h, job |-> w]]
  BY DEF RunStage
<1> HIDE DEF w
<1>3. [head |-> h, at |-> h, job |-> w] \in StageRows
  BY <1>1 DEF StageRows
<1>4. /\ stage' \in [Stages -> StageRows] /\ stage'[s].head = h /\ stage'[s].at = h
      /\ stage'[s].job = w /\ \A z \in Stages : z # s => stage'[z] = stage[z]
  BY <1>2, <1>3 DEF DrainTypes
<1>5. CASE Done(job)
  <2>1. work' = [Idle EXCEPT !.phase = "verify", !.s = s]
    BY <1>5 DEF RunStage
  <2>2. work' = [phase |-> "verify", s |-> s, kind |-> "curve", from |-> 0, to |-> 0]
    BY <2>1 DEF Idle
  <2>3. work' \in WorkRows /\ work' # Idle /\ work'.s = s /\ work'.phase = "verify"
    BY <2>2 DEF WorkRows, Filters, Idle
  <2> QED
    BY <1>4, <2>3 DEF w
<1>6. CASE ~Done(job)
  <2> DEFINE k == NextKind(job)
  <2>1. k \in Filters /\ job[k] # NoJob
    BY <1>6 DEF Done, NextKind, Filters
  <2>2. PICK c \in Chunks(w, k) : work' = [phase |-> "ask", s |-> s, kind |-> k,
                                           from |-> c[1], to |-> c[2]]
    BY <1>6 DEF RunStage, w
  <2> HIDE DEF k
  <2>3. /\ w[k] \in JobRows /\ w[k] # NoJob /\ JobHolds(k, w[k], h, e, ev)
    BY <1>1, <2>1
  <2>4. /\ w[k].next \in Nat /\ w[k].upto \in Nat /\ From(k) <= w[k].next
    BY <2>3 DEF JobRows, JobHolds
  <2>5. c[1] = w[k].next /\ c[2] \in w[k].next..Least(w[k].upto, w[k].next + Span - 1)
    BY DEF Chunks
  <2>6. c[1] \in Nat /\ c[2] \in Nat /\ From(k) <= c[1] /\ c[1] <= c[2] /\ c[2] <= w[k].upto
    BY <2>4, <2>5, WindowFacts DEF Least
  <2>7. work' \in WorkRows /\ work' # Idle /\ work'.s = s /\ work'.phase = "ask"
        /\ work'.kind = k /\ work'.from = c[1] /\ work'.to = c[2]
    BY <2>1, <2>2, <2>6 DEF WorkRows, Idle
  <2> QED
    BY <1>4, <2>3, <2>6, <2>7 DEF w
<1> QED
  BY <1>5, <1>6

(***************************************************************************)
(* The plans.                                                              *)
(***************************************************************************)
LEMMA FilterEnds ==
    ASSUME DrainTypes, NEW k \in Filters
    PROVE  /\ From(k) \in Nat /\ From(k) >= 1 /\ To(k, Edge) \in Nat
           /\ \A h \in Nat : To(k, h) \in Nat /\ (h <= Edge => To(k, h) <= To(k, Edge))
           /\ \A h \in Nat : To("v4", h) = h
           /\ From("v4") = Grad /\ cursor[k] \in Nat /\ ReadFrom(k) \in Nat /\ From(k) <= ReadFrom(k)
<1>1. cursor[k] \in Nat
  BY DEF DrainTypes
<1> QED
  BY <1>1, WindowFacts, EdgeFacts DEF From, To, Least, ReadFrom, Greatest, Filters

LEMMA OpenGapFacts ==
    ASSUME DrainTypes, GapBounds, NEW g \in OpenGaps
    PROVE  /\ g \in Ids /\ g \notin Fresh /\ gaps[g].open /\ gaps[g] \in GapRows
           /\ gaps[g].first \in FirstHead..tip /\ gaps[g].end \in Nat /\ gaps[g].end <= Now
<1>1. g \in Ids /\ gaps[g].open /\ gaps[g] \in GapRows
  BY DEF OpenGaps, DrainTypes
<1>2. g \notin Fresh
  BY <1>1 DEF Fresh, NoGap
<1> QED
  BY <1>1, <1>2 DEF GapBounds, GapRows

LEMMA StageFacts ==
    ASSUME DrainTypes, Proofs, NEW s \in Stages
    PROVE  /\ stage[s] \in StageRows /\ stage[s].head \in Nat /\ stage[s].at = stage[s].head
           /\ stage[s].head <= Edge /\ stage[s].job \in [Filters -> JobRows]
           /\ \A k \in Filters : JobHolds(k, stage[s].job[k], stage[s].head, Edge, events)
           /\ Aim(s, stage[s].job["v4"])
  BY DEF DrainTypes, Proofs, StageHolds, StageRows

LEMMA StageIds ==
    ASSUME NEW g \in Ids
    PROVE  /\ Live(g) \in Stages /\ Forensic(g) \in Stages
           /\ Live(g)[1] = "live" /\ Live(g)[2] = g /\ Forensic(g)[1] = "expired" /\ Forensic(g)[2] = g
  BY DEF Live, Forensic, Stages

\* Taking islands over adds only what is stored.
LEMMA SeededHolds ==
    ASSUME DrainTypes, Proofs, NEW h, NEW job \in [Filters -> JobRows],
           \A k \in Filters : JobHolds(k, job[k], h, Edge, events)
    PROVE  /\ Seeded(job) \in [Filters -> JobRows]
           /\ \A k \in Filters :
                /\ JobHolds(k, Seeded(job)[k], h, Edge, events) /\ (Seeded(job)[k] = NoJob <=> job[k] = NoJob)
                /\ Seeded(job)[k].from = job[k].from /\ Seeded(job)[k].upto = job[k].upto
<1>1. ASSUME NEW k \in Filters
      PROVE  /\ Seeded(job)[k] \in JobRows /\ JobHolds(k, Seeded(job)[k], h, Edge, events)
             /\ Seeded(job)[k] = NoJob <=> job[k] = NoJob
             /\ Seeded(job)[k].from = job[k].from /\ Seeded(job)[k].upto = job[k].upto
  <2> DEFINE j == job[k]  more == Islands(k, j)
  <2>1. j \in JobRows /\ JobHolds(k, j, h, Edge, events) /\ Seeded(job)[k] = [j EXCEPT !.rows = j.rows \cup more]
    BY DEF Seeded
  <2>2. CASE j = NoJob
    <3>1. more = {}
      BY <2>2 DEF Islands
    <3>2. Seeded(job)[k] = j
      BY <2>1, <3>1 DEF JobRows
    <3> QED
      BY <2>1, <3>2
  <2>3. CASE j # NoJob
    <3> DEFINE B == Compatible(k, j.from, j.upto)
    <3>1. more = Runs(B)
      BY <2>3 DEF Islands
    <3>2. Covers(more) \subseteq B /\ more \subseteq B \X B /\ B \subseteq j.from..j.upto
      BY <3>1, CoversOfRuns, CompatibleIsStored
    <3>3. k = "v4" => {"v4"} \X Covers(more) \subseteq events
      BY <3>2, CompatibleIsStored
    <3> HIDE DEF more, j
    <3>4. more \subseteq Int \X Int
      BY <2>1, <3>2 DEF JobRows
    <3>5. Seeded(job)[k] \in JobRows /\ Seeded(job)[k].from = j.from /\ Seeded(job)[k].upto = j.upto
          /\ Seeded(job)[k].next = j.next /\ Seeded(job)[k].rows = j.rows \cup more
      BY <2>1, <3>4 DEF JobRows
    <3>6. Seeded(job)[k] # NoJob
      <4>1. From(k) \in Nat /\ From(k) >= 1 /\ From(k) <= j.from
        BY <2>1, <2>3, FilterEnds DEF JobHolds
      <4> QED
        BY <3>5, <4>1 DEF NoJob
    <3>7. Covers(Seeded(job)[k].rows) = Covers(j.rows) \cup Covers(more)
      BY <3>5, CoversOfUnion
    <3>8. JobHolds(k, Seeded(job)[k], h, Edge, events)
      BY <2>1, <2>3, <3>3, <3>5, <3>7 DEF JobHolds
    <3> QED
      BY <2>3, <3>5, <3>6, <3>8 DEF j
  <2> QED
    BY <2>2, <2>3
<1>2. Seeded(job) \in [Filters -> JobRows]
  BY <1>1 DEF Seeded
<1> QED
  BY <1>1, <1>2

LEMMA SeededHolesHolds ==
    ASSUME DrainTypes, Proofs, NEW h, NEW job \in [Filters -> JobRows],
           \A k \in Filters : JobHolds(k, job[k], h, Edge, events)
    PROVE  /\ SeededHoles(job) \in [Filters -> JobRows]
           /\ \A k \in Filters :
                /\ JobHolds(k, SeededHoles(job)[k], h, Edge, events)
                /\ SeededHoles(job)[k] = NoJob <=> job[k] = NoJob
                /\ SeededHoles(job)[k].from = job[k].from /\ SeededHoles(job)[k].upto = job[k].upto
<1>1. ASSUME NEW k \in Filters
      PROVE  /\ SeededHoles(job)[k] \in JobRows /\ JobHolds(k, SeededHoles(job)[k], h, Edge, events)
             /\ SeededHoles(job)[k] = NoJob <=> job[k] = NoJob
             /\ SeededHoles(job)[k].from = job[k].from /\ SeededHoles(job)[k].upto = job[k].upto
  <2> DEFINE j == job[k]  B == Compatible(k, j.from, j.upto) \ Covers(j.rows)  more == Runs(B)
  <2>1. j \in JobRows /\ JobHolds(k, j, h, Edge, events)
    OBVIOUS
  <2>2. CASE j = NoJob
    <3>1. SeededHoles(job)[k] = NoJob
      BY <2>2 DEF SeededHoles
    <3> QED
      BY <2>1, <2>2, <3>1
  <2>3. CASE j # NoJob
    <3>1. SeededHoles(job)[k] = [j EXCEPT !.rows = j.rows \cup more]
      BY <2>3 DEF SeededHoles
    <3>2. Covers(more) \subseteq B /\ more \subseteq B \X B /\ B \subseteq j.from..j.upto
      BY CoversOfRuns, CompatibleIsStored
    <3>3. k = "v4" => {"v4"} \X Covers(more) \subseteq events
      BY <3>2, CompatibleIsStored
    <3> HIDE DEF more, j
    <3>4. more \subseteq Int \X Int
      BY <2>1, <3>2 DEF JobRows
    <3>5. SeededHoles(job)[k] \in JobRows /\ SeededHoles(job)[k].from = j.from
          /\ SeededHoles(job)[k].upto = j.upto
          /\ SeededHoles(job)[k].next = j.next /\ SeededHoles(job)[k].rows = j.rows \cup more
      BY <2>1, <3>1, <3>4 DEF JobRows
    <3>6. SeededHoles(job)[k] # NoJob
      <4>1. From(k) \in Nat /\ From(k) >= 1 /\ From(k) <= j.from
        BY <2>1, <2>3, FilterEnds DEF JobHolds
      <4> QED
        BY <3>5, <4>1 DEF NoJob
    <3>7. Covers(SeededHoles(job)[k].rows) = Covers(j.rows) \cup Covers(more)
      BY <3>5, CoversOfUnion
    <3>8. JobHolds(k, SeededHoles(job)[k], h, Edge, events)
      BY <2>1, <2>3, <3>3, <3>5, <3>7 DEF JobHolds
    <3> QED
      BY <2>3, <3>5, <3>6, <3>8 DEF j
  <2> QED
    BY <2>2, <2>3
<1>2. SeededHoles(job) \in [Filters -> JobRows]
  <2>1. SeededHoles(job) = [k \in Filters |-> SeededHoles(job)[k]]
    BY DEF SeededHoles
  <2> QED
    BY <1>1, <2>1
<1> QED
  BY <1>1, <1>2

\* A live plan begins at its gap or before, and behind the cursor.
LEMMA StartAtFacts ==
    ASSUME DrainTypes, Losses, GapBounds, NEW g \in OpenGaps, NEW k \in Filters
    PROVE  /\ StartAt(k) \in Nat /\ From(k) <= StartAt(k)
           /\ k = "v4" => StartAt(k) <= cursor["v4"] + 1 /\ StartAt(k) <= gaps[g].first
<1> DEFINE S == {gaps[i].first : i \in OpenGaps}
<1>1. /\ From(k) \in Nat /\ ReadFrom(k) \in Nat /\ From(k) <= ReadFrom(k) /\ From("v4") = Grad
  BY FilterEnds
<1>2. S \subseteq Nat /\ gaps[g].first \in S
  BY OpenGapFacts, WindowFacts
<1>3. Min(S) \in Nat /\ Min(S) <= gaps[g].first
  <2>1. S \subseteq Nat /\ S # {}
    BY <1>2
  <2>2. Min(S) \in S /\ \A c \in S : Min(S) <= c
    BY <2>1, MinOfNumbers
  <2> QED
    BY <2>1, <2>2, <1>2
<1>4. StartAt(k) = Least(ReadFrom(k), Greatest(From(k), Min(S)))
  BY DEF StartAt
<1> HIDE DEF S
<1>5. StartAt(k) \in Nat /\ From(k) <= StartAt(k)
  BY <1>1, <1>3, <1>4 DEF Least, Greatest
<1>6. ASSUME k = "v4" PROVE StartAt(k) <= cursor["v4"] + 1 /\ StartAt(k) <= gaps[g].first
  <2>1. cursor["v4"] \in Nat /\ FirstHead <= cursor["v4"] /\ gaps[g].first \in Nat
        /\ FirstHead <= gaps[g].first /\ Grad < FirstHead
    BY OpenGapFacts, WindowFacts DEF Losses, DrainTypes
  <2>2. ReadFrom(k) <= cursor["v4"]
    BY <2>1, <1>1, <1>6, WindowFacts DEF ReadFrom, Greatest
  <2>3. Greatest(From(k), Min(S)) \in Nat /\ Greatest(From(k), Min(S)) <= gaps[g].first
    BY <2>1, <1>1, <1>3, <1>6, WindowFacts DEF Greatest
  <2> HIDE DEF S
  <2> QED
    BY <2>1, <2>2, <2>3, <1>1, <1>4 DEF Least
<1> QED
  BY <1>5, <1>6

LEMMA PlanHolds ==
    ASSUME DrainTypes, Losses, GapBounds, Proofs, NEW g \in OpenGaps
    PROVE  /\ Plan(g) \in [Filters -> JobRows]
           /\ \A k \in Filters : JobHolds(k, Plan(g)[k], stage[Live(g)].head, Edge, events)
           /\ Plan(g)["v4"] # NoJob => Plan(g)["v4"].from <= cursor["v4"] + 1
                                       /\ Plan(g)["v4"].from <= gaps[g].first
<1> DEFINE s == Live(g)  h == stage[s].head
<1>1. s \in Stages /\ s[1] = "live" /\ s[2] = g
  BY StageIds, OpenGapFacts
<1>2. /\ h \in Nat /\ h <= Edge /\ stage[s].job \in [Filters -> JobRows]
      /\ \A k \in Filters : JobHolds(k, stage[s].job[k], h, Edge, events)
      /\ Aim(s, stage[s].job["v4"])
  BY <1>1, StageFacts
<1>3. ASSUME NEW k \in Filters
      PROVE  /\ Plan(g)[k] \in JobRows /\ JobHolds(k, Plan(g)[k], h, Edge, events)
             /\ k = "v4" /\ Plan(g)[k] # NoJob =>
                  Plan(g)[k].from <= cursor["v4"] + 1 /\ Plan(g)[k].from <= gaps[g].first
  <2>1. CASE stage[s].job[k] # NoJob
    <3>1. Plan(g)[k] = stage[s].job[k]
      BY <2>1 DEF Plan
    <3> QED
      BY <2>1, <3>1, <1>1, <1>2 DEF Aim
  <2>2. CASE stage[s].job[k] = NoJob /\ StartAt(k) > To(k, h)
    <3>1. Plan(g)[k] = NoJob
      BY <2>2 DEF Plan
    <3> QED
      BY <3>1 DEF NoJob, JobRows, JobHolds
  <2>3. CASE stage[s].job[k] = NoJob /\ ~(StartAt(k) > To(k, h))
    <3>1. Plan(g)[k] = [from |-> StartAt(k), upto |-> To(k, h), next |-> StartAt(k), rows |-> {}]
      BY <2>3 DEF Plan
    <3>2. StartAt(k) \in Nat /\ From(k) <= StartAt(k) /\ To(k, h) \in Nat
          /\ To(k, h) <= To(k, Edge) /\ To("v4", h) = h
      BY StartAtFacts, FilterEnds, <1>2
    <3> HIDE DEF h
    <3>3. Plan(g)[k] \in JobRows
      BY <3>1, <3>2 DEF JobRows
    <3>4. /\ Plan(g)[k].from = StartAt(k) /\ Plan(g)[k].upto = To(k, h)
          /\ Plan(g)[k].next = StartAt(k) /\ Plan(g)[k].rows = {}
      BY <3>1
    <3>5. JobHolds(k, Plan(g)[k], h, Edge, events)
      BY <2>3, <3>2, <3>4, CoversOfNone DEF JobHolds
    <3> QED
      BY <3>3, <3>4, <3>5, StartAtFacts
  <2> QED
    BY <2>1, <2>2, <2>3
<1>4. Plan(g) \in [Filters -> JobRows]
  <2>1. Plan(g) = [k \in Filters |-> Plan(g)[k]]
    BY DEF Plan
  <2> QED
    BY <1>3, <2>1
<1> QED
  BY <1>3, <1>4 DEF Filters

LEMMA FixedPlanHolds ==
    ASSUME DrainTypes, GapBounds, Proofs, NEW g \in OpenGaps, bounds[g] # 0
    PROVE  /\ FixedPlan(g) \in [Filters -> JobRows]
           /\ \A k \in Filters : JobHolds(k, FixedPlan(g)[k], bounds[g], Edge, events)
           /\ FixedPlan(g)["v4"] # NoJob => /\ FixedPlan(g)["v4"].from = gaps[g].first
                                            /\ FixedPlan(g)["v4"].upto = bounds[g]
<1> DEFINE s == Forensic(g)
<1>1. s \in Stages /\ s[1] = "expired" /\ s[2] = g
  BY StageIds, OpenGapFacts
<1>2. /\ stage[s].job \in [Filters -> JobRows]
      /\ \A k \in Filters : JobHolds(k, stage[s].job[k], stage[s].head, Edge, events)
      /\ Aim(s, stage[s].job["v4"])
  BY <1>1, StageFacts
<1>3. /\ bounds[g] \in Nat /\ bounds[g] <= Edge /\ gaps[g].first \in Nat /\ Grad < gaps[g].first
  BY OpenGapFacts, WindowFacts DEF GapBounds, DrainTypes
<1>4. ASSUME NEW k \in Filters
      PROVE  /\ FixedPlan(g)[k] \in JobRows /\ JobHolds(k, FixedPlan(g)[k], bounds[g], Edge, events)
             /\ k = "v4" /\ FixedPlan(g)[k] # NoJob =>
                  FixedPlan(g)[k].from = gaps[g].first /\ FixedPlan(g)[k].upto = bounds[g]
  <2> DEFINE a == Greatest(gaps[g].first, From(k))
  <2>1. CASE stage[s].job[k] # NoJob
    <3>1. FixedPlan(g)[k] = stage[s].job[k]
      BY <2>1 DEF FixedPlan
    <3>2. k = "v4" => stage[s].job[k].from = gaps[g].first /\ stage[s].job[k].upto = bounds[g]
      BY <1>1, <1>2, <2>1 DEF Aim
    <3> QED
      BY <2>1, <3>1, <3>2, <1>2 DEF JobHolds
  <2>2. CASE stage[s].job[k] = NoJob /\ k \notin Required(g)
    <3>1. FixedPlan(g)[k] = NoJob
      BY <2>2 DEF FixedPlan
    <3> QED
      BY <3>1 DEF NoJob, JobRows, JobHolds
  <2>3. CASE stage[s].job[k] = NoJob /\ k \in Required(g)
    <3>1. FixedPlan(g)[k] = [from |-> a, upto |-> To(k, bounds[g]), next |-> a, rows |-> {}]
      BY <2>3 DEF FixedPlan
    <3>2. a <= To(k, bounds[g])
      BY <2>3 DEF Required
    <3>3. /\ From(k) \in Nat /\ To(k, bounds[g]) \in Nat /\ To(k, bounds[g]) <= To(k, Edge)
          /\ To("v4", bounds[g]) = bounds[g] /\ From("v4") = Grad
      BY FilterEnds, <1>3
    <3>4. a \in Nat /\ From(k) <= a /\ (k = "v4" => a = gaps[g].first)
      BY <1>3, <3>3, WindowFacts DEF Greatest
    <3> HIDE DEF a
    <3>5. FixedPlan(g)[k] \in JobRows
      BY <3>1, <3>3, <3>4 DEF JobRows
    <3>6. /\ FixedPlan(g)[k].from = a /\ FixedPlan(g)[k].upto = To(k, bounds[g])
          /\ FixedPlan(g)[k].next = a /\ FixedPlan(g)[k].rows = {}
      BY <3>1
    <3>7. JobHolds(k, FixedPlan(g)[k], bounds[g], Edge, events)
      BY <3>2, <3>3, <3>4, <3>6, CoversOfNone DEF JobHolds
    <3> QED
      BY <3>3, <3>4, <3>5, <3>6, <3>7
  <2> QED
    BY <2>1, <2>2, <2>3
<1>5. FixedPlan(g) \in [Filters -> JobRows]
  <2>1. FixedPlan(g) = [k \in Filters |-> FixedPlan(g)[k]]
    BY DEF FixedPlan
  <2> QED
    BY <1>4, <2>1
<1> QED
  BY <1>4, <1>5 DEF Filters

LEMMA ReachIs ==
    ASSUME NEW k \in Filters, NEW a \in Nat, a >= 1, NEW z \in Nat
    PROVE  \/ Reach(k, a, z) = a - 1
           \/ Reach(k, a, z) \in a..z /\ a..Reach(k, a, z) \subseteq Compatible(k, a, z)
<1> DEFINE S == {a - 1} \cup {b \in a..z : a..b \subseteq Compatible(k, a, z)}
<1>1. S \subseteq 0..(a + z) /\ S # {}
  OBVIOUS
<1>2. Max(S) \in S
  BY <1>1, MaxOfNumbers
<1>3. Reach(k, a, z) = Max(S)
  BY DEF Reach
<1> QED
  BY <1>2, <1>3

LEMMA DrainFromFacts ==
    ASSUME DrainTypes, Losses, GapBounds, NEW k \in Filters
    PROVE  /\ DrainFrom(k) \in Nat /\ From(k) <= DrainFrom(k)
           /\ k = "v4" => DrainFrom(k) <= cursor["v4"] + 1
<1> DEFINE c == Greatest(From(k), cursor[k] + 1)
           S == {c} \cup {Greatest(From(k), gaps[g].first) : g \in OpenGaps}
<1>1. From(k) \in Nat /\ cursor[k] \in Nat /\ From("v4") = Grad
  BY FilterEnds
<1>2. c \in Nat /\ From(k) <= c
  BY <1>1 DEF Greatest
<1>3. \A g \in OpenGaps : gaps[g].first \in Nat
  BY OpenGapFacts, WindowFacts
<1>4. \A g \in OpenGaps : /\ Greatest(From(k), gaps[g].first) \in Nat
                          /\ From(k) <= Greatest(From(k), gaps[g].first)
  BY <1>1, <1>3 DEF Greatest
<1>5. S \subseteq Nat /\ c \in S /\ \A x \in S : From(k) <= x
  BY <1>2, <1>4
<1>6. Min(S) \in S /\ \A x \in S : Min(S) <= x
  BY <1>5, MinOfNumbers
<1>7. DrainFrom(k) = Min(S)
  BY DEF DrainFrom
<1>8. k = "v4" => c = cursor["v4"] + 1
  BY <1>1, WindowFacts DEF Greatest, Losses
<1> QED
  BY <1>5, <1>6, <1>7, <1>8

LEMMA DrainPlanHolds ==
    ASSUME DrainTypes, Losses, GapBounds, Proofs, Drain \in Stages
    PROVE  /\ DrainPlan \in [Filters -> JobRows]
           /\ \A k \in Filters : JobHolds(k, DrainPlan[k], stage[Drain].head, Edge, events)
           /\ DrainPlan["v4"] # NoJob => DrainPlan["v4"].from <= cursor["v4"] + 1
<1> DEFINE h == stage[Drain].head
<1>1. Drain[1] = "drain"
  BY DEF Drain
<1>2. /\ h \in Nat /\ h <= Edge /\ stage[Drain].job \in [Filters -> JobRows]
      /\ \A k \in Filters : JobHolds(k, stage[Drain].job[k], h, Edge, events)
      /\ Aim(Drain, stage[Drain].job["v4"])
  BY StageFacts
<1>3. ASSUME NEW k \in Filters
      PROVE  /\ DrainPlan[k] \in JobRows /\ JobHolds(k, DrainPlan[k], h, Edge, events)
             /\ k = "v4" /\ DrainPlan[k] # NoJob => DrainPlan[k].from <= cursor["v4"] + 1
  <2> DEFINE a == DrainFrom(k)  z == To(k, h)  c == Reach(k, a, z)
  <2>1. CASE stage[Drain].job[k] # NoJob
    <3>1. DrainPlan[k] = stage[Drain].job[k]
      BY <2>1 DEF DrainPlan
    <3> QED
      BY <2>1, <3>1, <1>1, <1>2 DEF Aim
  <2>2. CASE stage[Drain].job[k] = NoJob /\ (~NeedsWork(k, h) \/ a > z)
    <3>1. DrainPlan[k] = NoJob
      BY <2>2 DEF DrainPlan
    <3> QED
      BY <3>1 DEF NoJob, JobRows, JobHolds
  <2>3. CASE stage[Drain].job[k] = NoJob /\ ~(~NeedsWork(k, h) \/ a > z)
    <3>1. DrainPlan[k] = [from |-> a, upto |-> z, next |-> c + 1,
                          rows |-> IF c < a THEN {} ELSE {<<a, c>>}]
      BY <2>3 DEF DrainPlan
    <3>2. a \in Nat /\ From(k) <= a /\ (k = "v4" => a <= cursor["v4"] + 1)
      BY DrainFromFacts
    <3>3. z \in Nat /\ z <= To(k, Edge) /\ To("v4", h) = h /\ From(k) \in Nat /\ From(k) >= 1
      BY FilterEnds, <1>2
    <3>4. a >= 1 /\ a <= z
      BY <2>3, <3>2, <3>3
    <3>5. \/ c = a - 1
          \/ c \in a..z /\ a..c \subseteq Compatible(k, a, z)
      BY <3>2, <3>3, <3>4, ReachIs
    <3>6. k = "v4" => {"v4"} \X Compatible(k, a, z) \subseteq events
      BY CompatibleIsStored
    <3> DEFINE rows == IF c < a THEN {} ELSE {<<a, c>>}
    <3> HIDE DEF a, z, c, h
    <3>7. rows \in SUBSET (Int \X Int) /\ (k = "v4" => {"v4"} \X Covers(rows) \subseteq events)
          /\ c + 1 \in Nat /\ a <= c + 1
      <4>1. CASE c = a - 1
        BY <4>1, <3>2, <3>4, CoversOfNone
      <4>2. CASE c \in a..z /\ a..c \subseteq Compatible(k, a, z)
        <5>1. rows = {<<a, c>>} /\ a \in Int /\ c \in Int
          BY <4>2, <3>2, <3>3
        <5>2. Covers(rows) = a..c
          BY <5>1, CoversOfRow
        <5> QED
          BY <4>2, <5>1, <5>2, <3>2, <3>6
      <4> QED
        BY <3>5, <4>1, <4>2
    <3>8. DrainPlan[k] \in JobRows /\ DrainPlan[k].from = a /\ DrainPlan[k].upto = z
          /\ DrainPlan[k].next = c + 1 /\ DrainPlan[k].rows = rows
      BY <3>1, <3>2, <3>3, <3>7 DEF JobRows
    <3>9. k = "v4" => z = h
      BY <3>3 DEF z
    <3> HIDE DEF rows
    <3>10. JobHolds(k, DrainPlan[k], h, Edge, events)
      BY <3>2, <3>3, <3>4, <3>7, <3>8, <3>9 DEF JobHolds
    <3> QED
      BY <3>2, <3>8, <3>10
  <2> QED
    BY <2>1, <2>2, <2>3
<1>4. DrainPlan \in [Filters -> JobRows]
  <2>1. DrainPlan = [k \in Filters |-> DrainPlan[k]]
    BY DEF DrainPlan
  <2> QED
    BY <1>3, <2>1
<1> QED
  BY <1>3, <1>4 DEF Filters

(***************************************************************************)
(* The steps that change a stage.                                          *)
(***************************************************************************)
LEMMA RunStageEffect ==
    ASSUME DrainTypes, Proofs, NEW s \in Stages, NEW h \in Nat, h <= Edge,
           NEW job \in [Filters -> JobRows], \A k \in Filters : JobHolds(k, job[k], h, Edge, events),
           Aim(s, job["v4"]), RunStage(s, <<h, h>>, job)
    PROVE  /\ stage' \in [Stages -> StageRows] /\ \A z \in Stages : StageHolds(z, stage'[z])
           /\ work' \in WorkRows /\ work' # Idle /\ work'.s = s /\ work'.phase # "stored"
           /\ work'.phase = "ask" =>
                LET j == stage'[work'.s].job[work'.kind] IN
                /\ j # NoJob /\ From(work'.kind) <= work'.from /\ work'.from <= work'.to
                /\ work'.to <= j.upto
<1> DEFINE w == WalkedAll(job)
<1>1. /\ w \in [Filters -> JobRows]
      /\ \A k \in Filters : /\ JobHolds(k, w[k], h, Edge, events) /\ (w[k] = NoJob <=> job[k] = NoJob)
                            /\ w[k].from = job[k].from /\ w[k].upto = job[k].upto
  BY WalkedAllHolds
<1>2. /\ stage' \in [Stages -> StageRows] /\ stage'[s].head = h /\ stage'[s].at = h
      /\ stage'[s].job = w /\ \A z \in Stages : z # s => stage'[z] = stage[z]
      /\ work' \in WorkRows /\ work' # Idle /\ work'.s = s /\ work'.phase # "stored"
      /\ work'.phase = "ask" =>
                LET j == w[work'.kind] IN
                /\ j # NoJob /\ From(work'.kind) <= work'.from /\ work'.from <= work'.to
                /\ work'.to <= j.upto
  BY RunStageKeeps
<1> HIDE DEF w
<1>3. Aim(s, w["v4"])
  BY <1>1 DEF Aim, Filters
<1>4. StageHolds(s, stage'[s])
  BY <1>1, <1>2, <1>3 DEF StageHolds
<1>5. \A z \in Stages : StageHolds(z, stage'[z])
  BY <1>2, <1>4 DEF Proofs
<1> QED
  BY <1>2, <1>5

LEMMA TickEffect ==
    ASSUME DrainTypes, Losses, GapBounds, Proofs, Chunk, NEW g \in Ids, Tick(g)
    PROVE  /\ stage' \in [Stages -> StageRows] /\ \A z \in Stages : StageHolds(z, stage'[z])
           /\ work' \in WorkRows /\ (work' # Idle => work'.s = Live(g)) /\ work'.phase # "stored"
           /\ work'.phase = "ask" =>
                LET j == stage'[work'.s].job[work'.kind] IN
                /\ j # NoJob /\ From(work'.kind) <= work'.from /\ work'.from <= work'.to
                /\ work'.to <= j.upto
<1> DEFINE s == Live(g)  h == stage[s].head  job == Seeded(Plan(g))
<1>1. g \in OpenGaps /\ work = Idle
  BY DEF Tick, Plain, Working, OpenGaps
<1>2. s \in Stages /\ s[1] = "live" /\ s[2] = g /\ g \notin Fresh /\ gaps[g].end \in Nat
  BY <1>1, StageIds, OpenGapFacts
<1>3. h \in Nat /\ h <= Edge /\ stage[s].at = h /\ stage[s] \in StageRows
  BY <1>2, StageFacts
<1>4. /\ Plan(g) \in [Filters -> JobRows]
      /\ \A k \in Filters : JobHolds(k, Plan(g)[k], h, Edge, events)
      /\ Plan(g)["v4"] # NoJob => Plan(g)["v4"].from <= cursor["v4"] + 1
                                  /\ Plan(g)["v4"].from <= gaps[g].first
  BY <1>1, PlanHolds
<1>5. /\ job \in [Filters -> JobRows]
      /\ \A k \in Filters : /\ JobHolds(k, job[k], h, Edge, events) /\ (job[k] = NoJob <=> Plan(g)[k] = NoJob)
                            /\ job[k].from = Plan(g)[k].from /\ job[k].upto = Plan(g)[k].upto
  BY <1>4, SeededHolds
<1>6. CASE PlanRefused(g)
  <2>1. UNCHANGED <<stage, work>>
    BY <1>6 DEF Tick
  <2>2. \A z \in Stages : StageHolds(z, stage'[z])
    BY <2>1 DEF Proofs
  <2>3. stage' \in [Stages -> StageRows] /\ work' \in WorkRows
    BY <2>1 DEF DrainTypes
  <2> QED
    BY <1>1, <2>1, <2>2, <2>3 DEF Idle
<1>7. CASE ~PlanRefused(g)
  <2>1. gaps[g].end <= At(h)
    BY <1>2, <1>3, <1>7 DEF PlanRefused, At
  <2>2. Aim(s, job["v4"])
    <3>1. job["v4"] # NoJob => job["v4"].upto = h
      BY <1>5 DEF JobHolds, Filters
    <3>2. job["v4"] # NoJob => job["v4"].from <= cursor["v4"] + 1 /\ job["v4"].from <= gaps[g].first
      BY <1>4, <1>5 DEF Filters
    <3> HIDE DEF job, h
    <3> QED
      BY <1>2, <2>1, <3>1, <3>2 DEF Aim
  <2>3. CASE Unproved(Plan(g)) > DebtMax
    <3>1. stage' = [stage EXCEPT ![s].job = job] /\ UNCHANGED work
      BY <1>7, <2>3 DEF Tick
    <3> HIDE DEF job
    <3>2. stage'[s] = [stage[s] EXCEPT !.job = job] /\ \A z \in Stages : z # s => stage'[z] = stage[z]
      BY <1>2, <3>1 DEF DrainTypes
    <3>3. stage'[s] \in StageRows /\ stage'[s].job = job /\ stage'[s].head = h /\ stage'[s].at = h
      BY <1>3, <1>5, <3>2 DEF StageRows
    <3>4. StageHolds(s, stage'[s])
      BY <1>3, <1>5, <2>2, <3>3 DEF StageHolds
    <3>5. \A z \in Stages : StageHolds(z, stage'[z])
      BY <3>2, <3>4 DEF Proofs
    <3>6. stage' \in [Stages -> StageRows]
      BY <3>1, <3>2, <3>3 DEF DrainTypes
    <3>7. work' \in WorkRows
      BY <3>1 DEF DrainTypes
    <3> QED
      BY <1>1, <3>1, <3>5, <3>6, <3>7 DEF Idle
  <2>4. CASE ~(Unproved(Plan(g)) > DebtMax)
    <3>1. RunStage(s, <<h, stage[s].at>>, job)
      BY <1>7, <2>4 DEF Tick
    <3>2. RunStage(s, <<h, h>>, job)
      BY <1>3, <3>1
    <3> HIDE DEF job, h, s
    <3>3. \A k \in Filters : JobHolds(k, job[k], h, Edge, events)
      BY <1>5
    <3>4. job \in [Filters -> JobRows]
      BY <1>5
    <3> QED
      BY <1>2, <1>3, <2>2, <3>2, <3>3, <3>4, RunStageEffect DEF s
  <2> QED
    BY <2>3, <2>4
<1> QED
  BY <1>6, <1>7

LEMMA FixedTickEffect ==
    ASSUME DrainTypes, GapBounds, Proofs, NEW g \in Ids, FixedTick(g)
    PROVE  /\ stage' \in [Stages -> StageRows] /\ \A z \in Stages : StageHolds(z, stage'[z])
           /\ work' \in WorkRows /\ work' # Idle /\ work'.s = Forensic(g) /\ work'.phase # "stored"
           /\ work'.phase = "ask" =>
                LET j == stage'[work'.s].job[work'.kind] IN
                /\ j # NoJob /\ From(work'.kind) <= work'.from /\ work'.from <= work'.to
                /\ work'.to <= j.upto
<1> DEFINE s == Forensic(g)  h == bounds[g]  job == SeededHoles(FixedPlan(g))
<1>1. g \in OpenGaps /\ h # 0 /\ RunStage(s, <<h, h>>, job)
  BY DEF FixedTick, OpenGaps
<1>2. s \in Stages /\ s[1] = "expired" /\ s[2] = g
  BY StageIds
<1>3. h \in Nat /\ h <= Edge
  BY <1>1 DEF GapBounds, DrainTypes
<1>4. /\ FixedPlan(g) \in [Filters -> JobRows]
      /\ \A k \in Filters : JobHolds(k, FixedPlan(g)[k], h, Edge, events)
      /\ FixedPlan(g)["v4"] # NoJob => /\ FixedPlan(g)["v4"].from = gaps[g].first
                                       /\ FixedPlan(g)["v4"].upto = h
  BY <1>1, FixedPlanHolds
<1>5. /\ job \in [Filters -> JobRows]
      /\ \A k \in Filters : /\ JobHolds(k, job[k], h, Edge, events)
                            /\ job[k] = NoJob <=> FixedPlan(g)[k] = NoJob
                            /\ job[k].from = FixedPlan(g)[k].from /\ job[k].upto = FixedPlan(g)[k].upto
  BY <1>4, SeededHolesHolds
<1>6. Aim(s, job["v4"])
  <2>1. job["v4"] # NoJob => job["v4"].from = gaps[g].first /\ job["v4"].upto = h
    BY <1>4, <1>5 DEF Filters
  <2> HIDE DEF job
  <2> QED
    BY <1>2, <2>1 DEF Aim
<1> HIDE DEF job, h, s
<1>7. \A k \in Filters : JobHolds(k, job[k], h, Edge, events)
  BY <1>5
<1>8. job \in [Filters -> JobRows]
  BY <1>5
<1> QED
  BY <1>1, <1>2, <1>3, <1>6, <1>7, <1>8, RunStageEffect DEF s

LEMMA DrainTickEffect ==
    ASSUME DrainTypes, Losses, GapBounds, Proofs, Chunk, DrainTick
    PROVE  /\ round > 0 /\ stage' \in [Stages -> StageRows] /\ \A z \in Stages : StageHolds(z, stage'[z])
           /\ work' \in WorkRows /\ (work' # Idle => work'.s[1] = "drain") /\ work'.phase # "stored"
           /\ work'.phase = "ask" =>
                LET j == stage'[work'.s].job[work'.kind] IN
                /\ j # NoJob /\ From(work'.kind) <= work'.from /\ work'.from <= work'.to
                /\ work'.to <= j.upto
<1> DEFINE h == stage[Drain].head  job == DrainPlan
<1>1. round > 0 /\ round \in Nat /\ work = Idle
  BY DEF DrainTick, Chunk, DrainTypes, Offline
<1>2. Drain \in Stages /\ Drain[1] = "drain" /\ Drain[2] = round
  BY <1>1, WindowFacts DEF Drain, Stages, DrainTypes
<1>3. h \in Nat /\ h <= Edge /\ stage[Drain].at = h
  BY <1>2, StageFacts
<1>4. CASE job = [k \in Filters |-> NoJob]
  <2>1. UNCHANGED <<stage, work>>
    BY <1>4 DEF DrainTick
  <2>2. \A z \in Stages : StageHolds(z, stage'[z])
    BY <2>1 DEF Proofs
  <2>3. stage' \in [Stages -> StageRows] /\ work' \in WorkRows
    BY <2>1 DEF DrainTypes
  <2> QED
    BY <1>1, <2>1, <2>2, <2>3 DEF Idle
<1>5. CASE job # [k \in Filters |-> NoJob]
  <2>1. RunStage(Drain, <<h, stage[Drain].at>>, job)
    BY <1>5 DEF DrainTick
  <2>2. RunStage(Drain, <<h, h>>, job)
    BY <1>3, <2>1
  <2>3. /\ job \in [Filters -> JobRows]
        /\ \A k \in Filters : JobHolds(k, job[k], h, Edge, events)
        /\ job["v4"] # NoJob => job["v4"].from <= cursor["v4"] + 1
    BY <1>2, DrainPlanHolds
  <2> HIDE DEF job, h
  <2>4. Aim(Drain, job["v4"])
    BY <1>1, <1>2, <2>3 DEF Aim
  <2> QED
    BY <1>1, <1>2, <1>3, <2>2, <2>3, <2>4, RunStageEffect
<1> QED
  BY <1>4, <1>5

\* A head that another proof gives for a gap is the pool's, never that of a curve job.
LEMMA ReusedHead ==
    ASSUME DrainTypes, GapBounds, Proofs, NEW g \in OpenGaps, NEW c \in Reused(g)
    PROVE  c[1] \in Nat /\ c[2] = c[1] /\ c[1] <= Edge
<1>1. c \in Candidates(g) /\ Proves(g, c[1])
  BY DEF Reused
<1>2. PICK p \in Stages \X Filters :
        /\ c = <<stage[p[1]].job[p[2]].upto, stage[p[1]].at>>
        /\ stage[p[1]].job[p[2]] # NoJob
  BY <1>1 DEF Candidates
<1> DEFINE s == p[1]  k == p[2]  j == stage[s].job[k]
<1>3. s \in Stages /\ k \in Filters /\ c[1] = j.upto /\ c[2] = stage[s].at /\ j # NoJob
  BY <1>2
<1> HIDE DEF s, k
<1>4. /\ stage[s].head \in Nat /\ stage[s].at = stage[s].head /\ stage[s].head <= Edge
      /\ JobHolds(k, j, stage[s].head, Edge, events) /\ j \in JobRows
  BY <1>3, StageFacts
<1>5. gaps[g].first \in Nat /\ gaps[g].first > Grad
  BY OpenGapFacts, WindowFacts DEF DrainTypes
<1>6. Grad < c[1]
  <2> DEFINE S == {gaps[g].first} \cup {From(f) : f \in Filters}
  <2>1. S = {gaps[g].first, 1, Grad}
    BY DEF Filters, From
  <2>2. S \subseteq 0..(gaps[g].first + Grad + 1) /\ S # {} /\ gaps[g].first \in S
        /\ gaps[g].first + Grad + 1 \in Nat
    BY <2>1, <1>5, WindowFacts
  <2>3. Max(S) \in S /\ gaps[g].first <= Max(S)
    BY <2>2, MaxOfNumbers
  <2>4. c[1] >= Max(S)
    BY <1>1 DEF Proves
  <2>5. c[1] \in Nat
    BY <1>3, <1>4 DEF JobRows
  <2>6. Max(S) \in Nat
    BY <2>2, <2>3
  <2> HIDE DEF S
  <2> QED
    BY <2>3, <2>4, <2>5, <2>6, <1>5, WindowFacts
<1>7. k = "v4"
  <2>1. ASSUME k = "curve" PROVE FALSE
    <3>1. j.upto <= To("curve", Edge) /\ j.upto \in Nat
      BY <1>3, <1>4, <2>1 DEF JobHolds, JobRows
    <3>2. To("curve", Edge) <= Grad
      BY EdgeFacts, WindowFacts DEF To, Least
    <3>3. To("curve", Edge) \in Nat
      BY FilterEnds DEF Filters
    <3> QED
      BY <3>1, <3>2, <3>3, <1>3, <1>6, WindowFacts
  <2> QED
    BY <1>3, <2>1 DEF Filters
<1>8. j.upto = stage[s].head
  BY <1>3, <1>4, <1>7 DEF JobHolds
<1> QED
  BY <1>3, <1>4, <1>8

LEMMA FrozenHead ==
    ASSUME DrainTypes, ~Expired, NEW h \in Heads
    PROVE  h \in Nat /\ h <= Edge
<1>1. h \in (tip - HttpLag)..tip /\ h >= Grad
  BY DEF Heads
<1> QED
  BY <1>1, EdgeFacts, WindowFacts

\* A stage without a head, or without a job of the pool, may be given one.
LEMMA NewHead ==
    ASSUME DrainTypes, Proofs, NEW s \in Stages, stage[s].job["v4"] = NoJob,
           NEW h \in Nat, h <= Edge, stage' = [stage EXCEPT ![s].head = h, ![s].at = h]
    PROVE  stage' \in [Stages -> StageRows] /\ \A z \in Stages : StageHolds(z, stage'[z])
<1>1. /\ stage'[s] = [stage[s] EXCEPT !.head = h, !.at = h]
      /\ \A z \in Stages : z # s => stage'[z] = stage[z]
  BY DEF DrainTypes
<1>2. stage[s] \in StageRows /\ StageHolds(s, stage[s])
  BY DEF DrainTypes, Proofs
<1>3. /\ stage'[s] \in StageRows /\ stage'[s].head = h /\ stage'[s].at = h
      /\ stage'[s].job = stage[s].job
  <2> DEFINE st == stage[s]
  <2>1. st \in StageRows /\ stage'[s] = [st EXCEPT !.head = h, !.at = h]
    BY <1>1, <1>2
  <2> HIDE DEF st
  <2>2. [st EXCEPT !.head = h, !.at = h] = [head |-> h, at |-> h, job |-> st.job]
    BY <2>1 DEF StageRows
  <2>3. st.job \in [Filters -> JobRows]
    BY <2>1 DEF StageRows
  <2>4. stage'[s] = [head |-> h, at |-> h, job |-> st.job]
    BY <2>1, <2>2
  <2> DEFINE new == [head |-> h, at |-> h, job |-> st.job]
  <2>5. new \in StageRows /\ new.head = h /\ new.at = h /\ new.job = st.job
    BY <2>3 DEF StageRows
  <2> HIDE DEF new
  <2>6. stage'[s] = new
    BY <2>4 DEF new
  <2> QED
    BY <2>5, <2>6, Zenon DEF st
<1>4. ASSUME NEW k \in Filters
      PROVE  JobHolds(k, stage[s].job[k], h, Edge, events)
  BY <1>2 DEF StageHolds, JobHolds
<1>5. StageHolds(s, stage'[s])
  BY <1>2, <1>3, <1>4 DEF StageHolds
<1>6. \A z \in Stages : StageHolds(z, stage'[z])
  BY <1>1, <1>5 DEF Proofs
<1>7. stage' \in [Stages -> StageRows]
  BY <1>1, <1>3 DEF DrainTypes
<1> QED
  BY <1>6, <1>7

LEMMA PinHeadEffect ==
    ASSUME DrainTypes, GapBounds, Proofs, NEW g \in Ids, PinHead(g)
    PROVE  stage' \in [Stages -> StageRows] /\ \A z \in Stages : StageHolds(z, stage'[z])
<1>1. g \in OpenGaps /\ ~Expired /\ stage[Live(g)].head = 0
  BY DEF PinHead, Plain, OpenGaps
<1>2. Live(g) \in Stages
  BY StageIds
<1>3. PICK c \in IF Reused(g) # {} THEN Reused(g) ELSE {<<h, h>> : h \in Heads} :
        stage' = [stage EXCEPT ![Live(g)].head = c[1], ![Live(g)].at = c[2]]
  BY DEF PinHead
<1>4. c[1] \in Nat /\ c[2] = c[1] /\ c[1] <= Edge
  <2>1. CASE c \in Reused(g)
    BY <1>1, <2>1, ReusedHead
  <2>2. CASE c \in {<<h, h>> : h \in Heads}
    BY <1>1, <2>2, FrozenHead
  <2> QED
    BY <1>3, <2>1, <2>2
<1>5. stage[Live(g)].job["v4"] = NoJob
  <2>1. JobHolds("v4", stage[Live(g)].job["v4"], 0, Edge, events)
    BY <1>1, <1>2, StageFacts DEF Filters
  <2>2. stage[Live(g)].job["v4"] \in JobRows
    BY <1>2, StageFacts DEF Filters
  <2> QED
    BY <2>1, <2>2, WindowFacts DEF JobHolds, JobRows, From
<1> QED
  BY <1>2, <1>3, <1>4, <1>5, NewHead

LEMMA FreezeHeadEffect ==
    ASSUME DrainTypes, Proofs, FreezeHead
    PROVE  stage' \in [Stages -> StageRows] /\ \A z \in Stages : StageHolds(z, stage'[z])
<1> DEFINE s == <<"drain", round + 1>>
<1>1. ~Expired /\ round \in Nat /\ round < MaxRounds
  BY DEF FreezeHead, Offline, DrainTypes
<1>2. s \in Stages /\ s[1] = "drain" /\ s[2] = round + 1
  BY <1>1, WindowFacts DEF Stages
<1>3. PICK h \in Heads : stage' = [stage EXCEPT ![s].head = h, ![s].at = h]
  BY DEF FreezeHead
<1>4. stage[s].job["v4"] = NoJob
  <2>1. Aim(s, stage[s].job["v4"])
    BY <1>2, StageFacts
  <2> QED
    BY <1>1, <1>2, <2>1 DEF Aim
<1>5. h \in Nat /\ h <= Edge
  BY <1>1, FrozenHead
<1> HIDE DEF s
<1> QED
  BY <1>2, <1>3, <1>4, <1>5, NewHead

\* The row of a chunk proves what the chunk stored.
LEMMA CommitRowEffect ==
    ASSUME DrainTypes, Proofs, Chunk, CommitRow
    PROVE  /\ stage' \in [Stages -> StageRows] /\ \A z \in Stages : StageHolds(z, stage'[z])
           /\ work' \in WorkRows /\ work'.phase \in {"idle", "verify"} /\ work # Idle
           /\ work' # Idle => work'.s = work.s
<1> DEFINE s == work.s  k0 == work.kind  j0 == stage[s].job[k0]  h == stage[s].head
           row == <<work.from, work.to>>
<1>1. /\ work.phase = "stored" /\ work \in WorkRows /\ s \in Stages /\ k0 \in Filters
      /\ work.from \in Nat /\ work.to \in Nat
  BY DEF CommitRow, DrainTypes, WorkRows
<1>2. /\ j0 # NoJob /\ From(k0) <= work.from /\ work.from <= work.to /\ work.to <= j0.upto
      /\ Fetched \subseteq events
  BY <1>1 DEF Chunk
<1>3. /\ h \in Nat /\ h <= Edge /\ stage[s].at = h /\ stage[s] \in StageRows
      /\ stage[s].job \in [Filters -> JobRows]
      /\ \A k \in Filters : JobHolds(k, stage[s].job[k], h, Edge, events)
      /\ Aim(s, stage[s].job["v4"])
  BY <1>1, StageFacts
<1> DEFINE job == WithRow
<1>4. /\ job[k0] = [j0 EXCEPT !.rows = j0.rows \cup {row}, !.next = work.to + 1]
      /\ \A k \in Filters : k # k0 => job[k] = stage[s].job[k]
      /\ DOMAIN job = Filters
  BY <1>1, <1>3 DEF WithRow
<1>5. job[k0] \in JobRows /\ job[k0].from = j0.from /\ job[k0].upto = j0.upto
      /\ job[k0].next = work.to + 1 /\ job[k0].rows = j0.rows \cup {row}
  <2>1. row \in Int \X Int /\ work.to + 1 \in Nat /\ j0 \in JobRows
    BY <1>1, <1>3
  <2> DEFINE rows == j0.rows \cup {row}  n == work.to + 1
  <2>2. rows \in SUBSET (Int \X Int) /\ n \in Nat
    BY <2>1 DEF JobRows
  <2>3. job[k0] = [j0 EXCEPT !.rows = rows, !.next = n]
    BY <1>4
  <2> HIDE DEF row, j0, rows, n, job
  <2>4. job[k0] \in JobRows /\ job[k0].from = j0.from /\ job[k0].upto = j0.upto
        /\ job[k0].next = n /\ job[k0].rows = rows
    BY <2>1, <2>2, <2>3 DEF JobRows
  <2> QED
    BY <2>4 DEF rows, n
<1>6. Covers(job[k0].rows) = Covers(j0.rows) \cup (work.from..work.to)
  <2>1. Covers({row}) = work.from..work.to
    BY CoversOfRow
  <2> HIDE DEF row, job, j0
  <2>2. Covers(j0.rows \cup {row}) = Covers(j0.rows) \cup Covers({row})
    BY CoversOfUnion
  <2>3. job[k0].rows = j0.rows \cup {row}
    BY <1>5
  <2> QED
    BY <2>1, <2>2, <2>3
<1>7. k0 = "v4" => {"v4"} \X (work.from..work.to) \subseteq events
  BY <1>2 DEF Fetched
<1>8. JobHolds(k0, job[k0], h, Edge, events) /\ job[k0] # NoJob
  <2>1. JobHolds(k0, j0, h, Edge, events) /\ From(k0) \in Nat /\ From(k0) >= 1
    BY <1>1, <1>3, FilterEnds
  <2> HIDE DEF job, h, row, j0
  <2>2. From(k0) <= work.to + 1
    BY <1>1, <1>2, <2>1
  <2>3. JobHolds(k0, job[k0], h, Edge, events)
    BY <1>2, <1>5, <1>6, <1>7, <2>1, <2>2 DEF JobHolds
  <2>4. job[k0] # NoJob
    BY <1>2, <1>5, <2>1 DEF JobHolds, NoJob
  <2> QED
    BY <2>3, <2>4
<1>9. /\ job \in [Filters -> JobRows] /\ \A k \in Filters : JobHolds(k, job[k], h, Edge, events)
      /\ \A k \in Filters : /\ job[k] = NoJob <=> stage[s].job[k] = NoJob
                            /\ job[k].from = stage[s].job[k].from
                            /\ job[k].upto = stage[s].job[k].upto
  <2>1. job = [k \in Filters |-> job[k]]
    BY <1>1, <1>3 DEF WithRow
  <2>2. ASSUME NEW k \in Filters
        PROVE  /\ job[k] \in JobRows /\ JobHolds(k, job[k], h, Edge, events)
               /\ job[k] = NoJob <=> stage[s].job[k] = NoJob
               /\ job[k].from = stage[s].job[k].from /\ job[k].upto = stage[s].job[k].upto
    <3>1. CASE k = k0
      BY <3>1, <1>2, <1>5, <1>8
    <3>2. CASE k # k0
      BY <3>2, <1>3, <1>4
    <3> QED
      BY <3>1, <3>2
  <2> HIDE DEF job
  <2> QED
    BY <2>1, <2>2
<1> DEFINE w == WalkedAll(job)
<1>10. /\ w \in [Filters -> JobRows]
       /\ \A k \in Filters : /\ JobHolds(k, w[k], h, Edge, events) /\ (w[k] = NoJob <=> job[k] = NoJob)
                             /\ w[k].from = job[k].from /\ w[k].upto = job[k].upto
  <2> HIDE DEF job, h
  <2>1. job \in [Filters -> JobRows] /\ \A k \in Filters : JobHolds(k, job[k], h, Edge, events)
    BY <1>9
  <2> QED
    BY <2>1, WalkedAllHolds
<1>11. stage' = [stage EXCEPT ![s].job = w]
  BY DEF CommitRow
<1> HIDE DEF w, job
<1>12. /\ stage'[s] = [stage[s] EXCEPT !.job = w] /\ \A z \in Stages : z # s => stage'[z] = stage[z]
  BY <1>1, <1>11 DEF DrainTypes
<1>13. stage'[s] \in StageRows /\ stage'[s].head = h /\ stage'[s].at = h /\ stage'[s].job = w
  BY <1>3, <1>10, <1>12 DEF StageRows
<1>14. Aim(s, w["v4"])
  <2> HIDE DEF s, h
  <2> QED
    BY <1>3, <1>9, <1>10 DEF Aim, Filters
<1>15. StageHolds(s, stage'[s])
  BY <1>3, <1>10, <1>13, <1>14 DEF StageHolds
<1>16. \A z \in Stages : StageHolds(z, stage'[z])
  BY <1>12, <1>15 DEF Proofs
<1>17. stage' \in [Stages -> StageRows]
  BY <1>11, <1>12, <1>13 DEF DrainTypes
<1>18. work' \in WorkRows /\ work'.phase \in {"idle", "verify"} /\ work # Idle
       /\ (work' # Idle => work'.s = work.s)
  <2>1. work # Idle
    BY <1>1 DEF Idle
  <2>2. Idle \in WorkRows
    BY WindowFacts DEF Idle, WorkRows, Stages, Ids, Filters, DrainTypes, WindowAssumption
  <2>3. CASE work' = Idle
    BY <2>1, <2>2, <2>3 DEF Idle
  <2>4. CASE work' = [work EXCEPT !.phase = "verify"]
    BY <1>1, <2>1, <2>4 DEF WorkRows
  <2> QED
    BY <2>3, <2>4 DEF CommitRow
<1> QED
  BY <1>16, <1>17, <1>18

(***************************************************************************)
(* The steps.                                                              *)
(***************************************************************************)
LEMMA IdleType == Idle \in WorkRows
  BY WindowFacts DEF Idle, WorkRows, Stages, Ids, Filters

LEMMA StageBound ==
    ASSUME DrainTypes, Proofs, NEW s \in Stages, NEW k \in Filters, stage[s].job[k] # NoJob
    PROVE  /\ stage[s].job[k].from \in Nat /\ stage[s].job[k].upto \in Nat
           /\ From(k) <= stage[s].job[k].from /\ stage[s].job[k].upto <= To(k, Edge)
<1>1. stage[s].job[k] \in JobRows /\ JobHolds(k, stage[s].job[k], stage[s].head, Edge, events)
  BY StageFacts
<1> QED
  BY <1>1 DEF JobRows, JobHolds

LEMMA FetchedHappened ==
    ASSUME DrainTypes, Proofs, Chunk, work.phase = "ask"
    PROVE  Fetched \subseteq Happened
<1> DEFINE k == work.kind  j == stage[work.s].job[k]
<1>1. work.s \in Stages /\ k \in Filters /\ work.from \in Nat /\ work.to \in Nat
  BY DEF DrainTypes, WorkRows
<1>2. j # NoJob /\ From(k) <= work.from /\ work.to <= j.upto
  BY DEF Chunk
<1>3. j.upto \in Nat /\ j.upto <= To(k, Edge)
  BY <1>1, <1>2, StageBound
<1>4. From(k) \in Nat /\ To(k, Edge) \in Nat /\ Edge \in Nat /\ Edge <= EndBlock
  BY <1>1, FilterEnds, EdgeFacts
<1>5. work.from..work.to \subseteq From(k)..To(k, Edge)
  <2> HIDE DEF j, k
  <2> QED
    BY <1>1, <1>2, <1>3, <1>4
<1>6. Happened = UNION {{f} \X (From(f)..To(f, Edge)) : f \in Filters}
  BY DEF Happened, Tracked, Edge
<1>7. Fetched = {k} \X (work.from..work.to)
  BY DEF Fetched
<1> HIDE DEF k, j
<1> QED
  BY <1>1, <1>5, <1>6, <1>7

LEMMA PromotedType ==
    ASSUME DrainTypes, Proofs, NEW s \in Stages
    PROVE  /\ Promoted(s) \in [Filters -> Nat] /\ cursor["v4"] <= Promoted(s)["v4"]
           /\ Promoted(s)["v4"] = IF stage[s].job["v4"] # NoJob
                                  THEN Greatest(cursor["v4"], stage[s].job["v4"].upto) ELSE cursor["v4"]
<1>1. ASSUME NEW k \in Filters
      PROVE  /\ cursor[k] \in Nat /\ Promoted(s)[k] \in Nat /\ cursor[k] <= Promoted(s)[k]
             /\ Promoted(s)[k] = IF stage[s].job[k] # NoJob
                                 THEN Greatest(cursor[k], stage[s].job[k].upto) ELSE cursor[k]
  <2>1. cursor[k] \in Nat
    BY DEF DrainTypes
  <2>2. Promoted(s)[k] = IF stage[s].job[k] # NoJob
                         THEN Greatest(cursor[k], stage[s].job[k].upto) ELSE cursor[k]
    BY DEF Promoted, Planned
  <2>3. stage[s].job[k] # NoJob => stage[s].job[k].upto \in Nat
    BY StageBound
  <2> QED
    BY <2>1, <2>2, <2>3 DEF Greatest
<1>2. Promoted(s) \in [Filters -> Nat]
  BY <1>1 DEF Promoted
<1> QED
  BY <1>1, <1>2 DEF Filters

LEMMA FreshGap ==
    ASSUME DrainTypes, GapBounds, ~up
    PROVE  Min(Fresh) \in Ids /\ Min(Fresh) \in Fresh
<1>1. Fresh \subseteq Nat /\ Fresh # {} /\ Fresh \subseteq Ids
  BY WindowFacts DEF Fresh, Ids, GapBounds
<1> QED
  BY <1>1, MinOfNumbers

LEMMA ReturnGap ==
    ASSUME DrainTypes
    PROVE  /\ [first |-> lcb, end |-> Least(Now, WindowEnd), open |-> TRUE] \in GapRows
           /\ Least(Now, WindowEnd) \in Nat /\ Least(Now, WindowEnd) <= Now /\ Now \in Nat
           /\ lcb \in FirstHead..tip /\ lcb \in Nat /\ tip \in Nat
  BY WindowFacts DEF DrainTypes, GapRows, Least, Now, WindowEnd, At

LEMMA DrainTypesStep ==
    ASSUME DrainTypes, Losses, GapBounds, Proofs, Chunk, [DNext]_dvars
    PROVE  DrainTypes'
<1> USE DEF gvars, dvars, ledger, debts, drain
<1>1. CASE NewBlock /\ UNCHANGED drain
  <2>1. /\ tip \in Nat /\ Grad < tip /\ tip < MaxTip /\ tip' = tip + 1
        /\ UNCHANGED <<up, cursor, gaps, bounds, stage, work, round, safe>>
    BY <1>1, EdgeFacts DEF NewBlock
  <2>2. tip' \in FirstHead..MaxTip /\ lcb' \in FirstHead..tip'
    BY <1>1, <2>1, WindowFacts DEF NewBlock, DrainTypes
  <2>3. Happened = Tracked(tip) /\ Happened' = Tracked(tip + 1) /\ Tracked(tip) \subseteq Tracked(tip + 1)
    <3>1. Least(tip, EndBlock) <= Least(tip + 1, EndBlock) /\ Least(tip, EndBlock) \in Nat
          /\ Least(tip + 1, EndBlock) \in Nat
      BY <2>1, WindowFacts DEF Least
    <3> QED
      BY <2>1, <3>1, TrackedBlocks, WindowFacts DEF Happened
  <2>4. events' \subseteq Happened'
    BY <1>1, <2>3 DEF NewBlock, DrainTypes
  <2> QED
    BY <2>1, <2>2, <2>4 DEF DrainTypes
<1>2. CASE Stop /\ UNCHANGED drain
  BY <1>2, IdleType DEF Stop, DrainTypes, Happened
<1>3. CASE Expire /\ UNCHANGED drain
  BY <1>3 DEF Expire, DrainTypes, Happened
<1>4. CASE Pause /\ UNCHANGED drain
  BY <1>4, IdleType DEF Pause, DrainTypes, Happened
<1>5. ASSUME NEW g \in Ids, PinHead(g), UNCHANGED drain PROVE DrainTypes'
  <2>1. stage' \in [Stages -> StageRows]
    BY <1>5, PinHeadEffect
  <2> QED
    BY <1>5, <2>1 DEF PinHead, DrainTypes, Happened
<1>6. ASSUME NEW g \in Ids, Tick(g), UNCHANGED drain PROVE DrainTypes'
  <2>1. stage' \in [Stages -> StageRows] /\ work' \in WorkRows
    BY <1>6, TickEffect
  <2> QED
    BY <1>6, <2>1 DEF Tick, DrainTypes, Happened
<1>7. ASSUME NEW g \in Ids, Resolve(g), UNCHANGED drain PROVE DrainTypes'
  <2>1. Live(g) \in Stages
    BY StageIds
  <2>2. cursor' \in [Filters -> Nat]
    BY <1>7, <2>1, PromotedType DEF Resolve, DrainTypes
  <2>3. gaps' \in [Ids -> GapRows]
    BY <1>7 DEF Resolve, DrainTypes, GapRows
  <2> QED
    BY <1>7, <2>2, <2>3, IdleType DEF Resolve, DrainTypes, Happened
<1>8. ASSUME NEW g \in Ids, BlockExpired(g), UNCHANGED drain PROVE DrainTypes'
  BY <1>8 DEF BlockExpired, DrainTypes, Happened
<1>9. ASSUME NEW g \in Ids, Enroll(g), UNCHANGED drain PROVE DrainTypes'
  <2>1. bounds' \in [Ids -> Nat]
    BY <1>9, WindowFacts DEF Enroll, DrainTypes, Heights
  <2> QED
    BY <1>9, <2>1 DEF Enroll, DrainTypes, Happened
<1>10. ASSUME NEW g \in Ids, FixedTick(g), UNCHANGED drain PROVE DrainTypes'
  <2>1. stage' \in [Stages -> StageRows] /\ work' \in WorkRows
    BY <1>10, FixedTickEffect
  <2> QED
    BY <1>10, <2>1 DEF FixedTick, DrainTypes, Happened
<1>11. ASSUME NEW g \in Ids, ResolveFixed(g), UNCHANGED drain PROVE DrainTypes'
  <2>1. gaps' \in [Ids -> GapRows]
    BY <1>11 DEF ResolveFixed, DrainTypes, GapRows
  <2> QED
    BY <1>11, <2>1, IdleType DEF ResolveFixed, DrainTypes, Happened
<1>12. CASE Answer /\ UNCHANGED drain
  <2>1. Fetched \subseteq Happened
    BY <1>12, FetchedHappened DEF Answer
  <2>2. work' \in WorkRows
    BY <1>12 DEF Answer, DrainTypes, WorkRows
  <2> QED
    BY <1>12, <2>1, <2>2 DEF Answer, DrainTypes, Happened
<1>13. CASE CommitRow /\ UNCHANGED drain
  <2>1. stage' \in [Stages -> StageRows] /\ work' \in WorkRows
    BY <1>13, CommitRowEffect
  <2> QED
    BY <1>13, <2>1 DEF CommitRow, DrainTypes, Happened
<1>14. CASE Restart
  <2>1. ~up /\ UNCHANGED <<tip, over, events, cursor, stage, work, round>> /\ up' = TRUE
        /\ lcb' = tip /\ safe' = FALSE
    BY <1>14 DEF Restart, Return
  <2>2. gaps' \in [Ids -> GapRows] /\ bounds' = bounds
    <3>1. CASE over
      BY <1>14, <3>1 DEF Restart, Return, DrainTypes
    <3>2. CASE ~over
      <4>1. gaps' = [gaps EXCEPT ![Min(Fresh)] = [first |-> lcb, end |-> Least(Now, WindowEnd), open |-> TRUE]]
            /\ bounds' = bounds
        BY <1>14, <3>2 DEF Restart, Return, Uncertain, AddGap
      <4> QED
        BY <4>1, <2>1, FreshGap, ReturnGap DEF DrainTypes
    <3> QED
      BY <3>1, <3>2
  <2>3. tip' = tip /\ lcb' \in FirstHead..tip' /\ tip' \in FirstHead..MaxTip
    BY <2>1, WindowFacts DEF DrainTypes
  <2>4. events' \subseteq Happened' /\ cursor' \in [Filters -> Nat]
    BY <2>1 DEF DrainTypes, Happened
  <2>5. stage' \in [Stages -> StageRows] /\ work' \in WorkRows /\ round' \in 0..MaxRounds
    BY <2>1 DEF DrainTypes
  <2> QED
    BY <2>1, <2>2, <2>3, <2>4, <2>5 DEF DrainTypes
<1>15. CASE FreezeHead
  <2>1. stage' \in [Stages -> StageRows]
    BY <1>15, FreezeHeadEffect
  <2>2. round' \in 0..MaxRounds
    BY <1>15, WindowFacts DEF FreezeHead, DrainTypes
  <2> QED
    BY <1>15, <2>1, <2>2 DEF FreezeHead, DrainTypes, Happened
<1>16. CASE DrainTick
  <2>1. stage' \in [Stages -> StageRows] /\ work' \in WorkRows
    BY <1>16, DrainTickEffect
  <2> QED
    BY <1>16, <2>1 DEF DrainTick, DrainTypes, Happened
<1>17. CASE BreakOff
  BY <1>17, IdleType DEF BreakOff, DrainTypes, Happened
<1>18. CASE PromoteDrain
  <2>1. round > 0 /\ round \in Nat /\ round <= MaxRounds
    BY <1>18, WindowFacts DEF PromoteDrain, Draining, Chunk, DrainTypes
  <2>2. Drain \in Stages
    BY <2>1, WindowFacts DEF Drain, Stages
  <2>3. cursor' \in [Filters -> Nat]
    BY <1>18, <2>2, PromotedType DEF PromoteDrain
  <2>4. gaps' \in [Ids -> GapRows]
    BY <1>18 DEF PromoteDrain, DrainTypes, GapRows
  <2> QED
    BY <1>18, <2>3, <2>4, IdleType DEF PromoteDrain, DrainTypes, Happened
<1>19. CASE Assess
  BY <1>19 DEF Assess, DrainTypes, Happened
<1>20. CASE UNCHANGED dvars
  BY <1>20 DEF DrainTypes, Happened
<1> QED
  BY <1>1, <1>2, <1>3, <1>4, <1>5, <1>6, <1>7, <1>8, <1>9, <1>10, <1>11, <1>12, <1>13, <1>14, <1>15,
     <1>16, <1>17, <1>18, <1>19, <1>20 DEF DNext, OfWorker

\* Closing a gap leaves its bounds.
LEMMA ClosingKeeps ==
    ASSUME DrainTypes, GapBounds, gaps' \in [Ids -> GapRows],
           \A g \in Ids : gaps'[g].first = gaps[g].first /\ gaps'[g].end = gaps[g].end
                          /\ (gaps'[g].open => gaps[g].open)
    PROVE  Fresh' = Fresh /\ OpenGaps' \subseteq OpenGaps
<1>1. OpenGaps' \subseteq OpenGaps
  BY DEF OpenGaps
<1>2. ASSUME NEW g \in Ids PROVE gaps'[g] = NoGap <=> gaps[g] = NoGap
  <2>1. gaps[g] \in GapRows /\ gaps'[g] \in GapRows
    BY DEF DrainTypes
  <2>2. ASSUME gaps[g] = NoGap PROVE gaps'[g] = NoGap
    <3>1. gaps'[g].first = 0 /\ gaps'[g].end = 0 /\ gaps'[g].open = FALSE
      BY <2>1, <2>2 DEF NoGap, GapRows
    <3> QED
      BY <2>1, <3>1 DEF NoGap, GapRows
  <2>3. ASSUME gaps'[g] = NoGap PROVE gaps[g] = NoGap
    <3>1. gaps[g].first = 0
      BY <2>3 DEF NoGap
    <3> QED
      BY <3>1, WindowFacts DEF GapBounds, Fresh, DrainTypes
  <2> QED
    BY <2>2, <2>3
<1> QED
  BY <1>1, <1>2 DEF Fresh

LEMMA CloseOne ==
    ASSUME DrainTypes, NEW g \in Ids, gaps' = [gaps EXCEPT ![g].open = FALSE]
    PROVE  /\ gaps' \in [Ids -> GapRows]
           /\ \A i \in Ids : gaps'[i].first = gaps[i].first /\ gaps'[i].end = gaps[i].end
                             /\ (gaps'[i].open => gaps[i].open) /\ (i # g => gaps'[i] = gaps[i])
<1>1. ASSUME NEW i \in Ids
      PROVE  /\ gaps'[i] \in GapRows /\ gaps'[i].first = gaps[i].first /\ gaps'[i].end = gaps[i].end
             /\ (gaps'[i].open => gaps[i].open) /\ (i # g => gaps'[i] = gaps[i])
  <2>1. gaps[i] \in GapRows
    BY DEF DrainTypes
  <2>2. gaps'[i] = IF i = g THEN [gaps[i] EXCEPT !.open = FALSE] ELSE gaps[i]
    BY DEF DrainTypes
  <2>3. ASSUME NEW row \in GapRows
        PROVE  LET new == [row EXCEPT !.open = FALSE]
               IN  new \in GapRows /\ new.first = row.first /\ new.end = row.end /\ ~new.open
    BY DEF GapRows
  <2>4. CASE i = g
    BY <2>1, <2>2, <2>3, <2>4
  <2>5. CASE i # g
    BY <2>1, <2>2, <2>5
  <2> QED
    BY <2>4, <2>5
<1>2. gaps' \in [Ids -> GapRows]
  BY <1>1 DEF DrainTypes
<1> QED
  BY <1>1, <1>2

\* What each step does to the gap rows: nothing, a new row for a return, or closing some.
LEMMA GapsStep ==
    ASSUME DrainTypes, GapBounds, [DNext]_dvars
    PROVE  \/ Restart
           \/ /\ (up' => up) /\ Fresh' = Fresh /\ OpenGaps' \subseteq OpenGaps
              /\ \A g \in Ids : gaps'[g].first = gaps[g].first /\ gaps'[g].end = gaps[g].end
<1> USE DEF gvars, dvars, ledger, debts, drain
<1>1. ASSUME UNCHANGED <<gaps>>
      PROVE  /\ Fresh' = Fresh /\ OpenGaps' \subseteq OpenGaps
             /\ \A g \in Ids : gaps'[g].first = gaps[g].first /\ gaps'[g].end = gaps[g].end
  BY <1>1 DEF Fresh, OpenGaps
<1>2. ASSUME NEW g \in Ids, gaps' = [gaps EXCEPT ![g].open = FALSE]
      PROVE  /\ Fresh' = Fresh /\ OpenGaps' \subseteq OpenGaps
             /\ \A i \in Ids : gaps'[i].first = gaps[i].first /\ gaps'[i].end = gaps[i].end
  BY <1>2, CloseOne, ClosingKeeps
<1>3. CASE PromoteDrain
  <2>1. gaps' = [g \in Ids |-> IF g \in OpenGaps /\ BeforeHead(g) /\ CoveredAll(g)
                               THEN [gaps[g] EXCEPT !.open = FALSE] ELSE gaps[g]]
    BY <1>3 DEF PromoteDrain
  <2>2. ASSUME NEW i \in Ids
        PROVE  /\ gaps'[i] \in GapRows /\ gaps'[i].first = gaps[i].first /\ gaps'[i].end = gaps[i].end
               /\ gaps'[i].open => gaps[i].open
    BY <2>1 DEF DrainTypes, GapRows
  <2>3. gaps' \in [Ids -> GapRows]
    BY <2>1, <2>2
  <2>4. Fresh' = Fresh /\ OpenGaps' \subseteq OpenGaps
    BY <2>2, <2>3, ClosingKeeps
  <2> QED
    BY <1>3, <2>2, <2>4 DEF PromoteDrain
<1>4. ASSUME NEW g \in Ids, Resolve(g) \/ ResolveFixed(g)
      PROVE  gaps' = gaps \/ gaps' = [gaps EXCEPT ![g].open = FALSE]
  BY <1>4 DEF Resolve, ResolveFixed
<1>5. ASSUME NEW g \in Ids, Resolve(g) \/ ResolveFixed(g)
      PROVE  /\ Fresh' = Fresh /\ OpenGaps' \subseteq OpenGaps
             /\ \A i \in Ids : gaps'[i].first = gaps[i].first /\ gaps'[i].end = gaps[i].end
  <2>1. CASE gaps' = gaps
    BY <1>1, <2>1
  <2>2. CASE gaps' = [gaps EXCEPT ![g].open = FALSE]
    BY <1>2, <2>2
  <2> QED
    BY <1>4, <1>5, <2>1, <2>2
<1>6. \/ Restart \/ PromoteDrain \/ (\E g \in Ids : (Resolve(g) \/ ResolveFixed(g)) /\ UNCHANGED drain)
      \/ gaps' = gaps /\ (up' => up)
  BY DEF DNext, OfWorker, NewBlock, Stop, Expire, Pause, PinHead, Tick, BlockExpired, Enroll, FixedTick,
     Answer, CommitRow, FreezeHead, DrainTick, BreakOff, Assess
<1>7. CASE \E g \in Ids : (Resolve(g) \/ ResolveFixed(g)) /\ UNCHANGED drain
  BY <1>5, <1>7 DEF Resolve, ResolveFixed
<1>8. CASE gaps' = gaps /\ (up' => up)
  BY <1>1, <1>8
<1> QED
  BY <1>3, <1>6, <1>7, <1>8

\* The worker's return, as a whole: nothing, or a gap from the last block it saw.
LEMMA RestartEffect ==
    ASSUME DrainTypes, GapBounds, Restart
    PROVE  /\ ~up /\ up' /\ UNCHANGED <<tip, over, events, cursor, stage, work, round, bounds>>
           /\ work = Idle /\ lcb' = tip /\ safe' = FALSE /\ pendingd' = FALSE
           /\ \/ over /\ gaps' = gaps
              \/ ~over /\ \E n \in Fresh :
                    /\ n \in Ids /\ gaps'[n].first = lcb /\ gaps'[n].end = Least(Now, WindowEnd)
                    /\ gaps'[n].open /\ \A i \in Ids : i # n => gaps'[i] = gaps[i]
                    /\ Fresh' = Fresh \ {n} /\ OpenGaps' = OpenGaps \cup {n}
<1>1. /\ ~up /\ up' /\ UNCHANGED <<tip, over, events, cursor, stage, work, round>>
      /\ work = Idle /\ lcb' = tip /\ safe' = FALSE /\ pendingd' = FALSE
      /\ IF over THEN UNCHANGED debts ELSE Uncertain
  BY DEF Restart, Return, ledger
<1>2. CASE over
  BY <1>1, <1>2 DEF debts
<1>3. CASE ~over
  <2> DEFINE n == Min(Fresh)  row == [first |-> lcb, end |-> Least(Now, WindowEnd), open |-> TRUE]
  <2>1. n \in Ids /\ n \in Fresh
    BY <1>1, FreshGap
  <2>2. gaps' = [gaps EXCEPT ![n] = row] /\ bounds' = bounds
    BY <1>1, <1>3 DEF Uncertain, AddGap
  <2>3. row.first = lcb /\ row.end = Least(Now, WindowEnd) /\ row.open
    OBVIOUS
  <2>4. row # NoGap /\ gaps[n] = NoGap /\ ~gaps[n].open
    BY <2>1 DEF NoGap, Fresh
  <2>5. DOMAIN gaps = Ids
    BY DEF DrainTypes
  <2> HIDE DEF n, row
  <2>6. gaps'[n] = row /\ \A i \in Ids : i # n => gaps'[i] = gaps[i]
    BY <2>1, <2>2, <2>5
  <2>7. Fresh' = Fresh \ {n} /\ OpenGaps' = OpenGaps \cup {n}
    BY <2>1, <2>3, <2>4, <2>6 DEF Fresh, OpenGaps
  <2> QED
    BY <1>1, <1>3, <2>1, <2>2, <2>3, <2>6, <2>7
<1> QED
  BY <1>2, <1>3

\* What no step takes back.
LEMMA WorldStep ==
    ASSUME DrainTypes, Proofs, Chunk, [DNext]_dvars
    PROVE  /\ tip' = tip \/ (NewBlock /\ UNCHANGED drain)
           /\ bounds' = bounds \/ \E g \in Ids : Enroll(g) /\ UNCHANGED drain
           /\ events \subseteq events' /\ cursor["v4"] <= cursor'["v4"] /\ round <= round'
           /\ up /\ ~up' => Fresh # {}
<1> USE DEF gvars, dvars, ledger, debts, drain
<1>1. cursor["v4"] \in Nat /\ round \in Nat
  BY WindowFacts DEF DrainTypes, Filters
<1>2. ASSUME NEW s \in Stages, cursor' = Promoted(s) PROVE cursor["v4"] <= cursor'["v4"]
  BY <1>2, PromotedType
<1>3. ASSUME NEW g \in Ids, Resolve(g) PROVE cursor["v4"] <= cursor'["v4"]
  BY <1>1, <1>2, <1>3, StageIds DEF Resolve
<1>4. CASE PromoteDrain
  <2>1. round > 0 /\ round \in Nat /\ round <= MaxRounds
    BY <1>4, WindowFacts DEF PromoteDrain, Draining, Chunk, DrainTypes
  <2>2. Drain \in Stages
    BY <2>1, WindowFacts DEF Drain, Stages
  <2> QED
    BY <1>1, <1>2, <1>4, <2>2 DEF PromoteDrain
<1>5. CASE \E g \in Ids : Resolve(g) /\ UNCHANGED drain
  BY <1>1, <1>3, <1>5 DEF Resolve
<1>6. CASE FreezeHead
  BY <1>1, <1>6 DEF FreezeHead
<1>7. CASE Restart
  BY <1>1, <1>7 DEF Restart, Return, Uncertain, AddGap
<1>8. CASE \E g \in Ids : Enroll(g) /\ UNCHANGED drain
  <2>1. UNCHANGED <<tip, up, events, cursor, round>>
    BY <1>8 DEF Enroll
  <2> QED
    BY <1>1, <1>8, <2>1
<1>9. CASE NewBlock /\ UNCHANGED drain
  BY <1>1, <1>9 DEF NewBlock
<1>10. CASE /\ UNCHANGED <<tip, bounds, cursor, round>> /\ events \subseteq events'
            /\ up /\ ~up' => Fresh # {}
  BY <1>1, <1>10
<1>11. \/ PromoteDrain \/ (\E g \in Ids : Resolve(g) /\ UNCHANGED drain) \/ FreezeHead \/ Restart
       \/ (\E g \in Ids : Enroll(g) /\ UNCHANGED drain) \/ (NewBlock /\ UNCHANGED drain)
       \/ /\ UNCHANGED <<tip, bounds, cursor, round>> /\ events \subseteq events'
          /\ up /\ ~up' => Fresh # {}
  BY DEF DNext, OfWorker, Stop, Expire, Pause, PinHead, Tick, BlockExpired, FixedTick, ResolveFixed,
     Answer, CommitRow, DrainTick, BreakOff, Assess, Block
<1> QED
  BY <1>4, <1>5, <1>6, <1>7, <1>8, <1>9, <1>10, <1>11

LEMMA EdgeGrows ==
    ASSUME DrainTypes, Proofs, Chunk, [DNext]_dvars
    PROVE  /\ tip \in Nat /\ tip' \in Nat /\ tip <= tip' /\ Edge \in Nat /\ Edge' \in Nat /\ Edge <= Edge'
           /\ Now \in Nat /\ Now' \in Nat /\ Now <= Now' /\ tip' <= tip + 1
<1>1. tip \in Nat /\ (tip' = tip \/ tip' = tip + 1)
  BY WorldStep, EdgeFacts DEF NewBlock
<1> QED
  BY <1>1, WindowFacts DEF Edge, Least, Now

LEMMA GapBoundsStep ==
    ASSUME DrainTypes, Losses, GapBounds, Proofs, Chunk, [DNext]_dvars, DrainTypes'
    PROVE  GapBounds'
<1>1. /\ tip \in Nat /\ tip' \in Nat /\ tip <= tip' /\ Edge \in Nat /\ Edge' \in Nat /\ Edge <= Edge'
      /\ Now \in Nat /\ Now' \in Nat /\ Now <= Now' /\ Edge <= tip
  BY EdgeGrows, EdgeFacts
<1>2. CASE Restart
  <2>1. up' /\ tip' = tip /\ bounds' = bounds
    BY <1>2, RestartEffect
  <2>2. CASE gaps' = gaps
    BY <2>1, <2>2 DEF GapBounds, Fresh, Edge, Now
  <2>3. ASSUME NEW n \in Fresh, n \in Ids, gaps'[n].first = lcb, gaps'[n].end = Least(Now, WindowEnd),
               \A i \in Ids : i # n => gaps'[i] = gaps[i], Fresh' = Fresh \ {n}
        PROVE  GapBounds'
    <3>1. \A g \in Ids \ Fresh' : gaps'[g].first \in FirstHead..tip' /\ gaps'[g].end <= Now'
      <4>1. lcb \in FirstHead..tip /\ Least(Now, WindowEnd) <= Now
        BY ReturnGap
      <4> QED
        BY <2>1, <2>3, <4>1 DEF GapBounds, Now
    <3>2. bounds[n] = 0
      BY <2>3 DEF GapBounds
    <3>3. \A g \in Ids : bounds'[g] # 0 =>
             /\ gaps'[g].first <= bounds'[g] /\ bounds'[g] <= Edge'
             /\ Least(gaps'[g].end, WindowEnd) < At(bounds'[g] + 1)
      <4> TAKE g \in Ids
      <4>1. CASE g = n
        BY <2>1, <3>2, <4>1
      <4>2. CASE g # n
        BY <2>1, <2>3, <4>2 DEF GapBounds, Edge
      <4> QED
        BY <4>1, <4>2
    <3> QED
      BY <2>1, <2>3, <3>1, <3>3 DEF GapBounds
  <2> QED
    BY <1>2, <2>2, <2>3, RestartEffect
<1>3. CASE /\ (up' => up) /\ Fresh' = Fresh
           /\ \A g \in Ids : gaps'[g].first = gaps[g].first /\ gaps'[g].end = gaps[g].end
  <2>1. ~up' => Fresh' # {}
    BY <1>3, WorldStep DEF GapBounds
  <2>2. \A g \in Ids \ Fresh' : gaps'[g].first \in FirstHead..tip' /\ gaps'[g].end <= Now'
    <3> TAKE g \in Ids \ Fresh'
    <3>1. gaps[g].first \in FirstHead..tip /\ gaps[g].end <= Now /\ gaps[g].end \in Nat
      BY <1>3 DEF GapBounds, DrainTypes, GapRows
    <3> QED
      BY <1>1, <1>3, <3>1, WindowFacts
  <2>3. ASSUME NEW g \in Ids, bounds'[g] = bounds[g], bounds'[g] # 0
        PROVE  /\ gaps'[g].first <= bounds'[g] /\ bounds'[g] <= Edge'
               /\ Least(gaps'[g].end, WindowEnd) < At(bounds'[g] + 1)
    <3>1. gaps[g].first <= bounds[g] /\ bounds[g] <= Edge /\ bounds[g] \in Nat
          /\ Least(gaps[g].end, WindowEnd) < At(bounds[g] + 1)
      BY <2>3 DEF GapBounds, DrainTypes
    <3>2. gaps'[g].first = gaps[g].first /\ gaps'[g].end = gaps[g].end
      BY <1>3
    <3> QED
      BY <1>1, <2>3, <3>1, <3>2
  <2>4. CASE bounds' = bounds
    <3>1. \A g \in Fresh' : bounds'[g] = 0
      BY <1>3, <2>4 DEF GapBounds
    <3>2. \A g \in Ids : bounds'[g] # 0 =>
             /\ gaps'[g].first <= bounds'[g] /\ bounds'[g] <= Edge'
             /\ Least(gaps'[g].end, WindowEnd) < At(bounds'[g] + 1)
      BY <2>3, <2>4
    <3> QED
      BY <2>1, <2>2, <3>1, <3>2 DEF GapBounds
  <2>5. ASSUME NEW g \in Ids, Enroll(g) PROVE GapBounds'
    <3>1. gaps[g].open /\ UNCHANGED <<tip, gaps>>
      BY <2>5 DEF Enroll
    <3>2. PICK b \in Heights : /\ Bracket(g, b) /\ gaps[g].first <= b
                               /\ bounds' = [bounds EXCEPT ![g] = b]
      BY <2>5 DEF Enroll
    <3>3. DOMAIN bounds = Ids /\ b \in Nat /\ b >= 1
      BY WindowFacts DEF DrainTypes, Heights
    <3>4. bounds'[g] = b /\ \A i \in Ids : i # g => bounds'[i] = bounds[i]
      BY <3>2, <3>3
    <3>5. g \notin Fresh
      BY <3>1 DEF Fresh, NoGap
    <3>6. b <= Edge
      <4>1. At(b) <= Least(gaps[g].end, WindowEnd) /\ b + 1 <= tip
        BY <3>2 DEF Bracket
      <4>2. gaps[g].end \in Nat
        BY DEF DrainTypes, GapRows
      <4>3. 2 * b <= 2 * EndBlock + 1
        <5>1. WindowEnd = 2 * EndBlock + 1 /\ At(b) = 2 * b /\ WindowEnd \in Nat
          BY WindowFacts DEF WindowEnd, At
        <5>2. Least(gaps[g].end, WindowEnd) <= WindowEnd
          BY <4>2, <5>1 DEF Least
        <5>3. Least(gaps[g].end, WindowEnd) \in Nat
          BY <4>2, <5>1 DEF Least
        <5> HIDE DEF At, WindowEnd
        <5> QED
          BY <3>3, <4>1, <5>1, <5>2, <5>3
      <4> QED
        BY <1>1, <3>3, <4>1, <4>3, WindowFacts DEF Edge, Least
    <3>7. Least(gaps[g].end, WindowEnd) < At(b + 1)
      BY <3>2 DEF Bracket
    <3>8. \A i \in Fresh' : bounds'[i] = 0
      <4>1. \A i \in Fresh : i \in Ids /\ i # g
        BY <3>5 DEF Fresh
      <4> QED
        BY <1>3, <3>4, <4>1 DEF GapBounds
    <3>9. \A i \in Ids : bounds'[i] # 0 =>
             /\ gaps'[i].first <= bounds'[i] /\ bounds'[i] <= Edge'
             /\ Least(gaps'[i].end, WindowEnd) < At(bounds'[i] + 1)
      <4> TAKE i \in Ids
      <4>1. CASE i = g
        BY <3>1, <3>2, <3>4, <3>6, <3>7, <4>1 DEF Edge
      <4>2. CASE i # g
        BY <2>3, <3>4, <4>2
      <4> QED
        BY <4>1, <4>2
    <3> QED
      BY <2>1, <2>2, <3>8, <3>9 DEF GapBounds
  <2> QED
    BY <2>4, <2>5, WorldStep
<1> QED
  BY <1>2, <1>3, GapsStep

LEMMA GapsCarry ==
    ASSUME DrainTypes, GapBounds, Proofs, Chunk, [DNext]_dvars
    PROVE  /\ \A g \in Ids \ Fresh : g \notin Fresh' /\ gaps'[g].first = gaps[g].first
                                     /\ gaps'[g].end = gaps[g].end
           /\ \A g \in Ids : bounds[g] # 0 => bounds'[g] = bounds[g]
<1>1. \A g \in Ids \ Fresh : g \notin Fresh' /\ gaps'[g].first = gaps[g].first
                             /\ gaps'[g].end = gaps[g].end
  <2>1. CASE Restart
    <3>1. CASE gaps' = gaps
      BY <3>1 DEF Fresh
    <3>2. CASE \E n \in Fresh : /\ \A i \in Ids : i # n => gaps'[i] = gaps[i]
                                /\ Fresh' = Fresh \ {n}
      BY <3>2
    <3> QED
      BY <2>1, <3>1, <3>2, RestartEffect
  <2> QED
    BY <2>1, GapsStep
<1>2. ASSUME NEW g \in Ids, bounds[g] # 0 PROVE bounds'[g] = bounds[g]
  <2>1. ASSUME NEW i \in Ids, Enroll(i) PROVE bounds'[g] = bounds[g]
    <3>1. i # g
      BY <1>2, <2>1 DEF Enroll
    <3> QED
      BY <2>1, <3>1 DEF Enroll, DrainTypes
  <2> QED
    BY <2>1, WorldStep
<1> QED
  BY <1>1, <1>2

\* A proof stays one as the chain and the ledger grow.
LEMMA JobCarries ==
    ASSUME NEW k \in Filters, NEW j \in JobRows, NEW h, NEW e \in Nat, NEW e2 \in Nat, e <= e2,
           NEW ev, NEW ev2, ev \subseteq ev2, JobHolds(k, j, h, e, ev)
    PROVE  JobHolds(k, j, h, e2, ev2)
<1>1. To(k, e) \in Nat /\ To(k, e2) \in Nat /\ To(k, e) <= To(k, e2)
  BY WindowFacts DEF To, Least
<1>2. j.upto \in Nat
  BY DEF JobRows
<1> QED
  BY <1>1, <1>2 DEF JobHolds

LEMMA ProofsCarry ==
    ASSUME DrainTypes, Losses, GapBounds, Proofs, Chunk, [DNext]_dvars, DrainTypes',
           \A z \in Stages : StageHolds(z, stage'[z])
    PROVE  Proofs'
<1>1. /\ Edge \in Nat /\ Edge' \in Nat /\ Edge <= Edge' /\ events \subseteq events'
      /\ cursor["v4"] \in Nat /\ cursor'["v4"] \in Nat /\ cursor["v4"] <= cursor'["v4"]
      /\ round \in Nat /\ round' \in Nat /\ round <= round'
  BY EdgeGrows, WorldStep, WindowFacts DEF DrainTypes, Filters
<1> SUFFICES ASSUME NEW z \in Stages PROVE StageHolds(z, stage[z])'
  BY DEF Proofs
<1> DEFINE st == stage'[z]  j == st.job["v4"]
<1>2. st \in StageRows /\ st.head \in Nat /\ st.job \in [Filters -> JobRows]
  BY DEF DrainTypes, StageRows
<1>3. st.at = st.head /\ st.head <= Edge
      /\ (\A k \in Filters : JobHolds(k, st.job[k], st.head, Edge, events)) /\ Aim(z, j)
  BY DEF StageHolds
<1>4. \A k \in Filters : JobHolds(k, st.job[k], st.head, Edge', events')
  BY <1>1, <1>2, <1>3, JobCarries
<1>5. st.head <= Edge'
  BY <1>1, <1>2, <1>3
<1>6. ASSUME j # NoJob
      PROVE  /\ z[1] \in {"live", "drain"} => j.from <= cursor'["v4"] + 1
             /\ z[1] = "live" => LET g == gaps'[z[2]] IN
                   z[2] \notin Fresh' /\ j.from <= g.first /\ g.end <= At(j.upto)
             /\ z[1] = "expired" => j.from = gaps'[z[2]].first /\ j.upto = bounds'[z[2]]
             /\ z[1] = "drain" => z[2] <= round'
  <2>1. j \in JobRows /\ j.from \in Nat /\ j.upto \in Nat /\ JobHolds("v4", j, st.head, Edge, events)
    BY <1>2, <1>3 DEF Filters, JobRows
  <2>2. z[1] \in {"live", "expired"} => z[2] \in Ids
    BY DEF Stages
  <2>3. z[1] = "drain" => z[2] \in Nat
    BY WindowFacts DEF Stages
  <2> HIDE DEF j, st
  <2>4. j.upto # 0
    BY <1>6, <2>1, WindowFacts DEF JobHolds, From
  <2>5. z[1] \in {"live", "drain"} => j.from <= cursor'["v4"] + 1
    BY <1>1, <1>3, <1>6, <2>1 DEF Aim
  <2>6. z[1] = "live" => LET g == gaps'[z[2]] IN
           z[2] \notin Fresh' /\ j.from <= g.first /\ g.end <= At(j.upto)
    BY <1>3, <1>6, <2>2, GapsCarry DEF Aim
  <2>7. z[1] = "expired" => j.from = gaps'[z[2]].first /\ j.upto = bounds'[z[2]]
    <3>1. z[1] = "expired" => /\ j.from = gaps[z[2]].first /\ j.upto = bounds[z[2]]
                              /\ z[2] \in Ids /\ bounds[z[2]] # 0
      BY <1>3, <1>6, <2>2, <2>4 DEF Aim
    <3>2. z[1] = "expired" => z[2] \in Ids \ Fresh
      BY <3>1 DEF GapBounds
    <3> QED
      BY <3>1, <3>2, GapsCarry
  <2>8. z[1] = "drain" => z[2] <= round'
    BY <1>1, <1>3, <1>6, <2>3 DEF Aim
  <2> QED
    BY <2>5, <2>6, <2>7, <2>8
<1> QED
  BY <1>3, <1>4, <1>5, <1>6 DEF StageHolds, Aim

LEMMA ProofsStep ==
    ASSUME DrainTypes, Losses, GapBounds, Proofs, Chunk, [DNext]_dvars, DrainTypes'
    PROVE  Proofs'
<1>1. CASE stage' = stage
  <2>1. \A z \in Stages : StageHolds(z, stage'[z])
    BY <1>1 DEF Proofs
  <2> QED
    BY <2>1, ProofsCarry
<1>2. CASE \E g \in Ids : PinHead(g)
  BY <1>2, PinHeadEffect, ProofsCarry
<1>3. CASE \E g \in Ids : Tick(g)
  BY <1>3, TickEffect, ProofsCarry
<1>4. CASE \E g \in Ids : FixedTick(g)
  BY <1>4, FixedTickEffect, ProofsCarry
<1>5. CASE DrainTick
  BY <1>5, DrainTickEffect, ProofsCarry
<1>6. CASE FreezeHead
  BY <1>6, FreezeHeadEffect, ProofsCarry
<1>7. CASE CommitRow
  BY <1>7, CommitRowEffect, ProofsCarry
<1>8. \/ stage' = stage \/ (\E g \in Ids : PinHead(g) \/ Tick(g) \/ FixedTick(g))
      \/ DrainTick \/ FreezeHead \/ CommitRow
  BY DEF DNext, OfWorker, NewBlock, Stop, Expire, Pause, Resolve, BlockExpired, Enroll, ResolveFixed,
     Answer, Restart, Return, BreakOff, PromoteDrain, Assess, dvars, gvars
<1> QED
  BY <1>1, <1>2, <1>3, <1>4, <1>5, <1>6, <1>7, <1>8

LEMMA ChunkStep ==
    ASSUME DrainTypes, Losses, GapBounds, Proofs, Chunk, [DNext]_dvars, DrainTypes'
    PROVE  Chunk'
<1> USE DEF drain
<1>1. Idle.phase = "idle"
  BY DEF Idle
<1>2. round \in Nat /\ round' \in Nat /\ round <= round'
  BY WorldStep, WindowFacts DEF DrainTypes
<1>3. \A s \in Stages : s[1] = "expired" => s[2] \in Ids
  BY DEF Stages
<1>4. ASSUME work' = Idle, pendingd' => round' > 0 PROVE Chunk'
  BY <1>1, <1>4 DEF Chunk
<1>5. ASSUME work' = work, stage' = stage, up => up' \/ work = Idle, pendingd' => round' > 0
      PROVE  Chunk'
  <2>1. work.s \in Stages
    BY DEF DrainTypes, WorkRows
  <2>2. work # Idle => (up' \/ round' > 0) /\ (work.s[1] = "expired" => bounds'[work.s[2]] # 0)
    <3>1. work # Idle => (up \/ round > 0) /\ (work.s[1] = "expired" => bounds[work.s[2]] # 0)
      BY DEF Chunk
    <3>2. work.s[1] = "expired" /\ bounds[work.s[2]] # 0 => bounds'[work.s[2]] # 0
      BY <1>3, <2>1, GapsCarry
    <3> QED
      BY <1>2, <1>5, <3>1, <3>2
  <2>3. work.phase = "stored" => Fetched' \subseteq events'
    <3>1. Fetched' = Fetched
      BY <1>5 DEF Fetched
    <3> QED
      BY <3>1, WorldStep DEF Chunk
  <2> QED
    BY <1>5, <2>2, <2>3 DEF Chunk
<1>6. ASSUME NEW s \in Stages, work'.phase # "stored", work' # Idle => work'.s = s, UNCHANGED <<up, bounds>>,
             up \/ round' > 0, s[1] = "expired" => bounds[s[2]] # 0, pendingd' => round' > 0,
             work'.phase = "ask" =>
                LET j == stage'[work'.s].job[work'.kind] IN
                /\ j # NoJob /\ From(work'.kind) <= work'.from /\ work'.from <= work'.to
                /\ work'.to <= j.upto
      PROVE  Chunk'
  BY <1>6 DEF Chunk
<1>7. CASE \E g \in Ids : Tick(g) /\ UNCHANGED drain
  <2>1. PICK g \in Ids : Tick(g) /\ UNCHANGED drain
    BY <1>7
  <2>2. UNCHANGED <<up, bounds>> /\ up
    BY <2>1 DEF Tick, Working
  <2> QED
    BY <1>6, <2>1, <2>2, TickEffect, StageIds DEF Chunk
<1>8. CASE \E g \in Ids : FixedTick(g) /\ UNCHANGED drain
  <2>1. PICK g \in Ids : FixedTick(g) /\ UNCHANGED drain
    BY <1>8
  <2>2. UNCHANGED <<up, bounds>> /\ up /\ bounds[g] # 0
    BY <2>1 DEF FixedTick, Working, debts
  <2> QED
    BY <1>6, <2>1, <2>2, FixedTickEffect, StageIds DEF Chunk
<1>9. CASE DrainTick
  <2>1. UNCHANGED <<up, bounds, round>>
    BY <1>9 DEF DrainTick, debts
  <2>2. CASE work' = Idle
    BY <1>4, <1>9, <2>1, <2>2, DrainTickEffect
  <2>3. CASE work' # Idle
    <3>1. work'.s \in Stages /\ work'.s[1] = "drain"
      BY <1>9, <2>3, DrainTickEffect DEF WorkRows
    <3> QED
      BY <1>6, <1>9, <2>1, <3>1, DrainTickEffect
  <2> QED
    BY <2>2, <2>3
<1>10. CASE CommitRow /\ UNCHANGED drain
  <2>1. UNCHANGED <<up, bounds>> /\ work # Idle
    BY <1>10, CommitRowEffect DEF CommitRow, debts
  <2>2. work.s \in Stages /\ (up \/ round > 0) /\ (work.s[1] = "expired" => bounds[work.s[2]] # 0)
    BY <2>1 DEF Chunk, DrainTypes, WorkRows
  <2>3. work'.phase # "stored" /\ work'.phase # "ask" /\ (work' # Idle => work'.s = work.s)
    BY <1>10, CommitRowEffect
  <2> QED
    BY <1>6, <1>10, <2>1, <2>2, <2>3 DEF Chunk
<1>11. CASE Answer /\ UNCHANGED drain
  <2>1. /\ work.phase = "ask" /\ UNCHANGED <<up, bounds, stage>> /\ events' = events \cup Fetched
        /\ work' = [work EXCEPT !.phase = "stored"]
    BY <1>11 DEF Answer, debts
  <2>2. work \in WorkRows
    BY DEF DrainTypes
  <2>3. /\ work'.phase = "stored" /\ work'.s = work.s /\ work'.kind = work.kind
        /\ work'.from = work.from /\ work'.to = work.to
    BY <2>1, <2>2 DEF WorkRows
  <2>4. work # Idle
    BY <1>1, <2>1
  <2>5. Fetched' = Fetched
    BY <2>3 DEF Fetched
  <2> QED
    BY <1>11, <2>1, <2>3, <2>4, <2>5 DEF Chunk
<1>12. CASE Restart
  BY <1>4, <1>12, RestartEffect
<1>13. CASE FreezeHead
  <2>1. work' = Idle /\ round' > 0
    BY <1>2, <1>13 DEF FreezeHead, Offline
  <2> QED
    BY <1>4, <2>1
<1>14. CASE \E g \in Ids : PinHead(g) /\ UNCHANGED drain
  <2>1. work' = Idle
    BY <1>14 DEF PinHead, Working
  <2> QED
    BY <1>4, <1>14, <2>1 DEF Chunk
<1>15. CASE work' = Idle /\ round' = round /\ (pendingd' => pendingd)
  BY <1>4, <1>15 DEF Chunk
<1>16. CASE UNCHANGED <<work, stage, up, round, pendingd>>
  BY <1>5, <1>16 DEF Chunk
<1>17. \/ \E g \in Ids : (Tick(g) \/ FixedTick(g) \/ PinHead(g)) /\ UNCHANGED drain
       \/ DrainTick \/ (CommitRow /\ UNCHANGED drain) \/ (Answer /\ UNCHANGED drain)
       \/ Restart \/ FreezeHead
       \/ work' = Idle /\ round' = round /\ (pendingd' => pendingd)
       \/ UNCHANGED <<work, stage, up, round, pendingd>>
  BY DEF DNext, OfWorker, NewBlock, Stop, Expire, Pause, Resolve, BlockExpired, Enroll, ResolveFixed,
     BreakOff, PromoteDrain, Assess, dvars, gvars
<1> QED
  BY <1>7, <1>8, <1>9, <1>10, <1>11, <1>12, <1>13, <1>14, <1>15, <1>16, <1>17

LEMMA MissingFacts ==
    ASSUME DrainTypes, NEW b \in Missing
    PROVE  /\ b \in Nat /\ Grad <= b /\ b <= Edge /\ b <= tip /\ b <= EndBlock /\ b <= MaxTip
           /\ <<"v4", b>> \notin events
  BY EdgeFacts, WindowFacts DEF Missing

LEMMA CurveStays ==
    ASSUME DrainTypes, Losses, Proofs, Chunk, [DNext]_dvars
    PROVE  CurveWhole'
  BY WorldStep DEF Losses, CurveWhole

\* A step that adds to the ledger at most leaves the account of what is missing.
LEMMA LossesFrame ==
    ASSUME DrainTypes, Losses, UNCHANGED <<tip, cursor, gaps, up, over, lcb>>, events \subseteq events',
           safe' => safe \/ (~up /\ OpenGaps = {})
    PROVE  Losses'
<1>1. Missing' \subseteq Missing /\ OpenGaps' = OpenGaps /\ Fresh' = Fresh
  BY DEF Missing, Edge, OpenGaps, Fresh
<1>2. \A g \in Ids : Of(g)' = Of(g)
  BY DEF Of
<1>3. \A b : Guarded(b)' = Guarded(b)
  BY <1>1, <1>2 DEF Guarded, OpenGaps
<1>4. CurveWhole' /\ cursor'["v4"] \in FirstHead..tip' /\ (over' => Expired')
  BY DEF Losses, CurveWhole, Expired
<1>5. \A b \in Missing' : Guarded(b)' \/ (~up' /\ ~over' /\ lcb' < b)
  BY <1>1, <1>3 DEF Losses
<1>6. \A b \in Missing' : b <= cursor'["v4"] => Guarded(b)'
  BY <1>1, <1>3 DEF Losses
<1>7. \A g \in Ids \ (OpenGaps' \cup Fresh') : \A b \in Missing' : b \notin Of(g)'
  BY <1>1, <1>2 DEF Losses
<1>8. safe' => ~up' /\ OpenGaps' = {}
  BY <1>1 DEF Losses
<1> QED
  BY <1>4, <1>5, <1>6, <1>7, <1>8 DEF Losses

\* A gap may be closed when nothing is missing in it, a cursor moved when what is passed is not.
LEMMA LossesOfClosing ==
    ASSUME DrainTypes, Losses, GapBounds, UNCHANGED <<tip, events, up, over, lcb, safe>>,
           gaps' \in [Ids -> GapRows],
           \A g \in Ids : gaps'[g].first = gaps[g].first /\ gaps'[g].end = gaps[g].end
                          /\ (gaps'[g].open => gaps[g].open),
           \A g \in OpenGaps \ OpenGaps' : \A b \in Missing : b \notin Of(g),
           cursor'["v4"] \in FirstHead..tip,
           \A b \in Missing : b <= cursor'["v4"] => Guarded(b)
    PROVE  Losses'
<1>1. Missing' = Missing /\ OpenGaps' \subseteq OpenGaps /\ Fresh' = Fresh
  BY ClosingKeeps DEF Missing, Edge
<1>2. \A g \in Ids : Of(g)' = Of(g)
  BY DEF Of
<1>3. ASSUME NEW b \in Missing, Guarded(b) PROVE Guarded(b)'
  <2>1. PICK g \in OpenGaps : b \in Of(g)
    BY <1>3 DEF Guarded
  <2>2. g \in OpenGaps' /\ g \in Ids
    BY <1>3, <2>1 DEF OpenGaps
  <2> QED
    BY <1>2, <2>1, <2>2 DEF Guarded
<1>4. CurveWhole' /\ cursor'["v4"] \in FirstHead..tip' /\ (over' => Expired')
  BY DEF Losses, CurveWhole, Expired
<1>5. \A b \in Missing' : Guarded(b)' \/ (~up' /\ ~over' /\ lcb' < b)
  BY <1>1, <1>3 DEF Losses
<1>6. \A b \in Missing' : b <= cursor'["v4"] => Guarded(b)'
  BY <1>1, <1>3
<1>7. \A g \in Ids \ (OpenGaps' \cup Fresh') : \A b \in Missing' : b \notin Of(g)'
  BY <1>1, <1>2 DEF Losses
<1>8. safe' => ~up' /\ OpenGaps' = {}
  BY <1>1 DEF Losses
<1> QED
  BY <1>4, <1>5, <1>6, <1>7, <1>8 DEF Losses

\* A verified job has read all of its range.
LEMMA WholeIsStored ==
    ASSUME DrainTypes, Proofs, NEW s \in Stages, stage[s].job["v4"] # NoJob, Whole(stage[s].job["v4"])
    PROVE  LET j == stage[s].job["v4"] IN
           /\ j.from \in Nat /\ j.upto \in Nat /\ FirstHead \in Nat /\ j.upto <= Edge
           /\ \A b \in j.from..j.upto : b \notin Missing
<1> DEFINE j == stage[s].job["v4"]
<1>1. j.from \in Nat /\ j.upto \in Nat /\ j.upto <= To("v4", Edge)
  BY StageBound DEF Filters
<1>2. To("v4", Edge) = Edge
  BY FilterEnds, EdgeFacts DEF Filters
<1>3. JobHolds("v4", j, stage[s].head, Edge, events)
  BY StageFacts DEF Filters
<1>4. {"v4"} \X Covers(j.rows) \subseteq events
  BY <1>3 DEF JobHolds
<1>5. Covers(j.rows) = j.from..j.upto
  BY DEF Whole
<1>6. \A b \in j.from..j.upto : b \notin Missing
  BY <1>4, <1>5 DEF Missing
<1> QED
  BY <1>1, <1>2, <1>6, WindowFacts

\* Moving the cursor to the end of such a job passes nothing that is missing and unguarded.
LEMMA PromotedPasses ==
    ASSUME DrainTypes, Losses, Proofs, NEW s \in Stages, s[1] \in {"live", "drain"},
           stage[s].job["v4"] # NoJob => Whole(stage[s].job["v4"])
    PROVE  /\ Promoted(s)["v4"] \in FirstHead..tip
           /\ \A b \in Missing : b <= Promoted(s)["v4"] => Guarded(b)
<1> DEFINE j == stage[s].job["v4"]  c == cursor["v4"]
<1>1. Promoted(s)["v4"] = IF j # NoJob THEN Greatest(c, j.upto) ELSE c
  BY PromotedType
<1>2. c \in FirstHead..tip /\ (\A b \in Missing : b <= c => Guarded(b)) /\ FirstHead \in Nat /\ tip \in Nat
  BY WindowFacts, EdgeFacts DEF Losses
<1>3. CASE j = NoJob
  BY <1>1, <1>2, <1>3
<1>4. CASE j # NoJob
  <2>1. /\ j.from \in Nat /\ j.upto \in Nat /\ j.upto <= Edge /\ Edge <= tip /\ Edge \in Nat
        /\ \A b \in j.from..j.upto : b \notin Missing
    BY <1>4, WholeIsStored, EdgeFacts
  <2>2. j.from <= c + 1
    BY <1>4, StageFacts DEF Aim
  <2>3. Promoted(s)["v4"] = IF c > j.upto THEN c ELSE j.upto
    BY <1>1, <1>4 DEF Greatest
  <2>4. \A b \in Missing : b \in Nat
    BY MissingFacts
  <2> HIDE DEF j, c
  <2>5. Promoted(s)["v4"] \in FirstHead..tip
    BY <1>2, <2>1, <2>3
  <2>6. ASSUME NEW b \in Missing, b <= Promoted(s)["v4"] PROVE Guarded(b)
    <3>1. b <= c \/ b \in j.from..j.upto
      BY <1>2, <2>1, <2>2, <2>3, <2>4, <2>6
    <3> QED
      BY <1>2, <2>1, <3>1
  <2> QED
    BY <2>5, <2>6
<1> QED
  BY <1>3, <1>4

LEMMA ResolveLosses ==
    ASSUME DrainTypes, Losses, GapBounds, Proofs, NEW g \in Ids, Resolve(g), safe' = safe
    PROVE  Losses'
<1> DEFINE s == Live(g)  j == stage[s].job["v4"]
<1>1. /\ UNCHANGED <<tip, up, lcb, over, events>> /\ s \in Stages /\ s[1] = "live" /\ s[2] = g
  BY StageIds DEF Resolve
<1>2. CASE ~Verified(s, Filters)
  <2>1. UNCHANGED <<gaps, cursor>>
    BY <1>2 DEF Resolve
  <2> QED
    BY <1>1, <2>1, LossesFrame
<1>3. CASE Verified(s, Filters)
  <2>1. gaps' = [gaps EXCEPT ![g].open = FALSE] /\ cursor' = Promoted(s)
    BY <1>3 DEF Resolve
  <2>2. j # NoJob /\ Whole(j)
    BY <1>3 DEF Verified, Planned, Filters
  <2>3. /\ j.from \in Nat /\ j.upto \in Nat /\ \A b \in j.from..j.upto : b \notin Missing
    BY <1>1, <2>2, WholeIsStored
  <2>4. j.from <= gaps[g].first /\ gaps[g].end <= At(j.upto) /\ gaps[g].first \in Nat /\ gaps[g].end \in Nat
    BY <1>1, <2>2, StageFacts DEF Aim, DrainTypes, GapRows
  <2>5. ASSUME NEW b \in Missing PROVE b \notin Of(g)
    <3>1. b \in Nat
      BY MissingFacts
    <3>2. b \in Of(g) => b >= gaps[g].first /\ At(b) <= gaps[g].end
      BY <2>4, <3>1 DEF Of
    <3> HIDE DEF j, s
    <3>3. b \in Of(g) => b \in j.from..j.upto
      BY <2>3, <2>4, <3>1, <3>2 DEF At
    <3> QED
      BY <2>3, <3>3
  <2>6. \A i \in OpenGaps \ OpenGaps' : \A b \in Missing : b \notin Of(i)
    <3>1. \A i \in Ids : i # g => gaps'[i] = gaps[i]
      BY <2>1, CloseOne
    <3>2. \A i \in OpenGaps \ OpenGaps' : i = g
      BY <3>1 DEF OpenGaps
    <3> QED
      BY <2>5, <3>2
  <2>7. cursor'["v4"] \in FirstHead..tip /\ \A b \in Missing : b <= cursor'["v4"] => Guarded(b)
    BY <1>1, <2>1, <2>2, PromotedPasses
  <2>8. /\ gaps' \in [Ids -> GapRows]
        /\ \A i \in Ids : gaps'[i].first = gaps[i].first /\ gaps'[i].end = gaps[i].end
                          /\ (gaps'[i].open => gaps[i].open)
    BY <2>1, CloseOne
  <2> QED
    BY <1>1, <2>6, <2>7, <2>8, LossesOfClosing
<1> QED
  BY <1>2, <1>3

LEMMA ResolveFixedLosses ==
    ASSUME DrainTypes, Losses, GapBounds, Proofs, Chunk, NEW g \in Ids, ResolveFixed(g), safe' = safe
    PROVE  Losses'
<1> DEFINE s == Forensic(g)  j == stage[s].job["v4"]
<1>1. /\ UNCHANGED <<tip, up, lcb, over, events, cursor>> /\ s \in Stages /\ s[1] = "expired" /\ s[2] = g
  BY StageIds DEF ResolveFixed, ledger
<1>2. CASE ~Verified(s, Required(g))
  <2>1. UNCHANGED gaps
    BY <1>2 DEF ResolveFixed
  <2> QED
    BY <1>1, <2>1, LossesFrame
<1>3. CASE Verified(s, Required(g))
  <2>1. gaps' = [gaps EXCEPT ![g].open = FALSE]
    BY <1>3 DEF ResolveFixed
  <2>2. bounds[g] # 0
    <3>1. work.phase = "verify" /\ work.s = s
      BY DEF ResolveFixed
    <3>2. work # Idle
      BY <3>1 DEF Idle
    <3> QED
      BY <1>1, <3>1, <3>2 DEF Chunk
  <2>3. /\ bounds[g] \in Nat /\ gaps[g].first <= bounds[g] /\ gaps[g].end \in Nat
        /\ Least(gaps[g].end, WindowEnd) < At(bounds[g] + 1)
    BY <2>2 DEF GapBounds, DrainTypes, GapRows
  <2>4. g \notin Fresh /\ gaps[g].first \in FirstHead..tip /\ gaps[g].first \in Nat
    BY <2>2, WindowFacts, EdgeFacts DEF GapBounds
  <2>5. "v4" \in Required(g)
    <3>1. From("v4") = Grad /\ To("v4", bounds[g]) = bounds[g] /\ Greatest(gaps[g].first, Grad) = gaps[g].first
      BY <2>3, <2>4, WindowFacts DEF From, To, Greatest, DrainTypes
    <3> QED
      BY <2>3, <3>1 DEF Required, Filters
  <2>6. j # NoJob /\ Whole(j)
    BY <1>3, <2>5 DEF Verified, Planned
  <2>7. /\ j.from \in Nat /\ j.upto \in Nat /\ \A b \in j.from..j.upto : b \notin Missing
    BY <1>1, <2>6, WholeIsStored
  <2>8. j.from = gaps[g].first /\ j.upto = bounds[g]
    BY <1>1, <2>6, StageFacts DEF Aim
  <2>9. ASSUME NEW b \in Missing PROVE b \notin Of(g)
    <3>1. b \in Nat /\ b <= EndBlock
      BY MissingFacts
    <3>2. b \in Of(g) => b >= gaps[g].first /\ At(b) <= gaps[g].end
      BY <2>4, <3>1 DEF Of
    <3>3. At(b) = 2 * b /\ WindowEnd = 2 * EndBlock + 1 /\ At(bounds[g] + 1) = 2 * bounds[g] + 2
      BY <2>3, <3>1, WindowFacts DEF At, WindowEnd
    <3>4. At(b) <= gaps[g].end => At(b) <= Least(gaps[g].end, WindowEnd)
      BY <2>3, <3>1, <3>3, WindowFacts DEF Least
    <3>5. Least(gaps[g].end, WindowEnd) \in Nat
      BY <2>3, <3>3, WindowFacts DEF Least
    <3> HIDE DEF j, s
    <3>6. b \in Of(g) => b <= bounds[g]
      BY <2>3, <3>1, <3>2, <3>3, <3>4, <3>5
    <3>7. b \in Of(g) => b \in j.from..j.upto
      BY <2>3, <2>4, <2>7, <2>8, <3>1, <3>2, <3>6
    <3> QED
      BY <2>7, <3>7
  <2>10. \A i \in OpenGaps \ OpenGaps' : \A b \in Missing : b \notin Of(i)
    <3>1. \A i \in Ids : i # g => gaps'[i] = gaps[i]
      BY <2>1, CloseOne
    <3>2. \A i \in OpenGaps \ OpenGaps' : i = g
      BY <3>1 DEF OpenGaps
    <3> QED
      BY <2>9, <3>2
  <2>11. cursor'["v4"] \in FirstHead..tip /\ \A b \in Missing : b <= cursor'["v4"] => Guarded(b)
    BY <1>1 DEF Losses
  <2>12. /\ gaps' \in [Ids -> GapRows]
         /\ \A i \in Ids : gaps'[i].first = gaps[i].first /\ gaps'[i].end = gaps[i].end
                           /\ (gaps'[i].open => gaps[i].open)
    BY <2>1, CloseOne
  <2> QED
    BY <1>1, <2>10, <2>11, <2>12, LossesOfClosing
<1> QED
  BY <1>2, <1>3

LEMMA PromoteDrainLosses ==
    ASSUME DrainTypes, Losses, GapBounds, Proofs, Chunk, PromoteDrain
    PROVE  Losses'
<1> DEFINE h == stage[Drain].head
<1>1. round > 0 /\ round \in Nat /\ round <= MaxRounds
  BY WindowFacts DEF PromoteDrain, Draining, Chunk, DrainTypes
<1>2. Drain \in Stages /\ Drain[1] = "drain"
  BY <1>1, WindowFacts DEF Drain, Stages
<1>3. /\ UNCHANGED <<tip, up, lcb, over, events, safe>> /\ cursor' = Promoted(Drain)
      /\ gaps' = [g \in Ids |-> IF g \in OpenGaps /\ BeforeHead(g) /\ CoveredAll(g)
                                THEN [gaps[g] EXCEPT !.open = FALSE] ELSE gaps[g]]
      /\ \A k \in Planned(Drain) : Whole(stage[Drain].job[k])
  BY DEF PromoteDrain
<1>4. ASSUME NEW i \in Ids
      PROVE  /\ gaps'[i] \in GapRows /\ gaps'[i].first = gaps[i].first /\ gaps'[i].end = gaps[i].end
             /\ gaps'[i].open => gaps[i].open
  BY <1>3 DEF DrainTypes, GapRows
<1>5. gaps' \in [Ids -> GapRows]
  BY <1>3, <1>4
<1>6. ASSUME NEW g \in OpenGaps, BeforeHead(g), CoveredAll(g), NEW b \in Missing PROVE b \notin Of(g)
  <2>1. /\ h \in Nat /\ stage[Drain].at = h
        /\ gaps[g].first \in FirstHead..tip /\ gaps[g].first \in Nat /\ gaps[g].end \in Nat /\ gaps[g].first >= 1
    BY <1>2, StageFacts, OpenGapFacts, WindowFacts, EdgeFacts
  <2>2. gaps[g].first <= h /\ gaps[g].end <= At(h)
    BY <1>6, <2>1 DEF BeforeHead
  <2>3. Greatest(From("v4"), gaps[g].first) = gaps[g].first /\ To("v4", h) = h
    BY <2>1, WindowFacts DEF From, To, Greatest, DrainTypes
  <2>4. Reach("v4", gaps[g].first, h) >= h
    BY <1>6, <2>3 DEF CoveredAll, Filters
  <2> HIDE DEF h
  <2>5. gaps[g].first..h \subseteq Compatible("v4", gaps[g].first, h)
    <3> DEFINE r == Reach("v4", gaps[g].first, h)
    <3>1. \/ r = gaps[g].first - 1
          \/ r \in gaps[g].first..h /\ gaps[g].first..r \subseteq Compatible("v4", gaps[g].first, h)
      BY <2>1, ReachIs DEF Filters
    <3>2. r = h
      <4> HIDE DEF r
      <4>1. r >= h
        BY <2>4 DEF r
      <4> QED
        BY <2>1, <2>2, <3>1, <4>1
    <3> QED
      BY <2>1, <2>2, <3>1, <3>2
  <2>6. b \in Nat /\ <<"v4", b>> \notin events
    BY MissingFacts
  <2>7. b \notin gaps[g].first..h
    BY <2>5, <2>6, CompatibleIsStored
  <2>8. b \in Of(g) => b >= gaps[g].first /\ At(b) <= gaps[g].end
    BY <2>1, <2>6 DEF Of
  <2> QED
    BY <2>1, <2>2, <2>6, <2>7, <2>8 DEF At
<1>7. \A g \in OpenGaps \ OpenGaps' : \A b \in Missing : b \notin Of(g)
  <2> TAKE g \in OpenGaps \ OpenGaps'
  <2>1. g \in Ids /\ gaps[g].open /\ ~gaps'[g].open
    BY DEF OpenGaps
  <2>2. BeforeHead(g) /\ CoveredAll(g)
    BY <1>3, <2>1
  <2> QED
    BY <1>6, <2>2
<1>8. stage[Drain].job["v4"] # NoJob => Whole(stage[Drain].job["v4"])
  BY <1>3 DEF Planned, Filters
<1>9. cursor'["v4"] \in FirstHead..tip /\ \A b \in Missing : b <= cursor'["v4"] => Guarded(b)
  BY <1>2, <1>3, <1>8, PromotedPasses
<1> QED
  BY <1>3, <1>4, <1>5, <1>7, <1>9, LossesOfClosing

\* A block mined while the worker is away is behind the last block it saw, and in no closed gap.
LEMMA NewBlockLosses ==
    ASSUME DrainTypes, Losses, GapBounds, Proofs, Chunk, NewBlock, UNCHANGED drain, DrainTypes'
    PROVE  Losses'
<1>1. /\ tip \in Nat /\ tip' = tip + 1 /\ Edge \in Nat /\ Edge <= tip /\ Edge <= EndBlock /\ Grad < Edge
      /\ UNCHANGED <<up, over, cursor, gaps, safe>>
      /\ IF up THEN events' = events \cup (Tracked(tip + 1) \ Tracked(tip)) /\ lcb' = tip + 1
               ELSE UNCHANGED <<events, lcb>>
  BY EdgeFacts DEF NewBlock, debts, drain
<1>2. /\ Edge' \in Nat /\ (Expired => Edge' = Edge) /\ (~Expired => Edge = tip)
      /\ (Edge' = Edge \/ (Edge' = tip + 1 /\ Edge = tip)) /\ (Expired => Expired')
  BY <1>1, WindowFacts DEF Edge, Least, Expired
<1>3. ASSUME NEW b \in Missing'
      PROVE  b \in Missing \/ (b = tip + 1 /\ ~up /\ ~Expired)
  <2>1. b \in Grad..Edge' /\ b \in Nat /\ <<"v4", b>> \notin events' /\ <<"v4", b>> \notin events
    BY <1>1, <1>2, WindowFacts DEF Missing
  <2>2. CASE b <= Edge
    BY <1>1, <2>1, <2>2, WindowFacts DEF Missing
  <2>3. CASE ~(b <= Edge)
    <3>1. b = tip + 1 /\ Edge' = tip + 1 /\ Edge = tip /\ ~Expired
      BY <1>1, <1>2, <2>1, <2>3, WindowFacts
    <3>2. CASE up
      <4>1. Tracked(tip) = ({"curve"} \X (1..Grad)) \cup ({"v4"} \X (Grad..Edge))
        BY EdgeFacts, <1>1, TrackedBlocks DEF Edge
      <4>2. Grad < tip + 1 /\ tip + 1 \in Nat /\ Edge' = Least(tip + 1, EndBlock)
        BY <1>1, <3>1, WindowFacts DEF Edge
      <4>3. Tracked(tip + 1) = ({"curve"} \X (1..Grad)) \cup ({"v4"} \X (Grad..Edge'))
        BY <4>2, TrackedBlocks
      <4>4. <<"v4", b>> \in Tracked(tip + 1) /\ <<"v4", b>> \notin Tracked(tip)
        BY <1>1, <2>1, <2>3, <3>1, <4>1, <4>3, WindowFacts
      <4> QED
        BY <1>1, <2>1, <3>2, <4>4
    <3> QED
      BY <3>1, <3>2
  <2> QED
    BY <2>2, <2>3
<1>4. OpenGaps' = OpenGaps /\ Fresh' = Fresh /\ \A g \in Ids : Of(g)' = Of(g)
  BY <1>1 DEF OpenGaps, Fresh, Of
<1>5. \A b : Guarded(b)' = Guarded(b)
  BY <1>4 DEF Guarded, OpenGaps
<1>6. CurveWhole'
  BY <1>1 DEF Losses, CurveWhole
<1>7. cursor'["v4"] \in FirstHead..tip' /\ cursor'["v4"] <= tip
  BY <1>1, WindowFacts DEF Losses
<1>8. \A b \in Missing' : Guarded(b)' \/ (~up' /\ ~over' /\ lcb' < b)
  <2> TAKE b \in Missing'
  <2>1. CASE b \in Missing
    BY <1>1, <1>5, <2>1 DEF Losses
  <2>2. CASE b = tip + 1 /\ ~up /\ ~Expired
    <3>1. lcb' < b
      BY <1>1, <2>2, WindowFacts DEF DrainTypes
    <3> QED
      BY <1>1, <2>2, <3>1 DEF Losses
  <2> QED
    BY <1>3, <2>1, <2>2
<1>9. \A b \in Missing' : b <= cursor'["v4"] => Guarded(b)'
  <2> TAKE b \in Missing'
  <2>1. CASE b \in Missing
    BY <1>1, <1>5, <2>1 DEF Losses
  <2>2. CASE b = tip + 1
    BY <1>1, <1>7, <2>2, WindowFacts
  <2> QED
    BY <1>3, <2>1, <2>2
<1>10. ASSUME NEW g \in Ids \ (OpenGaps' \cup Fresh'), NEW b \in Missing' PROVE b \notin Of(g)'
  <2>1. CASE b \in Missing
    BY <1>4, <1>10, <2>1 DEF Losses
  <2>2. CASE b = tip + 1
    <3>1. gaps[g].end <= 2 * tip + 1 /\ gaps[g].end \in Nat
      BY <1>4, <1>10 DEF GapBounds, DrainTypes, GapRows, Now
    <3>2. ~(At(b) <= gaps[g].end)
      BY <1>1, <2>2, <3>1 DEF At
    <3> QED
      BY <1>4, <3>2 DEF Of
  <2> QED
    BY <1>3, <2>1, <2>2
<1>11. (over' => Expired') /\ (safe' => ~up' /\ OpenGaps' = {})
  BY <1>1, <1>2, <1>4 DEF Losses
<1> QED
  BY <1>6, <1>7, <1>8, <1>9, <1>10, <1>11 DEF Losses

\* The gap of a return holds what came while the worker was away.
LEMMA RestartLosses ==
    ASSUME DrainTypes, Losses, GapBounds, Restart
    PROVE  Losses'
<1>1. /\ ~up /\ up' /\ UNCHANGED <<tip, over, events, cursor>> /\ safe' = FALSE
  BY RestartEffect
<1>2. Missing' = Missing /\ CurveWhole' /\ cursor'["v4"] \in FirstHead..tip' /\ (over' => Expired')
  BY <1>1 DEF Missing, Edge, Losses, CurveWhole, Expired
<1>3. CASE over /\ gaps' = gaps
  <2>1. OpenGaps' = OpenGaps /\ Fresh' = Fresh /\ \A g \in Ids : Of(g)' = Of(g)
    BY <1>3 DEF OpenGaps, Fresh, Of
  <2>2. \A b : Guarded(b)' = Guarded(b)
    BY <2>1 DEF Guarded, OpenGaps
  <2> QED
    BY <1>1, <1>2, <1>3, <2>1, <2>2 DEF Losses
<1>4. ASSUME NEW n \in Fresh, n \in Ids, ~over, gaps'[n].first = lcb, gaps'[n].end = Least(Now, WindowEnd),
             \A i \in Ids : i # n => gaps'[i] = gaps[i], Fresh' = Fresh \ {n},
             OpenGaps' = OpenGaps \cup {n}
      PROVE  Losses'
  <2>1. \A g \in Ids : g # n => Of(g)' = Of(g)
    BY <1>4 DEF Of
  <2>2. n \notin OpenGaps
    BY <1>4 DEF Fresh, OpenGaps, NoGap
  <2>3. ASSUME NEW b, Guarded(b) PROVE Guarded(b)'
    <3>1. PICK g \in OpenGaps : b \in Of(g)
      BY <2>3 DEF Guarded
    <3>2. g \in Ids /\ g # n /\ g \in OpenGaps'
      BY <1>4, <2>2, <3>1 DEF OpenGaps
    <3> QED
      BY <2>1, <3>1, <3>2 DEF Guarded
  <2>4. ASSUME NEW b \in Missing, lcb < b PROVE Guarded(b)'
    <3>1. b \in Nat /\ b <= tip /\ b <= EndBlock /\ b <= MaxTip
      BY MissingFacts
    <3>2. lcb \in Nat /\ tip \in Nat
      BY ReturnGap
    <3>3. At(b) <= Least(Now, WindowEnd)
      BY <3>1, <3>2, WindowFacts DEF At, Least, Now, WindowEnd
    <3>4. b \in lcb..MaxTip
      BY <2>4, <3>1, <3>2, WindowFacts
    <3>5. b \in Of(n)'
      BY <1>4, <3>3, <3>4 DEF Of
    <3> QED
      BY <1>4, <3>5 DEF Guarded
  <2>5. \A b \in Missing' : Guarded(b)'
    BY <1>1, <1>2, <2>3, <2>4 DEF Losses
  <2>6. \A g \in Ids \ (OpenGaps' \cup Fresh') : \A b \in Missing' : b \notin Of(g)'
    <3> TAKE g \in Ids \ (OpenGaps' \cup Fresh')
    <3>1. g # n /\ g \notin OpenGaps /\ g \notin Fresh
      BY <1>4
    <3> QED
      BY <1>2, <2>1, <3>1 DEF Losses
  <2> QED
    BY <1>1, <1>2, <2>5, <2>6 DEF Losses
<1> QED
  BY <1>3, <1>4, RestartEffect

LEMMA LossesStep ==
    ASSUME DrainTypes, Losses, GapBounds, Proofs, Chunk, [DNext]_dvars, DrainTypes'
    PROVE  Losses'
<1> USE DEF drain
<1>1. CASE NewBlock /\ UNCHANGED drain
  BY <1>1, NewBlockLosses
<1>2. CASE (Stop \/ Expire) /\ UNCHANGED drain
  <2>1. /\ up /\ UNCHANGED <<tip, cursor, gaps, lcb, events, safe>>
        /\ (over' => Expired)
    <3>1. up /\ UNCHANGED <<tip, cursor, gaps, lcb, events, safe>>
      BY <1>2 DEF Stop, Expire, Working, ledger, debts
    <3>2. CASE Stop
      <4>1. over' = over
        BY <3>2 DEF Stop
      <4> QED
        BY <3>1, <4>1 DEF Losses
    <3>3. CASE Expire
      BY <3>1, <3>3 DEF Expire
    <3> QED
      BY <1>2, <3>2, <3>3
  <2>2. Missing' = Missing /\ OpenGaps' = OpenGaps /\ Fresh' = Fresh /\ (\A g \in Ids : Of(g)' = Of(g))
        /\ (Expired => Expired') /\ CurveWhole'
    BY <2>1 DEF Missing, Edge, OpenGaps, Fresh, Of, Expired, CurveWhole, Losses
  <2>3. \A b : Guarded(b)' = Guarded(b)
    BY <2>2 DEF Guarded, OpenGaps
  <2> QED
    BY <2>1, <2>2, <2>3 DEF Losses
<1>3. CASE \E g \in Ids : Resolve(g) /\ UNCHANGED drain
  BY <1>3, ResolveLosses
<1>4. CASE \E g \in Ids : ResolveFixed(g) /\ UNCHANGED drain
  BY <1>4, ResolveFixedLosses
<1>5. CASE PromoteDrain
  BY <1>5, PromoteDrainLosses
<1>6. CASE Restart
  BY <1>6, RestartLosses
<1>7. CASE /\ UNCHANGED <<tip, cursor, gaps, up, over, lcb>> /\ events \subseteq events'
           /\ safe' => safe \/ (~up /\ OpenGaps = {})
  BY <1>7, LossesFrame
<1>8. Assess => /\ UNCHANGED <<tip, cursor, gaps, up, over, lcb, events>> /\ ~up /\ OpenGaps = {}
  BY DEF Assess, Offline, gvars, ledger, debts
<1>9. \/ (NewBlock /\ UNCHANGED drain) \/ ((Stop \/ Expire) /\ UNCHANGED drain)
      \/ (\E g \in Ids : Resolve(g) /\ UNCHANGED drain)
      \/ (\E g \in Ids : ResolveFixed(g) /\ UNCHANGED drain) \/ PromoteDrain \/ Restart \/ Assess
      \/ /\ UNCHANGED <<tip, cursor, gaps, up, over, lcb, safe>> /\ events \subseteq events'
  BY DEF DNext, OfWorker, Pause, PinHead, Tick, BlockExpired, Enroll, FixedTick, Answer, CommitRow,
     FreezeHead, DrainTick, BreakOff, dvars, gvars, ledger, debts
<1> QED
  BY <1>1, <1>2, <1>3, <1>4, <1>5, <1>6, <1>7, <1>8, <1>9

(***************************************************************************)
(* The beginning, the invariant and what it promises.                      *)
(***************************************************************************)
LEMMA DrainStart ==
    ASSUME Grad < FirstHead, DInit
    PROVE  DrainInv
<1>1. /\ tip = FirstHead /\ up = TRUE /\ lcb = tip /\ over = FALSE /\ events = Tracked(tip)
      /\ cursor = [k \in Filters |-> To(k, tip)] /\ gaps = [g \in Ids |-> NoGap]
      /\ bounds = [g \in Ids |-> 0] /\ stage = [s \in Stages |-> NoStage] /\ work = Idle
      /\ round = 0 /\ pendingd = FALSE /\ safe = FALSE
  BY DEF DInit, GInit
<1>2. tip \in Nat /\ Grad < tip /\ tip <= EndBlock /\ tip <= MaxTip
  BY <1>1, WindowFacts
<1>3. \A k \in Filters : To(k, tip) \in Nat
  BY <1>2, WindowFacts DEF To, Least
<1>4. NoGap \in GapRows /\ NoJob \in JobRows
  BY DEF NoGap, GapRows, NoJob, JobRows
<1>5. NoStage \in StageRows /\ NoStage.head = 0 /\ NoStage.at = 0 /\ \A k \in Filters : NoStage.job[k] = NoJob
  BY <1>4 DEF NoStage, StageRows
<1>6. DrainTypes
  <2>1. tip \in FirstHead..MaxTip /\ lcb \in FirstHead..tip /\ up \in BOOLEAN
    <3>1. tip = FirstHead /\ lcb = tip /\ up = TRUE
      BY <1>1
    <3> QED
      BY <1>2, <3>1
  <2>2. events \subseteq Happened /\ cursor \in [Filters -> Nat]
    BY <1>1, <1>3 DEF Happened
  <2>3. gaps \in [Ids -> GapRows] /\ bounds \in [Ids -> Nat]
    BY <1>1, <1>4
  <2>4. stage \in [Stages -> StageRows] /\ work \in WorkRows
    BY <1>1, <1>5, IdleType
  <2>5. round \in 0..MaxRounds /\ safe \in BOOLEAN
    <3>1. round \in 0..MaxRounds
      BY <1>1, WindowFacts
    <3>2. safe \in BOOLEAN
      BY <1>1
    <3> QED
      BY <3>1, <3>2
  <2> QED
    BY <2>1, <2>2, <2>3, <2>4, <2>5 DEF DrainTypes
<1>7. Edge \in Nat /\ Edge = tip
      /\ Happened = ({"curve"} \X (1..Grad)) \cup ({"v4"} \X (Grad..Edge))
  <2>1. ~Expired
    BY <1>2, WindowFacts DEF Expired
  <2> QED
    BY <1>6, <2>1, EdgeFacts
<1>8. Missing = {}
  BY <1>1, <1>7 DEF Missing, Happened
<1>9. OpenGaps = {} /\ Fresh = Ids /\ Fresh # {}
  <2>1. Ids # {}
    BY WindowFacts DEF Ids
  <2> QED
    BY <1>1, <2>1 DEF OpenGaps, Fresh, NoGap
<1>10. Losses
  <2>1. CurveWhole
    BY <1>1, <1>7 DEF CurveWhole, Happened
  <2>2. cursor["v4"] \in FirstHead..tip
    BY <1>1, <1>2, WindowFacts DEF To, Filters
  <2> QED
    BY <1>1, <1>8, <2>1, <2>2 DEF Losses
<1>11. GapBounds
  BY <1>1, <1>9 DEF GapBounds
<1>12. Proofs
  <2> SUFFICES ASSUME NEW s \in Stages PROVE StageHolds(s, NoStage)
    BY <1>1 DEF Proofs
  <2>1. NoStage.job["v4"] = NoJob
    BY <1>5 DEF Filters
  <2> QED
    BY <1>5, <1>7, <2>1 DEF StageHolds, JobHolds, Aim
<1>13. Chunk
  BY <1>1 DEF Chunk, Idle
<1> QED
  BY <1>6, <1>10, <1>11, <1>12, <1>13 DEF DrainInv

LEMMA DrainStep ==
    ASSUME DrainInv, [DNext]_dvars
    PROVE  DrainInv'
<1>1. DrainTypes /\ Losses /\ GapBounds /\ Proofs /\ Chunk
  BY DEF DrainInv
<1>2. DrainTypes'
  BY <1>1, DrainTypesStep
<1>3. Losses' /\ GapBounds' /\ Proofs' /\ Chunk'
  BY <1>1, <1>2, LossesStep, GapBoundsStep, ProofsStep, ChunkStep
<1> QED
  BY <1>2, <1>3 DEF DrainInv

\* When the worker had caught up past the graduation, DrainInv holds in every state: what is
\* missing from the ledger is behind an open gap, or will be behind the gap of the next return.
THEOREM DrainInvariant ==
    ASSUME Grad < FirstHead
    PROVE  DSpec => []DrainInv
<1>1. DInit => DrainInv
  BY DrainStart
<1>2. DrainInv /\ [DNext]_dvars => DrainInv'
  BY DrainStep
<1> QED
  BY <1>1, <1>2, PTL DEF DSpec

LEMMA NothingMissing ==
    ASSUME DrainInv, Missing = {}
    PROVE  Happened \subseteq events
<1>1. Happened = ({"curve"} \X (1..Grad)) \cup ({"v4"} \X (Grad..Edge))
  BY EdgeFacts DEF DrainInv
<1> QED
  BY <1>1 DEF DrainInv, Losses, CurveWhole, Missing

LEMMA HealthyIsWhole == DrainInv => HealthyMeansWhole
<1> SUFFICES ASSUME DrainInv, Healthy PROVE Happened \subseteq events
  BY DEF HealthyMeansWhole
<1>1. Missing = {}
  BY DEF DrainInv, Losses, Guarded, Healthy
<1> QED
  BY <1>1, NothingMissing

LEMMA SafeStored == DrainInv => SafeIsStored
<1> SUFFICES ASSUME DrainInv, safe, NEW k \in Filters, NEW b \in Heights, <<k, b>> \in Happened,
                    b <= cursor[k] \/ b < lcb
             PROVE  <<k, b>> \in events
  BY DEF SafeIsStored
<1>1. DrainTypes /\ Losses
  BY DEF DrainInv
<1>2. OpenGaps = {}
  BY <1>1 DEF Losses
<1>3. Happened = ({"curve"} \X (1..Grad)) \cup ({"v4"} \X (Grad..Edge))
  BY <1>1, EdgeFacts
<1>4. CASE k = "curve"
  BY <1>1, <1>3, <1>4 DEF Losses, CurveWhole
<1>5. CASE k = "v4"
  <2>1. b \in Grad..Edge
    BY <1>3, <1>5
  <2>2. ASSUME <<"v4", b>> \notin events PROVE FALSE
    <3>1. b \in Missing /\ b \in Nat /\ lcb \in Nat
      BY <1>1, <2>1, <2>2, MissingFacts, ReturnGap DEF Missing
    <3>2. ~Guarded(b)
      BY <1>2 DEF Guarded
    <3>3. lcb < b /\ ~(b <= cursor["v4"])
      BY <1>1, <3>1, <3>2 DEF Losses
    <3> QED
      BY <1>5, <3>1, <3>3
  <2> QED
    BY <1>5, <2>2
<1> QED
  BY <1>4, <1>5 DEF Filters

LEMMA ClaimedIsStored == DrainInv => Claimed \subseteq events
<1> SUFFICES ASSUME DrainInv, NEW t \in Claimed PROVE t \in events
  OBVIOUS
<1>1. DrainTypes /\ Losses
  BY DEF DrainInv
<1>2. Happened = ({"curve"} \X (1..Grad)) \cup ({"v4"} \X (Grad..Edge)) /\ t \in Happened
  BY <1>1, EdgeFacts DEF Claimed
<1>3. CASE t \in {"curve"} \X (1..Grad)
  BY <1>1, <1>3 DEF Losses, CurveWhole
<1>4. ASSUME NEW b \in Grad..Edge, t = <<"v4", b>>, t \notin events PROVE FALSE
  <2>1. b \in Missing
    BY <1>4 DEF Missing
  <2>2. t \in ByCursor \/ t \in ByGap
    BY DEF Claimed
  <2>3. CASE t \in ByCursor
    <3>1. b \in (1..cursor["v4"]) \ Doubted
      BY <1>4, <2>3 DEF ByCursor
    <3>2. b <= cursor["v4"]
      BY <1>1, <3>1 DEF DrainTypes, Filters
    <3>3. Guarded(b)
      BY <1>1, <2>1, <3>2 DEF Losses
    <3> QED
      BY <3>1, <3>3 DEF Guarded, Doubted
  <2>4. CASE t \in ByGap
    <3>1. PICK g \in Ids \ (OpenGaps \cup Fresh) : b \in Of(g)
      BY <1>4, <2>4 DEF ByGap
    <3> QED
      BY <1>1, <2>1, <3>1 DEF Losses
  <2> QED
    BY <2>2, <2>3, <2>4
<1> QED
  BY <1>2, <1>3, <1>4

\* HealthyMeansWhole (flow_data.py, current_health): a healthy report is true, with the worker's
\* recovery (flow_gap_recovery.py, flow_expired_recovery.py) and the drain in any turns.
THEOREM HealthIsTrue ==
    ASSUME Grad < FirstHead
    PROVE  DSpec => []HealthyMeansWhole
  BY DrainInvariant, HealthyIsWhole, PTL

\* SafeIsStored (flow_offline_drain.py, assessment): what the restart it declares safe will not
\* read again is stored.
THEOREM SafeRestart ==
    ASSUME Grad < FirstHead
    PROVE  DSpec => []SafeIsStored
  BY DrainInvariant, SafeStored, PTL

LEMMA TradesHappen ==
    ASSUME DrainTypes
    PROVE  Happened \subseteq Trades
<1>1. Happened = ({"curve"} \X (1..Grad)) \cup ({"v4"} \X (Grad..Edge))
      /\ Edge \in Nat /\ Edge <= EndBlock
  BY EdgeFacts
<1>2. 1..Grad \subseteq Heights /\ Grad..Edge \subseteq Heights
  BY <1>1, WindowFacts DEF Heights
<1> QED
  BY <1>1, <1>2 DEF Trades, Filters

\* KeepsPromise (flow_gap_recovery.py, flow_offline_drain.py, promote_offline): whatever the worker,
\* the operator and the faults do, only stored trades are ever claimed, and what is stored stays;
\* step for step the two implement CoveragePromise.
THEOREM RecoveryKeepsPromise ==
    ASSUME Grad < FirstHead
    PROVE  DSpec => KeepsPromise
<1>1. DInit => Promise!Init
  <2> SUFFICES ASSUME DInit PROVE Promise!Init
    OBVIOUS
  <2>1. DrainInv
    BY DrainStart
  <2>2. events \subseteq Happened /\ Happened \subseteq Trades /\ Claimed \subseteq events
    BY <2>1, ClaimedIsStored, TradesHappen DEF DrainInv, DrainTypes
  <2> QED
    BY <2>2 DEF Promise!Init
<1>2. DrainInv /\ DrainInv' /\ [DNext]_dvars => [Promise!Next]_(Promise!vars)
  <2> SUFFICES ASSUME DrainInv, DrainInv', [DNext]_dvars
               PROVE  Promise!Next
    BY DEF Promise!vars
  <2>1. DrainTypes /\ DrainTypes' /\ Proofs /\ Chunk
    BY DEF DrainInv
  <2>2. events' \subseteq Happened' /\ events \subseteq events'
    BY <2>1, WorldStep DEF DrainTypes
  <2>3. Claimed' \subseteq events'
    <3>1. DrainInv' => (Claimed \subseteq events)'
      BY ClaimedIsStored, PTL
    <3> QED
      BY <3>1
  <2>4. Happened' \subseteq Trades
    <3>1. DrainTypes' => (Happened \subseteq Trades)'
      BY TradesHappen, PTL
    <3> QED
      BY <2>1, <3>1 DEF Trades, Filters, Heights
  <2>5. Happened \subseteq Happened'
    <3>1. /\ Happened = ({"curve"} \X (1..Grad)) \cup ({"v4"} \X (Grad..Edge))
          /\ (DrainTypes => Happened = ({"curve"} \X (1..Grad)) \cup ({"v4"} \X (Grad..Edge)))'
      BY <2>1, EdgeFacts, PTL
    <3>2. Happened' = ({"curve"} \X (1..Grad)) \cup ({"v4"} \X (Grad..Edge'))
      BY <2>1, <3>1
    <3>3. Edge \in Nat /\ Edge' \in Nat /\ Edge <= Edge'
      BY <2>1, EdgeGrows
    <3> QED
      BY <3>1, <3>2, <3>3, WindowFacts
  <2>6. Promise!Happen
    BY <2>4, <2>5 DEF Promise!Happen
  <2>7. Promise!Store
    BY <2>2 DEF Promise!Store
  <2>8. Promise!Claim
    BY <2>3 DEF Promise!Claim
  <2> QED
    BY <2>6, <2>7, <2>8 DEF Promise!Next
<1> QED
  BY <1>1, <1>2, DrainInvariant, PTL DEF DSpec, KeepsPromise, Promise!Spec
============================================================================
