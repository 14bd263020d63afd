---------------------------- MODULE CutoverProofs ----------------------------
(***************************************************************************)
(* Proofs about Cutover: for a chain of any length, any overlap and any    *)
(* number of faults, a session that says verified is (ReadyMeansProved),   *)
(* and the unit with its session keeps CoveragePromise.                    *)
(*                                                                         *)
(* The argument.  The three stages are one proof in a row, because each    *)
(* begins behind the end of the one before (Proved), so what the last one  *)
(* ends at is stored from block 1 on.  A worker that may claim what it     *)
(* sees has an open gap in front of every block it lost (Claims): whatever *)
(* makes it lose blocks writes the gap in the same step.  One way in has   *)
(* no such gap, the start of the split worker under a pending session.     *)
(* Nothing is claimed there until the last proof is promoted, and then     *)
(* nothing is missing: the head was pinned when the subscriptions were     *)
(* there, the proof reaches it, and one process has seen what came after   *)
(* (Handoff).  A second process has not, and then nothing is promised.     *)
(*                                                                         *)
(* The HTTP endpoint that is asked for a head may trail the chain: what it *)
(* left out is in blind, so the argument is made for the blocks of Known,  *)
(* and an endpoint that does not trail leaves nothing out (NeverBlind).    *)
(***************************************************************************)
EXTENDS Cutover, SequenceTheorems, WellFoundedInduction, TLAPS

(***************************************************************************)
(* The inductive invariant.                                                *)
(***************************************************************************)
Posts    == {"legacy", "split", "none"}
Points   == {"none", "start", "down", "up", "recover", "finish", "blocked"}
States   == PreStop \cup Pending \cup Watched \cup Terminal \cup {"READY_TAIL_VERIFIED"}
GapRows  == [first : Nat, from : Nat, end : Nat, open : BOOLEAN]
Jobs     == [first : Nat, next : Nat, last : Int]
Commands == [cmd : {"none", "prefetch", "stop", "tail", "enable", "ready"}, snap : BOOLEAN]
Sessions == [state : States, bound : BOOLEAN, snap : BOOLEAN, checked : BOOLEAN, issued : BOOLEAN,
             hpre : Nat, hstop : Nat, gapBefore : Nat, provider : {"publicnode", "none"}, hlive : Nat,
             at : Nat, fresh : BOOLEAN, intent : BOOLEAN, outcome : BOOLEAN, restarted : BOOLEAN]

UnitTypes ==
    /\ mode \in Posts /\ wpc \in Points /\ config \in BOOLEAN /\ subs \in BOOLEAN
    /\ switch \in Nat /\ ses \in Sessions /\ op \in Commands
StoreTypes ==
    /\ head \in Blocks /\ latest \in Nat /\ lcb \in Nat
    /\ stored \subseteq 1..head /\ 1 \in stored /\ blind \subseteq 1..head
    /\ cursor \in Nat /\ covEnd \in 0..head
    /\ gaps \in Seq(GapRows) /\ \A i \in DOMAIN gaps : gaps[i].from <= head
JobTypes ==
    /\ ses.hlive <= head /\ job \in [Stages -> Jobs]
    /\ \A s \in Stages : Planned(s) => job[s].next # 0 /\ job[s].last \in 0..head
Types == UnitTypes /\ StoreTypes /\ JobTypes

\* What a command under way says of the unit, and where the worker has its subscriptions.
Control ==
    /\ mode = "none" <=> wpc = "none"
    /\ config => mode # "legacy"
    /\ op.cmd = "prefetch" => mode = "legacy"
    /\ op.cmd \in {"tail", "enable"} => mode = "none"
    /\ op.cmd = "ready" => config /\ Split
    /\ subs => Running
    /\ wpc = "recover" => subs

\* What the three stages, the cursor and the session say of the store.
Below(n) == 1..n \subseteq stored
Proved ==
    /\ Below(cursor) /\ Below(ses.hpre) /\ Below(ses.hstop)
    /\ \A s \in Stages : Below(job[s].next - 1)
    /\ Planned("wss_ready_tail") => ses.hlive # 0 /\ job["wss_ready_tail"].last = ses.hlive
    /\ ses.state \in Verified => ses.hlive # 0 /\ Below(ses.hlive)

\* A block that is not stored, and that no trailing head left out, comes after the
\* beginning of an open gap.
Known   == stored \cup blind
Lost    == (1..head) \ Known
Guarded == \A b \in Lost : \E i \in OpenGaps : gaps[i].from < b

\* A worker that may claim what it sees.
Exposed == wpc \in {"down", "up", "recover", "finish"} /\ ~Holding
Claims  ==
    /\ Claimed \subseteq Known
    /\ Exposed => Guarded /\ (subs \/ OpenGaps # {})

\* The head of the handoff is pinned under the subscriptions that are to take over, and
\* nothing is claimed until it is proved.
Handoff ==
    /\ op.cmd = "prefetch" => ses.hlive = 0
    /\ ses.hlive # 0 => ses.state \notin PreStop \cup (Pending \ {"READY_TAIL_PENDING"})
    /\ ses.state = "READY_TAIL_PENDING" /\ Split /\ wpc # "start" =>
         subs /\ (ses.hlive # 0 => (ses.hlive + 1)..head \subseteq Known)
    /\ ses.state = "READY_TAIL_PENDING" /\ ses.hlive # 0 /\ config =>
         (ses.hlive + 1)..covEnd \subseteq Known

IInv == Types /\ Control /\ Proved /\ (~ses.restarted => Claims /\ Handoff)

(***************************************************************************)
(* Lemmas about the operators.                                             *)
(***************************************************************************)

\* A set of numbers that is not empty has a least one, and below a bound a greatest.
LEMMA LeastIsIn ==
    ASSUME NEW S, S \subseteq Nat, S # {}
    PROVE  \E b \in S : \A c \in S : b <= c
<1>1. PICK m \in S : \A i \in S : ~(<<i, m>> \in OpToRel(<, Nat))
  BY NatLessThanWellFounded, WFMin
<1>2. \A i \in S : ~(i < m)
  BY <1>1 DEF OpToRel
<1> QED
  BY <1>2

LEMMA GreatestIsIn ==
    ASSUME NEW n \in Nat, NEW S, S \subseteq 1..n, S # {}
    PROVE  \E b \in S : \A c \in S : c <= b
<1> DEFINE D == {n - b : b \in S}
<1>1. D \subseteq Nat /\ D # {}
  <2>1. \A b \in S : b \in Nat /\ b <= n
    OBVIOUS
  <2>2. \A b \in S : n - b \in Nat /\ n - b \in D
    BY <2>1
  <2> QED
    BY <2>2
<1>2. PICK d \in D : \A e \in D : d <= e
  BY <1>1, LeastIsIn
<1>3. PICK b \in S : d = n - b
  BY <1>2
<1>4. ASSUME NEW c \in S PROVE c <= b
  <2>1. n - b <= n - c
    BY <1>2, <1>3
  <2> QED
    BY <2>1
<1> QED
  BY <1>3, <1>4

LEMMA LastEventType ==
    ASSUME Types
    PROVE  LastEvent \in 1..head
<1>1. stored \subseteq 1..head /\ stored # {} /\ head \in Nat
  BY BoundsAssumption DEF Types, StoreTypes, Blocks
<1>2. \E b \in stored : \A c \in stored : c <= b
  BY <1>1, GreatestIsIn
<1>3. LastEvent \in stored
  BY <1>2 DEF LastEvent
<1> QED
  BY <1>1, <1>3

\* A head is a mined block, and a reading of the chain up to it leaves out the rest.
LEMMA HeadType ==
    ASSUME Types, NEW h \in Heads
    PROVE  /\ h \in Nat \ {0} /\ h <= head /\ head \in Nat
           /\ Left(h) \subseteq 1..head
           /\ (1..head) \ Left(h) \subseteq stored \cup (1..h)
  BY BoundsAssumption DEF Heads, Left, Types, StoreTypes, Blocks

\* A reading from the cursor's overlap on joins what is stored below it.
LEMMA ReadingJoins ==
    ASSUME Types, Proved, NEW h \in Heads, stored' = stored \cup (Greatest(1, cursor - Overlap)..h),
           blind' = blind \cup Left(h), head' = head
    PROVE  /\ 1..h \subseteq stored' /\ 1..cursor \subseteq stored'
           /\ (1..head)' \subseteq Known'
<1>1. h \in Nat /\ cursor \in Nat /\ 1..cursor \subseteq stored
  BY HeadType DEF Types, StoreTypes, Proved, Below
<1>2. 1..h \subseteq stored'
  BY <1>1, BoundsAssumption DEF Greatest
<1>3. 1..head \subseteq stored' \cup blind'
  BY <1>2, HeadType
<1> QED
  BY <1>1, <1>2, <1>3 DEF Known

\* What a reading from the overlap on stores and leaves out was mined.
LEMMA ReadingType ==
    ASSUME Types, NEW h \in Heads
    PROVE  /\ stored \cup (Greatest(1, cursor - Overlap)..h) \subseteq 1..head
           /\ blind \cup Left(h) \subseteq 1..head
<1>1. h \in Nat /\ h <= head /\ head \in Nat /\ Left(h) \subseteq 1..head
  BY HeadType
<1>2. Greatest(1, cursor - Overlap) \in Nat \ {0}
  BY BoundsAssumption DEF Greatest, Types, StoreTypes
<1>3. Greatest(1, cursor - Overlap)..h \subseteq 1..head
  BY <1>1, <1>2
<1> QED
  BY <1>1, <1>3 DEF Types, StoreTypes

\* The historical stage begins at or before the cursor's overlap.
LEMMA HistoricalFrom ==
    ASSUME Types
    PROVE  HistoricalStart \in Nat \ {0} /\ HistoricalStart <= Greatest(1, cursor - Overlap)
<1> DEFINE start == Greatest(1, cursor - Overlap)
           firsts == {Greatest(1, gaps[i].first) : i \in OpenGaps}
           S == {start} \cup firsts
<1>1. \A i \in DOMAIN gaps : gaps[i] \in GapRows
  BY DEF Types, StoreTypes
<1>2. start \in Nat \ {0} /\ firsts \subseteq Nat \ {0}
  BY <1>1, BoundsAssumption DEF Types, StoreTypes, Greatest, GapRows, OpenGaps
<1>3. S \subseteq Nat /\ S # {}
  BY <1>2
<1>4. \E b \in S : \A c \in S : b <= c
  BY <1>3, LeastIsIn
<1>5. HistoricalStart = CHOOSE b \in S : \A c \in S : b <= c
  BY DEF HistoricalStart
<1>6. HistoricalStart \in S /\ \A c \in S : HistoricalStart <= c
  BY <1>4, <1>5
<1> QED
  BY <1>2, <1>6

\* Closing gaps leaves their rows as they are but for the mark, a new row joins the end.
LEMMA Closing ==
    ASSUME Types, NEW ids
    PROVE  /\ Closed(ids) \in Seq(GapRows) /\ DOMAIN Closed(ids) = DOMAIN gaps
           /\ \A i \in DOMAIN gaps : Closed(ids)[i].from = gaps[i].from
           /\ \A i \in DOMAIN gaps : Closed(ids)[i].open <=> gaps[i].open /\ i \notin ids
<1>1. \A i \in DOMAIN gaps : gaps[i] \in GapRows
  BY DEF Types, StoreTypes
<1>2. /\ DOMAIN Closed(ids) = DOMAIN gaps
      /\ \A i \in DOMAIN gaps : Closed(ids)[i] = [gaps[i] EXCEPT !.open = gaps[i].open /\ i \notin ids]
  BY DEF Closed
<1>3. \A i \in DOMAIN gaps : /\ Closed(ids)[i] \in GapRows /\ Closed(ids)[i].from = gaps[i].from
                             /\ Closed(ids)[i].open <=> gaps[i].open /\ i \notin ids
  BY <1>1, <1>2 DEF GapRows
<1>4. DOMAIN gaps = 1..Len(gaps) /\ Len(gaps) \in Nat
  BY DEF Types, StoreTypes
<1>5. Closed(ids) \in [1..Len(gaps) -> GapRows]
  BY <1>3, <1>4 DEF Closed
<1>6. Closed(ids) \in Seq(GapRows)
  BY <1>4, <1>5
<1> QED
  BY <1>2, <1>3, <1>6

LEMMA OpenGapType ==
    ASSUME Types, NEW i \in OpenGaps
    PROVE  i \in DOMAIN gaps /\ gaps[i] \in GapRows /\ gaps[i].from \in Nat /\ gaps[i].from <= head
<1>1. i \in DOMAIN gaps
  BY DEF OpenGaps
<1>2. gaps[i] \in GapRows /\ gaps[i].from <= head
  BY <1>1 DEF Types, StoreTypes
<1> QED
  BY <1>1, <1>2 DEF GapRows

LEMMA Joining ==
    ASSUME Types, NEW g \in GapRows
    PROVE  /\ Append(gaps, g) \in Seq(GapRows) /\ DOMAIN Append(gaps, g) = 1..(Len(gaps) + 1)
           /\ Len(Append(gaps, g)) = Len(gaps) + 1 /\ Len(gaps) \in Nat /\ DOMAIN gaps = 1..Len(gaps)
           /\ \A i \in DOMAIN gaps : Append(gaps, g)[i] = gaps[i]
           /\ Append(gaps, g)[Len(gaps) + 1] = g
  BY DEF Types, StoreTypes

LEMMA NewGaps ==
    ASSUME Types
    PROVE  /\ OutageGap \in GapRows /\ OutageGap.from = covEnd /\ OutageGap.open
           /\ RecoveryGap \in GapRows /\ RecoveryGap.from <= head /\ RecoveryGap.open
  BY LastEventType, BoundsAssumption DEF Types, StoreTypes, Blocks, OutageGap, RecoveryGap, Gap,
     GapRows, Greatest

\* The unit, the session and the command under way keep their types.
LEMMA UnitStep ==
    ASSUME Types, [Next]_vars
    PROVE  UnitTypes'
<1> USE DEF chain, unit, memory, ledger, Types, UnitTypes, Posts, Points
<1>1. CASE Mine
  BY <1>1 DEF Mine
<1>2. CASE Launch
  BY <1>2 DEF Launch
<1>3. CASE StartWorker
  <2>1. CASE InHandoff
    <3>1. ses' = [ses EXCEPT !.state = "SPLIT_WSS_CONNECTING", !.bound = TRUE,
                             !.restarted = @ \/ ses.state # "SPLIT_CONFIGURED"]
      BY <1>3, <2>1 DEF StartWorker
    <3>2. (ses.restarted \/ ses.state # "SPLIT_CONFIGURED") \in BOOLEAN
      OBVIOUS
    <3>3. "SPLIT_WSS_CONNECTING" \in States
      BY DEF States, Pending
    <3>4. ses' \in Sessions
      BY <3>1, <3>2, <3>3 DEF Sessions
    <3> QED
      BY <1>3, <3>4 DEF StartWorker
  <2>2. CASE ~InHandoff
    BY <1>3, <2>2 DEF StartWorker
  <2> QED
    BY <2>1, <2>2
<1>4. CASE ConnectWorker
  BY <1>4 DEF ConnectWorker, Sessions, States, PreStop, Pending, Watched, Terminal, Commands
<1>5. CASE TickFailed
  BY <1>5 DEF TickFailed, Sessions, States, PreStop, Pending, Watched, Terminal, Commands
<1>6. CASE Tick
  <2>1. /\ wpc \in Points /\ UNCHANGED <<mode, config, switch, op>> /\ subs' = TRUE
        /\ NoHandoff \/ BeginValidation \/ SpoilHandoff \/ AwaitReadyTail
    BY <1>6 DEF Tick
  <2>2. {"POST_CUTOVER_VALIDATING", "FAILED", "READY_TAIL_PENDING"} \subseteq States
    BY DEF States, Pending, Watched, Terminal
  <2>3. CASE NoHandoff
    BY <2>1, <2>3 DEF NoHandoff
  <2>4. CASE BeginValidation
    <3>1. ses' \in Sessions
      BY <2>2, <2>4 DEF BeginValidation, Sessions
    <3>2. wpc' \in Points
      BY <2>4 DEF BeginValidation
    <3> QED
      BY <2>1, <3>1, <3>2
  <2>5. CASE SpoilHandoff
    BY <2>1, <2>2, <2>5 DEF SpoilHandoff, Sessions
  <2>6. CASE AwaitReadyTail
    BY <2>1, <2>2, <2>6 DEF AwaitReadyTail, Sessions
  <2> QED
    BY <2>1, <2>3, <2>4, <2>5, <2>6
<1>7. CASE SkipRecovery
  BY <1>7 DEF SkipRecovery
<1>8. CASE Recover
  BY <1>8 DEF Recover
<1>9. CASE BootstrapOther
  BY <1>9 DEF BootstrapOther, Sessions, States, PreStop, Pending, Watched, Terminal, Commands
<1>10. CASE ProveSwitch
  BY <1>10 DEF ProveSwitch, Sessions, States, PreStop, Pending, Watched, Terminal, Commands
<1>11. CASE RecordRollback
  <2> DEFINE known == ses.intent \/ ses.provider = "publicnode"
  <2>1. /\ ses' = [ses EXCEPT !.state = "ROLLED_BACK", !.outcome = known]
        /\ wpc' = IF known THEN "finish" ELSE "blocked"
        /\ subs' = known /\ UNCHANGED <<mode, config, switch, op>>
    BY <1>11 DEF RecordRollback
  <2>2. known \in BOOLEAN /\ "ROLLED_BACK" \in States
    BY DEF States, Terminal
  <2> HIDE DEF known
  <2>3. ses' \in Sessions
    BY <2>1, <2>2 DEF Sessions
  <2> QED
    BY <2>1, <2>2, <2>3
<1>12. CASE RollbackRefused
  BY <1>12 DEF RollbackRefused
<1>13. CASE Finish
  BY <1>13 DEF Finish, Sessions, States, PreStop, Pending, Watched, Terminal, Commands
<1>14. CASE LoseConnection
  <2>1. ses' \in Sessions
    BY <1>14 DEF LoseConnection, Sessions, States, PreStop, Pending, Watched, Terminal
  <2>2. Len(gaps') \in Nat
    <3>1. OutageGap \in GapRows
      BY NewGaps
    <3> QED
      BY <1>14, <3>1, Joining DEF LoseConnection, StoreTypes
  <2>3. switch' \in Nat
    BY <1>14, <2>2 DEF LoseConnection
  <2> QED
    BY <1>14, <2>1, <2>3 DEF LoseConnection
<1>15. CASE Crash
  BY <1>15 DEF Crash, Sessions, States, PreStop, Pending, Watched, Terminal, Commands
<1>16. CASE RecoveryFails
  BY <1>16 DEF RecoveryFails
<1>17. CASE RecoveryDeferred
  BY <1>17 DEF RecoveryDeferred, Sessions, States, PreStop, Pending, Watched, Terminal, Commands
<1>18. CASE BreakOff
  BY <1>18 DEF BreakOff, Sessions, States, PreStop, Pending, Watched, Terminal, Commands, NoOp
<1>19. CASE Prefetch
  <2>1. op' \in Commands
    BY <1>19 DEF Prefetch, Command, NoOp, Snapshot, Commands
  <2>2. ses' \in Sessions
    BY <1>19 DEF Prefetch, Sessions, States, PreStop, Pending, Watched, Terminal
  <2> QED
    BY <1>19, <2>1, <2>2 DEF Prefetch
<1>20. CASE StartHistorical
  BY <1>20 DEF StartHistorical, Sessions, States, PreStop, Pending, Watched, Terminal, Commands
<1>21. CASE ProveHistorical
  BY <1>21 DEF ProveHistorical, Sessions, States, PreStop, Pending, Watched, Terminal, Commands, Prove
<1>22. CASE FinishPrefetch
  <2>1. op' \in Commands
    BY <1>22 DEF FinishPrefetch, NoOp, Commands
  <2>2. job["historical"].last \in Nat
    BY <1>22 DEF FinishPrefetch, Whole, JobTypes, Stages, StoreTypes, Blocks
  <2>3. op.snap \in BOOLEAN /\ Len(gaps) \in Nat
    BY DEF Commands, StoreTypes
  <2>4. ses' \in Sessions
    BY <1>22, <2>2, <2>3 DEF FinishPrefetch, Sessions, States, PreStop, Pending, Watched, Terminal
  <2> QED
    BY <1>22, <2>1, <2>4 DEF FinishPrefetch
<1>23. CASE Preflight
  BY <1>23 DEF Preflight, Sessions, States, PreStop, Pending, Watched, Terminal, Commands
<1>24. CASE AuthorizeStop
  BY <1>24 DEF AuthorizeStop, Sessions, States, PreStop, Pending, Watched, Terminal, Commands
<1>25. CASE AbortPreStop
  BY <1>25 DEF AbortPreStop, Sessions, States, PreStop, Pending, Watched, Terminal, Commands
<1>26. CASE IssueStop
  <2>1. op' \in Commands
    BY <1>26 DEF IssueStop, Command, NoOp, Snapshot, Commands
  <2>2. ses' \in Sessions
    BY <1>26 DEF IssueStop, Sessions, States, PreStop, Pending, Watched, Terminal
  <2> QED
    BY <1>26, <2>1, <2>2 DEF IssueStop
<1>27. CASE StopSource
  BY <1>27 DEF StopSource, Sessions, States, PreStop, Pending, Watched, Terminal, Commands
<1>28. CASE MarkSourceStopped
  BY <1>28 DEF MarkSourceStopped, Sessions, States, PreStop, Pending, Watched, Terminal, Commands, NoOp
<1>29. CASE StopTail
  <2>1. op' \in Commands
    BY <1>29 DEF StopTail, Command, NoOp, Snapshot, Commands
  <2> QED
    BY <1>29, <2>1 DEF StopTail
<1>30. CASE ProveStopTail
  BY <1>30 DEF ProveStopTail, Sessions, States, PreStop, Pending, Watched, Terminal, Commands, Prove
<1>31. CASE PromoteStopTail
  BY <1>31 DEF PromoteStopTail, Sessions, States, PreStop, Pending, Watched, Terminal, Commands
<1>32. CASE VerifyStopTail
  <2>1. op' \in Commands
    BY <1>32 DEF VerifyStopTail, NoOp, Commands
  <2>2. job["stop_tail"].last \in Nat
    BY <1>32 DEF VerifyStopTail, Whole, JobTypes, Stages, StoreTypes, Blocks
  <2>3. op.snap \in BOOLEAN /\ Len(gaps) \in Nat
    BY DEF Commands, StoreTypes
  <2>4. ses' \in Sessions
    BY <1>32, <2>2, <2>3 DEF VerifyStopTail, Sessions, States, PreStop, Pending, Watched, Terminal
  <2> QED
    BY <1>32, <2>1, <2>4 DEF VerifyStopTail
<1>33. CASE EnableSplit
  <2>1. op' \in Commands
    BY <1>33 DEF EnableSplit, Command, NoOp, Snapshot, Commands
  <2> QED
    BY <1>33, <2>1 DEF EnableSplit
<1>34. CASE MarkSplitConfigured
  BY <1>34 DEF MarkSplitConfigured, Sessions, States, PreStop, Pending, Watched, Terminal, Commands,
     NoOp
<1>35. CASE DisableSplit
  BY <1>35 DEF DisableSplit
<1>36. CASE StartUnit
  BY <1>36 DEF StartUnit
<1>37. CASE StopUnit
  BY <1>37 DEF StopUnit, Sessions, States, PreStop, Pending, Watched, Terminal, Commands
<1>38. CASE ReadyTail
  <2>1. op' \in Commands
    BY <1>38 DEF ReadyTail, Command, NoOp, Snapshot, Commands
  <2> QED
    BY <1>38, <2>1 DEF ReadyTail
<1>39. CASE PinLive
  <2>1. PICK h \in Heads : ses' = [ses EXCEPT !.hlive = h, !.at = head, !.fresh = TRUE]
    BY <1>39 DEF PinLive
  <2>2. ses' \in Sessions
    BY <2>1, HeadType DEF Sessions
  <2> QED
    BY <1>39, <2>2 DEF PinLive
<1>40. CASE PlanReadyTail
  BY <1>40 DEF PlanReadyTail, Sessions, States, PreStop, Pending, Watched, Terminal, Commands
<1>41. CASE ProveReadyTail
  BY <1>41 DEF ProveReadyTail, Sessions, States, PreStop, Pending, Watched, Terminal, Commands, Prove
<1>42. CASE PromoteReadyTail
  BY <1>42 DEF PromoteReadyTail, Sessions, States, PreStop, Pending, Watched, Terminal, Commands, NoOp
<1>43. CASE AcceptValidation
  BY <1>43 DEF AcceptValidation, Sessions, States, PreStop, Pending, Watched, Terminal, Commands
<1>44. CASE CompleteSoak
  BY <1>44 DEF CompleteSoak, Sessions, States, PreStop, Pending, Watched, Terminal, Commands
<1>45. CASE RollbackIntent
  BY <1>45 DEF RollbackIntent, Sessions, States, PreStop, Pending, Watched, Terminal, Commands
<1>46. CASE UNCHANGED vars
  BY <1>46 DEF vars
<1> QED
  BY <1>1, <1>2, <1>3, <1>4, <1>5, <1>6, <1>7, <1>8, <1>9, <1>10, <1>11, <1>12, <1>13, <1>14, <1>15,
     <1>16, <1>17, <1>18, <1>19, <1>20, <1>21, <1>22, <1>23, <1>24, <1>25, <1>26, <1>27, <1>28, <1>29,
     <1>30, <1>31, <1>32, <1>33, <1>34, <1>35, <1>36, <1>37, <1>38, <1>39, <1>40, <1>41, <1>42, <1>43,
     <1>44, <1>45, <1>46 DEF Next, Worker, Fault, Operator

\* What the database holds keeps its types; blocks are mined, and nothing is stored before that.
LEMMA StoreStep ==
    ASSUME Types, [Next]_vars
    PROVE  StoreTypes'
<1> USE DEF chain, unit, memory, ledger, Types, StoreTypes
<1>1. CASE Mine
  <2>1. head \in Nat /\ head' = head + 1 /\ head' \in Blocks
    BY <1>1, BoundsAssumption DEF Mine, Blocks
  <2>2. gaps' = gaps /\ \A i \in DOMAIN gaps : gaps[i] \in GapRows
    BY <1>1 DEF Mine
  <2>3. \A i \in DOMAIN gaps' : gaps'[i].from <= head'
    BY <2>1, <2>2 DEF GapRows
  <2>4. stored' \subseteq stored \cup {head + 1} /\ stored \subseteq stored' /\ latest' \in Nat
    BY <1>1, <2>1 DEF Mine
  <2>5. stored' \subseteq 1..head' /\ blind' \subseteq 1..head'
    BY <1>1, <2>1, <2>4 DEF Mine
  <2> QED
    BY <1>1, <2>1, <2>2, <2>3, <2>4, <2>5 DEF Mine
<1>2. CASE Launch
  BY <1>2 DEF Launch
<1>3. CASE StartWorker
  <2>1. OutageGap \in GapRows /\ OutageGap.from <= head
    BY NewGaps
  <2>2. gaps' \in Seq(GapRows) /\ \A i \in DOMAIN gaps' : gaps'[i].from <= head
    <3>1. CASE gaps' = gaps
      BY <3>1
    <3>2. CASE gaps' = Append(gaps, OutageGap)
      BY <2>1, <3>2, Joining
    <3> QED
      BY <1>3, <3>1, <3>2 DEF StartWorker
  <2> QED
    BY <1>3, <2>2 DEF StartWorker
<1>4. CASE ConnectWorker
  BY <1>4 DEF ConnectWorker
<1>5. CASE TickFailed
  BY <1>5 DEF TickFailed
<1>6. CASE Tick
  BY <1>6 DEF Tick
<1>7. CASE SkipRecovery
  BY <1>7 DEF SkipRecovery
<1>8. CASE Recover
  <2>1. PICK h \in Heads :
            /\ stored' = stored \cup (Greatest(1, cursor - Overlap)..h)
            /\ blind' = blind \cup Left(h) /\ latest' = Greatest(latest, h)
            /\ cursor' = h
            /\ \E ids : gaps' = Closed(ids)
            /\ UNCHANGED <<head, lcb, covEnd>>
    BY <1>8 DEF Recover
  <2>2. gaps' \in Seq(GapRows) /\ \A i \in DOMAIN gaps' : gaps'[i].from <= head
    BY <2>1, Closing
  <2>3. h \in Nat
    BY HeadType
  <2>4. stored' \subseteq 1..head /\ blind' \subseteq 1..head
    BY <2>1, ReadingType
  <2>5. latest' \in Nat /\ cursor' \in Nat /\ 1 \in stored'
    BY <2>1, <2>3 DEF Greatest
  <2> QED
    BY <2>1, <2>2, <2>4, <2>5
<1>9. CASE BootstrapOther
  BY <1>9 DEF BootstrapOther
<1>10. CASE ProveSwitch
  <2>1. PICK h \in Heads :
            /\ stored' = stored \cup (Greatest(1, cursor - Overlap)..h)
            /\ blind' = blind \cup Left(h) /\ latest' = Greatest(latest, h)
            /\ cursor' = Greatest(cursor, h)
            /\ \E ids : gaps' = Closed(ids)
            /\ UNCHANGED <<head, lcb, covEnd>>
    BY <1>10 DEF ProveSwitch
  <2>2. gaps' \in Seq(GapRows) /\ \A i \in DOMAIN gaps' : gaps'[i].from <= head
    BY <2>1, Closing
  <2>3. h \in Nat
    BY HeadType
  <2>4. stored' \subseteq 1..head /\ blind' \subseteq 1..head
    BY <2>1, ReadingType
  <2>5. latest' \in Nat /\ cursor' \in Nat /\ 1 \in stored'
    BY <2>1, <2>3 DEF Greatest
  <2> QED
    BY <2>1, <2>2, <2>4, <2>5
<1>11. CASE RecordRollback
  BY <1>11 DEF RecordRollback
<1>12. CASE RollbackRefused
  BY <1>12 DEF RollbackRefused
<1>13. CASE Finish
  BY <1>13, BoundsAssumption DEF Finish, Blocks
<1>14. CASE LoseConnection
  <2>1. OutageGap \in GapRows /\ OutageGap.from <= head
    BY NewGaps
  <2>2. gaps' \in Seq(GapRows) /\ \A i \in DOMAIN gaps' : gaps'[i].from <= head
    BY <1>14, <2>1, Joining DEF LoseConnection
  <2> QED
    BY <1>14, <2>2 DEF LoseConnection
<1>15. CASE Crash
  BY <1>15 DEF Crash
<1>16. CASE RecoveryFails
  <2>1. gaps' \in Seq(GapRows) /\ \A i \in DOMAIN gaps' : gaps'[i].from <= head
    BY <1>16, NewGaps, Joining DEF RecoveryFails
  <2> QED
    BY <1>16, <2>1 DEF RecoveryFails
<1>17. CASE RecoveryDeferred
  BY <1>17 DEF RecoveryDeferred
<1>18. CASE BreakOff
  BY <1>18 DEF BreakOff
<1>19. CASE Prefetch
  BY <1>19 DEF Prefetch
<1>20. CASE StartHistorical
  BY <1>20 DEF StartHistorical
<1>21. CASE ProveHistorical
  <2>1. Planned("historical") /\ job["historical"] \in Jobs
    BY <1>21 DEF ProveHistorical, Prove, Planned, NoJob, JobTypes, Stages
  <2>2. job["historical"].next..job["historical"].last \subseteq 1..head
    BY <2>1, BoundsAssumption DEF JobTypes, Jobs, Stages, Blocks
  <2> QED
    BY <1>21, <2>2 DEF ProveHistorical, Prove
<1>22. CASE FinishPrefetch
  BY <1>22 DEF FinishPrefetch
<1>23. CASE Preflight
  BY <1>23 DEF Preflight
<1>24. CASE AuthorizeStop
  BY <1>24 DEF AuthorizeStop
<1>25. CASE AbortPreStop
  BY <1>25 DEF AbortPreStop
<1>26. CASE IssueStop
  BY <1>26 DEF IssueStop
<1>27. CASE StopSource
  BY <1>27 DEF StopSource
<1>28. CASE MarkSourceStopped
  BY <1>28 DEF MarkSourceStopped
<1>29. CASE StopTail
  BY <1>29 DEF StopTail
<1>30. CASE ProveStopTail
  <2>1. Planned("stop_tail") /\ job["stop_tail"] \in Jobs
    BY <1>30 DEF ProveStopTail, Prove, Planned, NoJob, JobTypes, Stages
  <2>2. job["stop_tail"].next..job["stop_tail"].last \subseteq 1..head
    BY <2>1, BoundsAssumption DEF JobTypes, Jobs, Stages, Blocks
  <2> QED
    BY <1>30, <2>2 DEF ProveStopTail, Prove
<1>31. CASE PromoteStopTail
  <2>1. PICK s \in {"historical", "stop_tail"} : Planned(s) /\ cursor' = job[s].last
    BY <1>31 DEF PromoteStopTail, Whole
  <2>2. cursor' \in Nat
    BY <2>1, BoundsAssumption DEF JobTypes, Stages, Blocks
  <2> QED
    BY <1>31, <2>2 DEF PromoteStopTail
<1>32. CASE VerifyStopTail
  BY <1>32 DEF VerifyStopTail
<1>33. CASE EnableSplit
  BY <1>33 DEF EnableSplit
<1>34. CASE MarkSplitConfigured
  BY <1>34 DEF MarkSplitConfigured
<1>35. CASE DisableSplit
  BY <1>35 DEF DisableSplit
<1>36. CASE StartUnit
  BY <1>36 DEF StartUnit
<1>37. CASE StopUnit
  BY <1>37 DEF StopUnit
<1>38. CASE ReadyTail
  BY <1>38 DEF ReadyTail
<1>39. CASE PinLive
  <2>1. blind' \subseteq 1..head
    BY <1>39, HeadType DEF PinLive
  <2> QED
    BY <1>39, <2>1 DEF PinLive
<1>40. CASE PlanReadyTail
  BY <1>40 DEF PlanReadyTail
<1>41. CASE ProveReadyTail
  <2>1. Planned("wss_ready_tail") /\ job["wss_ready_tail"] \in Jobs
    BY <1>41 DEF ProveReadyTail, Prove, Planned, NoJob, JobTypes, Stages
  <2>2. job["wss_ready_tail"].next..job["wss_ready_tail"].last \subseteq 1..head
    BY <2>1, BoundsAssumption DEF JobTypes, Jobs, Stages, Blocks
  <2> QED
    BY <1>41, <2>2 DEF ProveReadyTail, Prove
<1>42. CASE PromoteReadyTail
  <2>1. job["wss_ready_tail"].last \in Nat
    BY <1>42, BoundsAssumption DEF PromoteReadyTail, Whole, JobTypes, Stages, Blocks
  <2>2. ses.hlive \in Nat
    BY DEF UnitTypes, Sessions
  <2>3. gaps' \in Seq(GapRows) /\ \A i \in DOMAIN gaps' : gaps'[i].from <= head
    BY <1>42, Closing DEF PromoteReadyTail
  <2> QED
    BY <1>42, <2>1, <2>2, <2>3 DEF PromoteReadyTail, Greatest
<1>43. CASE AcceptValidation
  BY <1>43 DEF AcceptValidation
<1>44. CASE CompleteSoak
  BY <1>44 DEF CompleteSoak
<1>45. CASE RollbackIntent
  BY <1>45 DEF RollbackIntent
<1>46. CASE UNCHANGED vars
  BY <1>46 DEF vars
<1> QED
  BY <1>1, <1>2, <1>3, <1>4, <1>5, <1>6, <1>7, <1>8, <1>9, <1>10, <1>11, <1>12, <1>13, <1>14, <1>15,
     <1>16, <1>17, <1>18, <1>19, <1>20, <1>21, <1>22, <1>23, <1>24, <1>25, <1>26, <1>27, <1>28, <1>29,
     <1>30, <1>31, <1>32, <1>33, <1>34, <1>35, <1>36, <1>37, <1>38, <1>39, <1>40, <1>41, <1>42, <1>43,
     <1>44, <1>45, <1>46 DEF Next, Worker, Fault, Operator

\* A stage that is planned ends in a block that was mined.
LEMMA JobStep ==
    ASSUME Types, [Next]_vars
    PROVE  JobTypes'
<1> USE DEF chain, unit, memory, ledger, Types, JobTypes, Planned
<1>1. CASE Mine
  BY <1>1, BoundsAssumption DEF Mine, Blocks, StoreTypes, Jobs, Planned, UnitTypes, Sessions
<1>2. CASE Launch
  BY <1>2 DEF Launch
<1>3. CASE StartWorker
  <2>1. ses'.hlive = ses.hlive
    BY <1>3 DEF StartWorker, UnitTypes, Sessions
  <2> QED
    BY <1>3, <2>1 DEF StartWorker
<1>4. CASE ConnectWorker
  <2>1. ses'.hlive = ses.hlive
    BY <1>4 DEF ConnectWorker, UnitTypes, Sessions
  <2> QED
    BY <1>4, <2>1 DEF ConnectWorker
<1>5. CASE TickFailed
  BY <1>5 DEF TickFailed
<1>6. CASE Tick
  <2>1. ses'.hlive = ses.hlive
    BY <1>6 DEF Tick, NoHandoff, BeginValidation, SpoilHandoff, AwaitReadyTail, UnitTypes, Sessions
  <2> QED
    BY <1>6, <2>1 DEF Tick
<1>7. CASE SkipRecovery
  BY <1>7 DEF SkipRecovery
<1>8. CASE Recover
  BY <1>8 DEF Recover
<1>9. CASE BootstrapOther
  BY <1>9 DEF BootstrapOther
<1>10. CASE ProveSwitch
  BY <1>10 DEF ProveSwitch
<1>11. CASE RecordRollback
  <2>1. ses'.hlive = ses.hlive
    BY <1>11 DEF RecordRollback, UnitTypes, Sessions
  <2> QED
    BY <1>11, <2>1 DEF RecordRollback
<1>12. CASE RollbackRefused
  BY <1>12 DEF RollbackRefused
<1>13. CASE Finish
  BY <1>13 DEF Finish
<1>14. CASE LoseConnection
  <2>1. ses'.hlive = ses.hlive
    BY <1>14 DEF LoseConnection, UnitTypes, Sessions
  <2> QED
    BY <1>14, <2>1 DEF LoseConnection
<1>15. CASE Crash
  <2>1. ses'.hlive = ses.hlive
    BY <1>15 DEF Crash, UnitTypes, Sessions
  <2> QED
    BY <1>15, <2>1 DEF Crash
<1>16. CASE RecoveryFails
  BY <1>16 DEF RecoveryFails
<1>17. CASE RecoveryDeferred
  BY <1>17 DEF RecoveryDeferred
<1>18. CASE BreakOff
  BY <1>18 DEF BreakOff
<1>19. CASE Prefetch
  <2>1. ses'.hlive = ses.hlive
    BY <1>19 DEF Prefetch, UnitTypes, Sessions
  <2> QED
    BY <1>19, <2>1 DEF Prefetch
<1>20. CASE StartHistorical
  <2> DEFINE j == job'["historical"]
  <2>0. PICK h \in Heads : job' = [job EXCEPT !["historical"] =
                                   IF Planned("historical") THEN [@ EXCEPT !.last = h]
                                   ELSE NewJob(HistoricalStart, h)]
    BY <1>20 DEF StartHistorical
  <2>1. h \in Nat /\ h <= head /\ head \in Nat
    BY HeadType
  <2>2. j \in Jobs /\ j.next # 0 /\ j.last \in 0..head
    <3>1. CASE ~Planned("historical")
      <4>1. j = NewJob(HistoricalStart, h)
        BY <2>0, <3>1 DEF Stages
      <4> QED
        BY <2>1, <4>1, HistoricalFrom DEF NewJob, Jobs
    <3>2. CASE Planned("historical")
      <4>1. j = [job["historical"] EXCEPT !.last = h] /\ job["historical"] \in Jobs
        BY <2>0, <3>2 DEF Stages
      <4> QED
        BY <2>1, <3>2, <4>1 DEF Jobs, Stages
    <3> QED
      BY <3>1, <3>2
  <2>3. \A s \in Stages : s # "historical" => job'[s] = job[s]
    BY <1>20 DEF StartHistorical
  <2>4. job' \in [Stages -> Jobs]
    BY <1>20, <2>2, <2>3 DEF StartHistorical, Stages
  <2> QED
    BY <1>20, <2>2, <2>3, <2>4 DEF StartHistorical, Planned
<1>21. CASE ProveHistorical
  <2> DEFINE j == [job["historical"] EXCEPT !.next = job["historical"].last + 1]
  <2>1. Planned("historical") /\ job["historical"] \in Jobs
    BY <1>21 DEF ProveHistorical, Prove, Planned, NoJob, Stages
  <2>2. j \in Jobs /\ j.next # 0 /\ j.last \in 0..head
    BY <2>1 DEF Jobs, Stages
  <2>3. job' = [job EXCEPT !["historical"] = j]
    BY <1>21 DEF ProveHistorical, Prove
  <2> QED
    BY <1>21, <2>2, <2>3 DEF ProveHistorical, Prove, Stages, Planned
<1>22. CASE FinishPrefetch
  <2>1. ses'.hlive = ses.hlive
    BY <1>22 DEF FinishPrefetch, UnitTypes, Sessions
  <2> QED
    BY <1>22, <2>1 DEF FinishPrefetch
<1>23. CASE Preflight
  <2>1. ses'.hlive = ses.hlive
    BY <1>23 DEF Preflight, UnitTypes, Sessions
  <2> QED
    BY <1>23, <2>1 DEF Preflight
<1>24. CASE AuthorizeStop
  <2>1. ses'.hlive = ses.hlive
    BY <1>24 DEF AuthorizeStop, UnitTypes, Sessions
  <2> QED
    BY <1>24, <2>1 DEF AuthorizeStop
<1>25. CASE AbortPreStop
  <2>1. ses'.hlive = ses.hlive
    BY <1>25 DEF AbortPreStop, UnitTypes, Sessions
  <2> QED
    BY <1>25, <2>1 DEF AbortPreStop
<1>26. CASE IssueStop
  <2>1. ses'.hlive = ses.hlive
    BY <1>26 DEF IssueStop, UnitTypes, Sessions
  <2> QED
    BY <1>26, <2>1 DEF IssueStop
<1>27. CASE StopSource
  <2>1. ses'.hlive = ses.hlive
    BY <1>27 DEF StopSource, UnitTypes, Sessions
  <2> QED
    BY <1>27, <2>1 DEF StopSource
<1>28. CASE MarkSourceStopped
  <2>1. ses'.hlive = ses.hlive
    BY <1>28 DEF MarkSourceStopped, UnitTypes, Sessions
  <2> QED
    BY <1>28, <2>1 DEF MarkSourceStopped
<1>29. CASE StopTail
  <2>1. CASE Planned("stop_tail")
    BY <1>29, <2>1 DEF StopTail
  <2>2. CASE ~Planned("stop_tail")
    <3>0. PICK h \in Heads : job' = [job EXCEPT !["stop_tail"] = NewJob(StopTailFrom, h)]
      BY <1>29, <2>2 DEF StopTail
    <3> DEFINE j == NewJob(StopTailFrom, h)
    <3>1. j \in Jobs /\ j.next # 0 /\ j.last \in 0..head
      BY HeadType DEF NewJob, Jobs, StopTailFrom, UnitTypes, Sessions
    <3>2. job' = [job EXCEPT !["stop_tail"] = j]
      BY <3>0
    <3> QED
      BY <1>29, <3>1, <3>2 DEF StopTail, Stages, Planned
  <2> QED
    BY <2>1, <2>2
<1>30. CASE ProveStopTail
  <2> DEFINE j == [job["stop_tail"] EXCEPT !.next = job["stop_tail"].last + 1]
  <2>1. Planned("stop_tail") /\ job["stop_tail"] \in Jobs
    BY <1>30 DEF ProveStopTail, Prove, Planned, NoJob, Stages
  <2>2. j \in Jobs /\ j.next # 0 /\ j.last \in 0..head
    BY <2>1 DEF Jobs, Stages
  <2>3. job' = [job EXCEPT !["stop_tail"] = j]
    BY <1>30 DEF ProveStopTail, Prove
  <2> QED
    BY <1>30, <2>2, <2>3 DEF ProveStopTail, Prove, Stages, Planned
<1>31. CASE PromoteStopTail
  BY <1>31 DEF PromoteStopTail
<1>32. CASE VerifyStopTail
  <2>1. ses'.hlive = ses.hlive
    BY <1>32 DEF VerifyStopTail, UnitTypes, Sessions
  <2> QED
    BY <1>32, <2>1 DEF VerifyStopTail
<1>33. CASE EnableSplit
  BY <1>33 DEF EnableSplit
<1>34. CASE MarkSplitConfigured
  <2>1. ses'.hlive = ses.hlive
    BY <1>34 DEF MarkSplitConfigured, UnitTypes, Sessions
  <2> QED
    BY <1>34, <2>1 DEF MarkSplitConfigured
<1>35. CASE DisableSplit
  BY <1>35 DEF DisableSplit
<1>36. CASE StartUnit
  BY <1>36 DEF StartUnit
<1>37. CASE StopUnit
  <2>1. ses'.hlive = ses.hlive
    BY <1>37 DEF StopUnit, UnitTypes, Sessions
  <2> QED
    BY <1>37, <2>1 DEF StopUnit
<1>38. CASE ReadyTail
  BY <1>38 DEF ReadyTail
<1>39. CASE PinLive
  <2>1. ses'.hlive <= head
    BY <1>39, HeadType DEF PinLive, UnitTypes, Sessions
  <2> QED
    BY <1>39, <2>1 DEF PinLive, Planned
<1>40. CASE PlanReadyTail
  <2> DEFINE j == NewJob(ses.hstop + 1, ses.hlive)
  <2>1. j \in Jobs /\ j.next # 0 /\ j.last \in 0..head
    BY BoundsAssumption DEF NewJob, Jobs, StoreTypes, Blocks, UnitTypes, Sessions
  <2>2. job' = [job EXCEPT !["wss_ready_tail"] = j]
    BY <1>40 DEF PlanReadyTail
  <2> QED
    BY <1>40, <2>1, <2>2 DEF PlanReadyTail, Stages, Planned
<1>41. CASE ProveReadyTail
  <2> DEFINE j == [job["wss_ready_tail"] EXCEPT !.next = job["wss_ready_tail"].last + 1]
  <2>1. Planned("wss_ready_tail") /\ job["wss_ready_tail"] \in Jobs
    BY <1>41 DEF ProveReadyTail, Prove, Planned, NoJob, Stages
  <2>2. j \in Jobs /\ j.next # 0 /\ j.last \in 0..head
    BY <2>1 DEF Jobs, Stages
  <2>3. job' = [job EXCEPT !["wss_ready_tail"] = j]
    BY <1>41 DEF ProveReadyTail, Prove
  <2> QED
    BY <1>41, <2>2, <2>3 DEF ProveReadyTail, Prove, Stages, Planned
<1>42. CASE PromoteReadyTail
  <2>1. ses'.hlive = ses.hlive
    BY <1>42 DEF PromoteReadyTail, UnitTypes, Sessions
  <2> QED
    BY <1>42, <2>1 DEF PromoteReadyTail
<1>43. CASE AcceptValidation
  <2>1. ses'.hlive = ses.hlive
    BY <1>43 DEF AcceptValidation, UnitTypes, Sessions
  <2> QED
    BY <1>43, <2>1 DEF AcceptValidation
<1>44. CASE CompleteSoak
  <2>1. ses'.hlive = ses.hlive
    BY <1>44 DEF CompleteSoak, UnitTypes, Sessions
  <2> QED
    BY <1>44, <2>1 DEF CompleteSoak
<1>45. CASE RollbackIntent
  <2>1. ses'.hlive = ses.hlive
    BY <1>45 DEF RollbackIntent, UnitTypes, Sessions
  <2> QED
    BY <1>45, <2>1 DEF RollbackIntent
<1>46. CASE UNCHANGED vars
  BY <1>46 DEF vars, Planned
<1> QED
  BY <1>1, <1>2, <1>3, <1>4, <1>5, <1>6, <1>7, <1>8, <1>9, <1>10, <1>11, <1>12, <1>13, <1>14, <1>15,
     <1>16, <1>17, <1>18, <1>19, <1>20, <1>21, <1>22, <1>23, <1>24, <1>25, <1>26, <1>27, <1>28, <1>29,
     <1>30, <1>31, <1>32, <1>33, <1>34, <1>35, <1>36, <1>37, <1>38, <1>39, <1>40, <1>41, <1>42, <1>43,
     <1>44, <1>45, <1>46 DEF Next, Worker, Fault, Operator

\* A command under way keeps the unit where it found it, a crash goes by the file.
LEMMA ControlStep ==
    ASSUME Types, Control, [Next]_vars
    PROVE  Control'
<1> USE DEF chain, unit, memory, ledger, Types, UnitTypes, Posts, Points, Control, Split, Running,
   Idle, NoOp, LegacyUp
<1>1. CASE Mine
  BY <1>1 DEF Mine
<1>2. CASE Launch
  BY <1>2 DEF Launch
<1>3. CASE StartWorker
  BY <1>3 DEF StartWorker
<1>4. CASE ConnectWorker
  BY <1>4 DEF ConnectWorker
<1>5. CASE TickFailed
  BY <1>5 DEF TickFailed
<1>6. CASE Tick
  BY <1>6 DEF Tick, NoHandoff, BeginValidation, SpoilHandoff, AwaitReadyTail
<1>7. CASE SkipRecovery
  BY <1>7 DEF SkipRecovery
<1>8. CASE Recover
  BY <1>8 DEF Recover, Recovering
<1>9. CASE BootstrapOther
  BY <1>9 DEF BootstrapOther
<1>10. CASE ProveSwitch
  BY <1>10 DEF ProveSwitch
<1>11. CASE RecordRollback
  BY <1>11 DEF RecordRollback, RollbackDue
<1>12. CASE RollbackRefused
  BY <1>12 DEF RollbackRefused, RollbackDue
<1>13. CASE Finish
  BY <1>13 DEF Finish
<1>14. CASE LoseConnection
  BY <1>14 DEF LoseConnection
<1>15. CASE Crash
  BY <1>15 DEF Crash
<1>16. CASE RecoveryFails
  BY <1>16 DEF RecoveryFails, Recovering
<1>17. CASE RecoveryDeferred
  BY <1>17 DEF RecoveryDeferred, Recovering
<1>18. CASE BreakOff
  BY <1>18 DEF BreakOff
<1>19. CASE Prefetch
  BY <1>19 DEF Prefetch, Command, LegacyHealthy
<1>20. CASE StartHistorical
  BY <1>20 DEF StartHistorical
<1>21. CASE ProveHistorical
  BY <1>21 DEF ProveHistorical, Prove
<1>22. CASE FinishPrefetch
  BY <1>22 DEF FinishPrefetch
<1>23. CASE Preflight
  BY <1>23 DEF Preflight
<1>24. CASE AuthorizeStop
  BY <1>24 DEF AuthorizeStop
<1>25. CASE AbortPreStop
  BY <1>25 DEF AbortPreStop
<1>26. CASE IssueStop
  BY <1>26 DEF IssueStop, Command, LegacyHealthy
<1>27. CASE StopSource
  BY <1>27 DEF StopSource
<1>28. CASE MarkSourceStopped
  BY <1>28 DEF MarkSourceStopped
<1>29. CASE StopTail
  BY <1>29 DEF StopTail, Command, LegacyHealthy
<1>30. CASE ProveStopTail
  BY <1>30 DEF ProveStopTail, Prove
<1>31. CASE PromoteStopTail
  BY <1>31 DEF PromoteStopTail
<1>32. CASE VerifyStopTail
  BY <1>32 DEF VerifyStopTail
<1>33. CASE EnableSplit
  BY <1>33 DEF EnableSplit, Command, LegacyHealthy
<1>34. CASE MarkSplitConfigured
  BY <1>34 DEF MarkSplitConfigured
<1>35. CASE DisableSplit
  BY <1>35 DEF DisableSplit
<1>36. CASE StartUnit
  BY <1>36 DEF StartUnit
<1>37. CASE StopUnit
  BY <1>37 DEF StopUnit
<1>38. CASE ReadyTail
  BY <1>38 DEF ReadyTail, Command, LegacyHealthy
<1>39. CASE PinLive
  BY <1>39 DEF PinLive
<1>40. CASE PlanReadyTail
  BY <1>40 DEF PlanReadyTail
<1>41. CASE ProveReadyTail
  BY <1>41 DEF ProveReadyTail, Prove
<1>42. CASE PromoteReadyTail
  BY <1>42 DEF PromoteReadyTail
<1>43. CASE AcceptValidation
  BY <1>43 DEF AcceptValidation
<1>44. CASE CompleteSoak
  BY <1>44 DEF CompleteSoak
<1>45. CASE RollbackIntent
  BY <1>45 DEF RollbackIntent
<1>46. CASE UNCHANGED vars
  BY <1>46 DEF vars
<1> QED
  BY <1>1, <1>2, <1>3, <1>4, <1>5, <1>6, <1>7, <1>8, <1>9, <1>10, <1>11, <1>12, <1>13, <1>14, <1>15,
     <1>16, <1>17, <1>18, <1>19, <1>20, <1>21, <1>22, <1>23, <1>24, <1>25, <1>26, <1>27, <1>28, <1>29,
     <1>30, <1>31, <1>32, <1>33, <1>34, <1>35, <1>36, <1>37, <1>38, <1>39, <1>40, <1>41, <1>42, <1>43,
     <1>44, <1>45, <1>46 DEF Next, Worker, Fault, Operator

\* Nothing that is stored or left out is forgotten, and blocks stay mined.
LEMMA Grows ==
    ASSUME Types, [Next]_vars
    PROVE  stored \subseteq stored' /\ blind \subseteq blind' /\ head <= head' /\ head \in Nat
<1> USE BoundsAssumption DEF chain, unit, memory, ledger, Types, StoreTypes, Blocks
<1>1. CASE Mine
  BY <1>1 DEF Mine
<1>2. CASE Launch
  BY <1>2 DEF Launch
<1>3. CASE StartWorker
  BY <1>3 DEF StartWorker
<1>4. CASE ConnectWorker
  BY <1>4 DEF ConnectWorker
<1>5. CASE TickFailed
  BY <1>5 DEF TickFailed
<1>6. CASE Tick
  BY <1>6 DEF Tick
<1>7. CASE SkipRecovery
  BY <1>7 DEF SkipRecovery
<1>8. CASE Recover
  BY <1>8 DEF Recover
<1>9. CASE BootstrapOther
  BY <1>9 DEF BootstrapOther
<1>10. CASE ProveSwitch
  BY <1>10 DEF ProveSwitch
<1>11. CASE RecordRollback
  BY <1>11 DEF RecordRollback
<1>12. CASE RollbackRefused
  BY <1>12 DEF RollbackRefused
<1>13. CASE Finish
  BY <1>13 DEF Finish
<1>14. CASE LoseConnection
  BY <1>14 DEF LoseConnection
<1>15. CASE Crash
  BY <1>15 DEF Crash
<1>16. CASE RecoveryFails
  BY <1>16 DEF RecoveryFails
<1>17. CASE RecoveryDeferred
  BY <1>17 DEF RecoveryDeferred
<1>18. CASE BreakOff
  BY <1>18 DEF BreakOff
<1>19. CASE Prefetch
  BY <1>19 DEF Prefetch
<1>20. CASE StartHistorical
  BY <1>20 DEF StartHistorical
<1>21. CASE ProveHistorical
  BY <1>21 DEF ProveHistorical, Prove
<1>22. CASE FinishPrefetch
  BY <1>22 DEF FinishPrefetch
<1>23. CASE Preflight
  BY <1>23 DEF Preflight
<1>24. CASE AuthorizeStop
  BY <1>24 DEF AuthorizeStop
<1>25. CASE AbortPreStop
  BY <1>25 DEF AbortPreStop
<1>26. CASE IssueStop
  BY <1>26 DEF IssueStop
<1>27. CASE StopSource
  BY <1>27 DEF StopSource
<1>28. CASE MarkSourceStopped
  BY <1>28 DEF MarkSourceStopped
<1>29. CASE StopTail
  BY <1>29 DEF StopTail
<1>30. CASE ProveStopTail
  BY <1>30 DEF ProveStopTail, Prove
<1>31. CASE PromoteStopTail
  BY <1>31 DEF PromoteStopTail
<1>32. CASE VerifyStopTail
  BY <1>32 DEF VerifyStopTail
<1>33. CASE EnableSplit
  BY <1>33 DEF EnableSplit
<1>34. CASE MarkSplitConfigured
  BY <1>34 DEF MarkSplitConfigured
<1>35. CASE DisableSplit
  BY <1>35 DEF DisableSplit
<1>36. CASE StartUnit
  BY <1>36 DEF StartUnit
<1>37. CASE StopUnit
  BY <1>37 DEF StopUnit
<1>38. CASE ReadyTail
  BY <1>38 DEF ReadyTail
<1>39. CASE PinLive
  BY <1>39 DEF PinLive
<1>40. CASE PlanReadyTail
  BY <1>40 DEF PlanReadyTail
<1>41. CASE ProveReadyTail
  BY <1>41 DEF ProveReadyTail, Prove
<1>42. CASE PromoteReadyTail
  BY <1>42 DEF PromoteReadyTail
<1>43. CASE AcceptValidation
  BY <1>43 DEF AcceptValidation
<1>44. CASE CompleteSoak
  BY <1>44 DEF CompleteSoak
<1>45. CASE RollbackIntent
  BY <1>45 DEF RollbackIntent
<1>46. CASE UNCHANGED vars
  BY <1>46 DEF vars
<1> QED
  BY <1>1, <1>2, <1>3, <1>4, <1>5, <1>6, <1>7, <1>8, <1>9, <1>10, <1>11, <1>12, <1>13, <1>14, <1>15,
     <1>16, <1>17, <1>18, <1>19, <1>20, <1>21, <1>22, <1>23, <1>24, <1>25, <1>26, <1>27, <1>28, <1>29,
     <1>30, <1>31, <1>32, <1>33, <1>34, <1>35, <1>36, <1>37, <1>38, <1>39, <1>40, <1>41, <1>42, <1>43,
     <1>44, <1>45, <1>46 DEF Next, Worker, Fault, Operator

\* Proved only reads the store, the cursor, the stages and these fields of the session.
LEMMA ProvedKept ==
    ASSUME Proved, stored \subseteq stored', UNCHANGED <<cursor, job>>,
           ses'.hpre = ses.hpre, ses'.hstop = ses.hstop, ses'.hlive = ses.hlive,
           ses'.state \in Verified => ses.state \in Verified
    PROVE  Proved'
  BY DEF Proved, Below, Planned

\* The stages touch, from the cursor the session began with to the head it pinned.
LEMMA ProvedStep ==
    ASSUME Types, Proved, [Next]_vars
    PROVE  Proved'
<1>0. stored \subseteq stored'
  BY Grows
<1> USE DEF chain, unit, memory, ledger, Types
<1>1. CASE Mine
  BY <1>1, <1>0, ProvedKept DEF Mine
<1>2. CASE Launch
  BY <1>2, <1>0, ProvedKept DEF Launch
<1>3. CASE StartWorker
  <2>1. /\ ses'.hpre = ses.hpre /\ ses'.hstop = ses.hstop /\ ses'.hlive = ses.hlive
        /\ ses'.state \in Verified => ses.state \in Verified
    BY <1>3 DEF StartWorker, InHandoff, UnitTypes, Sessions, Verified, PreStop, Pending, Watched,
       Terminal
  <2> QED
    BY <1>3, <1>0, <2>1, ProvedKept DEF StartWorker
<1>4. CASE ConnectWorker
  <2>1. /\ ses'.hpre = ses.hpre /\ ses'.hstop = ses.hstop /\ ses'.hlive = ses.hlive
        /\ ses'.state \in Verified => ses.state \in Verified
    BY <1>4 DEF ConnectWorker, UnitTypes, Sessions, Verified, PreStop, Pending, Watched, Terminal
  <2> QED
    BY <1>4, <1>0, <2>1, ProvedKept DEF ConnectWorker
<1>5. CASE TickFailed
  BY <1>5, <1>0, ProvedKept DEF TickFailed
<1>6. CASE Tick
  <2>1. /\ ses'.hpre = ses.hpre /\ ses'.hstop = ses.hstop /\ ses'.hlive = ses.hlive
        /\ ses'.state \in Verified => ses.state \in Verified
    BY <1>6 DEF Tick, NoHandoff, BeginValidation, SpoilHandoff, AwaitReadyTail, InHandoff, UnitTypes,
       Sessions, Verified, PreStop, Pending, Watched, Terminal
  <2> QED
    BY <1>6, <1>0, <2>1, ProvedKept DEF Tick
<1>7. CASE SkipRecovery
  BY <1>7, <1>0, ProvedKept DEF SkipRecovery
<1>8. CASE Recover
  <2>1. PICK h \in Heads :
            /\ stored' = stored \cup (Greatest(1, cursor - Overlap)..h)
            /\ blind' = blind \cup Left(h) /\ head' = head
            /\ cursor' = h
    BY <1>8 DEF Recover
  <2>2. 1..h \subseteq stored' /\ 1..cursor \subseteq stored'
    BY <2>1, ReadingJoins
  <2>3. Below(cursor)'
    BY <2>1, <2>2 DEF Below, Greatest
  <2> QED
    BY <1>8, <1>0, <2>3 DEF Recover, Proved, Below, Planned
<1>9. CASE BootstrapOther
  BY <1>9, <1>0, ProvedKept DEF BootstrapOther
<1>10. CASE ProveSwitch
  <2>1. PICK h \in Heads :
            /\ stored' = stored \cup (Greatest(1, cursor - Overlap)..h)
            /\ blind' = blind \cup Left(h) /\ head' = head
            /\ cursor' = Greatest(cursor, h)
    BY <1>10 DEF ProveSwitch
  <2>2. 1..h \subseteq stored' /\ 1..cursor \subseteq stored'
    BY <2>1, ReadingJoins
  <2>3. Below(cursor)'
    BY <2>1, <2>2 DEF Below, Greatest
  <2> QED
    BY <1>10, <1>0, <2>3 DEF ProveSwitch, Proved, Below, Planned
<1>11. CASE RecordRollback
  <2>1. /\ ses'.hpre = ses.hpre /\ ses'.hstop = ses.hstop /\ ses'.hlive = ses.hlive
        /\ ses'.state \in Verified => ses.state \in Verified
    BY <1>11 DEF RecordRollback, UnitTypes, Sessions, Verified, PreStop, Pending, Watched, Terminal
  <2> QED
    BY <1>11, <1>0, <2>1, ProvedKept DEF RecordRollback
<1>12. CASE RollbackRefused
  BY <1>12, <1>0, ProvedKept DEF RollbackRefused
<1>13. CASE Finish
  BY <1>13, <1>0, ProvedKept DEF Finish
<1>14. CASE LoseConnection
  <2>1. /\ ses'.hpre = ses.hpre /\ ses'.hstop = ses.hstop /\ ses'.hlive = ses.hlive
        /\ ses'.state \in Verified => ses.state \in Verified
    BY <1>14 DEF LoseConnection, InHandoff, UnitTypes, Sessions, Verified, PreStop, Pending, Watched,
       Terminal
  <2> QED
    BY <1>14, <1>0, <2>1, ProvedKept DEF LoseConnection
<1>15. CASE Crash
  <2>1. /\ ses'.hpre = ses.hpre /\ ses'.hstop = ses.hstop /\ ses'.hlive = ses.hlive
        /\ ses'.state \in Verified => ses.state \in Verified
    BY <1>15 DEF Crash, UnitTypes, Sessions, Verified, PreStop, Pending, Watched, Terminal
  <2> QED
    BY <1>15, <1>0, <2>1, ProvedKept DEF Crash
<1>16. CASE RecoveryFails
  BY <1>16, <1>0, ProvedKept DEF RecoveryFails
<1>17. CASE RecoveryDeferred
  BY <1>17, <1>0, ProvedKept DEF RecoveryDeferred
<1>18. CASE BreakOff
  BY <1>18, <1>0, ProvedKept DEF BreakOff
<1>19. CASE Prefetch
  <2>1. /\ ses'.hpre = ses.hpre /\ ses'.hstop = ses.hstop /\ ses'.hlive = ses.hlive
        /\ ses'.state \in Verified => ses.state \in Verified
    BY <1>19 DEF Prefetch, UnitTypes, Sessions, Verified, PreStop, Pending, Watched, Terminal
  <2> QED
    BY <1>19, <1>0, <2>1, ProvedKept DEF Prefetch
<1>20. CASE StartHistorical
  <2>1. Below(job'["historical"].next - 1)
    <3>1. CASE ~Planned("historical")
      <4>1. job'["historical"].next = HistoricalStart
        BY <1>20, <3>1 DEF StartHistorical, JobTypes, Stages, NewJob
      <4>2. HistoricalStart - 1 <= cursor
        BY HistoricalFrom, BoundsAssumption DEF Greatest, StoreTypes
      <4> QED
        BY <4>1, <4>2, HistoricalFrom DEF Proved, Below, StoreTypes
    <3>2. CASE Planned("historical")
      <4>1. job'["historical"].next = job["historical"].next
        BY <1>20, <3>2 DEF StartHistorical, JobTypes, Stages, Jobs
      <4> QED
        BY <4>1 DEF Proved, Stages
    <3> QED
      BY <3>1, <3>2
  <2>2. \A s \in Stages : s # "historical" => job'[s] = job[s]
    BY <1>20 DEF StartHistorical, JobTypes
  <2> QED
    BY <1>20, <1>0, <2>1, <2>2 DEF StartHistorical, Proved, Below, Planned, Stages
<1>21. CASE ProveHistorical
  <2> DEFINE j == job["historical"]
  <2>1. j.next \in Nat /\ j.last \in Int /\ Below(j.next - 1)
    BY DEF JobTypes, Jobs, Stages, Proved
  <2>2. /\ stored' = stored \cup (j.next..j.last) /\ job'["historical"].next = j.last + 1
        /\ job'["historical"].last = j.last
    BY <1>21 DEF ProveHistorical, Prove, JobTypes, Stages, Jobs
  <2>3. 1..(job'["historical"].next - 1) \subseteq stored'
    <3>1. \A b \in 1..j.last : b \in 1..(j.next - 1) \/ b \in j.next..j.last
      BY <2>1
    <3> QED
      BY <2>1, <2>2, <3>1 DEF Below
  <2>4. \A s \in Stages : s # "historical" => job'[s] = job[s]
    BY <1>21 DEF ProveHistorical, Prove, JobTypes
  <2>5. Planned("historical")
    BY <1>21 DEF ProveHistorical, Prove, Planned, NoJob, JobTypes, Jobs, Stages
  <2> QED
    BY <1>21, <1>0, <2>2, <2>3, <2>4, <2>5 DEF ProveHistorical, Prove, Proved, Below, Planned, Stages
<1>22. CASE FinishPrefetch
  <2>1. Below(job["historical"].last)
    BY <1>22 DEF FinishPrefetch, Whole, Proved, Below, JobTypes, Jobs, Stages
  <2>2. /\ ses'.hpre = job["historical"].last /\ ses'.hstop = ses.hstop
        /\ ses'.hlive = ses.hlive /\ ses'.state \notin Verified
    BY <1>22 DEF FinishPrefetch, UnitTypes, Sessions, Verified
  <2> QED
    BY <1>22, <1>0, <2>1, <2>2 DEF FinishPrefetch, Proved, Below, Planned
<1>23. CASE Preflight
  <2>1. /\ ses'.hpre = ses.hpre /\ ses'.hstop = ses.hstop /\ ses'.hlive = ses.hlive
        /\ ses'.state \in Verified => ses.state \in Verified
    BY <1>23 DEF Preflight, UnitTypes, Sessions, Verified, PreStop, Pending, Watched, Terminal
  <2> QED
    BY <1>23, <1>0, <2>1, ProvedKept DEF Preflight
<1>24. CASE AuthorizeStop
  <2>1. /\ ses'.hpre = ses.hpre /\ ses'.hstop = ses.hstop /\ ses'.hlive = ses.hlive
        /\ ses'.state \in Verified => ses.state \in Verified
    BY <1>24 DEF AuthorizeStop, UnitTypes, Sessions, Verified, PreStop, Pending, Watched, Terminal
  <2> QED
    BY <1>24, <1>0, <2>1, ProvedKept DEF AuthorizeStop
<1>25. CASE AbortPreStop
  <2>1. /\ ses'.hpre = ses.hpre /\ ses'.hstop = ses.hstop /\ ses'.hlive = ses.hlive
        /\ ses'.state \in Verified => ses.state \in Verified
    BY <1>25 DEF AbortPreStop, UnitTypes, Sessions, Verified, PreStop, Pending, Watched, Terminal
  <2> QED
    BY <1>25, <1>0, <2>1, ProvedKept DEF AbortPreStop
<1>26. CASE IssueStop
  <2>1. /\ ses'.hpre = ses.hpre /\ ses'.hstop = ses.hstop /\ ses'.hlive = ses.hlive
        /\ ses'.state \in Verified => ses.state \in Verified
    BY <1>26 DEF IssueStop, UnitTypes, Sessions, Verified, PreStop, Pending, Watched, Terminal
  <2> QED
    BY <1>26, <1>0, <2>1, ProvedKept DEF IssueStop
<1>27. CASE StopSource
  <2>1. /\ ses'.hpre = ses.hpre /\ ses'.hstop = ses.hstop /\ ses'.hlive = ses.hlive
        /\ ses'.state \in Verified => ses.state \in Verified
    BY <1>27 DEF StopSource, UnitTypes, Sessions, Verified, PreStop, Pending, Watched, Terminal
  <2> QED
    BY <1>27, <1>0, <2>1, ProvedKept DEF StopSource
<1>28. CASE MarkSourceStopped
  <2>1. /\ ses'.hpre = ses.hpre /\ ses'.hstop = ses.hstop /\ ses'.hlive = ses.hlive
        /\ ses'.state \in Verified => ses.state \in Verified
    BY <1>28 DEF MarkSourceStopped, UnitTypes, Sessions, Verified, PreStop, Pending, Watched, Terminal
  <2> QED
    BY <1>28, <1>0, <2>1, ProvedKept DEF MarkSourceStopped
<1>29. CASE StopTail
  <2>1. CASE Planned("stop_tail")
    BY <1>29, <1>0, <2>1, ProvedKept DEF StopTail
  <2>2. CASE ~Planned("stop_tail")
    <3>1. job'["stop_tail"].next - 1 = ses.hpre /\ \A s \in Stages : s # "stop_tail" => job'[s] = job[s]
      BY <1>29, <2>2 DEF StopTail, NewJob, StopTailFrom, JobTypes, Stages, UnitTypes, Sessions
    <3> QED
      BY <1>29, <1>0, <3>1 DEF StopTail, Proved, Below, Planned, Stages
  <2> QED
    BY <2>1, <2>2
<1>30. CASE ProveStopTail
  <2> DEFINE j == job["stop_tail"]
  <2>1. j.next \in Nat /\ j.last \in Int /\ Below(j.next - 1)
    BY DEF JobTypes, Jobs, Stages, Proved
  <2>2. /\ stored' = stored \cup (j.next..j.last) /\ job'["stop_tail"].next = j.last + 1
        /\ job'["stop_tail"].last = j.last
    BY <1>30 DEF ProveStopTail, Prove, JobTypes, Stages, Jobs
  <2>3. 1..(job'["stop_tail"].next - 1) \subseteq stored'
    <3>1. \A b \in 1..j.last : b \in 1..(j.next - 1) \/ b \in j.next..j.last
      BY <2>1
    <3> QED
      BY <2>1, <2>2, <3>1 DEF Below
  <2>4. \A s \in Stages : s # "stop_tail" => job'[s] = job[s]
    BY <1>30 DEF ProveStopTail, Prove, JobTypes
  <2>5. Planned("stop_tail")
    BY <1>30 DEF ProveStopTail, Prove, Planned, NoJob, JobTypes, Jobs, Stages
  <2> QED
    BY <1>30, <1>0, <2>2, <2>3, <2>4, <2>5 DEF ProveStopTail, Prove, Proved, Below, Planned, Stages
<1>31. CASE PromoteStopTail
  <2>1. PICK s \in {"historical", "stop_tail"} : Whole(s) /\ cursor' = job[s].last
    BY <1>31 DEF PromoteStopTail
  <2>2. Below(cursor')
    BY <2>1 DEF Whole, Proved, Below, JobTypes, Jobs, Stages
  <2> QED
    BY <1>31, <1>0, <2>2 DEF PromoteStopTail, Proved, Below, Planned
<1>32. CASE VerifyStopTail
  <2>1. Below(job["stop_tail"].last)
    BY <1>32 DEF VerifyStopTail, Whole, Proved, Below, JobTypes, Jobs, Stages
  <2>2. /\ ses'.hpre = ses.hpre /\ ses'.hstop = job["stop_tail"].last /\ ses'.hlive = ses.hlive
        /\ ses'.state \notin Verified
    BY <1>32 DEF VerifyStopTail, UnitTypes, Sessions, Verified
  <2> QED
    BY <1>32, <1>0, <2>1, <2>2 DEF VerifyStopTail, Proved, Below, Planned
<1>33. CASE EnableSplit
  BY <1>33, <1>0, ProvedKept DEF EnableSplit
<1>34. CASE MarkSplitConfigured
  <2>1. /\ ses'.hpre = ses.hpre /\ ses'.hstop = ses.hstop /\ ses'.hlive = ses.hlive
        /\ ses'.state \in Verified => ses.state \in Verified
    BY <1>34 DEF MarkSplitConfigured, UnitTypes, Sessions, Verified, PreStop, Pending, Watched, Terminal
  <2> QED
    BY <1>34, <1>0, <2>1, ProvedKept DEF MarkSplitConfigured
<1>35. CASE DisableSplit
  BY <1>35, <1>0, ProvedKept DEF DisableSplit
<1>36. CASE StartUnit
  BY <1>36, <1>0, ProvedKept DEF StartUnit
<1>37. CASE StopUnit
  <2>1. /\ ses'.hpre = ses.hpre /\ ses'.hstop = ses.hstop /\ ses'.hlive = ses.hlive
        /\ ses'.state \in Verified => ses.state \in Verified
    BY <1>37 DEF StopUnit, UnitTypes, Sessions, Verified, PreStop, Pending, Watched, Terminal
  <2> QED
    BY <1>37, <1>0, <2>1, ProvedKept DEF StopUnit
<1>38. CASE ReadyTail
  BY <1>38, <1>0, ProvedKept DEF ReadyTail
<1>39. CASE PinLive
  <2>1. ses'.hpre = ses.hpre /\ ses'.hstop = ses.hstop /\ ses'.state \notin Verified
    BY <1>39 DEF PinLive, UnitTypes, Sessions, Verified
  <2>2. ~Planned("wss_ready_tail")
    BY <1>39 DEF PinLive, PinsOnce, Proved
  <2> QED
    BY <1>39, <1>0, <2>1, <2>2 DEF PinLive, Proved, Below, Planned
<1>40. CASE PlanReadyTail
  <2>1. /\ job'["wss_ready_tail"].next - 1 = ses.hstop /\ job'["wss_ready_tail"].last = ses.hlive
        /\ \A s \in Stages : s # "wss_ready_tail" => job'[s] = job[s]
    BY <1>40 DEF PlanReadyTail, NewJob, JobTypes, Stages, UnitTypes, Sessions
  <2> QED
    BY <1>40, <1>0, <2>1 DEF PlanReadyTail, Proved, Below, Planned, Stages
<1>41. CASE ProveReadyTail
  <2> DEFINE j == job["wss_ready_tail"]
  <2>1. j.next \in Nat /\ j.last \in Int /\ Below(j.next - 1)
    BY DEF JobTypes, Jobs, Stages, Proved
  <2>2. /\ stored' = stored \cup (j.next..j.last) /\ job'["wss_ready_tail"].next = j.last + 1
        /\ job'["wss_ready_tail"].last = j.last
    BY <1>41 DEF ProveReadyTail, Prove, JobTypes, Stages, Jobs
  <2>3. 1..(job'["wss_ready_tail"].next - 1) \subseteq stored'
    <3>1. \A b \in 1..j.last : b \in 1..(j.next - 1) \/ b \in j.next..j.last
      BY <2>1
    <3> QED
      BY <2>1, <2>2, <3>1 DEF Below
  <2>4. \A s \in Stages : s # "wss_ready_tail" => job'[s] = job[s]
    BY <1>41 DEF ProveReadyTail, Prove, JobTypes
  <2>5. Planned("wss_ready_tail")
    BY <1>41 DEF ProveReadyTail, Prove, Planned, NoJob, JobTypes, Jobs, Stages
  <2> QED
    BY <1>41, <1>0, <2>2, <2>3, <2>4, <2>5 DEF ProveReadyTail, Prove, Proved, Below, Planned, Stages
<1>42. CASE PromoteReadyTail
  <2>1. Below(job["wss_ready_tail"].last)
    BY <1>42 DEF PromoteReadyTail, Whole, Proved, Below, JobTypes, Jobs, Stages
  <2>2. job["wss_ready_tail"].last = ses.hlive /\ ses.hlive # 0
    BY <1>42 DEF PromoteReadyTail, Stages, Whole, Proved
  <2>3. ses'.hpre = ses.hpre /\ ses'.hstop = ses.hstop /\ ses'.hlive = ses.hlive
    BY <1>42 DEF PromoteReadyTail, UnitTypes, Sessions
  <2>4. Below(cursor') /\ stored' = stored /\ job' = job
    BY <1>42, <2>1 DEF PromoteReadyTail, Greatest, Proved
  <2> QED
    BY <2>1, <2>2, <2>3, <2>4 DEF Proved, Below, Planned
<1>43. CASE AcceptValidation
  <2>1. /\ ses'.hpre = ses.hpre /\ ses'.hstop = ses.hstop /\ ses'.hlive = ses.hlive
        /\ ses'.state \in Verified => ses.state \in Verified
    BY <1>43 DEF AcceptValidation, UnitTypes, Sessions, Verified, PreStop, Pending, Watched, Terminal
  <2> QED
    BY <1>43, <1>0, <2>1, ProvedKept DEF AcceptValidation
<1>44. CASE CompleteSoak
  <2>1. /\ ses'.hpre = ses.hpre /\ ses'.hstop = ses.hstop /\ ses'.hlive = ses.hlive
        /\ ses'.state \in Verified => ses.state \in Verified
    BY <1>44 DEF CompleteSoak, UnitTypes, Sessions, Verified, PreStop, Pending, Watched, Terminal
  <2> QED
    BY <1>44, <1>0, <2>1, ProvedKept DEF CompleteSoak
<1>45. CASE RollbackIntent
  <2>1. /\ ses'.hpre = ses.hpre /\ ses'.hstop = ses.hstop /\ ses'.hlive = ses.hlive
        /\ ses'.state \in Verified => ses.state \in Verified
    BY <1>45 DEF RollbackIntent, UnitTypes, Sessions, Verified, PreStop, Pending, Watched, Terminal
  <2> QED
    BY <1>45, <1>0, <2>1, ProvedKept DEF RollbackIntent
<1>46. CASE UNCHANGED vars
  BY <1>46 DEF vars, Proved, Below, Planned
<1> QED
  BY <1>1, <1>2, <1>3, <1>4, <1>5, <1>6, <1>7, <1>8, <1>9, <1>10, <1>11, <1>12, <1>13, <1>14, <1>15,
     <1>16, <1>17, <1>18, <1>19, <1>20, <1>21, <1>22, <1>23, <1>24, <1>25, <1>26, <1>27, <1>28, <1>29,
     <1>30, <1>31, <1>32, <1>33, <1>34, <1>35, <1>36, <1>37, <1>38, <1>39, <1>40, <1>41, <1>42, <1>43,
     <1>44, <1>45, <1>46 DEF Next, Worker, Fault, Operator

(***************************************************************************)
(* Claims.                                                                 *)
(***************************************************************************)

\* Gaps that are open stay open, at the same place.
GapsStay == \A i \in OpenGaps : i \in OpenGaps' /\ gaps'[i].from = gaps[i].from

\* A step that moves neither the mark nor a gap, loses no block and exposes no worker.
LEMMA ClaimsKept ==
    ASSUME Types, Claims, Known \subseteq Known', UNCHANGED <<head, covEnd>>, GapsStay,
           Exposed' => Exposed /\ (subs => subs')
    PROVE  Claims'
<1>1. Claimed' \subseteq Known'
  BY DEF Claims, Claimed, GapsStay, Types, StoreTypes
<1>2. Guarded => Guarded'
  BY DEF Guarded, Lost, GapsStay
<1>3. OpenGaps # {} => OpenGaps' # {}
  BY DEF GapsStay
<1> QED
  BY <1>1, <1>2, <1>3 DEF Claims

\* When every block is accounted for nothing can be claimed too early.
LEMMA ClaimsOfAll ==
    ASSUME Types', (1..head)' \subseteq Known', Exposed' => subs'
    PROVE  Claims'
<1>1. head' \in Nat /\ covEnd' \in 0..head'
  BY BoundsAssumption DEF Types, StoreTypes, Blocks
<1>2. Claimed' \subseteq Known'
  BY <1>1 DEF Claimed
<1>3. Guarded'
  BY DEF Guarded, Lost
<1> QED
  BY <1>2, <1>3 DEF Claims

\* An outage is written from the mark on, so it guards whatever is lost.
LEMMA ClaimsOfOutage ==
    ASSUME Types, Claims, gaps' = Append(gaps, OutageGap), UNCHANGED <<head, stored, blind, covEnd>>
    PROVE  Claims'
<1> DEFINE n == Len(gaps) + 1
<1>1. /\ OutageGap \in GapRows /\ OutageGap.from = covEnd /\ OutageGap.open
      /\ Len(gaps) \in Nat /\ DOMAIN gaps = 1..Len(gaps) /\ DOMAIN gaps' = 1..n
      /\ \A i \in DOMAIN gaps : gaps'[i] = gaps[i]
      /\ gaps'[n] = OutageGap
  BY NewGaps, Joining
<1>2. GapsStay /\ n \in OpenGaps' /\ gaps'[n].from = covEnd
  BY <1>1 DEF GapsStay, OpenGaps
<1>3. Claimed' \subseteq Known'
  BY <1>2 DEF Claims, Claimed, Known, GapsStay, Types, StoreTypes
<1>4. ASSUME NEW b \in Lost' PROVE \E i \in OpenGaps' : gaps'[i].from < b
  <2>1. b \in Nat \ {0} /\ b \notin Known /\ covEnd \in Nat
    BY <1>4, BoundsAssumption DEF Lost, Known, Types, StoreTypes, Blocks
  <2>2. CASE b <= covEnd
    <3>1. PICK i \in OpenGaps : ~(b <= gaps[i].from)
      BY <2>1, <2>2 DEF Claims, Claimed
    <3>2. gaps[i].from \in Nat
      BY <3>1, OpenGapType
    <3>3. gaps[i].from < b
      BY <2>1, <3>1, <3>2
    <3>4. i \in OpenGaps' /\ gaps'[i].from = gaps[i].from
      BY <1>2, <3>1 DEF GapsStay
    <3> QED
      BY <3>3, <3>4
  <2>3. CASE covEnd < b
    BY <1>2, <2>3
  <2>4. b <= covEnd \/ covEnd < b
    BY <2>1
  <2> QED
    BY <2>2, <2>3, <2>4
<1>5. Guarded' /\ OpenGaps' # {}
  BY <1>2, <1>4 DEF Guarded
<1> QED
  BY <1>3, <1>5 DEF Claims

\* Claims never run ahead of the store, while the handoff has had one process.
LEMMA ClaimsStep ==
    ASSUME Types, Types', Control, Proved, Proved', Claims, Handoff, [Next]_vars
    PROVE  Claims'
<1>0. Known \subseteq Known'
  BY Grows DEF Known
<1>1. CASE Mine
  <2>1. UNCHANGED <<covEnd, gaps, wpc, mode, ses, switch, subs>> /\ head' = head + 1 /\ head \in Nat
    BY <1>1, BoundsAssumption DEF Mine, chain, unit, memory, ledger, Types, StoreTypes, Blocks
  <2>2. Claimed' = Claimed /\ OpenGaps' = OpenGaps /\ (Exposed' <=> Exposed)
    BY <2>1 DEF Claimed, OpenGaps, Exposed, Holding, Split
  <2>3. ASSUME Exposed PROVE Guarded'
    <3>1. Guarded /\ (subs \/ OpenGaps # {})
      BY <2>3 DEF Claims
    <3>2. CASE Running /\ subs
      <4>1. Lost' \subseteq Lost
        BY <1>1, <2>1, <3>2 DEF Mine, Lost, Known
      <4> QED
        BY <2>1, <2>2, <3>1, <4>1 DEF Guarded
    <3>3. CASE ~(Running /\ subs)
      <4>1. PICK i \in OpenGaps : gaps[i].from <= head /\ gaps[i].from \in Nat
        BY <3>1, <3>3, OpenGapType DEF Control
      <4>2. Lost' \subseteq Lost \cup {head + 1}
        BY <1>1, <2>1, <3>3 DEF Mine, Lost, Known
      <4> QED
        BY <2>1, <2>2, <3>1, <4>1, <4>2 DEF Guarded
    <3> QED
      BY <3>2, <3>3
  <2> QED
    BY <1>0, <2>1, <2>2, <2>3 DEF Claims
<1>2. CASE Launch
  BY <1>2, <1>0, ClaimsKept DEF chain, unit, memory, ledger, GapsStay, OpenGaps, Exposed, Holding,
     Split, Launch
<1>3. CASE StartWorker
  <2>1. CASE InHandoff
    <3>1. ~Exposed'
      BY <1>3, <2>1 DEF StartWorker, InHandoff, Exposed, Holding, Split, Pending, Types, UnitTypes,
         Sessions
    <3> QED
      BY <1>3, <1>0, <2>1, <3>1, ClaimsKept DEF StartWorker, chain, ledger, GapsStay, OpenGaps
  <2>2. CASE ~InHandoff
    BY <1>3, <2>2, ClaimsOfOutage DEF StartWorker, chain
  <2> QED
    BY <2>1, <2>2
<1>4. CASE ConnectWorker
  BY <1>4, <1>0, ClaimsKept DEF chain, unit, memory, ledger, GapsStay, OpenGaps, Exposed, Holding,
     Split, ConnectWorker, Types, UnitTypes, Sessions
<1>5. CASE TickFailed
  BY <1>5, <1>0, ClaimsKept DEF chain, unit, memory, ledger, GapsStay, OpenGaps, Exposed, Holding,
     Split, TickFailed
<1>6. CASE Tick
  BY <1>6, <1>0, ClaimsKept DEF chain, unit, memory, ledger, GapsStay, OpenGaps, Exposed, Holding,
     Split, Tick, NoHandoff, BeginValidation, SpoilHandoff, AwaitReadyTail, InHandoff, Pending, Types,
     UnitTypes, Sessions
<1>7. CASE SkipRecovery
  BY <1>7, <1>0, ClaimsKept DEF chain, unit, memory, ledger, GapsStay, OpenGaps, Exposed, Holding,
     Split, SkipRecovery
<1>8. CASE Recover
  <2>1. PICK h \in Heads :
            /\ stored' = stored \cup (Greatest(1, cursor - Overlap)..h)
            /\ blind' = blind \cup Left(h) /\ head' = head
    BY <1>8 DEF Recover
  <2>2. subs'
    BY <1>8 DEF Recover, Recovering, Control
  <2> QED
    BY <2>1, <2>2, ReadingJoins, ClaimsOfAll
<1>9. CASE BootstrapOther
  BY <1>9, <1>0, ClaimsKept DEF chain, unit, memory, ledger, GapsStay, OpenGaps, Exposed, Holding,
     Split, BootstrapOther
<1>10. CASE ProveSwitch
  <2>1. PICK h \in Heads :
            /\ stored' = stored \cup (Greatest(1, cursor - Overlap)..h)
            /\ blind' = blind \cup Left(h) /\ head' = head
    BY <1>10 DEF ProveSwitch
  <2>2. subs'
    BY <1>10 DEF ProveSwitch, memory
  <2> QED
    BY <2>1, <2>2, ReadingJoins, ClaimsOfAll
<1>11. CASE RecordRollback
  BY <1>11, <1>0, ClaimsKept DEF chain, unit, memory, ledger, GapsStay, OpenGaps, Exposed, Holding,
     Split, RecordRollback, RollbackDue, Types, UnitTypes, Sessions
<1>12. CASE RollbackRefused
  BY <1>12, <1>0, ClaimsKept DEF chain, unit, memory, ledger, GapsStay, OpenGaps, Exposed, Holding,
     Split, RollbackRefused
<1>13. CASE Finish
  <2>1. CASE ~MayClaim \/ ~subs
    BY <1>13, <1>0, <2>1, ClaimsKept DEF Finish, MayClaim, chain, memory, GapsStay, OpenGaps, Exposed,
       Holding, Split
  <2>2. CASE MayClaim /\ subs
    <3>1. Exposed /\ Guarded
      BY <1>13, <2>2 DEF Finish, MayClaim, Exposed, Claims
    <3>2. UNCHANGED <<head, stored, blind, gaps, subs>> /\ covEnd' = head /\ head \in Nat
      BY <1>13, <2>2, BoundsAssumption DEF Finish, chain, memory, Types, StoreTypes, Blocks
    <3>3. Claimed' \subseteq Known'
      <4>1. ASSUME NEW b \in 1..head, b \notin Known PROVE \E i \in OpenGaps : ~(b <= gaps[i].from)
        <5>1. PICK i \in OpenGaps : gaps[i].from < b
          BY <3>1, <4>1 DEF Guarded, Lost
        <5>2. gaps[i].from \in Nat
          BY <5>1, OpenGapType
        <5> QED
          BY <3>2, <5>1, <5>2
      <4> QED
        BY <3>2, <4>1 DEF Claimed, OpenGaps, Known
    <3>4. Guarded' /\ subs'
      BY <2>2, <3>1, <3>2 DEF Guarded, Lost, Known, OpenGaps
    <3> QED
      BY <3>3, <3>4 DEF Claims
  <2> QED
    BY <2>1, <2>2
<1>14. CASE LoseConnection
  <2>1. CASE LosesWithGap
    BY <1>14, <2>1, ClaimsOfOutage DEF LoseConnection, chain
  <2>2. CASE ~LosesWithGap
    <3>1. ~Exposed'
      BY <1>14, <2>2 DEF LoseConnection, LosesWithGap, Exposed, Holding, Split
    <3> QED
      BY <1>14, <1>0, <2>2, <3>1, ClaimsKept DEF LoseConnection, chain, GapsStay, OpenGaps
  <2> QED
    BY <2>1, <2>2
<1>15. CASE Crash
  BY <1>15, <1>0, ClaimsKept DEF chain, unit, memory, ledger, GapsStay, OpenGaps, Exposed, Holding,
     Split, Crash
<1>16. CASE RecoveryFails
  <2>1. GapsStay
    BY <1>16, NewGaps, Joining DEF RecoveryFails, GapsStay, OpenGaps
  <2> QED
    BY <1>16, <1>0, <2>1, ClaimsKept DEF RecoveryFails, Recovering, chain, memory, Exposed, Holding,
       Split
<1>17. CASE RecoveryDeferred
  BY <1>17, <1>0, ClaimsKept DEF chain, unit, memory, ledger, GapsStay, OpenGaps, Exposed, Holding,
     Split, RecoveryDeferred, Recovering
<1>18. CASE BreakOff
  BY <1>18, <1>0, ClaimsKept DEF chain, unit, memory, ledger, GapsStay, OpenGaps, Exposed, Holding,
     Split, BreakOff
<1>19. CASE Prefetch
  BY <1>19, <1>0, ClaimsKept DEF chain, unit, memory, ledger, GapsStay, OpenGaps, Exposed, Holding,
     Split, Prefetch, LegacyUp
<1>20. CASE StartHistorical
  BY <1>20, <1>0, ClaimsKept DEF chain, unit, memory, ledger, GapsStay, OpenGaps, Exposed, Holding,
     Split, StartHistorical
<1>21. CASE ProveHistorical
  BY <1>21, <1>0, ClaimsKept DEF chain, unit, memory, ledger, GapsStay, OpenGaps, Exposed, Holding,
     Split, ProveHistorical, Prove
<1>22. CASE FinishPrefetch
  BY <1>22, <1>0, ClaimsKept DEF chain, unit, memory, ledger, GapsStay, OpenGaps, Exposed, Holding,
     Split, FinishPrefetch, Control
<1>23. CASE Preflight
  BY <1>23, <1>0, ClaimsKept DEF chain, unit, memory, ledger, GapsStay, OpenGaps, Exposed, Holding,
     Split, Preflight, LegacyUp
<1>24. CASE AuthorizeStop
  BY <1>24, <1>0, ClaimsKept DEF chain, unit, memory, ledger, GapsStay, OpenGaps, Exposed, Holding,
     Split, AuthorizeStop, LegacyHealthy, LegacyUp
<1>25. CASE AbortPreStop
  BY <1>25, <1>0, ClaimsKept DEF chain, unit, memory, ledger, GapsStay, OpenGaps, Exposed, Holding,
     Split, AbortPreStop, LegacyUp
<1>26. CASE IssueStop
  BY <1>26, <1>0, ClaimsKept DEF chain, unit, memory, ledger, GapsStay, OpenGaps, Exposed, Holding,
     Split, IssueStop, Types, UnitTypes, Sessions
<1>27. CASE StopSource
  BY <1>27, <1>0, ClaimsKept DEF chain, unit, memory, ledger, GapsStay, OpenGaps, Exposed, Holding,
     Split, StopSource
<1>28. CASE MarkSourceStopped
  BY <1>28, <1>0, ClaimsKept DEF chain, unit, memory, ledger, GapsStay, OpenGaps, Exposed, Holding,
     Split, MarkSourceStopped, Control
<1>29. CASE StopTail
  BY <1>29, <1>0, ClaimsKept DEF chain, unit, memory, ledger, GapsStay, OpenGaps, Exposed, Holding,
     Split, StopTail
<1>30. CASE ProveStopTail
  BY <1>30, <1>0, ClaimsKept DEF chain, unit, memory, ledger, GapsStay, OpenGaps, Exposed, Holding,
     Split, ProveStopTail, Prove
<1>31. CASE PromoteStopTail
  BY <1>31, <1>0, ClaimsKept DEF chain, unit, memory, ledger, GapsStay, OpenGaps, Exposed, Holding,
     Split, PromoteStopTail
<1>32. CASE VerifyStopTail
  BY <1>32, <1>0, ClaimsKept DEF chain, unit, memory, ledger, GapsStay, OpenGaps, Exposed, Holding,
     Split, VerifyStopTail, Control
<1>33. CASE EnableSplit
  BY <1>33, <1>0, ClaimsKept DEF chain, unit, memory, ledger, GapsStay, OpenGaps, Exposed, Holding,
     Split, EnableSplit
<1>34. CASE MarkSplitConfigured
  BY <1>34, <1>0, ClaimsKept DEF chain, unit, memory, ledger, GapsStay, OpenGaps, Exposed, Holding,
     Split, MarkSplitConfigured, Control
<1>35. CASE DisableSplit
  BY <1>35, <1>0, ClaimsKept DEF chain, unit, memory, ledger, GapsStay, OpenGaps, Exposed, Holding,
     Split, DisableSplit
<1>36. CASE StartUnit
  BY <1>36, <1>0, ClaimsKept DEF chain, unit, memory, ledger, GapsStay, OpenGaps, Exposed, Holding,
     Split, StartUnit
<1>37. CASE StopUnit
  BY <1>37, <1>0, ClaimsKept DEF chain, unit, memory, ledger, GapsStay, OpenGaps, Exposed, Holding,
     Split, StopUnit
<1>38. CASE ReadyTail
  BY <1>38, <1>0, ClaimsKept DEF chain, unit, memory, ledger, GapsStay, OpenGaps, Exposed, Holding,
     Split, ReadyTail
<1>39. CASE PinLive
  BY <1>39, <1>0, ClaimsKept DEF chain, unit, memory, ledger, GapsStay, OpenGaps, Exposed, Holding,
     Split, PinLive, Types, UnitTypes, Sessions
<1>40. CASE PlanReadyTail
  BY <1>40, <1>0, ClaimsKept DEF chain, unit, memory, ledger, GapsStay, OpenGaps, Exposed, Holding,
     Split, PlanReadyTail
<1>41. CASE ProveReadyTail
  BY <1>41, <1>0, ClaimsKept DEF chain, unit, memory, ledger, GapsStay, OpenGaps, Exposed, Holding,
     Split, ProveReadyTail, Prove
<1>42. CASE PromoteReadyTail
  <2>1. /\ config /\ Split /\ ses.state = "READY_TAIL_PENDING" /\ ses.hlive # 0
        /\ Whole("wss_ready_tail")
        /\ UNCHANGED <<head, stored, blind, covEnd, wpc, subs>>
    BY <1>42 DEF PromoteReadyTail, Control, StillPending, Stages, Whole, Proved, chain, unit, memory
  <2>2. Below(ses.hlive)
    BY <2>1 DEF Whole, Proved, Below, Types, JobTypes, Jobs, Stages
  <2>3. ses.hlive \in Nat /\ head \in Nat /\ covEnd \in Nat
    BY BoundsAssumption DEF Types, UnitTypes, StoreTypes, Sessions, Blocks
  <2>4. CASE wpc = "start"
    <3>1. ~Exposed'
      BY <2>1, <2>4 DEF Exposed
    <3>2. (ses.hlive + 1)..covEnd \subseteq Known
      BY <2>1 DEF Handoff
    <3>3. \A b \in 1..covEnd : b \in 1..ses.hlive \/ b \in (ses.hlive + 1)..covEnd
      BY <2>3
    <3>4. Claimed' \subseteq Known'
      BY <2>1, <2>2, <3>2, <3>3 DEF Claimed, Below, Known
    <3> QED
      BY <3>1, <3>4 DEF Claims
  <2>5. CASE wpc # "start"
    <3>1. subs /\ (ses.hlive + 1)..head \subseteq Known
      BY <2>1, <2>5 DEF Handoff
    <3>2. \A b \in 1..head : b \in 1..ses.hlive \/ b \in (ses.hlive + 1)..head
      BY <2>3
    <3>3. 1..head \subseteq Known
      BY <2>2, <3>1, <3>2 DEF Below, Known
    <3>4. (1..head)' \subseteq Known' /\ subs'
      BY <2>1, <3>1, <3>3 DEF Known
    <3> QED
      BY <3>4, ClaimsOfAll
  <2> QED
    BY <2>4, <2>5
<1>43. CASE AcceptValidation
  BY <1>43, <1>0, ClaimsKept DEF chain, unit, memory, ledger, GapsStay, OpenGaps, Exposed, Holding,
     Split, AcceptValidation, PreStop, Pending, Watched, Types, UnitTypes, Sessions
<1>44. CASE CompleteSoak
  BY <1>44, <1>0, ClaimsKept DEF chain, unit, memory, ledger, GapsStay, OpenGaps, Exposed, Holding,
     Split, CompleteSoak, PreStop, Pending, Watched, Types, UnitTypes, Sessions
<1>45. CASE RollbackIntent
  BY <1>45, <1>0, ClaimsKept DEF chain, unit, memory, ledger, GapsStay, OpenGaps, Exposed, Holding,
     Split, RollbackIntent, Types, UnitTypes, Sessions
<1>46. CASE UNCHANGED vars
  BY <1>46, <1>0, ClaimsKept DEF chain, unit, memory, ledger, GapsStay, OpenGaps, Exposed, Holding,
     Split, vars
<1> QED
  BY <1>1, <1>2, <1>3, <1>4, <1>5, <1>6, <1>7, <1>8, <1>9, <1>10, <1>11, <1>12, <1>13, <1>14, <1>15,
     <1>16, <1>17, <1>18, <1>19, <1>20, <1>21, <1>22, <1>23, <1>24, <1>25, <1>26, <1>27, <1>28, <1>29,
     <1>30, <1>31, <1>32, <1>33, <1>34, <1>35, <1>36, <1>37, <1>38, <1>39, <1>40, <1>41, <1>42, <1>43,
     <1>44, <1>45, <1>46 DEF Next, Worker, Fault, Operator

\* One process carries the handoff from its pin to its proof.
LEMMA HandoffStep ==
    ASSUME Types, Control, Handoff, ~ses'.restarted, [Next]_vars
    PROVE  Handoff'
<1> USE BoundsAssumption DEF Types, UnitTypes, StoreTypes, Blocks, Sessions, Control, Handoff, Split,
   Idle, NoOp, chain, unit, memory, ledger, PreStop, Pending, Watched, Known
<1>1. CASE Mine
  <2>1. /\ UNCHANGED <<blind, covEnd, config, wpc, mode, ses, subs, op>> /\ head' = head + 1
        /\ head \in Nat /\ ses.hlive \in Nat
    BY <1>1, BoundsAssumption DEF Mine, StoreTypes, Blocks
  <2>2. ASSUME ses.state = "READY_TAIL_PENDING", Split, wpc # "start"
        PROVE  subs /\ (ses.hlive # 0 => (ses.hlive + 1)..head \subseteq Known)
               /\ stored' = stored \cup {head + 1}
    BY <1>1, <2>2 DEF Mine, Handoff, Control
  <2>3. \A n \in Nat : (n + 1)..head \subseteq Known =>
                      (n + 1)..(head + 1) \subseteq Known \cup {head + 1}
    BY <2>1
  <2>4. stored \subseteq stored' /\ Known \subseteq Known'
    BY <1>1, <2>1 DEF Mine
  <2>5. ASSUME ses.state = "READY_TAIL_PENDING", Split, wpc # "start", ses.hlive # 0
        PROVE  (ses.hlive + 1)..head' \subseteq Known'
    <3>1. (ses.hlive + 1)..(head + 1) \subseteq Known \cup {head + 1}
      BY <2>1, <2>2, <2>3, <2>5
    <3>2. Known \cup {head + 1} \subseteq Known'
      BY <2>2, <2>4, <2>5
    <3> QED
      BY <2>1, <3>1, <3>2
  <2>6. ses.state = "READY_TAIL_PENDING" /\ ses.hlive # 0 /\ config =>
          (ses.hlive + 1)..covEnd \subseteq Known'
    BY <2>4 DEF Handoff
  <2> QED
    BY <2>1, <2>2, <2>5, <2>6 DEF Handoff, Split
<1>2. CASE Launch
  BY <1>2 DEF Launch
<1>3. CASE StartWorker
  <2>1. CASE InHandoff
    <3>1. ses.state = "SPLIT_CONFIGURED" /\ ses.hlive = 0
      BY <1>3, <2>1 DEF StartWorker, InHandoff
    <3>2. ses'.state = "SPLIT_WSS_CONNECTING" /\ ses'.hlive = ses.hlive /\ UNCHANGED op
      BY <1>3, <2>1 DEF StartWorker
    <3> QED
      BY <3>1, <3>2
  <2>2. CASE ~InHandoff
    <3>1. UNCHANGED <<head, config, stored, blind, covEnd, mode, ses, subs, op>> /\ wpc = "start"
      BY <1>3, <2>2 DEF StartWorker
    <3> QED
      BY <2>2, <3>1 DEF InHandoff
  <2> QED
    BY <2>1, <2>2
<1>4. CASE ConnectWorker
  BY <1>4 DEF ConnectWorker
<1>5. CASE TickFailed
  BY <1>5 DEF TickFailed
<1>6. CASE Tick
  BY <1>6 DEF Tick, NoHandoff, BeginValidation, SpoilHandoff, AwaitReadyTail, InHandoff
<1>7. CASE SkipRecovery
  BY <1>7 DEF SkipRecovery
<1>8. CASE Recover
  BY <1>8 DEF Recover, Recovering
<1>9. CASE BootstrapOther
  BY <1>9 DEF BootstrapOther
<1>10. CASE ProveSwitch
  BY <1>10 DEF ProveSwitch
<1>11. CASE RecordRollback
  BY <1>11 DEF RecordRollback, RollbackDue
<1>12. CASE RollbackRefused
  BY <1>12 DEF RollbackRefused, RollbackDue
<1>13. CASE Finish
  <2>1. UNCHANGED <<head, config, stored, blind, mode, ses, subs, op>> /\ wpc = "finish" /\ mode # "none"
    BY <1>13 DEF Finish
  <2>2. ses.state = "READY_TAIL_PENDING" /\ config => ~MayClaim
    BY <2>1 DEF MayClaim, Holding, Posts
  <2>3. ses.state = "READY_TAIL_PENDING" /\ config => UNCHANGED covEnd
    BY <1>13, <2>2 DEF Finish
  <2> QED
    BY <2>1, <2>3
<1>14. CASE LoseConnection
  BY <1>14 DEF LoseConnection, InHandoff
<1>15. CASE Crash
  BY <1>15 DEF Crash
<1>16. CASE RecoveryFails
  BY <1>16 DEF RecoveryFails, Recovering
<1>17. CASE RecoveryDeferred
  BY <1>17 DEF RecoveryDeferred, Recovering
<1>18. CASE BreakOff
  BY <1>18 DEF BreakOff
<1>19. CASE Prefetch
  BY <1>19 DEF Prefetch, Command, LegacyUp, LegacyHealthy
<1>20. CASE StartHistorical
  BY <1>20 DEF StartHistorical
<1>21. CASE ProveHistorical
  BY <1>21 DEF ProveHistorical, Prove
<1>22. CASE FinishPrefetch
  BY <1>22 DEF FinishPrefetch
<1>23. CASE Preflight
  BY <1>23 DEF Preflight
<1>24. CASE AuthorizeStop
  BY <1>24 DEF AuthorizeStop
<1>25. CASE AbortPreStop
  BY <1>25 DEF AbortPreStop
<1>26. CASE IssueStop
  BY <1>26 DEF IssueStop, Command, LegacyUp, LegacyHealthy
<1>27. CASE StopSource
  BY <1>27 DEF StopSource
<1>28. CASE MarkSourceStopped
  BY <1>28 DEF MarkSourceStopped
<1>29. CASE StopTail
  BY <1>29 DEF StopTail, Command, LegacyUp, LegacyHealthy
<1>30. CASE ProveStopTail
  BY <1>30 DEF ProveStopTail, Prove
<1>31. CASE PromoteStopTail
  BY <1>31 DEF PromoteStopTail
<1>32. CASE VerifyStopTail
  BY <1>32 DEF VerifyStopTail
<1>33. CASE EnableSplit
  BY <1>33 DEF EnableSplit, Command, LegacyUp, LegacyHealthy
<1>34. CASE MarkSplitConfigured
  BY <1>34 DEF MarkSplitConfigured
<1>35. CASE DisableSplit
  BY <1>35 DEF DisableSplit
<1>36. CASE StartUnit
  BY <1>36 DEF StartUnit
<1>37. CASE StopUnit
  BY <1>37 DEF StopUnit
<1>38. CASE ReadyTail
  BY <1>38 DEF ReadyTail, Command, LegacyUp, LegacyHealthy
<1>39. CASE PinLive
  <2>1. PICK h \in Heads :
            /\ ses' = [ses EXCEPT !.hlive = h, !.at = head, !.fresh = TRUE]
            /\ blind' = blind \cup Left(h)
    BY <1>39 DEF PinLive
  <2>2. UNCHANGED <<head, stored, covEnd, config, mode, wpc, subs, op>>
        /\ ses.state = "READY_TAIL_PENDING" /\ op.cmd = "ready"
    BY <1>39 DEF PinLive
  <2>3. ses'.hlive = h /\ ses'.state = ses.state
    BY <2>1
  <2>4. h \in Nat /\ (h + 1)..head \subseteq Known'
    BY <2>1, <2>2, HeadType DEF Left
  <2>5. (h + 1)..covEnd \subseteq (h + 1)..head
    BY <2>4
  <2>6. Split /\ wpc # "start" => subs
    BY <2>2
  <2> QED
    BY <2>2, <2>3, <2>4, <2>5, <2>6
<1>40. CASE PlanReadyTail
  BY <1>40 DEF PlanReadyTail
<1>41. CASE ProveReadyTail
  BY <1>41 DEF ProveReadyTail, Prove
<1>42. CASE PromoteReadyTail
  BY <1>42 DEF PromoteReadyTail
<1>43. CASE AcceptValidation
  BY <1>43 DEF AcceptValidation
<1>44. CASE CompleteSoak
  BY <1>44 DEF CompleteSoak
<1>45. CASE RollbackIntent
  BY <1>45 DEF RollbackIntent
<1>46. CASE UNCHANGED vars
  BY <1>46 DEF vars
<1> QED
  BY <1>1, <1>2, <1>3, <1>4, <1>5, <1>6, <1>7, <1>8, <1>9, <1>10, <1>11, <1>12, <1>13, <1>14, <1>15,
     <1>16, <1>17, <1>18, <1>19, <1>20, <1>21, <1>22, <1>23, <1>24, <1>25, <1>26, <1>27, <1>28, <1>29,
     <1>30, <1>31, <1>32, <1>33, <1>34, <1>35, <1>36, <1>37, <1>38, <1>39, <1>40, <1>41, <1>42, <1>43,
     <1>44, <1>45, <1>46 DEF Next, Worker, Fault, Operator

\* Every step keeps the types: the unit, the store and the stages together.
LEMMA TypesStep ==
    ASSUME Types, [Next]_vars
    PROVE  Types'
<1> QED
  BY UnitStep, StoreStep, JobStep DEF Types

\* The session never forgets that its handoff had a second process.
LEMMA RestartedStays ==
    ASSUME Types, ~ses'.restarted, [Next]_vars
    PROVE  ~ses.restarted
<1> USE DEF unit, memory, ledger, Types, UnitTypes, Sessions
<1>1. CASE Mine
  BY <1>1 DEF Mine
<1>2. CASE Launch
  BY <1>2 DEF Launch
<1>3. CASE StartWorker
  BY <1>3 DEF StartWorker
<1>4. CASE ConnectWorker
  BY <1>4 DEF ConnectWorker
<1>5. CASE TickFailed
  BY <1>5 DEF TickFailed
<1>6. CASE Tick
  BY <1>6 DEF Tick, NoHandoff, BeginValidation, SpoilHandoff, AwaitReadyTail
<1>7. CASE SkipRecovery
  BY <1>7 DEF SkipRecovery
<1>8. CASE Recover
  BY <1>8 DEF Recover
<1>9. CASE BootstrapOther
  BY <1>9 DEF BootstrapOther
<1>10. CASE ProveSwitch
  BY <1>10 DEF ProveSwitch
<1>11. CASE RecordRollback
  BY <1>11 DEF RecordRollback
<1>12. CASE RollbackRefused
  BY <1>12 DEF RollbackRefused
<1>13. CASE Finish
  BY <1>13 DEF Finish
<1>14. CASE LoseConnection
  BY <1>14 DEF LoseConnection
<1>15. CASE Crash
  BY <1>15 DEF Crash
<1>16. CASE RecoveryFails
  BY <1>16 DEF RecoveryFails
<1>17. CASE RecoveryDeferred
  BY <1>17 DEF RecoveryDeferred
<1>18. CASE BreakOff
  BY <1>18 DEF BreakOff
<1>19. CASE Prefetch
  BY <1>19 DEF Prefetch
<1>20. CASE StartHistorical
  BY <1>20 DEF StartHistorical
<1>21. CASE ProveHistorical
  BY <1>21 DEF ProveHistorical, Prove
<1>22. CASE FinishPrefetch
  BY <1>22 DEF FinishPrefetch
<1>23. CASE Preflight
  BY <1>23 DEF Preflight
<1>24. CASE AuthorizeStop
  BY <1>24 DEF AuthorizeStop
<1>25. CASE AbortPreStop
  BY <1>25 DEF AbortPreStop
<1>26. CASE IssueStop
  BY <1>26 DEF IssueStop
<1>27. CASE StopSource
  BY <1>27 DEF StopSource
<1>28. CASE MarkSourceStopped
  BY <1>28 DEF MarkSourceStopped
<1>29. CASE StopTail
  BY <1>29 DEF StopTail
<1>30. CASE ProveStopTail
  BY <1>30 DEF ProveStopTail, Prove
<1>31. CASE PromoteStopTail
  BY <1>31 DEF PromoteStopTail
<1>32. CASE VerifyStopTail
  BY <1>32 DEF VerifyStopTail
<1>33. CASE EnableSplit
  BY <1>33 DEF EnableSplit
<1>34. CASE MarkSplitConfigured
  BY <1>34 DEF MarkSplitConfigured
<1>35. CASE DisableSplit
  BY <1>35 DEF DisableSplit
<1>36. CASE StartUnit
  BY <1>36 DEF StartUnit
<1>37. CASE StopUnit
  BY <1>37 DEF StopUnit
<1>38. CASE ReadyTail
  BY <1>38 DEF ReadyTail
<1>39. CASE PinLive
  BY <1>39 DEF PinLive
<1>40. CASE PlanReadyTail
  BY <1>40 DEF PlanReadyTail
<1>41. CASE ProveReadyTail
  BY <1>41 DEF ProveReadyTail, Prove
<1>42. CASE PromoteReadyTail
  BY <1>42 DEF PromoteReadyTail
<1>43. CASE AcceptValidation
  BY <1>43 DEF AcceptValidation
<1>44. CASE CompleteSoak
  BY <1>44 DEF CompleteSoak
<1>45. CASE RollbackIntent
  BY <1>45 DEF RollbackIntent
<1>46. CASE UNCHANGED vars
  BY <1>46 DEF vars
<1> QED
  BY <1>1, <1>2, <1>3, <1>4, <1>5, <1>6, <1>7, <1>8, <1>9, <1>10, <1>11, <1>12, <1>13, <1>14, <1>15,
     <1>16, <1>17, <1>18, <1>19, <1>20, <1>21, <1>22, <1>23, <1>24, <1>25, <1>26, <1>27, <1>28, <1>29,
     <1>30, <1>31, <1>32, <1>33, <1>34, <1>35, <1>36, <1>37, <1>38, <1>39, <1>40, <1>41, <1>42, <1>43,
     <1>44, <1>45, <1>46 DEF Next, Worker, Fault, Operator

\* A new session beside a legacy collector that has covered everything.
LEMMA InitInvariant == Init => IInv
<1> SUFFICES ASSUME Init PROVE IInv
  OBVIOUS
<1>1. UnitTypes
  BY DEF Init, UnitTypes, Posts, Points, Sessions, States, PreStop, NoOp, Commands
<1>2. StoreTypes
  BY BoundsAssumption, EmptySeq DEF Init, StoreTypes, Blocks
<1>3. JobTypes
  BY DEF Init, JobTypes, Jobs, Stages, NoJob, Planned
<1>4. Control
  BY DEF Init, Control, Split, Running, NoOp
<1>5. Proved
  BY DEF Init, Proved, Below, Planned, NoJob, Stages, Verified
<1>6. Claims
  <2>1. 1..covEnd \subseteq Known /\ 1..head \subseteq Known /\ subs
    BY DEF Init, Known
  <2> QED
    BY <2>1 DEF Claims, Claimed, Guarded, Lost
<1>7. Handoff
  BY DEF Init, Handoff, NoOp
<1> QED
  BY <1>1, <1>2, <1>3, <1>4, <1>5, <1>6, <1>7 DEF IInv, Types

\* The inductive invariant, through every command of the operator, every step of the worker and
\* every fault of the session (flow_cutover.py, flow_worker.py).
THEOREM InductiveInvariant == Spec => []IInv
<1>1. IInv /\ [Next]_vars => IInv'
  <2> SUFFICES ASSUME IInv, [Next]_vars PROVE IInv'
    OBVIOUS
  <2>1. Types /\ Types' /\ Control /\ Control' /\ Proved /\ Proved'
    BY TypesStep, ControlStep, ProvedStep DEF IInv
  <2>2. ASSUME ~ses'.restarted PROVE Claims' /\ Handoff'
    <3>1. Claims /\ Handoff
      BY <2>1, <2>2, RestartedStays DEF IInv
    <3> QED
      BY <2>1, <2>2, <3>1, ClaimsStep, HandoffStep
  <2> QED
    BY <2>1, <2>2 DEF IInv
<1> QED
  BY <1>1, InitInvariant, PTL DEF Spec

\* ReadyMeansProved (flow_cutover.py, promote and begin_validation): a session in one of the states
\* that stand for a verified handoff has pinned a head, and every block up to it is stored, whatever
\* was broken off, lost or restarted on the way, a second process included.
THEOREM ReadyIsProved == Spec => []ReadyMeansProved
<1>1. IInv => ReadyMeansProved
  BY DEF IInv, Proved, Below, ReadyMeansProved
<1> QED
  BY <1>1, InductiveInvariant, PTL

\* KeepsPromise (flow_worker.py, cutover_tick and finalize; flow_cutover.py, promote): the unit and
\* its session implement CoveragePromise step for step, with nothing promised any more once a handoff
\* has gone on under a second process, and but for the blocks a trailing head left out.
THEOREM PromiseKept == Spec => KeepsPromise
<1> DEFINE Shown == IF ses.restarted THEN {} ELSE Claimed \ blind
<1>1. IInv => Shown \subseteq stored
  BY DEF IInv, Claims, Known
<1>2. Init => Promise!Init
  <2>1. Init => IInv
    BY InitInvariant
  <2> QED
    BY <1>1, <2>1 DEF Promise!Init, IInv, Types, StoreTypes, Blocks, Init
<1>3. IInv /\ IInv' /\ [Next]_vars => [Promise!Next]_(Promise!vars)
  <2> SUFFICES ASSUME IInv, IInv', [Next]_vars
               PROVE  Promise!Next
    OBVIOUS
  <2>1. Types /\ Types' /\ head <= head' /\ head \in Nat /\ stored \subseteq stored'
    BY Grows DEF IInv
  <2>2. Shown' \subseteq stored'
    BY DEF IInv, Claims, Known
  <2>3. head' \in Nat /\ head' <= MaxBlock
    BY <2>1, BoundsAssumption DEF Types, StoreTypes, Blocks
  <2>4. Promise!Happen
    BY <2>1, <2>3, BoundsAssumption DEF Promise!Happen, Blocks
  <2>5. Promise!Store
    BY <2>1 DEF Promise!Store, Types, StoreTypes
  <2>6. Promise!Claim
    BY <2>2 DEF Promise!Claim
  <2> QED
    BY <2>4, <2>5, <2>6 DEF Promise!Next
<1> QED
  BY <1>2, <1>3, InductiveInvariant, PTL DEF Spec, KeepsPromise, Promise!Spec

NoneLeftOut == blind = {}

\* Nothing is left out by an endpoint that does not trail the chain.
LEMMA NeverBlind ==
    ASSUME HttpLag = 0
    PROVE  Spec => []NoneLeftOut
<1>1. Init => NoneLeftOut
  BY DEF Init, NoneLeftOut
<1>2. ASSUME IInv, NEW h \in Heads PROVE Left(h) = {}
  <2>1. head \in Nat /\ h \in Nat /\ h = head
    BY <1>2, HeadType, BoundsAssumption DEF IInv, Heads
  <2> QED
    BY <2>1 DEF Left
<1>3. IInv /\ NoneLeftOut /\ [Next]_vars => NoneLeftOut'
  <2> SUFFICES ASSUME IInv, blind = {}, [Next]_vars PROVE blind' = {}
    BY DEF NoneLeftOut
  <2> USE DEF chain
  <2>1. CASE Mine \/ Launch
    BY <2>1 DEF Mine, Launch
  <2>2. CASE Recover \/ ProveSwitch
    BY <1>2, <2>2 DEF Recover, ProveSwitch
  <2>3. CASE Worker /\ ~(Recover \/ ProveSwitch)
    BY <2>3 DEF Worker, StartWorker, ConnectWorker, TickFailed, Tick, SkipRecovery,
       BootstrapOther, RecordRollback, RollbackRefused, Finish
  <2>4. CASE Fault
    BY <2>4 DEF Fault, LoseConnection, Crash, RecoveryFails, RecoveryDeferred
  <2>5. CASE PinLive
    BY <1>2, <2>5 DEF PinLive
  <2>6. CASE Operator /\ ~PinLive
    BY <2>6 DEF Operator, BreakOff, Prefetch, StartHistorical, ProveHistorical, FinishPrefetch,
       Preflight, AuthorizeStop, AbortPreStop, IssueStop, StopSource, MarkSourceStopped, StopTail,
       ProveStopTail, PromoteStopTail, VerifyStopTail, EnableSplit, MarkSplitConfigured, DisableSplit,
       StartUnit, StopUnit, ReadyTail, PlanReadyTail, ProveReadyTail, PromoteReadyTail,
       AcceptValidation, CompleteSoak, RollbackIntent, Prove
  <2>7. CASE UNCHANGED vars
    BY <2>7 DEF vars
  <2> QED
    BY <2>1, <2>2, <2>3, <2>4, <2>5, <2>6, <2>7 DEF Next
<1> QED
  BY <1>1, <1>3, InductiveInvariant, PTL DEF Spec

\* The whole of what is claimed.
NothingAhead == ~ses.restarted => Claimed \subseteq stored

\* With an endpoint that does not trail the chain (eth_blockNumber answered for the block the socket
\* delivers) every claimed block is stored, through the cutover, its failures and its rollback, as long
\* as the handoff has had one process.
THEOREM WithoutLagNothingAhead ==
    ASSUME HttpLag = 0
    PROVE  Spec => []NothingAhead
<1>1. IInv /\ NoneLeftOut => NothingAhead
  BY DEF IInv, Claims, Known, NothingAhead, NoneLeftOut
<1> QED
  BY <1>1, InductiveInvariant, NeverBlind, PTL
=============================================================================
