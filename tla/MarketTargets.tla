---------------------------- MODULE MarketTargets ----------------------------
(***************************************************************************)
(* The outcome targets of the base scanner: app/block_watcher.py stores a  *)
(* launch and schedules its targets, app/market.py measures the targets    *)
(* that are due within a budget of contract calls.  Both tasks share one   *)
(* process and one database and interleave at every await.                 *)
(*                                                                         *)
(* Time is counted in minutes.  The market is that of ws_first, the only   *)
(* transport that schedules targets.  Prices are left out: a call is       *)
(* answered, fails and may be tried again, or is refused for good.         *)
(***************************************************************************)
EXTENDS Integers, Sequences, FiniteSets

CONSTANTS
  Launches,     \* stock launches of the sampled cohort
  Ages,         \* the ages a launch is measured at, in minutes
  Stuck,        \* targets whose calls never come back with an answer
  MinuteLimit, DailyLimit,   \* MARKET_MAX_MINUTE_CALLS, MARKET_MAX_DAILY_CALLS
  PassLimit,    \* targets a pass takes, the default of due_market_targets
  MaxLaunch,    \* bound: the last minute a launch is stored in
  MaxTime,      \* bound: the clock stops counting here (minutes still pass)
  MaxMishaps    \* bound: crashes, failed calls, undecodable answers

Targets == Launches \X Ages

ASSUME MarketConfig ==
  /\ IsFiniteSet(Launches) /\ Ages \subseteq Nat /\ Stuck \subseteq Targets
  /\ {MinuteLimit, DailyLimit, PassLimit} \subseteq Nat \ {0}
  /\ {MaxLaunch, MaxTime, MaxMishaps} \subseteq Nat
  /\ \A age \in Ages : MaxLaunch + age <= MaxTime

VARIABLES
  now, minuteCalls, dayCalls,  \* rpc_usage: market_rpc_calls of this minute, of this day
  rows,                        \* launches: block_timestamp, Never if not stored
  status, static,              \* outcome_targets, market_static
  process, worker, batch, step,   \* MarketWorker.run: targets read, call under way
  mishaps                      \* faults the run may still inject

store == <<rows, status, static>>
calls == <<minuteCalls, dayCalls>>
task == <<process, worker, batch, step>>
marketVars == <<now, calls, store, task, mishaps>>

Never == -1
Quote == "quote"
Statuses == {"none", "pending", "completed", "unavailable"}

Due(t) == rows[t[1]] + t[2]
IsDue(t) == status[t] = "pending" /\ Due(t) <= now

MarketInit ==
  /\ now = 0 /\ minuteCalls = 0 /\ dayCalls = 0
  /\ rows = [l \in Launches |-> Never] /\ status = [t \in Targets |-> "none"] /\ static = {}
  /\ process = "up" /\ worker = "running" /\ batch = <<>> /\ step = "idle"
  /\ mishaps = MaxMishaps

Fault == mishaps > 0 /\ mishaps' = mishaps - 1
------------------------------------------------------------------------------
(* The clock: the budgets are sums over the rows of this minute and day. *)

Tick ==
  /\ now' = IF now < MaxTime THEN now + 1 ELSE now
  /\ minuteCalls' = 0
  /\ UNCHANGED <<store, task, mishaps>>

Minute == Tick /\ UNCHANGED dayCalls
Day == Tick /\ dayCalls' = 0
------------------------------------------------------------------------------
(* The watcher *)

ScheduledAgain(l) ==                        \* mutant: INSERT OR REPLACE
  [t \in Targets |-> IF t[1] = l THEN "pending" ELSE status[t]]
Scheduled(l) == [t \in Targets |-> IF t[1] = l /\ status[t] = "none" THEN "pending" ELSE status[t]]

Store(l) ==
  /\ rows[l] = Never => now <= MaxLaunch
  /\ rows' = IF rows[l] = Never THEN [rows EXCEPT ![l] = now] ELSE rows

(* process_ws_event: the row and its targets are two transactions with no  *)
(* await between them.  An event may repeat what recovery or an earlier    *)
(* notification brought.                                                   *)
LaunchEvent(l) ==
  /\ process = "up" /\ Store(l) /\ status' = Scheduled(l)
  /\ UNCHANGED <<now, calls, static, task, mishaps>>

(* The process dies between the two. *)
EventCut(l) ==
  /\ process = "up" /\ Fault /\ Store(l)
  /\ process' = "down" /\ worker' = "stopped" /\ batch' = <<>> /\ step' = "idle"
  /\ UNCHANGED <<now, calls, status, static>>

(* ws_recover through process_range: rows, no targets. *)
RecoverRow(l) ==
  /\ process = "up" /\ rows[l] = Never /\ Store(l)
  /\ UNCHANGED <<now, calls, status, static, task, mishaps>>

ProcessDies ==
  /\ process = "up" /\ Fault
  /\ process' = "down" /\ worker' = "stopped" /\ batch' = <<>> /\ step' = "idle"
  /\ UNCHANGED <<now, calls, store>>

Start ==
  /\ process = "down"
  /\ process' = "up" /\ worker' = "running"
  /\ UNCHANGED <<now, calls, store, batch, step, mishaps>>
------------------------------------------------------------------------------
(* The market task *)

AllowedAtLimit == dayCalls < DailyLimit /\ minuteCalls <= MinuteLimit   \* mutant: one call too many
Allowed == dayCalls < DailyLimit /\ minuteCalls < MinuteLimit

OldestOnly(q) ==                            \* mutant: one target a pass
  /\ Len(q) = 1 /\ IsDue(q[1])
  /\ \A t \in Targets : IsDue(t) => Due(q[1]) <= Due(t)

(* due_market_targets: the oldest due first, ties in any order. *)
Oldest(q) ==
  /\ \A i, j \in DOMAIN q : i < j => q[i] # q[j] /\ Due(q[i]) <= Due(q[j])
  /\ \A i \in DOMAIN q : IsDue(q[i])
  /\ \A t \in Targets : IsDue(t) =>
       \/ \E i \in DOMAIN q : q[i] = t
       \/ Len(q) = PassLimit /\ \A i \in DOMAIN q : Due(q[i]) <= Due(t)

(* One pass: the budget is read once, before up to Limit targets. *)
Pick ==
  /\ worker = "running" /\ step = "idle" /\ Allowed
  /\ \E n \in 1 .. PassLimit : \E q \in [1 .. n -> Targets] :
       Oldest(q) /\ batch' = q
  /\ step' = "ask"
  /\ UNCHANGED <<now, calls, store, process, worker, mishaps>>

CallsSent(n) == minuteCalls' = minuteCalls + n /\ dayCalls' = dayCalls + n

AdvanceAlone ==                             \* mutant: the pass ends after one target
  /\ batch' = Tail(batch)
  /\ step' = "idle"

(* The next target of the pass, or the end of it. *)
Advance ==
  /\ batch' = Tail(batch)
  /\ step' = IF Len(batch) = 1 THEN "idle" ELSE "ask"

(* curve and v4: two reads in one batch, counted when it is sent. *)
Ask ==
  /\ step = "ask" /\ CallsSent(2) /\ step' = "market"
  /\ UNCHANGED <<now, store, process, worker, batch, mishaps>>

Missing == {Quote, Head(batch)[1]} \ static

(* The answer; quote_decimals and supply are asked for once and kept. *)
MarketAnswered ==
  /\ step = "market" /\ Head(batch) \notin Stuck
  /\ CallsSent(Cardinality(Missing)) /\ step' = "static"
  /\ UNCHANGED <<now, store, process, worker, batch, mishaps>>

(* finish_market_target *)
Measured ==
  /\ step = "static" /\ Advance
  /\ static' = static \cup Missing
  /\ status' = [status EXCEPT ![Head(batch)] = "completed"]
  /\ UNCHANGED <<now, calls, rows, process, worker, mishaps>>

Failing == step = "market" /\ Head(batch) \in Stuck

(* RpcError: the target stays pending and is due at once.  What gather had *)
(* already read is kept.                                                   *)
Retry ==
  /\ step \in {"market", "static"}
  /\ IF Failing THEN UNCHANGED mishaps ELSE Fault
  /\ \E read \in SUBSET IF step = "static" THEN Missing ELSE {} : static' = static \cup read
  /\ Advance
  /\ UNCHANGED <<now, calls, rows, status, process, worker>>

(* ValueError: refused for good. *)
Unavailable ==
  /\ step \in {"market", "static"} /\ Fault
  /\ status' = [status EXCEPT ![Head(batch)] = "unavailable"]
  /\ Advance
  /\ UNCHANGED <<now, calls, rows, static, process, worker>>

(* An exception the pass does not catch, an undecodable answer or a locked *)
(* database, ends the task; the process does not look at it.               *)
Die ==
  /\ step \in {"market", "static"} /\ Fault
  /\ worker' = "dead" /\ batch' = <<>> /\ step' = "idle"
  /\ UNCHANGED <<now, calls, store, process>>
------------------------------------------------------------------------------
Pass == Pick \/ Ask \/ MarketAnswered \/ Measured \/ (Failing /\ Retry)

MarketNext ==
  \/ Minute \/ Day \/ ProcessDies \/ Start
  \/ \E l \in Launches : LaunchEvent(l) \/ EventCut(l) \/ RecoverRow(l)
  \/ Pick \/ Ask \/ MarketAnswered \/ Measured \/ Retry \/ Unavailable \/ Die

(* Minutes and days pass; systemd restarts the process; a request ends in  *)
(* an answer or a failure (timeouts), except by a fault.                   *)
MarketFairness ==
  /\ WF_marketVars(Minute) /\ WF_marketVars(Day)
  /\ WF_marketVars(Start) /\ WF_marketVars(Pass)

MarketSpec == MarketInit /\ [][MarketNext]_marketVars /\ MarketFairness
------------------------------------------------------------------------------
(* Properties *)

(* Calls a pass makes at most. *)
PassCalls == PassLimit * 4

MarketTypeOK ==
  /\ now \in 0 .. MaxTime /\ {minuteCalls, dayCalls} \subseteq Nat
  /\ rows \in [Launches -> 0 .. MaxTime \cup {Never}] /\ status \in [Targets -> Statuses]
  /\ static \subseteq Launches \cup {Quote}
  /\ process \in {"up", "down"} /\ worker \in {"running", "stopped", "dead"}
  /\ batch \in Seq(Targets) /\ Len(batch) <= PassLimit
  /\ step \in {"idle", "ask", "market", "static"} /\ (step = "idle") = (batch = <<>>)
  /\ mishaps \in 0 .. MaxMishaps

(* A guard read once before a pass of several targets lets the calls of a  *)
(* minute and of a day exceed the limit by less than one pass, however     *)
(* passes, minutes and crashes interleave (app/market.py allowed, run).    *)
BudgetBounded ==
  /\ minuteCalls < MinuteLimit + PassCalls
  /\ dayCalls < DailyLimit + PassCalls

(* A launch notified again, scanned again or measured around a restart is  *)
(* not measured twice: an outcome once recorded is never taken back        *)
(* (docs/phase2a-model.md, "restart/replay idempotent").                   *)
OutcomesFinal ==
  [][\A t \in Targets : status[t] \in {"completed", "unavailable"} => status'[t] = status[t]]_marketVars

(* Fewer failing targets than a pass takes starve nobody: a due target     *)
(* whose calls are answered is settled while the task lives, although a    *)
(* failing one is retried at once from the head of the queue and both draw *)
(* on one budget.                                                          *)
TargetsSettle ==
  \A t \in Targets \ Stuck :
    (status[t] = "pending" /\ worker = "running")
      ~> (status[t] \in {"completed", "unavailable"} \/ worker = "dead")
==============================================================================
