------------------------- MODULE FlowCollectorProofs -------------------------
(***************************************************************************)
(* Proofs about FlowCollector.  For any chain, window, lag, chunk and      *)
(* span, any graduation and any faults, a cursor is a proof; for a token   *)
(* that does not graduate, nothing is missing silently.                    *)
(*                                                                         *)
(* The argument of the first.  Everything the worker reads, it reads up to *)
(* a head it was given, and a block is mined above every such head: what   *)
(* was stored below a bound stays all there is below it.  A plan and a job *)
(* carry such a bound, moved only in the step after the one that stored    *)
(* the chunk; what is kept of both across a crash is what was committed.   *)
(* Below its base a filter has no trades: the pool none before the         *)
(* graduation.                                                             *)
(***************************************************************************)
EXTENDS FlowCollector, WellFoundedInduction, TLAPS

(***************************************************************************)
(* The inductive invariant.                                                *)
(***************************************************************************)
Chunks == [kind : Kinds, next : Nat, last : Nat]
Jobs   == [first : Nat, next : Nat, last : Nat]

Types ==
    /\ head \in Nat /\ grad \in Nat /\ recHead \in Nat /\ upto \in Nat
    /\ mined \subseteq Trades
    /\ cursor \in [Kinds -> Nat]
    /\ frozen \in [Stages -> Nat] /\ job \in [Stages -> [Kinds -> Jobs]]
    /\ plan \in Seq(Chunks)

\* The worker knows no other graduation than the chain's, and no pool trades before it.
Graduation ==
    /\ grad <= head /\ gradKnown \in {0, grad} /\ (learned => grad # 0)
    /\ \A t \in mined : t.block <= head /\ (t.kind = "v4" => grad # 0 /\ grad <= t.block)

\* No proof and no recovery looks beyond the chain.
Heads == recHead <= head /\ \A s \in Stages : frozen[s] <= head

\* All trades of filter k below block n are stored, and n can be trusted: the next block is not below it.
Below(k, n) == n <= head + 1 /\ \A t \in InWindow(mined) : t.kind = k /\ t.block < n => t \in stored

Cursors == \A k \in Kinds : Below(k, cursor[k] + 1)

\* A plan lives between two awaits of a recovery; its cursor is written after its events.
Plans ==
    /\ \A i \in DOMAIN plan :
          Below(plan[i].kind, plan[i].next) /\ plan[i].next <= plan[i].last /\ plan[i].last <= head
    /\ plan # <<>> => pc \in {"fetch", "save"}
    /\ pc = "save" => /\ plan # <<>> /\ upto \in plan[1].next..plan[1].last
                      /\ Below(plan[1].kind, upto + 1)

\* A job outlives the process; its range is written after its events, and it is promoted when it is done.
Proofs ==
    /\ \A s \in Stages, k \in Kinds :
          Below(k, job[s][k].next) /\ job[s][k].next <= job[s][k].last + 1 /\ job[s][k].last <= head
    /\ pc = "range" => /\ Unproved # {}
                       /\ upto \in job[Stage][Current].next..job[Stage][Current].last
                       /\ Below(Current, upto + 1)
    /\ pc = "promote" => Unproved = {}

IInv == Types /\ Graduation /\ Heads /\ Cursors /\ Plans /\ Proofs

(***************************************************************************)
(* The initial state.                                                      *)
(***************************************************************************)
LEMMA InitInvariant == Init => IInv
<1> SUFFICES ASSUME Init PROVE IInv
  OBVIOUS
<1>1. mined \subseteq Trades /\ \A t \in mined : t.kind = "curve" /\ t.block = 1
  BY BoundsAssumption DEF Init, Trades, Kinds
<1>2. Types
  BY <1>1 DEF Init, Types, Jobs, NoJob
<1>3. Graduation /\ Heads
  BY <1>1 DEF Init, Graduation, Heads
<1>4. ASSUME NEW t \in InWindow(mined) PROVE t.block = 1
  BY <1>1 DEF InWindow
<1>5. Cursors
  BY <1>4 DEF Init, Cursors, Below
<1>6. Plans
  BY DEF Init, Plans
<1>7. Proofs
  BY <1>4 DEF Init, Proofs, Below, NoJob
<1> QED
  BY <1>2, <1>3, <1>5, <1>6, <1>7 DEF IInv

(***************************************************************************)
(* What a step may change.                                                 *)
(***************************************************************************)

\* The steps that write no cursor, job, plan or head of their own: the worker's other phases.
Idle ==
    \/ Start \/ Connect \/ NoticeLoss \/ ConnectFails \/ Backoff \/ Crash
    \/ Tick \/ Expire \/ Discover \/ Ensure \/ Subscribe \/ Drain \/ Finish
    \/ HeadFails \/ PlanRefused \/ FetchFails \/ Recovered \/ ProofFails \/ PromoteTooLate
    \/ BaseLearns \/ Deliver \/ LinkDies \/ UNCHANGED vars

\* Every step is one of these.
LEMMA Steps ==
    [Next]_vars => \/ Idle \/ Mine \/ Learn \/ ReadHead \/ Plan \/ Fetch \/ Save
                   \/ Freeze \/ PlanJobs \/ Prove \/ CommitRange \/ NothingToProve \/ Promote
BY DEF Next, Worker, Fault, Idle

\* Between the phases that read, nothing is written but what a notice brings.
LEMMA IdleKeeps ==
    ASSUME Idle
    PROVE  /\ UNCHANGED <<head, mined, grad, gradKnown, cursor, frozen, job>> /\ stored \subseteq stored'
           /\ recHead' \in {recHead, 0} /\ (plan' = plan \/ plan' = <<>>) /\ upto' \in {upto, 0}
<1>1. CASE Start \/ Connect \/ NoticeLoss \/ ConnectFails
  BY <1>1 DEF Start, Connect, NoticeLoss, ConnectFails, HandleLoss, chain, work, proof, target
<1>2. CASE Backoff \/ Crash \/ Tick \/ Expire
  BY <1>2 DEF Backoff, Crash, Tick, Expire, Ingest, chain, work, proof, target
<1>3. CASE Discover \/ Ensure \/ Drain \/ Finish
  BY <1>3 DEF Discover, Ensure, Drain, Finish, Ingest, chain, work, proof, target
<1>4. CASE Subscribe
  BY <1>4 DEF Subscribe, HeadAfterSubscribe, chain, work, proof, target
<1>5. CASE HeadFails \/ PlanRefused \/ FetchFails
  BY <1>5 DEF HeadFails, PlanRefused, FetchFails, chain, work, proof, target
<1>6. CASE Recovered \/ ProofFails \/ PromoteTooLate
  BY <1>6 DEF Recovered, ProofFails, PromoteTooLate, chain, work, proof, target
<1>7. CASE BaseLearns \/ Deliver \/ LinkDies \/ UNCHANGED vars
  BY <1>7 DEF BaseLearns, Deliver, LinkDies, vars, chain, work, proof, target
<1> QED
  BY <1>1, <1>2, <1>3, <1>4, <1>5, <1>6, <1>7 DEF Idle

\* Below, in the next state.
Later(k, n) == n <= head' + 1 /\ \A t \in InWindow(mined') : t.kind = k /\ t.block < n => t \in stored'

\* Only Mine changes the chain, and only above every bound that can be trusted.
LEMMA BelowKept ==
    ASSUME IInv, [Next]_vars
    PROVE  \A k, n : n \in Int /\ Below(k, n) => Later(k, n)
<1>0. head \in Nat /\ stored \subseteq stored'
      /\ (Mine \/ UNCHANGED <<head, mined>>)
  <2>1. CASE Idle
    BY <2>1, IdleKeeps DEF IInv, Types
  <2>2. CASE Mine
    BY <2>2 DEF Mine, IInv, Types
  <2>3. CASE Learn \/ ReadHead \/ Plan \/ Freeze \/ PlanJobs \/ NothingToProve
    BY <2>3 DEF Learn, ReadHead, Plan, Freeze, PlanJobs, NothingToProve, chain, IInv, Types
  <2>4. CASE Fetch \/ Save \/ Prove \/ CommitRange \/ Promote
    BY <2>4 DEF Fetch, Save, Prove, CommitRange, Promote, Ingest, chain, IInv, Types
  <2> QED
    BY <2>1, <2>2, <2>3, <2>4, Steps
<1>1. CASE UNCHANGED <<head, mined>>
  BY <1>0, <1>1 DEF Below, Later, InWindow
<1>2. CASE Mine
  <2>1. PICK T \in SUBSET [kind : Kinds, block : {head + 1}, n : 1..PerBlock] : mined' = mined \cup T
    BY <1>2 DEF Mine
  <2>2. \A t \in T : t.block = head + 1
    BY <2>1
  <2>3. head' = head + 1
    BY <1>2 DEF Mine
  <2> QED
    BY <1>0, <2>1, <2>2, <2>3 DEF Below, Later, InWindow
<1> QED
  BY <1>0, <1>1, <1>2

\* The heads a step may be given.
LEMMA HeadGiven ==
    ASSUME Types, NEW h \in Greatest(1, head - HttpLag)..head
    PROVE  h \in Nat /\ h <= head
BY BoundsAssumption DEF Types, Greatest

\* What a plan and a job begin with and end at.
LEMMA BoundsOfFilter ==
    ASSUME Types, Graduation, NEW k \in Required, NEW h \in Nat, h <= head
    PROVE  /\ k \in Kinds /\ Base(k) \in Nat /\ UpTo(k, h) \in Nat /\ UpTo(k, h) <= head
           /\ Base(k) <= head + 1 /\ Below(k, Base(k))
           /\ Base(k) <= h => Base(k) <= UpTo(k, h)
<1>1. k \in Kinds /\ gradKnown \in Nat /\ gradKnown <= head /\ head \in Nat /\ (k = "v4" => gradKnown = grad /\ grad # 0)
  BY DEF Types, Graduation, Required, Kinds
<1>2. Base(k) \in Nat /\ UpTo(k, h) \in Nat /\ UpTo(k, h) <= head /\ Base(k) <= head + 1
  BY <1>1 DEF Base, UpTo, Launch, Least
<1>3. ASSUME NEW t \in InWindow(mined), t.kind = k PROVE ~(t.block < Base(k))
  <2>1. t \in mined /\ t.block \in 1..MaxBlock
    BY DEF InWindow, Types, Trades
  <2>2. CASE k = "v4"
    BY <1>1, <1>3, <2>1, <2>2, BoundsAssumption DEF Graduation, Base
  <2>3. CASE k # "v4"
    BY <1>1, <2>1, <2>3, BoundsAssumption DEF Base, Launch
  <2> QED
    BY <2>2, <2>3
<1>4. Base(k) <= h => Base(k) <= UpTo(k, h)
  BY <1>1 DEF Base, UpTo, Launch, Least, Kinds
<1>5. Below(k, Base(k))
  BY <1>2, <1>3 DEF Below
<1> QED
  BY <1>1, <1>2, <1>4, <1>5

\* The items of a plan: one for each filter that is wanted, from its overlap to the pinned head.
LEMMA Wanting ==
    ASSUME Types, Graduation
    PROVE  /\ Wanted \in Seq(Kinds)
           /\ \A i \in DOMAIN Wanted : Wanted[i] \in Required /\ ~Finished(Wanted[i])
<1>1. CASE Finished("curve")
  <2>1. Wanted = <<"v4">> /\ gradKnown # 0
    BY <1>1 DEF Wanted, Finished
  <2> QED
    BY <2>1 DEF Required, Kinds, Finished
<1>2. CASE ~Finished("curve")
  <2>1. CASE gradKnown # 0
    <3>1. Wanted = <<"v4", "curve">> /\ Required = {"curve", "v4"}
      BY <1>2, <2>1 DEF Wanted, Order, Required, Kinds
    <3>2. ~Finished("v4")
      BY DEF Finished
    <3>3. \A i \in DOMAIN Wanted : Wanted[i] = "v4" \/ Wanted[i] = "curve"
      BY <3>1
    <3> QED
      BY <1>2, <3>1, <3>2, <3>3 DEF Kinds
  <2>2. CASE gradKnown = 0
    <3>1. Wanted = <<"curve">> /\ Required = {"curve"}
      BY <1>2, <2>2 DEF Wanted, Order, Required
    <3> QED
      BY <1>2, <3>1 DEF Kinds
  <2> QED
    BY <2>1, <2>2
<1> QED
  BY <1>1, <1>2

\* A new plan reads from what is stored to a head on the chain.
LEMMA Planning ==
    ASSUME IInv, Plan
    PROVE  /\ plan' \in Seq(Chunks)
           /\ \A i \in DOMAIN plan' :
                Below(plan'[i].kind, plan'[i].next) /\ plan'[i].next <= plan'[i].last /\ plan'[i].last <= head
<1>0. Types /\ Graduation /\ Heads /\ Cursors /\ recHead \in Nat /\ recHead <= head
  BY DEF IInv, Types, Heads
<1> DEFINE item(i) == [kind |-> Wanted[i], next |-> Begin(Wanted[i]), last |-> UpTo(Wanted[i], recHead)]
<1>1. plan' = [i \in DOMAIN Wanted |-> item(i)]
  BY DEF Plan
<1>2. ASSUME NEW i \in DOMAIN Wanted
      PROVE  /\ item(i) \in Chunks
             /\ Below(Wanted[i], Begin(Wanted[i]))
             /\ Begin(Wanted[i]) <= UpTo(Wanted[i], recHead) /\ UpTo(Wanted[i], recHead) <= head
  <2> DEFINE k == Wanted[i]
  <2>1. k \in Required /\ ~Finished(k)
    BY <1>0, Wanting
  <2> HIDE DEF k
  <2>2. /\ k \in Kinds /\ Base(k) \in Nat /\ UpTo(k, recHead) \in Nat /\ UpTo(k, recHead) <= head
        /\ Below(k, Base(k)) /\ (Base(k) <= recHead => Base(k) <= UpTo(k, recHead))
    BY <1>0, <2>1, BoundsOfFilter
  <2>3. cursor[k] \in Nat /\ Below(k, cursor[k] + 1) /\ head \in Nat
    BY <1>0, <2>2 DEF Types, Cursors
  <2>4. Begin(k) \in Nat /\ (Begin(k) = Base(k) \/ Begin(k) = cursor[k] - 2)
    BY <2>2, <2>3 DEF Begin, Greatest
  <2>5. Below(k, Begin(k))
    <3>1. ASSUME Begin(k) = cursor[k] - 2 PROVE Below(k, Begin(k))
      <4>1. \A t \in InWindow(mined) : t.block \in Nat
        BY <1>0, BoundsAssumption DEF InWindow, Types, Trades
      <4> QED
        BY <2>3, <3>1, <4>1 DEF Below
    <3> QED
      BY <2>2, <2>4, <3>1
  <2>6. ~BadHead
    BY DEF Plan
  <2>7. recHead >= gradKnown /\ recHead >= 1 /\ cursor[k] <= recHead + 2
    BY <1>0, <2>1, <2>3, <2>6 DEF BadHead, Greatest, Launch, Types, Graduation
  <2>8. Base(k) <= recHead
    BY <2>7 DEF Base, Launch
  <2>9. cursor[k] - 2 <= UpTo(k, recHead)
    BY <1>0, <2>1, <2>2, <2>3, <2>7 DEF UpTo, Finished, Least, Types, Graduation
  <2> QED
    BY <2>2, <2>4, <2>5, <2>8, <2>9 DEF Chunks, k
<1> HIDE DEF item
<1>3. Wanted \in Seq(Kinds)
  BY <1>0, Wanting
<1>4. plan' \in Seq(Chunks) /\ DOMAIN plan' = DOMAIN Wanted
  BY <1>1, <1>2, <1>3
<1>5. ASSUME NEW i \in DOMAIN Wanted
      PROVE  plan'[i].kind = Wanted[i] /\ plan'[i].next = Begin(Wanted[i]) /\ plan'[i].last = UpTo(Wanted[i], recHead)
  BY <1>1 DEF item
<1> QED
  BY <1>2, <1>4, <1>5

\* The step after a chunk moves its plan past it, or drops the plan it ends.
LEMMA Saving ==
    ASSUME IInv, Save
    PROVE  /\ plan[1] \in Chunks /\ upto \in Nat
           /\ plan' \in Seq(Chunks)
           /\ \A i \in DOMAIN plan' :
                \/ \E j \in DOMAIN plan : plan'[i] = plan[j]
                \/ /\ plan'[i].kind = plan[1].kind /\ plan'[i].last = plan[1].last
                   /\ plan'[i].next = upto + 1 /\ upto # plan[1].last
<1>0. plan \in Seq(Chunks) /\ plan # <<>> /\ upto \in Nat
  BY DEF IInv, Types, Plans, Save
<1>1. 1 \in DOMAIN plan /\ plan[1] \in Chunks
  BY <1>0
<1>2. CASE upto = plan[1].last
  <2>1. plan' = Tail(plan)
    BY <1>2 DEF Save
  <2>2. plan' \in Seq(Chunks) /\ \A i \in DOMAIN plan' : i + 1 \in DOMAIN plan /\ plan'[i] = plan[i + 1]
    BY <1>0, <2>1
  <2> QED
    BY <1>0, <1>1, <2>2
<1>3. CASE upto # plan[1].last
  <2> DEFINE c == [plan[1] EXCEPT !.next = upto + 1]
  <2>1. c \in Chunks /\ c.kind = plan[1].kind /\ c.last = plan[1].last /\ c.next = upto + 1
    BY <1>0, <1>1 DEF Chunks
  <2>2. plan' = [plan EXCEPT ![1] = c]
    BY <1>3 DEF Save
  <2> HIDE DEF c
  <2>3. plan' \in Seq(Chunks) /\ DOMAIN plan' = DOMAIN plan
    BY <1>0, <2>1, <2>2
  <2>4. \A i \in DOMAIN plan : plan'[i] = IF i = 1 THEN c ELSE plan[i]
    BY <1>0, <2>2
  <2> QED
    BY <1>0, <1>1, <1>3, <2>1, <2>3, <2>4
<1> QED
  BY <1>2, <1>3

\* The range of a proof and its job are one commit.
LEMMA Committing ==
    ASSUME IInv, CommitRange
    PROVE  /\ Stage \in Stages /\ Current \in Kinds /\ upto \in Nat
           /\ job' \in [Stages -> [Kinds -> Jobs]]
           /\ \A s \in Stages, k \in Kinds :
                /\ job'[s][k].first = job[s][k].first /\ job'[s][k].last = job[s][k].last
                /\ s = Stage /\ k = Current => job'[s][k].next = upto + 1
                /\ s # Stage \/ k # Current => job'[s][k] = job[s][k]
<1>0. job \in [Stages -> [Kinds -> Jobs]] /\ upto \in Nat /\ Stage \in Stages /\ Current \in Kinds
  BY DEF IInv, Types, Stage, Stages, Current, Kinds
<1> DEFINE j == [job[Stage][Current] EXCEPT !.next = upto + 1]
           f == [job[Stage] EXCEPT ![Current] = j]
<1>1. job[Stage] \in [Kinds -> Jobs] /\ job[Stage][Current] \in Jobs
  BY <1>0
<1>2. /\ j \in Jobs /\ j.first = job[Stage][Current].first /\ j.last = job[Stage][Current].last
      /\ j.next = upto + 1
  BY <1>0, <1>1 DEF Jobs
<1>3. job' = [job EXCEPT ![Stage] = f]
  BY DEF CommitRange
<1> HIDE DEF j
<1>4. f \in [Kinds -> Jobs] /\ \A k \in Kinds : f[k] = IF k = Current THEN j ELSE job[Stage][k]
  BY <1>0, <1>1, <1>2
<1> HIDE DEF f
<1>5. job' \in [Stages -> [Kinds -> Jobs]] /\ \A s \in Stages : job'[s] = IF s = Stage THEN f ELSE job[s]
  BY <1>0, <1>3, <1>4
<1> QED
  BY <1>0, <1>2, <1>4, <1>5

\* A new job reads from its filter's base to the frozen head.
LEMMA PlanningJobs ==
    ASSUME IInv, PlanJobs
    PROVE  /\ job' \in [Stages -> [Kinds -> Jobs]]
           /\ \A s \in Stages, k \in Kinds :
                \/ job'[s][k] = job[s][k]
                \/ /\ Below(k, job'[s][k].next)
                   /\ job'[s][k].next <= job'[s][k].last /\ job'[s][k].last <= head
<1> DEFINE H == frozen[Stage]
           new == {k \in Missing : Base(k) <= H}
           g == [k \in Kinds |-> IF k \in new /\ job[Stage][k] = NoJob
                                 THEN [first |-> Base(k), next |-> Base(k), last |-> UpTo(k, H)]
                                 ELSE job[Stage][k]]
<1>0. job \in [Stages -> [Kinds -> Jobs]] /\ Stage \in Stages /\ H \in Nat /\ H <= head
      /\ Types /\ Graduation
  BY DEF IInv, Types, Heads, Stage, Stages
<1>1. job' = [job EXCEPT ![Stage] = g]
  BY DEF PlanJobs
<1>2. ASSUME NEW k \in Kinds
      PROVE  /\ g[k] \in Jobs
             /\ \/ g[k] = job[Stage][k]
                \/ Below(k, g[k].next) /\ g[k].next <= g[k].last /\ g[k].last <= head
  <2>1. job[Stage][k] \in Jobs
    BY <1>0
  <2>2. ASSUME k \in new
        PROVE  /\ [first |-> Base(k), next |-> Base(k), last |-> UpTo(k, H)] \in Jobs
               /\ Below(k, Base(k)) /\ Base(k) <= UpTo(k, H) /\ UpTo(k, H) <= head
    <3>1. k \in Required /\ Base(k) <= H
      BY <2>2 DEF Missing
    <3> HIDE DEF H
    <3>2. /\ Base(k) \in Nat /\ UpTo(k, H) \in Nat /\ UpTo(k, H) <= head
          /\ Below(k, Base(k)) /\ Base(k) <= UpTo(k, H)
      BY <1>0, <3>1, BoundsOfFilter
    <3> QED
      BY <3>2 DEF Jobs
  <2> QED
    BY <2>1, <2>2
<1> HIDE DEF new, H
<1>3. g \in [Kinds -> Jobs]
  <2> HIDE DEF g
  <2> QED
    BY <1>2 DEF g
<1> HIDE DEF g
<1>4. job' \in [Stages -> [Kinds -> Jobs]] /\ \A s \in Stages : job'[s] = IF s = Stage THEN g ELSE job[s]
  BY <1>0, <1>1, <1>3
<1> QED
  BY <1>2, <1>4

(***************************************************************************)
(* The steps.                                                              *)
(***************************************************************************)

\* Every variable keeps its type.
LEMMA TypesStep ==
    ASSUME IInv, [Next]_vars
    PROVE  Types'
<1>0. /\ Types /\ Graduation /\ Heads /\ Plans /\ Proofs
      /\ head \in Nat /\ grad \in Nat /\ recHead \in Nat /\ upto \in Nat /\ mined \subseteq Trades
      /\ cursor \in [Kinds -> Nat] /\ frozen \in [Stages -> Nat] /\ job \in [Stages -> [Kinds -> Jobs]]
      /\ plan \in Seq(Chunks)
  BY DEF IInv, Types
<1>1. CASE Idle
  <2>1. recHead' \in Nat /\ upto' \in Nat
    BY <1>0, <1>1, IdleKeeps
  <2>2. plan' \in Seq(Chunks)
    <3>1. <<>> \in Seq(Chunks)
      OBVIOUS
    <3> QED
      BY <1>0, <1>1, <3>1, IdleKeeps
  <2> QED
    BY <1>0, <1>1, <2>1, <2>2, IdleKeeps DEF Types
<1>2. CASE Mine
  <2>1. PICK T \in SUBSET [kind : Kinds, block : {head + 1}, n : 1..PerBlock] : mined' = mined \cup T
    BY <1>2 DEF Mine
  <2>2. head < MaxBlock /\ head' = head + 1 /\ grad' \in {grad, head + 1}
    BY <1>2 DEF Mine
  <2>3. T \subseteq Trades
    <3>1. head + 1 \in 1..MaxBlock
      BY <1>0, <2>2, BoundsAssumption
    <3> QED
      BY <3>1 DEF Trades
  <2> QED
    BY <1>0, <1>2, <2>1, <2>2, <2>3 DEF Mine, Types, work, proof
<1>3. CASE Learn \/ NothingToProve
  BY <1>0, <1>3 DEF Learn, NothingToProve, Types, chain, work, proof
<1>4. CASE ReadHead
  <2>1. recHead' \in Nat
    BY <1>0, <1>4, HeadGiven DEF ReadHead
  <2> QED
    BY <1>0, <1>4, <2>1 DEF ReadHead, Types, chain, work, proof
<1>5. CASE Plan
  BY <1>0, <1>5, Planning DEF Plan, Types, chain, proof
<1>6. CASE Fetch
  <2>1. 1 \in DOMAIN plan /\ plan[1] \in Chunks
    BY <1>0, <1>6 DEF Fetch
  <2>2. upto' \in Nat
    BY <1>6, <2>1 DEF Fetch, Chunks
  <2> QED
    BY <1>0, <1>6, <2>2 DEF Fetch, Types, chain, proof
<1>7. CASE Save
  <2>1. plan' \in Seq(Chunks) /\ plan[1].kind \in Kinds
    BY <1>7, Saving DEF Chunks
  <2>2. cursor' \in [Kinds -> Nat]
    BY <1>0, <1>7, <2>1 DEF Save
  <2> QED
    BY <1>0, <1>7, <2>1, <2>2 DEF Save, Types, chain
<1>8. CASE Freeze
  <2>1. Stage \in Stages
    BY DEF Stage, Stages
  <2>2. frozen' \in [Stages -> Nat]
    <3>1. CASE UNCHANGED frozen
      BY <1>0, <3>1
    <3>2. CASE \E h \in Greatest(1, head - HttpLag)..head : frozen' = [frozen EXCEPT ![Stage] = h]
      <4>1. PICK h \in Greatest(1, head - HttpLag)..head : frozen' = [frozen EXCEPT ![Stage] = h]
        BY <3>2
      <4>2. h \in Nat
        BY <1>0, HeadGiven
      <4> QED
        BY <1>0, <2>1, <4>1, <4>2
    <3> QED
      BY <1>8, <3>1, <3>2 DEF Freeze
  <2> QED
    BY <1>0, <1>8, <2>2 DEF Freeze, Types, chain, work
<1>9. CASE PlanJobs
  BY <1>0, <1>9, PlanningJobs DEF PlanJobs, Types, chain, work
<1>10. CASE Prove
  <2>1. Current \in Kinds /\ Stage \in Stages
    BY DEF Current, Kinds, Stage, Stages
  <2>2. job[Stage][Current].next \in Nat /\ job[Stage][Current].last \in Nat
    BY <1>0, <2>1 DEF Jobs
  <2>3. upto' \in Nat
    BY <1>10, <2>2 DEF Prove
  <2> QED
    BY <1>0, <1>10, <2>3 DEF Prove, Types, chain, proof
<1>11. CASE CommitRange
  BY <1>0, <1>11, Committing DEF CommitRange, Types, chain
<1>12. CASE Promote
  <2>1. Stage \in Stages
    BY DEF Stage, Stages
  <2>2. \A k \in Kinds : job[Stage][k].last \in Nat
    BY <1>0, <2>1 DEF Jobs
  <2>3. cursor' \in [Kinds -> Nat] /\ recHead' = 0
    BY <1>0, <1>12, <2>2 DEF Promote, Bootstrapped, Greatest, Planned
  <2> QED
    BY <1>0, <1>12, <2>3 DEF Promote, Types, chain, work
<1> QED
  BY <1>1, <1>2, <1>3, <1>4, <1>5, <1>6, <1>7, <1>8, <1>9, <1>10, <1>11, <1>12, Steps

\* The worker knows no other graduation than the chain's, and no pool trades before it.
LEMMA GraduationStep ==
    ASSUME IInv, [Next]_vars
    PROVE  Graduation'
<1>0. Types /\ Graduation /\ head \in Nat /\ grad \in Nat
  BY DEF IInv, Types
<1>1. CASE Mine
  <2>1. PICK g \in {grad} \cup (IF grad = 0 THEN Grads \cap {head + 1} ELSE {}),
             T \in SUBSET [kind : Kinds, block : {head + 1}, n : 1..PerBlock] :
          /\ mined' = mined \cup T /\ grad' = g
          /\ \A t \in T : t.kind = "v4" => g # 0
    BY <1>1 DEF Mine
  <2>2. \A t \in T : t.block = head + 1
    BY <2>1
  <2>3. head' = head + 1 /\ learned' = learned /\ gradKnown' = gradKnown
    BY <1>1 DEF Mine, target
  <2>4. g = grad \/ (grad = 0 /\ g = head + 1)
    BY <2>1
  <2>5. g <= head' /\ gradKnown' \in {0, grad'} /\ (learned' => grad' # 0)
    BY <1>0, <2>1, <2>3, <2>4 DEF Graduation
  <2>6. ASSUME NEW t \in mined' PROVE t.block <= head' /\ (t.kind = "v4" => grad' # 0 /\ grad' <= t.block)
    <3>1. CASE t \in mined
      <4>1. t.block \in Nat /\ t.block <= head /\ (t.kind = "v4" => grad # 0 /\ grad <= t.block)
        <5>1. mined \subseteq Trades /\ MaxBlock \in Nat
          BY <1>0, BoundsAssumption DEF Types
        <5>2. t.block \in 1..MaxBlock
          BY <3>1, <5>1 DEF Trades
        <5> QED
          BY <1>0, <3>1, <5>1, <5>2 DEF Graduation
      <4> QED
        BY <1>0, <2>1, <2>3, <2>4, <4>1
    <3>2. CASE t \in T
      BY <1>0, <2>1, <2>2, <2>3, <2>4, <3>2 DEF Graduation
    <3> QED
      BY <2>1, <3>1, <3>2
  <2> QED
    BY <2>1, <2>5, <2>6 DEF Graduation
<1>2. CASE UNCHANGED <<head, mined, grad>> /\ gradKnown' \in {gradKnown, grad} /\ (learned' => grad # 0)
  BY <1>0, <1>2 DEF Graduation
<1>3. Mine \/ (UNCHANGED <<head, mined, grad>> /\ gradKnown' \in {gradKnown, grad} /\ (learned' => grad # 0))
  <2>1. CASE Idle
    <3>1. learned' = learned \/ grad # 0
      <4>1. CASE Start \/ Connect \/ NoticeLoss \/ ConnectFails \/ Backoff \/ Crash
        BY <4>1 DEF Start, Connect, NoticeLoss, ConnectFails, HandleLoss, Backoff, Crash, chain
      <4>2. CASE Tick \/ Expire \/ Discover \/ Ensure \/ Subscribe \/ Drain \/ Finish
        BY <4>2 DEF Tick, Expire, Discover, Ensure, Subscribe, Drain, Finish, chain
      <4>3. CASE HeadFails \/ PlanRefused \/ FetchFails \/ Recovered \/ ProofFails \/ PromoteTooLate
        BY <4>3 DEF HeadFails, PlanRefused, FetchFails, Recovered, ProofFails, PromoteTooLate, chain
      <4>4. CASE BaseLearns \/ Deliver \/ LinkDies \/ UNCHANGED vars
        BY <4>4 DEF BaseLearns, Deliver, LinkDies, vars, chain
      <4> QED
        BY <2>1, <4>1, <4>2, <4>3, <4>4 DEF Idle
    <3> QED
      BY <1>0, <2>1, <3>1, IdleKeeps DEF Graduation
  <2>2. CASE Learn
    BY <1>0, <2>2 DEF Learn, chain, Graduation
  <2>3. CASE ReadHead \/ Plan \/ Fetch \/ Save
    BY <1>0, <2>3 DEF ReadHead, Plan, Fetch, Save, chain, target, Graduation
  <2>4. CASE Freeze \/ PlanJobs \/ Prove \/ CommitRange \/ NothingToProve \/ Promote
    BY <1>0, <2>4 DEF Freeze, PlanJobs, Prove, CommitRange, NothingToProve, Promote, chain, target, Graduation
  <2> QED
    BY <2>1, <2>2, <2>3, <2>4, Steps
<1> QED
  BY <1>1, <1>2, <1>3

\* No proof and no recovery looks beyond the chain.
LEMMA HeadsStep ==
    ASSUME IInv, [Next]_vars
    PROVE  Heads'
<1>0. Types /\ Heads /\ head \in Nat /\ recHead \in Nat /\ frozen \in [Stages -> Nat]
  BY DEF IInv, Types
<1>1. CASE Idle
  BY <1>0, <1>1, IdleKeeps DEF Heads
<1>2. CASE Mine
  BY <1>0, <1>2 DEF Mine, Heads, proof
<1>3. CASE Learn \/ Plan \/ Fetch \/ Save \/ PlanJobs \/ Prove \/ CommitRange \/ NothingToProve
  BY <1>0, <1>3 DEF Learn, Plan, Fetch, Save, PlanJobs, Prove, CommitRange, NothingToProve, Heads, chain, proof
<1>4. CASE ReadHead
  BY <1>0, <1>4, HeadGiven DEF ReadHead, Heads, chain, proof
<1>5. CASE Freeze
  <2>1. CASE UNCHANGED frozen
    BY <1>0, <1>5, <2>1 DEF Freeze, Heads, chain
  <2>2. CASE \E h \in Greatest(1, head - HttpLag)..head : frozen' = [frozen EXCEPT ![Stage] = h]
    BY <1>0, <1>5, <2>2, HeadGiven DEF Freeze, Heads, chain
  <2> QED
    BY <1>5, <2>1, <2>2 DEF Freeze
<1>6. CASE Promote
  BY <1>0, <1>6 DEF Promote, Bootstrapped, Heads, chain
<1> QED
  BY <1>1, <1>2, <1>3, <1>4, <1>5, <1>6, Steps

\* Every trade of a filter up to its cursor is stored, and the cursor is on the chain.
LEMMA CursorsStep ==
    ASSUME IInv, [Next]_vars
    PROVE  Cursors'
<1>0. /\ Types /\ Cursors /\ Plans /\ Proofs /\ head \in Nat /\ cursor \in [Kinds -> Nat]
      /\ \A k, n : n \in Int /\ Below(k, n) => Later(k, n)
  BY BelowKept DEF IInv, Types
<1>1. \A k \in Kinds : Later(k, cursor[k] + 1)
  BY <1>0 DEF Cursors
<1> SUFFICES \A k \in Kinds : Later(k, cursor'[k] + 1)
  BY DEF Cursors, Below, Later
<1>2. CASE UNCHANGED cursor
  BY <1>1, <1>2
<1>3. CASE Save
  <2>1. plan[1].kind \in Kinds /\ upto + 1 \in Int /\ Below(plan[1].kind, upto + 1)
    BY <1>0, <1>3, Saving DEF Save, Plans, Chunks
  <2>2. Later(plan[1].kind, upto + 1)
    BY <1>0, <2>1
  <2>3. cursor' = [cursor EXCEPT ![plan[1].kind] = upto]
    BY <1>3 DEF Save
  <2> QED
    BY <1>0, <1>1, <2>1, <2>2, <2>3
<1>4. CASE Promote
  <2> DEFINE j(k) == job[Stage][k]
  <2>1. Stage \in Stages /\ Planned \subseteq Kinds /\ Unproved = {}
    BY <1>0, <1>4 DEF Stage, Stages, Planned, Promote, Proofs
  <2>2. ASSUME NEW k \in Planned PROVE Later(k, j(k).last + 1) /\ j(k).last \in Nat
    <3>1. k \in Kinds /\ Below(k, j(k).next) /\ j(k).next <= j(k).last + 1 /\ j(k).last <= head
          /\ j(k).next \in Nat /\ j(k).last \in Nat
      BY <1>0, <2>1, <2>2 DEF Proofs, Types, Jobs
    <3>2. ~(j(k).next <= j(k).last)
      BY <2>1, <2>2 DEF Unproved
    <3>3. j(k).next = j(k).last + 1
      BY <3>1, <3>2
    <3> QED
      BY <1>0, <3>1, <3>3
  <2>3. cursor' = [k \in Kinds |-> IF k \in Planned THEN Greatest(cursor[k], j(k).last) ELSE cursor[k]]
    BY <1>4 DEF Promote
  <2> HIDE DEF j
  <2>4. ASSUME NEW k \in Kinds PROVE Later(k, cursor'[k] + 1)
    <3>1. cursor'[k] = cursor[k] \/ (k \in Planned /\ cursor'[k] = j(k).last)
      BY <2>3 DEF Greatest
    <3> QED
      BY <1>1, <2>2, <3>1
  <2> QED
    BY <2>4
<1>5. UNCHANGED cursor \/ Save \/ Promote
  <2>1. CASE Idle
    BY <2>1, IdleKeeps
  <2>2. CASE Mine \/ Learn \/ ReadHead \/ Plan \/ Fetch
    BY <2>2 DEF Mine, Learn, ReadHead, Plan, Fetch, proof
  <2>3. CASE Freeze \/ PlanJobs \/ Prove \/ CommitRange \/ NothingToProve
    BY <2>3 DEF Freeze, PlanJobs, Prove, CommitRange, NothingToProve, proof
  <2> QED
    BY <2>1, <2>2, <2>3, Steps
<1> QED
  BY <1>2, <1>3, <1>4, <1>5

\* Where the steps that read nothing and write no proof leave the worker.
LEMMA IdlePhases ==
    ASSUME Idle
    PROVE  /\ pc' = "save" => pc = "save" /\ UNCHANGED <<plan, upto>>
           /\ pc' = "range" => pc = "range" /\ UNCHANGED upto
           /\ pc' = "promote" => pc = "promote"
           /\ plan' # <<>> => plan' = plan /\ (pc' = pc \/ pc \notin {"fetch", "save"})
<1>1. CASE Start \/ Connect \/ NoticeLoss \/ ConnectFails
  BY <1>1 DEF Start, Connect, NoticeLoss, ConnectFails, HandleLoss, NeedsSocket, work
<1>2. CASE Backoff \/ Crash \/ Tick \/ Expire
  BY <1>2 DEF Backoff, Crash, Tick, Expire, work
<1>3. CASE Discover \/ Ensure
  BY <1>3 DEF Discover, Ensure, work
<1>4. CASE Drain \/ Finish
  BY <1>4 DEF Drain, Finish, work
<1>5. CASE Subscribe
  BY <1>5 DEF Subscribe, Subscribing, work
<1>6. CASE HeadFails \/ PlanRefused \/ FetchFails
  BY <1>6 DEF HeadFails, PlanRefused, FetchFails, work
<1>7. CASE Recovered \/ ProofFails \/ PromoteTooLate
  BY <1>7 DEF Recovered, ProofFails, PromoteTooLate, work
<1>8. CASE BaseLearns \/ Deliver \/ LinkDies \/ UNCHANGED vars
  BY <1>8 DEF BaseLearns, Deliver, LinkDies, vars, work
<1> QED
  BY <1>1, <1>2, <1>3, <1>4, <1>5, <1>6, <1>7, <1>8 DEF Idle

\* A chunk that was read leaves nothing of its filter out.
LEMMA ChunkRead ==
    ASSUME Types, NEW k, NEW n \in Nat, NEW to \in Nat, Below(k, n), to <= head,
           UNCHANGED <<head, mined>>, stored \subseteq stored', InWindow(Logs(k, n, to)) \subseteq stored'
    PROVE  Later(k, to + 1)
<1>1. head \in Nat
  BY DEF Types
<1>2. ASSUME NEW t \in InWindow(mined), t.kind = k, t.block < to + 1 PROVE t \in stored'
  <2>1. mined \subseteq Trades /\ t \in mined /\ t.block <= EndBlock
    BY DEF InWindow, Types
  <2>2. t.block \in 1..MaxBlock
    BY <2>1 DEF Trades
  <2>3. t.block \in Nat
    BY <2>2, BoundsAssumption
  <2>4. CASE t.block < n
    BY <1>2, <2>4 DEF Below
  <2>5. CASE ~(t.block < n)
    <3>1. t.block \in n..to
      BY <1>2, <2>3, <2>5
    <3> QED
      BY <1>2, <2>1, <3>1 DEF InWindow, Logs
  <2> QED
    BY <2>4, <2>5
<1> QED
  BY <1>1, <1>2 DEF Later

\* A plan lives between two awaits of a recovery; its cursor is written after its events.
LEMMA PlansStep ==
    ASSUME IInv, [Next]_vars
    PROVE  Plans'
<1> DEFINE Items(p) == \A i \in DOMAIN p :
        Later(p[i].kind, p[i].next) /\ p[i].next <= p[i].last /\ p[i].last <= head'
<1>0. /\ Types /\ Types' /\ Plans /\ Heads /\ head \in Nat /\ head' \in Nat /\ head <= head' /\ plan \in Seq(Chunks)
      /\ \A k, n : n \in Int /\ Below(k, n) => Later(k, n)
  <2>1. head <= head'
    <3>1. CASE Idle
      BY <3>1, IdleKeeps DEF IInv, Types
    <3>2. CASE Mine \/ Learn \/ ReadHead \/ Plan \/ Fetch \/ Save \/ Freeze
      BY <3>2 DEF Mine, Learn, ReadHead, Plan, Fetch, Save, Freeze, chain, IInv, Types
    <3>3. CASE PlanJobs \/ Prove \/ CommitRange \/ NothingToProve \/ Promote
      BY <3>3 DEF PlanJobs, Prove, CommitRange, NothingToProve, Promote, chain, IInv, Types
    <3> QED
      BY <3>1, <3>2, <3>3, Steps
  <2> QED
    BY <2>1, BelowKept, TypesStep DEF IInv, Types
<1>1. Items(plan)
  <2>1. ASSUME NEW i \in DOMAIN plan
        PROVE  Later(plan[i].kind, plan[i].next) /\ plan[i].next <= plan[i].last /\ plan[i].last <= head'
    <3>1. plan[i] \in Chunks
      BY <1>0, <2>1
    <3>2. Below(plan[i].kind, plan[i].next) /\ plan[i].next <= plan[i].last /\ plan[i].last <= head
          /\ plan[i].next \in Int /\ plan[i].last \in Nat
      BY <1>0, <2>1, <3>1 DEF Plans, Chunks
    <3> QED
      BY <1>0, <3>2
  <2> QED
    BY <2>1
<1> HIDE DEF Items
<1> SUFFICES /\ Items(plan')
             /\ plan' # <<>> => pc' \in {"fetch", "save"}
             /\ pc' = "save" => /\ plan' # <<>> /\ upto' \in plan'[1].next..plan'[1].last
                                /\ Later(plan'[1].kind, upto' + 1)
  BY DEF Plans, Items, Below, Later
<1>2. Items(<<>>)
  BY DEF Items
<1>3. CASE Idle \/ Mine
  <2>1. /\ pc' = "save" => pc = "save" /\ UNCHANGED <<plan, upto>>
        /\ plan' # <<>> => plan' = plan /\ (pc' = pc \/ pc \notin {"fetch", "save"})
    BY <1>3, IdlePhases DEF Mine, work
  <2>2. Items(plan')
    BY <1>1, <1>2, <2>1
  <2>3. ASSUME pc' = "save" PROVE Later(plan[1].kind, upto + 1)
    <3>1. upto + 1 \in Int /\ Below(plan[1].kind, upto + 1)
      BY <1>0, <2>1, <2>3 DEF Plans, Types
    <3> QED
      BY <1>0, <3>1
  <2> QED
    BY <1>0, <2>1, <2>2, <2>3 DEF Plans
<1>4. CASE Learn \/ ReadHead \/ Freeze \/ PlanJobs \/ Prove \/ CommitRange \/ NothingToProve \/ Promote
  <2>1. plan = <<>> /\ plan' = plan /\ pc' # "save"
    BY <1>0, <1>4 DEF Learn, ReadHead, Freeze, PlanJobs, Prove, CommitRange, NothingToProve, Promote, Plans, work
  <2> QED
    BY <1>2, <2>1
<1>5. CASE Plan
  <2>1. pc' = "fetch" /\ head' = head
    BY <1>5 DEF Plan, chain
  <2>2. ASSUME NEW i \in DOMAIN plan'
        PROVE  Later(plan'[i].kind, plan'[i].next) /\ plan'[i].next <= plan'[i].last /\ plan'[i].last <= head'
    <3>0. plan' \in Seq(Chunks)
      BY <1>0, <1>5, Planning
    <3>c. plan'[i] \in Chunks
      BY <2>2, <3>0
    <3>1. plan'[i].next \in Int
      BY <3>c DEF Chunks
    <3> QED
      BY <1>0, <1>5, <2>1, <2>2, <3>1, Planning
  <2> QED
    BY <2>1, <2>2 DEF Items
<1>6. CASE Fetch
  <2>1. plan' = plan /\ plan # <<>> /\ pc' = "save" /\ UNCHANGED <<head, mined>> /\ stored \subseteq stored'
    BY <1>6 DEF Fetch, Ingest, chain
  <2>2. plan[1] \in Chunks /\ 1 \in DOMAIN plan
    BY <1>0, <2>1
  <2>3. /\ plan[1].next \in Nat /\ plan[1].last \in Nat /\ Below(plan[1].kind, plan[1].next)
        /\ plan[1].last <= head
    BY <1>0, <2>2 DEF Plans, Chunks
  <2>4. PICK to \in plan[1].next..Least(plan[1].last, plan[1].next + Chunk - 1) :
          /\ upto' = to /\ InWindow(Logs(plan[1].kind, plan[1].next, to)) \subseteq stored'
    BY <1>6 DEF Fetch, Ingest
  <2>5. to \in plan[1].next..plan[1].last /\ to \in Nat /\ to <= head
    <3> DEFINE n == plan[1].next
               l == plan[1].last
    <3>1. n \in Nat /\ l \in Nat /\ l <= head /\ Chunk \in Nat
      BY <2>3, BoundsAssumption
    <3>2. to \in n..Least(l, n + Chunk - 1)
      BY <2>4
    <3> HIDE DEF n, l
    <3>3. Least(l, n + Chunk - 1) \in Int /\ Least(l, n + Chunk - 1) <= l
      BY <3>1 DEF Least
    <3>4. to \in n..l /\ to \in Nat /\ to <= head
      BY <1>0, <3>1, <3>2, <3>3
    <3> QED
      BY <3>4 DEF n, l
  <2>6. Later(plan[1].kind, to + 1)
    BY <1>0, <2>1, <2>3, <2>4, <2>5, ChunkRead
  <2> QED
    BY <1>1, <2>1, <2>4, <2>5, <2>6
<1>7. CASE Save
  <2>1. pc' = "fetch" /\ UNCHANGED head /\ pc = "save"
    BY <1>7 DEF Save, chain
  <2>2. plan # <<>> /\ upto \in plan[1].next..plan[1].last /\ Below(plan[1].kind, upto + 1) /\ 1 \in DOMAIN plan
    BY <1>0, <2>1 DEF Plans
  <2>3. plan[1].next \in Nat /\ plan[1].last \in Nat /\ upto \in Nat /\ plan[1].last <= head'
    BY <1>1, <1>7, <2>2, Saving DEF Chunks, Items
  <2>4. Later(plan[1].kind, upto + 1)
    BY <1>0, <2>2, <2>3
  <2>5. ASSUME NEW i \in DOMAIN plan'
        PROVE  Later(plan'[i].kind, plan'[i].next) /\ plan'[i].next <= plan'[i].last /\ plan'[i].last <= head'
    <3>1. CASE \E j \in DOMAIN plan : plan'[i] = plan[j]
      BY <1>1, <3>1 DEF Items
    <3>2. CASE /\ plan'[i].kind = plan[1].kind /\ plan'[i].last = plan[1].last
               /\ plan'[i].next = upto + 1 /\ upto # plan[1].last
      BY <2>2, <2>3, <2>4, <3>2
    <3> QED
      BY <1>7, <2>5, <3>1, <3>2, Saving
  <2> QED
    BY <2>1, <2>5 DEF Items
<1> QED
  BY <1>3, <1>4, <1>5, <1>6, <1>7, Steps

\* A job outlives the process; its range is written after its events, and it is promoted when done.
LEMMA ProofsStep ==
    ASSUME IInv, [Next]_vars
    PROVE  Proofs'
<1> DEFINE Sound(j) == \A s \in Stages, k \in Kinds :
        Later(k, j[s][k].next) /\ j[s][k].next <= j[s][k].last + 1 /\ j[s][k].last <= head'
<1>0. /\ Types /\ Types' /\ Proofs /\ head \in Nat /\ head' \in Nat /\ job \in [Stages -> [Kinds -> Jobs]]
      /\ \A k, n : n \in Int /\ Below(k, n) => Later(k, n)
      /\ Stage \in Stages /\ Current \in Kinds
  <2>1. Stage \in Stages /\ Current \in Kinds
    BY DEF Stage, Stages, Current, Kinds
  <2> QED
    BY <2>1, BelowKept, TypesStep DEF IInv, Types
<1>1. head <= head'
  <2>1. CASE Idle
    BY <1>0, <2>1, IdleKeeps
  <2>2. CASE Mine \/ Learn \/ ReadHead \/ Plan \/ Fetch \/ Save \/ Freeze
    BY <1>0, <2>2 DEF Mine, Learn, ReadHead, Plan, Fetch, Save, Freeze, chain
  <2>3. CASE PlanJobs \/ Prove \/ CommitRange \/ NothingToProve \/ Promote
    BY <1>0, <2>3 DEF PlanJobs, Prove, CommitRange, NothingToProve, Promote, chain
  <2> QED
    BY <2>1, <2>2, <2>3, Steps
<1>2. Sound(job)
  <2> SUFFICES ASSUME NEW s \in Stages, NEW k \in Kinds
               PROVE  Later(k, job[s][k].next) /\ job[s][k].next <= job[s][k].last + 1 /\ job[s][k].last <= head'
    OBVIOUS
  <2>1. job[s][k] \in Jobs
    BY <1>0
  <2>2. job[s][k].next \in Int /\ job[s][k].last \in Nat
    BY <2>1 DEF Jobs
  <2>3. Below(k, job[s][k].next) /\ job[s][k].next <= job[s][k].last + 1 /\ job[s][k].last <= head
    BY <1>0 DEF Proofs
  <2> QED
    BY <1>0, <1>1, <2>2, <2>3
<1> HIDE DEF Sound
<1> SUFFICES /\ Sound(job')
             /\ pc' = "range" => /\ Unproved' # {}
                                 /\ upto' \in job'[Stage'][Current'].next..job'[Stage'][Current'].last
                                 /\ Later(Current', upto' + 1)
             /\ pc' = "promote" => Unproved' = {}
  BY DEF Proofs, Sound, Below, Later
<1>3. CASE UNCHANGED <<job, gradKnown>> /\ (pc' = "range" => pc = "range" /\ UNCHANGED upto)
           /\ (pc' = "promote" => Unproved = {})
  <2>1. Stage' = Stage /\ Planned' = Planned
    BY <1>3 DEF Stage, Planned
  <2>2. Unproved' = Unproved
    BY <1>3, <2>1 DEF Unproved
  <2>3. Current' = Current
    BY <2>2 DEF Current
  <2>4. ASSUME pc' = "range" PROVE Later(Current, upto + 1)
    <3>1. upto + 1 \in Int /\ Below(Current, upto + 1)
      BY <1>0, <1>3, <2>4 DEF Proofs, Types
    <3> QED
      BY <1>0, <3>1
  <2> QED
    BY <1>0, <1>2, <1>3, <2>1, <2>2, <2>3, <2>4 DEF Proofs
<1>4. CASE Idle
  <2>1. pc' = "promote" => Unproved = {}
    BY <1>0, <1>4, IdlePhases DEF Proofs
  <2> QED
    BY <1>3, <1>4, <2>1, IdleKeeps, IdlePhases
<1>5. CASE Mine
  <2>1. pc' = "promote" => Unproved = {}
    BY <1>0, <1>5 DEF Mine, Proofs
  <2> QED
    BY <1>3, <1>5, <2>1 DEF Mine, work, proof, target
<1>6. CASE ReadHead \/ Plan \/ Fetch \/ Save \/ Freeze
  <2>1. UNCHANGED <<job, gradKnown>> /\ pc' \notin {"range", "promote"}
    BY <1>6 DEF ReadHead, Plan, Fetch, Save, Freeze, proof, target
  <2> QED
    BY <1>3, <2>1
<1>7. CASE NothingToProve
  BY <1>3, <1>7 DEF NothingToProve, work, proof, target
<1>8. CASE Learn
  BY <1>2, <1>8 DEF Learn, proof
<1>9. CASE PlanJobs
  <2>1. pc' = "proof" /\ head' = head
    BY <1>9 DEF PlanJobs, chain
  <2>2. ASSUME NEW s \in Stages, NEW k \in Kinds
        PROVE  Later(k, job'[s][k].next) /\ job'[s][k].next <= job'[s][k].last + 1 /\ job'[s][k].last <= head'
    <3>1. job'[s][k] \in Jobs
      BY <1>9, PlanningJobs
    <3>2. job'[s][k].next \in Nat /\ job'[s][k].last \in Nat
      BY <3>1 DEF Jobs
    <3>3. CASE job'[s][k] = job[s][k]
      BY <1>2, <3>3 DEF Sound
    <3>4. CASE /\ Below(k, job'[s][k].next)
               /\ job'[s][k].next <= job'[s][k].last /\ job'[s][k].last <= head
      BY <1>0, <2>1, <3>2, <3>4
    <3> QED
      BY <1>9, <3>3, <3>4, PlanningJobs
  <2> QED
    BY <2>1, <2>2 DEF Sound
<1>10. CASE Prove
  <2> DEFINE j == job[Stage][Current]
  <2>1. /\ UNCHANGED <<job, gradKnown, head, mined>> /\ pc' = "range" /\ Unproved # {} /\ stored \subseteq stored'
    BY <1>10 DEF Prove, Ingest, proof, target, chain
  <2>2. Stage' = Stage /\ Planned' = Planned
    BY <2>1 DEF Stage, Planned
  <2>3. Unproved' = Unproved
    BY <2>1, <2>2 DEF Unproved
  <2>4. Current' = Current
    BY <2>3 DEF Current
  <2>5. j \in Jobs /\ Below(Current, j.next) /\ j.last <= head
    BY <1>0 DEF Proofs
  <2>6. j.next \in Nat /\ j.last \in Nat
    BY <2>5 DEF Jobs
  <2>7. PICK to \in j.next..Least(j.last, j.next + Span - 1) :
          upto' = to /\ InWindow(queue \cup Logs(Current, j.next, to)) \subseteq stored'
    BY <1>10 DEF Prove, Ingest
  <2> HIDE DEF j
  <2>8. to \in j.next..j.last /\ to \in Nat /\ to <= head
    BY <1>0, <2>5, <2>6, <2>7, BoundsAssumption DEF Least
  <2>9. InWindow(Logs(Current, j.next, to)) \subseteq stored'
    BY <2>7 DEF InWindow
  <2>10. Later(Current, to + 1)
    BY <1>0, <2>1, <2>5, <2>6, <2>8, <2>9, ChunkRead
  <2> QED
    BY <1>2, <2>1, <2>2, <2>3, <2>4, <2>7, <2>8, <2>10 DEF j
<1>11. CASE CommitRange
  <2> DEFINE j == job[Stage][Current]
  <2>1. pc = "range" /\ pc' \in {"promote", "finish"} /\ UNCHANGED <<head, gradKnown>>
        /\ (pc' = "promote" => Unproved = {Current} /\ upto = j.last)
    BY <1>11 DEF CommitRange, chain, target
  <2>2. j \in Jobs /\ upto \in j.next..j.last /\ Below(Current, upto + 1) /\ j.last <= head
    BY <1>0, <2>1 DEF Proofs
  <2>3. j.next \in Nat /\ j.last \in Nat
    BY <2>2 DEF Jobs
  <2> HIDE DEF j
  <2>4. Later(Current, upto + 1) /\ upto + 1 <= j.last + 1 /\ upto \in Nat
    <3>1. upto \in Nat
      BY <1>0 DEF Types
    <3>2. Later(Current, upto + 1)
      BY <1>0, <2>2, <3>1
    <3> QED
      BY <2>2, <2>3, <3>1, <3>2
  <2> USE DEF j
  <2>5. /\ \A s \in Stages, k \in Kinds :
                /\ job'[s][k].last = job[s][k].last
                /\ s = Stage /\ k = Current => job'[s][k].next = upto + 1
                /\ s # Stage \/ k # Current => job'[s][k] = job[s][k]
    BY <1>11, Committing
  <2>6. Sound(job')
    BY <1>2, <2>1, <2>4, <2>5 DEF Sound
  <2>7. ASSUME pc' = "promote" PROVE Unproved' = {}
    <3>1. Stage' = Stage /\ \A k \in Kinds \ {Current} : job'[Stage][k] = job[Stage][k]
      BY <1>0, <2>1, <2>5 DEF Stage
    <3>2. \A k \in Kinds \ {Current} : k \notin Unproved'
      BY <2>1, <2>7, <3>1 DEF Unproved, Planned
    <3>3. job'[Stage][Current].next = upto + 1 /\ job'[Stage][Current].last = upto
      BY <1>0, <2>1, <2>5, <2>7
    <3>4. Current \notin Unproved'
      BY <2>4, <3>1, <3>3 DEF Unproved
    <3>5. Unproved' \subseteq Kinds
      BY DEF Unproved, Planned
    <3> QED
      BY <3>2, <3>4, <3>5
  <2> QED
    BY <2>1, <2>6, <2>7
<1>12. CASE Promote
  BY <1>2, <1>12 DEF Promote
<1> QED
  BY <1>4, <1>5, <1>6, <1>7, <1>8, <1>9, <1>10, <1>11, <1>12, Steps

(***************************************************************************)
(* The theorems.                                                           *)
(***************************************************************************)

\* The inductive invariant of the worker of one target.
THEOREM InductiveInvariant == Spec => []IInv
<1>1. IInv /\ [Next]_vars => IInv'
  BY TypesStep, GraduationStep, HeadsStep, CursorsStep, PlansStep, ProofsStep DEF IInv
<1> QED
  BY <1>1, InitInvariant, PTL DEF Spec

\* CursorProved (flow_worker.py, recover_plans; flow_bootstrap.py, promote): every trade of a filter
\* up to its cursor is stored, whatever crashed, failed or was lost between reading and saving.
THEOREM CursorsAreProofs == Spec => []CursorProved
<1>1. IInv => CursorProved
  <2> SUFFICES ASSUME IInv, NEW k \in Kinds, NEW t \in InWindow(mined), t.kind = k, t.block <= cursor[k]
               PROVE  t \in stored
    BY DEF CursorProved
  <2>1. cursor[k] \in Nat /\ mined \subseteq Trades /\ t \in mined
    BY DEF IInv, Types, InWindow
  <2>2. t.block \in 1..MaxBlock
    BY <2>1 DEF Trades
  <2>3. t.block < cursor[k] + 1
    BY <2>1, <2>2, BoundsAssumption
  <2> QED
    BY <2>3 DEF IInv, Cursors, Below
<1> QED
  BY <1>1, InductiveInvariant, PTL

(***************************************************************************)
(* What is missing is visible.                                             *)
(*                                                                         *)
(* For a token that does not graduate and a provider that answers with     *)
(* the head of the chain: with a head that trails, a recovery closes the   *)
(* gap of trades above that head, and in the graduation block the proof of *)
(* the pool filters closes an outage of the curve filter.                  *)
(*                                                                         *)
(* The argument.  A trade is lost when it is neither stored nor on its way.*)
(* It is lost above the coverage mark, in an outage; until the worker has  *)
(* noticed, the trade is fresh, and when it notices, it opens a gap at the *)
(* mark before the mark can move.  While the socket holds, what was lost   *)
(* was lost before the subscription, so below the head a recovery reads    *)
(* after it.  A gap closes with a recovery, when nothing is lost, or with  *)
(* the proof of a range that ends above the gap's own end.                 *)
(***************************************************************************)
Prompt == HttpLag = 0 /\ Grads = {}

First      == "live_bootstrap"
Recovering == {"freeze", "jobs", "proof", "range", "promote", "head", "plan", "fetch", "save"}
Lost       == InWindow(mined) \ (stored \cup queue \cup inflight)

\* The token does not graduate: one filter, one stage.
OnlyCurve == grad = 0 /\ ~learned /\ gradKnown = 0 /\ \A t \in mined : t.kind = "curve"

Shapes ==
    /\ covEnd \in Int /\ covEnd <= Now /\ seen \in Nat
    /\ \A g \in gaps : g.start \in Int /\ g.end \in Int
    /\ stored \subseteq mined /\ queue \subseteq mined /\ inflight \subseteq mined
    /\ subs \in {{}, {"curve"}} /\ tracked \in BOOLEAN

\* Where the worker can be, and what it has committed to get there.
Places ==
    /\ link \in {"none", "up", "dead"} /\ (link = "none" <=> pc \in {"start", "down", "backoff"})
    /\ pc \in {"start", "down"} => subs = {}
    /\ pc \in {"enlist", "expire", "learn", "subscribe"} \cup Recovering => Active
    /\ pc = "discover" => ~tracked
    /\ pc # "ensure"
    /\ pc \in Recovering => subs # {}
    /\ subs # {} \/ pc = "subscribe" \/ frozen[First] # 0 \/ cursor["curve"] # 0 => boot["curve"] # "none"
    /\ boot["curve"] # "none" => tracked
    /\ status # "active" => tracked /\ (subs = {} \/ pc = "backoff")
    /\ tracked \/ link # "none" => connectedOnce

\* What a proof has in hand: one job, from the launch to the frozen head.
Proving ==
    /\ pc \in {"jobs", "proof", "range", "promote"} => frozen[First] # 0
    /\ job[First]["v4"] = NoJob
    /\ job[First]["curve"] # NoJob =>
          /\ frozen[First] # 0
          /\ job[First]["curve"].first = Launch /\ job[First]["curve"].last = frozen[First]
    /\ pc = "promote" => job[First]["curve"] # NoJob

\* What a recovery has in hand: one plan, to the head it read; when it is done, all below is stored.
Replaying ==
    /\ pc \in {"plan", "fetch", "save"} => recHead # 0
    /\ plan # <<>> => Len(plan) = 1 /\ plan[1].kind = "curve" /\ plan[1].last = recHead
    /\ pc = "fetch" /\ plan = <<>> => \A t \in InWindow(mined) : t.block <= recHead => t \in stored

\* What is on its way is above the mark, and not older than a live socket allows.
Flight ==
    /\ \A t \in queue \cup inflight : t \in stored \/ At(t.block) > covEnd
    /\ link = "up" => \A t \in inflight : t.block > head - Lag
    /\ link # "up" => inflight = {}

\* While the socket holds, the trades that are lost are below the head the recovery reads.
Heard ==
    /\ link = "up" /\ subs # {} =>
          /\ ~pending => Lost = {}
          /\ recHead # 0 => \A t \in Lost : t.block <= recHead
    /\ link = "dead" /\ subs # {} /\ recHead # 0 =>
          \A t \in Lost : t.block <= recHead \/ At(t.block) > covEnd

\* Lost above the mark by an outage the worker has still to notice.
Fresh(t) == At(t.block) > covEnd /\ (link = "dead" \/ pc = "start" \/ status # "active")

\* A gap the proof of the first stage does not close.
Outlasts(g) == g.reason # BootstrapRequired("curve") /\ g.end > At(frozen[First])

Visible ==
    tracked /\ boot["curve"] # "none" =>
        \A t \in Lost :
            \/ Fresh(t)
            \/ \E g \in gaps : /\ g.start <= At(t.block)
                               /\ frozen[First] # 0 /\ t.block > frozen[First] => Outlasts(g)

\* Without a subscription the next trade is lost too: a gap is open for it.
Opened ==
    /\ Active /\ boot["curve"] # "none" /\ pc # "start"
    /\ link = "none" \/ (link = "up" /\ subs = {})
    => \E g \in gaps : /\ g.start <= Greatest(covEnd, At(Launch))
                       /\ frozen[First] \in 1..(EndBlock - 1) => Outlasts(g)

\* A complete row was whole when it was judged, and nothing new can fall below its cutoff.
Truth ==
    \A w \in Windows : feature[w] = "complete" =>
        /\ At(w) <= Now
        /\ boot["curve"] # "none" => \A t \in InWindow(mined) : t.block <= w => t \in stored

Watching == OnlyCurve /\ Shapes /\ Places /\ Proving /\ Replaying /\ Flight /\ Heard /\ Visible /\ Opened /\ Truth

\* Init establishes it.
LEMMA InitWatching == Init => Watching
<1> SUFFICES ASSUME Init PROVE Watching
  OBVIOUS
<1>1. mined \subseteq Trades /\ \A t \in mined : t.kind = "curve" /\ t.block = 1
  BY BoundsAssumption DEF Init, Trades, Kinds
<1>2. OnlyCurve
  BY <1>1 DEF Init, OnlyCurve
<1>3. Shapes
  <2>1. covEnd = 0 /\ head = 1 /\ seen = 0 /\ gaps = {} /\ subs = {} /\ tracked = FALSE
    BY DEF Init
  <2>2. stored = {} /\ queue = {} /\ inflight = {}
    BY DEF Init
  <2>3. covEnd \in Int /\ covEnd <= Now /\ seen \in Nat
    BY <2>1 DEF Now
  <2> QED
    BY <2>1, <2>2, <2>3 DEF Shapes
<1>4. Places /\ Proving /\ Replaying
  BY DEF Init, Places, Proving, Replaying, Active, Recovering, First, Stages, Kinds, NoJob
<1>5. Flight /\ Heard
  BY DEF Init, Flight, Heard
<1>6. Visible /\ Opened /\ Truth
  BY DEF Init, Visible, Opened, Truth, Active
<1> QED
  BY <1>2, <1>3, <1>4, <1>5, <1>6 DEF Watching

\* What the operators come to with one filter.
LEMMA OneFilter ==
    ASSUME OnlyCurve
    PROVE  /\ Filters = {"curve"} /\ Required = {"curve"} /\ Order = <<"curve">> /\ Stage = First
           /\ Base("curve") = Launch /\ ~Transition /\ \A h : UpTo("curve", h) = h
           /\ Missing \subseteq {"curve"} /\ NewRows \subseteq {"curve"}
           /\ ~Finished("curve") /\ Wanted = <<"curve">>
BY DEF OnlyCurve, Filters, Required, Order, Stage, First, Base, Transition, UpTo, Missing, NewRows,
       Finished, Wanted

\* The token never graduates.
LEMMA OnlyCurveStep ==
    ASSUME Prompt, OnlyCurve, [Next]_vars
    PROVE  OnlyCurve'
<1>1. CASE Mine
  <2>1. PICK g \in {grad}, T \in SUBSET [kind : Kinds, block : {head + 1}, n : 1..PerBlock] :
          /\ \A t \in T : t.kind = "v4" => g # 0
          /\ grad' = g /\ mined' = mined \cup T
    BY <1>1 DEF Mine, Prompt
  <2>2. \A t \in T : t.kind = "curve"
    BY <2>1 DEF OnlyCurve, Kinds
  <2> QED
    BY <1>1, <2>1, <2>2 DEF Mine, OnlyCurve, target
<1>2. CASE Learn \/ BaseLearns
  BY <1>2, OneFilter DEF Learn, BaseLearns, OnlyCurve
<1>3. UNCHANGED <<grad, learned, gradKnown, mined>> \/ Mine \/ Learn \/ BaseLearns
  <2>1. CASE Idle
    <3>1. CASE Start \/ Connect \/ NoticeLoss \/ ConnectFails \/ Backoff \/ Crash
      BY <3>1 DEF Start, Connect, NoticeLoss, ConnectFails, HandleLoss, Backoff, Crash, chain, target
    <3>2. CASE Tick \/ Expire \/ Discover \/ Ensure \/ Subscribe \/ Drain \/ Finish
      BY <3>2 DEF Tick, Expire, Discover, Ensure, Subscribe, Drain, Finish, chain, target
    <3>3. CASE HeadFails \/ PlanRefused \/ FetchFails \/ Recovered \/ ProofFails \/ PromoteTooLate
      BY <3>3 DEF HeadFails, PlanRefused, FetchFails, Recovered, ProofFails, PromoteTooLate, chain, target
    <3>4. CASE Deliver \/ LinkDies \/ UNCHANGED vars
      BY <3>4 DEF Deliver, LinkDies, vars, chain, target
    <3> QED
      BY <2>1, <3>1, <3>2, <3>3, <3>4 DEF Idle
  <2>2. CASE ReadHead \/ Plan \/ Fetch \/ Save \/ Freeze \/ PlanJobs
    BY <2>2 DEF ReadHead, Plan, Fetch, Save, Freeze, PlanJobs, chain, target
  <2>3. CASE Prove \/ CommitRange \/ NothingToProve \/ Promote
    BY <2>3 DEF Prove, CommitRange, NothingToProve, Promote, chain, target
  <2> QED
    BY <2>1, <2>2, <2>3, Steps
<1> QED
  BY <1>1, <1>2, <1>3 DEF OnlyCurve

\* The greatest of a set of naturals below a bound is one of them.
LEMMA GreatestIsIn ==
    ASSUME NEW n \in Nat, NEW S \in SUBSET (0..n), S # {}
    PROVE  Max(S) \in S
<1> DEFINE D == {n - b : b \in S}
<1>1. \A b \in S : b \in Int /\ n - b \in Nat
  OBVIOUS
<1>2. D \subseteq Nat /\ D # {}
  BY <1>1
<1>3. \E x \in D : \A y \in D : ~(<<y, x>> \in OpToRel(<, Nat))
  BY <1>2, NatLessThanWellFounded, WFMin
<1>4. PICK b \in S : \A y \in D : ~(<<y, n - b>> \in OpToRel(<, Nat))
  BY <1>3
<1>5. \A c \in S : ~(n - c < n - b)
  BY <1>2, <1>4 DEF OpToRel
<1>6. ASSUME NEW c \in S PROVE b >= c
  <2>1. b \in Int /\ c \in Int /\ ~(n - c < n - b)
    BY <1>1, <1>5
  <2> QED
    BY <2>1
<1> QED
  BY <1>6 DEF Max

\* The highest block of a batch.
LEMMA HighestIsNat ==
    ASSUME NEW T, T \subseteq Trades
    PROVE  Highest(T) \in Nat
<1> DEFINE S == {t.block : t \in T} \cup {0}
<1>1. S \in SUBSET (0..MaxBlock) /\ S # {} /\ MaxBlock \in Nat
  BY BoundsAssumption DEF Trades
<1>2. Max(S) \in S
  BY <1>1, GreatestIsIn
<1> QED
  BY <1>1, <1>2 DEF Highest

\* What the steps do to the trades under way.
LEMMA TradesStep ==
    ASSUME IInv, Shapes, [Next]_vars
    PROVE  /\ mined \subseteq mined'
           /\ stored' \subseteq mined' /\ queue' \subseteq mined' /\ inflight' \subseteq mined'
<1>0. InWindow(mined) \subseteq mined /\ \A T : InWindow(T) \subseteq T
  BY DEF InWindow
<1>1. CASE Mine
  <2>1. PICK T \in SUBSET [kind : Kinds, block : {head + 1}, n : 1..PerBlock] :
          /\ mined' = mined \cup T
          /\ inflight' = IF link = "up" THEN inflight \cup {t \in T : t.kind \in subs} ELSE inflight
    BY <1>1 DEF Mine
  <2> QED
    BY <1>1, <2>1 DEF Mine, Shapes
<1>2. CASE Deliver \/ LinkDies \/ Crash
  BY <1>2 DEF Deliver, LinkDies, Crash, Shapes, chain
<1>3. CASE Backoff \/ Tick \/ Drain \/ Save \/ CommitRange
  BY <1>0, <1>3 DEF Backoff, Tick, Drain, Save, CommitRange, Ingest, Shapes, chain
<1>4. CASE Fetch
  <2>1. PICK to : Ingest(Logs(plan[1].kind, plan[1].next, to))
    BY <1>4 DEF Fetch
  <2> QED
    BY <1>0, <1>4, <2>1 DEF Fetch, Ingest, Logs, Shapes, chain, net
<1>5. CASE Prove
  <2>1. PICK to : Ingest(queue \cup Logs(Current, job[Stage][Current].next, to))
    BY <1>5 DEF Prove
  <2> QED
    BY <1>0, <1>5, <2>1 DEF Prove, Ingest, Logs, Shapes, chain
<1>6. UNCHANGED <<mined, stored, queue, inflight>> \/ Mine \/ Deliver \/ LinkDies \/ Crash \/ Backoff \/ Tick
      \/ Drain \/ Save \/ CommitRange \/ Fetch \/ Prove
  <2>1. CASE Idle
    <3>1. CASE Start \/ Connect \/ NoticeLoss \/ ConnectFails \/ BaseLearns \/ UNCHANGED vars
      BY <3>1 DEF Start, Connect, NoticeLoss, ConnectFails, HandleLoss, BaseLearns, vars, chain, net
    <3>2. CASE Expire \/ Discover \/ Ensure \/ Subscribe \/ Finish
      BY <3>2 DEF Expire, Discover, Ensure, Subscribe, Finish, chain, net
    <3>3. CASE HeadFails \/ PlanRefused \/ FetchFails \/ Recovered \/ ProofFails \/ PromoteTooLate
      BY <3>3 DEF HeadFails, PlanRefused, FetchFails, Recovered, ProofFails, PromoteTooLate, chain, net
    <3> QED
      BY <2>1, <3>1, <3>2, <3>3 DEF Idle
  <2>2. CASE Learn \/ ReadHead \/ Plan \/ Freeze \/ PlanJobs \/ NothingToProve \/ Promote
    BY <2>2 DEF Learn, ReadHead, Plan, Freeze, PlanJobs, NothingToProve, Promote, chain, net
  <2> QED
    BY <2>1, <2>2, Steps
<1> QED
  BY <1>1, <1>2, <1>3, <1>4, <1>5, <1>6 DEF Shapes

\* A gap row has its times in order.
LEMMA GapTimes ==
    ASSUME NEW reason, NEW first, NEW start \in Int, NEW end \in Int
    PROVE  /\ Gap(reason, start, end, first).reason = reason
           /\ Gap(reason, start, end, first).start = start
           /\ Gap(reason, start, end, first).end \in Int
           /\ Gap(reason, start, end, first).end >= end
           /\ Gap(reason, start, end, first).first = first
BY DEF Gap, Greatest

\* The gap of an outage begins where coverage ends.
LEMMA OutageTimes ==
    ASSUME IInv, Shapes
    PROVE  /\ OutageGap.reason = "ws_gap"
           /\ OutageGap.start \in Int /\ OutageGap.end \in Int
           /\ OutageGap.start = (IF covEnd = 0 THEN At(Launch) ELSE covEnd)
           /\ OutageGap.end >= Now \/ OutageGap.end >= At(EndBlock)
<1>1. head \in Nat /\ covEnd \in Int /\ EndBlock \in Nat
  BY BoundsAssumption DEF IInv, Types, Shapes
<1> DEFINE start == IF covEnd = 0 THEN At(Launch) ELSE covEnd
           end == Least(Now, At(EndBlock))
<1>2. start \in Int /\ end \in Int /\ (end = Now \/ end = At(EndBlock))
  BY <1>1 DEF At, Launch, Least, Now
<1> HIDE DEF start, end
<1>3. OutageGap = Gap("ws_gap", start, end, lcb)
  BY DEF OutageGap, start, end
<1> QED
  BY <1>2, <1>3, GapTimes DEF start

\* The rows of the gap table keep their times.
LEMMA GapsStep ==
    ASSUME Prompt, IInv, OnlyCurve, Shapes, [Next]_vars
    PROVE  \A g \in gaps' : g.start \in Int /\ g.end \in Int
<1>1. CASE NoticeLoss \/ ConnectFails \/ Start
  <2>1. gaps' \subseteq gaps \cup {OutageGap}
    <3>1. CASE Start
      BY <3>1 DEF Start, AddGap
    <3>2. CASE NoticeLoss \/ ConnectFails
      BY <3>2 DEF NoticeLoss, ConnectFails, HandleLoss
    <3> QED
      BY <1>1, <3>1, <3>2
  <2> QED
    BY <2>1, OutageTimes DEF Shapes
<1>2. CASE HeadFails \/ PlanRefused \/ FetchFails
  <2>1. head \in Nat /\ seen \in Int /\ Now \in Int
    BY DEF IInv, Types, Shapes, Now
  <2>2. gaps' = gaps \/ \E first : gaps' = gaps \cup {Gap("reconnect", seen, Now, first)}
    <3>1. CASE HeadFails
      BY <3>1 DEF HeadFails, RecoveryGap, AddGap
    <3>2. CASE PlanRefused
      BY <3>2 DEF PlanRefused, RecoveryGap, AddGap
    <3>3. CASE FetchFails
      BY <3>3 DEF FetchFails, RecoveryGap, AddGap
    <3> QED
      BY <1>2, <3>1, <3>2, <3>3
  <2> QED
    BY <2>1, <2>2, GapTimes DEF Shapes
<1>3. CASE Ensure
  <2>1. NewRows \subseteq {"curve"} /\ Base("curve") = 1
    BY OneFilter DEF Launch
  <2>2. \A g \in gaps' : g \in gaps \/ g = Gap(BootstrapRequired("curve"), At(1), At(1), 1)
    BY <1>3, <2>1 DEF Ensure
  <2>3. At(1) \in Int
    BY DEF At
  <2> QED
    BY <2>2, <2>3, GapTimes DEF Shapes
<1>4. CASE Recovered \/ Promote
  <2>1. gaps' \subseteq gaps
    BY <1>4 DEF Recovered, Promote
  <2> QED
    BY <2>1 DEF Shapes
<1>5. UNCHANGED gaps \/ NoticeLoss \/ ConnectFails \/ Start \/ HeadFails \/ PlanRefused \/ FetchFails \/ Ensure
      \/ Recovered \/ Promote
  <2>1. CASE Idle
    <3>1. CASE Connect \/ Backoff \/ Crash \/ Tick \/ Expire \/ Discover \/ Subscribe \/ Drain \/ Finish
      BY <3>1 DEF Connect, Backoff, Crash, Tick, Expire, Discover, Subscribe, Drain, Finish
    <3>2. CASE ProofFails \/ PromoteTooLate \/ BaseLearns \/ Deliver \/ LinkDies \/ UNCHANGED vars
      BY <3>2 DEF ProofFails, PromoteTooLate, BaseLearns, Deliver, LinkDies, vars
    <3> QED
      BY <2>1, <3>1, <3>2 DEF Idle
  <2>2. CASE Mine \/ Learn \/ ReadHead \/ Plan \/ Fetch \/ Save
    BY <2>2 DEF Mine, Learn, ReadHead, Plan, Fetch, Save
  <2>3. CASE Freeze \/ PlanJobs \/ Prove \/ CommitRange \/ NothingToProve
    BY <2>3 DEF Freeze, PlanJobs, Prove, CommitRange, NothingToProve
  <2> QED
    BY <2>1, <2>2, <2>3, Steps
<1> QED
  BY <1>1, <1>2, <1>3, <1>4, <1>5 DEF Shapes

\* The coverage mark never passes the clock.
LEMMA MarkStep ==
    ASSUME Prompt, IInv, OnlyCurve, Shapes, [Next]_vars
    PROVE  covEnd' \in Int /\ covEnd' <= Now' /\ seen' \in Nat
<1>0. head \in Nat /\ EndBlock \in Nat /\ Lag \in Nat /\ covEnd \in Int /\ covEnd <= 2 * head + 1 /\ seen \in Nat
  BY BoundsAssumption DEF IInv, Types, Shapes, Now
<1>1. CASE Mine
  <2>1. head' = head + 1 /\ covEnd' = covEnd /\ seen' = seen
    BY <1>1 DEF Mine, cover
  <2> QED
    BY <1>0, <2>1 DEF Now
<1>2. CASE Tick
  <2>1. head' = head /\ covEnd' = covEnd /\ seen' = LastEventAt'
    BY <1>2 DEF Tick, chain, cover
  <2>2. stored' \subseteq mined' /\ mined' = mined /\ mined \subseteq Trades
    BY <1>2, TradesStep DEF Tick, chain, IInv, Types
  <2>3. \A T : T \subseteq Trades => Highest(T) \in Nat
    BY HighestIsNat
  <2>4. Highest(stored') \in Nat
    BY <2>2, <2>3
  <2> DEFINE n == Highest(stored')
  <2>5. LastEventAt' = IF stored' = {} THEN At(Launch) ELSE At(n)
    BY DEF LastEventAt
  <2>6. n \in Nat
    BY <2>4
  <2> HIDE DEF n
  <2>7. seen' \in Nat
    BY <2>1, <2>5, <2>6 DEF At, Launch
  <2> QED
    BY <1>0, <2>1, <2>7 DEF Now
<1>3. CASE Finish
  <2>1. head' = head /\ seen' = 0 /\ covEnd' = IF subs # {} THEN Least(At(EndBlock), Sure) ELSE covEnd
    BY <1>3 DEF Finish, chain
  <2>2. Least(At(EndBlock), Sure) \in Int /\ Least(At(EndBlock), Sure) <= 2 * head + 1
    BY <1>0 DEF Least, At, Sure
  <2> QED
    BY <1>0, <2>1, <2>2 DEF Now
<1>4. CASE Promote
  <2>1. /\ head' = head /\ seen' = seen
        /\ covEnd' = Greatest(covEnd, Least(At(EndBlock), At(frozen[Stage])))
    BY <1>4 DEF Promote, chain
  <2>2. frozen[Stage] \in Nat /\ frozen[Stage] <= head
    BY DEF IInv, Types, Heads, Stage, Stages
  <2>3. Least(At(EndBlock), At(frozen[Stage])) \in Int /\ Least(At(EndBlock), At(frozen[Stage])) <= 2 * head + 1
    BY <1>0, <2>2 DEF Least, At
  <2> QED
    BY <1>0, <2>1, <2>3 DEF Now, Greatest
<1>5. CASE NoticeLoss \/ ConnectFails \/ Crash
  <2>1. head' = head /\ covEnd' = covEnd /\ seen' = 0
    BY <1>5 DEF NoticeLoss, ConnectFails, HandleLoss, Crash, chain, cover
  <2> QED
    BY <1>0, <2>1 DEF Now
<1>6. UNCHANGED <<head, covEnd, seen>> \/ Mine \/ Tick \/ Finish \/ Promote \/ NoticeLoss \/ ConnectFails \/ Crash
  <2>1. CASE Idle
    <3>1. CASE Start \/ Connect \/ Backoff
      BY <3>1 DEF Start, Connect, Backoff, chain, cover
    <3>2. CASE Expire \/ Discover \/ Ensure \/ Subscribe \/ Drain
      BY <3>2 DEF Expire, Discover, Ensure, Subscribe, Drain, chain, cover
    <3>3. CASE HeadFails \/ PlanRefused \/ FetchFails \/ Recovered \/ ProofFails \/ PromoteTooLate
      BY <3>3 DEF HeadFails, PlanRefused, FetchFails, Recovered, ProofFails, PromoteTooLate, chain, cover
    <3>4. CASE BaseLearns \/ Deliver \/ LinkDies \/ UNCHANGED vars
      BY <3>4 DEF BaseLearns, Deliver, LinkDies, vars, chain, cover
    <3> QED
      BY <2>1, <3>1, <3>2, <3>3, <3>4 DEF Idle
  <2>2. CASE Learn \/ ReadHead \/ Plan \/ Fetch \/ Save
    BY <2>2 DEF Learn, ReadHead, Plan, Fetch, Save, chain, cover
  <2>3. CASE Freeze \/ PlanJobs \/ Prove \/ CommitRange \/ NothingToProve
    BY <2>3 DEF Freeze, PlanJobs, Prove, CommitRange, NothingToProve, chain, cover
  <2> QED
    BY <2>1, <2>2, <2>3, Steps
<1> QED
  BY <1>0, <1>1, <1>2, <1>3, <1>4, <1>5, <1>6 DEF Now

\* The worker subscribes to the curve or to nothing.
LEMMA SubsStep ==
    ASSUME Prompt, OnlyCurve, Shapes, [Next]_vars
    PROVE  subs' \in {{}, {"curve"}} /\ tracked' \in BOOLEAN
<1>1. CASE Idle
  <2>1. CASE Start \/ Connect \/ NoticeLoss \/ ConnectFails \/ Backoff \/ Crash
    BY <2>1 DEF Start, Connect, NoticeLoss, ConnectFails, HandleLoss, Backoff, Crash, target, Shapes
  <2>2. CASE Tick \/ Expire \/ Discover \/ Ensure \/ Drain \/ Finish
    BY <2>2 DEF Tick, Expire, Discover, Ensure, Drain, Finish, target, Shapes
  <2>3. CASE Subscribe
    BY <2>3, OneFilter DEF Subscribe, target, Shapes
  <2>4. CASE HeadFails \/ PlanRefused \/ FetchFails \/ Recovered \/ ProofFails \/ PromoteTooLate
    BY <2>4 DEF HeadFails, PlanRefused, FetchFails, Recovered, ProofFails, PromoteTooLate, target, Shapes
  <2>5. CASE BaseLearns \/ Deliver \/ LinkDies \/ UNCHANGED vars
    BY <2>5 DEF BaseLearns, Deliver, LinkDies, vars, target, Shapes
  <2> QED
    BY <1>1, <2>1, <2>2, <2>3, <2>4, <2>5 DEF Idle
<1>2. CASE Mine \/ Learn \/ ReadHead \/ Plan \/ Fetch \/ Save
  BY <1>2 DEF Mine, Learn, ReadHead, Plan, Fetch, Save, target, Shapes
<1>3. CASE Freeze \/ PlanJobs \/ Prove \/ CommitRange \/ NothingToProve \/ Promote
  BY <1>3 DEF Freeze, PlanJobs, Prove, CommitRange, NothingToProve, Promote, target, Shapes
<1> QED
  BY <1>1, <1>2, <1>3, Steps

\* The types of the second invariant.
LEMMA ShapesStep ==
    ASSUME Prompt, IInv, OnlyCurve, Shapes, [Next]_vars
    PROVE  Shapes'
BY TradesStep, GapsStep, MarkStep, SubsStep DEF Shapes

\* Where the worker goes.
LEMMA PlacesStep ==
    ASSUME Prompt, IInv, OnlyCurve, Shapes, Places, [Next]_vars
    PROVE  Places'
<1>0. /\ link \in {"none", "up", "dead"} /\ (link = "none" <=> pc \in {"start", "down", "backoff"})
      /\ status # "active" => tracked /\ (subs = {} \/ pc = "backoff")
      /\ pc \in {"enlist", "expire", "learn", "subscribe"} \cup Recovering => tracked /\ status = "active"
      /\ Kinds = {"curve", "v4"} /\ cursor \in [Kinds -> Nat]
  BY DEF Places, Active, IInv, Types, Kinds
<1> DEFINE same == UNCHANGED <<tracked, subs, status, link, connectedOnce, cursor, boot, frozen>>
<1>1. ASSUME same, pc' = pc PROVE Places'
  BY <1>1 DEF Places, Active
<1>2. ASSUME same, pc' \in {"finish", "idle"}, pc \notin {"start", "down", "backoff"} PROVE Places'
  BY <1>0, <1>2 DEF Places, Active, Recovering
<1>3. ASSUME same, pc \in Recovering, pc' \in Recovering \cup {"finish"} PROVE Places'
  BY <1>0, <1>3 DEF Places, Active, Recovering
<1>4. CASE Mine \/ BaseLearns \/ UNCHANGED vars
  <2>1. same /\ pc' = pc
    BY <1>4 DEF Mine, BaseLearns, vars, target, proof, cover, net
  <2> QED
    BY <1>1, <2>1
<1>5. CASE Deliver \/ LinkDies
  <2>1. UNCHANGED <<tracked, subs, status, connectedOnce, cursor, boot, frozen, pc>>
        /\ link = "up" /\ link' \in {"up", "dead"}
    BY <1>5 DEF Deliver, LinkDies, target, proof, cover
  <2> QED
    BY <1>0, <2>1 DEF Places, Active
<1>6. CASE Start
  <2>1. UNCHANGED <<tracked, subs, status, link, connectedOnce, cursor, boot, frozen>> /\ pc = "start" /\ pc' = "down"
    BY <1>6 DEF Start, target, proof, cover, net
  <2> QED
    BY <1>0, <2>1 DEF Places, Active, Recovering
<1>7. CASE Connect
  <2>1. UNCHANGED <<tracked, subs, status, cursor, boot, frozen>> /\ pc = "down" /\ pc' = "idle"
        /\ link' = "up" /\ connectedOnce' = TRUE
    BY <1>7 DEF Connect, target, proof
  <2> QED
    BY <1>0, <2>1 DEF Places, Active, Recovering
<1>8. CASE NoticeLoss \/ ConnectFails
  <2>1. UNCHANGED <<tracked, subs, connectedOnce, cursor, boot, frozen>> /\ pc' = "backoff" /\ link' = "none"
        /\ status' = IF Expired THEN "partial" ELSE status
    BY <1>8 DEF NoticeLoss, ConnectFails, HandleLoss, proof, cover
  <2>2. Expired => tracked
    BY DEF Expired, Active
  <2> QED
    BY <1>0, <2>1, <2>2 DEF Places, Active, Recovering
<1>9. CASE Backoff
  <2>1. UNCHANGED <<tracked, status, link, connectedOnce, cursor, boot, frozen>> /\ pc = "backoff" /\ pc' = "down" /\ subs' = {}
    BY <1>9 DEF Backoff, target, proof, cover
  <2> QED
    BY <1>0, <2>1 DEF Places, Active, Recovering
<1>10. CASE Crash
  <2>1. UNCHANGED <<tracked, status, connectedOnce, cursor, boot, frozen>> /\ pc' = "start" /\ subs' = {} /\ link' = "none"
    BY <1>10 DEF Crash, target, proof, cover
  <2> QED
    BY <1>0, <2>1 DEF Places, Active, Recovering
<1>11. CASE Tick
  <2>1. same /\ pc = "idle"
    BY <1>11 DEF Tick, target, proof, cover
  <2>2. \/ pc' = "expire" /\ Active
        \/ pc' = "learn" /\ Active
        \/ pc' = "discover" /\ ~tracked
        \/ pc' = "finish"
    <3>1. pc' = IF Expired THEN "expire"
                ELSE IF tracked /\ status = "active" THEN "learn"
                ELSE IF ~tracked /\ At(EndBlock) > Now THEN "discover" ELSE "finish"
      BY <1>11 DEF Tick
    <3>2. Expired => Active
      BY DEF Expired
    <3> QED
      BY <3>1, <3>2 DEF Active
  <2> QED
    BY <1>0, <2>1, <2>2 DEF Places, Active, Recovering
<1>12. CASE Expire
  <2>1. UNCHANGED <<tracked, link, connectedOnce, cursor, boot, frozen>> /\ pc = "expire" /\ pc' = "finish" /\ subs' = {}
    BY <1>12 DEF Expire, proof, cover, net
  <2> QED
    BY <1>0, <2>1 DEF Places, Active, Recovering
<1>13. CASE Discover
  <2>1. UNCHANGED <<subs, status, link, connectedOnce, cursor, boot, frozen>> /\ pc = "discover" /\ pc' = "enlist" /\ tracked' = TRUE
    BY <1>13 DEF Discover, proof, cover, net
  <2>2. ~tracked /\ link # "none" /\ connectedOnce
    BY <1>0, <2>1 DEF Places
  <2> QED
    BY <1>0, <2>1, <2>2 DEF Places, Active, Recovering
<1>14. CASE Ensure
  <2>1. UNCHANGED <<tracked, subs, status, link, connectedOnce, cursor, frozen>>
        /\ pc \in {"enlist", "learn"} /\ pc' = IF pc = "enlist" THEN "learn" ELSE "subscribe"
    BY <1>14 DEF Ensure, target, cover, net, Places
  <2>2. boot'["curve"] = "required"
    <3>1. NewRows = {"curve"}
      BY <1>14, OneFilter DEF Ensure
    <3> QED
      BY <1>14, <3>1 DEF Ensure, Kinds
  <2> QED
    BY <1>0, <2>1, <2>2 DEF Places, Active, Recovering
<1>15. CASE Subscribe
  <2>1. UNCHANGED <<tracked, status, link, connectedOnce, cursor, boot, frozen>> /\ subs' = {"curve"}
        /\ pc \in {"learn", "subscribe"} /\ pc' \in {"finish", "freeze", "head"}
    BY <1>15, OneFilter DEF Subscribe, Subscribing, target, proof, cover, net
  <2>2. boot["curve"] # "none"
    <3>1. CASE pc = "subscribe"
      BY <3>1 DEF Places
    <3>2. CASE pc = "learn"
      <4>1. NewRows = {}
        BY <1>15, <3>2 DEF Subscribe, Subscribing
      <4>2. cursor["curve"] # 0 \/ boot["curve"] # "none"
        BY <4>1, OneFilter DEF NewRows
      <4> QED
        BY <4>2 DEF Places
    <3> QED
      BY <2>1, <3>1, <3>2
  <2> QED
    BY <1>0, <2>1, <2>2 DEF Places, Active, Recovering
<1>16. CASE Drain \/ Finish
  <2>1. same /\ pc = "finish" /\ pc' \in {"finish", "idle"}
    BY <1>16 DEF Drain, Finish, target, proof, cover, net
  <2> QED
    BY <1>2, <2>1
<1>17. CASE HeadFails \/ PlanRefused \/ FetchFails
  <2>1. same /\ pc \in Recovering /\ pc' = "finish"
    BY <1>17 DEF HeadFails, PlanRefused, FetchFails, target, proof, cover, net, Recovering
  <2> QED
    BY <1>3, <2>1
<1>18. CASE Recovered \/ ProofFails \/ PromoteTooLate
  <2>1. same /\ pc \in Recovering /\ pc' = "finish"
    BY <1>18 DEF Recovered, ProofFails, PromoteTooLate, target, proof, cover, net, Recovering
  <2> QED
    BY <1>3, <2>1
<1>19. CASE ReadHead \/ Plan \/ Fetch
  <2>1. same /\ pc \in Recovering /\ pc' \in Recovering \cup {"finish"}
    BY <1>19 DEF ReadHead, Plan, Fetch, target, proof, cover, net, Recovering
  <2> QED
    BY <1>3, <2>1
<1>20. CASE Prove \/ CommitRange \/ NothingToProve
  <2>1. same /\ pc \in Recovering /\ pc' \in Recovering \cup {"finish"}
    BY <1>20 DEF Prove, CommitRange, NothingToProve, target, proof, cover, net, Recovering
  <2> QED
    BY <1>3, <2>1
<1>21. CASE Save \/ Freeze \/ PlanJobs \/ Promote
  <2>1. UNCHANGED <<tracked, subs, status, link, connectedOnce>> /\ pc \in Recovering /\ pc' \in Recovering \cup {"finish"}
    BY <1>21 DEF Save, Freeze, PlanJobs, Promote, target, proof, cover, net, Recovering
  <2>2. subs # {} /\ boot["curve"] # "none"
    BY <2>1 DEF Places
  <2>3. boot'["curve"] # "none"
    BY <1>21, <2>2 DEF Save, Freeze, PlanJobs, Promote, Kinds
  <2> QED
    BY <1>0, <2>1, <2>2, <2>3 DEF Places, Active, Recovering
<1>22. CASE Learn
  BY <1>22, OneFilter DEF Learn
<1> QED
  BY <1>4, <1>5, <1>6, <1>7, <1>8, <1>9, <1>10, <1>11, <1>12, <1>13, <1>14, <1>15, <1>16, <1>17, <1>18,
     <1>19, <1>20, <1>21, <1>22, Steps DEF Idle

\* What a proof has in hand.
LEMMA ProvingStep ==
    ASSUME Prompt, IInv, OnlyCurve, Proving, [Next]_vars
    PROVE  Proving'
<1>0. /\ Stage = First /\ First \in Stages /\ Kinds = {"curve", "v4"} /\ head \in Nat
      /\ job \in [Stages -> [Kinds -> Jobs]] /\ frozen \in [Stages -> Nat]
  BY OneFilter DEF IInv, Types, First, Stages, Kinds
<1>1. ASSUME UNCHANGED <<job, frozen>>, pc' = pc \/ pc' \notin {"jobs", "proof", "range", "promote"} PROVE Proving'
  BY <1>1 DEF Proving
<1>2. CASE Idle
  <2>1. CASE Start \/ Connect \/ NoticeLoss \/ ConnectFails \/ Backoff \/ Crash
    BY <1>1, <2>1 DEF Start, Connect, NoticeLoss, ConnectFails, HandleLoss, Backoff, Crash, proof
  <2>2. CASE Tick \/ Expire \/ Discover \/ Ensure \/ Subscribe \/ Drain \/ Finish
    BY <1>1, <2>2 DEF Tick, Expire, Discover, Ensure, Subscribe, Drain, Finish, proof
  <2>3. CASE HeadFails \/ PlanRefused \/ FetchFails \/ Recovered \/ ProofFails \/ PromoteTooLate
    BY <1>1, <2>3 DEF HeadFails, PlanRefused, FetchFails, Recovered, ProofFails, PromoteTooLate, proof
  <2>4. CASE BaseLearns \/ Deliver \/ LinkDies \/ UNCHANGED vars
    BY <1>1, <2>4 DEF BaseLearns, Deliver, LinkDies, vars, proof
  <2> QED
    BY <1>2, <2>1, <2>2, <2>3, <2>4 DEF Idle
<1>3. CASE Mine \/ Learn \/ ReadHead \/ Plan \/ Fetch \/ Save \/ Promote
  BY <1>1, <1>3 DEF Mine, Learn, ReadHead, Plan, Fetch, Save, Promote, proof
<1>4. CASE Freeze
  <2>1. frozen' = frozen \/ \E h \in Greatest(1, head - HttpLag)..head : frozen' = [frozen EXCEPT ![Stage] = h]
    BY <1>4 DEF Freeze
  <2>2. frozen[First] = 0 \/ frozen' = frozen
    BY <1>0, <1>4 DEF Freeze
  <2>3. frozen'[First] # 0
    <3>1. CASE frozen[First] # 0
      BY <2>2, <3>1
    <3>2. CASE frozen[First] = 0
      <4>1. PICK h \in Greatest(1, head - HttpLag)..head : frozen' = [frozen EXCEPT ![Stage] = h]
        BY <1>0, <1>4, <3>2 DEF Freeze
      <4>2. h >= 1
        BY <1>0, <4>1 DEF Prompt, Greatest
      <4> QED
        BY <1>0, <4>1, <4>2
    <3> QED
      BY <3>1, <3>2
  <2>4. job' = job /\ pc' = "jobs"
    BY <1>4 DEF Freeze
  <2> QED
    BY <2>2, <2>3, <2>4 DEF Proving
<1>5. CASE PlanJobs
  <2> DEFINE H == frozen[Stage]
             new == {k \in Missing : Base(k) <= H}
  <2>1. job' = [job EXCEPT ![Stage] = [k \in Kinds |->
                       IF k \in new /\ @[k] = NoJob
                       THEN [first |-> Base(k), next |-> Base(k), last |-> UpTo(k, H)] ELSE @[k]]]
    BY <1>5 DEF PlanJobs
  <2>2. new \subseteq {"curve"} /\ Base("curve") = Launch /\ UpTo("curve", H) = H
    BY OneFilter
  <2> HIDE DEF new, H
  <2>3. \A k \in Kinds : job'[First][k] =
          IF k \in new /\ job[First][k] = NoJob
          THEN [first |-> Base(k), next |-> Base(k), last |-> UpTo(k, H)] ELSE job[First][k]
    BY <1>0, <2>1
  <2>4. job'[First]["v4"] = job[First]["v4"]
    BY <1>0, <2>2, <2>3
  <2>5. \/ job'[First]["curve"] = job[First]["curve"]
        \/ job'[First]["curve"] = [first |-> Launch, next |-> Launch, last |-> H]
    BY <1>0, <2>2, <2>3
  <2>6. frozen' = frozen /\ pc = "jobs" /\ pc' = "proof" /\ H = frozen[First]
    BY <1>0, <1>5 DEF PlanJobs, H
  <2> QED
    BY <2>4, <2>5, <2>6 DEF Proving
<1>6. CASE Prove \/ NothingToProve
  <2>1. job' = job /\ frozen' = frozen /\ pc = "proof"
    BY <1>6 DEF Prove, NothingToProve, proof
  <2>2. CASE Prove
    BY <2>1, <2>2 DEF Prove, Proving
  <2>3. CASE NothingToProve
    <3>1. Planned = {} \/ Planned = {"curve"}
      BY <1>0 DEF Planned, Proving
    <3>2. CASE Planned = {}
      BY <1>1, <2>1, <2>3, <3>2 DEF NothingToProve
    <3>3. CASE Planned = {"curve"}
      <4>1. job[First]["curve"] # NoJob
        BY <1>0, <3>3 DEF Planned
      <4> QED
        BY <2>1, <2>3, <4>1 DEF NothingToProve, Proving
    <3> QED
      BY <3>1, <3>2, <3>3
  <2> QED
    BY <1>6, <2>2, <2>3
<1>7. CASE CommitRange
  <2>1. Unproved # {} /\ pc = "range" /\ pc' \in {"promote", "finish"} /\ frozen' = frozen
    BY <1>7 DEF IInv, Proofs, CommitRange
  <2>2. Current = "curve" /\ job[First]["curve"] # NoJob
    BY <1>0, <2>1 DEF Unproved, Planned, Proving, Current
  <2>3. /\ job'[First]["v4"] = job[First]["v4"]
        /\ job'[First]["curve"].first = job[First]["curve"].first
        /\ job'[First]["curve"].last = job[First]["curve"].last
    BY <1>0, <1>7, <2>2, Committing
  <2>4. job'[First]["curve"].first # 0
    BY <2>2, <2>3 DEF Proving, Launch
  <2>5. job'[First]["curve"] # NoJob
    BY <2>4 DEF NoJob
  <2> QED
    BY <2>1, <2>2, <2>3, <2>5 DEF Proving
<1> QED
  BY <1>2, <1>3, <1>4, <1>5, <1>6, <1>7, Steps

\* What a recovery has in hand.
LEMMA ReplayingStep ==
    ASSUME Prompt, IInv, Plans', OnlyCurve, Replaying, [Next]_vars
    PROVE  Replaying'
<1>0. /\ plan \in Seq(Chunks) /\ head \in Nat /\ recHead \in Nat
      /\ plan # <<>> => pc \in {"fetch", "save"}
      /\ plan' # <<>> => pc' \in {"fetch", "save"}
  BY DEF IInv, Types, Plans
<1>1. ASSUME pc' \notin {"plan", "fetch", "save"} PROVE Replaying'
  BY <1>0, <1>1 DEF Replaying
<1>2. ASSUME UNCHANGED <<pc, recHead, plan, mined, stored>> PROVE Replaying'
  BY <1>2 DEF Replaying, InWindow
<1>3. CASE BaseLearns \/ Deliver \/ LinkDies \/ UNCHANGED vars
  BY <1>2, <1>3 DEF BaseLearns, Deliver, LinkDies, vars, chain, work
<1>4. CASE Start \/ Connect \/ NoticeLoss \/ ConnectFails \/ Backoff \/ Crash
  BY <1>1, <1>4 DEF Start, Connect, NoticeLoss, ConnectFails, HandleLoss, Backoff, Crash
<1>5. CASE Tick \/ Expire \/ Discover \/ Ensure \/ Subscribe \/ Finish
  BY <1>1, <1>5 DEF Tick, Expire, Discover, Ensure, Subscribe, Finish
<1>6. CASE Drain \/ Learn
  BY <1>1, <1>6 DEF Drain, Learn
<1>7. CASE HeadFails \/ PlanRefused \/ FetchFails \/ Recovered \/ ProofFails \/ PromoteTooLate
  BY <1>1, <1>7 DEF HeadFails, PlanRefused, FetchFails, Recovered, ProofFails, PromoteTooLate
<1>8. CASE Freeze \/ PlanJobs \/ Prove \/ CommitRange \/ NothingToProve \/ Promote
  BY <1>1, <1>8 DEF Freeze, PlanJobs, Prove, CommitRange, NothingToProve, Promote
<1>9. CASE Mine
  <2>1. UNCHANGED <<pc, recHead, plan>>
    BY <1>9 DEF Mine, work
  <2>2. ~(pc = "fetch" /\ plan = <<>>)
    BY <1>9 DEF Mine, Awaiting, Subscribing
  <2> QED
    BY <2>1, <2>2 DEF Replaying
<1>10. CASE ReadHead
  <2>1. pc = "head" /\ pc' \in {"finish", "plan"} /\ plan' = plan
    BY <1>10 DEF ReadHead, work
  <2>2. recHead' # 0
    <3>1. CASE recHead # 0
      BY <1>10, <3>1 DEF ReadHead
    <3>2. CASE recHead = 0
      <4>1. PICK h \in Greatest(1, head - HttpLag)..head : recHead' = h
        BY <1>10, <3>2 DEF ReadHead
      <4>2. h >= 1
        BY <1>0, <4>1 DEF Prompt, Greatest
      <4> QED
        BY <4>1, <4>2
    <3> QED
      BY <3>1, <3>2
  <2> QED
    BY <1>0, <2>1, <2>2 DEF Replaying
<1>11. CASE Plan
  <2>1. pc = "plan" /\ pc' = "fetch" /\ recHead' = recHead
    BY <1>11 DEF Plan
  <2>2. Wanted = <<"curve">> /\ UpTo("curve", recHead) = recHead
    BY OneFilter
  <2>3. plan' = [i \in DOMAIN Wanted |->
                  [kind |-> Wanted[i], next |-> Begin(Wanted[i]), last |-> UpTo(Wanted[i], recHead)]]
    BY <1>11 DEF Plan
  <2>4. DOMAIN Wanted = {1} /\ Wanted[1] = "curve"
    BY <2>2
  <2>5. DOMAIN plan' = {1} /\ plan'[1].kind = "curve" /\ plan'[1].last = recHead
    BY <2>2, <2>3, <2>4
  <2>6. plan' \in Seq(Chunks)
    BY <1>11, Planning
  <2>7. plan' # <<>> /\ Len(plan') = 1
    <3>1. Len(plan') \in Nat /\ DOMAIN plan' = 1..Len(plan')
      BY <2>6
    <3>2. 1 \in 1..Len(plan') /\ 2 \notin 1..Len(plan')
      BY <2>5, <3>1
    <3>3. Len(plan') = 1
      BY <3>1, <3>2
    <3> QED
      BY <3>3
  <2> QED
    BY <2>1, <2>5, <2>7 DEF Replaying
<1>12. CASE Fetch
  <2>1. UNCHANGED <<recHead, plan>> /\ pc = "fetch" /\ pc' = "save"
    BY <1>12 DEF Fetch
  <2> QED
    BY <2>1 DEF Replaying
<1>13. CASE Save
  <2>1. /\ pc = "save" /\ pc' = "fetch" /\ recHead' = recHead /\ mined' = mined /\ stored \subseteq stored'
    BY <1>13 DEF Save, Ingest, chain
  <2>2. plan # <<>> /\ Len(plan) = 1 /\ plan[1].kind = "curve" /\ plan[1].last = recHead
    BY <2>1 DEF Replaying, IInv, Plans
  <2>3. Below("curve", upto + 1) /\ upto \in Nat
    BY <2>1, <2>2 DEF IInv, Types, Plans
  <2>4. CASE upto = recHead
    <3>1. plan' = Tail(plan)
      BY <1>13, <2>2, <2>4 DEF Save
    <3>2. plan' = <<>>
      BY <1>0, <2>2, <3>1
    <3>3. ASSUME NEW t \in InWindow(mined), t.block <= recHead PROVE t \in stored
      <4>1. t \in mined /\ t.kind = "curve" /\ t.block \in Nat
        BY BoundsAssumption DEF InWindow, OnlyCurve, IInv, Types, Trades
      <4> QED
        BY <1>0, <2>3, <2>4, <3>3, <4>1 DEF Below
    <3> QED
      BY <2>1, <2>2, <3>2, <3>3 DEF Replaying, InWindow
  <2>5. CASE upto # recHead
    <3>1. plan' = [plan EXCEPT ![1].next = upto + 1]
      BY <1>13, <2>2, <2>5 DEF Save
    <3>2. 1 \in DOMAIN plan /\ plan[1] \in Chunks
      BY <1>0, <2>2
    <3> DEFINE c == [plan[1] EXCEPT !.next = upto + 1]
    <3>3. c.kind = "curve" /\ c.last = recHead /\ c \in Chunks
      BY <2>2, <2>3, <3>2 DEF Chunks
    <3>4. plan' = [plan EXCEPT ![1] = c]
      BY <3>1
    <3> HIDE DEF c
    <3>5. plan' \in Seq(Chunks) /\ Len(plan') = 1 /\ plan'[1] = c
      BY <1>0, <2>2, <3>2, <3>3, <3>4
    <3>6. plan' # <<>>
      BY <3>5
    <3> QED
      BY <2>1, <2>2, <3>3, <3>5, <3>6 DEF Replaying
  <2> QED
    BY <2>4, <2>5
<1> QED
  BY <1>3, <1>4, <1>5, <1>6, <1>7, <1>8, <1>9, <1>10, <1>11, <1>12, <1>13, Steps DEF Idle

(***************************************************************************)
(* The steps that lose nothing, claim nothing and close nothing.           *)
(***************************************************************************)
\* What is on its way stays there or is stored.
Carried ==
    /\ stored \subseteq stored' /\ queue' \subseteq queue \cup inflight /\ inflight' \subseteq inflight
    /\ InWindow(queue \cup inflight) \subseteq stored' \cup queue' \cup inflight'

Calm ==
    /\ UNCHANGED <<head, mined, link, covEnd, frozen, status, tracked>>
    /\ subs' = subs \/ (link = "none" /\ subs' = {})
    /\ pc = "start" <=> pc' = "start"
    /\ boot["curve"] = "none" <=> boot'["curve"] = "none"
    /\ Carried /\ gaps \subseteq gaps'
    /\ \A w \in Windows : feature'[w] = "complete" => feature[w] = "complete"
    /\ pending' \in {pending, TRUE}
    /\ recHead' \in {recHead, 0, head}

\* They keep what is missing visible.
LEMMA CalmStep ==
    ASSUME IInv, Flight, Heard, Visible, Opened, Truth, Calm
    PROVE  Flight' /\ Heard' /\ Visible' /\ Opened' /\ Truth'
<1>1. Lost' \subseteq Lost
  BY DEF Calm, Carried, Lost, InWindow
<1>2. \A t \in mined : t.block <= head
  BY DEF IInv, Graduation
<1>3. Lost \subseteq mined
  BY DEF Lost, InWindow
<1>4. Flight'
  BY DEF Calm, Carried, Flight
<1>5. Heard'
  <2>1. /\ link' = link /\ covEnd' = covEnd /\ (link # "none" => subs' = subs)
        /\ recHead' \in {recHead, 0, head}
    BY DEF Calm
  <2>4. ~pending' => ~pending
    <3>1. pending' = pending \/ pending' = TRUE
      BY DEF Calm
    <3> QED
      BY <3>1, Zenon
  <2>2. ASSUME link = "up", subs # {}
        PROVE  (~pending' => Lost' = {}) /\ (recHead' # 0 => \A t \in Lost' : t.block <= recHead')
    <3>1. ~pending' => Lost' = {}
      BY <1>1, <2>2, <2>4 DEF Heard
    <3>2. recHead' # 0 => \A t \in Lost' : t.block <= recHead'
      BY <1>1, <1>2, <1>3, <2>1, <2>2 DEF Heard
    <3> QED
      BY <3>1, <3>2
  <2>3. ASSUME link = "dead", subs # {}, recHead' # 0
        PROVE  \A t \in Lost' : t.block <= recHead' \/ At(t.block) > covEnd'
    BY <1>1, <1>2, <1>3, <2>1, <2>3 DEF Heard
  <2> QED
    BY <2>1, <2>2, <2>3 DEF Heard
<1>6. Visible'
  <2>1. tracked' /\ boot'["curve"] # "none" => tracked /\ boot["curve"] # "none"
    BY DEF Calm
  <2>2. \A t : Fresh(t) => Fresh(t)'
    BY DEF Calm, Fresh
  <2>3. \A g : g \in gaps => g \in gaps' /\ (Outlasts(g) => Outlasts(g)')
    BY DEF Calm, Outlasts
  <2>4. frozen' = frozen
    BY DEF Calm
  <2> QED
    BY <1>1, <2>1, <2>2, <2>3, <2>4 DEF Visible
<1>7. Opened'
  <2>1. Active' = Active /\ frozen' = frozen /\ covEnd' = covEnd /\ link' = link
    BY DEF Calm, Active
  <2>2. \A g : g \in gaps => g \in gaps' /\ (Outlasts(g) => Outlasts(g)')
    BY DEF Calm, Outlasts
  <2>3. /\ boot'["curve"] # "none" /\ pc' # "start" /\ (link = "none" \/ (link = "up" /\ subs' = {}))
        => boot["curve"] # "none" /\ pc # "start" /\ (link = "none" \/ (link = "up" /\ subs = {}))
    BY DEF Calm
  <2> QED
    BY <2>1, <2>2, <2>3 DEF Opened
<1>8. Truth'
  <2>1. \A w \in Windows : feature'[w] = "complete" => feature[w] = "complete"
    BY DEF Calm
  <2>2. UNCHANGED <<head, mined>> /\ stored \subseteq stored' /\ (boot'["curve"] # "none" => boot["curve"] # "none")
    BY DEF Calm, Carried
  <2> QED
    BY <2>1, <2>2 DEF Truth, Now, InWindow
<1> QED
  BY <1>4, <1>5, <1>6, <1>7, <1>8

\* Events are stored and the queue is emptied.
LEMMA Draining ==
    ASSUME NEW T, queue \subseteq T, Ingest(T), queue' = {}, inflight' = inflight
    PROVE  Carried
BY DEF Ingest, InWindow, Carried

\* Nothing of it moves.
LEMMA Resting ==
    ASSUME stored \subseteq stored', UNCHANGED <<queue, inflight>>
    PROVE  Carried
BY DEF Carried, InWindow

\* Rows become no better.
NoBetter == \A w \in Windows : feature'[w] = "complete" => feature[w] = "complete"

\* A gap makes rows partial and nothing else.
LEMMA Downgrading ==
    ASSUME NEW start, feature' = Downgrade(feature, start)
    PROVE  NoBetter
BY DEF Downgrade, NoBetter

\* A failed recovery leaves a gap at most.
LEMMA FailureGap ==
    ASSUME NEW first, RecoveryGap(first)
    PROVE  gaps \subseteq gaps' /\ NoBetter /\ pending' = TRUE
<1>1. CASE UNCHANGED <<gaps, feature>>
  BY <1>1 DEF RecoveryGap, NoBetter
<1>2. CASE \E g : gaps' = gaps \cup {g} /\ feature' = Downgrade(feature, g.start)
  BY <1>2, Downgrading DEF RecoveryGap
<1> QED
  BY <1>1, <1>2 DEF RecoveryGap, AddGap

\* Reading, storing and waiting are calm.
LEMMA CalmSteps ==
    ASSUME Prompt, IInv, OnlyCurve, Shapes, Places,
           \/ Tick \/ Drain \/ Backoff \/ (Subscribe /\ subs = Filters)
           \/ ReadHead \/ HeadFails \/ Plan \/ PlanRefused \/ Fetch \/ FetchFails \/ Save
           \/ PlanJobs \/ Prove \/ ProofFails \/ CommitRange \/ NothingToProve \/ PromoteTooLate
           \/ (Deliver /\ HasRoom) \/ UNCHANGED vars
    PROVE  Calm
<1>0. (link = "none" <=> pc \in {"start", "down", "backoff"}) /\ Kinds = {"curve", "v4"}
  BY DEF Places, Kinds
<1> DEFINE still == UNCHANGED <<head, mined, link, covEnd, frozen, status, tracked>>
           quiet == UNCHANGED <<boot, gaps, feature, pending>>
<1>1. ASSUME still, subs' = subs, UNCHANGED <<boot, pending, gaps, feature>>, recHead' \in {recHead, 0, head},
             pc # "start", pc' # "start", Carried
      PROVE  Calm
  BY <1>1 DEF Calm
<1>2. CASE Tick \/ Drain
  <2>1. Ingest(queue) /\ queue' = {} /\ inflight' = inflight
    BY <1>2 DEF Tick, Drain
  <2>2. Carried
    BY <2>1, Draining
  <2>3. pc \in {"idle", "finish"} /\ pc' # "start"
    BY <1>2 DEF Tick, Drain
  <2>4. still /\ UNCHANGED <<subs, boot, gaps, feature, pending, recHead>>
    BY <1>2 DEF Tick, Drain, chain, proof, target, cover
  <2> QED
    BY <1>1, <2>2, <2>3, <2>4
<1>3. CASE Backoff
  <2>1. Ingest(queue) /\ queue' = {} /\ inflight' = inflight
    BY <1>3 DEF Backoff
  <2>2. Carried
    BY <2>1, Draining
  <2>3. pc = "backoff" /\ pc' = "down" /\ subs' = {} /\ link = "none"
    BY <1>0, <1>3 DEF Backoff
  <2>4. still /\ UNCHANGED <<boot, gaps, feature, pending, recHead>>
    BY <1>3 DEF Backoff, chain, proof, target, cover
  <2> QED
    BY <2>2, <2>3, <2>4 DEF Calm
<1>4. CASE (Subscribe /\ subs = Filters) \/ ReadHead \/ Plan
  <2>1. Carried
    BY <1>4, Resting DEF Subscribe, ReadHead, Plan, net
  <2>2. pc # "start" /\ pc' # "start"
    BY <1>4 DEF Subscribe, Subscribing, ReadHead, Plan
  <2>3. still /\ UNCHANGED <<subs, boot, gaps, feature, pending>>
    BY <1>4 DEF Subscribe, ReadHead, Plan, chain, net, proof, target, cover
  <2>4. recHead' \in {recHead, 0, head}
    <3>1. CASE ReadHead
      <4>1. recHead' = recHead \/ \E h \in Greatest(1, head - HttpLag)..head : recHead' = h
        BY <3>1 DEF ReadHead
      <4>2. head \in Nat
        BY DEF IInv, Types
      <4>3. \A h \in Greatest(1, head - HttpLag)..head : h = head
        BY <4>2 DEF Prompt, Greatest
      <4> QED
        BY <4>1, <4>3
    <3>2. CASE (Subscribe /\ subs = Filters) \/ Plan
      BY <3>2 DEF Subscribe, Plan
    <3> QED
      BY <1>4, <3>1, <3>2
  <2> QED
    BY <1>1, <2>1, <2>2, <2>3, <2>4
<1>5. CASE HeadFails
  <2>1. Carried
    BY <1>5, Resting DEF HeadFails, net
  <2>2. pc # "start" /\ pc' # "start" /\ still /\ UNCHANGED <<subs, boot, recHead>>
    BY <1>5 DEF HeadFails, chain, net, proof, target, cover
  <2>3. gaps \subseteq gaps' /\ NoBetter /\ pending' \in {pending, TRUE}
    <3>1. RecoveryGap(OldestCursor) \/ UNCHANGED <<pending, gaps, feature>>
      BY <1>5 DEF HeadFails
    <3> QED
      BY <3>1, FailureGap DEF NoBetter
  <2> QED
    BY <2>1, <2>2, <2>3 DEF Calm, NoBetter
<1>6. CASE PlanRefused \/ FetchFails
  <2>1. Carried
    BY <1>6, Resting DEF PlanRefused, FetchFails, net
  <2>2. pc # "start" /\ pc' # "start" /\ still /\ UNCHANGED <<subs, boot, recHead>>
    BY <1>6 DEF PlanRefused, FetchFails, chain, net, proof, target, cover
  <2>3. \E first : RecoveryGap(first)
    BY <1>6 DEF PlanRefused, FetchFails
  <2>4. gaps \subseteq gaps' /\ NoBetter /\ pending' = TRUE
    BY <2>3, FailureGap
  <2> QED
    BY <2>1, <2>2, <2>4 DEF Calm, NoBetter
<1>7. CASE Fetch
  <2>1. stored \subseteq stored' /\ UNCHANGED <<queue, inflight>>
    BY <1>7 DEF Fetch, Ingest, net
  <2>2. Carried
    BY <2>1, Resting
  <2>3. pc # "start" /\ pc' # "start" /\ still /\ UNCHANGED <<subs, boot, pending, gaps, feature, recHead>>
    BY <1>7 DEF Fetch, chain, net, proof, target, cover
  <2> QED
    BY <1>1, <2>2, <2>3
<1>8. CASE Save \/ CommitRange
  <2>1. Ingest(queue) /\ queue' = {} /\ inflight' = inflight
    BY <1>8 DEF Save, CommitRange
  <2>2. Carried
    BY <2>1, Draining
  <2>3. pc # "start" /\ pc' # "start" /\ still /\ UNCHANGED <<subs, boot, pending, gaps, feature, recHead>>
    BY <1>8 DEF Save, CommitRange, chain, target, cover
  <2> QED
    BY <1>1, <2>2, <2>3
<1>9. CASE Prove
  <2>1. PICK to : Ingest(queue \cup Logs(Current, job[Stage][Current].next, to))
    BY <1>9 DEF Prove
  <2>2. queue' = {} /\ inflight' = inflight
    BY <1>9 DEF Prove
  <2>3. Carried
    BY <2>1, <2>2, Draining
  <2>4. pc # "start" /\ pc' # "start" /\ still /\ UNCHANGED <<subs, boot, pending, gaps, feature, recHead>>
    BY <1>9 DEF Prove, chain, proof, target, cover
  <2> QED
    BY <1>1, <2>3, <2>4
<1>10. CASE ProofFails \/ NothingToProve \/ PromoteTooLate
  <2>1. Carried
    BY <1>10, Resting DEF ProofFails, NothingToProve, PromoteTooLate, net
  <2>2. pc # "start" /\ pc' # "start" /\ still /\ UNCHANGED <<subs, boot, pending, gaps, feature, recHead>>
    BY <1>10 DEF ProofFails, NothingToProve, PromoteTooLate, chain, net, proof, target, cover
  <2> QED
    BY <1>1, <2>1, <2>2
<1>11. CASE PlanJobs
  <2>1. Carried
    BY <1>11, Resting DEF PlanJobs, net
  <2>2. pc # "start" /\ pc' # "start" /\ still /\ UNCHANGED <<subs, pending, gaps, feature, recHead>>
    BY <1>11 DEF PlanJobs, chain, net, target, cover
  <2>3. boot'["curve"] = boot["curve"] \/ (boot["curve"] = "required" /\ boot'["curve"] = "in_progress")
    BY <1>0, <1>11 DEF PlanJobs
  <2> QED
    BY <2>1, <2>2, <2>3 DEF Calm
<1>12. CASE Deliver /\ HasRoom
  <2>1. PICK t \in inflight : queue' = queue \cup {t} /\ inflight' = inflight \ {t} /\ link' = link
    BY <1>12 DEF Deliver
  <2>2. UNCHANGED <<head, mined, covEnd, frozen, status, tracked, subs, boot, pending, gaps, feature, recHead, pc, stored>>
    BY <1>12 DEF Deliver, chain, proof, target, cover
  <2>3. Carried
    BY <2>1, <2>2 DEF Carried, InWindow
  <2> QED
    BY <2>1, <2>2, <2>3 DEF Calm
<1>13. CASE UNCHANGED vars
  <2>1. UNCHANGED <<head, mined, link, covEnd, frozen, status, tracked, subs, boot, pending, gaps, feature, recHead, pc,
                    stored, queue, inflight>>
    BY <1>13 DEF vars, chain, net, proof, target, cover
  <2>2. Carried
    BY <2>1, Resting
  <2> QED
    BY <2>1, <2>2 DEF Calm
<1> QED
  BY <1>2, <1>3, <1>4, <1>5, <1>6, <1>7, <1>8, <1>9, <1>10, <1>11, <1>12, <1>13

(***************************************************************************)
(* Rows that are judged.                                                   *)
(***************************************************************************)

\* What rebuild() asks of gaps and coverage before it says complete.
Clean(w, gs, ce) == ce >= At(w) /\ \A g \in gs : g.start > At(w)

\* A cutoff it would call complete is whole.
Judged ==
    tracked /\ boot["curve"] # "none" =>
        \A w \in Windows : Clean(w, gaps, covEnd) => \A t \in InWindow(mined) : t.block <= w => t \in stored

\* What is missing is on its way above the mark, or lost above it, or behind a gap.
LEMMA Judging == Types /\ Shapes /\ Flight /\ Visible => Judged
<1> SUFFICES ASSUME Types, Shapes, Flight, Visible, tracked, boot["curve"] # "none",
                    NEW w \in Windows, Clean(w, gaps, covEnd),
                    NEW t \in InWindow(mined), t.block <= w, t \notin stored
             PROVE  FALSE
  BY DEF Judged
<1>1. t.block \in Nat /\ w \in Nat /\ covEnd \in Int
  <2>1. MaxBlock \in Nat /\ EndBlock \in Nat /\ Windows \subseteq 1..EndBlock
    BY BoundsAssumption
  <2>2. t \in mined /\ t.block \in 1..MaxBlock
    BY DEF Types, Trades, InWindow
  <2> QED
    BY <2>1, <2>2 DEF Shapes
<1>2. At(t.block) <= At(w) /\ At(w) <= covEnd
  BY <1>1 DEF At, Clean
<1>3. ~(At(t.block) > covEnd) /\ At(t.block) \in Int /\ At(w) \in Int
  BY <1>1, <1>2 DEF At
<1>4. t \notin queue \cup inflight
  BY <1>3 DEF Flight
<1>5. t \in Lost
  BY <1>4 DEF Lost
<1>6. PICK g \in gaps : g.start <= At(t.block)
  BY <1>3, <1>5 DEF Visible, Fresh
<1>7. g.start \in Int /\ g.start > At(w)
  BY DEF Shapes, Clean
<1> QED
  BY <1>2, <1>3, <1>6, <1>7

\* A step that judges rows, and stores no less, keeps complete rows true.
LEMMA TruthKept ==
    ASSUME IInv, Truth, Judged', UNCHANGED <<head, mined>>, stored \subseteq stored',
           boot'["curve"] # "none" => boot["curve"] # "none",
           \A w \in Windows : feature'[w] = "complete" =>
              feature[w] = "complete" \/ (At(w) <= Now /\ tracked' /\ Clean(w, gaps', covEnd'))
    PROVE  Truth'
<1> SUFFICES ASSUME NEW w \in Windows, feature'[w] = "complete"
             PROVE  /\ At(w) <= Now'
                    /\ boot'["curve"] # "none" => \A t \in InWindow(mined)' : t.block <= w => t \in stored'
  BY DEF Truth
<1>1. Now' = Now /\ InWindow(mined)' = InWindow(mined)
  BY DEF Now, InWindow
<1>2. CASE feature[w] = "complete"
  BY <1>1, <1>2 DEF Truth
<1>3. CASE At(w) <= Now /\ tracked' /\ Clean(w, gaps', covEnd')
  BY <1>1, <1>3 DEF Judged
<1> QED
  BY <1>2, <1>3

\* Rows judged again are complete only when they are clean.
LEMMA Rebuilding ==
    ASSUME NEW f, NEW until, NEW gs, NEW bt, NEW cs, NEW ce, NEW w \in Windows,
           Rebuilt(f, until, gs, bt, cs, ce)[w] = "complete"
    PROVE  f[w] = "complete" \/ (~(At(w) > until) /\ Clean(w, gs, ce))
BY DEF Rebuilt, Complete, Clean

(***************************************************************************)
(* The chain, and the socket that dies.                                    *)
(***************************************************************************)

\* The times of a lost trade.
LEMMA LostTimes ==
    ASSUME IInv, Shapes, NEW t \in Lost
    PROVE  /\ t \in mined /\ t.block \in Nat /\ t.block >= 1 /\ t.block <= head /\ t.block <= EndBlock
           /\ At(t.block) = 2 * t.block /\ covEnd \in Int /\ head \in Nat /\ EndBlock \in Nat
<1>1. t \in mined /\ t.block \in 1..MaxBlock /\ t.block <= EndBlock /\ t.block <= head
  BY DEF Lost, InWindow, IInv, Types, Trades, Graduation
<1>2. MaxBlock \in Nat /\ EndBlock \in Nat /\ head \in Nat /\ covEnd \in Int
  BY BoundsAssumption DEF IInv, Types, Shapes
<1> QED
  BY <1>1, <1>2 DEF At

\* A new block: its trades are on their way, or above the mark and lost in an outage with an open gap.
LEMMA MineWatched ==
    ASSUME Prompt, IInv, OnlyCurve, Shapes, Places, Flight, Heard, Visible, Opened, Truth, Mine
    PROVE  Flight' /\ Heard' /\ Visible' /\ Opened' /\ Truth'
<1>1. PICK T \in SUBSET [kind : Kinds, block : {head + 1}, n : 1..PerBlock] :
        /\ head + 1 > EndBlock => T = {}
        /\ \A t \in T : t.kind = "v4" => grad' # 0
        /\ mined' = mined \cup T
        /\ inflight' = IF link = "up" THEN inflight \cup {t \in T : t.kind \in subs} ELSE inflight
  BY DEF Mine
<1>2. /\ head' = head + 1 /\ head \in Nat /\ Lag \in Nat /\ Lag >= 1 /\ EndBlock \in Nat
      /\ covEnd \in Int /\ covEnd <= 2 * head + 1
  BY BoundsAssumption DEF Mine, IInv, Types, Shapes, Now
<1>3. UNCHANGED <<link, queue, pc, subs, pending, recHead, tracked, status, cursor, boot, frozen, job, covEnd, gaps,
                  stored, feature>>
  BY DEF Mine, proof, target, cover
<1>4. \A t \in T : t.block = head + 1 /\ At(t.block) = 2 * head + 2 /\ t.kind = "curve"
  <2>1. \A t \in T : t.block = head + 1 /\ t.kind \in {"curve", "v4"}
    BY DEF Kinds
  <2>2. grad' = 0
    BY DEF Mine, Prompt, OnlyCurve
  <2> QED
    BY <1>1, <1>2, <2>1, <2>2 DEF At
<1>5. \A t \in T : At(t.block) > covEnd
  BY <1>2, <1>4
<1>6. \A t \in inflight : t.block > head + 1 - Lag
  BY DEF Mine
<1>7. Flight'
  <2>1. \A t \in inflight' : t \in inflight \/ t \in T
    BY <1>1
  <2>2. \A t \in T : t.block > head + 1 - Lag
    BY <1>2, <1>4
  <2>3. link # "up" => inflight' = {}
    BY <1>1 DEF Flight
  <2> QED
    BY <1>2, <1>3, <1>5, <1>6, <2>1, <2>2, <2>3 DEF Flight
<1>8. \A t \in Lost' : t \in Lost \/ (t \in T /\ t \in InWindow(mined') /\ t \notin inflight')
  BY <1>1, <1>3 DEF Lost, InWindow
<1>9. link = "up" /\ subs # {} => Lost' \subseteq Lost
  <2>1. subs = {} \/ subs = {"curve"}
    BY DEF Shapes
  <2> QED
    BY <1>1, <1>4, <1>8, <2>1
<1>10. Heard'
  BY <1>3, <1>5, <1>8, <1>9 DEF Heard
<1>11. Visible'
  <2> SUFFICES ASSUME tracked, boot["curve"] # "none", NEW t \in Lost'
               PROVE  \/ Fresh(t)
                      \/ \E g \in gaps : g.start <= At(t.block) /\ (frozen[First] # 0 /\ t.block > frozen[First] => Outlasts(g))
    BY <1>3 DEF Visible, Fresh, Outlasts
  <2>1. CASE t \in Lost
    BY <2>1 DEF Visible
  <2>2. CASE t \in T /\ t \in InWindow(mined') /\ t \notin inflight'
    <3>1. t.block = head + 1 /\ t.block <= EndBlock /\ At(t.block) = 2 * head + 2 /\ At(t.block) > covEnd
      BY <1>4, <1>5, <2>2 DEF InWindow
    <3>2. CASE link = "dead" \/ pc = "start" \/ status # "active"
      BY <3>1, <3>2 DEF Fresh
    <3>3. CASE ~(link = "dead" \/ pc = "start" \/ status # "active")
      <4>1. Active /\ (link = "none" \/ (link = "up" /\ subs = {}))
        BY <1>8, <1>9, <2>2, <3>3, <1>1, <1>4 DEF Active, Places, Shapes
      <4>2. PICK g \in gaps : /\ g.start <= Greatest(covEnd, At(Launch))
                              /\ frozen[First] \in 1..(EndBlock - 1) => Outlasts(g)
        BY <3>3, <4>1 DEF Opened
      <4>3. g.start \in Int
        BY DEF Shapes
      <4>4. Greatest(covEnd, At(Launch)) \in Int /\ Greatest(covEnd, At(Launch)) <= 2 * head + 2
        BY <1>2 DEF Greatest, At, Launch
      <4>5. frozen[First] \in Nat /\ frozen[First] <= head
        BY DEF IInv, Types, Heads, First, Stages
      <4>6. g.start <= At(t.block)
        BY <1>2, <3>1, <4>2, <4>3, <4>4
      <4>7. frozen[First] # 0 => frozen[First] \in 1..(EndBlock - 1)
        BY <1>2, <3>1, <4>5
      <4> QED
        BY <4>2, <4>6, <4>7
    <3> QED
      BY <3>2, <3>3
  <2> QED
    BY <1>8, <2>1, <2>2
<1>12. Opened'
  BY <1>3 DEF Opened, Active, Outlasts
<1>13. Truth'
  <2> SUFFICES ASSUME NEW w \in Windows, feature[w] = "complete"
               PROVE  /\ At(w) <= Now'
                      /\ boot["curve"] # "none" => \A t \in InWindow(mined') : t.block <= w => t \in stored
    BY <1>3 DEF Truth, InWindow
  <2>1. At(w) <= Now /\ w \in Nat
    BY BoundsAssumption, <1>2 DEF Truth
  <2>2. w <= head
    BY <1>2, <2>1 DEF At, Now
  <2>3. At(w) <= Now'
    BY <1>2, <2>1 DEF At, Now
  <2>4. \A t \in InWindow(mined') : t \in InWindow(mined) \/ t \in T
    BY <1>1 DEF InWindow
  <2>5. \A t \in T : ~(t.block <= w)
    BY <1>2, <1>4, <2>1, <2>2
  <2> QED
    BY <2>3, <2>4, <2>5 DEF Truth
<1> QED
  BY <1>7, <1>10, <1>11, <1>12, <1>13

\* A socket that dies takes what was on it, all above the mark.
LEMMA LinkLossWatched ==
    ASSUME IInv, Shapes, Flight, Heard, Visible, Truth, LinkDies \/ (Deliver /\ ~HasRoom)
    PROVE  Flight' /\ Heard' /\ Visible' /\ Opened' /\ Truth'
<1>1. link = "up" /\ link' = "dead" /\ inflight' = {} /\ queue' = queue
  BY DEF LinkDies, Deliver
<1>2. UNCHANGED <<head, mined, pc, subs, pending, recHead, tracked, status, boot, frozen, covEnd, gaps, stored, feature>>
  BY DEF LinkDies, Deliver, chain, proof, target, cover
<1>3. \A t \in Lost' : t \in Lost \/ At(t.block) > covEnd
  BY <1>1, <1>2 DEF Lost, InWindow, Flight
<1>4. Flight'
  BY <1>1, <1>2 DEF Flight
<1>5. Heard'
  BY <1>1, <1>2, <1>3 DEF Heard
<1>6. Visible'
  <2> SUFFICES ASSUME tracked, boot["curve"] # "none", NEW t \in Lost'
               PROVE  \/ At(t.block) > covEnd
                      \/ \E g \in gaps : g.start <= At(t.block) /\ (frozen[First] # 0 /\ t.block > frozen[First] => Outlasts(g))
    BY <1>1, <1>2 DEF Visible, Fresh, Outlasts
  <2> QED
    BY <1>3 DEF Visible, Fresh
<1>7. Opened'
  BY <1>1 DEF Opened
<1>8. Truth'
  BY <1>2 DEF Truth, Now, InWindow
<1> QED
  BY <1>4, <1>5, <1>6, <1>7, <1>8

\* A crash: what was in memory is lost above the mark, and the next start will notice.
LEMMA CrashWatched ==
    ASSUME IInv, Shapes, Flight, Heard, Visible, Truth, Crash
    PROVE  Flight' /\ Heard' /\ Visible' /\ Opened' /\ Truth'
<1>1. link' = "none" /\ inflight' = {} /\ queue' = {} /\ subs' = {} /\ pc' = "start"
  BY DEF Crash
<1>2. UNCHANGED <<head, mined, tracked, status, boot, frozen, covEnd, gaps, stored, feature>>
  BY DEF Crash, chain, proof, target, cover
<1>3. \A t \in Lost' : t \in Lost \/ At(t.block) > covEnd
  BY <1>1, <1>2 DEF Lost, InWindow, Flight
<1>4. Flight' /\ Heard' /\ Opened'
  BY <1>1, <1>2 DEF Flight, Heard, Opened
<1>5. Visible'
  <2> SUFFICES ASSUME tracked, boot["curve"] # "none", NEW t \in Lost'
               PROVE  \/ At(t.block) > covEnd
                      \/ \E g \in gaps : g.start <= At(t.block) /\ (frozen[First] # 0 /\ t.block > frozen[First] => Outlasts(g))
    BY <1>1, <1>2 DEF Visible, Fresh, Outlasts
  <2> QED
    BY <1>3 DEF Visible, Fresh
<1>6. Truth'
  BY <1>2 DEF Truth, Now, InWindow
<1> QED
  BY <1>4, <1>5, <1>6

\* The gap of an outage covers all that is lost above the mark, and no proof under way closes it.
LEMMA OutageCovers ==
    ASSUME IInv, Shapes
    PROVE  /\ OutageGap.start <= Greatest(covEnd, At(Launch))
           /\ \A t \in Lost : At(t.block) > covEnd => OutageGap.start <= At(t.block)
           /\ \A t \in Lost : frozen[First] # 0 /\ t.block > frozen[First] => Outlasts(OutageGap)
           /\ frozen[First] \in 1..(EndBlock - 1) => Outlasts(OutageGap)
<1>1. /\ OutageGap.reason = "ws_gap" /\ OutageGap.start \in Int /\ OutageGap.end \in Int
      /\ OutageGap.start = (IF covEnd = 0 THEN At(Launch) ELSE covEnd)
      /\ OutageGap.end >= Now \/ OutageGap.end >= At(EndBlock)
  BY OutageTimes
<1>2. /\ covEnd \in Int /\ head \in Nat /\ EndBlock \in Nat
      /\ frozen[First] \in Nat /\ frozen[First] <= head
  BY BoundsAssumption DEF Shapes, IInv, Types, Heads, First, Stages
<1>3. OutageGap.start <= Greatest(covEnd, At(Launch))
  BY <1>1, <1>2 DEF Greatest, At, Launch
<1>4. ASSUME NEW t \in Lost, At(t.block) > covEnd PROVE OutageGap.start <= At(t.block)
  <2>1. t.block \in Nat /\ t.block >= 1
    BY LostTimes
  <2> QED
    BY <1>1, <1>2, <1>4, <2>1 DEF At, Launch
<1>5. frozen[First] < EndBlock => Outlasts(OutageGap)
  <2> DEFINE F == frozen[First]
  <2>1. F \in Nat /\ F <= head
    BY <1>2
  <2> HIDE DEF F
  <2>2. F < EndBlock => OutageGap.end > At(F)
    BY <1>1, <1>2, <2>1 DEF At, Now
  <2> QED
    BY <1>1, <2>2 DEF F, Outlasts, BootstrapRequired
<1>6. ASSUME NEW t \in Lost, t.block > frozen[First] PROVE frozen[First] < EndBlock
  <2>1. t.block \in Nat /\ t.block <= EndBlock
    BY LostTimes
  <2> QED
    BY <1>2, <1>6, <2>1
<1> QED
  BY <1>2, <1>3, <1>4, <1>5, <1>6

\* The worker notices an outage: the gap it opens covers what was lost and what will be until it subscribes again.
LEMMA NoticeWatched ==
    ASSUME Prompt, IInv, IInv', OnlyCurve, Shapes, Shapes', Places, Flight, Heard, Visible, Truth,
           NoticeLoss \/ ConnectFails
    PROVE  Flight' /\ Heard' /\ Visible' /\ Opened' /\ Truth'
<1>1. /\ link \in {"dead", "none"} /\ link' = "none" /\ pc # "start" /\ pc' = "backoff"
      /\ gaps' = IF Active THEN gaps \cup {OutageGap} ELSE gaps
      /\ status' = IF Expired THEN "partial" ELSE status
  BY DEF NoticeLoss, ConnectFails, HandleLoss, NeedsSocket, Subscribing, Places
<1>2. UNCHANGED <<head, mined, inflight, queue, subs, pending, recHead, tracked, boot, frozen, covEnd, stored>>
  BY DEF NoticeLoss, ConnectFails, HandleLoss, chain, proof, cover
<1>3. Lost' = Lost
  BY <1>2 DEF Lost, InWindow
<1>4. Flight' /\ Heard'
  BY <1>1, <1>2 DEF Flight, Heard
<1>5. Active => OutageGap \in gaps'
  BY <1>1
<1>6. Visible'
  <2> SUFFICES ASSUME tracked, boot["curve"] # "none", NEW t \in Lost
               PROVE  \/ At(t.block) > covEnd /\ status' # "active"
                      \/ \E g \in gaps' : g.start <= At(t.block) /\ (frozen[First] # 0 /\ t.block > frozen[First] => Outlasts(g))
    BY <1>1, <1>2, <1>3 DEF Visible, Fresh, Outlasts
  <2>1. CASE Fresh(t)
    <3>1. At(t.block) > covEnd
      BY <2>1 DEF Fresh
    <3>2. CASE Active
      BY <1>5, <3>1, <3>2, OutageCovers
    <3>3. CASE ~Active
      <4>1. status # "active"
        BY <3>3 DEF Active
      <4> QED
        BY <1>1, <3>1, <4>1
    <3> QED
      BY <3>2, <3>3
  <2>2. CASE ~Fresh(t)
    <3>1. gaps \subseteq gaps'
      BY <1>1
    <3> QED
      BY <2>2, <3>1 DEF Visible
  <2> QED
    BY <2>1, <2>2
<1>7. Opened'
  <2>1. Active' => Active
    BY <1>1, <1>2 DEF Active
  <2> QED
    BY <1>2, <1>5, <2>1, OutageCovers DEF Opened, Outlasts
<1>8. Truth'
  <2>1. Judged'
    BY <1>4, <1>6, Judging, PTL DEF IInv
  <2>2. PICK d : Refresh(IF Active THEN Downgrade(feature, OutageGap.start) ELSE feature, d, gaps', covEnd)
    BY DEF NoticeLoss, ConnectFails, HandleLoss
  <2> DEFINE f == IF Active THEN Downgrade(feature, OutageGap.start) ELSE feature
  <2>3. \A w \in Windows : f[w] = "complete" => feature[w] = "complete"
    BY DEF Downgrade
  <2> HIDE DEF f
  <2>4. feature' = f \/ (tracked /\ feature' = Rebuilt(f, Sure, gaps', boot, covStart, covEnd))
    BY <2>2 DEF Refresh, f
  <2>5. ASSUME NEW w \in Windows, feature'[w] = "complete", feature[w] # "complete"
        PROVE  At(w) <= Now /\ tracked /\ Clean(w, gaps', covEnd)
    <3>1. tracked /\ ~(At(w) > Sure) /\ Clean(w, gaps', covEnd)
      BY <2>3, <2>4, <2>5, Rebuilding
    <3>2. Lag \in Nat /\ head \in Nat /\ w \in Int
      BY BoundsAssumption DEF IInv, Types
    <3> QED
      BY <3>1, <3>2 DEF At, Sure, Now
  <2> QED
    BY <1>2, <2>1, <2>5, TruthKept
<1> QED
  BY <1>4, <1>6, <1>7, <1>8

\* The first thing a new process does is to open the gap of the outage before it.
LEMMA StartWatched ==
    ASSUME Prompt, IInv, OnlyCurve, Shapes, Places, Flight, Heard, Visible, Truth, Start
    PROVE  Flight' /\ Heard' /\ Visible' /\ Opened' /\ Truth'
<1>1. /\ pc = "start" /\ pc' = "down" /\ link = "none" /\ link' = "none"
      /\ IF UnknownOutage THEN AddGap(OutageGap) ELSE UNCHANGED <<gaps, feature>>
  BY DEF Start, Places, net
<1>2. UNCHANGED <<head, mined, inflight, queue, subs, pending, recHead, tracked, status, boot, frozen, covEnd, stored>>
  BY DEF Start, chain, net, proof, cover, target
<1>3. Lost' = Lost
  BY <1>2 DEF Lost, InWindow
<1>4. Flight' /\ Heard'
  BY <1>1, <1>2 DEF Flight, Heard
<1>5. gaps \subseteq gaps' /\ (Active => OutageGap \in gaps')
  <2>1. Active => UnknownOutage
    BY DEF UnknownOutage, Active, Places
  <2> QED
    BY <1>1, <2>1 DEF AddGap
<1>6. Visible'
  <2> SUFFICES ASSUME tracked, boot["curve"] # "none", NEW t \in Lost
               PROVE  \/ At(t.block) > covEnd /\ status # "active"
                      \/ \E g \in gaps' : g.start <= At(t.block) /\ (frozen[First] # 0 /\ t.block > frozen[First] => Outlasts(g))
    BY <1>2, <1>3 DEF Visible, Fresh, Outlasts
  <2>1. CASE Fresh(t)
    <3>1. At(t.block) > covEnd
      BY <2>1 DEF Fresh
    <3> QED
      BY <1>5, <3>1, OutageCovers DEF Active
  <2>2. CASE ~Fresh(t)
    BY <1>5, <2>2 DEF Visible
  <2> QED
    BY <2>1, <2>2
<1>7. Opened'
  <2>1. Active' => Active
    BY <1>2 DEF Active
  <2> QED
    BY <1>2, <1>5, <2>1, OutageCovers DEF Opened, Outlasts
<1>8. Truth'
  <2>1. NoBetter
    BY <1>1, Downgrading DEF AddGap, NoBetter
  <2> QED
    BY <1>2, <2>1 DEF Truth, Now, InWindow, NoBetter
<1> QED
  BY <1>4, <1>6, <1>7, <1>8

\* A new connection has no subscription yet.
LEMMA ConnectWatched ==
    ASSUME Places, Flight, Heard, Visible, Opened, Truth, Connect
    PROVE  Flight' /\ Heard' /\ Visible' /\ Opened' /\ Truth'
<1>1. pc = "down" /\ pc' = "idle" /\ link = "none" /\ link' = "up" /\ subs = {} /\ inflight = {}
  BY DEF Connect, Places, Flight
<1>2. UNCHANGED <<head, mined, inflight, queue, subs, pending, recHead, tracked, status, boot, frozen, covEnd, gaps,
                  stored, feature>>
  BY DEF Connect, chain, proof, target
<1>3. Lost' = Lost
  BY <1>2 DEF Lost, InWindow
<1>4. Flight' /\ Heard'
  BY <1>1, <1>2 DEF Flight, Heard
<1>5. Visible'
  <2>1. \A t : Fresh(t) => Fresh(t)'
    BY <1>1, <1>2 DEF Fresh
  <2> QED
    BY <1>2, <1>3, <2>1 DEF Visible, Outlasts
<1>6. Opened'
  BY <1>1, <1>2 DEF Opened, Active, Outlasts
<1>7. Truth'
  BY <1>2 DEF Truth, Now, InWindow
<1> QED
  BY <1>4, <1>5, <1>6, <1>7

\* A target that is retired is not listened for, and its mark stands still.
LEMMA ExpireWatched ==
    ASSUME Flight, Visible, Truth, Expire
    PROVE  Flight' /\ Heard' /\ Visible' /\ Opened' /\ Truth'
<1>1. status' # "active" /\ subs' = {}
  BY DEF Expire
<1>2. UNCHANGED <<head, mined, link, inflight, queue, tracked, boot, frozen, covEnd, gaps, stored, feature>>
  BY DEF Expire, chain, net, proof, cover
<1>3. Lost' = Lost
  BY <1>2 DEF Lost, InWindow
<1>4. Flight' /\ Heard' /\ Opened'
  BY <1>1, <1>2 DEF Flight, Heard, Opened, Active
<1>5. Visible'
  <2>1. \A t : Fresh(t) => Fresh(t)'
    BY <1>1, <1>2 DEF Fresh
  <2> QED
    BY <1>2, <1>3, <2>1 DEF Visible, Outlasts
<1>6. Truth'
  BY <1>2 DEF Truth, Now, InWindow
<1> QED
  BY <1>4, <1>5, <1>6

\* A target is discovered without a bootstrap row, and gets one with a gap from its launch.
LEMMA EnlistWatched ==
    ASSUME IInv, OnlyCurve, Shapes, Places, Flight, Heard, Truth, Discover \/ Ensure, Visible, Opened
    PROVE  Flight' /\ Heard' /\ Visible' /\ Opened' /\ Truth'
<1>1. UNCHANGED <<head, mined, link, inflight, queue, subs, pending, recHead, frozen, covEnd, stored>>
  BY DEF Discover, Ensure, chain, net, proof, cover
<1>2. Lost' = Lost
  BY <1>1 DEF Lost, InWindow
<1>3. Flight' /\ Heard'
  BY <1>1, <1>2 DEF Flight, Heard
<1>4. CASE Discover
  <2>1. boot' = boot /\ feature' = feature /\ pc = "discover"
    BY <1>4 DEF Discover, proof
  <2>2. boot["curve"] = "none"
    BY <2>1 DEF Places
  <2>3. Visible' /\ Opened'
    BY <2>1, <2>2 DEF Visible, Opened
  <2>4. Truth'
    BY <1>1, <2>1 DEF Truth, Now, InWindow
  <2> QED
    BY <1>3, <2>3, <2>4
<1>5. CASE Ensure
  <2> DEFINE g == Gap(BootstrapRequired("curve"), At(Launch), At(Launch), Launch)
  <2>1. NewRows = {"curve"} /\ Base("curve") = Launch
    BY <1>5, OneFilter DEF Ensure
  <2>2. boot["curve"] = "none" /\ frozen[First] = 0
    BY <2>1 DEF NewRows, Places
  <2>3. g \in gaps'
    BY <1>5, <2>1 DEF Ensure
  <2>4. g.start = At(Launch) /\ At(Launch) = 2
    BY GapTimes DEF At, Launch
  <2> HIDE DEF g
  <2>5. Visible'
    <3>1. \A t \in Lost : g.start <= At(t.block)
      <4> SUFFICES ASSUME NEW t \in Lost PROVE g.start <= At(t.block)
        OBVIOUS
      <4>1. t.block \in Nat /\ t.block >= 1 /\ At(t.block) = 2 * t.block
        BY LostTimes
      <4> QED
        BY <2>4, <4>1
    <3> QED
      BY <1>1, <1>2, <2>2, <2>3, <3>1 DEF Visible
  <2>6. Opened'
    <3>1. g.start <= Greatest(covEnd, At(Launch))
      BY <2>4 DEF Greatest, Shapes
    <3> QED
      BY <1>1, <2>2, <2>3, <3>1 DEF Opened
  <2>7. \A w \in Windows : feature'[w] # "complete"
    <3>1. {At(Base(k)) : k \in NewRows} = {2}
      BY <2>1, <2>4
    <3>2. feature' = Downgrade(feature, Min({At(Base(k)) : k \in NewRows}))
      BY <1>5 DEF Ensure
    <3>3. Min({2}) = 2
      BY DEF Min
    <3>4. feature' = Downgrade(feature, 2)
      BY <3>1, <3>2, <3>3
    <3> SUFFICES ASSUME NEW w \in Windows PROVE feature'[w] # "complete"
      OBVIOUS
    <3>5. EndBlock \in Nat /\ w \in 1..EndBlock
      BY BoundsAssumption
    <3>6. At(w) >= 2
      BY <3>5 DEF At
    <3>7. feature'[w] = IF feature[w] # "none" /\ At(w) >= 2 THEN "partial" ELSE feature[w]
      BY <3>4 DEF Downgrade
    <3> QED
      BY <3>6, <3>7
  <2>8. Truth'
    BY <2>7 DEF Truth
  <2> QED
    BY <1>3, <2>5, <2>6, <2>8
<1> QED
  BY <1>4, <1>5

\* A new subscription makes a recovery due, from a head read after it.
LEMMA SubscribeWatched ==
    ASSUME OnlyCurve, Flight, Visible, Truth, Subscribe, subs # Filters
    PROVE  Flight' /\ Heard' /\ Visible' /\ Opened' /\ Truth'
<1>1. link = "up" /\ pending' = TRUE /\ recHead' = 0 /\ subs' = {"curve"} /\ pc # "start" /\ pc' # "start"
  BY OneFilter DEF Subscribe, Subscribing, HeadAfterSubscribe
<1>2. UNCHANGED <<head, mined, link, inflight, queue, tracked, status, boot, frozen, covEnd, gaps, stored, feature>>
  BY DEF Subscribe, chain, net, proof, target, cover
<1>3. Lost' = Lost
  BY <1>2 DEF Lost, InWindow
<1>4. Flight' /\ Heard' /\ Opened'
  BY <1>1, <1>2 DEF Flight, Heard, Opened
<1>5. Visible'
  <2>1. \A t : Fresh(t) => Fresh(t)'
    BY <1>1, <1>2 DEF Fresh
  <2> QED
    BY <1>2, <1>3, <2>1 DEF Visible, Outlasts
<1>6. Truth'
  BY <1>2 DEF Truth, Now, InWindow
<1> QED
  BY <1>4, <1>5, <1>6

\* finalize() moves the mark to where a live socket has delivered, and judges behind it.
LEMMA FinishWatched ==
    ASSUME Prompt, IInv, IInv', OnlyCurve, Shapes, Shapes', Places, Flight, Heard, Visible, Opened, Truth, Finish
    PROVE  Flight' /\ Heard' /\ Visible' /\ Opened' /\ Truth'
<1>1. /\ link = "up" /\ queue = {} /\ pc = "finish" /\ pc' = "idle"
      /\ covEnd' = IF subs # {} THEN Least(At(EndBlock), Sure) ELSE covEnd
  BY DEF Finish
<1>2. UNCHANGED <<head, mined, link, inflight, queue, subs, pending, recHead, tracked, status, boot, frozen, gaps, stored>>
  BY DEF Finish, chain, net, proof, target
<1>3. Lost' = Lost
  BY <1>2 DEF Lost, InWindow
<1>4. Flight'
  <2>1. \A t \in inflight : t.block > head - Lag /\ t.block \in Nat
    <3>1. inflight \subseteq Trades /\ MaxBlock \in Nat
      BY BoundsAssumption DEF IInv, Types, Shapes
    <3> QED
      BY <1>1, <3>1 DEF Flight, Trades
  <2>2. head \in Nat /\ Lag \in Nat /\ EndBlock \in Nat
    BY BoundsAssumption DEF IInv, Types
  <2>3. ASSUME subs # {}, NEW t \in inflight PROVE At(t.block) > covEnd'
    <3>1. covEnd' <= 2 * (head - Lag) + 1 /\ covEnd' \in Int
      BY <1>1, <2>2, <2>3 DEF Least, At, Sure
    <3>2. t.block >= head - Lag + 1 /\ t.block \in Nat
      BY <2>1, <2>2
    <3> QED
      BY <2>2, <3>1, <3>2 DEF At
  <2>4. CASE subs = {}
    BY <1>1, <1>2, <2>4 DEF Flight
  <2>5. CASE subs # {}
    BY <1>1, <1>2, <2>3, <2>5 DEF Flight
  <2> QED
    BY <2>4, <2>5
<1>5. Heard'
  BY <1>1, <1>2, <1>3 DEF Heard
<1>6. Visible'
  <2>1. CASE subs = {}
    <3>1. \A t : Fresh(t) => Fresh(t)'
      BY <1>1, <1>2, <2>1 DEF Fresh
    <3> QED
      BY <1>2, <1>3, <3>1 DEF Visible, Outlasts
  <2>2. CASE subs # {}
    <3>1. \A t : ~Fresh(t)
      BY <1>1, <2>2 DEF Fresh, Places
    <3> QED
      BY <1>2, <1>3, <3>1 DEF Visible, Outlasts
  <2> QED
    BY <2>1, <2>2
<1>7. Opened'
  BY <1>1, <1>2 DEF Opened, Active, Outlasts
<1>8. Truth'
  <2>1. Judged'
    BY <1>4, <1>6, Judging, PTL DEF IInv
  <2>2. PICK d : Refresh(feature, d, gaps, covEnd')
    BY DEF Finish
  <2>3. feature' = feature \/ (tracked /\ feature' = Rebuilt(feature, Sure, gaps, boot, covStart, covEnd'))
    BY <2>2 DEF Refresh
  <2>4. ASSUME NEW w \in Windows, feature'[w] = "complete", feature[w] # "complete"
        PROVE  At(w) <= Now /\ tracked /\ Clean(w, gaps, covEnd')
    <3>1. tracked /\ ~(At(w) > Sure) /\ Clean(w, gaps, covEnd')
      BY <2>3, <2>4, Rebuilding
    <3>2. Lag \in Nat /\ head \in Nat /\ w \in Int
      BY BoundsAssumption DEF IInv, Types
    <3> QED
      BY <3>1, <3>2 DEF At, Sure, Now
  <2> QED
    BY <1>2, <2>1, <2>4, TruthKept
<1> QED
  BY <1>4, <1>5, <1>6, <1>7, <1>8

\* A frozen head is the head of the moment: nothing lost lies above it.
LEMMA FreezeWatched ==
    ASSUME Prompt, IInv, OnlyCurve, Shapes, Places, Flight, Heard, Visible, Opened, Truth, Freeze
    PROVE  Flight' /\ Heard' /\ Visible' /\ Opened' /\ Truth'
<1>1. pc = "freeze" /\ pc' = "jobs" /\ subs # {} /\ link # "none" /\ Stage = First
  BY OneFilter DEF Freeze, Places, Recovering
<1>2. UNCHANGED <<head, mined, link, inflight, queue, subs, pending, recHead, tracked, status, boot, covEnd, gaps,
                  stored, feature>>
  BY DEF Freeze, chain, net, target, cover
<1>3. Lost' = Lost
  BY <1>2 DEF Lost, InWindow
<1>4. frozen'[First] = frozen[First] \/ frozen'[First] = head
  <2>1. frozen' = frozen \/ \E h \in Greatest(1, head - HttpLag)..head : frozen' = [frozen EXCEPT ![Stage] = h]
    BY DEF Freeze
  <2>2. head \in Nat /\ frozen \in [Stages -> Nat] /\ First \in Stages
    BY DEF IInv, Types, First, Stages
  <2>3. \A h \in Greatest(1, head - HttpLag)..head : h = head
    BY <2>2 DEF Prompt, Greatest
  <2> QED
    BY <1>1, <2>1, <2>2, <2>3
<1>5. Flight' /\ Heard' /\ Opened'
  BY <1>1, <1>2, <1>3 DEF Flight, Heard, Opened
<1>6. Visible'
  <2> SUFFICES ASSUME tracked, boot["curve"] # "none", NEW t \in Lost
               PROVE  \/ Fresh(t)
                      \/ \E g \in gaps : /\ g.start <= At(t.block)
                                         /\ frozen'[First] # 0 /\ t.block > frozen'[First]
                                               => g.reason # BootstrapRequired("curve") /\ g.end > At(frozen'[First])
    BY <1>1, <1>2, <1>3 DEF Visible, Fresh, Outlasts
  <2>1. t.block \in Nat /\ t.block <= head /\ head \in Nat
    BY LostTimes
  <2>2. Fresh(t) \/ \E g \in gaps : g.start <= At(t.block) /\ (frozen[First] # 0 /\ t.block > frozen[First] => Outlasts(g))
    BY DEF Visible
  <2>3. CASE frozen'[First] = frozen[First]
    BY <2>2, <2>3 DEF Outlasts
  <2>4. CASE frozen'[First] = head
    BY <2>1, <2>2, <2>4
  <2> QED
    BY <1>4, <2>3, <2>4
<1>7. Truth'
  BY <1>2 DEF Truth, Now, InWindow
<1> QED
  BY <1>5, <1>6, <1>7

\* A recovery that is done has stored all that is lost, or the socket has died meanwhile.
LEMMA RecoveredWatched ==
    ASSUME IInv, Shapes, Places, Replaying, Flight, Heard, Visible, Truth, Recovered
    PROVE  /\ link = "up" => Lost' = {}
           /\ Flight' /\ Heard' /\ Visible' /\ Opened' /\ Truth'
<1>1. /\ pc = "fetch" /\ plan = <<>> /\ pc' = "finish" /\ subs # {} /\ link \in {"up", "dead"}
      /\ pending' = FALSE /\ recHead' = 0 /\ recHead # 0
  BY DEF Recovered, Places, Recovering, Replaying
<1>2. UNCHANGED <<head, mined, link, inflight, queue, subs, tracked, status, boot, frozen, covEnd, stored, feature>>
  BY DEF Recovered, chain, net, proof, target
<1>3. Lost' = Lost
  BY <1>2 DEF Lost, InWindow
<1>4. \A t \in Lost : ~(t.block <= recHead)
  BY <1>1 DEF Replaying, Lost
<1>5. link = "up" => Lost = {}
  BY <1>1, <1>4 DEF Heard
<1>6. link = "dead" => \A t \in Lost : At(t.block) > covEnd
  BY <1>1, <1>4 DEF Heard
<1>7. Flight' /\ Heard' /\ Opened'
  BY <1>1, <1>2, <1>3, <1>5 DEF Flight, Heard, Opened
<1>8. Visible'
  BY <1>1, <1>2, <1>3, <1>5, <1>6 DEF Visible, Fresh
<1>9. Truth'
  BY <1>2 DEF Truth, Now, InWindow
<1> QED
  BY <1>3, <1>5, <1>7, <1>8, <1>9

\* A proof that is promoted has stored all up to its frozen head.
LEMMA ProvedBelow ==
    ASSUME Prompt, IInv, OnlyCurve, Proving, pc = "promote"
    PROVE  /\ Planned = {"curve"} /\ Stage = First
           /\ job[First]["curve"].first = Launch /\ job[First]["curve"].last = frozen[First]
           /\ \A t \in InWindow(mined) : t.block <= frozen[First] => t \in stored
<1>1. Stage = First /\ First \in Stages /\ Kinds = {"curve", "v4"} /\ "curve" \in Kinds
  BY OneFilter DEF First, Stages, Kinds
<1>2. Planned = {"curve"}
  BY <1>1 DEF Proving, Planned
<1>3. job[First]["curve"].first = Launch /\ job[First]["curve"].last = frozen[First]
  BY DEF Proving
<1>4. ~(job[First]["curve"].next <= job[First]["curve"].last)
  BY <1>1, <1>2 DEF IInv, Proofs, Unproved
<1>5. Below("curve", job[First]["curve"].next)
  BY <1>1 DEF IInv, Proofs
<1>6. job[First]["curve"] \in Jobs
  BY <1>1 DEF IInv, Types
<1>7. ASSUME NEW t \in InWindow(mined), t.block <= frozen[First] PROVE t \in stored
  <2>1. t.kind = "curve" /\ t.block \in Nat
    BY BoundsAssumption DEF OnlyCurve, InWindow, IInv, Types, Trades
  <2>2. t.block < job[First]["curve"].next
    BY <1>3, <1>4, <1>6, <1>7, <2>1 DEF Jobs
  <2> QED
    BY <1>5, <2>1, <2>2 DEF Below
<1> QED
  BY <1>1, <1>2, <1>3, <1>7

\* Promotion closes the gaps its range has filled, and none of what is lost above it.
LEMMA PromoteWatched ==
    ASSUME Prompt, IInv, IInv', OnlyCurve, Shapes, Shapes', Places, Proving, Flight, Heard, Visible, Truth, Promote
    PROVE  Flight' /\ Heard' /\ Visible' /\ Opened' /\ Truth'
<1> DEFINE H == frozen[First]
<1>1. /\ pc = "promote" /\ pc' = "finish" /\ subs # {} /\ link # "none" /\ recHead' = 0
      /\ H # 0 /\ Active /\ boot["curve"] # "none"
  BY DEF Promote, Bootstrapped, Places, Proving, Recovering
<1>2. UNCHANGED <<head, mined, link, inflight, queue, subs, pending, tracked, status, frozen, stored>>
  BY DEF Promote, chain, net, target
<1>3. Planned = {"curve"} /\ Stage = First /\ \A t \in InWindow(mined) : t.block <= H => t \in stored
  BY <1>1, ProvedBelow
<1>4. Lost' = Lost
  BY <1>2 DEF Lost, InWindow
<1>5. covEnd' = Greatest(covEnd, Least(At(EndBlock), At(H)))
  BY <1>3 DEF Promote
<1>6. \A g \in gaps : g.reason # BootstrapRequired("curve") /\ g.end > At(H) => g \in gaps'
  <2>1. gaps' = {g \in gaps : \A k \in Planned :
                    /\ ~(g.reason = BootstrapRequired(k) /\ g.first = job[Stage][k].first)
                    /\ ~(/\ g.reason \in {"ws_gap", "reconnect"}
                         /\ g.first \in job[Stage][k].first..job[Stage][k].last
                         /\ g.end <= At(H))}
    BY <1>3 DEF Promote
  <2>2. At(H) \in Int
    BY <1>3 DEF IInv, Types, At, First, Stages
  <2> SUFFICES ASSUME NEW g \in gaps, g.reason # BootstrapRequired("curve"), g.end > At(H) PROVE g \in gaps'
    OBVIOUS
  <2>3. ~(g.end <= At(H))
    BY <2>2 DEF Shapes
  <2> QED
    BY <1>3, <2>1, <2>3
<1> HIDE DEF H
<1>7. ASSUME NEW t \in InWindow(mined), t \notin stored, At(t.block) > covEnd PROVE At(t.block) > covEnd'
  <2>1. t.block \in Nat /\ EndBlock \in Nat /\ covEnd \in Int
    <3>1. t \in Trades /\ MaxBlock \in Nat /\ EndBlock \in Nat
      BY BoundsAssumption DEF InWindow, IInv, Types
    <3> QED
      BY <3>1 DEF Trades, Shapes
  <2>2. H \in Nat
    BY DEF H, IInv, Types, First, Stages
  <2>3. t.block > H
    BY <1>3, <1>7, <2>1, <2>2
  <2> QED
    BY <1>5, <1>7, <2>1, <2>2, <2>3 DEF At, Greatest, Least
<1>8. Flight'
  <2>1. queue \cup inflight \subseteq mined
    BY DEF Shapes
  <2>2. ASSUME NEW t \in queue \cup inflight, t \notin stored PROVE At(t.block) > covEnd'
    <3>1. At(t.block) > covEnd
      BY <2>2 DEF Flight
    <3>2. CASE t \in InWindow(mined)
      BY <1>7, <2>2, <3>1, <3>2
    <3>3. CASE t \notin InWindow(mined)
      <4>1. t \in mined /\ ~(t.block <= EndBlock)
        BY <2>1, <3>3 DEF InWindow
      <4>2. t \in Trades /\ MaxBlock \in Nat /\ EndBlock \in Nat /\ covEnd \in Int
        BY <4>1, BoundsAssumption DEF IInv, Types, Shapes
      <4>3. t.block \in Nat
        BY <4>2 DEF Trades
      <4>4. H \in Nat
        BY DEF H, IInv, Types, First, Stages
      <4> QED
        BY <1>5, <3>1, <4>1, <4>2, <4>3, <4>4 DEF At, Greatest, Least
    <3> QED
      BY <3>2, <3>3
  <2> QED
    BY <1>2, <2>2 DEF Flight
<1>9. Heard' /\ Opened'
  BY <1>1, <1>2, <1>4, <1>7 DEF Heard, Opened, Lost
<1>10. Visible'
  <2> SUFFICES ASSUME NEW t \in Lost
               PROVE  \/ At(t.block) > covEnd' /\ (link = "dead" \/ status # "active")
                      \/ \E g \in gaps' : g.start <= At(t.block) /\ Outlasts(g)
    BY <1>2, <1>4 DEF Visible, Fresh, Outlasts
  <2>1. t \in InWindow(mined) /\ t \notin stored
    BY DEF Lost
  <2>2. CASE Fresh(t)
    BY <1>1, <1>7, <2>1, <2>2 DEF Fresh
  <2>3. CASE ~Fresh(t)
    <3>1. t.block > H
      <4>1. t.block \in Nat
        BY LostTimes
      <4>2. H \in Nat
        BY DEF H, IInv, Types, First, Stages
      <4> QED
        BY <1>3, <2>1, <4>1, <4>2
    <3>2. PICK g \in gaps : g.start <= At(t.block) /\ Outlasts(g)
      BY <1>1, <2>3, <3>1 DEF Visible, H, Active
    <3> QED
      BY <1>6, <3>2 DEF Outlasts, H
  <2> QED
    BY <2>2, <2>3
<1>11. Truth'
  <2>1. Judged'
    BY <1>8, <1>10, Judging, PTL DEF IInv
  <2>2. PICK cs : feature' = Rebuilt(feature, Now, gaps', boot', cs, covEnd')
    BY DEF Promote
  <2>3. ASSUME NEW w \in Windows, feature'[w] = "complete", feature[w] # "complete"
        PROVE  At(w) <= Now /\ tracked /\ Clean(w, gaps', covEnd')
    <3>1. ~(At(w) > Now) /\ Clean(w, gaps', covEnd')
      BY <2>2, <2>3, Rebuilding
    <3>2. head \in Nat /\ w \in Int
      BY BoundsAssumption DEF IInv, Types
    <3> QED
      BY <1>1, <3>1, <3>2 DEF At, Now, Active
  <2> QED
    BY <1>1, <1>2, <2>1, <2>3, TruthKept
<1> QED
  BY <1>8, <1>9, <1>10, <1>11

(***************************************************************************)
(* Every step keeps it.                                                    *)
(***************************************************************************)

\* The steps, by what they do to what is missing.
LEMMA WatchedSteps ==
    ASSUME Prompt, OnlyCurve, [Next]_vars
    PROVE  \/ Mine \/ (LinkDies \/ (Deliver /\ ~HasRoom)) \/ Crash \/ (NoticeLoss \/ ConnectFails) \/ Start \/ Connect
           \/ Expire \/ (Discover \/ Ensure) \/ (Subscribe /\ subs # Filters) \/ Finish
           \/ Freeze \/ Recovered \/ Promote
           \/ \/ Tick \/ Drain \/ Backoff \/ (Subscribe /\ subs = Filters)
              \/ ReadHead \/ HeadFails \/ Plan \/ PlanRefused \/ Fetch \/ FetchFails \/ Save
              \/ PlanJobs \/ Prove \/ ProofFails \/ CommitRange \/ NothingToProve \/ PromoteTooLate
              \/ (Deliver /\ HasRoom) \/ UNCHANGED vars
<1>1. ~Learn /\ ~BaseLearns
  BY OneFilter DEF Learn, BaseLearns, OnlyCurve
<1> QED
  BY <1>1, Steps DEF Idle

\* What is missing stays visible, and what is complete stays true.
LEMMA WatchingStep ==
    ASSUME Prompt, IInv, IInv', Watching, [Next]_vars
    PROVE  Watching'
<1>0. /\ OnlyCurve /\ Shapes /\ Places /\ Proving /\ Replaying
      /\ Flight /\ Heard /\ Visible /\ Opened /\ Truth
  BY DEF Watching
<1>1. OnlyCurve' /\ Shapes' /\ Places' /\ Proving'
  BY <1>0, OnlyCurveStep, ShapesStep, PlacesStep, ProvingStep
<1>2. Replaying'
  BY <1>0, ReplayingStep DEF IInv
<1> DEFINE Kept == Flight' /\ Heard' /\ Visible' /\ Opened' /\ Truth'
<1>3. CASE Mine
  <2>1. Kept
    BY <1>0, <1>3, MineWatched
  <2> QED
    BY <1>1, <1>2, <2>1 DEF Watching
<1>4. CASE LinkDies \/ (Deliver /\ ~HasRoom)
  <2>1. Kept
    BY <1>0, <1>4, LinkLossWatched
  <2> QED
    BY <1>1, <1>2, <2>1 DEF Watching
<1>5. CASE Crash
  <2>1. Kept
    BY <1>0, <1>5, CrashWatched
  <2> QED
    BY <1>1, <1>2, <2>1 DEF Watching
<1>6. CASE NoticeLoss \/ ConnectFails
  <2>1. Kept
    BY <1>0, <1>1, <1>6, NoticeWatched
  <2> QED
    BY <1>1, <1>2, <2>1 DEF Watching
<1>7. CASE Start
  <2>1. Kept
    BY <1>0, <1>7, StartWatched
  <2> QED
    BY <1>1, <1>2, <2>1 DEF Watching
<1>8. CASE Connect
  <2>1. Kept
    BY <1>0, <1>8, ConnectWatched
  <2> QED
    BY <1>1, <1>2, <2>1 DEF Watching
<1>9. CASE Expire
  <2>1. Kept
    BY <1>0, <1>9, ExpireWatched
  <2> QED
    BY <1>1, <1>2, <2>1 DEF Watching
<1>10. CASE Discover \/ Ensure
  <2>1. Kept
    BY <1>0, <1>10, EnlistWatched
  <2> QED
    BY <1>1, <1>2, <2>1 DEF Watching
<1>11. CASE Subscribe /\ subs # Filters
  <2>1. Kept
    BY <1>0, <1>11, SubscribeWatched
  <2> QED
    BY <1>1, <1>2, <2>1 DEF Watching
<1>12. CASE Finish
  <2>1. Kept
    BY <1>0, <1>1, <1>12, FinishWatched
  <2> QED
    BY <1>1, <1>2, <2>1 DEF Watching
<1>13. CASE Freeze
  <2>1. Kept
    BY <1>0, <1>13, FreezeWatched
  <2> QED
    BY <1>1, <1>2, <2>1 DEF Watching
<1>14. CASE Recovered
  <2>1. Kept
    BY <1>0, <1>14, RecoveredWatched
  <2> QED
    BY <1>1, <1>2, <2>1 DEF Watching
<1>15. CASE Promote
  <2>1. Kept
    BY <1>0, <1>1, <1>15, PromoteWatched
  <2> QED
    BY <1>1, <1>2, <2>1 DEF Watching
<1>16. CASE \/ Tick \/ Drain \/ Backoff \/ (Subscribe /\ subs = Filters)
            \/ ReadHead \/ HeadFails \/ Plan \/ PlanRefused \/ Fetch \/ FetchFails \/ Save
            \/ PlanJobs \/ Prove \/ ProofFails \/ CommitRange \/ NothingToProve \/ PromoteTooLate
            \/ (Deliver /\ HasRoom) \/ UNCHANGED vars
  <2>1. Calm
    BY <1>0, <1>16, CalmSteps
  <2>2. Kept
    BY <1>0, <2>1, CalmStep
  <2> QED
    BY <1>1, <1>2, <2>2 DEF Watching
<1> QED
  BY <1>0, <1>3, <1>4, <1>5, <1>6, <1>7, <1>8, <1>9, <1>10, <1>11, <1>12, <1>13, <1>14, <1>15, <1>16, WatchedSteps

\* A gap that closes is behind what is stored: closed by a recovery after which nothing is
\* lost, or by the proof of its range.
LEMMA ClosingStep ==
    ASSUME Prompt, IInv, Watching, [Next]_vars,
           NEW g \in gaps \ gaps', g.reason \in {"ws_gap", "reconnect"}, link # "dead",
           NEW t \in Watched', At(t.block) \in g.start..g.end
    PROVE  t \in stored' \cup queue' \cup inflight'
<1>0. /\ OnlyCurve /\ Shapes /\ Places /\ Proving /\ Replaying
      /\ Flight /\ Heard /\ Visible /\ Opened /\ Truth
  BY DEF Watching
<1>1. t \in InWindow(mined')
  BY DEF Watched, InWindow
<1>2. CASE Recovered
  <2>1. link = "up"
    BY <1>0, <1>2 DEF Places, Recovered
  <2>2. Lost' = {}
    BY <1>0, <1>2, <2>1, RecoveredWatched
  <2> QED
    BY <1>1, <2>2 DEF Lost
<1>3. CASE Promote
  <2>1. pc = "promote" /\ stored' = stored /\ mined' = mined
    BY <1>3 DEF Promote, chain
  <2> DEFINE H == frozen[First]
             first == job[First]["curve"].first
  <2>2. Planned = {"curve"} /\ Stage = First /\ \A u \in InWindow(mined) : u.block <= H => u \in stored
    BY <1>0, <2>1, ProvedBelow
  <2>3. gaps' = {h \in gaps : \A k \in Planned :
                    /\ ~(h.reason = BootstrapRequired(k) /\ h.first = job[Stage][k].first)
                    /\ ~(/\ h.reason \in {"ws_gap", "reconnect"}
                         /\ h.first \in job[Stage][k].first..job[Stage][k].last
                         /\ h.end <= At(H))}
    BY <1>3, <2>2 DEF Promote
  <2>4. g.end <= At(H)
    BY <2>2, <2>3 DEF BootstrapRequired
  <2>5. g.start \in Int /\ g.end \in Int /\ H \in Nat
    BY <1>0 DEF Shapes, IInv, Types, First, Stages
  <2>6. t.block \in Nat
    <3>1. t \in Trades /\ MaxBlock \in Nat
      BY <1>1, <2>1, BoundsAssumption DEF InWindow, IInv, Types
    <3> QED
      BY <3>1 DEF Trades
  <2> HIDE DEF H
  <2>7. t.block <= H
    BY <2>4, <2>5, <2>6 DEF At
  <2> QED
    BY <1>1, <2>1, <2>2, <2>7 DEF H
<1>4. Recovered \/ Promote \/ gaps \subseteq gaps'
  <2>1. CASE Mine \/ LinkDies \/ Deliver \/ Crash
    BY <2>1 DEF Mine, LinkDies, Deliver, Crash
  <2>2. CASE NoticeLoss \/ ConnectFails \/ Start \/ Connect
    BY <2>2 DEF NoticeLoss, ConnectFails, HandleLoss, Start, AddGap, Connect
  <2>3. CASE Expire \/ Discover \/ Ensure \/ Subscribe \/ Finish \/ Freeze
    BY <2>3 DEF Expire, Discover, Ensure, Subscribe, Finish, Freeze
  <2>4. CASE \/ Tick \/ Drain \/ Backoff \/ (Subscribe /\ subs = Filters)
             \/ ReadHead \/ HeadFails \/ Plan \/ PlanRefused \/ Fetch \/ FetchFails \/ Save
             \/ PlanJobs \/ Prove \/ ProofFails \/ CommitRange \/ NothingToProve \/ PromoteTooLate
             \/ (Deliver /\ HasRoom) \/ UNCHANGED vars
    BY <1>0, <2>4, CalmSteps DEF Calm
  <2> QED
    BY <1>0, <2>1, <2>2, <2>3, <2>4, WatchedSteps
<1> QED
  BY <1>2, <1>3, <1>4

\* Without graduations and with a provider that answers with the head, what the watch rests on
\* holds in every reachable state.
THEOREM WatchInvariant == ASSUME Prompt PROVE Spec => []Watching
<1>1. Init => Watching
  BY InitWatching
<1>2. IInv /\ IInv' /\ Watching /\ [Next]_vars => Watching'
  BY WatchingStep
<1> QED
  BY <1>1, <1>2, InductiveInvariant, PTL DEF Spec

\* A trade that is missing and that the coverage mark has passed is behind an open gap, for any
\* chain without a graduation, any loss, crash and failing call.
THEOREM NothingMissesSilently == ASSUME Prompt PROVE Spec => []MissingIsVisible
<1>1. IInv /\ Watching => MissingIsVisible
  <2> SUFFICES ASSUME IInv, Watching, NEW t \in Watched \ stored, tracked, At(t.block) <= covEnd
               PROVE  \E g \in gaps : g.start <= At(t.block)
    BY DEF MissingIsVisible
  <2>1. t \in InWindow(mined) /\ boot["curve"] # "none"
    BY DEF Watched, Watching, OnlyCurve, InWindow
  <2>2. t.block \in Nat /\ covEnd \in Int
    <3>1. t \in Trades /\ MaxBlock \in Nat
      BY <2>1, BoundsAssumption DEF InWindow, IInv, Types
    <3> QED
      BY <3>1 DEF Trades, Watching, Shapes
  <2>3. ~(At(t.block) > covEnd)
    BY <2>2 DEF At
  <2>4. t \in Lost
    BY <2>1, <2>3 DEF Lost, Watching, Flight
  <2> QED
    BY <2>1, <2>3, <2>4 DEF Watching, Visible, Fresh
<1> QED
  BY <1>1, InductiveInvariant, WatchInvariant, PTL

\* A feature row that says complete counts every trade up to its cutoff.
THEOREM CompleteRowsAreTrue == ASSUME Prompt PROVE Spec => []FeatureTruth
<1>1. Watching => FeatureTruth
  <2> SUFFICES ASSUME Watching, NEW w \in Windows, feature[w] = "complete", NEW t \in Watched, t.block <= w
               PROVE  t \in stored
    BY DEF FeatureTruth
  <2>1. t \in InWindow(mined) /\ boot["curve"] # "none"
    BY DEF Watched, Watching, OnlyCurve, InWindow
  <2> QED
    BY <2>1 DEF Watching, Truth
<1> QED
  BY <1>1, WatchInvariant, PTL

\* No gap of an outage closes over a trade that is still lost.
THEOREM GapsCloseOverProofs == ASSUME Prompt PROVE Spec => GapsCloseByProof
<1>1. IInv /\ Watching /\ [Next]_vars =>
        [\A g \in gaps \ gaps' : g.reason \in {"ws_gap", "reconnect"} =>
            \/ link = "dead"
            \/ \A t \in Watched' : At(t.block) \in g.start..g.end => t \in stored' \cup queue' \cup inflight']_vars
  BY ClosingStep
<1> QED
  BY <1>1, InductiveInvariant, WatchInvariant, PTL DEF Spec, GapsCloseByProof
=============================================================================
