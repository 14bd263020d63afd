--------------------------- MODULE ActivationProofs ---------------------------
(***************************************************************************)
(* Proofs about Activation: for any targets, chain, spans and faults, a    *)
(* segment the catalog names is whole, a healthy one misses nothing of its *)
(* targets, and the worker with its activations keeps CoveragePromise.     *)
(*                                                                         *)
(* The argument.  A claim is a finished generation.  Its bound cannot move *)
(* (Lower depends on start, written once, before any generation exists),   *)
(* and next[f] only passes what was stored.  What came after a filter's    *)
(* acknowledgement was noticed: every event that forgets a subscription (a *)
(* crash, a reconnection, the move into the segment) begins a session      *)
(* before the worker is healthy again.  Between the two lie the blocks the *)
(* HTTP endpoint did not know when the head was pinned, HttpLag at most.   *)
(***************************************************************************)
EXTENDS Activation, FiniteSetTheorems, WellFoundedInduction, TLAPS

USE DEF Newest

(***************************************************************************)
(* The inductive invariant.                                                *)
(***************************************************************************)
Rids == [sess : Nat, members : SUBSET Filters]

\* A readiness record; next is the first block of each filter not yet proved.
Bounds      == UNION {[S -> Nat] : S \in SUBSET Filters}
Generations == [rid : Rids, head : Nat, done : BOOLEAN, next : Bounds]

Types ==
    /\ head \in Blocks /\ proc \in Nat
    /\ conn \in {"up", "broken", "down", "dead", "blocked"}
    /\ here \in BOOLEAN /\ subs \subseteq known /\ known \subseteq Filters
    /\ acked \in [Filters -> Nat] /\ \A f \in Filters : acked[f] <= head
    /\ request \in [st : {"none", "REQUESTED", "BLOCKED", "PREPARED"}, pid : Nat]
    /\ capture \in Nat /\ start \in Nat /\ sess \in Nat
    /\ stored \subseteq Happened /\ queue \subseteq Happened
    /\ pin \in [rid : Rids, head : Nat]
    /\ gens \in Seq(Generations)
    /\ \A i \in DOMAIN gens : DOMAIN gens[i].next = gens[i].rid.members

\* Where the tick can be, and what the phases before it have established.
Publishing == {"header", "fill", "publish", "mark"}
Proving    == {"discover", "subscribe", "ready", "bind", "tail", "debts"}

Phases ==
    /\ here => start # 0
    /\ gens # <<>> => start # 0
    /\ pc \in Proving => here
    /\ pc \in {"bind", "tail", "debts"} => gens # <<>>
    /\ pc = "debts" => Whole(gens[Len(gens)])
    /\ pc = "ready" => known \subseteq subs

\* A request is served by the process it names, once, and only then is a row published.
Requests ==
    /\ request.pid <= proc
    /\ start # 0 => request.st # "none"
    /\ start # 0 /\ request.st = "REQUESTED" => pc = "mark" \/ request.pid # proc \/ conn = "dead"
    /\ pc \in Publishing \cup {"request"} => request.st = "REQUESTED" /\ Live
    /\ pc \in Publishing => request.pid = proc

\* The file is filled before the row that names it and never emptied.
FileFirst == start # 0 \/ pc \in {"publish", "mark"} => file = "filled"

\* Generations and the pin belong to sessions begun and filters known, in heads mined.
Known(rid) == rid.sess <= sess /\ rid.members \subseteq known
Pinned ==
    /\ Known(pin.rid) /\ pin.head <= head
    /\ \A i \in DOMAIN gens : Known(gens[i].rid) /\ gens[i].head <= head
    /\ Ready => pin = [rid |-> Rid, head |-> gens[Len(gens)].head]

\* What a generation has passed is stored; a finished one has passed its head.
Proved ==
    /\ \A f \in known : Base[f] <= head
    /\ \A i \in DOMAIN gens : \A f \in gens[i].rid.members :
          {f} \X (Lower(f)..gens[i].next[f] - 1) \subseteq stored /\ Lower(f) <= gens[i].next[f]
    /\ \A i \in DOMAIN gens : gens[i].done => Whole(gens[i])

\* Every block after an acknowledgement was noticed, and no acknowledgement of the session and the
\* filters of the pin is further above its head than the endpoint may trail the chain.
Noticing ==
    conn = "up" /\ here =>
        /\ \A f \in subs : {f} \X (acked[f] + 1..head) \subseteq stored \cup queue
        /\ pin.rid = Rid => known \subseteq subs /\ \A f \in known : acked[f] <= pin.head + HttpLag

IInv ==
    /\ Types /\ Phases /\ Requests /\ FileFirst /\ Pinned /\ Proved /\ Noticing

(***************************************************************************)
(* Lemmas about the operators.                                             *)
(***************************************************************************)

\* Generation 1 to n and no other, each of them whole in its parts.
LEMMA GenerationsTyped ==
    ASSUME Types
    PROVE  /\ Len(gens) \in Nat /\ DOMAIN gens = 1..Len(gens)
           /\ gens # <<>> => Len(gens) \in DOMAIN gens
           /\ \A i \in DOMAIN gens :
                /\ gens[i] \in Generations
                /\ gens[i].rid.sess \in Nat /\ gens[i].rid.members \subseteq Filters
                /\ gens[i].head \in Nat /\ gens[i].done \in BOOLEAN
                /\ gens[i].next \in [gens[i].rid.members -> Nat]
<1>1. Len(gens) \in Nat /\ DOMAIN gens = 1..Len(gens) /\ (gens # <<>> => Len(gens) \in 1..Len(gens))
  BY DEF Types
<1>2. ASSUME NEW i \in DOMAIN gens PROVE gens[i] \in Generations
  BY <1>1, <1>2 DEF Types
<1>3. ASSUME NEW g \in Generations, DOMAIN g.next = g.rid.members
      PROVE  /\ g.rid.sess \in Nat /\ g.rid.members \subseteq Filters
             /\ g.head \in Nat /\ g.done \in BOOLEAN /\ g.next \in [g.rid.members -> Nat]
  <2>1. g.rid \in Rids /\ g.head \in Nat /\ g.done \in BOOLEAN /\ g.next \in Bounds
    BY <1>3 DEF Generations
  <2>2. PICK S \in SUBSET Filters : g.next \in [S -> Nat]
    BY <2>1 DEF Bounds
  <2> QED
    BY <1>3, <2>1, <2>2 DEF Rids
<1> QED
  BY <1>1, <1>2, <1>3 DEF Types

\* Min of generations: the oldest unfinished one is one of them, and so is the last.
LEMMA TurnIsOne ==
    ASSUME Types, gens # <<>>
    PROVE  Turn \in DOMAIN gens
<1>0. CASE Open = {}
  BY <1>0, GenerationsTyped DEF Turn
<1>1. Open \subseteq Nat
  BY GenerationsTyped DEF Open
<1>2. CASE Open # {}
  <2>1. PICK m \in Open : \A i \in Open : ~(<<i, m>> \in OpToRel(<, Nat))
    BY <1>1, <1>2, NatLessThanWellFounded, WFMin
  <2>2. \A i \in Open : ~(i < m)
    BY <1>1, <2>1 DEF OpToRel
  <2>3. \A i \in Open : m <= i
    BY <1>1, <2>2
  <2>4. Min(Open) \in Open
    BY <2>3 DEF Min
  <2> QED
    BY <1>2, <2>4 DEF Turn, Open
<1> QED
  BY <1>0, <1>2

\* Finishing generation k changes nothing but its mark.
LEMMA Finishing ==
    ASSUME Types, NEW k \in DOMAIN gens, NEW G, G = [gens EXCEPT ![k].done = TRUE]
    PROVE  /\ G \in Seq(Generations) /\ Len(G) = Len(gens) /\ DOMAIN G = DOMAIN gens
           /\ \A i \in DOMAIN gens :
                /\ G[i].rid = gens[i].rid /\ G[i].head = gens[i].head /\ G[i].next = gens[i].next
                /\ G[i].done = (i = k \/ gens[i].done)
<1>1. [gens[k] EXCEPT !.done = TRUE] \in Generations
  BY GenerationsTyped DEF Generations
<1>2. G = [gens EXCEPT ![k] = [gens[k] EXCEPT !.done = TRUE]] /\ gens \in Seq(Generations)
  BY DEF Types
<1>3. G \in Seq(Generations) /\ Len(G) = Len(gens) /\ DOMAIN G = DOMAIN gens
  BY <1>1, <1>2
<1>4. \A i \in DOMAIN gens : gens[i] \in Generations /\ gens[i].done \in BOOLEAN
  BY GenerationsTyped
<1>5. ASSUME NEW i \in DOMAIN gens, i # k PROVE G[i] = gens[i]
  BY <1>2, <1>5
<1>6. G[k] = [gens[k] EXCEPT !.done = TRUE]
  BY <1>2
<1>7. /\ G[k].rid = gens[k].rid /\ G[k].head = gens[k].head /\ G[k].next = gens[k].next /\ G[k].done = TRUE
  BY <1>4, <1>6 DEF Generations
<1> QED
  BY <1>3, <1>4, <1>5, <1>7

\* A chunk of generation k moves one bound of it.
LEMMA Passing ==
    ASSUME Types, NEW k \in DOMAIN gens, NEW f \in gens[k].rid.members, NEW z \in Nat,
           NEW G, G = [gens EXCEPT ![k].next[f] = z]
    PROVE  /\ G \in Seq(Generations) /\ Len(G) = Len(gens) /\ DOMAIN G = DOMAIN gens
           /\ \A i \in DOMAIN gens :
                /\ G[i].rid = gens[i].rid /\ G[i].head = gens[i].head /\ G[i].done = gens[i].done
                /\ G[i].next = IF i = k THEN [gens[k].next EXCEPT ![f] = z] ELSE gens[i].next
<1> DEFINE next == [gens[k].next EXCEPT ![f] = z]
<1>1. gens[k] \in Generations /\ gens[k].rid.members \subseteq Filters
      /\ gens[k].next \in [gens[k].rid.members -> Nat]
  BY GenerationsTyped
<1>2. next \in [gens[k].rid.members -> Nat]
  BY <1>1
<1>3. next \in Bounds
  BY <1>1, <1>2 DEF Bounds
<1> HIDE DEF next
<1>4. [gens[k] EXCEPT !.next = next] \in Generations
  BY <1>1, <1>3 DEF Generations
<1>5. G = [gens EXCEPT ![k] = [gens[k] EXCEPT !.next = next]] /\ gens \in Seq(Generations)
  BY DEF Types, next
<1>6. G \in Seq(Generations) /\ Len(G) = Len(gens) /\ DOMAIN G = DOMAIN gens
  BY <1>4, <1>5
<1>7. ASSUME NEW i \in DOMAIN gens, i # k PROVE G[i] = gens[i]
  BY <1>5, <1>7
<1>8. G[k] = [gens[k] EXCEPT !.next = next]
  BY <1>5
<1>9. /\ G[k].rid = gens[k].rid /\ G[k].head = gens[k].head /\ G[k].done = gens[k].done /\ G[k].next = next
  BY <1>1, <1>8 DEF Generations
<1> QED
  BY <1>6, <1>7, <1>9 DEF next

\* A new generation starts where every filter's bound is.
LEMMA Taking ==
    ASSUME IInv, TakeHeader
    PROVE  /\ gens' \in Seq(Generations) /\ Len(gens') = Len(gens) + 1 /\ gens' # <<>>
           /\ DOMAIN gens' = DOMAIN gens \cup {Len(gens')}
           /\ \A i \in DOMAIN gens : gens'[i] = gens[i]
           /\ LET g == gens'[Len(gens')] IN
                /\ g.rid = Rid /\ g.head = pin.head /\ ~g.done
                /\ g.next \in [known -> Nat] /\ \A f \in known : g.next[f] = Lower(f)
<1> DEFINE next == [f \in known |-> Lower(f)]
           g == [rid |-> Rid, head |-> pin.head, done |-> FALSE, next |-> next]
<1>1. known \subseteq Filters /\ start \in Nat /\ sess \in Nat /\ pin.head \in Nat /\ gens \in Seq(Generations)
  BY DEF IInv, Types
<1>2. next \in [known -> Nat]
  BY <1>1, ActivationAssumption DEF Lower, LowerOf, Greatest
<1>3. next \in Bounds /\ Rid \in Rids
  BY <1>1, <1>2 DEF Bounds, Rid, Rids
<1>4. g \in Generations
  BY <1>1, <1>3 DEF Generations
<1>5. g.rid = Rid /\ g.head = pin.head /\ ~g.done /\ g.next = next
  OBVIOUS
<1>6. gens' = Append(gens, g)
  BY DEF TakeHeader
<1> HIDE DEF g
<1> QED
  BY <1>1, <1>2, <1>4, <1>5, <1>6

\* What happened stays on the chain.
LEMMA HappenedGrows ==
    ASSUME Types, Types!1', head <= head'
    PROVE  Happened \subseteq Happened'
BY ActivationAssumption DEF Types, Happened, Trades, Blocks

(***************************************************************************)
(* The initial state.                                                      *)
(***************************************************************************)
LEMMA InitInvariant == AInit => IInv
<1> SUFFICES ASSUME AInit PROVE IInv
  OBVIOUS
<1>1. Types
  <2>1. 1 \in Blocks /\ NoPin \in [rid : Rids, head : Nat] /\ gens = <<>>
    BY ActivationAssumption DEF AInit, Blocks, NoPin, Rids
  <2>2. gens \in Seq(Generations) /\ DOMAIN gens = {}
    BY <2>1
  <2>3. stored \subseteq Happened /\ queue \subseteq Happened
    BY DEF AInit
  <2>4. request \in [st : {"none", "REQUESTED", "BLOCKED", "PREPARED"}, pid : Nat]
    BY DEF AInit
  <2>5. acked \in [Filters -> Nat] /\ subs = {} /\ (\A f \in Filters : acked[f] <= head)
    BY DEF AInit, NoAcks, subs
  <2> QED
    BY <2>1, <2>2, <2>3, <2>4, <2>5 DEF AInit, Types
<1>2. Phases /\ Requests /\ FileFirst
  BY DEF AInit, Phases, Requests, FileFirst, Publishing, Proving
<1>3. Pinned /\ Proved /\ Noticing
  BY DEF AInit, Pinned, Known, Ready, Proved, Noticing, NoPin, Rid
<1> QED
  BY <1>1, <1>2, <1>3 DEF IInv

(***************************************************************************)
(* What a step may change.                                                 *)
(***************************************************************************)

\* No step unmines a block, forgets a trade, a filter or a session.
LEMMA OnlyGrows ==
    ASSUME IInv, [ANext]_avars
    PROVE  /\ head <= head' /\ head' \in Blocks /\ proc <= proc' /\ proc' \in Nat
           /\ known \subseteq known' /\ known' \subseteq Filters
           /\ sess <= sess' /\ sess' \in Nat /\ stored \subseteq stored'
           /\ start # 0 => start' = start
<1>0. head \in 1..MaxBlock /\ MaxBlock \in Nat /\ proc \in Nat /\ sess \in Nat /\ known \subseteq Filters /\ Blocks = 1..MaxBlock
  BY ActivationAssumption DEF IInv, Types, Blocks
<1> USE DEF Goto
<1>1. CASE Mine
  BY <1>0, <1>1  DEF Mine, worker, publish, ledger, proof, doubt
<1>2. CASE Connect \/ Drain \/ Finalize
  BY <1>0, <1>2 DEF Connect, Drain, Finalize, Drained, NewSession, worker, publish, ledger, proof, doubt
<1>3. CASE Break \/ Request \/ Crash \/ Start \/ Noticed \/ CallFailed \/ NoJobs
  BY <1>0, <1>3 DEF Break, Request, Crash, Start, Noticed, CallFailed, NoJobs, Disconnected, Fault, worker, publish, ledger, proof, doubt
<1>4. CASE WrongProcess \/ Capture \/ HeaderWaits \/ HeaderRefused \/ CreateFile \/ Fill \/ Mark \/ Adopt
  BY <1>0, <1>4 DEF WrongProcess, Capture, HeaderWaits, HeaderRefused, CreateFile, Fill, Mark, Adopt, NewSession,
                    Fault, Refuse, worker, publish, ledger, proof, doubt
<1>5. CASE Publish
  <2>1. start = 0
    BY <1>0, <1>5 DEF IInv, Requests, Publish, At, Live, Publishing
  <2> QED
    BY <1>0, <1>5, <2>1 DEF Publish, worker, publish, ledger, proof, doubt
<1>6. CASE Discover \/ (\E f \in Filters : Subscribe(f)) \/ Subscribed
  BY <1>0, <1>6 DEF Discover, Listed, Subscribe, Subscribed, Fault, worker, publish, ledger, proof, doubt
<1>7. CASE Saved \/ PinHead \/ ReadyWaits \/ TakeHeader \/ Bind \/ NoAnchor \/ PlanConflict
  BY <1>0, <1>7 DEF Saved, PinHead, ReadyWaits, TakeHeader, Bind, NoAnchor, PlanConflict, Blocked, Fault,
                    worker, publish, ledger, proof, doubt
<1>8. CASE (\E f \in Filters : TailChunk(f)) \/ TailWaits \/ Promote \/ Complete
  BY <1>0, <1>8 DEF TailChunk, TailWaits, Promote, Complete, Blocked, Fault, worker, publish, ledger, proof, doubt
<1>9. CASE UNCHANGED avars
  BY <1>0, <1>9 DEF avars, worker, publish, ledger, proof, doubt
<1> QED
  BY <1>1, <1>2, <1>3, <1>4, <1>5, <1>6, <1>7, <1>8, <1>9 DEF ANext, Step

\* A request is served by the process it names, once, and only then is a row published.
LEMMA RequestsStep ==
    ASSUME IInv, [ANext]_avars
    PROVE  Requests'
<1>0. Requests /\ request \in [st : {"none", "REQUESTED", "BLOCKED", "PREPARED"}, pid : Nat] /\ proc \in Nat /\ (here => start # 0)
  BY DEF IInv, Types, Phases
<1> USE DEF Goto, At, Live, Requests, Publishing
<1>1. CASE Mine \/ Break \/ Request \/ Crash \/ Start
  BY <1>0, <1>1 DEF Mine, Break, Request, Crash, Start, Fault, worker, publish, ledger, proof, doubt
<1>2. CASE Connect \/ Drain \/ Finalize \/ Noticed \/ CallFailed \/ NoJobs
  BY <1>0, <1>2 DEF Connect, Drain, Finalize, Noticed, CallFailed, NoJobs, Disconnected, Fault, worker, publish, ledger, proof, doubt
<1>3. CASE WrongProcess \/ Capture \/ HeaderWaits \/ HeaderRefused
  BY <1>0, <1>3 DEF WrongProcess, Capture, HeaderWaits, HeaderRefused, Refuse, Fault, worker, publish, ledger, proof, doubt
<1>4. CASE CreateFile \/ Fill \/ Publish \/ Mark
  BY <1>0, <1>4 DEF CreateFile, Fill, Publish, Mark, worker, publish, ledger, proof, doubt
<1>5. CASE Adopt \/ Discover \/ (\E f \in Filters : Subscribe(f)) \/ Subscribed
  BY <1>0, <1>5 DEF Adopt, Discover, Subscribe, Subscribed, Fault, worker, publish, ledger, proof, doubt
<1>6. CASE Saved \/ PinHead \/ ReadyWaits \/ TakeHeader \/ Bind \/ NoAnchor \/ PlanConflict
  BY <1>0, <1>6 DEF Saved, PinHead, ReadyWaits, TakeHeader, Bind, NoAnchor, PlanConflict, Blocked, Fault,
                    worker, publish, ledger, proof, doubt
<1>7. CASE (\E f \in Filters : TailChunk(f)) \/ TailWaits \/ Promote \/ Complete
  BY <1>0, <1>7 DEF TailChunk, TailWaits, Promote, Complete, Blocked, Fault, worker, publish, ledger, proof, doubt
<1>8. CASE UNCHANGED avars
  BY <1>0, <1>8 DEF avars, worker, publish, ledger, proof, doubt
<1> QED
  BY <1>1, <1>2, <1>3, <1>4, <1>5, <1>6, <1>7, <1>8 DEF ANext, Step

\* The file is filled before the row that names it and never emptied.
LEMMA FileFirstStep ==
    ASSUME IInv, [ANext]_avars
    PROVE  FileFirst'
<1>0. FileFirst /\ (start # 0 => start' = start)
  BY OnlyGrows DEF IInv
<1> USE DEF Goto, At, FileFirst
<1>1. CASE Mine \/ Break \/ Request \/ Crash \/ Start
  BY <1>0, <1>1 DEF Mine, Break, Request, Crash, Start, Fault, worker, publish, ledger, proof, doubt
<1>2. CASE Connect \/ Drain \/ Finalize \/ Noticed \/ CallFailed \/ NoJobs
  BY <1>0, <1>2 DEF Connect, Drain, Finalize, Noticed, CallFailed, NoJobs, Disconnected, Fault, worker, publish, ledger, proof, doubt
<1>3. CASE WrongProcess \/ Capture \/ HeaderWaits \/ HeaderRefused
  BY <1>0, <1>3 DEF WrongProcess, Capture, HeaderWaits, HeaderRefused, Refuse, Fault, worker, publish, ledger, proof, doubt
<1>4. CASE CreateFile \/ Fill \/ Publish \/ Mark
  BY <1>0, <1>4 DEF CreateFile, Fill, Publish, Mark, worker, publish, ledger, proof, doubt
<1>5. CASE Adopt \/ Discover \/ (\E f \in Filters : Subscribe(f)) \/ Subscribed
  BY <1>0, <1>5 DEF Adopt, Discover, Subscribe, Subscribed, Fault, worker, publish, ledger, proof, doubt
<1>6. CASE Saved \/ PinHead \/ ReadyWaits \/ TakeHeader \/ Bind \/ NoAnchor \/ PlanConflict
  BY <1>0, <1>6 DEF Saved, PinHead, ReadyWaits, TakeHeader, Bind, NoAnchor, PlanConflict, Blocked, Fault,
                    worker, publish, ledger, proof, doubt
<1>7. CASE (\E f \in Filters : TailChunk(f)) \/ TailWaits \/ Promote \/ Complete
  BY <1>0, <1>7 DEF TailChunk, TailWaits, Promote, Complete, Blocked, Fault, worker, publish, ledger, proof, doubt
<1>8. CASE UNCHANGED avars
  BY <1>0, <1>8 DEF avars, worker, publish, ledger, proof, doubt
<1> QED
  BY <1>1, <1>2, <1>3, <1>4, <1>5, <1>6, <1>7, <1>8 DEF ANext, Step

\* Five actions write the readiness records.
LEMMA GenerationsWritten ==
    ASSUME [ANext]_avars
    PROVE  UNCHANGED gens \/ TakeHeader \/ (\E f \in Filters : TailChunk(f)) \/ Promote \/ Complete
<1>1. CASE Mine \/ Break \/ Request \/ Crash \/ Start
  BY <1>1 DEF Mine, Break, Request, Crash, Start, proof
<1>2. CASE Connect \/ Drain \/ Finalize \/ Noticed \/ CallFailed \/ NoJobs
  BY <1>2 DEF Connect, Drain, Finalize, Noticed, CallFailed, NoJobs, Disconnected, proof
<1>3. CASE WrongProcess \/ Capture \/ HeaderWaits \/ HeaderRefused \/ CreateFile \/ Fill \/ Publish \/ Mark
  BY <1>3 DEF WrongProcess, Capture, HeaderWaits, HeaderRefused, CreateFile, Fill, Publish, Mark, proof
<1>4. CASE Adopt \/ Discover \/ (\E f \in Filters : Subscribe(f)) \/ Subscribed
  BY <1>4 DEF Adopt, Discover, Subscribe, Subscribed, proof
<1>5. CASE Saved \/ PinHead \/ ReadyWaits \/ Bind \/ NoAnchor \/ PlanConflict \/ TailWaits
  BY <1>5 DEF Saved, PinHead, ReadyWaits, Bind, NoAnchor, PlanConflict, TailWaits, proof
<1>6. CASE UNCHANGED avars
  BY <1>6 DEF avars, proof
<1> QED
  BY <1>1, <1>2, <1>3, <1>4, <1>5, <1>6 DEF ANext, Step

\* The generations stay records over filters that are theirs.
LEMMA GenerationsStep ==
    ASSUME IInv, [ANext]_avars
    PROVE  gens' \in Seq(Generations) /\ \A i \in DOMAIN gens' : DOMAIN gens'[i].next = gens'[i].rid.members
<1>0. Types /\ Phases /\ \A i \in DOMAIN gens : DOMAIN gens[i].next = gens[i].rid.members
  BY DEF IInv, Types
<1>1. CASE UNCHANGED gens
  BY <1>0, <1>1 DEF Types
<1>2. CASE TakeHeader
  <2>1. gens'[Len(gens')].rid.members = known
    BY <1>2, Taking DEF Rid
  <2>2. gens' \in Seq(Generations) /\ DOMAIN gens'[Len(gens')].next = known
    BY <1>2, Taking
  <2>3. ASSUME NEW i \in DOMAIN gens', i # Len(gens') PROVE DOMAIN gens'[i].next = gens'[i].rid.members
    BY <1>0, <1>2, <2>3, Taking
  <2> QED
    BY <2>1, <2>2, <2>3
<1>3. ASSUME NEW f \in Filters, TailChunk(f)
      PROVE  gens' \in Seq(Generations) /\ \A i \in DOMAIN gens' : DOMAIN gens'[i].next = gens'[i].rid.members
  <2> DEFINE z == Least(gens[Turn].next[f] + Span - 1, gens[Turn].head)
  <2>1. Turn \in DOMAIN gens /\ f \in gens[Turn].rid.members
    BY <1>0, <1>3, TurnIsOne DEF TailChunk, At, Phases
  <2>2. z + 1 \in Nat
    BY <1>0, <2>1, GenerationsTyped, ActivationAssumption DEF Least
  <2>3. gens' = [gens EXCEPT ![Turn].next[f] = z + 1]
    BY <1>3 DEF TailChunk
  <2> HIDE DEF z
  <2> QED
    <3>1. gens' \in Seq(Generations) /\ DOMAIN gens' = DOMAIN gens
      BY <1>0, <2>1, <2>2, <2>3, Passing
    <3>2. ASSUME NEW i \in DOMAIN gens PROVE gens'[i].rid = gens[i].rid
      BY <1>0, <2>1, <2>2, <2>3, Passing
    <3>3. ASSUME NEW i \in DOMAIN gens PROVE DOMAIN gens'[i].next = DOMAIN gens[i].next
      BY <1>0, <2>1, <2>2, <2>3, Passing
    <3> QED
      BY <1>0, <3>1, <3>2, <3>3
<1>4. CASE Promote \/ Complete
  <2>1. UNCHANGED gens \/ \E k \in DOMAIN gens : gens' = [gens EXCEPT ![k].done = TRUE]
    <3>1. CASE Complete
      BY <1>0, <3>1, GenerationsTyped DEF Complete, Phases, At
    <3>2. CASE Promote
      <4>1. Turn \in DOMAIN gens
        BY <1>0, <3>2, TurnIsOne DEF Promote, Phases, At
      <4> QED
        BY <3>2, <4>1 DEF Promote
    <3> QED
      BY <1>4, <3>1, <3>2
  <2> QED
    BY <1>0, <1>1, <2>1, Finishing
<1>5. UNCHANGED gens \/ TakeHeader \/ (\E f \in Filters : TailChunk(f)) \/ Promote \/ Complete
  BY GenerationsWritten
<1> QED
  BY <1>1, <1>2, <1>3, <1>4, <1>5

\* Only what happened is noticed, and only what happened is stored.
LEMMA HappenedStep ==
    ASSUME IInv, [ANext]_avars
    PROVE  stored' \subseteq Happened' /\ queue' \subseteq Happened'
<1>0. /\ Types /\ stored \subseteq Happened /\ queue \subseteq Happened
      /\ subs \subseteq known /\ known \subseteq Filters /\ head \in Blocks /\ head' \in Blocks /\ head <= head'
      /\ \A f \in known : Base[f] <= head
  BY OnlyGrows DEF IInv, Types, Proved
<1>1. Happened \subseteq Happened'
  BY <1>0, ActivationAssumption DEF Happened, Trades, Blocks
<1>2. CASE stored' \cup queue' \subseteq stored \cup queue
  BY <1>0, <1>1, <1>2
<1>3. CASE Mine
  <2>1. subs \X {head'} \subseteq Happened'
    BY <1>0, ActivationAssumption DEF Happened, Trades, Blocks
  <2> QED
    BY <1>0, <1>1, <1>3, <2>1 DEF Mine, ledger
<1>4. ASSUME NEW f \in Filters, TailChunk(f) PROVE stored' \subseteq Happened' /\ queue' \subseteq Happened'
  <2> DEFINE g == gens[Turn]
             z == Least(g.next[f] + Span - 1, g.head)
  <2>1. Turn \in DOMAIN gens /\ f \in g.rid.members
    BY <1>0, <1>4, TurnIsOne DEF TailChunk, At, IInv, Phases
  <2>2. g.head <= head /\ Lower(f) <= g.next[f]
    BY <2>1 DEF IInv, Pinned, Proved
  <2>3. g.head \in Nat /\ g.next[f] \in Nat
    BY <1>0, <2>1, GenerationsTyped
  <2>4. Base[f] <= g.next[f] /\ Base[f] \in 1..MaxBlock
    BY <2>2, <2>3, ActivationAssumption DEF Lower, LowerOf, Greatest, IInv, Types
  <2>5. z <= head /\ z \in Int
    BY <1>0, <2>2, <2>3, ActivationAssumption DEF Least, Blocks
  <2> HIDE DEF z, g
  <2>6. {f} \X (g.next[f]..z) \subseteq Happened
    BY <1>0, <2>3, <2>4, <2>5, ActivationAssumption DEF Happened, Trades, Blocks
  <2>7. stored' = stored \cup ({f} \X (g.next[f]..z)) /\ queue' = queue
    BY <1>4 DEF TailChunk, Logs, Read, g, z
  <2> QED
    BY <1>0, <1>1, <2>6, <2>7
<1>5. stored' \cup queue' \subseteq stored \cup queue \/ Mine \/ \E f \in Filters : TailChunk(f)
  <2>1. CASE Break \/ Request \/ Crash \/ Start
    BY <2>1 DEF Break, Request, Crash, Start, ledger, worker
  <2>2. CASE Connect \/ Drain \/ Finalize \/ Noticed \/ CallFailed \/ NoJobs
    BY <2>2 DEF Connect, Drain, Finalize, Noticed, CallFailed, NoJobs, Drained, Disconnected, ledger
  <2>3. CASE WrongProcess \/ Capture \/ HeaderWaits \/ HeaderRefused \/ CreateFile \/ Fill \/ Publish \/ Mark
    BY <2>3 DEF WrongProcess, Capture, HeaderWaits, HeaderRefused, CreateFile, Fill, Publish, Mark, ledger
  <2>4. CASE Adopt \/ Discover \/ (\E f \in Filters : Subscribe(f)) \/ Subscribed
    BY <2>4 DEF Adopt, Discover, Subscribe, Subscribed, ledger
  <2>5. CASE Saved \/ PinHead \/ ReadyWaits \/ TakeHeader \/ Bind \/ NoAnchor \/ PlanConflict
    BY <2>5 DEF Saved, PinHead, ReadyWaits, TakeHeader, Bind, NoAnchor, PlanConflict, ledger, worker
  <2>6. CASE TailWaits \/ Promote \/ Complete \/ UNCHANGED avars
    BY <2>6 DEF TailWaits, Promote, Complete, avars, ledger, worker
  <2> QED
    BY <2>1, <2>2, <2>3, <2>4, <2>5, <2>6 DEF ANext, Step
<1> QED
  BY <1>2, <1>3, <1>4, <1>5

\* An acknowledgement is written once a connection, or all are forgotten.
LEMMA AckedKept ==
    ASSUME [ANext]_avars
    PROVE  \/ UNCHANGED acked
           \/ acked' = NoAcks
           \/ \E f \in known \ subs : f \in Filters /\ Subscribe(f) /\ acked' = [acked EXCEPT ![f] = head]
<1>1. CASE Mine \/ Break \/ Request \/ Crash \/ Start
  BY <1>1 DEF Mine, Break, Request, Crash, Start, worker
<1>2. CASE Connect \/ Drain \/ Finalize \/ Noticed \/ CallFailed \/ NoJobs
  BY <1>2 DEF Connect, Drain, Finalize, Noticed, CallFailed, NoJobs, Disconnected
<1>3. CASE WrongProcess \/ Capture \/ HeaderWaits \/ HeaderRefused \/ CreateFile \/ Fill \/ Publish \/ Mark
  BY <1>3 DEF WrongProcess, Capture, HeaderWaits, HeaderRefused, CreateFile, Fill, Publish, Mark
<1>4. CASE Adopt \/ Discover \/ (\E f \in Filters : Subscribe(f)) \/ Subscribed
  BY <1>4 DEF Adopt, Discover, Subscribe, Subscribed
<1>5. CASE Saved \/ PinHead \/ ReadyWaits \/ TakeHeader \/ Bind \/ NoAnchor \/ PlanConflict \/ TailWaits
  BY <1>5 DEF Saved, PinHead, ReadyWaits, TakeHeader, Bind, NoAnchor, PlanConflict, TailWaits, worker
<1>6. CASE (\E f \in Filters : TailChunk(f)) \/ Promote \/ Complete \/ UNCHANGED avars
  BY <1>6 DEF TailChunk, Promote, Complete, avars, worker
<1> QED
  BY <1>1, <1>2, <1>3, <1>4, <1>5, <1>6 DEF ANext, Step

\* An acknowledgement is of a filter known, at a block mined.
LEMMA AckedStep ==
    ASSUME IInv, [ANext]_avars
    PROVE  /\ acked' \in [Filters -> Nat] /\ \A f \in Filters : acked'[f] <= head'
           /\ subs' \subseteq known'
<1>0. /\ acked \in [Filters -> Nat] /\ \A f \in Filters : acked[f] <= head
      /\ subs \subseteq known /\ known \subseteq known' /\ head <= head' /\ head \in Nat /\ head' \in Nat
  BY OnlyGrows, ActivationAssumption DEF IInv, Types, Blocks
<1>1. CASE UNCHANGED acked
  BY <1>0, <1>1 DEF subs
<1>2. CASE acked' = NoAcks
  BY <1>0, <1>2 DEF subs, NoAcks
<1>3. ASSUME NEW f \in known \ subs, f \in Filters, acked' = [acked EXCEPT ![f] = head]
      PROVE  /\ acked' \in [Filters -> Nat] /\ \A e \in Filters : acked'[e] <= head'
             /\ subs' \subseteq known'
  BY <1>0, <1>3 DEF subs
<1> QED
  BY <1>1, <1>2, <1>3, AckedKept

\* Every variable keeps its type.
LEMMA TypesStep ==
    ASSUME IInv, [ANext]_avars
    PROVE  Types'
<1>0. /\ Types /\ head' \in Blocks /\ proc' \in Nat /\ sess' \in Nat /\ known \subseteq known' /\ known' \subseteq Filters
      /\ request \in [st : {"none", "REQUESTED", "BLOCKED", "PREPARED"}, pid : Nat]
      /\ conn \in {"up", "broken", "down", "dead", "blocked"} /\ here \in BOOLEAN /\ Heads \subseteq Nat
      /\ capture \in Nat /\ start \in Nat /\ head \in Nat /\ head' \in Nat
      /\ pin \in [rid : Rids, head : Nat] /\ Rid \in Rids /\ proc \in Nat
  BY OnlyGrows, ActivationAssumption DEF IInv, Types, Blocks, Heads, Rid, Rids
<1> USE DEF Goto
<1> DEFINE Small == /\ conn' \in {"up", "broken", "down", "dead", "blocked"}
                    /\ here' \in BOOLEAN
                    /\ request' \in [st : {"none", "REQUESTED", "BLOCKED", "PREPARED"}, pid : Nat]
                    /\ capture' \in Nat /\ start' \in Nat
                    /\ pin' \in [rid : Rids, head : Nat]
<1>1. Small
  <2>1. CASE Mine \/ Break \/ Request \/ Crash
    BY <1>0, <2>1 DEF Mine, Break, Request, Crash, Fault, worker, publish, ledger, proof, doubt
  <2>2. CASE Connect \/ Drain \/ Finalize \/ Noticed \/ CallFailed \/ NoJobs
    BY <1>0, <2>2 DEF Connect, Drain, Finalize, Noticed, CallFailed, NoJobs, Disconnected, Fault, worker, publish, ledger, proof, doubt
  <2>3. CASE WrongProcess \/ Capture \/ HeaderWaits \/ HeaderRefused
    BY <1>0, <2>3 DEF WrongProcess, Capture, HeaderWaits, HeaderRefused, Refuse, Fault, worker, publish, ledger, proof, doubt
  <2>4. CASE CreateFile \/ Fill \/ Publish \/ Mark
    BY <1>0, <2>4 DEF CreateFile, Fill, Publish, Mark, worker, publish, ledger, proof, doubt
  <2>5. CASE Adopt \/ Discover \/ (\E f \in Filters : Subscribe(f)) \/ Subscribed
    BY <1>0, <2>5 DEF Adopt, Discover, Subscribe, Subscribed, Fault, worker, publish, ledger, proof, doubt
  <2>6. CASE Saved \/ ReadyWaits \/ TakeHeader \/ Bind \/ NoAnchor \/ PlanConflict
    BY <1>0, <2>6 DEF Saved, ReadyWaits, TakeHeader, Bind, NoAnchor, PlanConflict, Blocked, Fault,
                      worker, publish, ledger, proof, doubt
  <2>7. CASE (\E f \in Filters : TailChunk(f)) \/ TailWaits \/ Promote \/ Complete
    BY <1>0, <2>7 DEF TailChunk, TailWaits, Promote, Complete, Blocked, Fault, worker, publish, ledger, proof, doubt
  <2>8. CASE UNCHANGED avars
    BY <1>0, <2>8 DEF avars, worker, publish, ledger, proof, doubt
  <2>10. CASE PinHead
    <3>1. PICK h \in Heads : pin' = [rid |-> Rid, head |-> h]
      BY <2>10 DEF PinHead
    <3>2. pin' \in [rid : Rids, head : Nat]
      BY <1>0, <3>1
    <3> QED
      BY <1>0, <2>10, <3>2 DEF PinHead, worker, publish, ledger
  <2>9. CASE Start
    BY <1>0, <2>9 DEF Start, publish, ledger, proof
  <2> QED
    BY <2>1, <2>2, <2>3, <2>4, <2>5, <2>6, <2>7, <2>8, <2>9, <2>10 DEF ANext, Step
<1>2. stored' \subseteq Happened' /\ queue' \subseteq Happened'
  BY HappenedStep
<1>3. gens' \in Seq(Generations) /\ \A i \in DOMAIN gens' : DOMAIN gens'[i].next = gens'[i].rid.members
  BY GenerationsStep
<1> QED
  BY <1>0, <1>1, <1>2, <1>3, AckedStep DEF Types

\* Where a tick can be, and what the phases before have established.
LEMMA PhasesStep ==
    ASSUME IInv, [ANext]_avars
    PROVE  Phases'
<1>0. /\ Types /\ Types' /\ Phases /\ Requests /\ (start # 0 => start' = start)
      /\ request.st \in {"none", "REQUESTED", "BLOCKED", "PREPARED"}
      /\ here \in BOOLEAN /\ known \subseteq Filters /\ (UNCHANGED acked => UNCHANGED subs)
  BY OnlyGrows, TypesStep DEF IInv, Types, subs
<1> USE DEF Goto, At, Live, Proving
<1>1. CASE Mine \/ Break \/ Request \/ Crash \/ Start
  BY <1>0, <1>1 DEF Phases, Whole, Mine, Break, Request, Crash, Start, Fault, worker, publish, ledger, proof, doubt
<1>2. CASE Connect \/ Drain \/ Finalize \/ Noticed \/ CallFailed \/ NoJobs
  BY <1>0, <1>2 DEF Phases, Connect, Drain, Finalize, Noticed, CallFailed, NoJobs, Disconnected, Fault, worker, publish, ledger, proof, doubt
<1>3. CASE WrongProcess \/ Capture \/ HeaderWaits \/ HeaderRefused
  BY <1>0, <1>3 DEF Phases, WrongProcess, Capture, HeaderWaits, HeaderRefused, Refuse, Fault, worker, publish, ledger, proof, doubt
<1>4. CASE CreateFile \/ Fill \/ Publish \/ Mark
  BY <1>0, <1>4 DEF Phases, CreateFile, Fill, Publish, Mark, worker, publish, ledger, proof, doubt
<1>5. CASE Adopt \/ Discover \/ (\E f \in Filters : Subscribe(f)) \/ Subscribed
  BY <1>0, <1>5 DEF Phases, Adopt, Discover, Subscribe, Subscribed, Fault, worker, publish, ledger, proof, doubt
<1>6. CASE Saved \/ PinHead \/ ReadyWaits \/ Bind \/ NoAnchor \/ PlanConflict
  BY <1>0, <1>6 DEF Phases, Ready, Saved, PinHead, ReadyWaits, Bind, NoAnchor, PlanConflict, Blocked, Fault,
                    worker, publish, ledger, proof, doubt
<1>7. CASE TakeHeader
  <2>1. pc' = "bind" /\ gens' # <<>>
    BY <1>7, Taking DEF TakeHeader
  <2>2. here /\ here' = here /\ start' = start
    BY <1>0, <1>7 DEF TakeHeader, Phases, publish
  <2> QED
    BY <1>0, <2>1, <2>2 DEF Phases
<1>8. ASSUME NEW f \in Filters, TailChunk(f) PROVE Phases'
  <2>1. Turn \in DOMAIN gens /\ f \in gens[Turn].rid.members
    BY <1>0, <1>8, TurnIsOne DEF TailChunk, At, Phases
  <2>2. PICK z \in Nat : gens' = [gens EXCEPT ![Turn].next[f] = z]
    <3>1. Least(gens[Turn].next[f] + Span - 1, gens[Turn].head) + 1 \in Nat
      BY <1>0, <2>1, GenerationsTyped, ActivationAssumption DEF Least
    <3> QED
      BY <1>8, <3>1 DEF TailChunk
  <2>3. Len(gens') = Len(gens) /\ Len(gens) \in DOMAIN gens
    BY <1>0, <1>8, <2>1, <2>2, Passing, GenerationsTyped
  <2>4. pc' \in {"tail", "end"} /\ pc = "tail" /\ here' = here /\ start' = start
    BY <1>8 DEF TailChunk, publish
  <2>5. gens' # <<>> /\ gens # <<>>
    BY <1>0, <2>3, GenerationsTyped DEF Types
  <2> QED
    BY <1>0, <2>3, <2>4, <2>5 DEF Phases
<1>9. CASE Promote
  <2>1. gens # <<>> /\ Len(gens) \in DOMAIN gens /\ here /\ here' = here /\ start' = start
    BY <1>0, <1>9, GenerationsTyped DEF Promote, Phases, publish
  <2>2. Turn \in DOMAIN gens
    BY <1>0, <2>1, TurnIsOne
  <2>3. CASE Turn = Len(gens)
    BY <1>0, <1>9, <2>1, <2>3 DEF Promote, Phases, Whole
  <2>4. CASE Turn # Len(gens)
    <3>1. gens' = [gens EXCEPT ![Turn].done = TRUE] /\ pc' = "tail"
      BY <1>9, <2>4 DEF Promote
    <3>2. Len(gens') = Len(gens)
      BY <1>0, <2>2, <3>1, Finishing
    <3>3. gens' # <<>>
      BY <1>0, <2>1, <3>2, GenerationsTyped DEF Types
    <3> QED
      BY <1>0, <2>1, <3>1, <3>2, <3>3 DEF Phases
  <2> QED
    BY <2>3, <2>4
<1>10. CASE Complete \/ TailWaits
  BY <1>0, <1>10 DEF Phases, Complete, Blocked, TailWaits, Fault, worker, publish, ledger, proof, doubt
<1>11. CASE UNCHANGED avars
  BY <1>0, <1>11 DEF Phases, Whole, avars, worker, publish, ledger, proof, doubt
<1> QED
  BY <1>1, <1>2, <1>3, <1>4, <1>5, <1>6, <1>7, <1>8, <1>9, <1>10, <1>11 DEF ANext, Step

\* A step keeps what the generations say of themselves, or adds the one just pinned.
LEMMA GenerationsKept ==
    ASSUME IInv, [ANext]_avars
    PROVE  \/ TakeHeader
           \/ /\ Len(gens') = Len(gens) /\ DOMAIN gens' = DOMAIN gens /\ (gens' = <<>> <=> gens = <<>>)
              /\ \A i \in DOMAIN gens : gens'[i].rid = gens[i].rid /\ gens'[i].head = gens[i].head
<1>0. Types /\ Types' /\ Phases
  BY TypesStep DEF IInv
<1>1. CASE UNCHANGED gens
  BY <1>1
<1>2. ASSUME NEW f \in Filters, TailChunk(f)
      PROVE  /\ Len(gens') = Len(gens) /\ DOMAIN gens' = DOMAIN gens
             /\ \A i \in DOMAIN gens : gens'[i].rid = gens[i].rid /\ gens'[i].head = gens[i].head
  <2>1. Turn \in DOMAIN gens /\ f \in gens[Turn].rid.members
    BY <1>0, <1>2, TurnIsOne DEF TailChunk, At, Phases
  <2>2. Least(gens[Turn].next[f] + Span - 1, gens[Turn].head) + 1 \in Nat
    BY <1>0, <2>1, GenerationsTyped, ActivationAssumption DEF Least
  <2>3. PICK z \in Nat : gens' = [gens EXCEPT ![Turn].next[f] = z]
    BY <1>2, <2>2 DEF TailChunk
  <2> QED
    BY <1>0, <2>1, <2>3, Passing
<1>3. ASSUME Promote \/ Complete
      PROVE  /\ Len(gens') = Len(gens) /\ DOMAIN gens' = DOMAIN gens
             /\ \A i \in DOMAIN gens : gens'[i].rid = gens[i].rid /\ gens'[i].head = gens[i].head
  <2>1. gens # <<>> /\ Len(gens) \in DOMAIN gens
    BY <1>0, <1>3, GenerationsTyped DEF Promote, Complete, Phases, At
  <2>2. Turn \in DOMAIN gens
    BY <1>0, <2>1, TurnIsOne
  <2>3. UNCHANGED gens \/ \E k \in DOMAIN gens : gens' = [gens EXCEPT ![k].done = TRUE]
    BY <1>3, <2>1, <2>2 DEF Promote, Complete
  <2> QED
    BY <1>0, <2>3, Finishing
<1>4. UNCHANGED gens \/ TakeHeader \/ (\E f \in Filters : TailChunk(f)) \/ Promote \/ Complete
  BY GenerationsWritten
<1>5. Len(gens') = Len(gens) => (gens' = <<>> <=> gens = <<>>)
  BY <1>0 DEF Types
<1> QED
  BY <1>1, <1>2, <1>3, <1>4, <1>5

\* A record that names the session and the filters of the next state named those of this one.
LEMMA RidFixed ==
    ASSUME IInv, [ANext]_avars, NEW rid, rid \in Rids, Known(rid), rid = Rid'
    PROVE  Rid' = Rid
<1>1. rid.sess \in Nat /\ sess \in Nat /\ sess' \in Nat /\ sess <= sess' /\ known \subseteq known'
  BY OnlyGrows DEF IInv, Types, Rids
<1>2. rid.sess = sess' /\ rid.members = known'
  BY DEF Rid
<1>3. rid.sess <= sess /\ rid.members \subseteq known
  BY DEF Known
<1>4. sess' = sess /\ known' = known
  BY <1>1, <1>2, <1>3
<1> QED
  BY <1>4 DEF Rid

\* The pin changes only while no record is ready for it.
LEMMA PinKept ==
    ASSUME IInv, [ANext]_avars
    PROVE  \/ UNCHANGED pin
           \/ /\ ~Ready /\ PinHead /\ \E h \in Heads : pin' = [rid |-> Rid, head |-> h]
              /\ UNCHANGED <<head, conn, here, pc, acked, queue, known, sess, gens, stored>>
<1>1. CASE Mine \/ Break \/ Request \/ Crash \/ Start
  BY <1>1 DEF Mine, Break, Request, Crash, Start, proof
<1>2. CASE Connect \/ Drain \/ Finalize \/ Noticed \/ CallFailed \/ NoJobs
  BY <1>2 DEF Connect, Drain, Finalize, Noticed, CallFailed, NoJobs, Disconnected, proof
<1>3. CASE WrongProcess \/ Capture \/ HeaderWaits \/ HeaderRefused \/ CreateFile \/ Fill \/ Publish \/ Mark
  BY <1>3 DEF WrongProcess, Capture, HeaderWaits, HeaderRefused, CreateFile, Fill, Publish, Mark, proof
<1>4. CASE Adopt \/ Discover \/ (\E f \in Filters : Subscribe(f)) \/ Subscribed
  BY <1>4 DEF Adopt, Discover, Subscribe, Subscribed, proof
<1>5. CASE Saved \/ ReadyWaits \/ TakeHeader \/ Bind \/ NoAnchor \/ PlanConflict
  BY <1>5 DEF Saved, ReadyWaits, TakeHeader, Bind, NoAnchor, PlanConflict, proof
<1>6. CASE PinHead
  BY <1>6 DEF PinHead, worker, ledger
<1>7. CASE (\E f \in Filters : TailChunk(f)) \/ TailWaits \/ Promote \/ Complete \/ UNCHANGED avars
  BY <1>7 DEF TailChunk, TailWaits, Promote, Complete, avars, proof
<1> QED
  BY <1>1, <1>2, <1>3, <1>4, <1>5, <1>6, <1>7 DEF ANext, Step

\* Generations and the pin belong to sessions begun and filters known, in heads mined.
LEMMA PinnedStep ==
    ASSUME IInv, [ANext]_avars
    PROVE  Pinned'
<1> DEFINE Later(rid) == rid.sess <= sess' /\ rid.members \subseteq known'
<1>0. /\ Types /\ Types' /\ Pinned /\ head <= head' /\ head \in Nat /\ head' \in Nat
      /\ sess <= sess' /\ sess \in Nat /\ sess' \in Nat /\ known \subseteq known'
  <2>1. head \in Nat /\ Types /\ Pinned /\ sess \in Nat
    BY ActivationAssumption DEF IInv, Types, Blocks
  <2>2. head' \in Nat
    BY OnlyGrows, ActivationAssumption DEF Blocks
  <2> QED
    BY <2>1, <2>2, OnlyGrows, TypesStep
<1>1. ASSUME NEW rid \in Rids, Known(rid) PROVE Later(rid)
  BY <1>0, <1>1 DEF Known, Rids
<1>2. ASSUME NEW n \in Nat, n <= head PROVE n <= head'
  BY <1>0, <1>2
<1>3. Later(pin'.rid) /\ pin'.head <= head'
  <2>1. CASE UNCHANGED pin
    <3>1. pin.rid \in Rids /\ pin.head \in Nat /\ Known(pin.rid) /\ pin.head <= head
      BY <1>0 DEF Pinned, Types
    <3>2. Later(pin.rid) /\ pin.head <= head'
      BY <1>1, <1>2, <3>1
    <3> QED
      BY <2>1, <3>2
  <2>2. CASE ~UNCHANGED pin
    <3>1. PICK h \in Heads : pin' = [rid |-> Rid, head |-> h]
      BY <2>2, PinKept
    <3>2. h <= head' /\ h \in Nat
      BY <1>0 DEF Heads, Blocks
    <3> QED
      BY <1>0, <3>1, <3>2 DEF Rid
  <2> QED
    BY <2>1, <2>2
<1>4. ASSUME NEW i \in DOMAIN gens PROVE Later(gens[i].rid) /\ gens[i].head <= head'
  <2>1. gens[i].rid \in Rids /\ gens[i].head \in Nat
    BY <1>0, <1>4, GenerationsTyped DEF Generations
  <2>2. Known(gens[i].rid) /\ gens[i].head <= head
    BY <1>0, <1>4 DEF Pinned
  <2> QED
    BY <1>1, <1>2, <2>1, <2>2
<1> HIDE DEF Later
<1>5. CASE TakeHeader
  <2>1. pin.rid = Rid /\ UNCHANGED <<head, sess, known, pin>>
    BY <1>5 DEF TakeHeader, ledger
  <2>2. Rid' = Rid
    BY <2>1 DEF Rid
  <2>3. ASSUME NEW i \in DOMAIN gens' PROVE Later(gens'[i].rid) /\ gens'[i].head <= head'
    <3>1. CASE i \in DOMAIN gens
      BY <1>4, <1>5, <3>1, Taking
    <3>2. CASE i = Len(gens')
      <4>1. gens'[i].rid = pin'.rid /\ gens'[i].head = pin'.head
        BY <1>5, <2>1, <3>2, Taking
      <4> QED
        BY <1>3, <4>1
    <3> QED
      BY <1>5, <2>3, <3>1, <3>2, Taking
  <2>4. pin' = [rid |-> Rid, head |-> gens'[Len(gens')].head]
    BY <1>0, <1>5, <2>1, Taking DEF Types
  <2> QED
    BY <1>3, <2>2, <2>3, <2>4 DEF Pinned, Known, Later
<1>6. CASE ~TakeHeader
  <2>1. /\ Len(gens') = Len(gens) /\ DOMAIN gens' = DOMAIN gens /\ (gens' = <<>> <=> gens = <<>>)
        /\ \A i \in DOMAIN gens : gens'[i].rid = gens[i].rid /\ gens'[i].head = gens[i].head
    BY <1>6, GenerationsKept
  <2>2. ASSUME NEW i \in DOMAIN gens' PROVE Later(gens'[i].rid) /\ gens'[i].head <= head'
    BY <1>4, <2>1, <2>2
  <2>3. ASSUME Ready' PROVE pin' = [rid |-> Rid', head |-> gens'[Len(gens')].head]
    <3>1. gens # <<>> /\ Len(gens) \in DOMAIN gens /\ gens[Len(gens)].rid = Rid' /\ gens[Len(gens)].rid \in Rids
      BY <1>0, <2>1, <2>3, GenerationsTyped DEF Ready, Generations
    <3>2. Rid' = Rid
      BY <1>0, <3>1, RidFixed DEF Pinned
    <3>3. Ready
      BY <3>1, <3>2 DEF Ready
    <3>4. UNCHANGED pin
      BY <3>3, PinKept
    <3> QED
      BY <1>0, <2>1, <3>1, <3>2, <3>3, <3>4 DEF Pinned
  <2> QED
    BY <1>3, <2>2, <2>3 DEF Pinned, Known, Later
<1> QED
  BY <1>5, <1>6

\* Targets join when their launch is on the chain.
LEMMA LaunchedStep ==
    ASSUME IInv, [ANext]_avars
    PROVE  \A f \in known' : Base[f] <= head'
<1>0. /\ head \in Nat /\ head' \in Nat /\ head <= head' /\ known \subseteq Filters
      /\ \A f \in Filters : Base[f] \in Nat
      /\ \A f \in known : Base[f] <= head
  <2>1. head \in Nat /\ head' \in Nat /\ head <= head'
    BY OnlyGrows, ActivationAssumption DEF IInv, Types, Blocks
  <2> QED
    BY <2>1, ActivationAssumption DEF IInv, Types, Proved
<1>1. CASE UNCHANGED known
  BY <1>0, <1>1
<1>2. CASE Discover
  BY <1>0, <1>2 DEF Discover, Listed
<1>3. UNCHANGED known \/ Discover
  <2>1. CASE Mine \/ Break \/ Request \/ Crash \/ Start
    BY <2>1 DEF Mine, Break, Request, Crash, Start, ledger
  <2>2. CASE Connect \/ Drain \/ Finalize \/ Noticed \/ CallFailed \/ NoJobs
    BY <2>2 DEF Connect, Drain, Finalize, Noticed, CallFailed, NoJobs, Disconnected, ledger
  <2>3. CASE WrongProcess \/ Capture \/ HeaderWaits \/ HeaderRefused \/ CreateFile \/ Fill \/ Publish \/ Mark
    BY <2>3 DEF WrongProcess, Capture, HeaderWaits, HeaderRefused, CreateFile, Fill, Publish, Mark, ledger
  <2>4. CASE Adopt \/ (\E f \in Filters : Subscribe(f)) \/ Subscribed
    BY <2>4 DEF Adopt, Subscribe, Subscribed, ledger
  <2>5. CASE Saved \/ PinHead \/ ReadyWaits \/ TakeHeader \/ Bind \/ NoAnchor \/ PlanConflict \/ TailWaits
    BY <2>5 DEF Saved, PinHead, ReadyWaits, TakeHeader, Bind, NoAnchor, PlanConflict, TailWaits, ledger
  <2>6. CASE (\E f \in Filters : TailChunk(f)) \/ Promote \/ Complete \/ UNCHANGED avars
    BY <2>6 DEF TailChunk, Promote, Complete, avars, ledger
  <2> QED
    BY <2>1, <2>2, <2>3, <2>4, <2>5, <2>6 DEF ANext, Step
<1> QED
  BY <1>1, <1>2, <1>3

\* What a generation has passed is stored.
Passed(g) == \A f \in g.rid.members :
    {f} \X (Lower(f)..g.next[f] - 1) \subseteq stored /\ Lower(f) <= g.next[f]

\* What a generation has passed is stored; a finished one has passed its head.
LEMMA ProvedStep ==
    ASSUME IInv, [ANext]_avars
    PROVE  Proved'
<1> DEFINE Later(g) == \A f \in g.rid.members :
        {f} \X (LowerOf(f, start')..g.next[f] - 1) \subseteq stored' /\ LowerOf(f, start') <= g.next[f]
<1>0. /\ Types /\ Types' /\ Phases /\ Proved /\ stored \subseteq stored'
      /\ start \in Nat /\ (start # 0 => start' = start)
      /\ \A i \in DOMAIN gens : Passed(gens[i]) /\ (gens[i].done => Whole(gens[i]))
      /\ \A f \in Filters : Lower(f) \in Nat
  <2>1. start \in Nat
    BY DEF IInv, Types
  <2> QED
    BY <2>1, OnlyGrows, TypesStep, ActivationAssumption DEF IInv, Proved, Passed, Lower, LowerOf, Greatest
<1> SUFFICES \A i \in DOMAIN gens' : Later(gens'[i]) /\ (gens'[i].done => Whole(gens'[i]))
  BY LaunchedStep DEF Proved, Lower, Whole
<1>1. CASE UNCHANGED gens
  <2>1. ASSUME NEW i \in DOMAIN gens PROVE \A f \in Filters : LowerOf(f, start') = Lower(f)
    <3>1. start' = start
      BY <1>0, <2>1, GenerationsTyped DEF Phases
    <3> QED
      BY <3>1 DEF Lower
  <2>2. ASSUME NEW i \in DOMAIN gens PROVE Later(gens[i])
    <3>1. gens[i].rid.members \subseteq Filters
      BY <1>0, <2>2, GenerationsTyped
    <3> QED
      BY <1>0, <1>1, <2>1, <2>2, <3>1 DEF Passed
  <2> QED
    BY <1>0, <1>1, <2>2
<1>2. CASE TakeHeader
  <2>1. start' = start /\ known \subseteq Filters /\ stored' = stored
    BY <1>0, <1>2 DEF TakeHeader, publish, ledger, Types
  <2>2. \A f \in Filters : LowerOf(f, start') = Lower(f)
    BY <2>1 DEF Lower
  <2>3. ASSUME NEW i \in DOMAIN gens PROVE Later(gens'[i]) /\ (gens'[i].done => Whole(gens'[i]))
    <3>1. gens'[i] = gens[i] /\ gens[i].rid.members \subseteq Filters
      BY <1>0, <1>2, Taking, GenerationsTyped
    <3> QED
      BY <1>0, <2>1, <2>2, <3>1 DEF Passed
  <2>4. Later(gens'[Len(gens')]) /\ ~gens'[Len(gens')].done
    <3> DEFINE g == gens'[Len(gens')]
    <3>1. g.rid.members = known /\ ~g.done /\ \A f \in known : g.next[f] = Lower(f)
      BY <1>2, Taking DEF Rid
    <3> HIDE DEF g
    <3>2. ASSUME NEW f \in known
          PROVE  {f} \X (Lower(f)..g.next[f] - 1) = {} /\ Lower(f) <= g.next[f]
      BY <1>0, <2>1, <3>1
    <3> QED
      BY <2>1, <2>2, <3>1, <3>2 DEF Passed, g
  <2> QED
    BY <1>2, <2>3, <2>4, Taking
<1>3. ASSUME NEW e \in Filters, TailChunk(e)
      PROVE  \A i \in DOMAIN gens' : Later(gens'[i]) /\ (gens'[i].done => Whole(gens'[i]))
  <2> DEFINE k == Turn
             n == gens[k].next[e]
             z == Least(n + Span - 1, gens[k].head)
  <2>1. k \in DOMAIN gens /\ e \in gens[k].rid.members
    BY <1>0, <1>3, TurnIsOne DEF TailChunk, At, Phases
  <2>8. ~gens[k].done
    <3>1. n <= gens[k].head /\ n \in Nat /\ gens[k].head \in Nat
      BY <1>0, <1>3, <2>1, GenerationsTyped DEF TailChunk
    <3> QED
      BY <1>0, <2>1, <3>1 DEF Whole
  <2>2. n \in Nat /\ n <= z /\ z \in Nat /\ z + 1 \in Nat /\ gens[k].next \in [gens[k].rid.members -> Nat]
    <3>1. n \in Nat /\ gens[k].head \in Nat /\ n <= gens[k].head /\ gens[k].next \in [gens[k].rid.members -> Nat]
      BY <1>0, <1>3, <2>1, GenerationsTyped DEF TailChunk
    <3> QED
      BY <3>1, ActivationAssumption DEF Least
  <2>3. gens' = [gens EXCEPT ![k].next[e] = z + 1] /\ stored' = stored \cup ({e} \X (n..z)) /\ start' = start
    BY <1>3 DEF TailChunk, Logs, Read, publish
  <2>4. \A f \in Filters : LowerOf(f, start') = Lower(f)
    BY <2>3 DEF Lower
  <2> HIDE DEF z, n, k
  <2>5. /\ DOMAIN gens' = DOMAIN gens
        /\ \A i \in DOMAIN gens :
             /\ gens'[i].rid = gens[i].rid /\ gens'[i].head = gens[i].head /\ gens'[i].done = gens[i].done
             /\ gens'[i].next = IF i = k THEN [gens[k].next EXCEPT ![e] = z + 1] ELSE gens[i].next
    BY <1>0, <2>1, <2>2, <2>3, Passing
  <2>6. ASSUME NEW i \in DOMAIN gens, i # k PROVE Later(gens'[i]) /\ (gens'[i].done => Whole(gens'[i]))
    <3>1. gens'[i].rid = gens[i].rid /\ gens'[i].head = gens[i].head /\ gens'[i].done = gens[i].done
          /\ gens'[i].next = gens[i].next /\ gens[i].rid.members \subseteq Filters
      BY <1>0, <2>5, <2>6, GenerationsTyped
    <3> QED
      BY <1>0, <2>4, <3>1 DEF Passed, Whole
  <2>7. Later(gens'[k]) /\ ~gens'[k].done
    <3>1. gens'[k].rid = gens[k].rid /\ gens'[k].next = [gens[k].next EXCEPT ![e] = z + 1]
          /\ gens[k].rid.members \subseteq Filters /\ ~gens'[k].done
      BY <1>0, <2>1, <2>5, <2>8, GenerationsTyped
    <3>2. ASSUME NEW f \in gens[k].rid.members, f # e
          PROVE  {f} \X (Lower(f)..gens'[k].next[f] - 1) \subseteq stored' /\ Lower(f) <= gens'[k].next[f]
      BY <1>0, <2>1, <2>2, <3>1, <3>2 DEF Passed
    <3>3. {e} \X (Lower(e)..gens'[k].next[e] - 1) \subseteq stored' /\ Lower(e) <= gens'[k].next[e]
      <4>1. {e} \X (Lower(e)..n - 1) \subseteq stored /\ Lower(e) <= n /\ Lower(e) \in Nat
        BY <1>0, <2>1 DEF Passed, n
      <4>2. gens'[k].next[e] = z + 1
        BY <2>1, <2>2, <3>1
      <4>3. \A b \in Lower(e)..(z + 1) - 1 : b \in Lower(e)..n - 1 \/ b \in n..z
        BY <2>2, <4>1
      <4>4. {e} \X (Lower(e)..(z + 1) - 1) \subseteq stored'
        BY <2>3, <4>1, <4>3
      <4> QED
        BY <2>2, <4>1, <4>2, <4>4
    <3> QED
      BY <2>4, <3>1, <3>2, <3>3 DEF Passed
  <2> QED
    BY <2>5, <2>6, <2>7
<1>4. CASE Promote \/ Complete
  <2>1. gens # <<>> /\ Len(gens) \in DOMAIN gens
    BY <1>0, <1>4, GenerationsTyped DEF Promote, Complete, Phases, At
  <2>2. Turn \in DOMAIN gens
    BY <1>0, <2>1, TurnIsOne
  <2>3. UNCHANGED gens \/ \E k \in DOMAIN gens : Whole(gens[k]) /\ gens' = [gens EXCEPT ![k].done = TRUE]
    BY <1>0, <1>4, <2>1, <2>2 DEF Promote, Complete, Phases, At
  <2>4. ASSUME NEW k \in DOMAIN gens, Whole(gens[k]), gens' = [gens EXCEPT ![k].done = TRUE]
        PROVE  \A i \in DOMAIN gens' : Later(gens'[i]) /\ (gens'[i].done => Whole(gens'[i]))
    <3>1. DOMAIN gens' = DOMAIN gens
          /\ \A i \in DOMAIN gens :
                /\ gens'[i].rid = gens[i].rid /\ gens'[i].head = gens[i].head /\ gens'[i].next = gens[i].next
                /\ (gens'[i].done => i = k \/ gens[i].done)
      BY <1>0, <2>4, Finishing
    <3>2. start' = start
      BY <1>4 DEF Promote, Complete, publish
    <3>3. \A f \in Filters : LowerOf(f, start') = Lower(f)
      BY <3>2 DEF Lower
    <3>4. ASSUME NEW i \in DOMAIN gens PROVE Later(gens'[i])
      <4>1. gens[i].rid.members \subseteq Filters
        BY <1>0, <3>4, GenerationsTyped
      <4> QED
        BY <1>0, <1>4, <3>1, <3>3, <4>1 DEF Passed
    <3>5. ASSUME NEW i \in DOMAIN gens, gens'[i].done PROVE Whole(gens'[i])
      BY <1>0, <2>4, <3>1, <3>5 DEF Whole
    <3> QED
      BY <3>1, <3>4, <3>5
  <2> QED
    BY <1>1, <2>3, <2>4
<1>5. UNCHANGED gens \/ TakeHeader \/ (\E f \in Filters : TailChunk(f)) \/ Promote \/ Complete
  BY GenerationsWritten
<1> QED
  BY <1>1, <1>2, <1>3, <1>4, <1>5

\* A connection in the segment loses no notice, or it is a new one with nothing acknowledged.
LEMMA SessionKept ==
    ASSUME IInv, [ANext]_avars, conn' = "up", here'
    PROVE  \/ sess' = sess + 1 /\ acked' = NoAcks
           \/ /\ conn = "up" /\ here /\ sess' = sess /\ stored \cup queue \subseteq stored' \cup queue'
              /\ head' = head \/ (head' = head + 1 /\ UNCHANGED acked /\ subs \X {head'} \subseteq queue')
              /\ UNCHANGED acked \/ \E f \in known \ subs : acked' = [acked EXCEPT ![f] = head]
<1>0. sess \in Nat /\ here \in BOOLEAN
  BY DEF IInv, Types
<1>1. CASE Mine \/ Break \/ Request \/ Crash \/ Start
  BY <1>1 DEF Mine, Break, Request, Crash, Start, worker, ledger, proof
<1>2. CASE Drain \/ Finalize
  BY <1>2 DEF Drain, Finalize, Drained, proof
<1>11. CASE Connect
  BY <1>11 DEF Connect, NewSession
<1>3. CASE Noticed \/ CallFailed \/ NoJobs
  BY <1>3 DEF Noticed, CallFailed, NoJobs, Disconnected
<1>4. CASE WrongProcess \/ Capture \/ HeaderWaits \/ HeaderRefused \/ CreateFile \/ Fill \/ Publish \/ Mark
  BY <1>4 DEF WrongProcess, Capture, HeaderWaits, HeaderRefused, CreateFile, Fill, Publish, Mark, ledger, proof
<1>5. CASE Adopt
  BY <1>5 DEF Adopt, NewSession, ledger
<1>6. CASE Discover \/ (\E f \in Filters : Subscribe(f)) \/ Subscribed
  BY <1>6 DEF Discover, Subscribe, Subscribed, ledger, proof
<1>7. CASE Saved \/ PinHead \/ ReadyWaits \/ TakeHeader \/ Bind
  BY <1>7 DEF Saved, PinHead, ReadyWaits, TakeHeader, Bind, worker, ledger, proof
<1>8. CASE NoAnchor \/ PlanConflict
  BY <1>8 DEF NoAnchor, PlanConflict, Blocked
<1>9. CASE (\E f \in Filters : TailChunk(f)) \/ TailWaits \/ Promote \/ Complete
  BY <1>9 DEF TailChunk, TailWaits, Promote, Complete, Blocked, worker, ledger, proof
<1>10. CASE UNCHANGED avars
  BY <1>10 DEF avars, worker, ledger, proof
<1> QED
  BY <1>1, <1>2, <1>3, <1>4, <1>5, <1>6, <1>7, <1>8, <1>9, <1>10, <1>11 DEF ANext, Step

\* What is announced after an acknowledgement is noticed.
LEMMA AnnouncedStep ==
    ASSUME IInv, [ANext]_avars, conn' = "up", here'
    PROVE  \A f \in subs' : {f} \X (acked'[f] + 1..head') \subseteq stored' \cup queue'
<1>0. /\ head \in Nat /\ head' \in Nat /\ acked \in [Filters -> Nat] /\ acked' \in [Filters -> Nat]
      /\ subs' \subseteq Filters /\ known \subseteq Filters
  BY OnlyGrows, AckedStep, ActivationAssumption DEF IInv, Types, Blocks, subs
<1>1. CASE acked' = NoAcks
  BY <1>1 DEF subs, NoAcks
<1>2. CASE acked' # NoAcks
  <2>1. /\ conn = "up" /\ here /\ stored \cup queue \subseteq stored' \cup queue'
        /\ head' = head \/ (head' = head + 1 /\ UNCHANGED acked /\ subs \X {head'} \subseteq queue')
    BY <1>2, SessionKept
  <2>2. \A f \in subs : {f} \X (acked[f] + 1..head) \subseteq stored \cup queue
    BY <2>1 DEF IInv, Noticing
  <2>3. CASE UNCHANGED acked
    <3>1. subs' = subs
      BY <2>3 DEF subs
    <3>2. ASSUME NEW f \in subs, NEW b \in acked[f] + 1..head' PROVE <<f, b>> \in stored' \cup queue'
      <4>1. b \in acked[f] + 1..head \/ (b = head' /\ head' # head)
        BY <1>0, <2>1, <3>1
      <4> QED
        BY <2>1, <2>2, <4>1
    <3> QED
      BY <2>3, <3>1, <3>2
  <2>4. CASE ~UNCHANGED acked
    <3>1. PICK e \in known \ subs : e \in Filters /\ acked' = [acked EXCEPT ![e] = head]
      BY <1>0, <1>2, <2>4, SessionKept
    <3>2. head' = head
      BY <2>1, <2>4
    <3>3. ASSUME NEW f \in subs' PROVE {f} \X (acked'[f] + 1..head') \subseteq stored' \cup queue'
      <4>1. CASE f = e
        <5>1. acked'[f] + 1..head' = {}
          BY <1>0, <3>1, <3>2, <4>1
        <5> QED
          BY <5>1
      <4>2. CASE f # e
        <5>1. f \in subs /\ acked'[f] = acked[f]
          BY <1>0, <3>1, <4>2 DEF subs
        <5> QED
          BY <2>1, <2>2, <3>2, <5>1
      <4> QED
        BY <4>1, <4>2
    <3> QED
      BY <3>3
  <2> QED
    BY <2>3, <2>4
<1> QED
  BY <1>1, <1>2

\* A pin of this session and these filters is no further below an acknowledgement than the endpoint
\* trails the chain.
LEMMA NoticingStep ==
    ASSUME IInv, [ANext]_avars
    PROVE  Noticing'
<1> SUFFICES ASSUME conn' = "up", here', pin'.rid = Rid'
             PROVE  known' \subseteq subs' /\ \A f \in known' : acked'[f] <= pin'.head + HttpLag
  BY AnnouncedStep DEF Noticing
<1>0. /\ head \in Nat /\ pin.rid \in Rids /\ pin.head \in Nat /\ Known(pin.rid) /\ HttpLag \in Nat
      /\ acked \in [Filters -> Nat] /\ (\A f \in Filters : acked[f] <= head) /\ known \subseteq Filters
      /\ sess \in Nat
  BY ActivationAssumption DEF IInv, Types, Blocks, Pinned
<1>1. CASE UNCHANGED pin
  <2>1. Rid' = Rid
    BY <1>0, <1>1, RidFixed
  <2>2. known' = known /\ sess' = sess
    BY <2>1 DEF Rid
  <2>3. conn = "up" /\ here
    <3>1. sess' # sess + 1
      BY <1>0, <2>2
    <3> QED
      BY <3>1, SessionKept
  <2>4. known \subseteq subs /\ \A f \in known : acked[f] <= pin.head + HttpLag
    BY <1>1, <2>1, <2>3 DEF IInv, Noticing
  <2>5. UNCHANGED acked
    <3>1. sess' # sess + 1
      BY <1>0, <2>2
    <3> QED
      BY <2>4, <3>1, SessionKept
  <2> QED
    BY <1>1, <2>2, <2>4, <2>5 DEF subs
<1>2. CASE ~UNCHANGED pin
  <2>1. PICK h \in Heads : pin' = [rid |-> Rid, head |-> h] /\ PinHead /\ UNCHANGED <<head, acked, known>>
    BY <1>2, PinKept
  <2>2. known \subseteq subs /\ subs' = subs
    BY <2>1 DEF PinHead, At, IInv, Phases, subs
  <2>3. h \in Nat /\ head - HttpLag <= h
    BY <2>1 DEF Heads, Blocks
  <2>4. ASSUME NEW f \in known PROVE acked[f] <= h + HttpLag
    BY <1>0, <2>3
  <2> QED
    BY <2>1, <2>2, <2>4
<1> QED
  BY <1>1, <1>2

(***************************************************************************)
(* The theorems.                                                           *)
(***************************************************************************)

\* The inductive invariant of the worker with its segment: what every property below rests on.
THEOREM InductiveInvariant == ASpec => []IInv
<1>1. IInv /\ [ANext]_avars => IInv'
  BY TypesStep, PhasesStep, RequestsStep, FileFirstStep, PinnedStep, ProvedStep, NoticingStep DEF IInv
<1> QED
  BY <1>1, InitInvariant, PTL DEF ASpec

\* PublishedIsWhole (flow_segments.py, prepare): the catalog row is the last step of preparing, so
\* it never names a file whose schema and ledger are not there, wherever the process dies.
THEOREM SegmentsArePublishedWhole == ASpec => []PublishedIsWhole
<1>1. IInv => PublishedIsWhole
  BY DEF IInv, FileFirst, PublishedIsWhole
<1> QED
  BY <1>1, InductiveInvariant, PTL

\* What finished generations claim is stored.
LEMMA ClaimedIsStored ==
    ASSUME IInv
    PROVE  Claimed \subseteq stored
<1> SUFFICES ASSUME NEW i \in DOMAIN gens, gens[i].done, NEW f \in gens[i].rid.members,
                    NEW b \in Lower(f)..gens[i].head
             PROVE  <<f, b>> \in stored
  BY DEF Claimed
<1>1. f \in Filters /\ gens[i].head \in Nat /\ gens[i].next[f] \in Nat /\ start \in Nat
  BY GenerationsTyped DEF IInv, Types
<1>2. Lower(f) \in Nat
  BY <1>1, ActivationAssumption DEF Lower, LowerOf, Greatest
<1>3. gens[i].next[f] > gens[i].head /\ {f} \X (Lower(f)..gens[i].next[f] - 1) \subseteq stored
  BY DEF IInv, Proved, Whole
<1>4. b \in Lower(f)..gens[i].next[f] - 1
  BY <1>1, <1>2, <1>3
<1> QED
  BY <1>3, <1>4

\* What a healthy worker's last record says of a filter.
LEMMA HealthyFilter ==
    ASSUME IInv, Healthy, NEW f \in known
    PROVE  /\ Newest.head \in Nat /\ acked[f] \in Nat /\ acked[f] <= Newest.head + HttpLag
           /\ {f} \X (Lower(f)..Newest.head) \subseteq stored
           /\ {f} \X (acked[f] + 1..head) \subseteq stored \cup queue
<1> DEFINE g == gens[Len(gens)]
<1>1. conn = "up" /\ here /\ Ready /\ g.done /\ gens # <<>> /\ g.rid = Rid
  BY DEF Healthy, Evidence, Ready
<1>2. Len(gens) \in DOMAIN gens /\ pin = [rid |-> Rid, head |-> g.head]
  BY <1>1, GenerationsTyped DEF IInv, Pinned
<1>3. pin.rid = Rid /\ pin.head = g.head
  BY <1>2
<1>4. f \in g.rid.members /\ g.head \in Nat /\ acked[f] \in Nat
  BY <1>1, <1>2, GenerationsTyped DEF Rid, IInv, Types
<1>5. f \in subs /\ acked[f] <= g.head + HttpLag
  BY <1>1, <1>3 DEF IInv, Noticing
<1>6. {f} \X (acked[f] + 1..head) \subseteq stored \cup queue
  BY <1>1, <1>5 DEF IInv, Noticing
<1>7. {f} \X (Lower(f)..g.head) \subseteq stored
  BY <1>1, <1>2, <1>4, ClaimedIsStored DEF Claimed
<1> QED
  BY <1>4, <1>5, <1>6, <1>7

\* What a healthy segment misses of a filter since its boundary lies between the pinned head and
\* the acknowledgement.
LEMMA OnlyUnseenMissing ==
    ASSUME IInv, Healthy, NEW f \in known, NEW b \in Blocks \ Unseen(f), <<f, b>> \in Happened, b >= start
    PROVE  <<f, b>> \in stored \cup queue
<1>1. /\ Newest.head \in Nat /\ acked[f] \in Nat /\ {f} \X (Lower(f)..Newest.head) \subseteq stored
      /\ {f} \X (acked[f] + 1..head) \subseteq stored \cup queue
  BY HealthyFilter
<1>2. Base[f] <= b /\ b <= head /\ b \in Nat /\ head \in Nat /\ f \in Filters /\ Base[f] \in Nat /\ start \in Nat
  BY ActivationAssumption DEF Happened, Blocks, IInv, Types
<1>3. b >= Lower(f) /\ Lower(f) \in Nat
  BY <1>2 DEF Lower, LowerOf, Greatest
<1> DEFINE h == Newest.head
<1>4. ~(h + 1 <= b /\ b <= acked[f])
  BY <1>1, <1>2 DEF Unseen
<1> HIDE DEF h
<1>5. b \in Lower(f)..h \/ b \in acked[f] + 1..head
  BY <1>1, <1>2, <1>3, <1>4 DEF h
<1> QED
  BY <1>1, <1>5 DEF h

\* HealthyMeansWhole (flow_activation.py, evidence and current_health): when the last record is of
\* this session and these filters and is complete, nothing since the boundary is missing, but what
\* was mined before the acknowledgement and above the head the endpoint answered after it, which is
\* never more than the endpoint trails the chain.
THEOREM HealthyMissesNothing == ASpec => []HealthyMeansWhole
<1>1. IInv => HealthyMeansWhole
  <2> SUFFICES ASSUME IInv, Healthy, NEW f \in known PROVE Cardinality(Unseen(f)) <= HttpLag
    BY OnlyUnseenMissing DEF HealthyMeansWhole
  <2> DEFINE h == Newest.head
  <2>1. h \in Nat /\ acked[f] \in Nat /\ HttpLag \in Nat /\ acked[f] <= h + HttpLag
    BY HealthyFilter, ActivationAssumption
  <2>2. Cardinality(h + 1..acked[f]) = IF h + 1 <= acked[f] THEN acked[f] - (h + 1) + 1 ELSE 0
    <3> HIDE DEF h
    <3>1. h + 1 \in Int /\ acked[f] \in Int
      BY <2>1
    <3> QED
      BY <3>1, FS_Interval
  <2> HIDE DEF h
  <2>3. Cardinality(h + 1..acked[f]) <= HttpLag
    BY <2>1, <2>2
  <2> QED
    BY <2>3 DEF Unseen, h
<1> QED
  BY <1>1, InductiveInvariant, PTL

\* An endpoint that does not trail (flow_activation.py:103): a healthy segment misses no trade of
\* any of its targets since its boundary.
NothingMissing ==
    Healthy => \A t \in Happened : t[1] \in known /\ t[2] >= start => t \in stored \cup queue

THEOREM WithoutLagNothingMissing == ASSUME HttpLag = 0 PROVE ASpec => []NothingMissing
<1>1. IInv => NothingMissing
  <2> SUFFICES ASSUME IInv, Healthy, NEW t \in Happened, t[1] \in known, t[2] >= start
               PROVE  t \in stored \cup queue
    BY DEF NothingMissing
  <2>1. t = <<t[1], t[2]>> /\ t[2] \in Blocks
    BY DEF Happened, Trades
  <2>2. Unseen(t[1]) = {}
    <3> DEFINE h == Newest.head
    <3>1. h \in Nat /\ acked[t[1]] \in Nat /\ acked[t[1]] <= h
      BY HealthyFilter
    <3> HIDE DEF h
    <3>2. h + 1..acked[t[1]] = {}
      BY <3>1
    <3> QED
      BY <3>2 DEF Unseen, h
  <2> QED
    BY <2>1, <2>2, OnlyUnseenMissing
<1> QED
  BY <1>1, InductiveInvariant, PTL

\* KeepsPromise: the worker with its generations implements CoveragePromise, step for step: it claims
\* only what is stored and forgets nothing.
THEOREM PromiseKept == ASpec => KeepsPromise
<1>1. AInit => Promise!Init
  <2>1. AInit => stored \subseteq Happened /\ Claimed \subseteq stored
    BY InitInvariant, ClaimedIsStored DEF IInv, Types
  <2> QED
    BY <2>1 DEF Promise!Init, Happened
<1>2. IInv /\ IInv' /\ [ANext]_avars => [Promise!Next]_(Promise!vars)
  <2> SUFFICES ASSUME IInv, IInv', [ANext]_avars
               PROVE  Promise!Next
    OBVIOUS
  <2>1. Types /\ Types' /\ head <= head' /\ stored \subseteq stored'
    BY OnlyGrows DEF IInv
  <2>2. Claimed' \subseteq stored'
    <3>1. IInv' => (Claimed \subseteq stored)'
      BY ClaimedIsStored, PTL
    <3> QED
      BY <3>1
  <2>3. Promise!Happen
    <3>1. head \in Nat /\ head' \in Nat
      BY <2>1, ActivationAssumption DEF Types, Blocks
    <3> QED
      BY <2>1, <3>1, ActivationAssumption DEF Promise!Happen, Happened, Trades, Blocks
  <2>4. Promise!Store
    BY <2>1 DEF Promise!Store, Types
  <2>5. Promise!Claim
    BY <2>2 DEF Promise!Claim
  <2> QED
    BY <2>3, <2>4, <2>5 DEF Promise!Next
<1> QED
  BY <1>1, <1>2, InductiveInvariant, PTL DEF ASpec, KeepsPromise, Promise!Spec
=============================================================================
