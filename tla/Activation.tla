------------------------------ MODULE Activation ------------------------------
(***************************************************************************)
(* A research segment, from the operator's request to its activation: the  *)
(* live worker prepares a fresh partition (app/flow_segments.py), moves    *)
(* into it, and proves, generation after generation, every filter from the *)
(* segment's boundary to a head pinned after the subscriptions were        *)
(* acknowledged (app/flow_activation.py).  Only then is it eligible.       *)
(* The pinned head is the HTTP endpoint's, which may trail the socket.     *)
(*                                                                         *)
(* Abstractions.  A target has one filter, and one trade in every block    *)
(* from its launch on, so a block neither read nor seen is always a loss.  *)
(* One chunk of proof is one step: FlowCollector splits it.  Graduation,   *)
(* expiry, provider switches and the ordinary recovery that follows an     *)
(* activation are in the modules named for them.  Of the partition the     *)
(* worker leaves only the request and its capture are kept.                *)
(***************************************************************************)
EXTENDS Integers, Sequences, FiniteSets, FiniteSetsExt

CONSTANTS
    Filters,    \* tracking targets, one filter each
    Base,       \* Base[f]: the block of f's launch
    MaxBlock,   \* bound: blocks the chain mines
    Span,       \* SHADOW_SPAN
    HttpLag,    \* blocks eth_blockNumber of the Validation endpoint may trail the chain
    MaxFaults   \* bound: crashes, lost connections, failed calls and exhausted budgets

ASSUME ActivationAssumption ==
    /\ {MaxBlock, Span} \subseteq Nat \ {0} /\ {HttpLag, MaxFaults} \subseteq Nat
    /\ Base \in [Filters -> 1..MaxBlock]

Blocks == 1..MaxBlock
Trades == Filters \X Blocks

VARIABLES
    head,                            \* the chain
    proc, conn, pc, here,            \* the process, its socket, where its tick is, which partition it writes
    latest, acked, queue,            \* latest_block, the head at each acknowledgement, notices not yet drained
    request, capture, file, start,   \* the operator's request, the pinned boundary, the file, the catalog row
    once, lcb, failed,               \* connected_once, last_connected_block, research_segment_request_failure
    known, stored, cursor,           \* targets, the feature ledger and the recovery cursors
    sess, pin, gens,                 \* current_session, head:<rid>, and the readiness records in order
    pend, debts,                     \* pending_uncertainty:* and the gaps bound to a reconnect head
    faults

worker  == <<proc, conn, pc, here, latest, acked, queue>>
publish == <<request, capture, file, start>>
ledger  == <<known, stored, cursor>>
proof   == <<sess, pin, gens>>
doubt   == <<pend, debts>>
avars   == <<head, worker, publish, once, lcb, failed, ledger, proof, doubt, faults>>

Greatest(a, b) == IF a > b THEN a ELSE b
Least(a, b)    == IF a < b THEN a ELSE b

\* The identity of a readiness record: the session and the filters it acknowledged.
Rid      == [sess |-> sess, members |-> known]
NoPin    == [rid |-> [sess |-> 0, members |-> {}], head |-> 0]
LowerOf(f, s) == Greatest(Base[f], s)
Lower(f) == LowerOf(f, start)
Newest   == gens[Len(gens)]
Open     == {i \in DOMAIN gens : ~gens[i].done}
Turn     == IF Open = {} THEN Len(gens) ELSE Min(Open)    \* oldest first, then the current one
Ready    == gens # <<>> /\ Newest.rid = Rid

subs     == {f \in Filters : acked[f] # 0}
NoAcks   == [f \in Filters |-> 0]

\* What eth_blockNumber may answer: replicas behind one endpoint need not agree.
Heads    == {h \in Blocks : head - HttpLag <= h /\ h <= head}

\* _plan() gives no job to a filter whose bound is above the pinned head.
Jobs(g)  == {f \in g.rid.members : Lower(f) <= g.head}

Live     == conn \in {"up", "broken"}
At(l)    == Live /\ pc = l
Goto(l)  == pc' = l
Fault    == faults < MaxFaults /\ faults' = faults + 1

AInit ==
    /\ head = 1 /\ proc = 1 /\ conn = "up" /\ pc = "drain" /\ here = FALSE
    /\ latest = 1 /\ acked = NoAcks /\ queue = {}
    /\ request = [st |-> "none", pid |-> 0] /\ capture = 0 /\ file = "none" /\ start = 0
    /\ once = FALSE /\ lcb = 0 /\ failed = FALSE
    /\ known = {} /\ stored = {} /\ cursor = [f \in Filters |-> 0]
    /\ sess = 0 /\ pin = NoPin /\ gens = <<>>
    /\ pend = {} /\ debts = {} /\ faults = 0

(***************************************************************************)
(* The environment.                                                        *)
(***************************************************************************)
Mine ==
    /\ head < MaxBlock /\ head' = head + 1
    /\ queue' = IF conn = "up" THEN queue \cup (subs \X {head'}) ELSE queue
    /\ UNCHANGED <<proc, conn, pc, here, latest, acked, publish, once, lcb, failed, ledger, proof, doubt, faults>>

\* The socket fails; the worker finds out later.  Before it has moved it only reconnects.
Break ==
    /\ conn = "up" /\ here /\ Fault /\ conn' = "broken"
    /\ UNCHANGED <<head, proc, pc, here, latest, acked, queue, publish, once, lcb, failed, ledger, proof, doubt>>

\* The operator asks for a segment and names the process that is running.
Request ==
    /\ request.st = "none" /\ conn # "dead" /\ ~here
    /\ request' = [st |-> "REQUESTED", pid |-> proc]
    /\ UNCHANGED <<head, worker, capture, file, start, once, lcb, failed, ledger, proof, doubt, faults>>

Crash ==
    /\ conn # "dead" /\ Fault
    /\ conn' = "dead" /\ Goto("off") /\ latest' = 0 /\ acked' = NoAcks /\ queue' = {}
    /\ UNCHANGED <<head, proc, here, publish, once, lcb, failed, ledger, proof, doubt>>

(***************************************************************************)
(* run(): the process, the connection and the frame of a tick.             *)
(***************************************************************************)
Doubts == known \X {lcb}

Start ==
    /\ conn = "dead"
    /\ proc' = proc + 1 /\ conn' = "down" /\ Goto("connect") /\ here' = (start # 0)
    /\ pend' = IF here' /\ once THEN pend \cup Doubts ELSE pend
    /\ UNCHANGED <<head, latest, acked, queue, publish, once, lcb, failed, ledger, proof, debts, faults>>

\* drain(): an event of an unknown route would raise, of a retired partition is dropped.
Drained ==
    /\ stored' = stored \cup queue /\ queue' = {}
    /\ latest' = Max({latest} \cup {t[2] : t \in queue})

\* session(): a new activation session, which no acknowledgement has reached yet.
NewSession == sess' = sess + 1

\* The handler's last act is to drain.
Connect ==
    /\ conn = "down" /\ Drained
    /\ conn' = "up" /\ Goto("drain") /\ acked' = NoAcks
    /\ IF here THEN NewSession /\ once' = TRUE ELSE UNCHANGED <<sess, once>>
    /\ UNCHANGED <<head, proc, here, publish, lcb, failed, known, cursor, pin, gens, doubt, faults>>

\* except Exception: a closed socket or a refused call; every target's coverage is in doubt.
Disconnected ==
    /\ conn' = "down" /\ Goto("connect") /\ pend' = pend \cup Doubts
    /\ UNCHANGED <<head, proc, here, latest, acked, queue, publish, once, lcb, failed, ledger, proof, debts>>

Noticed    == conn = "broken" /\ pc \in {"drain", "subscribe", "end"} /\ Disconnected /\ UNCHANGED faults
CallFailed == At(pc) /\ (pc \in {"discover", "subscribe"} \/ (pc = "ready" /\ ~Ready)) /\ Fault /\ Disconnected

Drain ==
    /\ At("drain") /\ conn = "up" /\ Drained
    /\ Goto(IF request.st = "REQUESTED" THEN "request" ELSE "adopt")
    /\ UNCHANGED <<head, proc, conn, here, acked, publish, once, lcb, failed, known, cursor, proof, doubt, faults>>

\* finalize(True)
Finalize ==
    /\ At("end") /\ conn = "up" /\ Drained
    /\ lcb' = IF here THEN latest' ELSE lcb
    /\ Goto("drain")
    /\ UNCHANGED <<head, proc, conn, here, acked, publish, once, failed, known, cursor, proof, doubt, faults>>

(***************************************************************************)
(* process_request() and prepare()                                         *)
(***************************************************************************)
Refuse == request' = [request EXCEPT !.st = "BLOCKED"] /\ Goto("adopt")

\* The request names a process that is gone; the failure is written where the worker now writes.
WrongProcess ==
    /\ At("request") /\ request.pid # proc
    /\ Refuse /\ failed' = (failed \/ here)
    /\ UNCHANGED <<head, proc, conn, here, latest, acked, queue, capture, file, start, once, lcb, ledger, proof, doubt, faults>>

\* The head is pinned before its header is asked for; a budget wait keeps it.
Capture ==
    /\ At("request") /\ request.pid = proc
    /\ capture' \in IF capture = 0 THEN Heads ELSE {capture}
    /\ Goto("header")
    /\ UNCHANGED <<head, proc, conn, here, latest, acked, queue, request, file, start, once, lcb, failed, ledger, proof, doubt, faults>>

HeaderWaits ==
    /\ At("header") /\ Fault /\ Goto("adopt")
    /\ UNCHANGED <<head, proc, conn, here, latest, acked, queue, publish, once, lcb, failed, ledger, proof, doubt>>

\* The boundary is older than a minute, or the provider's header is not the one asked for.
HeaderRefused ==
    /\ At("header") /\ Fault /\ Refuse
    /\ UNCHANGED <<head, proc, conn, here, latest, acked, queue, capture, file, start, once, lcb, failed, ledger, proof, doubt>>

CreateFile ==
    /\ At("header") /\ file = "none" /\ file' = "empty" /\ Goto("fill")
    /\ UNCHANGED <<head, proc, conn, here, latest, acked, queue, request, capture, start, once, lcb, failed, ledger, proof, doubt, faults>>

\* migrate() and activate_pit_ledger(), checked against the startup contract.
Fill ==
    /\ At("fill") /\ file' = "filled" /\ Goto("publish")
    /\ UNCHANGED <<head, proc, conn, here, latest, acked, queue, request, capture, start, once, lcb, failed, ledger, proof, doubt, faults>>

PublishEarly ==                                                      \* mutant: the row comes before the schema
    /\ At("fill") /\ start' = capture /\ file' = file /\ Goto("publish")
    /\ UNCHANGED <<head, proc, conn, here, latest, acked, queue, request, capture, once, lcb, failed, ledger, proof, doubt, faults>>
Publish ==
    /\ At("publish") /\ start' = capture /\ Goto("mark")
    /\ UNCHANGED <<head, proc, conn, here, latest, acked, queue, request, capture, file, once, lcb, failed, ledger, proof, doubt, faults>>

Mark ==
    /\ At("mark") /\ request' = [request EXCEPT !.st = "PREPARED"] /\ Goto("adopt")
    /\ UNCHANGED <<head, proc, conn, here, latest, acked, queue, capture, file, start, once, lcb, failed, ledger, proof, doubt, faults>>

\* reconcile(): the catalog names another file.  connected_once is not carried over.
Adopt ==
    /\ At("adopt")
    /\ IF start # 0 /\ ~here
       THEN here' = TRUE /\ NewSession /\ acked' = NoAcks /\ queue' = {}
       ELSE UNCHANGED <<here, sess, acked, queue>>
    /\ Goto(IF here' THEN "discover" ELSE "end")
    /\ UNCHANGED <<head, proc, conn, latest, publish, once, lcb, failed, ledger, pin, gens, doubt, faults>>

(***************************************************************************)
(* Targets and subscriptions.                                              *)
(***************************************************************************)
Listed == {f \in Filters \ known : Base[f] <= head}

\* A target launched before the segment may have expired; a budget may end the loop early.
Discover ==
    /\ At("discover") /\ Goto("subscribe")
    /\ \E K \in SUBSET Listed :
          /\ known' = known \cup K
          /\ \/ {f \in Listed : Base[f] >= start} \subseteq K /\ UNCHANGED faults
             \/ ~({f \in Listed : Base[f] >= start} \subseteq K) /\ Fault
    /\ UNCHANGED <<head, proc, conn, here, latest, acked, queue, publish, once, lcb, failed, stored, cursor, proof, doubt>>

\* One command per filter; its acknowledgement is written before the route is known.
Subscribe(f) ==
    /\ At("subscribe") /\ conn = "up" /\ f \in known \ subs
    /\ acked' = [acked EXCEPT ![f] = head]
    /\ UNCHANGED <<head, proc, conn, pc, here, latest, queue, publish, once, lcb, failed, ledger, proof, doubt, faults>>

Subscribed ==
    /\ At("subscribe") /\ known \subseteq subs
    /\ Goto(IF known = {} THEN "end" ELSE "ready")
    /\ UNCHANGED <<head, proc, conn, here, latest, acked, queue, publish, once, lcb, failed, ledger, proof, doubt, faults>>

(***************************************************************************)
(* readiness(): a head pinned after every acknowledgement.                 *)
(***************************************************************************)

\* evidence(): the record of this session and of exactly these filters is complete.
EvidenceOfAny == gens # <<>> /\ Newest.done                         \* mutant: the session is not compared
Evidence      == Ready /\ Newest.done /\ Jobs(Newest) = Newest.rid.members

Saved ==
    /\ At("ready") /\ Ready
    /\ Goto(IF Evidence THEN "end" ELSE "bind")
    /\ UNCHANGED <<head, proc, conn, here, latest, acked, queue, publish, once, lcb, failed, ledger, proof, doubt, faults>>

PinHead ==
    /\ At("ready") /\ ~Ready /\ pin.rid # Rid
    /\ \E h \in Heads : pin' = [rid |-> Rid, head |-> h]
    /\ UNCHANGED <<head, worker, publish, once, lcb, failed, ledger, sess, gens, doubt, faults>>

\* The limiter ends the tick before either call; what is pinned stays pinned.
ReadyWaits ==
    /\ At("ready") /\ ~Ready /\ Fault /\ Goto("end")
    /\ UNCHANGED <<head, proc, conn, here, latest, acked, queue, publish, once, lcb, failed, ledger, proof, doubt>>

TakeHeader ==
    /\ At("ready") /\ ~Ready /\ pin.rid = Rid
    /\ gens' = Append(gens, [rid |-> Rid, head |-> pin.head, done |-> FALSE,
                             next |-> [f \in known |-> Lower(f)]])
    /\ Goto("bind")
    /\ UNCHANGED <<head, proc, conn, here, latest, acked, queue, publish, once, lcb, failed, ledger, sess, pin, doubt, faults>>

(***************************************************************************)
(* drive(): doubts are bound to the pinned head, then one chunk per tick   *)
(* and generation, oldest first.                                           *)
(***************************************************************************)
Anchored == \A d \in pend : Base[d[1]] <= d[2] /\ d[2] <= Newest.head

Bind ==
    /\ At("bind") /\ Anchored
    /\ debts' = debts \cup {[f |-> d[1], first |-> d[2], last |-> Newest.head] : d \in pend}
    /\ pend' = {} /\ Goto("tail")
    /\ UNCHANGED <<head, proc, conn, here, latest, acked, queue, publish, once, lcb, failed, ledger, proof, faults>>

\* ValueError: run() takes it for a broken database and waits for the operator.
Blocked == conn' = "blocked" /\ Goto("off")

NoAnchor ==
    /\ At("bind") /\ ~Anchored /\ Blocked
    /\ UNCHANGED <<head, proc, here, latest, acked, queue, publish, once, lcb, failed, ledger, proof, doubt, faults>>

\* _plan(): a filter without a cursor must be proved from its launch block on.
Planned(g)  == \A f \in Jobs(g) : cursor[f] # 0 \/ Lower(f) = Base[f]
Whole(g)    == \A f \in g.rid.members : g.next[f] > g.head

PlanConflict ==
    /\ At("tail") /\ ~Planned(gens[Turn]) /\ Blocked
    /\ UNCHANGED <<head, proc, here, latest, acked, queue, publish, once, lcb, failed, ledger, proof, doubt, faults>>

\* promote() raises RpcError('Bootstrap has no jobs'), on every connection to come: the
\* generation keeps its head.  The run follows it for as many connections as it has faults left.
NoJobs ==
    /\ At("tail") /\ Jobs(gens[Turn]) = {} /\ Fault /\ Disconnected

\* The rows are stored before the range that says so.
Read(f, a, z)       == {f} \X (a..z)
ReadShort(f, a, z)  == {f} \X (a..z-1)                               \* mutant: the range's last block is left out
Logs(f, a, z)       == Read(f, a, z)

TailChunk(f) ==
    /\ At("tail") /\ Planned(gens[Turn])
    /\ LET g == gens[Turn]
           z == Least(g.next[f] + Span - 1, g.head)
       IN  /\ f \in g.rid.members /\ g.next[f] <= g.head
           /\ stored' = stored \cup Logs(f, g.next[f], z)
           /\ latest' = Greatest(latest, z)
           /\ gens' = [gens EXCEPT ![Turn].next[f] = z + 1]
           /\ Goto(IF Whole(gens'[Turn]) THEN "tail" ELSE "end")
    /\ UNCHANGED <<head, proc, conn, here, acked, queue, publish, once, lcb, failed, known, cursor, sess, pin, doubt, faults>>

TailWaits ==
    /\ At("tail") /\ ~Whole(gens[Turn]) /\ Planned(gens[Turn]) /\ Fault /\ Goto("end")
    /\ UNCHANGED <<head, proc, conn, here, latest, acked, queue, publish, once, lcb, failed, ledger, proof, doubt>>

\* promote(): every filter of the stage in one transaction; an old generation is then complete.
Promote ==
    /\ At("tail") /\ Whole(gens[Turn]) /\ Planned(gens[Turn]) /\ Jobs(gens[Turn]) # {}
    /\ cursor' = [f \in Filters |-> IF f \in Jobs(gens[Turn])
                                    THEN Greatest(cursor[f], gens[Turn].head) ELSE cursor[f]]
    /\ IF Turn = Len(gens)
       THEN Goto("debts") /\ UNCHANGED gens
       ELSE Goto("tail") /\ gens' = [gens EXCEPT ![Turn].done = TRUE]
    /\ UNCHANGED <<head, proc, conn, here, latest, acked, queue, publish, once, lcb, failed, known, stored, sess, pin, doubt, faults>>

\* recover() closes what a complete stage covers; the record is written when nothing is left.
CoversLate(d) == \E i \in DOMAIN gens : LET g == gens[i] IN            \* mutant: wants a block more than was owed
    d.f \in g.rid.members /\ Whole(g) /\ Lower(d.f) <= d.first /\ d.last < g.head
Covers(d) == \E i \in DOMAIN gens : LET g == gens[i] IN
    d.f \in g.rid.members /\ Whole(g) /\ Lower(d.f) <= d.first /\ d.last <= g.head

\* The record is append-only: a second completion, which a filter without a job leads to, raises.
Complete ==
    /\ At("debts")
    /\ debts' = {d \in debts : ~Covers(d)}
    /\ IF debts' = {} /\ Newest.done
       THEN Blocked /\ UNCHANGED gens
       ELSE /\ gens' = IF debts' = {} THEN [gens EXCEPT ![Len(gens)].done = TRUE] ELSE gens
            /\ Goto("end") /\ UNCHANGED conn
    /\ UNCHANGED <<head, proc, here, latest, acked, queue, publish, once, lcb, failed, ledger, sess, pin, pend, faults>>

(***************************************************************************)
(* The specification.                                                      *)
(***************************************************************************)
Step ==
    \/ Start \/ Connect \/ Drain \/ Finalize
    \/ Noticed \/ WrongProcess \/ Capture \/ CreateFile \/ Fill \/ Publish \/ Mark \/ Adopt
    \/ Discover \/ (\E f \in Filters : Subscribe(f)) \/ Subscribed
    \/ Saved \/ PinHead \/ TakeHeader \/ Bind \/ NoAnchor
    \/ PlanConflict \/ (\E f \in Filters : TailChunk(f)) \/ Promote \/ Complete

ANext ==
    \/ Step \/ Mine \/ Break \/ Request \/ Crash \/ CallFailed
    \/ HeaderWaits \/ HeaderRefused \/ ReadyWaits \/ NoJobs \/ TailWaits

\* The worker's loop goes on, a closed socket is noticed, and systemd restarts the process.
ASpec == AInit /\ [][ANext]_avars /\ WF_avars(Step)

(***************************************************************************)
(* Properties.                                                             *)
(***************************************************************************)
Happened == {t \in Trades : Base[t[1]] <= t[2] /\ t[2] <= head}

\* current_health()
Healthy == conn = "up" /\ here /\ Evidence /\ ~failed /\ pend = {} /\ debts = {} /\ Open = {}

\* Blocks mined before f was acknowledged and above the head pinned after it: read by nobody,
\* announced to nobody.
Unseen(f) == Newest.head + 1 .. acked[f]

\* A healthy segment misses nothing of any target since its boundary: what came up to the pinned
\* head was read, what came after the acknowledgement was noticed, through every restart and
\* reconnection.  What lies between is never more than the endpoint trails the socket.
HealthyMeansWhole ==
    Healthy => \A f \in known :
        /\ Cardinality(Unseen(f)) <= HttpLag
        /\ \A b \in Blocks \ Unseen(f) :
              <<f, b>> \in Happened /\ b >= start => <<f, b>> \in stored \cup queue

\* The catalog never names a partition whose schema and ledger are not complete.
PublishedIsWhole == start # 0 => file = "filled"

\* A finished generation claims every filter from its bound to its pinned head.
Claimed == UNION {UNION {{f} \X (Lower(f)..gens[i].head) : f \in gens[i].rid.members} :
                  i \in {j \in DOMAIN gens : gens[j].done}}
Promise == INSTANCE CoveragePromise WITH happened <- Happened, claimed <- Claimed
KeepsPromise == Promise!Spec

\* A published segment with a target of its own is activated, unless it was blocked or a trailing
\* head was pinned below the bound of every filter: that generation fails every connection.
Jobless == \E i \in Open : Jobs(gens[i]) = {}
ActivationSettles ==
    (start # 0 /\ \E f \in Filters : Base[f] \in start..head) ~>
        (Healthy \/ conn = "blocked" \/ failed \/ Jobless)
=============================================================================
