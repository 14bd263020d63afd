------------------------ MODULE ProviderSwitchProofs ------------------------
(***************************************************************************)
(* Safety of ProviderSwitch for a chain of any length and any number of    *)
(* faults, and that it implements CoveragePromise.                         *)
(***************************************************************************)
EXTENDS ProviderSwitch, SequenceTheorems, FiniteSetTheorems, WellFoundedInduction, TLAPS

Jobs     == [first : Nat, next : Nat, last : Nat]
GapRows  == [first : Nat, from : Nat, open : BOOLEAN]
Switches == [state : States, by : {"none", "publicnode", "validation"}, bound : BOOLEAN,
             ready : BOOLEAN, head : Nat, from : Nat, filters : SUBSET Nat, gapIds : SUBSET Nat,
             wait : States \cup {"none"}, job : Jobs, superset : Jobs, failedAt : Nat]

Down    == {"start", "down", "backoff"}                        \* no connection
Proving == {"freeze", "chunk", "range", "close", "healthy"}    \* in prove_provider_switch
Phases  == Down \cup Proving \cup {"idle", "subscribe", "recover", "proof", "finish"}

(* What the rest of the invariant reads: every variable in its set. *)
Types ==
    /\ head \in 1..MaxBlock /\ link \in {"none", "up", "dead"} /\ queue \subseteq 1..head
    /\ pc \in Phases /\ ws \in {"publicnode", "validation"} /\ tries \in 0..1
    /\ conn \in BOOLEAN /\ subs \in BOOLEAN /\ pending \in BOOLEAN /\ active \in BOOLEAN
    /\ latest \in 0..head /\ upto \in Nat
    /\ cursor \in 1..head /\ covEnd \in 1..head /\ lcb \in 0..head
    /\ stored \subseteq 1..head
    /\ gaps \in Seq(GapRows)
    /\ \A g \in DOMAIN gaps : gaps[g].first \in 0..head /\ gaps[g].from \in 1..head
    /\ sw \in Seq(Switches)

(* The switch that is neither healthy nor superseded: only the last can be. *)
Last      == sw[Len(sw)]
Unsettled == sw # <<>> /\ Last.state # "HEALTHY"

(* The block up to which a switch is, or will be, proved; 0 before that is  *)
(* frozen.                                                                  *)
Reached(s) == IF s.head # 0 THEN s.head ELSE s.superset.last

(* What the record of a switch says of the store. *)
ProofInv(s) ==
    /\ s.filters \subseteq 1..cursor /\ s.gapIds \subseteq DOMAIN gaps
    /\ s.wait \notin Terminal \cup {"WAITING_FOR_BUDGET"} /\ (s.state = "WAITING_FOR_BUDGET" => s.wait # "none")
    /\ s.head = 0 => s.job = NoJob /\ s.from = 0
    /\ s.head # 0 =>
         /\ s.superset = NoJob /\ s.head <= head
         /\ s.from \in 1..cursor /\ s.job.first = s.from /\ s.job.last = s.head
         /\ s.job.next \in s.from..(s.head + 1) /\ s.from..(s.job.next - 1) \subseteq stored
    /\ s.superset # NoJob =>
         /\ s.state \in Terminal /\ s.filters # {}
         /\ s.superset.last \in 1..head /\ s.superset.next \in 1..(s.superset.last + 1)
         /\ 1..(s.superset.next - 1) \subseteq stored
    /\ s.state = "HEALTHY" /\ s.filters # {} =>
         /\ \/ s.head # 0 /\ s.job.next = s.head + 1
            \/ s.head = 0 /\ s.superset # NoJob /\ s.superset.next = s.superset.last + 1
         /\ s.gapIds \cap OpenGaps = {}

SwitchInv ==
    /\ \A i \in 1..Len(sw) : i # Len(sw) => sw[i].state = "HEALTHY"
    /\ \A i \in 1..Len(sw) : ProofInv(sw[i])

(* What the worker knows at each await of prove_provider_switch. *)
PhaseInv ==
    /\ IF pc \in Down THEN link = "none" /\ ~conn ELSE link # "none" /\ conn
    /\ subs => active /\ pc \notin {"start", "down"}
    /\ pc \notin Down /\ PendingIds # {} => Last.filters # {} /\ (active => Last.bound)
    /\ pc \in Proving => PendingIds # {} /\ (active => subs) /\ (pc = "freeze" <=> Last.head = 0)
                        /\ Last.state # "WAITING_FOR_BUDGET"
    /\ pc = "range" => upto \in Last.job.next..Last.head /\ Last.job.next..upto \subseteq stored
    /\ pc \in {"close", "healthy"} => Last.job.next = Last.head + 1
    /\ pc = "healthy" => Last.gapIds \cap OpenGaps = {}

Marked(ids, b) == \E g \in ids : gaps[g].from < b

(* Behind the cursor and behind the coverage mark: stored, or an open gap   *)
(* that begins before.  The mark does not move while a switch is unsettled, *)
(* so it never passes the boundary the switch is proved to.                 *)
MarkInv ==
    /\ 1..cursor \subseteq stored
    /\ \A b \in 1..covEnd : b \in stored \/ Marked(OpenGaps, b)
    /\ Unsettled /\ Reached(Last) # 0 => covEnd <= Reached(Last)

(* The open gaps that the proof under way will not close. *)
Separate == IF Unsettled /\ (Last.state = "FAILED" \/ Reached(Last) # 0)
            THEN OpenGaps \ Last.gapIds ELSE OpenGaps
Holes    == (1..head) \ (stored \cup queue)

(* A collector whose connection is not silently dead has an open gap before *)
(* every block it has neither stored nor been told of, and a gap besides    *)
(* those of the switch for what lies beyond the boundary; while blocks pass *)
(* it by, such a gap is open already.                                       *)
StreamInv ==
    active /\ pc # "start" =>
      /\ link # "dead" => \A b \in Holes : Marked(OpenGaps, b)
      /\ link # "dead" /\ Unsettled /\ Reached(Last) # 0 =>
           \A b \in Holes : b > Reached(Last) => Marked(Separate, b)
      /\ ~subs \/ link = "none" => Separate # {}
      /\ pc = "recover" /\ ~subs => \E g \in OpenGaps : gaps[g].first = 0

IInv == Types /\ SwitchInv /\ PhaseInv /\ MarkInv /\ StreamInv
------------------------------------------------------------------------------
(* Facts the steps share. *)

(* A nonempty set of blocks has a last one. *)
LEMMA GreatestExists ==
  ASSUME NEW n \in Nat, NEW S, S \subseteq 0..n, S # {}
  PROVE  \E b \in S : \A c \in S : c <= b
<1> DEFINE D == {n - b : b \in S}
<1>1. \A b \in S : b \in Int /\ n - b \in Nat
  OBVIOUS
<1>2. D \subseteq Nat /\ D # {}
  <2>1. D \subseteq Nat
    BY <1>1
  <2>2. PICK b \in S : TRUE
    OBVIOUS
  <2>3. n - b \in D
    BY <2>2
  <2> QED
    BY <2>1, <2>3
<1>3. \E x \in D : \A y \in D : ~(<<y, x>> \in OpToRel(<, Nat))
  BY <1>2, NatLessThanWellFounded, WFMin
<1>4. PICK b \in S : \A y \in D : ~(<<y, n - b>> \in OpToRel(<, Nat))
  BY <1>3
<1>5. \A c \in S : ~(n - c < n - b)
  BY <1>2, <1>4 DEF OpToRel
<1>6. \A c \in S : c <= b
  <2> SUFFICES ASSUME NEW c \in S PROVE c <= b
    OBVIOUS
  <2>1. b \in Int /\ c \in Int /\ ~(n - c < n - b)
    BY <1>1, <1>5
  <2> QED
    BY <2>1
<1> QED
  BY <1>6

(* Storing a set of blocks moves latest_block to the last of them at most. *)
LEMMA IngestFacts ==
  ASSUME Types, NEW T, T \subseteq 1..head, Ingest(T)
  PROVE  /\ stored' = stored \cup T /\ stored' \subseteq 1..head /\ latest' \in 0..head
<1>1. stored' = stored \cup T
  BY DEF Ingest
<1>2. head \in Nat /\ latest \in 0..head /\ stored \subseteq 1..head
  BY BoundsAssumption DEF Types
<1>3. CASE T = {}
  BY <1>1, <1>2, <1>3 DEF Ingest
<1>4. CASE T # {}
  <2> DEFINE top == CHOOSE b \in T : \A c \in T : c <= b
  <2>1. T \subseteq 0..head
    BY <1>2
  <2>2. \E b \in T : \A c \in T : c <= b
    BY <1>2, <1>4, <2>1, GreatestExists
  <2>3. top \in T
    BY <2>2
  <2>4. latest' = Greatest(latest, top)
    BY <1>4 DEF Ingest
  <2> HIDE DEF top
  <2>5. top \in 0..head
    BY <2>1, <2>3
  <2>6. Greatest(latest, top) \in 0..head
    BY <1>2, <2>5 DEF Greatest
  <2> QED
    BY <1>1, <1>2, <2>4, <2>6
<1> QED
  BY <1>3, <1>4

(* One more gap row: open, of the right type, and the rows before it unchanged. *)
LEMMA GapAppended ==
  ASSUME Types, NEW f \in 0..head, NEW b \in 1..head, gaps' = Append(gaps, Gap(f, b))
  PROVE  /\ gaps' \in Seq(GapRows) /\ Len(gaps') = Len(gaps) + 1
         /\ \A g \in DOMAIN gaps' : gaps'[g].first \in 0..head /\ gaps'[g].from \in 1..head
         /\ DOMAIN gaps' = DOMAIN gaps \cup {Len(gaps) + 1}
         /\ Len(gaps) + 1 \notin DOMAIN gaps
         /\ \A g \in DOMAIN gaps : gaps'[g] = gaps[g]
         /\ gaps'[Len(gaps) + 1].from = b
         /\ OpenGaps' = OpenGaps \cup {Len(gaps) + 1}
<1>1. gaps \in Seq(GapRows) /\ Gap(f, b) \in GapRows
  BY BoundsAssumption DEF Types, Gap, GapRows
<1>2. /\ gaps' \in Seq(GapRows) /\ Len(gaps') = Len(gaps) + 1
      /\ \A i \in 1..Len(gaps) : gaps'[i] = gaps[i]
      /\ gaps'[Len(gaps) + 1] = Gap(f, b)
  BY <1>1, AppendProperties
<1>3. DOMAIN gaps = 1..Len(gaps) /\ DOMAIN gaps' = 1..(Len(gaps) + 1) /\ Len(gaps) \in Nat
  BY <1>1, <1>2, LenProperties
<1>4. gaps'[Len(gaps) + 1].from = b /\ gaps'[Len(gaps) + 1].first = f /\ gaps'[Len(gaps) + 1].open
  BY <1>2 DEF Gap
<1>5. DOMAIN gaps' = DOMAIN gaps \cup {Len(gaps) + 1} /\ Len(gaps) + 1 \notin DOMAIN gaps
  BY <1>3
<1>6. OpenGaps' = OpenGaps \cup {Len(gaps) + 1}
  BY <1>2, <1>3, <1>4, <1>5 DEF OpenGaps
<1>7. \A g \in DOMAIN gaps' : gaps'[g].first \in 0..head /\ gaps'[g].from \in 1..head
  BY <1>2, <1>3, <1>4, <1>5 DEF Types
<1> QED
  BY <1>2, <1>3, <1>4, <1>5, <1>6, <1>7

(* Closing gaps takes them out of the open ones and changes nothing else. *)
LEMMA GapsClosed ==
  ASSUME Types, NEW ids, gaps' = Closed(ids)
  PROVE  /\ gaps' \in Seq(GapRows) /\ DOMAIN gaps' = DOMAIN gaps
         /\ \A g \in DOMAIN gaps : gaps'[g].first = gaps[g].first /\ gaps'[g].from = gaps[g].from
         /\ OpenGaps' = OpenGaps \ ids
<1>1. gaps \in Seq(GapRows) /\ DOMAIN gaps = 1..Len(gaps) /\ Len(gaps) \in Nat
  BY LenProperties DEF Types
<1>2. \A g \in DOMAIN gaps : gaps[g] \in GapRows
  BY <1>1, ElementOfSeq
<1>3. DOMAIN gaps' = DOMAIN gaps
  BY DEF Closed
<1>4. \A g \in DOMAIN gaps : gaps'[g] = [gaps[g] EXCEPT !.open = @ /\ g \notin ids]
  BY DEF Closed
<1>5. \A g \in DOMAIN gaps : /\ gaps'[g].first = gaps[g].first /\ gaps'[g].from = gaps[g].from
                             /\ gaps'[g].open = (gaps[g].open /\ g \notin ids)
                             /\ gaps'[g] \in GapRows
  BY <1>2, <1>4 DEF GapRows
<1>6. gaps' \in Seq(GapRows)
  <2>1. gaps' \in [1..Len(gaps) -> GapRows]
    BY <1>1, <1>3, <1>5 DEF Closed
  <2> QED
    BY <1>1, <2>1
<1>7. OpenGaps' = OpenGaps \ ids
  BY <1>3, <1>5 DEF OpenGaps
<1> QED
  BY <1>3, <1>5, <1>6, <1>7

(* The last switch is the only one that can be pending or failed. *)
LEMMA LastFacts ==
  ASSUME Types, SwitchInv
  PROVE  /\ sw # <<>> => Len(sw) \in DOMAIN sw /\ Last \in Switches /\ Len(sw) >= 1
         /\ PendingIds \subseteq {Len(sw)}
         /\ PendingIds # {} <=> Unsettled /\ Last.state # "FAILED"
         /\ PendingIds # {} => Cur = Len(sw) /\ Unsettled
         /\ Blocked <=> Unsettled /\ Last.state = "FAILED"
         /\ Blocking <=> Unsettled
<1>1. sw \in Seq(Switches) /\ DOMAIN sw = 1..Len(sw) /\ Len(sw) \in Nat
  BY LenProperties DEF Types
<1>2. sw # <<>> => Len(sw) \in DOMAIN sw /\ Last \in Switches /\ Len(sw) >= 1
  BY <1>1, EmptySeq, ElementOfSeq DEF Last
<1>3. \A i \in DOMAIN sw : sw[i].state # "HEALTHY" => i = Len(sw)
  BY <1>1 DEF SwitchInv
<1>4. PendingIds \subseteq {Len(sw)}
  BY <1>3 DEF PendingIds, Terminal
<1>5. PendingIds # {} <=> Unsettled /\ Last.state # "FAILED"
  BY <1>1, <1>2, <1>3 DEF PendingIds, Terminal, Unsettled, Last
<1>6. PendingIds # {} => Cur = Len(sw)
  BY <1>4 DEF Cur
<1>7. Blocked <=> Unsettled /\ Last.state = "FAILED"
  BY <1>1, <1>2, <1>3 DEF Blocked, Unsettled, Last
<1> QED
  BY <1>2, <1>4, <1>5, <1>6, <1>7 DEF Blocking

(* Time only adds to what the record of a switch rests on. *)
Grows ==
    /\ head' \in Nat /\ head <= head' /\ cursor' \in Nat /\ cursor <= cursor'
    /\ stored \subseteq stored' /\ DOMAIN gaps \subseteq DOMAIN gaps'
    /\ OpenGaps' \cap DOMAIN gaps \subseteq OpenGaps

(* What a record says of the store survives any step that only adds to the store. *)
LEMMA ProofKept ==
  ASSUME Types, Grows, NEW s \in Switches, ProofInv(s)
  PROVE  ProofInv(s)'
<1>1. /\ head \in Nat /\ cursor \in Nat /\ s.filters \subseteq Nat /\ s.head \in Nat
      /\ s.from \in Nat /\ s.superset.last \in Nat
  <2>1. head \in Nat /\ cursor \in Nat
    BY BoundsAssumption DEF Types
  <2>2. s.filters \subseteq Nat /\ s.head \in Nat /\ s.from \in Nat /\ s.superset.last \in Nat
    BY DEF Switches, Jobs
  <2> QED
    BY <2>1, <2>2
<1>2. s.filters \subseteq 1..cursor' /\ s.gapIds \subseteq DOMAIN gaps'
  BY <1>1 DEF Grows, ProofInv
<1>3. s.head # 0 => s.head <= head' /\ s.from \in 1..cursor'
  BY <1>1 DEF Grows, ProofInv
<1>4. s.superset # NoJob => s.superset.last \in 1..head'
  BY <1>1 DEF Grows, ProofInv
<1>5. s.gapIds \cap OpenGaps = {} => s.gapIds \cap OpenGaps' = {}
  BY DEF Grows, ProofInv
<1> QED
  BY <1>2, <1>3, <1>4, <1>5 DEF Grows, ProofInv

(* A step that leaves the switches alone. *)
LEMMA SwitchesKept ==
  ASSUME Types, SwitchInv, Grows, sw' = sw
  PROVE  /\ SwitchInv' /\ Last' = Last /\ (Unsettled' <=> Unsettled)
         /\ PendingIds' = PendingIds /\ (Blocking' <=> Blocking)
<1>1. \A i \in 1..Len(sw) : sw[i] \in Switches
  BY ElementOfSeq DEF Types
<1>2. \A i \in 1..Len(sw) : ProofInv(sw[i])'
  <2> SUFFICES ASSUME NEW i \in 1..Len(sw) PROVE ProofInv(sw[i])'
    OBVIOUS
  <2>1. PICK s \in Switches : s = sw[i]
    BY <1>1
  <2>2. ProofInv(s)'
    BY <2>1, ProofKept DEF SwitchInv
  <2>3. sw'[i] = s
    BY <2>1
  <2> QED
    BY <2>2, <2>3 DEF ProofInv
<1>3. SwitchInv'
  BY <1>2 DEF SwitchInv
<1> QED
  BY <1>3 DEF Last, Unsettled, PendingIds, Blocking, Blocked

(* A step that replaces the record of the last switch. *)
LEMMA LastReplaced ==
  ASSUME Types, SwitchInv, Grows, sw # <<>>, NEW r \in Switches, ProofInv(r)',
         sw' = [sw EXCEPT ![Len(sw)] = r]
  PROVE  /\ sw' \in Seq(Switches) /\ Len(sw') = Len(sw) /\ sw' # <<>>
         /\ SwitchInv' /\ Last' = r /\ (Unsettled' <=> r.state # "HEALTHY")
         /\ PendingIds' # {} <=> r.state \notin Terminal
<1>1. sw \in Seq(Switches) /\ Len(sw) \in DOMAIN sw /\ Len(sw) \in Nat /\ DOMAIN sw = 1..Len(sw)
  BY LastFacts, LenProperties DEF Types
<1>2. sw' \in Seq(Switches) /\ Len(sw') = Len(sw)
  BY <1>1, ExceptSeq
<1>3. sw'[Len(sw)] = r /\ \A i \in 1..Len(sw) : i # Len(sw) => sw'[i] = sw[i]
  BY <1>1
<1>4. Last' = r /\ sw' # <<>> /\ DOMAIN sw' = DOMAIN sw
  <2>1. DOMAIN sw' = DOMAIN sw
    BY <1>1
  <2>2. sw' # <<>>
    BY <1>1, <1>2, EmptySeq
  <2> QED
    BY <1>2, <1>3, <2>1, <2>2 DEF Last
<1>5. \A i \in 1..Len(sw) : ProofInv(sw[i])'
  <2> SUFFICES ASSUME NEW i \in 1..Len(sw) PROVE ProofInv(sw[i])'
    OBVIOUS
  <2>1. CASE i = Len(sw)
    BY <1>3, <2>1 DEF ProofInv
  <2>2. CASE i # Len(sw)
    <3>1. PICK s \in Switches : s = sw[i]
      BY <1>1, ElementOfSeq
    <3>2. ProofInv(s)'
      BY <3>1, ProofKept DEF SwitchInv
    <3>3. sw'[i] = s
      BY <1>3, <2>2, <3>1
    <3> QED
      BY <3>2, <3>3 DEF ProofInv
  <2> QED
    BY <2>1, <2>2
<1>6. SwitchInv'
  BY <1>2, <1>3, <1>5 DEF SwitchInv
<1>7. \A i \in DOMAIN sw' : i # Len(sw) => sw'[i].state = "HEALTHY"
  BY <1>1, <1>3, <1>4 DEF SwitchInv
<1>8. PendingIds' # {} <=> r.state \notin Terminal
  BY <1>1, <1>3, <1>4, <1>7 DEF PendingIds, Terminal
<1> QED
  BY <1>2, <1>4, <1>6, <1>8 DEF Unsettled

(* Initially. *)
LEMMA InitInvariant == Init => IInv
<1> SUFFICES ASSUME Init PROVE IInv
  OBVIOUS
<1>1. sw = <<>> /\ gaps = <<>> /\ Len(sw) = 0 /\ Len(gaps) = 0 /\ PendingIds = {} /\ ~Unsettled
  BY EmptySeq DEF Init, PendingIds, Unsettled
<1>2. Types
  <2>1. gaps \in Seq(GapRows) /\ sw \in Seq(Switches) /\ DOMAIN gaps = {}
    BY <1>1
  <2>2. MaxBlock \in Nat \ {0}
    BY BoundsAssumption
  <2>3. /\ head = 1 /\ link = "none" /\ queue = {} /\ pc = "start" /\ ws = "publicnode"
        /\ tries = 0 /\ conn = FALSE /\ subs = FALSE /\ pending = FALSE /\ active = TRUE
        /\ latest = 0 /\ upto = 0 /\ cursor = 1 /\ covEnd = 1 /\ lcb = 1 /\ stored = {1}
    BY DEF Init
  <2>4. /\ head \in 1..MaxBlock /\ latest \in 0..head /\ cursor \in 1..head
        /\ covEnd \in 1..head /\ lcb \in 0..head /\ stored \subseteq 1..head
    BY <2>2, <2>3
  <2>5. \A g \in DOMAIN gaps : gaps[g].first \in 0..head /\ gaps[g].from \in 1..head
    BY <2>1
  <2> QED
    BY <2>1, <2>3, <2>4, <2>5 DEF Types, Phases, Down
<1>3. SwitchInv
  BY <1>1 DEF SwitchInv
<1>4. PhaseInv
  BY <1>1 DEF Init, PhaseInv, Down, Proving
<1>5. MarkInv
  BY <1>1 DEF Init, MarkInv
<1>6. StreamInv
  BY DEF Init, StreamInv
<1> QED
  BY <1>2, <1>3, <1>4, <1>5, <1>6 DEF IInv

------------------------------------------------------------------------------
(* The steps that leave the switches alone.  Those that leave the gaps      *)
(* alone too, and lose nothing, keep what the stream knows.                 *)

(* A step that leaves the gaps alone only adds to the store. *)
LEMMA GrowsQuietly ==
  ASSUME Types, Types', head <= head', cursor <= cursor', stored \subseteq stored', gaps' = gaps
  PROVE  Grows
BY BoundsAssumption DEF Types, Grows, OpenGaps

(* What an action that changes none of these needs to know. *)
LEMMA MarkKept ==
  ASSUME Types, SwitchInv, MarkInv, Grows, sw' = sw, gaps' = gaps, cursor' = cursor, covEnd' = covEnd
  PROVE  MarkInv'
<1>1. Last' = Last /\ (Unsettled' <=> Unsettled)
  BY SwitchesKept
<1>2. OpenGaps' = OpenGaps
  BY DEF OpenGaps
<1> QED
  BY <1>1, <1>2 DEF MarkInv, Marked, Reached, Grows

(* A block: the live stream queues it, or a gap is open already. *)
LEMMA MineStep ==
  ASSUME IInv, Mine
  PROVE  IInv'
<1> USE DEF IInv
<1>1. /\ head \in Nat /\ head < MaxBlock /\ head' = head + 1 /\ MaxBlock \in Nat
      /\ queue \subseteq queue' /\ queue' \subseteq queue \cup {head'}
      /\ (link = "up" /\ subs => head' \in queue')
      /\ UNCHANGED <<link, work, route, subs, pending, latest, target, stored, gaps, marker, sw>>
  BY BoundsAssumption DEF Mine, Types
<1>2. Types'
  BY <1>1 DEF Types, work, route, target
<1>3. Grows
  BY <1>1, <1>2, GrowsQuietly DEF Types, target
<1>4. SwitchInv' /\ Last' = Last /\ (Unsettled' <=> Unsettled) /\ PendingIds' = PendingIds
  BY <1>1, <1>3, SwitchesKept
<1>5. OpenGaps' = OpenGaps /\ Separate' = Separate
  BY <1>1, <1>4 DEF OpenGaps, Separate, Reached
<1>6. PhaseInv'
  BY <1>1, <1>4, <1>5 DEF PhaseInv, work, route, target
<1>7. MarkInv'
  BY <1>1, <1>3, MarkKept DEF target
<1>8. StreamInv'
  <2> SUFFICES ASSUME active, pc # "start"
               PROVE  /\ link # "dead" => \A b \in Holes' : Marked(OpenGaps, b)
                      /\ link # "dead" /\ Unsettled /\ Reached(Last) # 0 =>
                           \A b \in Holes' : b > Reached(Last) => Marked(Separate, b)
    BY <1>1, <1>4, <1>5 DEF StreamInv, Marked, Reached, work, target
  <2>1. \A b \in Holes' : b \in Holes \/ (b = head' /\ ~(link = "up" /\ subs))
    BY <1>1 DEF Holes
  <2>2. Separate # {} => Marked(Separate, head')
    <3>1. \A g \in Separate : g \in DOMAIN gaps
      BY DEF Separate, OpenGaps
    <3>2. \A g \in Separate : gaps[g].from < head'
      BY <1>1, <3>1 DEF Types
    <3> QED
      BY <3>2 DEF Marked
  <2>3. \A b : Marked(Separate, b) => Marked(OpenGaps, b)
    BY DEF Separate, Marked
  <2>4. CASE link = "dead"
    BY <2>4
  <2>5. CASE link # "dead"
    <3>1. ~(link = "up" /\ subs) => Marked(Separate, head')
      BY <2>2, <2>5 DEF StreamInv, Types
    <3> QED
      BY <2>1, <2>3, <2>5, <3>1 DEF StreamInv
  <2> QED
    BY <2>4, <2>5
<1> QED
  BY <1>2, <1>4, <1>6, <1>7, <1>8

(* Nothing is lost and no gap moves: what the stream knows, it still knows. *)
LEMMA QuietStep ==
  ASSUME IInv, Types', PhaseInv', MarkInv', sw' = sw, gaps' = gaps, head' = head,
         cursor <= cursor', stored \subseteq stored', Holes' \subseteq Holes,
         link' # "dead" => link # "dead", active' => active /\ pc # "start",
         active' /\ (~subs' \/ link' = "none") => ~subs \/ link = "none",
         active' /\ pc' = "recover" => subs'
  PROVE  IInv'
<1> USE DEF IInv
<1>1. head <= head'
  BY BoundsAssumption DEF Types
<1>2. Grows
  BY <1>1, GrowsQuietly
<1>3. SwitchInv' /\ Last' = Last /\ (Unsettled' <=> Unsettled)
  BY <1>2, SwitchesKept
<1>4. OpenGaps' = OpenGaps /\ Separate' = Separate
  BY <1>3 DEF OpenGaps, Separate, Reached
<1>5. StreamInv'
  BY <1>3, <1>4 DEF StreamInv, Marked, Reached
<1> QED
  BY <1>3, <1>5

(* The socket dies, and only that is known. *)
LEMMA LinkDiesStep ==
  ASSUME IInv, LinkDies
  PROVE  IInv'
<1> USE DEF IInv, LinkDies, work, route, target
<1>1. Types'
  BY DEF Types
<1>2. PendingIds' = PendingIds /\ Last' = Last /\ OpenGaps' = OpenGaps
  BY DEF PendingIds, Last, OpenGaps
<1>3. PhaseInv'
  BY <1>2 DEF PhaseInv, Types
<1>4. Grows
  BY <1>1, GrowsQuietly DEF Types
<1>5. MarkInv'
  BY <1>4, MarkKept
<1>6. Holes' = Holes
  BY DEF Holes
<1>7. pc \notin Down
  BY DEF PhaseInv
<1> QED
  BY <1>1, <1>3, <1>5, <1>6, <1>7, QuietStep DEF Types, Down, Awaiting

(* The queue is stored: Backoff, Tick and Drain. *)
LEMMA QueueStored ==
  ASSUME IInv, Ingest(queue), queue' = {}, UNCHANGED <<head, gaps, sw, cursor, covEnd>>
  PROVE  /\ stored \subseteq stored' /\ stored' \subseteq 1..head /\ latest' \in 0..head
         /\ Holes' \subseteq Holes /\ MarkInv'
<1> USE DEF IInv
<1>1. queue \subseteq 1..head
  BY DEF Types
<1>2. stored' = stored \cup queue /\ stored' \subseteq 1..head /\ latest' \in 0..head
  BY <1>1, IngestFacts
<1>3. Holes' \subseteq Holes
  BY <1>2 DEF Holes
<1>4. Grows
  BY <1>2, BoundsAssumption DEF Grows, Types, OpenGaps
<1> QED
  BY <1>2, <1>3, <1>4, MarkKept

(* What the queue held is stored before the mark may move. *)
LEMMA DrainStep ==
  ASSUME IInv, Backoff \/ Tick \/ Drain
  PROVE  IInv'
<1> USE DEF IInv
<1>1. /\ Ingest(queue) /\ queue' = {}
      /\ UNCHANGED <<head, link, upto, ws, tries, conn, pending, target, gaps, sw>>
      /\ \/ pc = "backoff" /\ pc' = "down" /\ subs' = FALSE
         \/ pc = "idle" /\ pc' = "subscribe" /\ subs' = subs
         \/ pc = "finish" /\ pc' = "finish" /\ subs' = subs
  BY DEF Backoff, Tick, Drain, route, work
<1>2. /\ stored \subseteq stored' /\ stored' \subseteq 1..head /\ latest' \in 0..head
      /\ Holes' \subseteq Holes /\ MarkInv'
  BY <1>1, QueueStored DEF target
<1>3. Types'
  BY <1>1, <1>2 DEF Types, target, Phases, Down
<1>4. PendingIds' = PendingIds /\ Last' = Last /\ OpenGaps' = OpenGaps
  BY <1>1 DEF PendingIds, Last, OpenGaps
<1>5. PhaseInv'
  BY <1>1, <1>4 DEF PhaseInv, target, Down, Proving
<1>6. cursor <= cursor'
  BY <1>1 DEF target, Types
<1>7. ~subs' \/ link' = "none" => ~subs \/ link = "none"
  BY <1>1 DEF PhaseInv, Down
<1> QED
  BY <1>1, <1>2, <1>3, <1>5, <1>6, <1>7, QuietStep DEF target

(* Steps of a tick that store nothing: each changes the phase and little    *)
(* besides.                                                                 *)
LEMMA TickStep ==
  ASSUME IInv, Expire \/ Subscribe \/ SkipRecovery \/ NoSwitch \/ StillWaiting \/ ProveFails
  PROVE  IInv'
<1> USE DEF IInv
<1>1. UNCHANGED <<head, link, queue, upto, ws, tries, conn, latest, cursor, covEnd, lcb, stored, gaps, sw>>
  BY DEF Expire, Subscribe, SkipRecovery, NoSwitch, StillWaiting, ProveFails, socket, route,
         work, target
<1>2. \/ pc = "subscribe" /\ pc' = "subscribe" /\ active' = FALSE /\ subs' = FALSE
         /\ pending' = FALSE
      \/ pc = "subscribe" /\ pc' = "recover" /\ active' = active /\ subs' = active'
         /\ pending' \in BOOLEAN
      \/ pc = "recover" /\ pc' = "proof" /\ active' = active /\ subs' = subs
         /\ pending' \in BOOLEAN
      \/ pc \in {"proof", "chunk"} /\ pc' = "finish"
         /\ UNCHANGED <<active, subs, pending>>
  BY DEF Types, Expire, Subscribe, SkipRecovery, NoSwitch, StillWaiting, ProveFails, work,
         target
<1>3. Types'
  BY <1>1, <1>2 DEF Types, Phases, Down
<1>4. PendingIds' = PendingIds /\ Last' = Last /\ OpenGaps' = OpenGaps
  BY <1>1 DEF PendingIds, Last, OpenGaps
<1>5. PhaseInv'
  BY <1>1, <1>2, <1>4 DEF PhaseInv, Types, Down, Proving
<1>6. Grows
  BY <1>1, <1>3, GrowsQuietly DEF Types
<1>7. MarkInv'
  BY <1>1, <1>6, MarkKept
<1>8. Holes' = Holes
  BY <1>1 DEF Holes
<1>9. cursor <= cursor'
  BY <1>1 DEF Types
<1>10. active' => active /\ pc # "start" /\ (~subs' \/ link' = "none" => ~subs \/ link = "none")
  BY <1>1, <1>2 DEF PhaseInv, Down, Types
<1>11. active' /\ pc' = "recover" => subs'
  BY <1>2, <1>3 DEF Types
<1> QED
  BY <1>1, <1>3, <1>5, <1>7, <1>8, <1>9, <1>10, <1>11, QuietStep

------------------------------------------------------------------------------
(* Steps that open or close gaps, or move a cursor or the mark.             *)

(* A gap row more withdraws claims and excuses no block fewer. *)
LEMMA GapRecorded ==
  ASSUME IInv, NEW f \in 0..head, NEW b \in 1..head, gaps' = Append(gaps, Gap(f, b)),
         UNCHANGED <<head, cursor, stored>>
  PROVE  /\ Grows /\ OpenGaps \subseteq OpenGaps' /\ Len(gaps) + 1 \in OpenGaps'
         /\ Len(gaps) + 1 \notin DOMAIN gaps
         /\ \A c : Marked(OpenGaps, c) => Marked(OpenGaps, c)'
<1>1. /\ Len(gaps) + 1 \notin DOMAIN gaps /\ OpenGaps' = OpenGaps \cup {Len(gaps) + 1}
      /\ DOMAIN gaps' = DOMAIN gaps \cup {Len(gaps) + 1}
      /\ \A g \in DOMAIN gaps : gaps'[g] = gaps[g]
  BY GapAppended DEF IInv
<1>2. OpenGaps \subseteq DOMAIN gaps
  BY DEF OpenGaps
<1>3. Grows
  BY <1>1, <1>2, BoundsAssumption DEF Grows, IInv, Types
<1>4. \A c : Marked(OpenGaps, c) => Marked(OpenGaps, c)'
  BY <1>1, <1>2 DEF Marked
<1> QED
  BY <1>1, <1>3, <1>4

(* A gap dated from the coverage mark, and not one a switch will close,     *)
(* precedes all that may be missing.                                        *)
LEMMA OutageRecorded ==
  ASSUME IInv, NEW f \in 0..head, gaps' = Append(gaps, Gap(f, covEnd)),
         UNCHANGED <<head, queue, stored, cursor, covEnd>>,
         Len(gaps) + 1 \in Separate', pc' = "recover" => f = 0,
         Unsettled' /\ Reached(Last)' # 0 => Reached(Last)' \in Nat /\ covEnd <= Reached(Last)'
  PROVE  MarkInv' /\ StreamInv'
<1> DEFINE n == Len(gaps) + 1
<1> USE DEF IInv
<1>1. covEnd \in 1..head /\ covEnd \in Nat /\ head \in Nat
  BY BoundsAssumption DEF Types
<1>2. /\ n \in OpenGaps' /\ gaps'[n].from = covEnd /\ gaps'[n].first = f
      /\ \A c : Marked(OpenGaps, c) => Marked(OpenGaps, c)'
  <2>1. gaps'[n] = Gap(f, covEnd)
    BY <1>1, AppendProperties, BoundsAssumption DEF Types, Gap, GapRows
  <2> QED
    BY <1>1, <2>1, GapRecorded DEF Gap
<1> HIDE DEF n
<1>3. MarkInv'
  BY <1>2 DEF MarkInv
<1>4. \A c \in 1..head : c > covEnd => Marked(Separate, c)' /\ Marked(OpenGaps, c)'
  BY <1>1, <1>2 DEF Marked, n
<1>5. \A c \in Holes' : Marked(OpenGaps, c)'
  BY <1>1, <1>2, <1>4 DEF MarkInv, Holes
<1>6. Unsettled' /\ Reached(Last)' # 0 => \A c \in Holes' : c > Reached(Last)' => Marked(Separate, c)'
  <2>1. Unsettled' /\ Reached(Last)' # 0 => \A c \in Holes' : c > Reached(Last)' => c > covEnd
    <3> SUFFICES ASSUME Unsettled', Reached(Last)' # 0, NEW c \in Holes', c > Reached(Last)'
                 PROVE  c > covEnd
      OBVIOUS
    <3>1. c \in Nat
      BY <1>1 DEF Holes
    <3> QED
      BY <1>1, <3>1
  <2> QED
    BY <1>4, <2>1 DEF Holes
<1>7. Separate' # {} /\ (pc' = "recover" => \E g \in OpenGaps' : gaps'[g].first = 0)
  BY <1>2
<1>8. StreamInv'
  BY <1>5, <1>6, <1>7 DEF StreamInv
<1> QED
  BY <1>3, <1>8

(* The switch that is not settled is proved to a block of the chain, and    *)
(* its gaps are in the ledger.                                              *)
LEMMA LastReaches ==
  ASSUME Types, SwitchInv, sw # <<>>
  PROVE  /\ Last \in Switches /\ ProofInv(Last) /\ Reached(Last) \in 0..head
         /\ Last.gapIds \subseteq DOMAIN gaps
<1>1. Len(sw) \in 1..Len(sw) /\ Last \in Switches
  BY LastFacts, LenProperties DEF Types
<1>2. ProofInv(Last)
  BY <1>1 DEF SwitchInv, Last
<1>3. Last.head \in Nat /\ head \in Nat /\ Last.superset.last \in Nat
  <2>1. \A s \in Switches : s.head \in Nat /\ s.superset.last \in Nat
    BY DEF Switches, Jobs
  <2>2. head \in Nat
    BY BoundsAssumption DEF Types
  <2> QED
    BY <1>1, <2>1, <2>2
<1>4. Reached(Last) \in 0..head
  BY <1>2, <1>3 DEF ProofInv, Reached, NoJob
<1> QED
  BY <1>1, <1>2, <1>4 DEF ProofInv

(* A restart, or a refused subscription, while the switches stay as they    *)
(* are.                                                                     *)
LEMMA GapStep ==
  ASSUME IInv, Start \/ SubscribeRefused
  PROVE  IInv'
<1> USE DEF IInv
<1>1. CASE Start /\ ~active
  <2>1. /\ pc = "start" /\ pc' = "down"
        /\ UNCHANGED <<head, socket, upto, route, subs, pending, latest, target, stored, gaps, sw>>
    BY <1>1 DEF Start, StartUncertain
  <2>2. Types'
    BY <2>1 DEF Types, Phases, Down, socket, route, target
  <2>3. PhaseInv'
    BY <2>1 DEF PhaseInv, PendingIds, Last, OpenGaps, Down, Proving, socket, route, target
  <2>4. Grows
    BY <2>1, <2>2, GrowsQuietly DEF Types, target
  <2>5. MarkInv'
    BY <2>1, <2>4, MarkKept DEF target
  <2>6. Holes' = Holes /\ ~active' /\ cursor <= cursor'
    BY <1>1, <2>1 DEF Holes, target, socket, Types
  <2> QED
    BY <2>1, <2>2, <2>3, <2>5, <2>6, QuietStep DEF socket
<1>2. CASE active /\ (Start \/ SubscribeRefused)
  <2>1. PICK f \in 0..head : gaps' = Append(gaps, Gap(f, covEnd)) /\ (pc' = "recover" => f = 0)
    <3>1. lcb \in 0..head /\ 0 \in 0..head
      BY BoundsAssumption DEF Types
    <3>2. CASE Start
      BY <1>2, <3>1, <3>2 DEF Start, StartUncertain, OutageGap
    <3>3. CASE SubscribeRefused
      BY <3>1, <3>3 DEF SubscribeRefused
    <3> QED
      BY <1>2, <3>2, <3>3
  <2>2. /\ UNCHANGED <<head, socket, upto, route, subs, pending, latest, target, stored, sw>>
        /\ \/ pc = "start" /\ pc' = "down"
           \/ pc = "subscribe" /\ pc' = "recover"
    BY <1>2 DEF Start, SubscribeRefused
  <2>3. Types'
    <3>1. covEnd \in 1..head
      BY DEF Types
    <3>2. /\ gaps' \in Seq(GapRows)
          /\ \A g \in DOMAIN gaps' : gaps'[g].first \in 0..head /\ gaps'[g].from \in 1..head
      BY <2>1, <3>1, GapAppended
    <3> QED
      BY <2>2, <3>2 DEF Types, Phases, Down, socket, route, target
  <2>4. /\ Grows /\ OpenGaps \subseteq OpenGaps' /\ Len(gaps) + 1 \in OpenGaps'
        /\ Len(gaps) + 1 \notin DOMAIN gaps
    BY <2>1, <2>2, GapRecorded DEF Types, target
  <2>5. SwitchInv' /\ Last' = Last /\ (Unsettled' <=> Unsettled) /\ PendingIds' = PendingIds
    BY <2>2, <2>4, SwitchesKept
  <2>6. PhaseInv'
    BY <2>2, <2>5 DEF PhaseInv, Down, Proving, socket, route, target
  <2>7. Unsettled' => sw # <<>> /\ Reached(Last)' = Reached(Last) /\ Reached(Last) \in Nat
    BY <2>5, LastReaches, BoundsAssumption DEF Unsettled, Reached, Types
  <2>8. Len(gaps) + 1 \in Separate'
    BY <2>4, <2>5, <2>7, LastReaches DEF Separate
  <2>9. MarkInv' /\ StreamInv'
    <3>1. Unsettled' /\ Reached(Last)' # 0 => Reached(Last)' \in Nat /\ covEnd <= Reached(Last)'
      BY <2>5, <2>7 DEF MarkInv
    <3> QED
      BY <2>1, <2>2, <2>8, <3>1, OutageRecorded DEF target, socket
  <2> QED
    BY <2>3, <2>5, <2>6, <2>9
<1>3. SubscribeRefused => active
  BY DEF SubscribeRefused
<1> QED
  BY <1>1, <1>2, <1>3

(* What prove_provider_switch works on. *)
LEMMA ProvingFacts ==
  ASSUME IInv, pc \in Proving
  PROVE  /\ PendingIds # {} /\ Cur = Len(sw) /\ sw # <<>> /\ sw[Cur] = Last
         /\ Last \in Switches /\ ProofInv(Last) /\ Last.state \notin Terminal
         /\ Unsettled /\ Last.superset = NoJob /\ Last.filters # {}
         /\ (active => subs) /\ link # "none" /\ conn /\ (pc = "freeze" <=> Last.head = 0)
         /\ Separate = IF Last.head # 0 THEN OpenGaps \ Last.gapIds ELSE OpenGaps
<1> USE DEF IInv
<1>1. /\ PendingIds # {} /\ (active => subs) /\ (pc = "freeze" <=> Last.head = 0)
      /\ pc \notin Down /\ link # "none" /\ conn /\ Last.filters # {}
  BY DEF PhaseInv, Proving, Down
<1>2. Cur = Len(sw) /\ Unsettled /\ Last.state # "FAILED"
  BY <1>1, LastFacts
<1>3. sw # <<>> /\ sw[Cur] = Last /\ Last.state \notin Terminal
  BY <1>2 DEF Unsettled, Last, Terminal
<1>4. Last \in Switches /\ ProofInv(Last)
  BY <1>3, LastReaches
<1>5. Last.superset = NoJob
  BY <1>3, <1>4 DEF ProofInv
<1>6. Separate = IF Last.head # 0 THEN OpenGaps \ Last.gapIds ELSE OpenGaps
  BY <1>2, <1>5 DEF Separate, Reached, NoJob
<1> QED
  BY <1>1, <1>2, <1>3, <1>4, <1>5, <1>6

(* A proved span is stored. *)
LEMMA ProveStep ==
  ASSUME IInv, Prove
  PROVE  IInv'
<1> USE DEF IInv
<1>1. /\ pc = "chunk" /\ pc' = "range" /\ queue' = {}
      /\ UNCHANGED <<head, link, ws, tries, conn, subs, pending, active, cursor, covEnd, lcb, gaps, sw>>
  BY DEF Prove, route, target
<1>2. pc \in Proving
  BY <1>1 DEF Proving
<1>3. /\ sw[Cur] = Last /\ Last \in Switches /\ ProofInv(Last) /\ Last.head # 0
  BY <1>1, <1>2, ProvingFacts
<1>4. PICK to \in Last.job.next..Last.job.last :
         Ingest(queue \cup (Last.job.next..to)) /\ upto' = to
  BY <1>3 DEF Prove, Logs
<1>5. /\ Last.job.next \in Nat /\ Last.job.next >= 1 /\ Last.head \in Nat /\ Last.head <= head
      /\ Last.job.last = Last.head /\ head \in Nat /\ queue \subseteq 1..head
  <2>1. Last.head \in Nat /\ Last.job.next \in Nat /\ Last.from \in Nat
    BY <1>3 DEF Switches, Jobs
  <2>2. /\ Last.job.last = Last.head /\ Last.job.next \in Last.from..(Last.head + 1)
        /\ Last.from \in 1..cursor /\ Last.head <= head
    BY <1>3 DEF ProofInv
  <2> QED
    BY <2>1, <2>2, BoundsAssumption DEF Types
<1>6. to \in Last.job.next..Last.head /\ to \in Nat
  BY <1>4, <1>5
<1>7. Last.job.next..to \subseteq 1..head
  BY <1>5, <1>6
<1>8. /\ stored' = stored \cup queue \cup (Last.job.next..to)
      /\ stored' \subseteq 1..head /\ latest' \in 0..head
  <2> DEFINE T == queue \cup (Last.job.next..to)
  <2>1. T \subseteq 1..head /\ Ingest(T)
    BY <1>4, <1>5, <1>7
  <2> HIDE DEF T
  <2>2. stored' = stored \cup T /\ stored' \subseteq 1..head /\ latest' \in 0..head
    BY <2>1, IngestFacts
  <2> QED
    BY <2>2 DEF T
<1>9. Types'
  BY <1>1, <1>4, <1>6, <1>8 DEF Types, Phases, Proving
<1>10. PendingIds' = PendingIds /\ Last' = Last
  BY <1>1 DEF PendingIds, Last
<1>11. PhaseInv'
  BY <1>1, <1>3, <1>4, <1>6, <1>8, <1>10 DEF PhaseInv, Down, Proving
<1>12. Grows
  BY <1>1, <1>8, BoundsAssumption DEF Grows, Types, OpenGaps
<1>13. MarkInv'
  BY <1>1, <1>12, MarkKept
<1>14. Holes' \subseteq Holes /\ stored \subseteq stored' /\ cursor <= cursor'
  BY <1>1, <1>8 DEF Holes, Types
<1> QED
  BY <1>1, <1>9, <1>11, <1>13, <1>14, QuietStep

(* The cursor follows a range that is proved to its end. *)
LEMMA PromoteStep ==
  ASSUME IInv, Promote
  PROVE  IInv'
<1> USE DEF IInv
<1>1. /\ pc = "chunk" /\ pc' = "close" /\ Last.job.next > Last.job.last
      /\ cursor' = Greatest(cursor, Last.job.last)
      /\ UNCHANGED <<head, socket, upto, ws, tries, conn, subs, pending, latest, active, covEnd, lcb,
                     stored, gaps, sw>>
  <2>1. pc = "chunk" /\ pc \in Proving
    BY DEF Promote, Proving
  <2>2. sw[Cur] = Last
    BY <2>1, ProvingFacts
  <2> QED
    BY <2>2 DEF Promote, route
<1>2. /\ Last \in Switches /\ ProofInv(Last) /\ Last.head # 0
  BY <1>1, ProvingFacts DEF Proving
<1>3. /\ Last.head \in Nat /\ Last.job.last = Last.head /\ Last.job.next = Last.head + 1
      /\ Last.from \in 1..cursor /\ Last.from..Last.head \subseteq stored
      /\ Last.head <= head /\ cursor \in Nat /\ head \in Nat /\ cursor <= head /\ cursor >= 1
  <2>1. Last.head \in Nat /\ Last.job.next \in Nat /\ Last.from \in Nat
    BY <1>2 DEF Switches, Jobs
  <2>2. /\ Last.job.last = Last.head /\ Last.job.next \in Last.from..(Last.head + 1)
        /\ Last.from..(Last.job.next - 1) \subseteq stored /\ Last.from \in 1..cursor
        /\ Last.head <= head
    BY <1>2 DEF ProofInv
  <2>3. Last.job.next = Last.head + 1
    BY <1>1, <2>1, <2>2
  <2> QED
    BY <2>1, <2>2, <2>3, BoundsAssumption DEF Types
<1>4. cursor' \in 1..head /\ cursor <= cursor' /\ 1..cursor' \subseteq stored
  BY <1>1, <1>3 DEF Greatest, MarkInv
<1>5. Types'
  BY <1>1, <1>4 DEF Types, Phases, Proving, socket
<1>6. PendingIds' = PendingIds /\ Last' = Last /\ OpenGaps' = OpenGaps
  BY <1>1 DEF PendingIds, Last, OpenGaps
<1>7. PhaseInv'
  BY <1>1, <1>2, <1>3, <1>6 DEF PhaseInv, Down, Proving, socket
<1>8. MarkInv'
  BY <1>1, <1>4, <1>6 DEF MarkInv, Marked, Unsettled, Reached
<1>9. Holes' = Holes
  BY <1>1 DEF Holes, socket
<1> QED
  BY <1>1, <1>4, <1>5, <1>7, <1>8, <1>9, QuietStep DEF socket

(* A tick without a pending or failed switch moves the coverage mark: every *)
(* block up to the head is stored, or a gap marks it.                       *)
LEMMA FinishStep ==
  ASSUME IInv, Finish
  PROVE  IInv'
<1> USE DEF IInv
<1>1. /\ pc = "finish" /\ pc' = "idle" /\ link = "up" /\ queue = {}
      /\ UNCHANGED <<head, socket, upto, ws, conn, subs, pending, latest, active, cursor, stored, gaps, sw>>
      /\ tries' \in {tries, 0}
      /\ \/ Blocking /\ UNCHANGED <<covEnd, lcb>>
         \/ ~Blocking /\ covEnd' = (IF subs THEN head ELSE covEnd) /\ lcb' = latest
  BY DEF Finish
<1>2. head \in 1..head /\ latest \in 0..head
  BY BoundsAssumption DEF Types
<1>3. Types'
  BY <1>1, <1>2 DEF Types, Phases, socket
<1>4. PendingIds' = PendingIds /\ Last' = Last /\ OpenGaps' = OpenGaps
  BY <1>1 DEF PendingIds, Last, OpenGaps
<1>5. PhaseInv'
  BY <1>1, <1>4 DEF PhaseInv, Down, Proving, socket
<1>6. MarkInv'
  <2>1. Blocking <=> Unsettled
    BY LastFacts
  <2>2. CASE covEnd' = covEnd
    BY <1>1, <1>4, <2>2 DEF MarkInv, Marked, Unsettled, Reached
  <2>3. CASE ~Blocking /\ covEnd' = head /\ subs
    <3>1. active /\ pc # "start"
      BY <1>1, <2>3 DEF PhaseInv
    <3>2. \A b \in 1..head : b \in stored \/ Marked(OpenGaps, b)
      BY <1>1, <3>1 DEF StreamInv, Holes
    <3> QED
      BY <1>1, <1>4, <2>1, <2>3, <3>2 DEF MarkInv, Marked, Unsettled, Reached
  <2> QED
    BY <1>1, <2>2, <2>3
<1>7. Holes' = Holes /\ cursor <= cursor'
  BY <1>1 DEF Holes, socket, Types
<1> QED
  BY <1>1, <1>3, <1>5, <1>6, <1>7, QuietStep DEF socket

(* Ordinary recovery: everything up to the head is stored. *)
LEMMA RecoverStep ==
  ASSUME IInv, Recover
  PROVE  IInv'
<1> USE DEF IInv
<1> DEFINE first == Greatest(1, cursor - 2)
           ids == {g \in DOMAIN gaps : gaps[g].first \in first..head}
<1>1. /\ pc = "recover" /\ pc' = "proof" /\ pending' = FALSE /\ ~Blocking
      /\ Ingest(first..head) /\ cursor' = head /\ gaps' = Closed(ids)
      /\ UNCHANGED <<head, socket, upto, route, subs, active, covEnd, lcb, sw>>
  BY DEF Recover
<1>2. head \in Nat /\ head >= 1 /\ cursor \in 1..head /\ first \in 1..cursor
  BY BoundsAssumption DEF Types, Greatest
<1> HIDE DEF first
<1>3. first..head \subseteq 1..head
  BY <1>2
<1>4. stored' = stored \cup (first..head) /\ stored' \subseteq 1..head /\ latest' \in 0..head
  <2> DEFINE T == first..head
  <2>1. T \subseteq 1..head /\ Ingest(T)
    BY <1>1, <1>3
  <2> HIDE DEF T
  <2>2. stored' = stored \cup T /\ stored' \subseteq 1..head /\ latest' \in 0..head
    BY <2>1, IngestFacts
  <2> QED
    BY <2>2 DEF T
<1>5. 1..head \subseteq stored'
  BY <1>2, <1>4 DEF MarkInv
<1> HIDE DEF ids
<1>6. /\ gaps' \in Seq(GapRows) /\ DOMAIN gaps' = DOMAIN gaps /\ OpenGaps' = OpenGaps \ ids
      /\ \A g \in DOMAIN gaps : gaps'[g].first = gaps[g].first /\ gaps'[g].from = gaps[g].from
  BY <1>1, GapsClosed
<1>7. Types'
  <2>1. \A g \in DOMAIN gaps' : gaps'[g].first \in 0..head /\ gaps'[g].from \in 1..head
    BY <1>6 DEF Types
  <2>2. head \in 1..head
    BY <1>2
  <2> QED
    BY <1>1, <1>4, <1>6, <2>1, <2>2 DEF Types, Phases, socket, route
<1>8. Grows
  BY <1>1, <1>2, <1>4, <1>6 DEF Grows
<1>9. /\ SwitchInv' /\ Last' = Last /\ PendingIds' = PendingIds /\ (Unsettled' <=> Unsettled)
      /\ ~Unsettled
  BY <1>1, <1>8, SwitchesKept, LastFacts
<1>10. PhaseInv'
  BY <1>1, <1>9 DEF PhaseInv, Down, Proving, socket, route
<1>11. MarkInv'
  BY <1>1, <1>5, <1>7, <1>9 DEF MarkInv, Types
<1>12. StreamInv'
  <2>1. Holes' = {}
    BY <1>1, <1>5 DEF Holes
  <2>2. Separate' = OpenGaps'
    BY <1>9 DEF Separate
  <2>3. active /\ ~subs => \E g \in OpenGaps' : TRUE
    <3> SUFFICES ASSUME active, ~subs PROVE \E g \in OpenGaps' : TRUE
      OBVIOUS
    <3>1. PICK g \in OpenGaps : gaps[g].first = 0
      BY <1>1 DEF StreamInv
    <3>2. g \notin ids
      BY <1>2, <3>1 DEF ids
    <3> QED
      BY <1>6, <3>1, <3>2
  <2>4. link' # "none"
    BY <1>1 DEF PhaseInv, Down, socket
  <2> QED
    BY <1>1, <1>9, <2>1, <2>2, <2>3, <2>4 DEF StreamInv, route
<1> QED
  BY <1>7, <1>9, <1>10, <1>11, <1>12

(* A recovery that fails records a gap besides those there were. *)
LEMMA RecoveryFailsStep ==
  ASSUME IInv, RecoveryFails
  PROVE  IInv'
<1> USE DEF IInv
<1>1. /\ pc = "recover" /\ pc' = "proof" /\ ~Blocking
      /\ gaps' = Append(gaps, RecoveryGap)
      /\ UNCHANGED <<head, socket, upto, route, subs, pending, latest, target, stored, sw>>
  BY DEF RecoveryFails
<1>2. PICK f \in 0..head, b \in 1..head : gaps' = Append(gaps, Gap(f, b))
  <2>1. head \in Nat /\ cursor \in 1..head /\ Greatest(1, cursor - 2) \in 0..head
    BY BoundsAssumption DEF Types, Greatest
  <2>2. stored \subseteq 0..head /\ stored \subseteq 1..head /\ stored # {}
    BY <2>1 DEF Types, MarkInv
  <2>3. \E b \in stored : \A c \in stored : c <= b
    BY <2>1, <2>2, GreatestExists
  <2>4. LastEvent \in stored
    BY <2>3 DEF LastEvent
  <2>5. LastEvent \in 1..head
    BY <2>2, <2>4
  <2> QED
    BY <1>1, <2>1, <2>5 DEF RecoveryGap
<1>3. Types'
  <2>1. /\ gaps' \in Seq(GapRows)
        /\ \A g \in DOMAIN gaps' : gaps'[g].first \in 0..head /\ gaps'[g].from \in 1..head
    BY <1>2, GapAppended
  <2> QED
    BY <1>1, <2>1 DEF Types, Phases, socket, route, target
<1>4. /\ Grows /\ OpenGaps \subseteq OpenGaps' /\ Len(gaps) + 1 \in OpenGaps'
      /\ \A c : Marked(OpenGaps, c) => Marked(OpenGaps, c)'
  BY <1>1, <1>2, GapRecorded DEF target
<1>5. /\ SwitchInv' /\ Last' = Last /\ PendingIds' = PendingIds /\ (Unsettled' <=> Unsettled)
      /\ ~Unsettled
  BY <1>1, <1>4, SwitchesKept, LastFacts
<1>6. PhaseInv'
  BY <1>1, <1>5 DEF PhaseInv, Down, Proving, socket, route, target
<1>7. MarkInv'
  BY <1>1, <1>4, <1>5 DEF MarkInv, target
<1>8. StreamInv'
  BY <1>1, <1>4, <1>5 DEF StreamInv, Separate, Holes, socket, target
<1> QED
  BY <1>3, <1>5, <1>6, <1>7, <1>8

(* The blocks up to the boundary of a switch whose range is whole are       *)
(* stored, so its own gaps mark nothing that is still missing.              *)
LEMMA CloseGapsStep ==
  ASSUME IInv, CloseGaps
  PROVE  IInv'
<1> USE DEF IInv
<1>1. pc = "close" /\ pc \in Proving
  BY DEF CloseGaps, Proving
<1>2. /\ sw[Cur] = Last /\ Last \in Switches /\ ProofInv(Last) /\ Last.head # 0 /\ Unsettled
      /\ Separate = OpenGaps \ Last.gapIds /\ (active => subs) /\ link # "none"
  BY <1>1, ProvingFacts
<1>3. /\ pc' = "healthy" /\ gaps' = Closed(Last.gapIds)
      /\ UNCHANGED <<head, socket, upto, route, subs, pending, latest, target, stored, sw>>
  BY <1>2 DEF CloseGaps
<1>4. /\ Last.head \in Nat /\ Last.from \in 1..cursor /\ Last.from..Last.head \subseteq stored
      /\ Reached(Last) = Last.head
  <2>1. Last.job.next = Last.head + 1
    BY <1>1 DEF PhaseInv
  <2>2. Last.head \in Nat /\ Last.from \in 1..cursor /\ Last.from..(Last.job.next - 1) \subseteq stored
    BY <1>2 DEF ProofInv, Switches
  <2> QED
    BY <1>2, <2>1, <2>2 DEF Reached
<1>5. cursor \in Nat /\ head \in Nat /\ covEnd \in Nat
  BY BoundsAssumption DEF Types
<1>6. 1..Last.head \subseteq stored
  BY <1>4, <1>5 DEF MarkInv
<1>7. /\ gaps' \in Seq(GapRows) /\ DOMAIN gaps' = DOMAIN gaps /\ OpenGaps' = OpenGaps \ Last.gapIds
      /\ \A g \in DOMAIN gaps : gaps'[g].first = gaps[g].first /\ gaps'[g].from = gaps[g].from
  BY <1>3, GapsClosed
<1>8. Types'
  BY <1>3, <1>7 DEF Types, Phases, Proving, socket, route, target
<1>9. Grows
  BY <1>3, <1>5, <1>7 DEF Grows, target
<1>10. SwitchInv' /\ Last' = Last /\ PendingIds' = PendingIds /\ (Unsettled' <=> Unsettled)
  BY <1>3, <1>9, SwitchesKept
<1>11. PhaseInv'
  BY <1>1, <1>3, <1>7, <1>10 DEF PhaseInv, Down, Proving, socket, route, target
<1>12. covEnd <= Last.head
  BY <1>2, <1>4 DEF MarkInv
<1>13. MarkInv'
  BY <1>3, <1>4, <1>5, <1>6, <1>10, <1>12 DEF MarkInv, Reached, target
<1>14. StreamInv'
  <2>1. Separate' = Separate /\ OpenGaps' = Separate
    BY <1>2, <1>4, <1>7, <1>10 DEF Separate, Reached
  <2>2. Holes' = Holes /\ \A b \in Holes : b > Last.head
    BY <1>3, <1>4, <1>5, <1>6 DEF Holes, socket
  <2>3. \A b : Marked(Separate, b) => Marked(Separate, b)' /\ Marked(OpenGaps, b)'
    BY <1>2, <1>7, <2>1 DEF Marked, OpenGaps
  <2>4. active' = active /\ link' = link /\ subs' = subs /\ pc # "start" /\ link # "none"
    BY <1>1, <1>2, <1>3 DEF socket, target
  <2>5. active /\ link # "dead" => \A b \in Holes : Marked(Separate, b)
    BY <1>2, <1>4, <2>2, <2>4 DEF StreamInv
  <2> QED
    BY <1>2, <1>3, <2>1, <2>2, <2>3, <2>4, <2>5 DEF StreamInv
<1> QED
  BY <1>8, <1>10, <1>11, <1>13, <1>14

------------------------------------------------------------------------------
(* Steps that rewrite the record of the last switch.                        *)

(* Everything but the phase: the boundary of the switch stays or becomes    *)
(* the head, and its gaps are set apart only while the stream is up.        *)
LEMMA RecordStep ==
  ASSUME IInv, sw # <<>>, NEW r \in Switches, sw' = [sw EXCEPT ![Len(sw)] = r], ProofInv(r)',
         UNCHANGED <<head, link, queue, ws, tries, conn, subs, pending, latest, active, cursor,
                     covEnd, lcb, gaps>>,
         stored \subseteq stored', stored' \subseteq 1..head, upto' \in Nat, pc' \in Phases,
         pc' \in {"start", "recover"} => pc' = pc, pc = "start" => pc' = pc,
         r.gapIds = Last.gapIds,
         r.state # "HEALTHY" => Last.state # "HEALTHY" /\ Reached(r) \in {Reached(Last), head},
         \/ active => subs /\ link # "none"
         \/ r.state = "HEALTHY"
         \/ (r.state = "FAILED" \/ Reached(r) # 0) => (Last.state = "FAILED" \/ Reached(Last) # 0)
  PROVE  /\ Types' /\ SwitchInv' /\ MarkInv' /\ StreamInv'
         /\ Last' = r /\ (PendingIds' # {} <=> r.state \notin Terminal) /\ OpenGaps' = OpenGaps
<1> USE DEF IInv
<1>1. OpenGaps' = OpenGaps
  BY DEF OpenGaps
<1>2. head \in Nat /\ covEnd \in 1..head /\ Holes' \subseteq Holes
  BY BoundsAssumption DEF Types, Holes
<1>3. Grows
  BY <1>1, <1>2 DEF Grows, Types
<1>4. /\ sw' \in Seq(Switches) /\ SwitchInv' /\ Last' = r /\ (Unsettled' <=> r.state # "HEALTHY")
      /\ PendingIds' # {} <=> r.state \notin Terminal
  BY <1>3, LastReplaced
<1>5. Types'
  BY <1>4 DEF Types
<1>6. Unsettled' => Unsettled /\ Reached(Last)' \in {Reached(Last), head}
  BY <1>4 DEF Unsettled, Reached
<1>7. MarkInv'
  <2>1. 1..cursor' \subseteq stored'
    BY DEF MarkInv
  <2>2. \A b \in 1..covEnd' : b \in stored' \/ Marked(OpenGaps, b)'
    BY <1>1 DEF MarkInv, Marked
  <2>3. Unsettled' /\ Reached(Last)' # 0 => covEnd' <= Reached(Last)'
    BY <1>2, <1>6 DEF MarkInv
  <2> QED
    BY <2>1, <2>2, <2>3 DEF MarkInv
<1>8. StreamInv'
  <2> SUFFICES ASSUME active, pc' # "start"
               PROVE  /\ link # "dead" => \A b \in Holes' : Marked(OpenGaps, b)
                      /\ link # "dead" /\ Unsettled' /\ Reached(Last)' # 0 =>
                           \A b \in Holes' : b > Reached(Last)' => Marked(Separate', b)
                      /\ ~subs \/ link = "none" => Separate' # {}
                      /\ pc' = "recover" /\ ~subs => \E g \in OpenGaps : gaps[g].first = 0
    BY <1>1 DEF StreamInv, Marked
  <2>1. pc # "start"
    OBVIOUS
  <2>2. link # "dead" => \A b \in Holes' : Marked(OpenGaps, b)
    BY <1>2, <2>1 DEF StreamInv
  <2>3. ASSUME link # "dead", Unsettled', Reached(Last)' # 0, NEW b \in Holes', b > Reached(Last)'
        PROVE  Marked(Separate', b)
    <3>1. CASE Reached(Last)' = head
      BY <1>2, <2>3, <3>1 DEF Holes
    <3>2. CASE Reached(Last)' = Reached(Last)
      <4>1. Unsettled /\ Reached(Last) # 0 /\ Marked(Separate, b)
        BY <1>2, <1>6, <2>1, <2>3, <3>2 DEF StreamInv
      <4>2. Separate' = Separate
        BY <1>1, <1>4, <2>3, <4>1 DEF Separate
      <4> QED
        BY <4>1, <4>2
    <3> QED
      BY <1>6, <2>3, <3>1, <3>2
  <2>4. ~subs \/ link = "none" => Separate' # {}
    <3> SUFFICES ASSUME ~subs \/ link = "none" PROVE Separate' # {}
      OBVIOUS
    <3>1. Separate # {}
      BY <2>1 DEF StreamInv
    <3>2. CASE r.state = "HEALTHY"
      BY <1>1, <1>4, <3>1, <3>2 DEF Separate
    <3>3. CASE r.state # "HEALTHY"
      <4>1. (r.state = "FAILED" \/ Reached(r) # 0) => (Last.state = "FAILED" \/ Reached(Last) # 0)
        BY <3>3
      <4>2. Unsettled /\ Last' = r /\ Reached(Last)' = Reached(r)
        BY <1>4, <1>6, <3>3 DEF Reached
      <4> QED
        BY <1>1, <3>1, <4>1, <4>2 DEF Separate
    <3> QED
      BY <3>2, <3>3
  <2>5. pc' = "recover" /\ ~subs => \E g \in OpenGaps : gaps[g].first = 0
    BY <2>1 DEF StreamInv
  <2> QED
    BY <2>2, <2>3, <2>4, <2>5
<1> QED
  BY <1>1, <1>4, <1>5, <1>7, <1>8

(* A record that differs in its state alone says the same of the store. *)
LEMMA StateRewritten ==
  ASSUME NEW s \in Switches, NEW r \in Switches, ProofInv(s),
         r.head = s.head, r.from = s.from, r.filters = s.filters, r.gapIds = s.gapIds,
         r.job = s.job, r.superset = s.superset,
         r.wait \notin Terminal \cup {"WAITING_FOR_BUDGET"},
         r.state = "WAITING_FOR_BUDGET" => r.wait # "none",
         r.superset # NoJob => r.state \in Terminal,
         r.state = "HEALTHY" => r.filters = {}
  PROVE  ProofInv(r)
BY DEF ProofInv

(* The steps of prove_provider_switch that rewrite the state alone. *)
LEMMA BeginProofStep ==
  ASSUME IInv, BeginProof
  PROVE  IInv'
<1> USE DEF IInv
<1>1. /\ pc = "proof" /\ pc' \in {"freeze", "chunk"} /\ PendingIds # {} /\ (active => subs)
      /\ UNCHANGED <<head, socket, upto, route, subs, pending, latest, target, stored, gaps>>
  BY DEF BeginProof, Acked
<1>2. /\ Cur = Len(sw) /\ sw # <<>> /\ sw[Cur] = Last /\ Unsettled /\ Last.state \notin Terminal
      /\ Last \in Switches /\ ProofInv(Last)
  BY <1>1, LastFacts, LastReaches DEF Unsettled, Last, Terminal
<1>3. pc' = (IF Last.head = 0 THEN "freeze" ELSE "chunk")
  BY <1>2 DEF BeginProof, NeedsHead
<1>4. PICK r : /\ sw' = [sw EXCEPT ![Len(sw)] = r]
               /\ r = Acknowledged(IF Last.state # "WAITING_FOR_BUDGET" THEN Last
                                   ELSE [Last EXCEPT !.state = Last.wait, !.wait = "none"])
  BY <1>2 DEF BeginProof
<1>5. /\ r \in Switches /\ r.state \notin Terminal \cup {"WAITING_FOR_BUDGET"}
      /\ r.head = Last.head /\ r.from = Last.from /\ r.filters = Last.filters
      /\ r.gapIds = Last.gapIds /\ r.job = Last.job /\ r.superset = Last.superset
      /\ r.bound = Last.bound /\ r.wait \in {Last.wait, "none"}
  <2>1. PICK s : s = IF Last.state # "WAITING_FOR_BUDGET" THEN Last
                     ELSE [Last EXCEPT !.state = Last.wait, !.wait = "none"]
    OBVIOUS
  <2>2. /\ s \in Switches /\ s.state \notin Terminal \cup {"WAITING_FOR_BUDGET"}
        /\ s.head = Last.head /\ s.from = Last.from /\ s.filters = Last.filters
        /\ s.gapIds = Last.gapIds /\ s.job = Last.job /\ s.superset = Last.superset
        /\ s.bound = Last.bound /\ s.wait \in {Last.wait, "none"}
    <3>1. CASE Last.state # "WAITING_FOR_BUDGET"
      BY <1>2, <2>1, <3>1
    <3>2. CASE Last.state = "WAITING_FOR_BUDGET"
      <4>1. Last.wait \in States \ (Terminal \cup {"WAITING_FOR_BUDGET"})
        BY <1>2, <3>2 DEF ProofInv, Switches
      <4> QED
        BY <1>2, <2>1, <3>2, <4>1 DEF Switches
    <3> QED
      BY <3>1, <3>2
  <2>3. r = Acknowledged(s)
    BY <1>4, <2>1
  <2> QED
    BY <2>2, <2>3 DEF Acknowledged, Switches, States, Terminal
<1>6. ProofInv(r)
  <2>1. r.wait \notin Terminal \cup {"WAITING_FOR_BUDGET"} /\ r.superset = NoJob
    BY <1>2, <1>5 DEF ProofInv, Terminal
  <2> QED
    BY <1>2, <1>5, <2>1, StateRewritten DEF Terminal
<1>7. ProofInv(r)'
  <2>1. Grows
    BY <1>1, BoundsAssumption DEF Grows, OpenGaps, Types, target
  <2> QED
    BY <1>5, <1>6, <2>1, ProofKept
<1>8. pc' \in Phases /\ upto' \in Nat /\ stored' \subseteq 1..head
  BY <1>1 DEF Phases, Proving, Types
<1>9. /\ Types' /\ SwitchInv' /\ MarkInv' /\ StreamInv'
      /\ Last' = r /\ (PendingIds' # {} <=> r.state \notin Terminal) /\ OpenGaps' = OpenGaps
  <2>1. Reached(r) = Reached(Last) /\ link # "none"
    BY <1>1, <1>5 DEF Reached, PhaseInv, Down
  <2> QED
    BY <1>1, <1>2, <1>4, <1>5, <1>7, <1>8, <2>1, RecordStep DEF socket, route, target, Terminal
<1>10. PhaseInv'
  <2>1. link # "none" /\ conn /\ Last.filters # {} /\ (active => Last.bound)
    BY <1>1 DEF PhaseInv, Down
  <2> QED
    BY <1>1, <1>2, <1>3, <1>5, <1>9, <2>1 DEF PhaseInv, Down, Proving, socket, route, target
<1> QED
  BY <1>9, <1>10

(* The boundary of the switch is the head of the moment. *)
LEMMA FreezeStep ==
  ASSUME IInv, Freeze
  PROVE  IInv'
<1> USE DEF IInv
<1>1. /\ pc = "freeze" /\ pc' = "chunk" /\ pc \in Proving
      /\ UNCHANGED <<head, socket, upto, route, subs, pending, latest, target, stored, gaps>>
  BY DEF Freeze, Proving
<1>2. /\ sw # <<>> /\ Cur = Len(sw) /\ sw[Cur] = Last /\ Last \in Switches /\ ProofInv(Last)
      /\ Last.state \notin Terminal /\ Unsettled /\ Last.superset = NoJob /\ Last.filters # {}
      /\ PendingIds # {} /\ (active => subs) /\ link # "none" /\ conn /\ Last.head = 0
  BY <1>1, ProvingFacts
<1>3. head \in Nat /\ head >= 1 /\ cursor \in 1..head
  BY BoundsAssumption DEF Types
<1>4. PICK from \in 1..cursor : from = From(Last)
  <2>1. PICK c \in Last.filters : c \in 1..cursor
    BY <1>2 DEF ProofInv
  <2>2. Greatest(1, c - 2) \in 1..head
    BY <1>3, <2>1 DEF Greatest
  <2>3. From(Last) \in 1..head /\ \E d \in Last.filters : From(Last) = Greatest(1, d - 2)
    BY <2>1, <2>2 DEF From
  <2>4. \A d \in Last.filters : d \in 1..cursor
    BY <1>2 DEF ProofInv
  <2>5. From(Last) \in 1..cursor
    BY <1>3, <2>3, <2>4 DEF Greatest
  <2> QED
    BY <2>5
<1>5. PICK r : /\ sw' = [sw EXCEPT ![Len(sw)] = r]
               /\ r = [Last EXCEPT !.head = head, !.from = from, !.state = "PROVIDER_SWITCH_RECOVERY",
                                   !.job = [first |-> from, next |-> from, last |-> head]]
  <2>1. sw' = [sw EXCEPT ![Len(sw)].head = head, ![Len(sw)].from = from,
                         ![Len(sw)].state = "PROVIDER_SWITCH_RECOVERY",
                         ![Len(sw)].job = [first |-> from, next |-> from, last |-> head]]
    BY <1>2, <1>4 DEF Freeze
  <2> QED
    BY <1>2, <2>1, LastFacts DEF Last
<1>6. r \in Switches
  <2>1. [first |-> from, next |-> from, last |-> head] \in Jobs /\ from \in Nat
    BY <1>3, <1>4 DEF Jobs
  <2> QED
    BY <1>2, <1>3, <1>5, <2>1 DEF Switches, States
<1>7. /\ r.head = head /\ r.from = from /\ r.state = "PROVIDER_SWITCH_RECOVERY"
      /\ r.job = [first |-> from, next |-> from, last |-> head]
      /\ r.filters = Last.filters /\ r.gapIds = Last.gapIds /\ r.superset = NoJob
      /\ r.wait = Last.wait /\ r.bound = Last.bound
  BY <1>2, <1>5 DEF Switches
<1>8. ProofInv(r)
  <2>1. from..(from - 1) = {} /\ from \in from..(head + 1)
    BY <1>3, <1>4
  <2> QED
    BY <1>2, <1>3, <1>4, <1>7, <2>1 DEF ProofInv, Terminal
<1>9. ProofInv(r)'
  <2>1. Grows
    BY <1>1, BoundsAssumption DEF Grows, OpenGaps, Types, target
  <2> QED
    BY <1>6, <1>8, <2>1, ProofKept
<1>10. /\ Types' /\ SwitchInv' /\ MarkInv' /\ StreamInv'
       /\ Last' = r /\ (PendingIds' # {} <=> r.state \notin Terminal) /\ OpenGaps' = OpenGaps
  <2>1. Reached(r) = head
    BY <1>3, <1>7 DEF Reached
  <2>2. pc' \in Phases /\ upto' \in Nat /\ stored' \subseteq 1..head
    BY <1>1 DEF Phases, Proving, Types
  <2>3. Last.state # "HEALTHY"
    BY <1>2 DEF Terminal
  <2> QED
    BY <1>1, <1>2, <1>5, <1>6, <1>7, <1>9, <2>1, <2>2, <2>3, RecordStep DEF socket, route, target
<1>11. PhaseInv'
  <2>1. active => Last.bound
    BY <1>1, <1>2 DEF PhaseInv, Down
  <2> QED
    BY <1>1, <1>2, <1>3, <1>7, <1>10, <2>1
    DEF PhaseInv, Down, Proving, Terminal, socket, route, target
<1> QED
  BY <1>10, <1>11

(* The other steps of prove_provider_switch: the boundary stays, and the    *)
(* attempt goes on with the next span or ends.                              *)
LEMMA ProvingRecord ==
  ASSUME IInv, pc \in Proving, NEW r \in Switches, sw' = [sw EXCEPT ![Len(sw)] = r], ProofInv(r),
         r.head = Last.head, r.filters = Last.filters, r.gapIds = Last.gapIds,
         r.superset = Last.superset, r.bound = Last.bound,
         UNCHANGED <<head, socket, route, subs, pending, latest, target, stored, gaps>>,
         upto' \in Nat, pc' \in {"finish", "chunk"},
         pc' = "chunk" => Last.head # 0 /\ r.state \notin Terminal \cup {"WAITING_FOR_BUDGET"}
  PROVE  IInv'
<1> USE DEF IInv
<1>1. /\ sw # <<>> /\ Last.state \notin Terminal /\ Last.filters # {} /\ (active => subs)
      /\ link # "none" /\ conn
  BY ProvingFacts
<1>2. ProofInv(r)'
  <2>1. Grows
    BY BoundsAssumption DEF Grows, OpenGaps, Types, target
  <2> QED
    BY <2>1, ProofKept
<1>3. /\ Types' /\ SwitchInv' /\ MarkInv' /\ StreamInv'
      /\ Last' = r /\ (PendingIds' # {} <=> r.state \notin Terminal) /\ OpenGaps' = OpenGaps
  <2>1. Reached(r) = Reached(Last) /\ Last.state # "HEALTHY"
    BY <1>1 DEF Reached, Terminal
  <2>2. pc' \in Phases /\ stored' \subseteq 1..head /\ pc # "start"
    BY DEF Phases, Proving, Types
  <2> QED
    BY <1>1, <1>2, <2>1, <2>2, RecordStep DEF socket, route, target
<1>4. PhaseInv'
  <2>1. active => Last.bound
    BY <1>1, ProvingFacts DEF PhaseInv, Down, Proving
  <2> QED
    BY <1>1, <1>3, <2>1 DEF PhaseInv, Down, Proving, Terminal, socket, route, target
<1> QED
  BY <1>3, <1>4

(* A budget wait keeps the boundary, and the phase to return to. *)
LEMMA BudgetWaitStep ==
  ASSUME IInv, BudgetWait
  PROVE  IInv'
<1> USE DEF IInv
<1>1. /\ pc \in Proving /\ pc' = "finish" /\ upto' \in Nat
      /\ UNCHANGED <<head, socket, route, subs, pending, latest, target, stored, gaps>>
  BY DEF BudgetWait, Proving, Types
<1>2. /\ Cur = Len(sw) /\ sw[Cur] = Last /\ Last \in Switches /\ ProofInv(Last) /\ sw # <<>>
      /\ Last.state \notin Terminal /\ Last.superset = NoJob
  BY <1>1, ProvingFacts
<1>3. PICK r : /\ sw' = [sw EXCEPT ![Len(sw)] = r]
               /\ r = [Last EXCEPT !.wait = IF @ = "none" THEN Last.state ELSE @,
                                   !.state = "WAITING_FOR_BUDGET"]
  <2>1. sw' = [sw EXCEPT ![Len(sw)].wait = IF @ = "none" THEN Last.state ELSE @,
                         ![Len(sw)].state = "WAITING_FOR_BUDGET"]
    BY <1>2 DEF BudgetWait
  <2> QED
    BY <1>2, <2>1, LastFacts DEF Last
<1>4. /\ r \in Switches /\ r.state = "WAITING_FOR_BUDGET"
      /\ r.wait = (IF Last.wait = "none" THEN Last.state ELSE Last.wait)
      /\ r.head = Last.head /\ r.from = Last.from /\ r.filters = Last.filters
      /\ r.gapIds = Last.gapIds /\ r.job = Last.job /\ r.superset = Last.superset
      /\ r.bound = Last.bound
  <2>1. PICK w : w = IF Last.wait = "none" THEN Last.state ELSE Last.wait
    OBVIOUS
  <2>2. w \in States \cup {"none"} /\ "WAITING_FOR_BUDGET" \in States
    BY <1>2, <2>1 DEF Switches, States
  <2>3. r = [Last EXCEPT !.wait = w, !.state = "WAITING_FOR_BUDGET"]
    BY <1>2, <1>3, <2>1 DEF Switches
  <2> QED
    BY <1>2, <2>1, <2>2, <2>3 DEF Switches
<1>5. ProofInv(r)
  <2>1. Last.state # "none" /\ Last.state # "WAITING_FOR_BUDGET"
    BY <1>1, <1>2 DEF PhaseInv, Switches, States, Terminal
  <2>2. r.wait \notin Terminal \cup {"WAITING_FOR_BUDGET"} /\ r.wait # "none"
    BY <1>2, <1>4, <2>1 DEF ProofInv, Terminal
  <2> QED
    BY <1>2, <1>4, <2>2, StateRewritten
<1> QED
  BY <1>1, <1>3, <1>4, <1>5, ProvingRecord

(* A head call that fails, fails the switch before it has a boundary. *)
LEMMA FreezeFailsStep ==
  ASSUME IInv, FreezeFails
  PROVE  IInv'
<1> USE DEF IInv
<1>1. /\ pc \in Proving /\ pc' = "finish" /\ upto' \in Nat
      /\ UNCHANGED <<head, socket, route, subs, pending, latest, target, stored, gaps>>
  BY DEF FreezeFails, Proving, Types
<1>2. /\ Cur = Len(sw) /\ sw[Cur] = Last /\ Last \in Switches /\ ProofInv(Last) /\ sw # <<>>
      /\ Last.state \notin Terminal /\ Last.superset = NoJob
  BY <1>1, ProvingFacts
<1>3. PICK r : /\ sw' = [sw EXCEPT ![Len(sw)] = r]
               /\ r = IF Last.bound THEN FailSwitch(Last) ELSE Last
  <2>1. CASE Last.bound
    BY <1>2, <2>1 DEF FreezeFails
  <2>2. CASE ~Last.bound
    <3>1. sw' = sw
      BY <1>2, <2>2 DEF FreezeFails
    <3>2. sw \in [1..Len(sw) -> Switches] /\ Len(sw) \in 1..Len(sw)
      BY <1>2, LenProperties, LastFacts DEF Types
    <3> QED
      BY <2>2, <3>1, <3>2 DEF Last
  <2> QED
    BY <2>1, <2>2
<1>4. /\ r \in Switches /\ r.state \in {Last.state, "FAILED"} /\ r.wait = Last.wait
      /\ r.head = Last.head /\ r.from = Last.from /\ r.filters = Last.filters
      /\ r.gapIds = Last.gapIds /\ r.job = Last.job /\ r.superset = Last.superset
      /\ r.bound = Last.bound
  <2>1. head \in Nat /\ "FAILED" \in States
    BY BoundsAssumption DEF Types, States, Terminal
  <2> QED
    BY <1>2, <1>3, <2>1 DEF FailSwitch, Switches
<1>5. ProofInv(r)
  <2>1. r.wait \notin Terminal \cup {"WAITING_FOR_BUDGET"}
        /\ (r.state = "WAITING_FOR_BUDGET" => r.wait # "none") /\ r.state # "HEALTHY"
    BY <1>2, <1>4 DEF ProofInv, Terminal
  <2> QED
    BY <1>2, <1>4, <2>1, StateRewritten
<1> QED
  BY <1>1, <1>3, <1>4, <1>5, ProvingRecord

(* The proof advances only over the span whose events were committed before it. *)
LEMMA CommitRangeStep ==
  ASSUME IInv, CommitRange
  PROVE  IInv'
<1> USE DEF IInv
<1>1. /\ pc = "range" /\ pc \in Proving /\ pc' = "chunk" /\ upto' \in Nat
      /\ UNCHANGED <<head, socket, route, subs, pending, latest, target, stored, gaps>>
  BY DEF CommitRange, Proving
<1>2. /\ Cur = Len(sw) /\ sw[Cur] = Last /\ Last \in Switches /\ ProofInv(Last) /\ sw # <<>>
      /\ Last.state \notin Terminal /\ Last.superset = NoJob /\ Last.head # 0
      /\ Last.state # "WAITING_FOR_BUDGET"
  BY <1>1, ProvingFacts DEF PhaseInv
<1>3. PICK r : /\ sw' = [sw EXCEPT ![Len(sw)] = r]
               /\ r = [Last EXCEPT !.job.next = upto + 1]
  <2>1. sw' = [sw EXCEPT ![Len(sw)].job.next = upto + 1]
    BY <1>2 DEF CommitRange
  <2> QED
    BY <1>2, <2>1, LastFacts DEF Last
<1>4. /\ upto \in Nat /\ upto \in Last.job.next..Last.head /\ Last.job.next..upto \subseteq stored
  BY <1>1 DEF PhaseInv, Types
<1>5. /\ r \in Switches /\ r.state = Last.state /\ r.wait = Last.wait
      /\ r.head = Last.head /\ r.from = Last.from /\ r.filters = Last.filters
      /\ r.gapIds = Last.gapIds /\ r.superset = Last.superset /\ r.bound = Last.bound
      /\ r.job.first = Last.job.first /\ r.job.last = Last.job.last /\ r.job.next = upto + 1
  <2>1. Last.job \in Jobs /\ [Last.job EXCEPT !.next = upto + 1] \in Jobs
    BY <1>2, <1>4 DEF Switches, Jobs
  <2>2. r = [Last EXCEPT !.job = [Last.job EXCEPT !.next = upto + 1]]
    BY <1>2, <1>3 DEF Switches
  <2>3. r \in Switches /\ r.job = [Last.job EXCEPT !.next = upto + 1]
    BY <1>2, <2>1, <2>2 DEF Switches
  <2>4. /\ r.job.first = Last.job.first /\ r.job.last = Last.job.last /\ r.job.next = upto + 1
    BY <2>1, <2>3 DEF Jobs
  <2> QED
    BY <1>2, <2>2, <2>3, <2>4 DEF Switches
<1>6. ProofInv(r)
  <2>1. /\ Last.from \in Nat /\ Last.head \in Nat /\ Last.job.next \in Nat
        /\ Last.job.next \in Last.from..(Last.head + 1)
        /\ Last.from..(Last.job.next - 1) \subseteq stored
    BY <1>2 DEF ProofInv, Switches, Jobs
  <2>2. r.job.next \in r.from..(r.head + 1) /\ r.from..(r.job.next - 1) \subseteq stored
    BY <1>4, <1>5, <2>1
  <2> QED
    BY <1>2, <1>5, <2>2 DEF ProofInv, Terminal
<1> QED
  BY <1>1, <1>2, <1>3, <1>5, <1>6, ProvingRecord

(* Healthy is said of a whole range whose gaps are closed. *)
LEMMA HealthyStep ==
  ASSUME IInv, Healthy
  PROVE  IInv'
<1> USE DEF IInv
<1>1. /\ pc = "healthy" /\ pc \in Proving /\ pc' = "finish" /\ upto' \in Nat
      /\ UNCHANGED <<head, socket, route, subs, pending, latest, target, stored, gaps>>
  BY DEF Healthy, Proving, Types
<1>2. /\ Cur = Len(sw) /\ sw[Cur] = Last /\ Last \in Switches /\ ProofInv(Last) /\ sw # <<>>
      /\ Last.state \notin Terminal /\ Last.superset = NoJob /\ Last.head # 0
      /\ Last.job.next = Last.head + 1 /\ Last.gapIds \cap OpenGaps = {}
  BY <1>1, ProvingFacts DEF PhaseInv
<1>3. PICK r : sw' = [sw EXCEPT ![Len(sw)] = r] /\ r = [Last EXCEPT !.state = "HEALTHY"]
  <2>1. sw' = [sw EXCEPT ![Len(sw)].state = "HEALTHY"]
    BY <1>2 DEF Healthy
  <2> QED
    BY <1>2, <2>1, LastFacts DEF Last
<1>4. /\ r \in Switches /\ r.state = "HEALTHY" /\ r.wait = Last.wait
      /\ r.head = Last.head /\ r.from = Last.from /\ r.filters = Last.filters
      /\ r.gapIds = Last.gapIds /\ r.job = Last.job /\ r.superset = Last.superset
      /\ r.bound = Last.bound
  BY <1>2, <1>3 DEF Switches, States, Terminal
<1>5. ProofInv(r)
  BY <1>2, <1>4 DEF ProofInv, Terminal
<1> QED
  BY <1>1, <1>3, <1>4, <1>5, ProvingRecord

(* The operator's steps on a failed switch that leave its gaps open. *)
LEMMA OperatorRecord ==
  ASSUME IInv, sw # <<>>, Last.state = "FAILED", PendingIds = {}, conn,
         NEW r \in Switches, sw' = [sw EXCEPT ![Len(sw)] = r], ProofInv(r)',
         r.gapIds = Last.gapIds, r.filters = Last.filters, r.filters # {},
         Reached(r) \in {Reached(Last), head},
         r.state \in {"FAILED", "PROVIDER_SWITCH_RECOVERY"}, r.state # "FAILED" => ~active,
         UNCHANGED <<head, socket, work, route, subs, pending, latest, target, gaps>>,
         stored \subseteq stored', stored' \subseteq 1..head
  PROVE  IInv'
<1> USE DEF IInv
<1>1. pc \notin Down /\ pc \notin Proving /\ link # "none"
  BY DEF PhaseInv
<1>2. /\ Types' /\ SwitchInv' /\ MarkInv' /\ StreamInv'
      /\ Last' = r /\ (PendingIds' # {} <=> r.state \notin Terminal) /\ OpenGaps' = OpenGaps
  <2>1. upto' \in Nat /\ pc' \in Phases
    BY DEF Types, work
  <2> QED
    BY <2>1, RecordStep DEF socket, route, target, work
<1>3. PhaseInv'
  BY <1>1, <1>2 DEF PhaseInv, Down, Proving, Terminal, socket, route, target, work
<1> QED
  BY <1>2, <1>3

(* What an operator finds, and what he may count on after his step. *)
LEMMA FailedFacts ==
  ASSUME IInv, NEW i \in DOMAIN sw, IsLatest(i), sw[i].state = "FAILED"
  PROVE  /\ i = Len(sw) /\ sw # <<>> /\ sw[i] = Last /\ Last \in Switches /\ ProofInv(Last)
         /\ Len(sw) \in DOMAIN sw /\ Unsettled /\ Last.gapIds \subseteq DOMAIN gaps
<1> USE DEF IInv
<1>1. i = Len(sw) /\ sw # <<>> /\ sw[i] = Last
  BY EmptySeq DEF IsLatest, Last
<1> QED
  BY <1>1, LastReaches DEF Unsettled

(* The operator's proof of a failed switch stores a span and advances over it. *)
LEMMA ProveFailedStep ==
  ASSUME IInv, NEW i \in DOMAIN sw, ProveFailed(i)
  PROVE  IInv'
<1> USE DEF IInv
<1>1. /\ i = Len(sw) /\ sw # <<>> /\ sw[i] = Last /\ Last \in Switches /\ ProofInv(Last)
      /\ Last.state = "FAILED" /\ PendingIds = {} /\ conn
  BY FailedFacts DEF ProveFailed, Fresh
<1>2. PICK to \in Last.job.next..Last.job.last :
         /\ stored' = stored \cup (Last.job.next..to)
         /\ sw' = [sw EXCEPT ![Len(sw)].job.next = to + 1]
  BY <1>1 DEF ProveFailed, Logs
<1>3. /\ UNCHANGED <<head, socket, work, route, subs, pending, latest, target, gaps>>
      /\ Last.filters # {} /\ Last.job # NoJob
  BY <1>1 DEF ProveFailed
<1>4. PICK r : /\ sw' = [sw EXCEPT ![Len(sw)] = r]
               /\ r = [Last EXCEPT !.job = [Last.job EXCEPT !.next = to + 1]]
  BY <1>1, <1>2 DEF Last, Switches, Jobs
<1>5. /\ head \in Nat /\ cursor \in Nat /\ Last.head # 0 /\ Last.head \in Nat /\ Last.head <= head
      /\ Last.from \in 1..cursor /\ Last.job.next \in Last.from..(Last.head + 1)
      /\ Last.job.last = Last.head /\ Last.from..(Last.job.next - 1) \subseteq stored
      /\ Last.from \in Nat /\ Last.job.next \in Nat /\ Last.job \in Jobs /\ Last.superset = NoJob
  <2>1. Last.head # 0
    BY <1>1, <1>3 DEF ProofInv
  <2>2. Last.head \in Nat /\ Last.from \in Nat /\ Last.job.next \in Nat /\ Last.job \in Jobs
    BY <1>1 DEF Switches, Jobs
  <2> QED
    BY <1>1, <2>1, <2>2, BoundsAssumption DEF ProofInv, Types
<1>6. to \in Nat /\ to \in Last.job.next..Last.head
  BY <1>2, <1>5
<1>7. /\ r \in Switches /\ r.state = "FAILED" /\ r.wait = Last.wait
      /\ r.head = Last.head /\ r.from = Last.from /\ r.filters = Last.filters
      /\ r.gapIds = Last.gapIds /\ r.superset = Last.superset
      /\ r.job.first = Last.job.first /\ r.job.last = Last.job.last /\ r.job.next = to + 1
  <2>1. [Last.job EXCEPT !.next = to + 1] \in Jobs
    BY <1>5, <1>6 DEF Jobs
  <2>2. r \in Switches /\ r.job = [Last.job EXCEPT !.next = to + 1]
    BY <1>1, <1>4, <2>1 DEF Switches
  <2>3. /\ r.job.first = Last.job.first /\ r.job.last = Last.job.last /\ r.job.next = to + 1
    BY <1>5, <2>2 DEF Jobs
  <2> QED
    BY <1>1, <1>4, <2>2, <2>3 DEF Switches
<1>8. stored \subseteq stored' /\ stored' \subseteq 1..head
  <2>1. Last.job.next..to \subseteq 1..head
    BY <1>5, <1>6
  <2> QED
    BY <1>2, <2>1 DEF Types
<1>9. ProofInv(r)'
  <2>1. Grows
    BY <1>3, <1>8, BoundsAssumption DEF Grows, OpenGaps, Types, target
  <2>2. PICK s \in Switches : s = Last
    BY <1>1
  <2>3. ProofInv(s)'
    BY <1>1, <2>1, <2>2, ProofKept
  <2>4. r.job.next \in r.from..(r.head + 1)
    BY <1>5, <1>6, <1>7
  <2>5. r.from..(r.job.next - 1) \subseteq stored'
    BY <1>2, <1>5, <1>6, <1>7
  <2> QED
    BY <1>1, <1>5, <1>7, <2>2, <2>3, <2>4, <2>5 DEF ProofInv
<1>10. Reached(r) = Reached(Last) /\ r.filters # {}
  BY <1>3, <1>7 DEF Reached
<1> QED
  BY <1>1, <1>3, <1>4, <1>7, <1>8, <1>9, <1>10, OperatorRecord

(* A resumed switch has its range proved, and its filters. *)
LEMMA ResumeStep ==
  ASSUME IInv, NEW i \in DOMAIN sw, ResumeProvedFailure(i)
  PROVE  IInv'
<1> USE DEF IInv
<1>1. /\ i = Len(sw) /\ sw # <<>> /\ sw[i] = Last /\ Last \in Switches /\ ProofInv(Last)
      /\ Last.state = "FAILED" /\ PendingIds = {} /\ conn
  BY FailedFacts DEF ResumeProvedFailure, Fresh
<1>2. /\ UNCHANGED <<head, socket, work, route, subs, pending, latest, target, stored, gaps>>
      /\ Last.filters # {} /\ Last.head # 0 /\ ~active
      /\ sw' = [sw EXCEPT ![Len(sw)].state = "PROVIDER_SWITCH_RECOVERY"]
  BY <1>1 DEF ResumeProvedFailure
<1>3. PICK r : /\ sw' = [sw EXCEPT ![Len(sw)] = r]
               /\ r = [Last EXCEPT !.state = "PROVIDER_SWITCH_RECOVERY"]
  BY <1>1, <1>2 DEF Last
<1>4. /\ r \in Switches /\ r.state = "PROVIDER_SWITCH_RECOVERY" /\ r.wait = Last.wait
      /\ r.head = Last.head /\ r.from = Last.from /\ r.filters = Last.filters
      /\ r.gapIds = Last.gapIds /\ r.job = Last.job /\ r.superset = Last.superset
  BY <1>1, <1>3 DEF Switches, States
<1>5. ProofInv(r)
  BY <1>1, <1>2, <1>4 DEF ProofInv, Terminal
<1>6. ProofInv(r)'
  <2>1. Grows
    BY <1>2, BoundsAssumption DEF Grows, OpenGaps, Types, target
  <2> QED
    BY <1>4, <1>5, <2>1, ProofKept
<1>7. Reached(r) = Reached(Last) /\ stored' \subseteq 1..head
  BY <1>2, <1>4 DEF Reached, Types
<1> QED
  BY <1>1, <1>2, <1>3, <1>4, <1>6, <1>7, OperatorRecord

(* The superset proof: pinned at the head, or one span further. *)
LEMMA SupersetStep ==
  ASSUME IInv, NEW i \in DOMAIN sw, PinSuperset(i) \/ ProveSuperset(i)
  PROVE  IInv'
<1> USE DEF IInv
<1>1. /\ i = Len(sw) /\ sw # <<>> /\ sw[i] = Last /\ Last \in Switches /\ ProofInv(Last)
      /\ Last.state = "FAILED" /\ PendingIds = {} /\ conn /\ Last.head = 0 /\ Last.filters # {}
      /\ UNCHANGED <<head, socket, work, route, subs, pending, latest, target, gaps>>
  BY FailedFacts DEF PinSuperset, ProveSuperset, Recoverable, Fresh
<1>2. head \in Nat /\ head >= 1 /\ Last.superset \in Jobs
  BY <1>1, BoundsAssumption DEF Types, Switches
<1>3. PICK job \in Jobs :
         /\ sw' = [sw EXCEPT ![Len(sw)].superset = job]
         /\ job # NoJob /\ job.last \in 1..head /\ job.next \in 1..(job.last + 1)
         /\ job.last \in {head, Last.superset.last}
         /\ stored \subseteq stored' /\ stored' \subseteq 1..head
         /\ 1..(job.next - 1) \subseteq stored'
  <2>1. CASE PinSuperset(i)
    <3> DEFINE job == [first |-> 1, next |-> 1, last |-> head]
    <3>1. /\ sw' = [sw EXCEPT ![Len(sw)].superset = job] /\ stored' = stored
      BY <1>1, <2>1 DEF PinSuperset
    <3>2. job \in Jobs /\ job # NoJob
      BY <1>2 DEF Jobs, NoJob
    <3>3. /\ job.last \in 1..head /\ job.next \in 1..(job.last + 1) /\ 1..(job.next - 1) = {}
          /\ job.last = head
      BY <1>2
    <3>4. stored \subseteq stored' /\ stored' \subseteq 1..head
      BY <3>1 DEF Types
    <3> HIDE DEF job
    <3> QED
      BY <3>1, <3>2, <3>3, <3>4
  <2>2. CASE ProveSuperset(i)
    <3>1. PICK to \in Last.superset.next..Last.superset.last :
             /\ stored' = stored \cup (Last.superset.next..to)
             /\ sw' = [sw EXCEPT ![Len(sw)].superset.next = to + 1]
      BY <1>1, <2>2 DEF ProveSuperset, Logs
    <3>2. /\ Last.superset # NoJob /\ Last.superset.last \in 1..head
          /\ Last.superset.next \in 1..(Last.superset.last + 1)
          /\ 1..(Last.superset.next - 1) \subseteq stored
          /\ Last.superset.next \in Nat /\ Last.superset.last \in Nat
      BY <1>1, <1>2, <2>2 DEF ProveSuperset, ProofInv, Jobs
    <3>3. to \in Nat /\ to <= Last.superset.last
      BY <3>1, <3>2
    <3>4. PICK job : job = [Last.superset EXCEPT !.next = to + 1]
      OBVIOUS
    <3>5. job \in Jobs /\ job.next = to + 1 /\ job.last = Last.superset.last /\ job # NoJob
      BY <1>2, <3>2, <3>3, <3>4 DEF Jobs, NoJob
    <3>6. sw' = [sw EXCEPT ![Len(sw)].superset = job]
      BY <1>1, <3>1, <3>4 DEF Last
    <3>7. Last.superset.next..to \subseteq 1..head
      BY <1>2, <3>2, <3>3
    <3>8. 1..to \subseteq stored'
      BY <3>1, <3>2, <3>3
    <3>9. job.next \in 1..(job.last + 1) /\ 1..(job.next - 1) \subseteq stored'
      BY <3>2, <3>3, <3>5, <3>8
    <3> QED
      BY <3>1, <3>2, <3>5, <3>6, <3>7, <3>9 DEF Types
  <2> QED
    BY <2>1, <2>2
<1>4. PICK r : sw' = [sw EXCEPT ![Len(sw)] = r] /\ r = [Last EXCEPT !.superset = job]
  BY <1>1, <1>3 DEF Last
<1>5. /\ r \in Switches /\ r.state = "FAILED" /\ r.wait = Last.wait
      /\ r.head = 0 /\ r.from = Last.from /\ r.filters = Last.filters
      /\ r.gapIds = Last.gapIds /\ r.job = Last.job /\ r.superset = job
  BY <1>1, <1>3, <1>4 DEF Switches
<1>6. ProofInv(r)'
  <2>1. Grows
    BY <1>1, <1>3, BoundsAssumption DEF Grows, OpenGaps, Types, target
  <2>2. PICK s \in Switches : s = Last
    BY <1>1
  <2>3. ProofInv(s)'
    BY <1>1, <2>1, <2>2, ProofKept
  <2>4. head' = head
    BY <1>1
  <2> QED
    BY <1>1, <1>3, <1>5, <2>2, <2>3, <2>4 DEF ProofInv, Terminal
<1>7. Reached(r) \in {Reached(Last), head}
  BY <1>1, <1>3, <1>5 DEF Reached
<1> QED
  BY <1>1, <1>3, <1>4, <1>5, <1>6, <1>7, OperatorRecord

(* The superset proof reached its head before it closes gaps. *)
LEMMA FinishSupersetStep ==
  ASSUME IInv, NEW i \in DOMAIN sw, FinishSuperset(i)
  PROVE  IInv'
<1> USE DEF IInv
<1>1. /\ i = Len(sw) /\ sw # <<>> /\ sw[i] = Last /\ Last \in Switches /\ ProofInv(Last)
      /\ Last.state = "FAILED" /\ PendingIds = {} /\ conn /\ Last.head = 0 /\ Last.filters # {}
      /\ Last.superset # NoJob /\ Last.superset.next > Last.superset.last
      /\ Unsettled /\ Last.gapIds \subseteq DOMAIN gaps
  BY FailedFacts DEF FinishSuperset, Recoverable, Fresh
<1>2. /\ UNCHANGED <<head, socket, work, route, subs, pending, latest, target, stored>>
      /\ gaps' = Closed(Last.gapIds) /\ \A g \in Last.gapIds : gaps[g].first \in 1..Last.superset.last
      /\ sw' = [sw EXCEPT ![Len(sw)].state = "HEALTHY"]
  BY <1>1 DEF FinishSuperset
<1>3. /\ gaps' \in Seq(GapRows) /\ DOMAIN gaps' = DOMAIN gaps /\ OpenGaps' = OpenGaps \ Last.gapIds
      /\ \A g \in DOMAIN gaps : gaps'[g].first = gaps[g].first /\ gaps'[g].from = gaps[g].from
  BY <1>2, GapsClosed
<1>4. /\ head \in Nat /\ covEnd \in Nat /\ Last.superset.next \in Nat /\ Last.superset.last \in Nat
      /\ Last.superset.last \in 1..head /\ Last.superset.next = Last.superset.last + 1
      /\ 1..Last.superset.last \subseteq stored
  <2>1. /\ Last.superset.next \in Nat /\ Last.superset.last \in Nat
        /\ Last.superset.last \in 1..head /\ Last.superset.next \in 1..(Last.superset.last + 1)
        /\ 1..(Last.superset.next - 1) \subseteq stored
    BY <1>1 DEF ProofInv, Switches, Jobs
  <2>2. Last.superset.next = Last.superset.last + 1
    BY <1>1, <2>1
  <2> QED
    BY <2>1, <2>2, BoundsAssumption DEF Types
<1>5. PICK r : sw' = [sw EXCEPT ![Len(sw)] = r] /\ r = [Last EXCEPT !.state = "HEALTHY"]
  BY <1>1, <1>2 DEF Last
<1>6. /\ r \in Switches /\ r.state = "HEALTHY" /\ r.wait = Last.wait
      /\ r.head = Last.head /\ r.from = Last.from /\ r.filters = Last.filters
      /\ r.gapIds = Last.gapIds /\ r.job = Last.job /\ r.superset = Last.superset
  BY <1>1, <1>5 DEF Switches, States, Terminal
<1>7. Grows
  BY <1>2, <1>3, BoundsAssumption DEF Grows, Types, target
<1>8. ProofInv(r)'
  <2>1. PICK s \in Switches : s = Last
    BY <1>1
  <2>2. ProofInv(s)'
    BY <1>1, <1>7, <2>1, ProofKept
  <2> QED
    BY <1>1, <1>3, <1>4, <1>6, <2>1, <2>2 DEF ProofInv, Terminal
<1>9. /\ sw' \in Seq(Switches) /\ SwitchInv' /\ Last' = r /\ ~Unsettled' /\ PendingIds' = {}
  BY <1>1, <1>5, <1>6, <1>7, <1>8, LastReplaced DEF Terminal
<1>10. Types'
  <2>1. \A g \in DOMAIN gaps' : gaps'[g].first \in 0..head /\ gaps'[g].from \in 1..head
    BY <1>3 DEF Types
  <2> QED
    BY <1>2, <1>3, <1>9, <2>1 DEF Types, socket, route, target, work
<1>11. PhaseInv'
  <2>1. pc \notin Down /\ pc \notin Proving
    BY <1>1 DEF PhaseInv
  <2> QED
    BY <1>2, <1>9, <2>1 DEF PhaseInv, Down, Proving, socket, route, target, work
<1>12. Reached(Last) = Last.superset.last /\ Reached(Last) # 0
  BY <1>1, <1>4 DEF Reached
<1>13. MarkInv'
  <2>1. covEnd <= Last.superset.last
    BY <1>1, <1>12 DEF MarkInv
  <2>2. 1..covEnd \subseteq stored
    BY <1>4, <2>1
  <2> QED
    BY <1>2, <1>9, <2>2 DEF MarkInv, target
<1>14. StreamInv'
  <2>1. OpenGaps' = Separate /\ Separate' = Separate
    BY <1>1, <1>3, <1>9 DEF Separate
  <2>2. Holes' = Holes /\ \A b \in Holes : b > Last.superset.last
    BY <1>2, <1>4 DEF Holes, socket
  <2>3. \A b : Marked(Separate, b) => Marked(Separate, b)' /\ Marked(OpenGaps, b)'
    BY <1>3, <2>1 DEF Marked, OpenGaps
  <2>4. \A g \in OpenGaps : gaps[g].first = 0 => g \in OpenGaps' /\ gaps'[g].first = 0
    <3>1. \A g \in OpenGaps : g \in DOMAIN gaps
      BY DEF OpenGaps
    <3>2. \A g \in OpenGaps : gaps[g].first = 0 => g \notin Last.gapIds
      BY <1>2
    <3> QED
      BY <1>3, <3>1, <3>2
  <2>5. active' = active /\ link' = link /\ subs' = subs /\ pc' = pc
    BY <1>2 DEF socket, target, work
  <2>6. active /\ pc # "start" /\ link # "dead" => \A b \in Holes : Marked(Separate, b)
    BY <1>1, <1>12, <2>2 DEF StreamInv
  <2> QED
    BY <1>9, <2>1, <2>2, <2>3, <2>4, <2>5, <2>6 DEF StreamInv
<1> QED
  BY <1>9, <1>10, <1>11, <1>13, <1>14

(* A connection becomes the transport of the pending switch, if there is    *)
(* one.                                                                     *)
LEMMA ConnectStep ==
  ASSUME IInv, Connect
  PROVE  IInv'
<1> USE DEF IInv
<1>1. /\ pc = "down" /\ pc' = "idle" /\ conn' = TRUE /\ link' = "up"
      /\ sw' = (IF PendingIds = {} THEN sw ELSE [sw EXCEPT ![Cur] = Connected(@)])
      /\ UNCHANGED <<head, queue, upto, ws, tries, subs, pending, latest, target, stored, gaps>>
  BY DEF Connect
<1>2. link = "none" /\ ~conn /\ ~subs /\ head \in Nat
  BY <1>1, BoundsAssumption DEF PhaseInv, Down, Types
<1>3. Grows /\ Holes' = Holes /\ OpenGaps' = OpenGaps
  BY <1>1, BoundsAssumption DEF Grows, Holes, OpenGaps, Types, target
<1>4. CASE PendingIds = {}
  <2>1. Types'
    BY <1>1, <1>4 DEF Types, Phases, target
  <2>2. PendingIds' = {} /\ Last' = Last
    BY <1>1, <1>4 DEF PendingIds, Last
  <2>3. PhaseInv'
    BY <1>1, <1>2, <2>2 DEF PhaseInv, Down, Proving, target
  <2>4. MarkInv'
    BY <1>1, <1>3, <1>4, MarkKept DEF target
  <2>5. cursor <= cursor'
    BY <1>1 DEF Types, target
  <2> QED
    BY <1>1, <1>2, <1>3, <1>4, <2>1, <2>3, <2>4, <2>5, QuietStep DEF target
<1>5. CASE PendingIds # {}
  <2>1. /\ Cur = Len(sw) /\ sw # <<>> /\ sw[Cur] = Last /\ Unsettled /\ Last.state \notin Terminal
        /\ Last \in Switches /\ ProofInv(Last) /\ Last.superset = NoJob
    BY <1>5, LastFacts, LastReaches DEF Unsettled, Last, Terminal, ProofInv
  <2>2. PICK r : sw' = [sw EXCEPT ![Len(sw)] = r] /\ r = Connected(Last)
    BY <1>1, <1>5, <2>1
  <2>3. /\ r \in Switches /\ r.state = (IF Last.filters # {} THEN "CONNECTED" ELSE "HEALTHY")
        /\ r.wait = Last.wait /\ r.bound = TRUE
        /\ r.head = Last.head /\ r.from = Last.from /\ r.filters = Last.filters
        /\ r.gapIds = Last.gapIds /\ r.job = Last.job /\ r.superset = Last.superset
    <3>1. ws \in {"publicnode", "validation"} /\ {"CONNECTED", "HEALTHY"} \subseteq States
      BY DEF Types, States, Terminal
    <3> QED
      BY <2>1, <2>2, <3>1 DEF Connected, Switches
  <2>4. ProofInv(r)'
    <3>1. ProofInv(r)
      BY <2>1, <2>3 DEF ProofInv, Terminal
    <3> QED
      BY <1>3, <2>3, <3>1, ProofKept
  <2>5. /\ sw' \in Seq(Switches) /\ SwitchInv' /\ Last' = r /\ (Unsettled' <=> r.state # "HEALTHY")
        /\ PendingIds' # {} <=> r.state \notin Terminal
    BY <1>3, <2>1, <2>2, <2>3, <2>4, LastReplaced
  <2>6. Types'
    BY <1>1, <2>5 DEF Types, Phases, target
  <2>7. PhaseInv'
    BY <1>1, <1>2, <2>3, <2>5 DEF PhaseInv, Down, Proving, Terminal, target
  <2>8. Reached(r) = Reached(Last) /\ Reached(Last)' = Reached(Last)
    BY <2>3, <2>5 DEF Reached
  <2>9. MarkInv'
    BY <1>1, <1>3, <2>1, <2>5, <2>8 DEF MarkInv, Marked, target
  <2>10. Unsettled' => Separate' = Separate
    BY <1>3, <2>1, <2>3, <2>5, <2>8 DEF Separate, Terminal
  <2>11. Separate # {} => Separate' # {}
    BY <1>3, <2>5, <2>10 DEF Separate
  <2>12. StreamInv'
    BY <1>1, <1>2, <1>3, <2>1, <2>8, <2>10, <2>11 DEF StreamInv, Marked, target
  <2> QED
    BY <2>5, <2>6, <2>7, <2>9, <2>12
<1> QED
  BY <1>4, <1>5

------------------------------------------------------------------------------
(* The end of a connection: a crash, or the except branch.                  *)

(* Of two records the second says of the store what the first does, and is  *)
(* as settled.                                                              *)
SameProof(s, r) ==
    /\ r.head = s.head /\ r.from = s.from /\ r.filters = s.filters /\ r.gapIds = s.gapIds
    /\ r.job = s.job /\ r.superset = s.superset /\ r.wait = s.wait
    /\ r.state = s.state \/ (s.state \notin Terminal /\ r.state \in {"FAILED", "FAILOVER_PENDING"})

(* All records but the last keep their state. *)
Rewritten ==
    /\ sw' \in Seq(Switches) /\ Len(sw') = Len(sw)
    /\ \A i \in 1..Len(sw) : /\ SameProof(sw[i], sw'[i])
                             /\ i # Len(sw) => sw'[i].state = sw[i].state

(* Records rewritten without touching their proofs keep what they say. *)
LEMMA SwitchesRewritten ==
  ASSUME Types, SwitchInv, Grows, Rewritten
  PROVE  /\ SwitchInv' /\ (Unsettled' <=> Unsettled)
         /\ Unsettled => SameProof(Last, Last') /\ Reached(Last)' = Reached(Last)
<1>0. /\ sw' \in Seq(Switches) /\ Len(sw') = Len(sw)
      /\ \A i \in 1..Len(sw) : SameProof(sw[i], sw'[i])
      /\ \A i \in 1..Len(sw) : i # Len(sw) => sw'[i].state = sw[i].state
  BY DEF Rewritten
<1>1. sw \in Seq(Switches) /\ Len(sw) \in Nat /\ DOMAIN sw = 1..Len(sw) /\ DOMAIN sw' = 1..Len(sw)
  BY <1>0, LenProperties DEF Types
<1>2. \A i \in 1..Len(sw) : ProofInv(sw[i])'
  <2> SUFFICES ASSUME NEW i \in 1..Len(sw) PROVE ProofInv(sw[i])'
    OBVIOUS
  <2>1. PICK s \in Switches : s = sw[i]
    BY <1>0, <1>1, ElementOfSeq
  <2>2. PICK r \in Switches : r = sw'[i]
    BY <1>0, <1>1, ElementOfSeq
  <2>3. ProofInv(s) /\ SameProof(s, r)
    BY <1>0, <2>1, <2>2 DEF SwitchInv
  <2>4. ProofInv(r)
    BY <2>3 DEF ProofInv, SameProof, Terminal
  <2>5. ProofInv(r)'
    BY <2>4, ProofKept
  <2> QED
    BY <2>2, <2>5 DEF ProofInv
<1>3. SwitchInv'
  BY <1>0, <1>2 DEF SwitchInv
<1>4. sw = <<>> <=> sw' = <<>>
  BY <1>0, <1>1, EmptySeq
<1>5. sw # <<>> => Len(sw) \in 1..Len(sw) /\ Last' = sw'[Len(sw)]
  <2>1. sw # <<>> => Len(sw) \in 1..Len(sw)
    BY <1>1, LastFacts
  <2>2. Last' = sw'[Len(sw)]
    BY <1>0 DEF Last
  <2> QED
    BY <2>1, <2>2
<1>6. sw # <<>> => SameProof(Last, Last')
  BY <1>0, <1>5 DEF Last
<1>7. sw # <<>> => (Last'.state = "HEALTHY" <=> Last.state = "HEALTHY") /\ Reached(Last)' = Reached(Last)
  BY <1>6 DEF SameProof, Terminal, Reached
<1> QED
  BY <1>3, <1>4, <1>6, <1>7 DEF Unsettled

(* Ending a connection changes the binding of a record, not its proof. *)
LEMMA UnboundFacts ==
  ASSUME NEW all \in Seq(Switches)
  PROVE  /\ Unbound(all) \in Seq(Switches) /\ Len(Unbound(all)) = Len(all)
         /\ \A i \in 1..Len(all) : /\ SameProof(all[i], Unbound(all)[i])
                                   /\ Unbound(all)[i].state = all[i].state
<1>1. DOMAIN all = 1..Len(all) /\ Len(all) \in Nat /\ \A i \in 1..Len(all) : all[i] \in Switches
  BY LenProperties, ElementOfSeq
<1>2. \A s \in Switches : /\ [s EXCEPT !.bound = FALSE] \in Switches
                          /\ SameProof(s, [s EXCEPT !.bound = FALSE])
                          /\ [s EXCEPT !.bound = FALSE].state = s.state
  BY DEF Switches, SameProof
<1>3. Unbound(all) \in [1..Len(all) -> Switches]
  BY <1>1, <1>2 DEF Unbound
<1>4. Unbound(all) \in Seq(Switches) /\ Len(Unbound(all)) = Len(all)
  BY <1>1, <1>3, LenProperties
<1> QED
  BY <1>1, <1>2, <1>4 DEF Unbound

(* A crash loses the memory of the worker and no row. *)
LEMMA CrashStep ==
  ASSUME IInv, Crash
  PROVE  IInv'
<1> USE DEF IInv
<1>1. /\ pc' = "start" /\ link' = "none" /\ queue' = {} /\ ws' = "publicnode" /\ tries' = 0
      /\ conn' = FALSE /\ subs' = FALSE /\ pending' = FALSE /\ latest' = 0 /\ upto' = 0
      /\ sw' = Unbound(sw) /\ UNCHANGED <<head, target, stored, gaps>>
  BY DEF Crash
<1>2. Grows /\ OpenGaps' = OpenGaps
  BY <1>1, BoundsAssumption DEF Grows, OpenGaps, Types, target
<1>3. /\ sw' \in Seq(Switches) /\ Len(sw') = Len(sw)
      /\ \A i \in 1..Len(sw) : SameProof(sw[i], sw'[i]) /\ sw'[i].state = sw[i].state
  BY <1>1, UnboundFacts DEF Types
<1>4. /\ SwitchInv' /\ (Unsettled' <=> Unsettled)
      /\ Unsettled => Reached(Last)' = Reached(Last)
  BY <1>2, <1>3, SwitchesRewritten DEF Rewritten
<1>5. Types'
  <2>1. 0 \in 0..head
    BY BoundsAssumption DEF Types
  <2>2. /\ head' = head /\ active' = active /\ cursor' = cursor /\ covEnd' = covEnd
        /\ lcb' = lcb /\ stored' = stored /\ gaps' = gaps
    BY <1>1 DEF target
  <2>3. latest' \in 0..head /\ upto' \in Nat /\ queue' \subseteq 1..head
    BY <1>1, <2>1
  <2>4. /\ gaps' \in Seq(GapRows) /\ stored' \subseteq 1..head'
        /\ \A g \in DOMAIN gaps' : gaps'[g].first \in 0..head' /\ gaps'[g].from \in 1..head'
    BY <2>2 DEF Types
  <2>5. /\ head' \in 1..MaxBlock /\ cursor' \in 1..head' /\ covEnd' \in 1..head'
        /\ lcb' \in 0..head' /\ active' \in BOOLEAN
    BY <2>2 DEF Types
  <2>6. /\ link' \in {"none", "up", "dead"} /\ pc' \in Phases /\ ws' \in {"publicnode", "validation"}
        /\ tries' \in 0..1 /\ conn' \in BOOLEAN /\ subs' \in BOOLEAN /\ pending' \in BOOLEAN
    <3>1. /\ pc' = "start" /\ link' = "none" /\ ws' = "publicnode" /\ tries' = 0
          /\ conn' = FALSE /\ subs' = FALSE /\ pending' = FALSE
      BY <1>1
    <3>2. tries' \in 0..1 /\ pc' \in Phases
      BY <3>1 DEF Phases, Down
    <3>3. conn' \in BOOLEAN /\ subs' \in BOOLEAN /\ pending' \in BOOLEAN
      BY <3>1, Zenon
    <3> QED
      BY <3>1, <3>2, <3>3
  <2> QED
    BY <1>3, <2>2, <2>3, <2>4, <2>5, <2>6 DEF Types
<1>6. PhaseInv'
  BY <1>1 DEF PhaseInv, Down, Proving
<1>7. MarkInv'
  BY <1>1, <1>2, <1>4 DEF MarkInv, Marked, target
<1>8. StreamInv'
  BY <1>1 DEF StreamInv
<1> QED
  BY <1>4, <1>5, <1>6, <1>7, <1>8

(* A switch starts behind settled ones. *)
LEMMA SwitchAppended ==
  ASSUME Types, SwitchInv, Grows, ~Unsettled, NEW all \in Seq(Switches), Len(all) = Len(sw),
         \A i \in 1..Len(sw) : SameProof(sw[i], all[i]) /\ all[i].state = sw[i].state,
         NEW r \in Switches, ProofInv(r)', r.state \notin Terminal, sw' = Append(all, r)
  PROVE  sw' \in Seq(Switches) /\ SwitchInv' /\ Unsettled' /\ Last' = r
<1>1. sw \in Seq(Switches) /\ Len(sw) \in Nat
  BY LenProperties DEF Types
<1>2. /\ sw' \in Seq(Switches) /\ Len(sw') = Len(sw) + 1 /\ sw'[Len(sw) + 1] = r
      /\ \A i \in 1..Len(sw) : sw'[i] = all[i]
  BY AppendProperties
<1>3. Last' = r /\ Unsettled'
  <2>1. sw' # <<>>
    BY <1>1, <1>2, EmptySeq
  <2> QED
    BY <1>2, <2>1 DEF Last, Unsettled, Terminal
<1>4. \A i \in 1..Len(sw) : sw[i].state = "HEALTHY"
  BY LastFacts DEF Unsettled, Last, SwitchInv
<1>5. \A i \in 1..(Len(sw) + 1) : ProofInv(sw[i])'
  <2> SUFFICES ASSUME NEW i \in 1..(Len(sw) + 1) PROVE ProofInv(sw[i])'
    OBVIOUS
  <2>1. CASE i = Len(sw) + 1
    BY <1>2, <2>1 DEF ProofInv
  <2>2. CASE i # Len(sw) + 1
    <3>1. i \in 1..Len(sw)
      BY <1>1, <2>2
    <3>2. PICK s \in Switches, q \in Switches : s = sw[i] /\ q = all[i]
      BY <1>1, <3>1, ElementOfSeq
    <3>3. ProofInv(s) /\ SameProof(s, q) /\ q.state = s.state
      BY <3>1, <3>2 DEF SwitchInv
    <3>4. ProofInv(q)
      BY <3>3 DEF ProofInv, SameProof
    <3>5. ProofInv(q)'
      BY <3>4, ProofKept
    <3>6. sw'[i] = q
      BY <1>2, <3>1, <3>2
    <3> QED
      BY <3>5, <3>6 DEF ProofInv
  <2> QED
    BY <2>1, <2>2
<1>6. SwitchInv'
  BY <1>1, <1>2, <1>4, <1>5 DEF SwitchInv, SameProof
<1> QED
  BY <1>2, <1>3, <1>6

(* The four outcomes of the except branch: the pending switch has failed,   *)
(* or goes on; a failed one blocks a new one; or there is a new one.        *)
LEMMA HandleLossStep ==
  ASSUME IInv, HandleLoss,
         pc = "down" \/ (pc \notin Down /\ conn)
  PROVE  IInv'
<1> USE DEF IInv
<1> DEFINE lost == PendingIds # {} /\ conn /\ sw[Cur].bound
           kept == PendingIds # {} /\ ~lost
           sw1  == Unbound(IF lost THEN [sw EXCEPT ![Cur] = FailSwitch(@)] ELSE sw)
           gap1 == IF kept \/ ~active THEN gaps ELSE Append(gaps, OutageGap)
           free == ~lost /\ ~Blocked
           new  == NewSwitch(IF active THEN {Len(gap1)} ELSE {})
           sw2  == IF kept \/ ~free THEN sw1 ELSE Append(sw1, new)
           over == ws = "publicnode" /\ tries >= 1
<1>1. /\ gaps' = gap1
      /\ sw' = IF over /\ free THEN [sw2 EXCEPT ![Len(sw2)] = FailedOver(@)] ELSE sw2
      /\ ws' = (IF over THEN "validation" ELSE ws)
      /\ tries' = (IF ws' = "validation" THEN 0 ELSE 1)
      /\ conn' = FALSE /\ link' = "none" /\ pc' = "backoff" /\ upto' = 0
      /\ UNCHANGED <<head, queue, subs, pending, latest, target, stored>>
  BY DEF HandleLoss, Kept
<1>2. /\ PendingIds # {} => /\ Cur = Len(sw) /\ Unsettled /\ Last.state \notin Terminal /\ ~Blocked
                            /\ sw[Cur] = Last
      /\ PendingIds = {} /\ ~Blocked => ~Unsettled
      /\ Blocked => Unsettled /\ Last.state = "FAILED" /\ PendingIds = {}
  BY LastFacts DEF Unsettled, Last, Terminal
<1>3. /\ sw \in Seq(Switches) /\ Len(sw) \in Nat /\ head \in Nat /\ covEnd \in 1..head
      /\ lcb \in 0..head /\ cursor \in 1..head
  BY LenProperties, BoundsAssumption DEF Types
<1>4. /\ gaps' \in Seq(GapRows)
      /\ \A g \in DOMAIN gaps' : gaps'[g].first \in 0..head /\ gaps'[g].from \in 1..head
      /\ Grows /\ OpenGaps \subseteq OpenGaps'
      /\ \A c : Marked(OpenGaps, c) => Marked(OpenGaps, c)'
      /\ active /\ ~kept => /\ gaps' = Append(gaps, Gap(lcb, covEnd))
                            /\ Len(gaps) + 1 \in OpenGaps' /\ Len(gaps) + 1 \notin DOMAIN gaps
      /\ kept \/ ~active => gaps' = gaps
  <2>1. CASE kept \/ ~active
    <3>1. gaps' = gaps
      BY <1>1, <2>1
    <3>2. OpenGaps' = OpenGaps
      BY <3>1 DEF OpenGaps
    <3>3. Grows
      BY <1>1, <1>3, <3>1, <3>2 DEF Grows, Types, target
    <3> QED
      BY <2>1, <3>1, <3>2, <3>3 DEF Types, Marked
  <2>2. CASE active /\ ~kept
    <3>1. gaps' = Append(gaps, Gap(lcb, covEnd))
      BY <1>1, <2>2 DEF OutageGap
    <3> QED
      BY <1>1, <1>3, <2>2, <3>1, GapAppended, GapRecorded DEF target
  <2> QED
    BY <2>1, <2>2
<1>5. sw' \in Seq(Switches) => Types'
  <2>1. tries' \in 0..1 /\ upto' \in Nat /\ pc' \in Phases
    BY <1>1 DEF Phases, Down
  <2>2. ws' \in {"publicnode", "validation"} /\ link' \in {"none", "up", "dead"}
    BY <1>1 DEF Types
  <2>3. conn' \in BOOLEAN
    BY <1>1
  <2> QED
    BY <1>1, <1>4, <2>1, <2>2, <2>3 DEF Types, target
<1>6. PhaseInv'
  BY <1>1 DEF PhaseInv, Down, Proving, target
<1>7. CASE Unsettled
  <2>1. PICK s1 : s1 = IF lost THEN [sw EXCEPT ![Cur] = FailSwitch(@)] ELSE sw
    OBVIOUS
  <2>2. /\ s1 \in Seq(Switches) /\ Len(s1) = Len(sw)
        /\ \A i \in 1..Len(sw) : SameProof(sw[i], s1[i]) /\ (i # Len(sw) => s1[i].state = sw[i].state)
    <3>1. \A i \in 1..Len(sw) : sw[i] \in Switches
      BY <1>3, ElementOfSeq
    <3>2. CASE ~lost
      BY <1>3, <2>1, <3>2 DEF SameProof
    <3>3. CASE lost
      <4>1. /\ s1 = [sw EXCEPT ![Len(sw)] = FailSwitch(Last)]
            /\ Last \in Switches /\ Len(sw) \in 1..Len(sw) /\ Last = sw[Len(sw)]
        BY <1>2, <2>1, <3>3, LastFacts, LenProperties DEF Types, Unsettled, Last
      <4>2. FailSwitch(Last) \in Switches
        BY <1>3, <4>1 DEF FailSwitch, Switches, States, Terminal
      <4>3. SameProof(Last, FailSwitch(Last))
        BY <1>2, <3>3, <4>1 DEF FailSwitch, Switches, SameProof
      <4>4. /\ s1 \in Seq(Switches) /\ Len(s1) = Len(sw)
            /\ \A i \in 1..Len(sw) : s1[i] = IF i = Len(sw) THEN FailSwitch(Last) ELSE sw[i]
        BY <1>3, <4>1, <4>2, ExceptSeq
      <4> QED
        BY <4>1, <4>3, <4>4 DEF SameProof
    <3> QED
      BY <3>2, <3>3
  <2>3. PICK s2 : s2 = Unbound(s1)
    OBVIOUS
  <2>4. /\ s2 \in Seq(Switches) /\ Len(s2) = Len(sw)
        /\ \A i \in 1..Len(sw) : SameProof(s1[i], s2[i]) /\ s2[i].state = s1[i].state
    BY <2>2, <2>3, UnboundFacts
  <2>5. sw' = IF over /\ free THEN [s2 EXCEPT ![Len(sw)] = FailedOver(s2[Len(sw)])] ELSE s2
    <3>1. kept \/ ~free
      BY <1>2, <1>7
    <3> QED
      BY <1>1, <2>1, <2>3, <2>4, <3>1
  <2>6. /\ sw' \in Seq(Switches) /\ Len(sw') = Len(sw)
        /\ \A i \in 1..Len(sw) : /\ SameProof(sw[i], sw'[i])
                                 /\ i # Len(sw) => sw'[i].state = sw[i].state
    <3>1. \A i \in 1..Len(sw) : SameProof(sw[i], s2[i]) /\ (i # Len(sw) => s2[i].state = sw[i].state)
      BY <2>2, <2>4 DEF SameProof
    <3>2. CASE ~(over /\ free)
      BY <2>4, <2>5, <3>1, <3>2
    <3>3. CASE over /\ free
      <4>1. PICK s \in Switches : s = s2[Len(sw)] /\ Len(sw) \in 1..Len(sw)
        BY <1>7, <2>4, LastFacts, LenProperties, ElementOfSeq DEF Types, Unsettled
      <4>2. ~lost /\ s.state \notin Terminal
        <5>1. PendingIds # {} /\ ~lost /\ s1 = sw
          BY <1>2, <1>7, <2>1, <3>3
        <5> QED
          BY <1>2, <2>4, <4>1, <5>1 DEF Last
      <4>3. FailedOver(s) \in Switches /\ SameProof(s, FailedOver(s))
            /\ FailedOver(s).state = "FAILOVER_PENDING"
        BY <4>1, <4>2 DEF FailedOver, Switches, States, SameProof
      <4>4. /\ sw' \in Seq(Switches) /\ Len(sw') = Len(sw)
            /\ \A i \in 1..Len(sw) : sw'[i] = IF i = Len(sw) THEN FailedOver(s) ELSE s2[i]
        BY <2>4, <2>5, <3>3, <4>1, <4>3, ExceptSeq
      <4>5. sw[Len(sw)].state \notin Terminal
        BY <1>2, <1>7, <3>3 DEF Last
      <4> QED
        BY <3>1, <4>1, <4>3, <4>4, <4>5 DEF SameProof
    <3> QED
      BY <3>2, <3>3
  <2>7. /\ SwitchInv' /\ Unsettled' /\ SameProof(Last, Last') /\ Reached(Last)' = Reached(Last)
    <3>1. Rewritten
      BY <2>6 DEF Rewritten
    <3> QED
      BY <1>4, <1>7, <3>1, SwitchesRewritten
  <2>8. Reached(Last) \in Nat /\ Last.gapIds \subseteq DOMAIN gaps
    BY <1>3, <1>7, LastReaches DEF Unsettled
  <2>9. MarkInv' /\ StreamInv'
    <3>1. CASE active /\ ~kept
      <4>1. Len(gaps) + 1 \in Separate'
        BY <1>4, <2>7, <2>8, <3>1 DEF Separate, SameProof
      <4>2. Reached(Last)' # 0 => Reached(Last)' \in Nat /\ covEnd <= Reached(Last)'
        BY <1>7, <2>7, <2>8 DEF MarkInv
      <4> QED
        BY <1>1, <1>3, <1>4, <3>1, <4>1, <4>2, OutageRecorded DEF target
    <3>2. CASE ~active
      <4>1. MarkInv'
        BY <1>1, <1>4, <1>7, <2>7 DEF MarkInv, target
      <4>2. StreamInv'
        BY <1>1, <3>2 DEF StreamInv, target
      <4> QED
        BY <4>1, <4>2
    <3>3. CASE active /\ kept
      <4>1. pc = "down" /\ gaps' = gaps /\ OpenGaps' = OpenGaps
        <5>1. pc # "down" => Last.bound
          BY <1>2, <3>3 DEF PhaseInv
        <5> QED
          BY <1>2, <1>4, <3>3, <5>1 DEF OpenGaps
      <4>2. link = "none"
        BY <4>1 DEF PhaseInv, Down
      <4>3. Last.state # "FAILED" /\ Last'.state # "FAILED"
        <5>1. s1 = sw
          BY <2>1, <3>3
        <5>2. sw'[Len(sw)].state \in {Last.state, "FAILOVER_PENDING"} /\ Last' = sw'[Len(sw)]
          <6>1. s2[Len(sw)].state = Last.state /\ Len(sw) \in DOMAIN s2
            BY <1>7, <2>4, <5>1, LastFacts, LenProperties DEF Types, Unsettled, Last
          <6>2. Last' = sw'[Len(sw)]
            BY <2>6 DEF Last
          <6>3. CASE ~(over /\ free)
            BY <2>5, <6>1, <6>2, <6>3
          <6>4. CASE over /\ free
            <7>1. PICK s \in Switches : s = s2[Len(sw)]
              BY <2>4, <6>1, LenProperties, ElementOfSeq
            <7>2. sw'[Len(sw)] = FailedOver(s)
              BY <2>5, <6>1, <6>4, <7>1
            <7> QED
              BY <6>2, <7>1, <7>2 DEF FailedOver, Switches
          <6> QED
            BY <6>3, <6>4
        <5> QED
          BY <1>2, <3>3, <5>2 DEF Terminal
      <4>4. Separate' = Separate
        BY <1>7, <2>7, <4>1, <4>3 DEF Separate, SameProof
      <4>5. Holes' = Holes
        BY <1>1 DEF Holes
      <4>6. MarkInv'
        BY <1>1, <1>4, <1>7, <2>7 DEF MarkInv, target
      <4>7. StreamInv'
        BY <1>1, <1>7, <2>7, <4>1, <4>2, <4>4, <4>5 DEF StreamInv, Marked, target
      <4> QED
        BY <4>6, <4>7
    <3> QED
      BY <3>1, <3>2, <3>3
  <2> QED
    BY <1>5, <1>6, <2>6, <2>7, <2>9
<1>8. CASE ~Unsettled
  <2>1. PendingIds = {} /\ ~Blocked /\ ~lost /\ ~kept /\ free
    BY <1>2, <1>8
  <2>2. PICK all : all = Unbound(sw)
    OBVIOUS
  <2>3. /\ all \in Seq(Switches) /\ Len(all) = Len(sw)
        /\ \A i \in 1..Len(sw) : SameProof(sw[i], all[i]) /\ all[i].state = sw[i].state
    BY <1>3, <2>2, UnboundFacts
  <2>4. PICK n : n = NewSwitch(IF active THEN {Len(gaps')} ELSE {})
    OBVIOUS
  <2>5. sw' = IF over THEN [Append(all, n) EXCEPT ![Len(Append(all, n))] = FailedOver(@)]
              ELSE Append(all, n)
    BY <1>1, <2>1, <2>2, <2>4
  <2>6. /\ n \in Switches /\ n.state = "DISCONNECTED" /\ n.wait = "none" /\ n.head = 0 /\ n.from = 0
        /\ n.job = NoJob /\ n.superset = NoJob /\ n.filters \subseteq 1..cursor
        /\ n.gapIds \subseteq DOMAIN gaps'
    <3>1. n.gapIds \subseteq DOMAIN gaps' /\ n.gapIds \subseteq Nat
      <4>1. active => Len(gaps') \in DOMAIN gaps' /\ Len(gaps') \in Nat
        <5>1. active => gaps' # <<>>
          BY <1>4, <2>1, EmptySeq DEF OpenGaps
        <5> QED
          BY <1>4, <5>1, LenProperties, EmptySeq
      <4> QED
        BY <2>4, <4>1 DEF NewSwitch
    <3>2. n.filters \subseteq 1..cursor /\ n.filters \subseteq Nat
      BY <1>3, <2>4 DEF NewSwitch, SwitchFilters
    <3>3. NoJob \in Jobs /\ {"DISCONNECTED", "none"} \subseteq States \cup {"none"}
      BY DEF NoJob, Jobs, States
    <3> QED
      BY <2>4, <3>1, <3>2, <3>3 DEF NewSwitch, Switches, States
  <2>7. PICK r : r = IF over THEN FailedOver(n) ELSE n
    OBVIOUS
  <2>8. /\ r \in Switches /\ r.state \in {"DISCONNECTED", "FAILOVER_PENDING"} /\ r.wait = "none"
        /\ r.head = 0 /\ r.from = 0 /\ r.job = NoJob /\ r.superset = NoJob
        /\ r.filters = n.filters /\ r.gapIds = n.gapIds
    BY <2>6, <2>7 DEF FailedOver, Switches, States
  <2>9. sw' = Append(all, r)
    <3>1. CASE ~over
      BY <2>5, <2>7, <3>1
    <3>2. CASE over
      <4>1. /\ Append(all, n) \in Seq(Switches) /\ Len(Append(all, n)) = Len(all) + 1
            /\ Append(all, n)[Len(all) + 1] = n
            /\ \A i \in 1..Len(all) : Append(all, n)[i] = all[i]
        BY <2>3, <2>6, AppendProperties
      <4>2. /\ Append(all, r) \in Seq(Switches) /\ Len(Append(all, r)) = Len(all) + 1
            /\ Append(all, r)[Len(all) + 1] = r
            /\ \A i \in 1..Len(all) : Append(all, r)[i] = all[i]
        BY <2>3, <2>8, AppendProperties
      <4>3. Len(all) \in Nat
        BY <1>3, <2>3
      <4>4. sw' = [Append(all, n) EXCEPT ![Len(all) + 1] = r]
        BY <2>5, <2>7, <3>2, <4>1, <4>3, LenProperties
      <4>5. /\ sw' \in Seq(Switches) /\ Len(sw') = Len(all) + 1
            /\ \A i \in 1..(Len(all) + 1) : sw'[i] = IF i = Len(all) + 1 THEN r ELSE Append(all, n)[i]
        <5>1. PICK q \in Seq(Switches) : q = Append(all, n)
          BY <4>1
        <5>2. Len(all) + 1 \in 1..Len(q) /\ Len(q) = Len(all) + 1
          BY <4>1, <4>3, <5>1
        <5>3. /\ [q EXCEPT ![Len(all) + 1] = r] \in Seq(Switches)
              /\ Len([q EXCEPT ![Len(all) + 1] = r]) = Len(q)
              /\ \A j \in 1..Len(q) : [q EXCEPT ![Len(all) + 1] = r][j] = IF j = Len(all) + 1 THEN r ELSE q[j]
          BY <2>8, <5>2, ExceptSeq
        <5> QED
          BY <4>4, <5>1, <5>2, <5>3
      <4>6. \A i \in 1..Len(sw') : sw'[i] = Append(all, r)[i]
        BY <4>1, <4>2, <4>3, <4>5
      <4> QED
        BY <4>2, <4>5, <4>6, SeqEqual
    <3> QED
      BY <3>1, <3>2
  <2>10. ProofInv(r)'
    BY <1>1, <2>6, <2>8 DEF ProofInv, Terminal, target
  <2>11. sw' \in Seq(Switches) /\ SwitchInv' /\ Unsettled' /\ Last' = r
    BY <1>4, <1>8, <2>3, <2>8, <2>9, <2>10, SwitchAppended DEF Terminal
  <2>12. Separate' = OpenGaps' /\ Reached(Last)' = 0
    BY <2>8, <2>11 DEF Separate, Reached, NoJob
  <2>13. CASE active
    <3>1. Len(gaps) + 1 \in Separate'
      BY <1>4, <2>1, <2>12, <2>13
    <3>2. MarkInv' /\ StreamInv'
      BY <1>1, <1>3, <1>4, <2>1, <2>12, <2>13, <3>1, OutageRecorded DEF target
    <3> QED
      BY <1>5, <1>6, <2>11, <3>2
  <2>14. CASE ~active
    <3>1. MarkInv'
      BY <1>1, <1>4, <2>12 DEF MarkInv, target
    <3>2. StreamInv'
      BY <1>1, <2>14 DEF StreamInv, target
    <3> QED
      BY <1>5, <1>6, <2>11, <3>1, <3>2
  <2> QED
    BY <2>13, <2>14
<1> QED
  BY <1>7, <1>8

------------------------------------------------------------------------------
(* The invariant, and what it gives.                                        *)

(* A lost or refused connection, when the socket was up and when it was not. *)
LEMMA LossStep ==
  ASSUME IInv, NoticeLoss \/ ConnectFails
  PROVE  IInv'
<1>1. CASE NoticeLoss
  <2>1. HandleLoss /\ pc \notin Down /\ link = "dead"
    BY <1>1 DEF NoticeLoss, Down
  <2>2. conn
    BY <2>1 DEF IInv, PhaseInv
  <2> QED
    BY <2>1, <2>2, HandleLossStep
<1>2. CASE ConnectFails
  BY <1>2, HandleLossStep DEF ConnectFails
<1> QED
  BY <1>1, <1>2

(* Every step keeps the invariant. *)
LEMMA NextStep ==
  ASSUME IInv, [Next]_vars
  PROVE  IInv'
<1>1. CASE Next
  <2>1. CASE Operator
    <3>1. PICK i \in DOMAIN sw : \/ ProveFailed(i) \/ ResumeProvedFailure(i)
                                 \/ PinSuperset(i) \/ ProveSuperset(i) \/ FinishSuperset(i)
      BY <2>1 DEF Operator
    <3> QED
      BY <3>1, ProveFailedStep, ResumeStep, SupersetStep, FinishSupersetStep
  <2>2. CASE Mine \/ Worker \/ Expire \/ StillWaiting \/ Fault
    BY <2>2, MineStep, LinkDiesStep, DrainStep, TickStep, GapStep, ProveStep, PromoteStep, FinishStep,
       RecoverStep, RecoveryFailsStep, CloseGapsStep, BeginProofStep, FreezeStep, BudgetWaitStep,
       FreezeFailsStep, CommitRangeStep, HealthyStep, ConnectStep, CrashStep, LossStep
    DEF Worker, Fault
  <2> QED
    BY <1>1, <2>1, <2>2 DEF Next
<1>2. CASE UNCHANGED vars
  <2>1. /\ UNCHANGED <<head, link, queue, pc, ws, tries, conn, subs, pending, latest, upto>>
        /\ UNCHANGED <<active, cursor, covEnd, lcb, stored, gaps, sw>>
    BY <1>2 DEF vars, socket, work, route, target
  <2>2. Types'
    BY <2>1 DEF IInv, Types
  <2>3. SwitchInv'
    BY <2>1 DEF IInv, SwitchInv, ProofInv, OpenGaps
  <2>4. PhaseInv'
    BY <2>1 DEF IInv, PhaseInv, PendingIds, Last, OpenGaps
  <2>5. MarkInv'
    BY <2>1 DEF IInv, MarkInv, Marked, OpenGaps, Unsettled, Last, Reached
  <2>6. StreamInv'
    BY <2>1 DEF IInv, StreamInv, Marked, OpenGaps, Separate, Holes, Unsettled, Last, Reached
  <2> QED
    BY <2>2, <2>3, <2>4, <2>5, <2>6 DEF IInv
<1> QED
  BY <1>1, <1>2

(* The invariant of every reachable state, for a chain of any length and    *)
(* any number of faults.                                                    *)
THEOREM InductiveInvariant == Spec => []IInv
<1>1. Init => IInv
  BY InitInvariant
<1>2. IInv /\ [Next]_vars => IInv'
  BY NextStep
<1> QED
  BY <1>1, <1>2, PTL DEF Spec

(* The types, and that at most one switch is neither healthy nor failed: a  *)
(* new one starts only behind settled ones.                                 *)
THEOREM TypeCorrect == Spec => []TypeOK
<1>1. IInv => TypeOK
  <2> SUFFICES ASSUME IInv PROVE TypeOK
    OBVIOUS
  <2> USE DEF IInv
  <2>1. PendingIds \subseteq {Len(sw)}
    BY LastFacts
  <2>2. Cardinality(PendingIds) <= 1
    <3>1. IsFiniteSet({Len(sw)}) /\ Cardinality({Len(sw)}) = 1
      BY FS_Singleton
    <3>2. Cardinality(PendingIds) <= Cardinality({Len(sw)})
      BY <2>1, <3>1, FS_Subset
    <3> QED
      BY <3>1, <3>2
  <2>3. \A i \in DOMAIN sw : sw[i].state \in States /\ sw[i].gapIds \subseteq DOMAIN gaps
    <3>1. DOMAIN sw = 1..Len(sw) /\ \A i \in 1..Len(sw) : sw[i] \in Switches
      BY LenProperties, ElementOfSeq DEF Types
    <3> QED
      BY <3>1 DEF SwitchInv, ProofInv, Switches
  <2> QED
    BY <2>2, <2>3 DEF Types, TypeOK, Blocks
<1> QED
  BY <1>1, InductiveInvariant, PTL

(* A switch that says HEALTHY has the outage stored and its gaps closed.    *)
THEOREM HealthyProved == Spec => []HealthyIsProved
<1>1. IInv => HealthyIsProved
  <2> SUFFICES ASSUME IInv, NEW i \in DOMAIN sw, sw[i].state = "HEALTHY", sw[i].filters # {}
               PROVE  /\ \/ sw[i].head # 0 /\ sw[i].from..sw[i].head \subseteq stored
                         \/ sw[i].head = 0 /\ 1..sw[i].superset.last \subseteq stored
                      /\ sw[i].gapIds \cap OpenGaps = {}
    BY DEF HealthyIsProved
  <2>1. i \in 1..Len(sw) /\ sw[i] \in Switches
    BY LenProperties, ElementOfSeq DEF IInv, Types
  <2>2. ProofInv(sw[i])
    BY <2>1 DEF IInv, SwitchInv
  <2>3. sw[i].head \in Nat /\ sw[i].superset.last \in Nat
    BY <2>1 DEF Switches, Jobs
  <2> QED
    BY <2>2, <2>3 DEF ProofInv
<1> QED
  BY <1>1, InductiveInvariant, PTL

(* A list of records that keeps every frozen boundary, and its gaps.        *)
Boundary(s, r) == r.head = s.head /\ r.from = s.from /\ r.gapIds = s.gapIds
Keeps(all)     == \A i \in DOMAIN sw : sw[i].head # 0 => Boundary(sw[i], all[i])

(* A loss may fail, keep or add a switch; it moves no boundary. *)
LEMMA LossKeepsBoundary ==
  ASSUME IInv, HandleLoss
  PROVE  Keeps(sw')
<1> USE DEF IInv
<1>1. /\ sw \in Seq(Switches) /\ DOMAIN sw = 1..Len(sw) /\ Len(sw) \in Nat /\ head \in Nat
      /\ \A i \in 1..Len(sw) : sw[i] \in Switches
  BY LenProperties, ElementOfSeq, BoundsAssumption DEF Types
<1>2. PICK lost \in BOOLEAN : lost = (PendingIds # {} /\ conn /\ sw[Cur].bound)
  OBVIOUS
<1>3. PICK s1 : s1 = IF lost THEN [sw EXCEPT ![Cur] = FailSwitch(@)] ELSE sw
  OBVIOUS
<1>4. /\ s1 \in [1..Len(sw) -> Switches]
      /\ \A i \in 1..Len(sw) : Boundary(sw[i], s1[i])
  <2>1. \A s \in Switches : FailSwitch(s) \in Switches /\ Boundary(s, FailSwitch(s))
    BY <1>1 DEF FailSwitch, Switches, States, Terminal, Boundary
  <2>2. \A s : Boundary(s, s)
    BY DEF Boundary
  <2>3. s1 \in [1..Len(sw) -> Switches]
    <3>1. sw \in [1..Len(sw) -> Switches]
      BY <1>1
    <3>2. CASE ~lost
      BY <1>3, <3>1, <3>2
    <3>3. CASE lost
      <4>1. s1 = [i \in 1..Len(sw) |-> IF i = Cur THEN FailSwitch(sw[Cur]) ELSE sw[i]]
        BY <1>3, <3>1, <3>3
      <4> QED
        BY <1>1, <2>1, <4>1
    <3> QED
      BY <1>2, <3>2, <3>3
  <2>4. \A i \in 1..Len(sw) : s1[i] = sw[i] \/ s1[i] = FailSwitch(sw[i])
    BY <1>1, <1>3
  <2> QED
    BY <1>1, <2>1, <2>2, <2>3, <2>4
<1>5. PICK s2 : s2 = Unbound(s1)
  OBVIOUS
<1>6. /\ s2 \in [1..Len(sw) -> Switches] /\ s2 \in Seq(Switches) /\ Len(s2) = Len(sw)
      /\ \A i \in 1..Len(sw) : Boundary(sw[i], s2[i])
  <2>1. \A s \in Switches : [s EXCEPT !.bound = FALSE] \in Switches /\ Boundary(s, [s EXCEPT !.bound = FALSE])
    BY DEF Switches, Boundary
  <2>2. \A i \in 1..Len(sw) : s2[i] = [s1[i] EXCEPT !.bound = FALSE]
    BY <1>4, <1>5 DEF Unbound
  <2>3. s2 \in [1..Len(sw) -> Switches]
    BY <1>4, <1>5, <2>1 DEF Unbound
  <2>4. s2 \in Seq(Switches) /\ Len(s2) = Len(sw)
    BY <1>1, <2>3, LenProperties
  <2>5. \A i \in 1..Len(sw) : Boundary(s1[i], s2[i])
    BY <1>4, <2>1, <2>2
  <2> QED
    BY <1>4, <2>3, <2>4, <2>5 DEF Boundary
<1>7. \/ sw' = s2
      \/ sw' = [s2 EXCEPT ![Len(s2)] = FailedOver(@)]
      \/ \E n : sw' = Append(s2, n)
      \/ \E n : sw' = [Append(s2, n) EXCEPT ![Len(Append(s2, n))] = FailedOver(@)]
  BY <1>2, <1>3, <1>5 DEF HandleLoss
<1>8. CASE sw' = s2
  BY <1>1, <1>6, <1>8 DEF Keeps
<1>9. CASE sw' = [s2 EXCEPT ![Len(s2)] = FailedOver(@)]
  <2>1. \A s \in Switches : Boundary(s, FailedOver(s))
    BY DEF FailedOver, Switches, Boundary
  <2>2. \A i \in 1..Len(sw) : sw'[i] = s2[i] \/ sw'[i] = FailedOver(s2[i])
    BY <1>6, <1>9
  <2> QED
    BY <1>1, <1>6, <2>1, <2>2 DEF Keeps, Boundary
<1>10. ASSUME NEW n, \/ sw' = Append(s2, n)
                     \/ sw' = [Append(s2, n) EXCEPT ![Len(Append(s2, n))] = FailedOver(@)]
       PROVE  Keeps(sw')
  <2>1. s2 \in Seq(Switches \cup {n}) /\ n \in Switches \cup {n}
    BY <1>1, <1>6
  <2>2. /\ Len(Append(s2, n)) = Len(sw) + 1
        /\ \A i \in 1..Len(sw) : Append(s2, n)[i] = s2[i]
        /\ DOMAIN Append(s2, n) = 1..(Len(sw) + 1)
    BY <1>1, <1>6, <2>1, AppendProperties, LenProperties
  <2>3. \A i \in 1..Len(sw) : sw'[i] = s2[i]
    <3>1. CASE sw' = Append(s2, n)
      BY <2>2, <3>1
    <3>2. CASE sw' = [Append(s2, n) EXCEPT ![Len(Append(s2, n))] = FailedOver(@)]
      <4>1. \A i \in 1..Len(sw) : i # Len(sw) + 1 /\ i \in 1..(Len(sw) + 1)
        BY <1>1
      <4> QED
        BY <2>2, <3>2, <4>1
    <3> QED
      BY <1>10, <3>1, <3>2
  <2> QED
    BY <1>1, <1>6, <2>3 DEF Keeps
<1> QED
  BY <1>7, <1>8, <1>9, <1>10

(* No step moves a boundary that is frozen. *)
LEMMA NextKeepsBoundary ==
  ASSUME IInv, [Next]_vars
  PROVE  Keeps(sw')
<1> USE DEF IInv
<1>1. /\ DOMAIN sw = 1..Len(sw) /\ \A i \in 1..Len(sw) : sw[i] \in Switches
  BY LenProperties, ElementOfSeq DEF Types
<1>2. CASE sw' = sw
  BY <1>2 DEF Keeps, Boundary
<1>3. CASE NoticeLoss \/ ConnectFails
  BY <1>3, LossKeepsBoundary DEF NoticeLoss, ConnectFails
<1>4. CASE Crash
  <2>1. \A s \in Switches : Boundary(s, [s EXCEPT !.bound = FALSE])
    BY DEF Switches, Boundary
  <2>2. \A i \in DOMAIN sw : sw'[i] = [sw[i] EXCEPT !.bound = FALSE]
    BY <1>4 DEF Crash, Unbound
  <2> QED
    BY <1>1, <2>1, <2>2 DEF Keeps
<1>5. CASE Freeze
  <2>1. pc \in Proving /\ pc = "freeze"
    BY <1>5 DEF Freeze, Proving
  <2>2. sw[Cur].head = 0
    BY <2>1, ProvingFacts
  <2>3. \A i \in DOMAIN sw : i # Cur => sw'[i] = sw[i]
    BY <1>1, <1>5 DEF Freeze
  <2> QED
    BY <2>2, <2>3 DEF Keeps, Boundary
<1>6. CASE Connect \/ BeginProof \/ BudgetWait \/ FreezeFails \/ CommitRange \/ Healthy
  <2>1. \A s \in Switches : /\ Boundary(s, Connected(s)) /\ Boundary(s, FailSwitch(s))
                            /\ \A w, v : Boundary(s, [s EXCEPT !.wait = w, !.state = v])
                            /\ \A w : Boundary(s, [s EXCEPT !.job.next = w])
                            /\ \A w : Boundary(s, [s EXCEPT !.state = w])
    BY DEF Switches, Boundary, Connected, FailSwitch
  <2>2. \A s \in Switches :
           Boundary(s, Acknowledged(IF s.state # "WAITING_FOR_BUDGET" THEN s
                                    ELSE [s EXCEPT !.state = s.wait, !.wait = "none"]))
    BY DEF Switches, Boundary, Acknowledged
  <2>3. \A i \in DOMAIN sw : sw'[i] = sw[i] \/ Boundary(sw[i], sw'[i])
    <3> SUFFICES ASSUME NEW i \in DOMAIN sw, i = Cur PROVE sw'[i] = sw[i] \/ Boundary(sw[i], sw'[i])
      BY <1>1, <1>6 DEF Connect, BeginProof, BudgetWait, FreezeFails, CommitRange, Healthy
    <3>1. CASE Connect
      BY <1>1, <2>1, <3>1 DEF Connect
    <3>2. CASE BeginProof
      BY <1>1, <2>2, <3>2 DEF BeginProof
    <3>3. CASE BudgetWait
      BY <1>1, <3>3 DEF BudgetWait, Boundary, Switches
    <3>4. CASE FreezeFails
      BY <1>1, <2>1, <3>4 DEF FreezeFails
    <3>5. CASE CommitRange
      BY <1>1, <3>5 DEF CommitRange, Boundary, Switches
    <3>6. CASE Healthy
      BY <1>1, <3>6 DEF Healthy, Boundary, Switches
    <3> QED
      BY <1>6, <3>1, <3>2, <3>3, <3>4, <3>5, <3>6
  <2> QED
    BY <2>3 DEF Keeps, Boundary
<1>7. CASE Operator
  <2>1. PICK k \in DOMAIN sw : \/ ProveFailed(k) \/ ResumeProvedFailure(k)
                               \/ PinSuperset(k) \/ ProveSuperset(k) \/ FinishSuperset(k)
    BY <1>7 DEF Operator
  <2>2. \A i \in DOMAIN sw : i # k => sw'[i] = sw[i]
    BY <1>1, <2>1 DEF ProveFailed, ResumeProvedFailure, PinSuperset, ProveSuperset, FinishSuperset
  <2>3. Boundary(sw[k], sw'[k])
    BY <1>1, <2>1 DEF ProveFailed, ResumeProvedFailure, PinSuperset, ProveSuperset, FinishSuperset,
                      Boundary, Switches
  <2> QED
    BY <2>2, <2>3 DEF Keeps, Boundary
<1>8. \/ sw' = sw \/ NoticeLoss \/ ConnectFails \/ Crash \/ Freeze \/ Operator
      \/ Connect \/ BeginProof \/ BudgetWait \/ FreezeFails \/ CommitRange \/ Healthy
  BY DEF Next, Worker, Fault, vars, Mine, Expire, StillWaiting, LinkDies, SubscribeRefused,
         RecoveryFails, ProveFails, Start, Backoff, Tick, Subscribe, SkipRecovery, Recover, NoSwitch,
         Prove, Promote, CloseGaps, Drain, Finish
<1> QED
  BY <1>2, <1>3, <1>4, <1>5, <1>6, <1>7, <1>8

(* The boundary of a switch is frozen for good.                             *)
THEOREM BoundaryIsFixed == Spec => BoundaryFixed
<1>1. IInv /\ [Next]_vars =>
        [\A i \in DOMAIN sw : sw[i].head # 0 =>
            sw'[i].head = sw[i].head /\ sw'[i].from = sw[i].from /\ sw'[i].gapIds = sw[i].gapIds]_vars
  BY NextKeepsBoundary DEF Keeps, Boundary
<1> QED
  BY <1>1, InductiveInvariant, PTL DEF Spec, BoundaryFixed

------------------------------------------------------------------------------
(* Refinement. *)

(* Blocks are only added, and what is stored stays stored. *)
LEMMA NextOnlyAdds ==
  ASSUME Types, [Next]_vars
  PROVE  head <= head' /\ stored \subseteq stored'
<1>1. head' = head \/ head' = head + 1
  BY DEF Next, Worker, Fault, Operator, vars, socket, route, work, target, HandleLoss, Mine, LinkDies, Start, Connect, NoticeLoss, ConnectFails,
         Backoff, Crash, Tick, Expire, Subscribe, SubscribeRefused, SkipRecovery, Recover,
         RecoveryFails, NoSwitch, BeginProof, StillWaiting, Freeze, BudgetWait, FreezeFails, Prove,
         CommitRange, ProveFails, Promote, CloseGaps, Healthy, Drain, Finish, ProveFailed,
         ResumeProvedFailure, PinSuperset, ProveSuperset, FinishSuperset
<1>2. stored \subseteq stored'
  <2>1. CASE Backoff \/ Tick \/ Recover \/ Prove \/ Drain \/ Operator
    BY <2>1 DEF Backoff, Tick, Recover, Prove, Drain, Operator, Ingest, ProveFailed,
                ResumeProvedFailure, PinSuperset, ProveSuperset, FinishSuperset
  <2>2. stored' = stored \/ (Backoff \/ Tick \/ Recover \/ Prove \/ Drain \/ Operator)
    BY DEF Next, Worker, Fault, vars, HandleLoss, Mine, LinkDies, Start, Connect, NoticeLoss,
           ConnectFails, Crash, Expire, Subscribe, SubscribeRefused, SkipRecovery,
           RecoveryFails, NoSwitch, BeginProof, StillWaiting, Freeze, BudgetWait, FreezeFails,
           CommitRange, ProveFails, Promote, CloseGaps, Healthy, Finish
  <2> QED
    BY <2>1, <2>2
<1> QED
  BY <1>1, <1>2 DEF Types

(* A block that is claimed is stored: below the mark only an open gap that  *)
(* begins before it excuses a block that is not.                            *)
LEMMA ClaimedIsStored == IInv => Claimed \subseteq stored
<1> SUFFICES ASSUME IInv, NEW b \in Claimed
             PROVE  b \in stored
  OBVIOUS
<1>1. b \in 1..covEnd /\ \A g \in OpenGaps : b <= gaps[g].from
  BY DEF Claimed
<1>2. b \in Nat /\ \A g \in OpenGaps : gaps[g].from \in Nat
  BY <1>1 DEF IInv, Types, OpenGaps
<1>3. ~Marked(OpenGaps, b)
  BY <1>1, <1>2 DEF Marked
<1> QED
  BY <1>1, <1>3 DEF IInv, MarkInv

(* The detailed worker keeps the abstract promise: through every switch,    *)
(* reconnection, crash and operator command what is stored stays, and only  *)
(* what is stored is claimed.                                               *)
THEOREM PromiseKept == Spec => KeepsPromise
<1>1. Init => Promise!Init
  BY InitInvariant, ClaimedIsStored, BoundsAssumption DEF Promise!Init, Init, Blocks
<1>2. IInv /\ IInv' /\ [Next]_vars => [Promise!Next]_(Promise!vars)
  <2> SUFFICES ASSUME IInv, IInv', [Next]_vars
               PROVE  Promise!Next
    OBVIOUS
  <2>1. head <= head' /\ stored \subseteq stored'
    BY NextOnlyAdds DEF IInv
  <2>2. /\ head \in 1..MaxBlock /\ head' \in 1..MaxBlock /\ stored' \subseteq 1..head'
    BY DEF IInv, Types
  <2>3. Claimed' \subseteq stored'
    <3>1. IInv' => (Claimed \subseteq stored)'
      BY ClaimedIsStored, PTL
    <3> QED
      BY <3>1
  <2>4. Promise!Happen
    BY <2>1, <2>2, BoundsAssumption DEF Promise!Happen, Blocks
  <2>5. Promise!Store
    BY <2>1, <2>2 DEF Promise!Store
  <2>6. Promise!Claim
    BY <2>3 DEF Promise!Claim
  <2> QED
    BY <2>4, <2>5, <2>6 DEF Promise!Next
<1> QED
  BY <1>1, <1>2, InductiveInvariant, PTL DEF Spec, KeepsPromise, Promise!Spec
==============================================================================
