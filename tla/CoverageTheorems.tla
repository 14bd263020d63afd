-------------------------- MODULE CoverageTheorems --------------------------
(***************************************************************************)
(* What Database.record_coverage does to the rows of one kind, for every   *)
(* table it can meet: it keeps the table canonical and adds exactly the    *)
(* new interval to the blocks the table stands for.                        *)
(***************************************************************************)
EXTENDS Coverage, TLAPS

IntRows == [first : Int, last : Int]

(* A canonical table: what the CHECK constraint and the merge maintain. *)
Canonical(rows) == rows \subseteq IntRows /\ WellFormed(rows) /\ Separated(rows)

(* The widened upper bound exists: of the touching rows, separated from one *)
(* another, at most one reaches past l.                                     *)
LEMMA HighestBounds ==
  ASSUME NEW rows, Canonical(rows), NEW f \in Int, NEW l \in Int, f <= l
  PROVE  /\ Highest(rows, f, l) \in Int /\ Highest(rows, f, l) >= l
         /\ \A r \in Touching(rows, f, l) : r.last <= Highest(rows, f, l)
         /\ \/ Highest(rows, f, l) = l
            \/ \E r \in Touching(rows, f, l) : Highest(rows, f, l) = r.last
<1> DEFINE touched == Touching(rows, f, l)
           lasts == {l} \cup {r.last : r \in touched}
<1>1. touched \subseteq rows /\ rows \subseteq IntRows
  BY DEF Touching, Canonical
<1>2. \A r \in touched : r.first \in Int /\ r.last \in Int /\ r.first <= l + 1
  BY <1>1 DEF Touching, IntRows
<1>3. lasts \subseteq Int
  BY <1>2
<1>4. \E x \in lasts : \A y \in lasts : y <= x
  <2>1. CASE \E r \in touched : r.last > l
    <3>1. PICK r \in touched : r.last > l
      BY <2>1
    <3>2. \A s \in touched : s.last <= r.last
      <4>1. SUFFICES ASSUME NEW s \in touched, s.last > r.last PROVE FALSE
        BY <1>2
      <4>2. s # r
        BY <4>1, <1>2, <3>1
      <4>3. r.last + 1 < s.first \/ s.last + 1 < r.first
        BY <1>1, <4>2, <3>1 DEF Canonical, Separated
      <4> QED
        BY <1>2, <3>1, <4>1, <4>3
    <3> QED
      BY <3>1, <3>2, <1>2
  <2>2. CASE \A r \in touched : ~(r.last > l)
    BY <2>2, <1>2
  <2> QED
    BY <2>1, <2>2
<1>5. /\ Highest(rows, f, l) \in lasts
      /\ \A y \in lasts : y <= Highest(rows, f, l)
  BY <1>4 DEF Highest
<1> QED
  BY <1>3, <1>5

(* The mirror image, for the widened lower bound. *)
LEMMA LowestBounds ==
  ASSUME NEW rows, Canonical(rows), NEW f \in Int, NEW l \in Int, f <= l
  PROVE  /\ Lowest(rows, f, l) \in Int /\ Lowest(rows, f, l) <= f
         /\ \A r \in Touching(rows, f, l) : Lowest(rows, f, l) <= r.first
         /\ \/ Lowest(rows, f, l) = f
            \/ \E r \in Touching(rows, f, l) : Lowest(rows, f, l) = r.first
<1> DEFINE touched == Touching(rows, f, l)
           firsts == {f} \cup {r.first : r \in touched}
<1>1. touched \subseteq rows /\ rows \subseteq IntRows
  BY DEF Touching, Canonical
<1>2. \A r \in touched : r.first \in Int /\ r.last \in Int /\ r.last >= f - 1
  BY <1>1 DEF Touching, IntRows
<1>3. firsts \subseteq Int
  BY <1>2
<1>4. \E x \in firsts : \A y \in firsts : x <= y
  <2>1. CASE \E r \in touched : r.first < f
    <3>1. PICK r \in touched : r.first < f
      BY <2>1
    <3>2. \A s \in touched : r.first <= s.first
      <4>1. SUFFICES ASSUME NEW s \in touched, s.first < r.first PROVE FALSE
        BY <1>2
      <4>2. s # r
        BY <4>1, <1>2, <3>1
      <4>3. r.last + 1 < s.first \/ s.last + 1 < r.first
        BY <1>1, <4>2, <3>1 DEF Canonical, Separated
      <4> QED
        BY <1>2, <3>1, <4>1, <4>3
    <3> QED
      BY <3>1, <3>2, <1>2
  <2>2. CASE \A r \in touched : ~(r.first < f)
    BY <2>2, <1>2
  <2> QED
    BY <2>1, <2>2
<1>5. /\ Lowest(rows, f, l) \in firsts
      /\ \A y \in firsts : Lowest(rows, f, l) <= y
  BY <1>4 DEF Lowest
<1> QED
  BY <1>3, <1>5

(* The second deletion, with the widened bounds, finds no further row. *)
LEMMA WidenedTouchesSame ==
  ASSUME NEW rows, Canonical(rows), NEW f \in Int, NEW l \in Int, f <= l
  PROVE  Touching(rows, Lowest(rows, f, l), Highest(rows, f, l)) = Touching(rows, f, l)
<1> DEFINE lo == Lowest(rows, f, l)
           hi == Highest(rows, f, l)
<1>1. /\ lo \in Int /\ lo <= f
      /\ lo = f \/ \E r \in Touching(rows, f, l) : lo = r.first
  BY LowestBounds
<1>2. /\ hi \in Int /\ hi >= l
      /\ hi = l \/ \E r \in Touching(rows, f, l) : hi = r.last
  BY HighestBounds
<1> HIDE DEF lo, hi
<1>3. \A r \in rows : r.first \in Int /\ r.last \in Int /\ r.first <= r.last
  BY DEF Canonical, IntRows, WellFormed
<1>4. ASSUME NEW r \in rows, r.first <= hi + 1, r.last >= lo - 1
      PROVE  r.first <= l + 1
  <2>1. CASE hi = l
    BY <2>1, <1>4
  <2>2. CASE hi # l
    <3>1. PICK s \in Touching(rows, f, l) : hi = s.last
      BY <1>2, <2>2
    <3>2. s \in rows /\ s.first <= l + 1
      BY <3>1 DEF Touching
    <3>3. r = s \/ s.last + 1 < r.first \/ r.last + 1 < s.first
      BY <3>2 DEF Canonical, Separated
    <3> QED
      BY <1>3, <1>4, <3>1, <3>2, <3>3
  <2> QED
    BY <2>1, <2>2
<1>5. ASSUME NEW r \in rows, r.first <= hi + 1, r.last >= lo - 1
      PROVE  r.last >= f - 1
  <2>1. CASE lo = f
    BY <2>1, <1>5
  <2>2. CASE lo # f
    <3>1. PICK s \in Touching(rows, f, l) : lo = s.first
      BY <1>1, <2>2
    <3>2. s \in rows /\ s.last >= f - 1
      BY <3>1 DEF Touching
    <3>3. r = s \/ s.last + 1 < r.first \/ r.last + 1 < s.first
      BY <3>2 DEF Canonical, Separated
    <3> QED
      BY <1>3, <1>5, <3>1, <3>2, <3>3
  <2> QED
    BY <2>1, <2>2
<1>6. \A r \in rows : r.first <= l + 1 /\ r.last >= f - 1
                       => r.first <= hi + 1 /\ r.last >= lo - 1
  BY <1>1, <1>2, <1>3
<1>7. Touching(rows, lo, hi) = Touching(rows, f, l)
  BY <1>4, <1>5, <1>6 DEF Touching
<1> QED
  BY <1>7 DEF lo, hi

(* record_coverage keeps a canonical table canonical. *)
THEOREM RecordCoverageCanonical ==
  ASSUME NEW rows, Canonical(rows), NEW f \in Int, NEW l \in Int, f <= l
  PROVE  Canonical(RecordCoverage(rows, f, l))
<1> DEFINE lo == Lowest(rows, f, l)
           hi == Highest(rows, f, l)
           kept == rows \ Touching(rows, lo, hi)
<1>1. lo \in Int /\ hi \in Int /\ lo <= hi
  BY LowestBounds, HighestBounds
<1> HIDE DEF lo, hi
<1>2. RecordCoverage(rows, f, l) = kept \cup {Row(lo, hi)}
  BY DEF RecordCoverage, lo, hi
<1>3. Row(lo, hi) \in IntRows /\ Row(lo, hi).first = lo /\ Row(lo, hi).last = hi
  BY <1>1 DEF Row, IntRows
<1>4. \A r \in kept : /\ r \in rows /\ r.first \in Int /\ r.last \in Int
                      /\ hi + 1 < r.first \/ r.last + 1 < lo
  BY <1>1 DEF Canonical, IntRows, Touching
<1>5. kept \cup {Row(lo, hi)} \subseteq IntRows
  BY <1>3 DEF Canonical
<1>6. WellFormed(kept \cup {Row(lo, hi)})
  BY <1>1, <1>3 DEF Canonical, WellFormed
<1>7. Separated(kept \cup {Row(lo, hi)})
  BY <1>3, <1>4 DEF Canonical, Separated
<1> QED
  BY <1>2, <1>5, <1>6, <1>7 DEF Canonical

(* Block numbers stay natural numbers. *)
LEMMA RecordCoverageNat ==
  ASSUME NEW rows, Canonical(rows), rows \subseteq [first : Nat, last : Nat],
         NEW f \in Nat, NEW l \in Nat, f <= l
  PROVE  RecordCoverage(rows, f, l) \subseteq [first : Nat, last : Nat]
<1>1. Lowest(rows, f, l) \in Nat
  BY LowestBounds DEF Touching
<1>2. Highest(rows, f, l) \in Nat
  BY HighestBounds
<1> QED
  BY <1>1, <1>2 DEF RecordCoverage, Row

(* record_coverage adds the new interval to the covered blocks and nothing  *)
(* else: merging neither loses a block nor invents one.                     *)
THEOREM RecordCoverageBlocks ==
  ASSUME NEW rows, Canonical(rows), NEW f \in Int, NEW l \in Int, f <= l
  PROVE  Blocks(RecordCoverage(rows, f, l)) = Blocks(rows) \cup (f .. l)
<1> DEFINE lo == Lowest(rows, f, l)
           hi == Highest(rows, f, l)
           touched == Touching(rows, f, l)
<1>1. /\ lo \in Int /\ lo <= f /\ \A r \in touched : lo <= r.first
      /\ lo = f \/ \E r \in touched : lo = r.first
  BY LowestBounds
<1>2. /\ hi \in Int /\ hi >= l /\ \A r \in touched : r.last <= hi
      /\ hi = l \/ \E r \in touched : hi = r.last
  BY HighestBounds
<1>3. RecordCoverage(rows, f, l) = (rows \ touched) \cup {Row(lo, hi)}
  BY WidenedTouchesSame DEF RecordCoverage
<1> HIDE DEF lo, hi
<1>4. \A r \in rows : r.first \in Int /\ r.last \in Int
  BY DEF Canonical, IntRows
<1>5. \A r \in touched : r \in rows /\ r.first <= l + 1 /\ r.last >= f - 1
  BY DEF Touching
<1>6. ASSUME NEW x \in lo .. hi
      PROVE  x \in f .. l \/ \E r \in rows : x \in r.first .. r.last
  <2>1. CASE x < f
    <3>1. PICK r \in touched : lo = r.first
      BY <1>1, <2>1
    <3>2. r.last \in Int /\ r.last >= f - 1
      BY <1>4, <1>5, <3>1
    <3>3. x \in r.first .. r.last
      BY <1>1, <2>1, <3>1, <3>2
    <3> QED
      BY <1>5, <3>3
  <2>2. CASE x > l
    <3>1. PICK r \in touched : hi = r.last
      BY <1>2, <2>2
    <3>2. r.first \in Int /\ r.first <= l + 1
      BY <1>4, <1>5, <3>1
    <3>3. x \in r.first .. r.last
      BY <1>2, <2>2, <3>1, <3>2
    <3> QED
      BY <1>5, <3>3
  <2> QED
    BY <1>1, <1>2, <2>1, <2>2
<1>7. f .. l \subseteq lo .. hi
  BY <1>1, <1>2
<1>8. \A r \in touched : r.first .. r.last \subseteq lo .. hi
  BY <1>1, <1>2, <1>4, <1>5
<1>9. Row(lo, hi).first = lo /\ Row(lo, hi).last = hi
  BY DEF Row
<1>10. Blocks(RecordCoverage(rows, f, l)) = Blocks(rows \ touched) \cup (lo .. hi)
  BY <1>3, <1>9 DEF Blocks
<1>11. Blocks(rows \ touched) \cup (lo .. hi) = Blocks(rows) \cup (f .. l)
  BY <1>6, <1>7, <1>8 DEF Blocks
<1> QED
  BY <1>10, <1>11

(* rollback_to: the rows left stand for the covered blocks up to the ancestor. *)
THEOREM TruncateBlocks ==
  ASSUME NEW rows, Canonical(rows), NEW number \in Int
  PROVE  /\ Canonical(Truncate(rows, number))
         /\ Blocks(Truncate(rows, number)) = {b \in Blocks(rows) : b <= number}
<1> DEFINE low == {s \in rows : s.first <= number}
           cut(r) == [r EXCEPT !.last = IF @ > number THEN number ELSE @]
<1>1. \A r \in rows : /\ r \in IntRows /\ r.first \in Int /\ r.last \in Int
                      /\ r.first <= r.last
  BY DEF Canonical, IntRows, WellFormed
<1>2. \A r \in rows : /\ cut(r) \in IntRows /\ cut(r).first = r.first
                      /\ cut(r).last = IF r.last > number THEN number ELSE r.last
  BY <1>1 DEF IntRows
<1>3. Truncate(rows, number) = {cut(r) : r \in low}
  BY DEF Truncate
<1> HIDE DEF cut
<1>4. Canonical({cut(r) : r \in low})
  <2>1. {cut(r) : r \in low} \subseteq IntRows
    BY <1>2
  <2>2. WellFormed({cut(r) : r \in low})
    BY <1>1, <1>2 DEF WellFormed
  <2>3. ASSUME NEW r \in low, NEW s \in low, cut(r) # cut(s)
        PROVE  cut(r).last + 1 < cut(s).first \/ cut(s).last + 1 < cut(r).first
    <3>1. r.last + 1 < s.first \/ s.last + 1 < r.first
      BY <2>3 DEF Canonical, Separated
    <3> QED
      BY <1>1, <1>2, <3>1
  <2>4. Separated({cut(r) : r \in low})
    BY <2>3 DEF Separated
  <2> QED
    BY <2>1, <2>2, <2>4 DEF Canonical
<1>5. Blocks({cut(r) : r \in low}) = UNION {cut(r).first .. cut(r).last : r \in low}
  BY DEF Blocks
<1>6. \A r \in low : cut(r).first .. cut(r).last = {b \in r.first .. r.last : b <= number}
  BY <1>1, <1>2
<1>7. \A r \in rows : r \notin low => \A b \in r.first .. r.last : ~(b <= number)
  BY <1>1
<1>8. UNION {cut(r).first .. cut(r).last : r \in low} = {b \in Blocks(rows) : b <= number}
  BY <1>6, <1>7 DEF Blocks
<1> QED
  BY <1>3, <1>4, <1>5, <1>8
=============================================================================
