------------------------------ MODULE Coverage ------------------------------
(***************************************************************************)
(* The `coverage` table of scanner.db: for each kind ("live", "backfill",  *)
(* "startup-gap", ...) a set of rows [first, last], each an inclusive      *)
(* block interval.  Database.record_coverage merges a new interval into    *)
(* the rows it overlaps or is adjacent to; Database.rollback_to cuts the   *)
(* rows at a common ancestor.  One kind's rows are one set here.           *)
(***************************************************************************)
EXTENDS Integers

Row(f, l) == [first |-> f, last |-> l]

(* The blocks a set of rows stands for: the reference meaning of the table. *)
Blocks(rows) == UNION {r.first .. r.last : r \in rows}

(* A plausible slip: overlapping rows only, adjacent ones forgotten. *)
TouchingOverlapOnly(rows, f, l) == {r \in rows : r.first <= l /\ r.last >= f}

(* SELECT ... WHERE first<=last+1 AND last>=first-1 *)
Touching(rows, f, l) == {r \in rows : r.first <= l + 1 /\ r.last >= f - 1}

(* min(first, ...) and max(last, ...) over the touching rows. *)
Lowest(rows, f, l) ==
  LET firsts == {f} \cup {r.first : r \in Touching(rows, f, l)}
  IN CHOOSE x \in firsts : \A y \in firsts : x <= y
Highest(rows, f, l) ==
  LET lasts == {l} \cup {r.last : r \in Touching(rows, f, l)}
  IN CHOOSE x \in lasts : \A y \in lasts : y <= x

(* The merge: widen to the touching rows, delete the rows the widened      *)
(* bounds touch, insert the widened row.                                   *)
RecordCoverage(rows, f, l) ==
  LET lo == Lowest(rows, f, l)
      hi == Highest(rows, f, l)
  IN (rows \ Touching(rows, lo, hi)) \cup {Row(lo, hi)}

(* DELETE ... WHERE first>number; UPDATE ... SET last=number WHERE last>number *)
Truncate(rows, number) ==
  {[r EXCEPT !.last = IF @ > number THEN number ELSE @] :
     r \in {s \in rows : s.first <= number}}

(* CHECK(last>=first): every row is a non-empty interval. *)
WellFormed(rows) == \A r \in rows : r.first <= r.last

(* Two rows of a kind neither overlap nor touch: the table says each run   *)
(* of blocks once, and the primary key (kind, first) cannot collide.       *)
Separated(rows) ==
  \A r, s \in rows : r # s => (r.last + 1 < s.first \/ s.last + 1 < r.first)
=============================================================================
