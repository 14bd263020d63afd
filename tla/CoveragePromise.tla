--------------------------- MODULE CoveragePromise ---------------------------
(***************************************************************************)
(* What a collector with a coverage mark and a gap ledger promises, with   *)
(* no word on how: trades happen, some are stored, some are claimed as     *)
(* covered.  A claim may be withdrawn (a gap is opened) and made again (it *)
(* is closed), but only what is stored is ever claimed, and what is stored *)
(* stays.                                                                  *)
(***************************************************************************)
CONSTANT Trades
VARIABLES happened, stored, claimed

vars == <<happened, stored, claimed>>

Init == happened \subseteq Trades /\ stored \subseteq happened /\ claimed \subseteq stored

\* Trades happen, and are on the chain for good.
Happen == happened \subseteq happened' /\ happened' \subseteq Trades

\* A notice in the same step, a recovery or a proof stores trades that happened.
Store == stored \subseteq stored' /\ stored' \subseteq happened'

\* Claims come and go, but never run ahead of what is stored.
Claim == claimed' \subseteq stored'

Next == Happen /\ Store /\ Claim

Spec == Init /\ [][Next]_vars

\* The promise itself.
Honest == claimed \subseteq stored
=============================================================================
