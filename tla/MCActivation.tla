----------------------------- MODULE MCActivation -----------------------------
(* One target launched with the chain, one later, one research segment. *)
EXTENDS Activation, TLC
CONSTANTS a, b
MCFilters == {a, b}
MCBase == (a :> 1) @@ (b :> 2)
=============================================================================
