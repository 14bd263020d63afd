--------------------------- MODULE MCMarketTargets ---------------------------
(* Two launches measured at birth and a minute later; one target whose     *)
(* calls always fail.                                                      *)
EXTENDS MarketTargets
CONSTANTS a, b
MCLaunches == {a, b}
MCStuck == {<<a, 0>>}
==============================================================================
