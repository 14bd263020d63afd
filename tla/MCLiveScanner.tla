---------------------------- MODULE MCLiveScanner ----------------------------
(* LiveScanner for TLC: the logs are interchangeable model values. *)
EXTENDS LiveScanner, TLC

LogSymmetry == Permutations(Logs)
=============================================================================
