---------------------------- MODULE MCHttpScanner ----------------------------
(* HttpScanner for TLC: the logs are model values. *)
EXTENDS HttpScanner
=============================================================================
