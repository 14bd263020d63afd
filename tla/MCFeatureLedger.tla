-------------------------- MODULE MCFeatureLedger --------------------------
EXTENDS FeatureLedger

\* Two targets, a trade of each; the second began after the ledger.
MCTrades == {"x", "y"}
MCOwner  == [t \in MCTrades |-> IF t = "x" THEN 1 ELSE 2]
MCHome   == [t \in MCTrades |-> IF t = "x" THEN 2 ELSE 3]
MCStart  == <<1, 2>>
MCCut    == <<2, 3>>
MCEnd    == <<3, 4>>
=============================================================================
