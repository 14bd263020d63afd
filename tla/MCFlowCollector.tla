-------------------------- MODULE MCFlowCollector --------------------------
EXTENDS FlowCollector
=============================================================================
