------------------------------ MODULE MCCutover ------------------------------
EXTENDS Cutover
=============================================================================
