-------------------------- MODULE MCProviderSwitch --------------------------
EXTENDS ProviderSwitch
=============================================================================
