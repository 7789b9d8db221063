------------------------------- MODULE MCSync -------------------------------
EXTENDS SyncProps
CONSTANTS x, y
OneAddr == <<x>>
TwoAddrs == <<x, y>>
=============================================================================
