----------------------------- MODULE MCSyncGRPO -----------------------------
EXTENDS SyncGRPO

Both == {[dynamic |-> d, skipRef |-> s] : d \in BOOLEAN, s \in BOOLEAN}
=============================================================================
