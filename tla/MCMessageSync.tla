---------------------------- MODULE MCMessageSync ----------------------------
EXTENDS MessageSync
=============================================================================
