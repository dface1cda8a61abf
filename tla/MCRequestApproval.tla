-------------------------- MODULE MCRequestApproval --------------------------
EXTENDS RequestApproval
=============================================================================
