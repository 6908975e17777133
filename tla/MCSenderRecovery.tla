-------------------------- MODULE MCSenderRecovery --------------------------
EXTENDS SenderRecovery
=============================================================================
