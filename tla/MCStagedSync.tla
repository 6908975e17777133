---------------------------- MODULE MCStagedSync ----------------------------
EXTENDS StagedSync
=============================================================================
