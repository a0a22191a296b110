---------------------------- MODULE MCTaskQueue ----------------------------
EXTENDS TaskQueue, TLC
=============================================================================
