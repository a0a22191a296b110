------------------------- MODULE MCEventLoopThread -------------------------
EXTENDS EventLoopThread, TLC
=============================================================================
