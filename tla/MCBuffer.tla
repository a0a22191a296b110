------------------------------ MODULE MCBuffer ------------------------------
EXTENDS Buffer, TLC
CONSTANTS a, b
=============================================================================
