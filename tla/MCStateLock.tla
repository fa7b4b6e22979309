---------------------------- MODULE MCStateLock ----------------------------
EXTENDS StateLock

CONSTANTS p1, p2, p3
=============================================================================
