---------------------------- MODULE MCDurability ----------------------------
EXTENDS Durability
CONSTANTS t1, t2
=============================================================================
