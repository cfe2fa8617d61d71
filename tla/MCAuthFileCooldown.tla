------------------------- MODULE MCAuthFileCooldown -------------------------
EXTENDS AuthFileCooldown
CONSTANTS a1, a2, s1, s2, r1
=============================================================================
