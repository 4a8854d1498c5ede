------------------------- MODULE MCIdempotencyKeys -------------------------
(* IdempotencyKeys with two keys and two callers, for TLC.                 *)
EXTENDS IdempotencyKeys

CONSTANTS k1, k2, c1, c2, none

MCKeys == {k1, k2}
MCCallers == {c1, c2}
MCAttempts == 1 .. 3

=============================================================================
