------------------------------ MODULE MCFiles ------------------------------
(* Files for TLC: two uploads, two requests at a time.                     *)
EXTENDS Files

CONSTANTS r1, r2, k1, k2, e1, none

MCFaults == {{}, {"overlap", "queue", "s3"}, {"overlap", "twice", "again", "s3"},
             {"twice", "abort", "crash"}, {"mixed", "s3", "crash"}}

=============================================================================
