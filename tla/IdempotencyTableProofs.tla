----------------------- MODULE IdempotencyTableProofs -----------------------
(***************************************************************************)
(* Facts about the row operators, for the proofs of the modules that use   *)
(* them.                                                                   *)
(***************************************************************************)
EXTENDS IdempotencyTable, TLAPS

(* What the three statements do to a row.                                  *)
LEMMA RowUpdates ==
  ASSUME NEW r \in IdempotencyRow
  PROVE  /\ Acquired(r) \in IdempotencyRow /\ Acquired(r).attempts = r.attempts + 1
         /\ Completed(r) \in IdempotencyRow /\ Completed(r).attempts = r.attempts
         /\ Completed(r).status = "COMPLETED"
         /\ Failed(r) \in IdempotencyRow /\ Failed(r).attempts = r.attempts
         /\ Failed(r).status = "FAILED"
         /\ Outlived(r) \in IdempotencyRow /\ Outlived(r).attempts = r.attempts
         /\ Outlived(r).status = r.status
<1> USE DEF IdempotencyRow, Status
<1>1. Acquired(r) \in IdempotencyRow /\ Acquired(r).attempts = r.attempts + 1
  BY DEF Acquired
<1>2. /\ Completed(r) \in IdempotencyRow /\ Completed(r).attempts = r.attempts
      /\ Completed(r).status = "COMPLETED"
  BY DEF Completed
<1>3. /\ Failed(r) \in IdempotencyRow /\ Failed(r).attempts = r.attempts
      /\ Failed(r).status = "FAILED"
  BY DEF Failed
<1>4. /\ Outlived(r) \in IdempotencyRow /\ Outlived(r).attempts = r.attempts
      /\ Outlived(r).status = r.status
  BY DEF Outlived
<1> QED
  BY <1>1, <1>2, <1>3, <1>4

=============================================================================
