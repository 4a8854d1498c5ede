-------------------------- MODULE IdempotencyTable --------------------------
(***************************************************************************)
(* One row of automation.automation_idempotency_keys and the three SQL     *)
(* statements of IdempotencyService that change it, as operators on a row. *)
(*                                                                         *)
(* locked_at is abstracted to the one thing acquire() asks of it: has the  *)
(* lock outlived idempotencyLockTtlMs (stale)?  The clock itself, and the  *)
(* difference between the worker's clock and the database's, are an action *)
(* of the modules that use the row: a fresh lock may turn stale at any     *)
(* time.                                                                   *)
(***************************************************************************)
EXTENDS Naturals

Status == {"ABSENT", "PROCESSING", "COMPLETED", "FAILED"}

IdempotencyRow == [status : Status, stale : BOOLEAN, attempts : Nat]

NoRow == [status |-> "ABSENT", stale |-> FALSE, attempts |-> 0]

-----------------------------------------------------------------------------
(* Faulty variants of the definitions below, for the mutation runs.        *)

AcquirableAlways(r) == TRUE
AcquirableOnAnyProcessing(r) == r.status # "COMPLETED"
AcquiredUncounted(r) == [status |-> "PROCESSING", stale |-> FALSE, attempts |-> r.attempts]

-----------------------------------------------------------------------------
(* The INSERT ... ON CONFLICT (key) DO UPDATE ... WHERE of acquire()       *)
(* returns a row, which is "acquired", exactly when this holds.            *)
Acquirable(r) ==
  \/ r.status \in {"ABSENT", "FAILED"}
  \/ r.status = "PROCESSING" /\ r.stale

(* What that statement leaves: a fresh lock, one attempt more.             *)
Acquired(r) ==
  [status |-> "PROCESSING", stale |-> FALSE, attempts |-> r.attempts + 1]

(* complete() and fail(): UPDATE ... WHERE key = $1.  Neither asks who     *)
(* holds the lock nor what the status is.                                  *)
Completed(r) == [r EXCEPT !.status = "COMPLETED", !.stale = FALSE]

Failed(r) == [r EXCEPT !.status = "FAILED", !.stale = FALSE]

(* Time passes: a PROCESSING lock outlives idempotencyLockTtlMs.           *)
Outlived(r) == [r EXCEPT !.stale = TRUE]

=============================================================================
