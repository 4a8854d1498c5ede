-------------------------- MODULE IdempotencyKeys --------------------------
(***************************************************************************)
(* IdempotencyService used by concurrent callers the way                   *)
(* RuleEngineService.executeRule() uses it: acquire the key, perform the   *)
(* side effect, complete() or fail().  A caller is one run of one job.     *)
(*                                                                         *)
(* faults, fixed by Init, says what this execution has to live with:       *)
(*   "overrun"  a lock may outlive idempotencyLockTtlMs although its       *)
(*              holder is still at work (the action takes longer than the  *)
(*              TTL, or the two clocks disagree)                           *)
(*   "ack"      a statement may commit although its caller sees an error   *)
(*              (the connection drops before the answer)                   *)
(* A caller may crash, and an action, complete() or fail() may throw, in   *)
(* every execution.                                                        *)
(***************************************************************************)
EXTENDS IdempotencyTable, FiniteSets

CONSTANTS
  Keys,            \* idempotency keys
  Callers,         \* runs that can hold one
  NoKey,           \* what a caller holds when it holds nothing
  AttemptNumbers   \* values of the attempts column: Nat, or a range for TLC

ASSUME AttemptNumbersAssumption == AttemptNumbers \subseteq Nat
ASSUME NoKeyAssumption == NoKey \notin Keys
ASSUME CallersAssumption == IsFiniteSet(Callers) /\ {"open", "done"} \cap Callers = {}

VARIABLES
  faults,    \* the subset of KeyFaults this execution is exposed to
  row,       \* row[k]: the table
  stage,     \* stage[c]: where caller c stands in executeRule
  held,      \* held[c]: the key c believes it holds
  effects    \* effects[k]: side effects performed under k

vars == <<faults, row, stage, held, effects>>

KeyFaults == {"overrun", "ack"}
Stage == {"idle", "acting", "closing", "failing"}

TypeOK ==
  /\ faults \subseteq KeyFaults
  /\ row \in [Keys -> IdempotencyRow]
  /\ stage \in [Callers -> Stage]
  /\ held \in [Callers -> Keys \cup {NoKey}]
  /\ effects \in [Keys -> Nat]
  /\ \A c \in Callers : stage[c] = "idle" <=> held[c] = NoKey

Init ==
  /\ faults \in SUBSET KeyFaults
  /\ row = [k \in Keys |-> NoRow]
  /\ stage = [c \in Callers |-> "idle"]
  /\ held = [c \in Callers |-> NoKey]
  /\ effects = [k \in Keys |-> 0]

-----------------------------------------------------------------------------
(* How a caller moves on: out of the loop body, or to another stage of it. *)
GoIdle(c) ==
  /\ stage' = [stage EXCEPT ![c] = "idle"]
  /\ held' = [held EXCEPT ![c] = NoKey]

GoTo(c, s) ==
  /\ stage' = [stage EXCEPT ![c] = s]
  /\ UNCHANGED held

(* Faulty variants, for the mutation runs: a fail() after which the caller *)
(* still counts as the holder, and an executeRule that swallows the        *)
(* exception of an action service.                                         *)
FailKeepingKey(c) ==
  /\ stage[c] = "failing"
  /\ row' = [row EXCEPT ![held[c]] = Failed(@)]
  /\ stage' = [stage EXCEPT ![c] = "idle"]
  /\ UNCHANGED <<faults, held, effects>>

PerformSwallowsError(c) ==
  /\ stage[c] = "acting"
  /\ \E n \in {0, 1} : effects' = [effects EXCEPT ![held[c]] = @ + n]
  /\ GoTo(c, "closing")
  /\ UNCHANGED <<faults, row>>

(* acquire() returns true.  With "ack" the row is written and the caller,  *)
(* still outside the try block, leaves with an exception.                  *)
Acquire(c, k) ==
  /\ stage[c] = "idle"
  /\ Acquirable(row[k])
  /\ row[k].attempts + 1 \in AttemptNumbers
  /\ row' = [row EXCEPT ![k] = Acquired(@)]
  /\ \/ /\ stage' = [stage EXCEPT ![c] = "acting"]
        /\ held' = [held EXCEPT ![c] = k]
     \/ "ack" \in faults /\ UNCHANGED <<stage, held>>
  /\ UNCHANGED <<faults, effects>>

(* The action service returns.                                             *)
Perform(c) ==
  /\ stage[c] = "acting"
  /\ effects' = [effects EXCEPT ![held[c]] = @ + 1]
  /\ GoTo(c, "closing")
  /\ UNCHANGED <<faults, row>>

(* The action service throws, before or after the outside world saw it.    *)
PerformThrows(c) ==
  /\ stage[c] = "acting"
  /\ \E n \in {0, 1} : effects' = [effects EXCEPT ![held[c]] = @ + n]
  /\ GoTo(c, "failing")
  /\ UNCHANGED <<faults, row>>

Complete(c) ==
  /\ stage[c] = "closing"
  /\ row' = [row EXCEPT ![held[c]] = Completed(@)]
  /\ \/ GoIdle(c)
     \/ "ack" \in faults /\ GoTo(c, "failing")
  /\ UNCHANGED <<faults, effects>>

(* complete() is inside the try block: its exception runs fail() too.      *)
CompleteThrows(c) ==
  /\ stage[c] = "closing"
  /\ GoTo(c, "failing")
  /\ UNCHANGED <<faults, row, effects>>

Fail(c) ==
  /\ stage[c] = "failing"
  /\ row' = [row EXCEPT ![held[c]] = Failed(@)]
  /\ GoIdle(c)
  /\ UNCHANGED <<faults, effects>>

(* The caller's process dies, or fail() itself throws: the row stays.      *)
Abandon(c) ==
  /\ stage[c] # "idle"
  /\ GoIdle(c)
  /\ UNCHANGED <<faults, row, effects>>

Expire(k) ==
  /\ row[k].status = "PROCESSING" /\ ~row[k].stale
  /\ "overrun" \in faults \/ \A c \in Callers : held[c] # k
  /\ row' = [row EXCEPT ![k] = Outlived(@)]
  /\ UNCHANGED <<faults, stage, held, effects>>

Next ==
  \/ \E c \in Callers :
       \/ \E k \in Keys : Acquire(c, k)
       \/ Perform(c)
       \/ PerformThrows(c)
       \/ Complete(c)
       \/ CompleteThrows(c)
       \/ Fail(c)
       \/ Abandon(c)
  \/ \E k \in Keys : Expire(k)

Spec == Init /\ [][Next]_vars

-----------------------------------------------------------------------------
(* While no lock outlives its holder's work, two runs never execute one    *)
(* keyed action side by side: what the "Concurrency behavior" note of      *)
(* idempotency.service.ts is for.                                          *)
OneHolder ==
  "overrun" \notin faults =>
    \A c, d \in Callers : c # d /\ held[c] # NoKey => held[c] # held[d]

(* A COMPLETED key stands for a side effect that did take place, whatever  *)
(* goes wrong: executeRule never completes a key it has not acted under.   *)
CompletedWasPerformed ==
  \A k \in Keys : row[k].status = "COMPLETED" => effects[k] > 0

(* The attempts column bounds the number of times the side effect took     *)
(* place, whatever goes wrong: nothing is performed without an acquire of  *)
(* its own.                                                                *)
EffectsWithinAttempts ==
  \A k \in Keys : effects[k] <= row[k].attempts

(* Without "overrun" and "ack" the table implements GuardedActions: only   *)
(* one caller at a time performs, and never again after COMPLETED.  An     *)
(* execution with those faults is mapped to the initial state for ever.    *)
Reliable == faults = {}

PhaseOf(k) ==
  IF row[k].status = "COMPLETED" THEN "done"
  ELSE IF \E c \in Callers : held[c] = k THEN CHOOSE c \in Callers : held[c] = k
  ELSE "open"

Guarded == INSTANCE GuardedActions WITH
  phase <- [k \in Keys |-> IF Reliable THEN PhaseOf(k) ELSE "open"],
  effects <- [k \in Keys |-> IF Reliable THEN effects[k] ELSE 0]

ImplementsGuardedActions == Guarded!Spec

=============================================================================
