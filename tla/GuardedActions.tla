--------------------------- MODULE GuardedActions ---------------------------
(***************************************************************************)
(* What the idempotency guard of the rule engine promises, without its     *)
(* table: "Idempotency keys protect already-completed actions"             *)
(* (rule-engine.service.ts), and two deliveries of one event never carry   *)
(* out one keyed action at the same time.                                  *)
(*                                                                         *)
(* A key is open, held by one caller, or done.  Only the holder performs   *)
(* the side effect, and done is for ever.                                  *)
(***************************************************************************)
EXTENDS Naturals

CONSTANTS Keys, Callers

VARIABLES
  phase,     \* phase[k]: "open", "done", or the caller that holds k
  effects    \* effects[k]: how often the side effect under k took place

vars == <<phase, effects>>

TypeOK ==
  /\ phase \in [Keys -> {"open", "done"} \cup Callers]
  /\ effects \in [Keys -> Nat]

Init ==
  /\ phase = [k \in Keys |-> "open"]
  /\ effects = [k \in Keys |-> 0]

Begin(c, k) ==
  /\ phase[k] = "open"
  /\ phase' = [phase EXCEPT ![k] = c]
  /\ UNCHANGED effects

Execute(c, k) ==
  /\ phase[k] = c
  /\ effects' = [effects EXCEPT ![k] = @ + 1]
  /\ UNCHANGED phase

Finish(c, k) ==
  /\ phase[k] = c
  /\ effects[k] > 0
  /\ phase' = [phase EXCEPT ![k] = "done"]
  /\ UNCHANGED effects

GiveUp(c, k) ==
  /\ phase[k] = c
  /\ phase' = [phase EXCEPT ![k] = "open"]
  /\ UNCHANGED effects

Next ==
  \E c \in Callers, k \in Keys :
    \/ Begin(c, k)
    \/ Execute(c, k)
    \/ Finish(c, k)
    \/ GiveUp(c, k)

Spec == Init /\ [][Next]_vars

=============================================================================
