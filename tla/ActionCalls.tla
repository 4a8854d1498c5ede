----------------------------- MODULE ActionCalls -----------------------------
(***************************************************************************)
(* What the rule engine may assume of an action service, and what Perform  *)
(* and PerformThrows of AutomationWorker do assume: a call that returns    *)
(* has taken effect, once; a call that throws may have.                    *)
(***************************************************************************)
CONSTANT Callers

VARIABLES
  state,   \* state[c]: what the caller sees
  done     \* done[c]: the call at hand has taken effect

vars == <<state, done>>

Init ==
  /\ state = [c \in Callers |-> "idle"]
  /\ done = [c \in Callers |-> FALSE]

Move(c, from, to, effect) ==
  /\ state[c] \in from
  /\ state' = [state EXCEPT ![c] = to]
  /\ done' = [done EXCEPT ![c] = effect]

TakesEffect(c) == ~done[c] /\ Move(c, {"running"}, "running", TRUE)

Next ==
  \E c \in Callers :
    \/ Move(c, {"idle"}, "running", FALSE)
    \/ TakesEffect(c)
    \/ Move(c, {"running"}, "returned", TRUE)
    \/ \E effect \in {done[c], TRUE} : Move(c, {"running"}, "threw", effect)
    \/ Move(c, {"running", "returned", "threw"}, "idle", FALSE)

Spec == Init /\ [][Next]_vars

=============================================================================
