----------------------- MODULE IdempotencyKeysProofs -----------------------
(***************************************************************************)
(* Theorems about IdempotencyKeys, for every set of keys and callers.      *)
(***************************************************************************)
EXTENDS IdempotencyKeys, IdempotencyTableProofs, FiniteSetTheorems, TLAPS

LEMMA TypeCorrectInit == Init => TypeOK
  BY NoKeyAssumption DEF Init, TypeOK, Stage, IdempotencyRow, NoRow, Status

LEMMA TypeCorrectStep == TypeOK /\ [Next]_vars => TypeOK'
<1> SUFFICES ASSUME TypeOK, [Next]_vars
             PROVE  TypeOK'
  OBVIOUS
<1> USE NoKeyAssumption DEF TypeOK, Stage, IdempotencyRow, Status
<1>1. ASSUME NEW c \in Callers, NEW k \in Keys, Acquire(c, k)
      PROVE  TypeOK'
  BY <1>1 DEF Acquire, Acquired
<1>2. ASSUME NEW c \in Callers, Perform(c)
      PROVE  TypeOK'
  <2>1. effects' \in [Keys -> Nat]
    BY <1>2 DEF Perform
  <2> QED
    BY <1>2, <2>1 DEF Perform, GoTo
<1>3. ASSUME NEW c \in Callers, PerformThrows(c)
      PROVE  TypeOK'
  <2>1. effects' \in [Keys -> Nat]
    BY <1>3 DEF PerformThrows
  <2> QED
    BY <1>3, <2>1 DEF PerformThrows, GoTo
<1>4. ASSUME NEW c \in Callers, Complete(c)
      PROVE  TypeOK'
  <2>1. row' \in [Keys -> IdempotencyRow]
    BY <1>4 DEF Complete, Completed
  <2>2. /\ stage' \in [Callers -> Stage] /\ held' \in [Callers -> Keys \cup {NoKey}]
        /\ \A d \in Callers : stage'[d] = "idle" <=> held'[d] = NoKey
    BY <1>4 DEF Complete, GoTo, GoIdle
  <2> QED
    BY <1>4, <2>1, <2>2 DEF Complete
<1>5. ASSUME NEW c \in Callers, CompleteThrows(c)
      PROVE  TypeOK'
  BY <1>5 DEF CompleteThrows, GoTo
<1>6. ASSUME NEW c \in Callers, Fail(c)
      PROVE  TypeOK'
  BY <1>6 DEF Fail, Failed, GoIdle
<1>7. ASSUME NEW c \in Callers, Abandon(c)
      PROVE  TypeOK'
  BY <1>7 DEF Abandon, GoIdle
<1>8. ASSUME NEW k \in Keys, Expire(k)
      PROVE  TypeOK'
  BY <1>8 DEF Expire, Outlived
<1>9. CASE UNCHANGED vars
  BY <1>9 DEF vars
<1> QED
  BY <1>1, <1>2, <1>3, <1>4, <1>5, <1>6, <1>7, <1>8, <1>9 DEF Next

(* Type correctness: every status is one of the four the table's enum and  *)
(* its absence allow, and a caller holds a key exactly while it is inside  *)
(* the try block of executeRule.                                           *)
THEOREM TypeCorrect == Spec => []TypeOK
  BY TypeCorrectInit, TypeCorrectStep, PTL DEF Spec

-----------------------------------------------------------------------------
(* What makes OneHolder inductive: while no lock outlives its holder's     *)
(* work, the row of a held key is one that acquire() refuses, a fresh      *)
(* PROCESSING lock or, after a complete() whose answer was lost, already   *)
(* COMPLETED.                                                              *)
HeldRowsRefuse ==
  "overrun" \notin faults =>
    \A c \in Callers : held[c] # NoKey => ~Acquirable(row[held[c]])

HolderInv == TypeOK /\ HeldRowsRefuse /\ OneHolder

LEMMA HolderInvInit == Init => HolderInv
  BY TypeCorrectInit DEF Init, HolderInv, HeldRowsRefuse, OneHolder

LEMMA HolderInvStep == HolderInv /\ [Next]_vars => HolderInv'
<1> SUFFICES ASSUME HolderInv, [Next]_vars
             PROVE  HolderInv'
  OBVIOUS
<1>0. TypeOK'
  BY TypeCorrectStep DEF HolderInv
<1>h. SUFFICES ASSUME "overrun" \notin faults
               PROVE  /\ \A c \in Callers : held'[c] # NoKey => ~Acquirable(row'[held'[c]])
                      /\ \A c, d \in Callers :
                           c # d /\ held'[c] # NoKey => held'[c] # held'[d]
  <2>1. faults' = faults
    BY DEF Next, vars, Acquire, Perform, PerformThrows, Complete, CompleteThrows,
           Fail, Abandon, Expire
  <2> QED
    BY <1>0, <2>1 DEF HolderInv, HeldRowsRefuse, OneHolder, Acquirable
<1> USE NoKeyAssumption DEF HolderInv, TypeOK, HeldRowsRefuse, OneHolder, Acquirable,
        Stage, IdempotencyRow, Status
<1>1. ASSUME NEW c \in Callers, NEW k \in Keys, Acquire(c, k)
      PROVE  /\ \A b \in Callers : held'[b] # NoKey => ~Acquirable(row'[held'[b]])
             /\ \A b, d \in Callers : b # d /\ held'[b] # NoKey => held'[b] # held'[d]
  <2>1. \A b \in Callers : held[b] # k
    BY <1>h, <1>1 DEF Acquire
  <2>2. row' = [row EXCEPT ![k] = Acquired(row[k])]
    BY <1>1 DEF Acquire
  <2>3. held' = [held EXCEPT ![c] = k] \/ held' = held
    BY <1>1 DEF Acquire
  <2>4. ~Acquirable(row'[k])
    BY <2>2 DEF Acquired
  <2>5. \A j \in Keys \ {k} : row'[j] = row[j]
    BY <2>2
  <2>6. \A b \in Callers : held'[b] = k \/ held'[b] = held[b]
    BY <2>3
  <2>7. ASSUME NEW b \in Callers, held'[b] # NoKey
        PROVE  ~Acquirable(row'[held'[b]])
    BY <1>h, <2>1, <2>4, <2>5, <2>6, <2>7
  <2>8. ASSUME NEW b \in Callers, NEW d \in Callers, b # d, held'[b] # NoKey
        PROVE  held'[b] # held'[d]
    BY <1>h, <2>1, <2>3, <2>8
  <2> QED
    BY <2>7, <2>8
<1>2. ASSUME NEW c \in Callers, Perform(c) \/ PerformThrows(c) \/ CompleteThrows(c)
      PROVE  /\ \A b \in Callers : held'[b] # NoKey => ~Acquirable(row'[held'[b]])
             /\ \A b, d \in Callers : b # d /\ held'[b] # NoKey => held'[b] # held'[d]
  BY <1>h, <1>2 DEF Perform, PerformThrows, CompleteThrows, GoTo
<1>3. ASSUME NEW c \in Callers, Complete(c)
      PROVE  /\ \A b \in Callers : held'[b] # NoKey => ~Acquirable(row'[held'[b]])
             /\ \A b, d \in Callers : b # d /\ held'[b] # NoKey => held'[b] # held'[d]
  <2>1. held[c] \in Keys
    BY <1>3 DEF Complete
  <2>2. row' = [row EXCEPT ![held[c]] = Completed(row[held[c]])]
    BY <1>3 DEF Complete
  <2>3. held' = held \/ held' = [held EXCEPT ![c] = NoKey]
    BY <1>3 DEF Complete, GoIdle, GoTo
  <2>4. row'[held[c]].status = "COMPLETED"
    BY <2>1, <2>2 DEF Completed
  <2>5. \A k \in Keys \ {held[c]} : row'[k] = row[k]
    BY <2>1, <2>2
  <2>6. ASSUME NEW b \in Callers, held'[b] # NoKey
        PROVE  ~Acquirable(row'[held'[b]])
    <3>1. held'[b] = held[b]
      BY <2>3, <2>6
    <3> QED
      BY <1>h, <2>1, <2>4, <2>5, <2>6, <3>1
  <2>7. ASSUME NEW b \in Callers, NEW d \in Callers, b # d, held'[b] # NoKey
        PROVE  held'[b] # held'[d]
    BY <1>h, <2>3, <2>7
  <2> QED
    BY <2>6, <2>7
<1>4. ASSUME NEW c \in Callers, Fail(c)
      PROVE  /\ \A b \in Callers : held'[b] # NoKey => ~Acquirable(row'[held'[b]])
             /\ \A b, d \in Callers : b # d /\ held'[b] # NoKey => held'[b] # held'[d]
  <2>1. held[c] \in Keys
    BY <1>4 DEF Fail
  <2>2. row' = [row EXCEPT ![held[c]] = Failed(row[held[c]])]
    BY <1>4 DEF Fail
  <2>3. held' = [held EXCEPT ![c] = NoKey]
    BY <1>4 DEF Fail, GoIdle
  <2>4. \A b \in Callers \ {c} : held[b] # held[c]
    BY <1>h, <2>1
  <2> QED
    BY <1>h, <2>1, <2>2, <2>3, <2>4
<1>5. ASSUME NEW c \in Callers, Abandon(c)
      PROVE  /\ \A b \in Callers : held'[b] # NoKey => ~Acquirable(row'[held'[b]])
             /\ \A b, d \in Callers : b # d /\ held'[b] # NoKey => held'[b] # held'[d]
  BY <1>h, <1>5 DEF Abandon, GoIdle
<1>6. ASSUME NEW k \in Keys, Expire(k)
      PROVE  /\ \A b \in Callers : held'[b] # NoKey => ~Acquirable(row'[held'[b]])
             /\ \A b, d \in Callers : b # d /\ held'[b] # NoKey => held'[b] # held'[d]
  <2>1. \A b \in Callers : held[b] # k
    BY <1>h, <1>6 DEF Expire
  <2>2. row' = [row EXCEPT ![k] = Outlived(row[k])] /\ held' = held
    BY <1>6 DEF Expire
  <2> QED
    BY <1>h, <2>1, <2>2
<1>7. CASE UNCHANGED vars
  BY <1>h, <1>7 DEF vars
<1> QED
  BY <1>1, <1>2, <1>3, <1>4, <1>5, <1>6, <1>7 DEF Next

(* Mutual exclusion per key: as long as locks do not outlive their         *)
(* holders' work, acquire() never lets two runs execute one keyed action   *)
(* side by side.                                                           *)
THEOREM AtMostOneHolder == Spec => []OneHolder
<1>1. HolderInv => OneHolder
  BY DEF HolderInv
<1> QED
  BY HolderInvInit, HolderInvStep, <1>1, PTL DEF Spec

-----------------------------------------------------------------------------
(* What makes CompletedWasPerformed inductive: a caller about to call      *)
(* complete() has performed.                                               *)
ClosingHasPerformed ==
  \A c \in Callers : stage[c] = "closing" => effects[held[c]] > 0

PerformedInv == TypeOK /\ ClosingHasPerformed /\ CompletedWasPerformed

LEMMA PerformedInvInductive ==
  /\ Init => PerformedInv
  /\ PerformedInv /\ [Next]_vars => PerformedInv'
<1>1. Init => PerformedInv
  BY TypeCorrectInit DEF Init, PerformedInv, ClosingHasPerformed, CompletedWasPerformed, NoRow
<1>2. PerformedInv /\ [Next]_vars => PerformedInv'
  <2> SUFFICES ASSUME PerformedInv, [Next]_vars
               PROVE  ClosingHasPerformed' /\ CompletedWasPerformed'
    BY TypeCorrectStep DEF PerformedInv
  <2> USE NoKeyAssumption DEF PerformedInv, TypeOK, ClosingHasPerformed, CompletedWasPerformed, Stage,
          IdempotencyRow, Status
  <2>1. ASSUME NEW c \in Callers, NEW k \in Keys, Acquire(c, k)
        PROVE  ClosingHasPerformed' /\ CompletedWasPerformed'
    BY <2>1 DEF Acquire, Acquired
  <2>2. ASSUME NEW c \in Callers, Perform(c)
        PROVE  ClosingHasPerformed' /\ CompletedWasPerformed'
    BY <2>2 DEF Perform, GoTo
  <2>3. ASSUME NEW c \in Callers, PerformThrows(c)
        PROVE  ClosingHasPerformed' /\ CompletedWasPerformed'
    BY <2>3 DEF PerformThrows, GoTo
  <2>4. ASSUME NEW c \in Callers, Complete(c)
        PROVE  ClosingHasPerformed' /\ CompletedWasPerformed'
    BY <2>4 DEF Complete, Completed, GoTo, GoIdle
  <2>5. ASSUME NEW c \in Callers, CompleteThrows(c)
        PROVE  ClosingHasPerformed' /\ CompletedWasPerformed'
    BY <2>5 DEF CompleteThrows, GoTo
  <2>6. ASSUME NEW c \in Callers, Fail(c)
        PROVE  ClosingHasPerformed' /\ CompletedWasPerformed'
    BY <2>6 DEF Fail, Failed, GoIdle
  <2>7. ASSUME NEW c \in Callers, Abandon(c)
        PROVE  ClosingHasPerformed' /\ CompletedWasPerformed'
    BY <2>7 DEF Abandon, GoIdle
  <2>8. ASSUME NEW k \in Keys, Expire(k)
        PROVE  ClosingHasPerformed' /\ CompletedWasPerformed'
    BY <2>8 DEF Expire, Outlived
  <2>9. CASE UNCHANGED vars
    BY <2>9 DEF vars
  <2> QED
    BY <2>1, <2>2, <2>3, <2>4, <2>5, <2>6, <2>7, <2>8, <2>9 DEF Next
<1> QED
  BY <1>1, <1>2

(* A COMPLETED key stands for a side effect that took place, under every   *)
(* fault: complete() is called only after the action service returned.     *)
THEOREM CompletedMeansPerformed == Spec => []CompletedWasPerformed
<1>1. PerformedInv => CompletedWasPerformed
  BY DEF PerformedInv
<1> QED
  BY PerformedInvInductive, <1>1, PTL DEF Spec

-----------------------------------------------------------------------------
(* What makes EffectsWithinAttempts inductive: every caller about to       *)
(* perform has an attempt of its own that no effect has used yet.          *)
Acting(k) == {c \in Callers : stage[c] = "acting" /\ held[c] = k}

AttemptsCovered == \A k \in Keys : effects[k] + Cardinality(Acting(k)) <= row[k].attempts

LEMMA ActingFinite ==
  ASSUME NEW k
  PROVE  IsFiniteSet(Acting(k)) /\ Cardinality(Acting(k)) \in Nat
  BY CallersAssumption, FS_Subset, FS_CardinalityType, Acting(k) \subseteq Callers DEF Acting

LEMMA AttemptsCoveredStep ==
  ASSUME TypeOK, AttemptsCovered, [Next]_vars
  PROVE  AttemptsCovered'
<1> SUFFICES ASSUME NEW k \in Keys
             PROVE  effects'[k] + Cardinality(Acting(k)') <= row'[k].attempts
  BY DEF AttemptsCovered
<1> DEFINE n == Cardinality(Acting(k))
<1>0. effects[k] \in Nat /\ n \in Nat /\ row[k].attempts \in Nat /\ effects[k] + n <= row[k].attempts
  BY ActingFinite DEF TypeOK, IdempotencyRow, AttemptsCovered
<1> USE NoKeyAssumption DEF TypeOK, Stage, IdempotencyRow, Status
<1>1. ASSUME NEW c \in Callers, NEW j \in Keys, Acquire(c, j)
      PROVE  effects'[k] + Cardinality(Acting(k)') <= row'[k].attempts
  <2>1. effects' = effects /\ row'[k].attempts = row[k].attempts + (IF j = k THEN 1 ELSE 0)
    <3>1. row' = [row EXCEPT ![j] = Acquired(row[j])] /\ effects' = effects
      BY <1>1 DEF Acquire
    <3>2. Acquired(row[j]).attempts = row[j].attempts + 1
      BY RowUpdates
    <3> QED
      BY <1>0, <3>1, <3>2
  <2>2. \/ Acting(k)' = Acting(k)
        \/ j = k /\ Acting(k)' = Acting(k) \cup {c} /\ c \notin Acting(k)
    BY <1>1 DEF Acquire, Acting
  <2>3. CASE Acting(k)' = Acting(k)
    BY <1>0, <2>1, <2>3
  <2>4. CASE j = k /\ Acting(k)' = Acting(k) \cup {c} /\ c \notin Acting(k)
    <3>1. Cardinality(Acting(k)') = n + 1
      BY <2>4, ActingFinite, FS_AddElement
    <3> QED
      BY <1>0, <2>1, <2>4, <3>1
  <2> QED
    BY <2>2, <2>3, <2>4
<1>2. ASSUME NEW c \in Callers, Perform(c) \/ PerformThrows(c)
      PROVE  effects'[k] + Cardinality(Acting(k)') <= row'[k].attempts
  <2>1. CASE held[c] = k
    <3>1. c \in Acting(k) /\ Acting(k)' = Acting(k) \ {c}
      BY <1>2, <2>1 DEF Perform, PerformThrows, GoTo, Acting
    <3>2. Cardinality(Acting(k)') = n - 1
      BY <3>1, ActingFinite, FS_RemoveElement
    <3>3. effects'[k] \in {effects[k], effects[k] + 1} /\ row' = row
      BY <1>2, <2>1 DEF Perform, PerformThrows
    <3> QED
      BY <1>0, <3>2, <3>3
  <2>2. CASE held[c] # k
    <3>1. Acting(k)' = Acting(k) /\ effects'[k] = effects[k] /\ row' = row
      BY <1>2, <2>2 DEF Perform, PerformThrows, GoTo, Acting
    <3> QED
      BY <1>0, <3>1
  <2> QED
    BY <2>1, <2>2
<1>3. ASSUME NEW c \in Callers, Complete(c) \/ CompleteThrows(c) \/ Fail(c)
      PROVE  effects'[k] + Cardinality(Acting(k)') <= row'[k].attempts
  <2>1. Acting(k)' = Acting(k)
    BY <1>3 DEF Complete, CompleteThrows, Fail, GoTo, GoIdle, Acting
  <2>2. effects' = effects /\ row'[k].attempts = row[k].attempts
    <3>1. /\ effects' = effects
          /\ \/ row' = row
             \/ row' = [row EXCEPT ![held[c]] = Completed(row[held[c]])]
             \/ row' = [row EXCEPT ![held[c]] = Failed(row[held[c]])]
      BY <1>3 DEF Complete, CompleteThrows, Fail
    <3>2. held[c] \in Keys
      BY <1>3 DEF Complete, CompleteThrows, Fail
    <3>3. /\ Completed(row[held[c]]).attempts = row[held[c]].attempts
          /\ Failed(row[held[c]]).attempts = row[held[c]].attempts
      BY <3>2, RowUpdates
    <3> QED
      BY <3>1, <3>2, <3>3
  <2> QED
    BY <1>0, <2>1, <2>2
<1>4. ASSUME NEW c \in Callers, Abandon(c)
      PROVE  effects'[k] + Cardinality(Acting(k)') <= row'[k].attempts
  <2>1. Acting(k)' \subseteq Acting(k)
    BY <1>4 DEF Abandon, GoIdle, Acting
  <2>2. Cardinality(Acting(k)') \in Nat /\ Cardinality(Acting(k)') <= n
    BY <2>1, ActingFinite, FS_Subset, FS_CardinalityType
  <2> QED
    BY <1>0, <1>4, <2>2 DEF Abandon
<1>5. ASSUME NEW j \in Keys, Expire(j)
      PROVE  effects'[k] + Cardinality(Acting(k)') <= row'[k].attempts
  <2>1. Acting(k)' = Acting(k) /\ effects' = effects /\ row'[k].attempts = row[k].attempts
    BY <1>5 DEF Expire, Outlived, Acting
  <2> QED
    BY <1>0, <2>1
<1>6. CASE UNCHANGED vars
  BY <1>0, <1>6 DEF vars, Acting
<1> QED
  BY <1>1, <1>2, <1>3, <1>4, <1>5, <1>6 DEF Next

(* No side effect without an attempt of its own, under every fault: the    *)
(* attempts column of a key is an upper bound on how often the outside     *)
(* world saw its action.                                                   *)
THEOREM AttemptsBoundEffects == Spec => []EffectsWithinAttempts
<1>1. Init => TypeOK /\ AttemptsCovered
  <2> SUFFICES ASSUME Init
               PROVE  AttemptsCovered
    BY TypeCorrectInit
  <2>1. \A k \in Keys : Acting(k) = {}
    BY DEF Init, Acting
  <2>2. \A k \in Keys : Cardinality(Acting(k)) = 0 /\ effects[k] = 0 /\ row[k].attempts = 0
    BY <2>1, FS_EmptySet DEF Init, NoRow
  <2> QED
    BY <2>2 DEF AttemptsCovered
<1>2. TypeOK /\ AttemptsCovered /\ [Next]_vars => (TypeOK /\ AttemptsCovered)'
  BY TypeCorrectStep, AttemptsCoveredStep
<1>3. TypeOK /\ AttemptsCovered => EffectsWithinAttempts
  BY ActingFinite DEF TypeOK, IdempotencyRow, AttemptsCovered, EffectsWithinAttempts
<1> QED
  BY <1>1, <1>2, <1>3, PTL DEF Spec

-----------------------------------------------------------------------------
(* The simulation of GuardedActions.  In a reliable execution the row of a *)
(* held key is PROCESSING, so a key is in exactly one phase.               *)
HeldRowsProcessing ==
  Reliable => \A c \in Callers : held[c] # NoKey => row[held[c]].status = "PROCESSING"

SimulationInv ==
  HolderInv /\ ClosingHasPerformed /\ CompletedWasPerformed /\ HeldRowsProcessing

LEMMA HeldRowsProcessingStep ==
  ASSUME HolderInv, HeldRowsProcessing, [Next]_vars
  PROVE  HeldRowsProcessing'
<1>1. faults' = faults
  BY DEF Next, vars, Acquire, Perform, PerformThrows, Complete, CompleteThrows,
         Fail, Abandon, Expire
<1> SUFFICES ASSUME faults = {}, NEW b \in Callers, held'[b] # NoKey
             PROVE  row'[held'[b]].status = "PROCESSING"
  BY <1>1 DEF HeldRowsProcessing, Reliable
<1>2. \A c \in Callers : held[c] # NoKey =>
        /\ held[c] \in Keys
        /\ row[held[c]].status = "PROCESSING" /\ ~Acquirable(row[held[c]])
        /\ \A d \in Callers : c # d => held[c] # held[d]
  BY DEF HolderInv, TypeOK, HeldRowsRefuse, OneHolder, HeldRowsProcessing, Reliable
<1> USE NoKeyAssumption
<1> USE DEF HolderInv, TypeOK
<1>3. ASSUME NEW c \in Callers, NEW k \in Keys, Acquire(c, k)
      PROVE  row'[held'[b]].status = "PROCESSING"
  <2>1. held' = [held EXCEPT ![c] = k]
    BY <1>3 DEF Acquire
  <2>2. row' = [row EXCEPT ![k] = Acquired(row[k])] /\ Acquirable(row[k])
    BY <1>3 DEF Acquire
  <2>3. \A d \in Callers : held[d] # k
    BY <1>2, <2>2
  <2> QED
    BY <1>2, <2>1, <2>2, <2>3 DEF Acquired
<1>4. ASSUME NEW c \in Callers, Perform(c) \/ PerformThrows(c) \/ CompleteThrows(c)
      PROVE  row'[held'[b]].status = "PROCESSING"
  BY <1>2, <1>4 DEF Perform, PerformThrows, CompleteThrows, GoTo
<1>5. ASSUME NEW c \in Callers, Complete(c) \/ Fail(c)
      PROVE  row'[held'[b]].status = "PROCESSING"
  <2>1. held' = [held EXCEPT ![c] = NoKey] /\ held[c] # NoKey
    BY <1>5 DEF Complete, Fail, GoIdle
  <2>2. b # c /\ held'[b] = held[b] /\ held[b] # held[c]
    BY <1>2, <2>1
  <2>3. row'[held[b]] = row[held[b]]
    BY <1>2, <1>5, <2>1, <2>2 DEF Complete, Fail
  <2> QED
    BY <1>2, <2>2, <2>3
<1>6. ASSUME NEW c \in Callers, Abandon(c)
      PROVE  row'[held'[b]].status = "PROCESSING"
  BY <1>2, <1>6 DEF Abandon, GoIdle
<1>7. ASSUME NEW k \in Keys, Expire(k)
      PROVE  row'[held'[b]].status = "PROCESSING"
  <2>1. held' = held /\ row' = [row EXCEPT ![k] = Outlived(row[k])]
    BY <1>7 DEF Expire
  <2>2. held[b] # k
    BY <1>7 DEF Expire
  <2> QED
    BY <1>2, <2>1, <2>2
<1>8. CASE UNCHANGED vars
  BY <1>2, <1>8 DEF vars
<1> QED
  BY <1>3, <1>4, <1>5, <1>6, <1>7, <1>8 DEF Next

LEMMA PhaseOfHeld ==
  ASSUME SimulationInv, Reliable, NEW c \in Callers, held[c] # NoKey
  PROVE  PhaseOf(held[c]) = c
<1>1. row[held[c]].status # "COMPLETED"
  BY DEF SimulationInv, HeldRowsProcessing
<1>2. \A d \in Callers : held[d] = held[c] => d = c
  BY DEF SimulationInv, HolderInv, OneHolder, Reliable
<1>3. (CHOOSE d \in Callers : held[d] = held[c]) = c
  BY <1>2
<1> QED
  BY <1>1, <1>3 DEF PhaseOf

(* A key whose row and whose holder a step leaves alone keeps its phase.   *)
LEMMA PhaseUnchanged ==
  ASSUME NEW k \in Keys, row'[k].status = row[k].status,
         \A c \in Callers : held'[c] = k <=> held[c] = k
  PROVE  PhaseOf(k)' = PhaseOf(k)
<1>1. (CHOOSE c \in Callers : held'[c] = k) = (CHOOSE c \in Callers : held[c] = k)
  OBVIOUS
<1> QED
  BY <1>1 DEF PhaseOf

LEMMA SimulationStep ==
  ASSUME SimulationInv, SimulationInv', [Next]_vars
  PROVE  [Guarded!Next]_(Guarded!vars)
<1> DEFINE p == [k \in Keys |-> IF Reliable THEN PhaseOf(k) ELSE "open"]
           e == [k \in Keys |-> IF Reliable THEN effects[k] ELSE 0]
<1>1. faults' = faults
  BY DEF Next, vars, Acquire, Perform, PerformThrows, Complete, CompleteThrows,
         Fail, Abandon, Expire
<1>2. CASE ~Reliable
  <2>1. p' = p /\ e' = e
    BY <1>1, <1>2 DEF Reliable
  <2> QED
    BY <2>1 DEF Guarded!vars
<1>3. CASE Reliable
  <2>0. /\ faults = {} /\ faults' = {} /\ Reliable'
        /\ p = [k \in Keys |-> PhaseOf(k)] /\ p' = [k \in Keys |-> PhaseOf(k)']
        /\ e = effects /\ e' = effects'
        /\ TypeOK /\ TypeOK'
    BY <1>1, <1>3 DEF Reliable, SimulationInv, HolderInv, TypeOK
  <2>1. ASSUME NEW c \in Callers, held[c] # NoKey
        PROVE  held[c] \in Keys /\ PhaseOf(held[c]) = c
    BY <1>3, <2>0, <2>1, PhaseOfHeld DEF TypeOK
  <2>3. ASSUME NEW c \in Callers, NEW k \in Keys, Acquire(c, k)
        PROVE  Guarded!Begin(c, k)
    <3>1. /\ held[c] = NoKey /\ held' = [held EXCEPT ![c] = k] /\ effects' = effects
          /\ row' = [row EXCEPT ![k] = Acquired(row[k])] /\ Acquirable(row[k])
      BY <2>0, <2>3 DEF Acquire, TypeOK
    <3>2. \A d \in Callers : held[d] # k
      BY <2>0, <3>1, NoKeyAssumption DEF SimulationInv, HolderInv, HeldRowsRefuse
    <3>3. PhaseOf(k) = "open"
      BY <3>1, <3>2 DEF PhaseOf, Acquirable
    <3>4. \A d \in Callers : held'[d] = k <=> d = c
      BY <2>0, <3>1, <3>2 DEF TypeOK
    <3>5. PhaseOf(k)' = c
      <4>1. row'[k].status # "COMPLETED"
        BY <2>0, <3>1 DEF TypeOK, Acquired
      <4>2. (CHOOSE d \in Callers : held'[d] = k) = c
        BY <3>4
      <4> QED
        BY <3>4, <4>1, <4>2 DEF PhaseOf
    <3>6. ASSUME NEW j \in Keys \ {k}
          PROVE  PhaseOf(j)' = PhaseOf(j)
      BY <2>0, <3>1, NoKeyAssumption, PhaseUnchanged DEF TypeOK
    <3>7. p' = [p EXCEPT ![k] = c]
      BY <2>0, <3>5, <3>6
    <3> QED
      BY <2>0, <3>1, <3>3, <3>7 DEF Guarded!Begin
  <2>4. ASSUME NEW c \in Callers, NEW k \in Keys, held[c] = k, Perform(c) \/ PerformThrows(c)
        PROVE  \/ Guarded!Execute(c, k)
               \/ UNCHANGED <<p, e>>
    <3>1. held[c] # NoKey /\ held' = held /\ row' = row
      BY <2>0, <2>4 DEF Perform, PerformThrows, GoTo, TypeOK
    <3>2. \A j \in Keys : PhaseOf(j)' = PhaseOf(j)
      BY <3>1, PhaseUnchanged
    <3>3. \/ effects' = [effects EXCEPT ![k] = @ + 1]
          \/ effects' = [effects EXCEPT ![k] = @ + 0]
      BY <2>4 DEF Perform, PerformThrows
    <3>4. [effects EXCEPT ![k] = @ + 0] = effects
      BY <2>0, <2>1, <3>1 DEF TypeOK
    <3>5. PhaseOf(k) = c
      BY <2>1, <2>4, <3>1
    <3> QED
      BY <2>0, <3>2, <3>3, <3>4, <3>5 DEF Guarded!Execute
  <2>5. ASSUME NEW c \in Callers, Complete(c)
        PROVE  Guarded!Finish(c, held[c])
    <3>1. /\ held[c] # NoKey /\ held' = [held EXCEPT ![c] = NoKey] /\ effects' = effects
          /\ row' = [row EXCEPT ![held[c]] = Completed(row[held[c]])]
      BY <2>0, <2>5 DEF Complete, GoIdle, TypeOK
    <3>2. PhaseOf(held[c]) = c /\ held[c] \in Keys
      BY <2>1, <3>1
    <3>3. effects[held[c]] > 0
      BY <2>5 DEF Complete, SimulationInv, ClosingHasPerformed
    <3>4. ASSUME NEW k \in Keys
          PROVE  PhaseOf(k)' = IF k = held[c] THEN "done" ELSE PhaseOf(k)
      <4>1. CASE k = held[c]
        <5>1. row'[k].status = "COMPLETED"
          BY <2>0, <3>1, <3>2, <4>1, RowUpdates DEF TypeOK
        <5> QED
          BY <4>1, <5>1 DEF PhaseOf
      <4>2. CASE k # held[c]
        BY <2>0, <3>1, <4>2, NoKeyAssumption, PhaseUnchanged DEF TypeOK
      <4> QED
        BY <4>1, <4>2
    <3> QED
      BY <2>0, <3>1, <3>2, <3>3, <3>4 DEF Guarded!Finish
  <2>6. ASSUME NEW c \in Callers, CompleteThrows(c)
        PROVE  UNCHANGED <<p, e>>
    <3>1. held' = held /\ row' = row /\ effects' = effects
      BY <2>6 DEF CompleteThrows, GoTo
    <3> QED
      BY <2>0, <3>1, PhaseUnchanged
  <2>7. ASSUME NEW c \in Callers, Fail(c) \/ Abandon(c)
        PROVE  Guarded!GiveUp(c, held[c])
    <3>1. /\ held[c] # NoKey /\ held' = [held EXCEPT ![c] = NoKey] /\ effects' = effects
          /\ \/ row' = row
             \/ row' = [row EXCEPT ![held[c]] = Failed(row[held[c]])]
      BY <2>0, <2>7 DEF Fail, Abandon, GoIdle, TypeOK
    <3>2. PhaseOf(held[c]) = c /\ held[c] \in Keys
      BY <2>1, <3>1
    <3>3. row[held[c]].status = "PROCESSING" /\ row[held[c]] \in IdempotencyRow
      BY <1>3, <2>0, <3>1, <3>2 DEF SimulationInv, HeldRowsProcessing, TypeOK
    <3>4. row'[held[c]].status # "COMPLETED"
      BY <2>0, <3>1, <3>2, <3>3, RowUpdates DEF TypeOK
    <3>5. \A d \in Callers : held'[d] # held[c]
      BY <2>0, <3>1, <3>2, NoKeyAssumption DEF SimulationInv, HolderInv, OneHolder, TypeOK
    <3>6. ASSUME NEW k \in Keys
          PROVE  PhaseOf(k)' = IF k = held[c] THEN "open" ELSE PhaseOf(k)
      <4>1. CASE k = held[c]
        BY <3>4, <3>5, <4>1 DEF PhaseOf
      <4>2. CASE k # held[c]
        BY <2>0, <3>1, <4>2, NoKeyAssumption, PhaseUnchanged DEF TypeOK
      <4> QED
        BY <4>1, <4>2
    <3> QED
      BY <2>0, <3>1, <3>2, <3>6 DEF Guarded!GiveUp
  <2>8. ASSUME NEW k \in Keys, Expire(k)
        PROVE  UNCHANGED <<p, e>>
    <3>1. /\ held' = held /\ effects' = effects
          /\ row' = [row EXCEPT ![k] = Outlived(row[k])]
      BY <2>8 DEF Expire
    <3>2. \A j \in Keys : row'[j].status = row[j].status
      BY <2>0, <3>1, RowUpdates DEF TypeOK
    <3> QED
      BY <2>0, <3>1, <3>2, PhaseUnchanged
  <2>9. ASSUME UNCHANGED vars
        PROVE  UNCHANGED <<p, e>>
    BY <2>0, <2>9, PhaseUnchanged DEF vars
  <2>10. ASSUME NEW c \in Callers, NEW k \in Keys,
                \/ Guarded!Begin(c, k) \/ Guarded!Execute(c, k)
                \/ Guarded!Finish(c, k) \/ Guarded!GiveUp(c, k)
         PROVE  Guarded!Next
    BY <2>10 DEF Guarded!Next
  <2>11. ASSUME NEW c \in Callers, stage[c] # "idle"
         PROVE  held[c] \in Keys
    BY <2>0, <2>11 DEF TypeOK
  <2>12. Guarded!vars = <<p, e>> /\ Guarded!vars' = <<p', e'>>
    BY DEF Guarded!vars
  <2> HIDE DEF p, e
  <2>13. ASSUME NEW c \in Callers, NEW k \in Keys, Acquire(c, k)
         PROVE  Guarded!Next
    BY <2>3, <2>10, <2>13
  <2>14. ASSUME NEW c \in Callers, Perform(c) \/ PerformThrows(c)
         PROVE  Guarded!Next \/ UNCHANGED <<p, e>>
    <3>1. PICK k \in Keys : held[c] = k
      BY <2>11, <2>14 DEF Perform, PerformThrows
    <3> QED
      BY <2>4, <2>10, <2>14, <3>1
  <2>15. ASSUME NEW c \in Callers, Complete(c)
         PROVE  Guarded!Next
    BY <2>5, <2>10, <2>11, <2>15 DEF Complete
  <2>16. ASSUME NEW c \in Callers, Fail(c) \/ Abandon(c)
         PROVE  Guarded!Next
    BY <2>7, <2>10, <2>11, <2>16 DEF Fail, Abandon
  <2>17. Guarded!Next \/ UNCHANGED <<p, e>>
    BY <2>6, <2>8, <2>9, <2>13, <2>14, <2>15, <2>16 DEF Next
  <2> QED
    BY <2>12, <2>17
<1> QED
  BY <1>2, <1>3

(* In every execution without "overrun" and "ack", whatever crashes and    *)
(* exceptions it meets, IdempotencyService used as executeRule uses it     *)
(* keeps the promise of GuardedActions: one performer at a time, and never *)
(* again once COMPLETED.                                                   *)
THEOREM KeysImplementGuardedActions == Spec => ImplementsGuardedActions
<1>1. Init => SimulationInv
  BY HolderInvInit, PerformedInvInductive
     DEF Init, SimulationInv, PerformedInv, HeldRowsProcessing
<1>2. SimulationInv /\ [Next]_vars => SimulationInv'
  BY HolderInvStep, PerformedInvInductive, HeldRowsProcessingStep
     DEF SimulationInv, HolderInv, PerformedInv
<1>3. Init => Guarded!Init
  <2> SUFFICES ASSUME Init
               PROVE  /\ \A k \in Keys : PhaseOf(k) = "open"
                      /\ \A k \in Keys : effects[k] = 0
    BY DEF Guarded!Init
  <2>1. \A c \in Callers, k \in Keys : held[c] # k
    BY NoKeyAssumption DEF Init
  <2> QED
    BY <2>1 DEF Init, PhaseOf, NoRow
<1>4. SimulationInv /\ SimulationInv' /\ [Next]_vars => [Guarded!Next]_(Guarded!vars)
  BY SimulationStep
<1> QED
  BY <1>1, <1>2, <1>3, <1>4, PTL DEF Spec, ImplementsGuardedActions, Guarded!Spec

=============================================================================
