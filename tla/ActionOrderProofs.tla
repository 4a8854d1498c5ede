------------------------- MODULE ActionOrderProofs -------------------------
(***************************************************************************)
(* What the retries of AutomationWorker make of the actions of an event:   *)
(* none is lost while the database and the workers hold, none overtakes    *)
(* another, and one that a crash loses leaves its key PROCESSING.          *)
(***************************************************************************)
EXTENDS AutomationWorkerProofs

-----------------------------------------------------------------------------
(* The order in which a database returns rules of equal priority changes   *)
(* neither their actions nor whether these have keys of their own.         *)
LEMMA ReorderedSame ==
  ASSUME TypeOK, NEW e \in Events, NEW p \in Reordered(rules[e]),
         rules' = [rules EXCEPT ![e] = p]
  PROVE  ActionsOf(e)' = ActionsOf(e) /\ (OwnKeys(e)' => OwnKeys(e))
<1>1. PICK f \in Bijection(DOMAIN p, DOMAIN rules[e]) :
        \A i \in DOMAIN p : p[i] = rules[e][f[i]]
  BY DEF Reordered
<1>2. /\ f \in [DOMAIN p -> DOMAIN rules[e]]
      /\ \A i, j \in DOMAIN p : f[i] = f[j] => i = j
      /\ \A j \in DOMAIN rules[e] : \E i \in DOMAIN p : f[i] = j
  BY DEF Bijection, Injection, Surjection, IsInjective
<1>3. rules'[e] = p
  BY DEF TypeOK
<1>4. ActionsOf(e)' = ActionsOf(e)
  BY <1>1, <1>2, <1>3 DEF ActionsOf
<1>5. ASSUME OwnKeys(e)', NEW j \in DOMAIN rules[e], NEW k \in DOMAIN rules[e],
             buildIdempotencyKey(e, rules[e][j]) = buildIdempotencyKey(e, rules[e][k])
      PROVE  j = k
  <2>1. PICK i \in DOMAIN p : f[i] = j
    BY <1>2
  <2>2. PICK l \in DOMAIN p : f[l] = k
    BY <1>2
  <2>3. buildIdempotencyKey(e, p[i]) = buildIdempotencyKey(e, p[l])
    BY <1>1, <1>5, <2>1, <2>2
  <2>4. i = l
    BY <1>3, <1>5, <2>3 DEF OwnKeys, buildIdempotencyKey
  <2> QED
    BY <2>1, <2>2, <2>4
<1> QED
  BY <1>4, <1>5 DEF OwnKeys

-----------------------------------------------------------------------------
(* No action is lost.  Inductive: a key is COMPLETED only after its action *)
(* took place; what a run has left is of the plan, and what it has behind  *)
(* it took place or has its key PROCESSING.                                *)
InLoop == {"actions"} \cup Holding

ToDo(w) == {todo[w][i] : i \in DOMAIN todo[w]}

Accounted(e, others) ==
  \A a \in ActionsOf(e) \ others :
    a \in sent[e] \/ row[buildIdempotencyKey(e, a)].status = "PROCESSING"

LoopSound(w) ==
  /\ ToDo(w) \subseteq ActionsOf(on[w])
  /\ pc[w] = "complete" => Head(todo[w]) \in sent[on[w]]
  /\ Accounted(on[w], ToDo(w))

EventSound(e) ==
  OwnKeys(e) =>
    /\ \A a \in ActionsOf(e) :
         row[buildIdempotencyKey(e, a)].status = "COMPLETED" => a \in sent[e]
    /\ \A w \in Workers : on[w] = e /\ pc[w] \in InLoop => LoopSound(w)
    /\ \A w \in Workers : on[w] = e /\ pc[w] = "return" => Accounted(e, {})
    /\ job[e].state = "completed" => Accounted(e, {})

ActionsAccounted == Without({"zombie", "edit"}) => \A e \in Events : EventSound(e)

AccountInv == TypeInv /\ RunsOwnJobs /\ ActionsAccounted

(* While answers and workers are not lost, a PROCESSING key is held.       *)
LocksHeld ==
  Without({"crash", "db", "ack"}) =>
    \A k \in Keys : row[k].status = "PROCESSING" => \E w \in Workers : HeldBy(w) = k

(* While plans stay as they are a run's actions left are the plan's last,  *)
(* and no action took place before the ones in front of it.                *)
LastOf(w) ==
  LET plan == rules[on[w]]
  IN  /\ Len(todo[w]) <= Len(plan)
      /\ \A i \in DOMAIN todo[w] : todo[w][i] = plan[Len(plan) - Len(todo[w]) + i]

OrderKept ==
  Without({"crash", "zombie", "db", "ack", "edit", "reorder"}) =>
    \A w \in Workers : pc[w] \in InLoop => LastOf(w)

-----------------------------------------------------------------------------
(* Keys and lists.                                                         *)

LEMMA OneActionPerKey ==
  ASSUME NEW e \in Events, OwnKeys(e), NEW a \in ActionsOf(e), NEW b \in ActionsOf(e),
         buildIdempotencyKey(e, a) = buildIdempotencyKey(e, b)
  PROVE  a = b
<1>1. PICK i \in DOMAIN rules[e] : a = rules[e][i]
  BY DEF ActionsOf
<1>2. PICK j \in DOMAIN rules[e] : b = rules[e][j]
  BY DEF ActionsOf
<1>3. i = j
  BY <1>1, <1>2 DEF OwnKeys
<1> QED
  BY <1>1, <1>2, <1>3

LEMMA ActionsTyped ==
  ASSUME TypeOK, NEW e \in Events
  PROVE  rules[e] \in Seq(Actions) /\ ActionsOf(e) \subseteq Actions
<1>1. rules[e] \in Seq(Actions)
  BY PlansAssumption DEF TypeOK
<1> QED
  BY <1>1 DEF ActionsOf

LEMMA KeysApart ==
  ASSUME NEW e, NEW f, e # f, NEW a, NEW b
  PROVE  buildIdempotencyKey(e, a) # buildIdempotencyKey(f, b)
  BY DEF buildIdempotencyKey

LEMMA HeadAndTail ==
  ASSUME NEW s \in Seq(Actions), s # <<>>
  PROVE  /\ Head(s) = s[1] /\ 1 \in DOMAIN s
         /\ Len(Tail(s)) = Len(s) - 1 /\ Len(s) \in Nat \ {0}
         /\ \A i \in DOMAIN Tail(s) : i + 1 \in DOMAIN s /\ Tail(s)[i] = s[i + 1]
         /\ \A i \in DOMAIN s : i = 1 \/ (i - 1 \in DOMAIN Tail(s) /\ Tail(s)[i - 1] = s[i])
<1>1. Len(s) \in Nat \ {0} /\ DOMAIN s = 1 .. Len(s)
  OBVIOUS
<1>2. /\ Tail(s) \in Seq(Actions) /\ Len(Tail(s)) = Len(s) - 1
      /\ DOMAIN Tail(s) = 1 .. (Len(s) - 1)
  BY <1>1
<1>3. \A i \in 1 .. (Len(s) - 1) : Tail(s)[i] = s[i + 1]
  BY <1>1
<1>4. Head(s) = s[1]
  BY <1>1
<1>5. \A i \in DOMAIN s : i = 1 \/ (i - 1 \in DOMAIN Tail(s) /\ Tail(s)[i - 1] = s[i])
  <2> SUFFICES ASSUME NEW i \in 1 .. Len(s), i # 1
               PROVE  i - 1 \in 1 .. (Len(s) - 1) /\ Tail(s)[i - 1] = s[i]
    BY <1>1, <1>2
  <2>1. i - 1 \in 1 .. (Len(s) - 1) /\ (i - 1) + 1 = i
    BY <1>1
  <2> QED
    BY <1>3, <2>1
<1> QED
  BY <1>1, <1>2, <1>3, <1>4, <1>5

\* The action at hand and the ones behind it.
LEMMA HeadOfToDo ==
  ASSUME RunsTyped, NEW w \in Workers, todo[w] # <<>>
  PROVE  /\ Head(todo[w]) \in ToDo(w)
         /\ {Tail(todo[w])[i] : i \in DOMAIN Tail(todo[w])} \subseteq ToDo(w)
         /\ ToDo(w) \subseteq
              {Head(todo[w])} \cup {Tail(todo[w])[i] : i \in DOMAIN Tail(todo[w])}
<1> DEFINE t == todo[w]
<1>1. t \in Seq(Actions) /\ t # <<>>
  BY DEF RunsTyped
<1>2. /\ Head(t) = t[1] /\ 1 \in DOMAIN t
      /\ \A i \in DOMAIN Tail(t) : i + 1 \in DOMAIN t /\ Tail(t)[i] = t[i + 1]
      /\ \A i \in DOMAIN t : i = 1 \/ (i - 1 \in DOMAIN Tail(t) /\ Tail(t)[i - 1] = t[i])
  BY <1>1, HeadAndTail
<1>3. ToDo(w) = {t[i] : i \in DOMAIN t}
  BY DEF ToDo
<1> HIDE DEF t
<1>4. \A i \in DOMAIN Tail(t) : Tail(t)[i] \in {t[j] : j \in DOMAIN t}
  BY <1>2
<1>5. \A i \in DOMAIN t : t[i] \in {Head(t)} \cup {Tail(t)[j] : j \in DOMAIN Tail(t)}
  BY <1>2
<1>6. Head(t) \in {t[j] : j \in DOMAIN t}
  BY <1>2
<1> QED
  BY <1>3, <1>4, <1>5, <1>6 DEF t

LEMMA NextActionToDo ==
  ASSUME RunsTyped, NEW w \in Workers, todo[w] # <<>>, NextAction(w)
  PROVE  /\ pc'[w] = "actions" /\ on' = on
         /\ ToDo(w)' \subseteq ToDo(w)
         /\ ToDo(w) \subseteq ToDo(w)' \cup {Head(todo[w])}
<1>1. pc'[w] = "actions" /\ on' = on /\ todo'[w] = Tail(todo[w])
  BY DEF NextAction, RunsTyped
<1>2. ToDo(w)' = {Tail(todo[w])[i] : i \in DOMAIN Tail(todo[w])}
  BY <1>1 DEF ToDo
<1> QED
  BY <1>1, <1>2, HeadOfToDo

-----------------------------------------------------------------------------
(* No action is lost: the steps.                                           *)

LEMMA AccountInvInit == Init => AccountInv
<1> SUFFICES ASSUME Init
             PROVE  ActionsAccounted
  BY TypeInvInit, RunsOwnJobsInit DEF AccountInv
<1>1. ASSUME NEW e \in Events
      PROVE  EventSound(e)
  <2>1. \A a \in ActionsOf(e) : row[buildIdempotencyKey(e, a)].status = "ABSENT"
    <3>1. TypeOK
      BY TypeInvInit DEF TypeInv
    <3>2. \A a \in ActionsOf(e) : buildIdempotencyKey(e, a) \in Keys
      BY <3>1, ActionsTyped, KeysOfActions
    <3> QED
      BY <3>2 DEF Init, NoRow
  <2> QED
    BY <2>1 DEF Init, EventSound, InLoop, Holding
<1> QED
  BY <1>1 DEF ActionsAccounted

\* What an event's accounts do not depend on.
LEMMA SoundKept ==
  ASSUME NEW e \in Events, EventSound(e),
         OwnKeys(e)' => OwnKeys(e), ActionsOf(e)' = ActionsOf(e), sent'[e] = sent[e],
         \A a \in ActionsOf(e) :
           row'[buildIdempotencyKey(e, a)].status = row[buildIdempotencyKey(e, a)].status,
         job'[e].state = "completed" => job[e].state = "completed",
         \A w \in Workers : on'[w] = e /\ pc'[w] \in InLoop \cup {"return"} =>
           pc'[w] = pc[w] /\ on'[w] = on[w] /\ todo'[w] = todo[w]
  PROVE  EventSound(e)'
<1> SUFFICES ASSUME OwnKeys(e)'
             PROVE  /\ \A a \in ActionsOf(e) :
                         row'[buildIdempotencyKey(e, a)].status = "COMPLETED" => a \in sent'[e]
                    /\ \A w \in Workers : on'[w] = e /\ pc'[w] \in InLoop => LoopSound(w)'
                    /\ \A w \in Workers :
                         on'[w] = e /\ pc'[w] = "return" => Accounted(e, {})'
                    /\ job'[e].state = "completed" => Accounted(e, {})'
  BY DEF EventSound, buildIdempotencyKey
<1>1. \A others : Accounted(e, others) =>
        \A a \in ActionsOf(e)' \ others :
          a \in sent'[e] \/ row'[buildIdempotencyKey(e, a)].status = "PROCESSING"
  BY DEF Accounted
<1>2. Accounted(e, {}) => Accounted(e, {})'
  BY <1>1 DEF Accounted, buildIdempotencyKey
<1>3. ASSUME NEW w \in Workers, on'[w] = e, pc'[w] \in InLoop
      PROVE  LoopSound(w)'
  <2>1. pc'[w] = pc[w] /\ on[w] = e /\ todo'[w] = todo[w]
    BY <1>3
  <2>2. LoopSound(w)
    BY <1>3, <2>1 DEF EventSound
  <2>3. ToDo(w)' = ToDo(w)
    BY <2>1 DEF ToDo
  <2>4. Accounted(on[w], ToDo(w))'
    BY <1>1, <1>3, <2>1, <2>2, <2>3 DEF LoopSound, Accounted, buildIdempotencyKey
  <2> QED
    BY <1>3, <2>1, <2>2, <2>3, <2>4 DEF LoopSound
<1> QED
  BY <1>2, <1>3 DEF EventSound

\* A run that is the only one of its event, in the loop before and after.
LEMMA LoopStepSound ==
  ASSUME NEW w \in Workers, NEW e \in Events, on[w] = e, OwnKeys(on[w]), EventSound(on[w]),
         rules' = rules, job' = job, on' = on, job[on[w]].state = "active",
         \A v \in Workers \ {w} : pc[v] # "idle" => on[v] # on[w],
         \A v \in Workers \ {w} : pc'[v] = pc[v],
         \A a \in ActionsOf(on[w]) :
           row'[buildIdempotencyKey(on[w], a)].status = "COMPLETED" => a \in sent'[on[w]],
         pc'[w] \in InLoop => LoopSound(w)',
         pc'[w] = "return" => Accounted(on[w], {})'
  PROVE  EventSound(e)'
<1>1. \A v \in Workers : pc'[v] \in InLoop \cup {"return"} /\ on'[v] = on[w] => v = w
  BY DEF InLoop, Holding
<1>2. on'[w] = on[w] /\ ActionsOf(on[w])' = ActionsOf(on[w])
  BY DEF ActionsOf
<1>3. \A a \in ActionsOf(on[w])' :
        row'[buildIdempotencyKey(on'[w], a)].status = "COMPLETED" => a \in sent'[on'[w]]
  BY <1>2
<1>4. job'[on'[w]].state # "completed"
  BY <1>2
<1> QED
  BY <1>1, <1>2, <1>3, <1>4 DEF EventSound, InLoop, buildIdempotencyKey

\* What a step in the loop may assume of the run and of its event.
LEMMA InLoopFacts ==
  ASSUME AccountInv, Without({"zombie", "edit"}), NEW w \in Workers, pc[w] # "idle"
  PROVE  /\ TypeOK /\ RunsTyped /\ on[w] \in Events
         /\ EventSound(on[w])
         /\ job[on[w]].state = "active"
         /\ \A v \in Workers \ {w} : pc[v] # "idle" => on[v] # on[w]
<1>1. TypeOK /\ RunsTyped /\ on[w] \in Events
  BY DEF AccountInv, TypeInv, TypeOK, RunsTyped
<1>2. \A v \in Workers :
        pc[v] # "idle" => job[on[v]].state = "active" /\ job[on[v]].owner = v
  BY DEF AccountInv, RunsOwnJobs, Without
<1> QED
  BY <1>1, <1>2 DEF AccountInv, ActionsAccounted

LEMMA HeadKey ==
  ASSUME RunsTyped, NEW w \in Workers, on[w] \in Events, OwnKeys(on[w]),
         todo[w] # <<>>, ToDo(w) \subseteq ActionsOf(on[w])
  PROVE  /\ Head(todo[w]) \in ActionsOf(on[w])
         /\ \A a \in ActionsOf(on[w]) :
              buildIdempotencyKey(on[w], a) = KeyAtHand(w) => a = Head(todo[w])
<1>1. Head(todo[w]) \in ActionsOf(on[w])
  BY HeadOfToDo
<1> QED
  BY <1>1, OneActionPerKey DEF KeyAtHand

LEMMA SkipSound ==
  ASSUME AccountInv, Without({"zombie", "edit"}), NEW w \in Workers,
         NEW e \in Events, on[w] = e, Skip(w), OwnKeys(on[w])
  PROVE  EventSound(e)'
<1>1. /\ pc[w] = "actions" /\ todo[w] # <<>> /\ ~Acquirable(row[KeyAtHand(w)])
      /\ NextAction(w) /\ UNCHANGED <<rules, job, row, sent>>
  BY DEF Skip, dbVars, worldVars
<1>2. /\ TypeOK /\ RunsTyped /\ on[w] \in Events /\ EventSound(on[w])
      /\ job[on[w]].state = "active"
      /\ \A v \in Workers \ {w} : pc[v] # "idle" => on[v] # on[w]
  BY <1>1, InLoopFacts
<1>3. LoopSound(w)
  BY <1>1, <1>2 DEF EventSound, InLoop
<1>4. /\ pc'[w] = "actions" /\ on' = on /\ ToDo(w)' \subseteq ToDo(w)
      /\ ToDo(w) \subseteq ToDo(w)' \cup {Head(todo[w])}
  BY <1>1, <1>2, NextActionToDo
<1>5. Head(todo[w]) \in ActionsOf(on[w])
  BY <1>2, <1>3, <1>1, HeadKey DEF LoopSound
<1>6. row[KeyAtHand(w)].status \in {"COMPLETED", "PROCESSING"}
  <2>1. row[KeyAtHand(w)] \in IdempotencyRow
    BY <1>1, <1>2, ActionAtHand DEF TypeOK
  <2> QED
    BY <1>1, <2>1 DEF Acquirable, IdempotencyRow, Status
<1>7. \/ Head(todo[w]) \in sent[on[w]]
      \/ row[buildIdempotencyKey(on[w], Head(todo[w]))].status = "PROCESSING"
  BY <1>2, <1>5, <1>6 DEF EventSound, KeyAtHand
<1>8. Accounted(on[w], ToDo(w))'
  <2>1. ActionsOf(on[w])' = ActionsOf(on[w])
    BY <1>1, <1>4 DEF ActionsOf
  <2> SUFFICES ASSUME NEW a \in ActionsOf(on[w]) \ ToDo(w)'
               PROVE  \/ a \in sent[on[w]]
                      \/ row[buildIdempotencyKey(on[w], a)].status = "PROCESSING"
    BY <1>1, <1>4, <2>1 DEF Accounted, buildIdempotencyKey
  <2>2. a \notin ToDo(w) \/ a = Head(todo[w])
    BY <1>4
  <2> QED
    BY <1>3, <1>7, <2>2 DEF LoopSound, Accounted
<1>9. LoopSound(w)'
  <2>1. ToDo(w)' \subseteq ActionsOf(on[w])'
    BY <1>1, <1>3, <1>4 DEF LoopSound, ActionsOf
  <2> QED
    BY <1>4, <1>8, <2>1 DEF LoopSound
<1>10. \A v \in Workers \ {w} : pc'[v] = pc[v]
  BY <1>1, <1>2 DEF NextAction, RunsTyped
<1>11. \A a \in ActionsOf(on[w]) :
         row'[buildIdempotencyKey(on[w], a)].status = "COMPLETED" => a \in sent'[on[w]]
  BY <1>1, <1>2 DEF EventSound
<1> QED
  BY <1>1, <1>2, <1>4, <1>9, <1>10, <1>11, LoopStepSound

LEMMA AcquireSound ==
  ASSUME AccountInv, Without({"zombie", "edit"}), NEW w \in Workers,
         NEW e \in Events, on[w] = e, Acquire(w),
         OwnKeys(on[w])
  PROVE  EventSound(e)'
<1>1. /\ pc[w] = "actions" /\ todo[w] # <<>>
      /\ row' = [row EXCEPT ![KeyAtHand(w)] = Acquired(row[KeyAtHand(w)])]
      /\ UNCHANGED <<rules, job, on, todo, sent>>
  BY DEF Acquire, Proceed, GoTo, worldVars
<1>2. /\ TypeOK /\ RunsTyped /\ on[w] \in Events /\ EventSound(on[w])
      /\ job[on[w]].state = "active"
      /\ \A v \in Workers \ {w} : pc[v] # "idle" => on[v] # on[w]
  BY <1>1, InLoopFacts
<1>3. LoopSound(w)
  BY <1>1, <1>2 DEF EventSound, InLoop
<1>4. pc'[w] \in {"perform", "markFailed"} /\ \A v \in Workers \ {w} : pc'[v] = pc[v]
  BY <1>1, <1>2 DEF Acquire, Proceed, GoTo, OnThrow, InTry, RunsTyped
<1>5. \A a \in ActionsOf(on[w]) :
        \/ row'[buildIdempotencyKey(on[w], a)] = row[buildIdempotencyKey(on[w], a)]
        \/ row'[buildIdempotencyKey(on[w], a)].status = "PROCESSING"
  <2>1. row \in [Keys -> IdempotencyRow]
    BY <1>2 DEF TypeOK
  <2>2. \A a \in ActionsOf(on[w]) : buildIdempotencyKey(on[w], a) \in Keys
    BY <1>2, ActionsTyped, KeysOfActions
  <2> QED
    BY <1>1, <2>1, <2>2 DEF Acquired
<1>6. LoopSound(w)'
  <2>1. ToDo(w)' = ToDo(w) /\ ActionsOf(on[w])' = ActionsOf(on[w]) /\ pc'[w] # "complete"
    BY <1>1, <1>4 DEF ToDo, ActionsOf
  <2>2. Accounted(on[w], ToDo(w))'
    BY <1>1, <1>3, <1>5, <2>1 DEF LoopSound, Accounted, buildIdempotencyKey
  <2> QED
    BY <1>1, <1>3, <2>1, <2>2 DEF LoopSound
<1>7. \A a \in ActionsOf(on[w]) :
        row'[buildIdempotencyKey(on[w], a)].status = "COMPLETED" => a \in sent'[on[w]]
  BY <1>1, <1>2, <1>5 DEF EventSound
<1> QED
  BY <1>1, <1>2, <1>4, <1>6, <1>7, LoopStepSound

LEMMA PerformSound ==
  ASSUME AccountInv, Without({"zombie", "edit"}), NEW w \in Workers,
         NEW e \in Events, on[w] = e,
         Perform(w) \/ PerformThrows(w), OwnKeys(on[w])
  PROVE  EventSound(e)'
<1>1. /\ pc[w] = "perform"
      /\ UNCHANGED <<rules, job, on, todo, row>>
  BY DEF Perform, PerformThrows, GoTo, dbVars
<1>2. /\ TypeOK /\ RunsTyped /\ on[w] \in Events /\ EventSound(on[w])
      /\ job[on[w]].state = "active"
      /\ \A v \in Workers \ {w} : pc[v] # "idle" => on[v] # on[w]
  BY <1>1, InLoopFacts
<1>3. LoopSound(w)
  BY <1>1, <1>2 DEF EventSound, InLoop, Holding
<1>4. /\ pc'[w] \in {"complete", "fail"}
      /\ \A v \in Workers \ {w} : pc'[v] = pc[v]
      /\ sent[on[w]] \subseteq sent'[on[w]]
      /\ pc'[w] = "complete" => Head(todo[w]) \in sent'[on[w]]
  <2>1. CASE Perform(w)
    BY <1>1, <1>2, <2>1 DEF Perform, TakesPlace, GoTo, RunsTyped, TypeOK
  <2>2. CASE PerformThrows(w)
    BY <1>1, <1>2, <2>2 DEF PerformThrows, TakesPlace, GoTo, RunsTyped, TypeOK, worldVars
  <2> QED
    BY <2>1, <2>2
<1>5. LoopSound(w)'
  <2>1. ToDo(w)' = ToDo(w) /\ ActionsOf(on[w])' = ActionsOf(on[w])
    BY <1>1 DEF ToDo, ActionsOf
  <2>2. Accounted(on[w], ToDo(w))'
    BY <1>1, <1>3, <1>4, <2>1 DEF LoopSound, Accounted, buildIdempotencyKey
  <2> QED
    BY <1>1, <1>3, <1>4, <2>1, <2>2 DEF LoopSound
<1>6. \A a \in ActionsOf(on[w]) :
        row'[buildIdempotencyKey(on[w], a)].status = "COMPLETED" => a \in sent'[on[w]]
  BY <1>1, <1>2, <1>4 DEF EventSound
<1> QED
  BY <1>1, <1>2, <1>4, <1>5, <1>6, LoopStepSound

LEMMA CompleteSound ==
  ASSUME AccountInv, Without({"zombie", "edit"}), NEW w \in Workers,
         NEW e \in Events, on[w] = e, Complete(w),
         OwnKeys(on[w])
  PROVE  EventSound(e)'
<1>1. /\ pc[w] = "complete"
      /\ row' = [row EXCEPT ![KeyAtHand(w)] = Completed(row[KeyAtHand(w)])]
      /\ UNCHANGED <<rules, job, on, sent>>
      /\ NextAction(w) \/ GoTo(w, "fail")
  BY DEF Complete, NextAction, GoTo, OnThrow, InTry, worldVars
<1>2. /\ TypeOK /\ RunsTyped /\ on[w] \in Events /\ EventSound(on[w])
      /\ job[on[w]].state = "active"
      /\ \A v \in Workers \ {w} : pc[v] # "idle" => on[v] # on[w]
  BY <1>1, InLoopFacts
<1>3. LoopSound(w) /\ todo[w] # <<>>
  BY <1>1, <1>2 DEF EventSound, InLoop, Holding, RunsTyped
<1>4. /\ Head(todo[w]) \in sent[on[w]]
      /\ \A a \in ActionsOf(on[w]) :
           buildIdempotencyKey(on[w], a) = KeyAtHand(w) => a = Head(todo[w])
  BY <1>1, <1>2, <1>3, HeadKey DEF LoopSound
<1>5. \A a \in ActionsOf(on[w]) \ {Head(todo[w])} :
        row'[buildIdempotencyKey(on[w], a)] = row[buildIdempotencyKey(on[w], a)]
  <2>1. row \in [Keys -> IdempotencyRow]
    BY <1>2 DEF TypeOK
  <2>2. \A a \in ActionsOf(on[w]) : buildIdempotencyKey(on[w], a) \in Keys
    BY <1>2, ActionsTyped, KeysOfActions
  <2> QED
    BY <1>1, <1>4, <2>1, <2>2
<1>6. /\ pc'[w] \in {"actions", "fail"} /\ \A v \in Workers \ {w} : pc'[v] = pc[v]
      /\ ToDo(w)' \subseteq ToDo(w)
      /\ ToDo(w) \subseteq ToDo(w)' \cup {Head(todo[w])}
  <2>1. CASE NextAction(w)
    <3>1. \A v \in Workers \ {w} : pc'[v] = pc[v]
      BY <1>2, <2>1 DEF NextAction, RunsTyped
    <3> QED
      BY <1>2, <1>3, <2>1, <3>1, NextActionToDo
  <2>2. CASE GoTo(w, "fail")
    BY <1>2, <2>2 DEF GoTo, RunsTyped, ToDo
  <2> QED
    BY <1>1, <2>1, <2>2
<1>7. ActionsOf(on[w])' = ActionsOf(on[w])
  BY <1>1 DEF ActionsOf
<1>8. Accounted(on[w], ToDo(w))'
  <2> SUFFICES ASSUME NEW a \in ActionsOf(on[w]) \ ToDo(w)'
               PROVE  \/ a \in sent[on[w]]
                      \/ row'[buildIdempotencyKey(on[w], a)].status = "PROCESSING"
    BY <1>1, <1>7 DEF Accounted, buildIdempotencyKey
  <2>1. CASE a = Head(todo[w])
    BY <1>4, <2>1
  <2>2. CASE a # Head(todo[w])
    <3>1. a \notin ToDo(w)
      BY <1>6, <2>2
    <3> QED
      BY <1>3, <1>5, <2>2, <3>1 DEF LoopSound, Accounted
  <2> QED
    BY <2>1, <2>2
<1>9. LoopSound(w)'
  <2>1. ToDo(w)' \subseteq ActionsOf(on[w])'
    BY <1>3, <1>6, <1>7 DEF LoopSound
  <2> QED
    BY <1>1, <1>6, <1>8, <2>1 DEF LoopSound
<1>10. \A a \in ActionsOf(on[w]) :
         row'[buildIdempotencyKey(on[w], a)].status = "COMPLETED" => a \in sent'[on[w]]
  BY <1>1, <1>2, <1>4, <1>5 DEF EventSound
<1> QED
  BY <1>1, <1>2, <1>6, <1>9, <1>10, LoopStepSound

LEMMA FailSound ==
  ASSUME AccountInv, Without({"zombie", "edit"}), NEW w \in Workers,
         NEW e \in Events, on[w] = e, Fail(w),
         OwnKeys(on[w])
  PROVE  EventSound(e)'
<1>1. /\ pc[w] = "fail"
      /\ row' = [row EXCEPT ![KeyAtHand(w)] = Failed(row[KeyAtHand(w)])]
      /\ UNCHANGED <<rules, job, on, sent>>
  BY DEF Fail, GoTo, worldVars
<1>2. /\ TypeOK /\ RunsTyped /\ on[w] \in Events /\ EventSound(on[w])
      /\ job[on[w]].state = "active"
      /\ \A v \in Workers \ {w} : pc[v] # "idle" => on[v] # on[w]
  BY <1>1, InLoopFacts
<1>3. pc'[w] = "markFailed" /\ \A v \in Workers \ {w} : pc'[v] = pc[v]
  BY <1>2 DEF Fail, GoTo, RunsTyped
<1>4. \A a \in ActionsOf(on[w]) :
        \/ row'[buildIdempotencyKey(on[w], a)] = row[buildIdempotencyKey(on[w], a)]
        \/ row'[buildIdempotencyKey(on[w], a)].status = "FAILED"
  <2>1. row \in [Keys -> IdempotencyRow] /\ KeyAtHand(w) \in Keys
    BY <1>1, <1>2, ActionAtHand DEF TypeOK, RunsTyped, Holding
  <2>2. \A a \in ActionsOf(on[w]) : buildIdempotencyKey(on[w], a) \in Keys
    BY <1>2, ActionsTyped, KeysOfActions
  <2>3. Failed(row[KeyAtHand(w)]).status = "FAILED"
    BY <2>1, RowUpdates
  <2> QED
    BY <1>1, <2>1, <2>2, <2>3
<1>5. \A a \in ActionsOf(on[w]) :
        row'[buildIdempotencyKey(on[w], a)].status = "COMPLETED" => a \in sent'[on[w]]
  BY <1>1, <1>2, <1>4 DEF EventSound
<1>6. pc'[w] \notin InLoop /\ pc'[w] # "return"
  BY <1>3 DEF InLoop, Holding
<1> QED
  BY <1>1, <1>2, <1>3, <1>5, <1>6, LoopStepSound

LEMMA StepThrowsSound ==
  ASSUME AccountInv, Without({"zombie", "edit"}), NEW w \in Workers,
         NEW e \in Events, on[w] = e, StepThrows(w),
         OwnKeys(on[w])
  PROVE  EventSound(e)'
<1>1. /\ pc[w] \in DOMAIN OnThrow /\ GoTo(w, OnThrow[pc[w]])
      /\ UNCHANGED <<rules, job, on, todo, row, sent>>
  BY DEF StepThrows, GoTo, dbVars, worldVars
<1>2. pc[w] # "idle"
  BY <1>1 DEF OnThrow, InTry
<1>3. /\ TypeOK /\ RunsTyped /\ on[w] \in Events /\ EventSound(on[w])
      /\ job[on[w]].state = "active"
      /\ \A v \in Workers \ {w} : pc[v] # "idle" => on[v] # on[w]
  BY <1>2, InLoopFacts
<1>4. /\ \A v \in Workers \ {w} : pc'[v] = pc[v]
      /\ pc'[w] # "return"
      /\ pc'[w] \in InLoop => pc[w] = "complete" /\ pc'[w] = "fail"
  BY <1>1, <1>3 DEF GoTo, OnThrow, InTry, InLoop, Holding, RunsTyped
<1>5. pc'[w] \in InLoop => LoopSound(w)'
  <2> SUFFICES ASSUME pc'[w] \in InLoop
               PROVE  LoopSound(w)'
    OBVIOUS
  <2>1. LoopSound(w)
    BY <1>3, <1>4 DEF EventSound, InLoop, Holding
  <2>2. ToDo(w)' = ToDo(w) /\ ActionsOf(on[w])' = ActionsOf(on[w])
    BY <1>1 DEF ToDo, ActionsOf
  <2> QED
    BY <1>1, <1>4, <2>1, <2>2 DEF LoopSound, Accounted, buildIdempotencyKey
<1>6. \A a \in ActionsOf(on[w]) :
        row'[buildIdempotencyKey(on[w], a)].status = "COMPLETED" => a \in sent'[on[w]]
  BY <1>1, <1>3 DEF EventSound
<1> QED
  BY <1>1, <1>3, <1>4, <1>5, <1>6, LoopStepSound

LEMMA FindRulesSound ==
  ASSUME AccountInv, Without({"zombie", "edit"}), NEW w \in Workers,
         NEW e \in Events, on[w] = e, FindRules(w),
         OwnKeys(on[w])
  PROVE  EventSound(e)'
<1>1. /\ pc[w] = "findRules"
      /\ UNCHANGED <<rules, job, on, row, sent>>
  BY DEF FindRules, dbVars, worldVars
<1>2. /\ TypeOK /\ RunsTyped /\ on[w] \in Events /\ EventSound(on[w])
      /\ job[on[w]].state = "active"
      /\ \A v \in Workers \ {w} : pc[v] # "idle" => on[v] # on[w]
  BY <1>1, InLoopFacts
<1>3. /\ pc'[w] = "actions" /\ todo'[w] = rules[on[w]]
      /\ \A v \in Workers \ {w} : pc'[v] = pc[v]
  BY <1>2 DEF FindRules, RunsTyped
<1>4. ToDo(w)' = ActionsOf(on[w])' /\ ActionsOf(on[w])' = ActionsOf(on[w])
  BY <1>1, <1>3 DEF ToDo, ActionsOf
<1>5. LoopSound(w)'
  BY <1>1, <1>3, <1>4 DEF LoopSound, Accounted
<1>6. \A a \in ActionsOf(on[w]) :
        row'[buildIdempotencyKey(on[w], a)].status = "COMPLETED" => a \in sent'[on[w]]
  BY <1>1, <1>2 DEF EventSound
<1> QED
  BY <1>1, <1>2, <1>3, <1>5, <1>6, LoopStepSound

LEMMA MarkCompletedSound ==
  ASSUME AccountInv, Without({"zombie", "edit"}), NEW w \in Workers,
         NEW e \in Events, on[w] = e, MarkCompleted(w),
         OwnKeys(on[w])
  PROVE  EventSound(e)'
<1>1. /\ pc[w] = "actions" /\ todo[w] = <<>>
      /\ UNCHANGED <<rules, job, on, row, sent>>
  BY DEF MarkCompleted, Proceed, GoTo, worldVars
<1>2. /\ TypeOK /\ RunsTyped /\ on[w] \in Events /\ EventSound(on[w])
      /\ job[on[w]].state = "active"
      /\ \A v \in Workers \ {w} : pc[v] # "idle" => on[v] # on[w]
  BY <1>1, InLoopFacts
<1>3. LoopSound(w) /\ ToDo(w) = {}
  BY <1>1, <1>2 DEF EventSound, InLoop, ToDo
<1>4. pc'[w] \in {"return", "markFailed"} /\ \A v \in Workers \ {w} : pc'[v] = pc[v]
  BY <1>1, <1>2 DEF MarkCompleted, Proceed, GoTo, OnThrow, InTry, RunsTyped
<1>5. Accounted(on[w], {})'
  <2>1. ActionsOf(on[w])' = ActionsOf(on[w])
    BY <1>1 DEF ActionsOf
  <2> QED
    BY <1>1, <1>3, <2>1 DEF LoopSound, Accounted, buildIdempotencyKey
<1>6. \A a \in ActionsOf(on[w]) :
        row'[buildIdempotencyKey(on[w], a)].status = "COMPLETED" => a \in sent'[on[w]]
  BY <1>1, <1>2 DEF EventSound
<1>7. on'[w] = on[w]
  BY <1>1
<1>8. pc'[w] \notin InLoop
  BY <1>4 DEF InLoop, Holding
<1> QED
  BY <1>1, <1>2, <1>4, <1>5, <1>6, <1>7, <1>8, LoopStepSound

\* Steps before and after the loop.
LEMMA OutsideLoopSound ==
  ASSUME AccountInv, Without({"zombie", "edit"}), NEW w \in Workers,
         NEW e \in Events, on[w] = e, OwnKeys(on[w]),
         \/ MarkInvalidPayload(w) \/ MarkProcessing(w) \/ FindAudit(w) \/ CreateAudit(w)
         \/ MarkFailed(w) \/ MoveToDlq(w)
  PROVE  EventSound(e)'
<1>1. pc[w] # "idle" /\ UNCHANGED <<rules, job, on, row, sent>>
  BY DEF MarkInvalidPayload, MarkProcessing, FindAudit, CreateAudit, MarkFailed,
         MoveToDlq, Proceed, GoTo, dbVars, worldVars
<1>2. /\ TypeOK /\ RunsTyped /\ on[w] \in Events /\ EventSound(on[w])
      /\ job[on[w]].state = "active"
      /\ \A v \in Workers \ {w} : pc[v] # "idle" => on[v] # on[w]
  BY <1>1, InLoopFacts
<1>3. \A v \in Workers \ {w} : pc'[v] = pc[v]
  BY <1>2, RunMovesAlone DEF InsideStep
<1>4. pc'[w] \notin InLoop \cup {"return"}
  <2> USE <1>2 DEF RunsTyped, Proceed, GoTo, OnThrow, InTry, InLoop, Holding
  <2>1. CASE MarkInvalidPayload(w) \/ MarkProcessing(w) \/ FindAudit(w)
    BY <2>1 DEF MarkInvalidPayload, MarkProcessing, FindAudit
  <2>2. CASE CreateAudit(w) \/ MarkFailed(w) \/ MoveToDlq(w)
    BY <2>2 DEF CreateAudit, MarkFailed, MoveToDlq
  <2> QED
    BY <2>1, <2>2
<1>5. \A a \in ActionsOf(on[w]) :
        row'[buildIdempotencyKey(on[w], a)].status = "COMPLETED" => a \in sent'[on[w]]
  BY <1>1, <1>2 DEF EventSound
<1> QED
  BY <1>1, <1>2, <1>3, <1>4, <1>5, LoopStepSound

LEMMA InsideStepSound ==
  ASSUME AccountInv, Without({"zombie", "edit"}), NEW w \in Workers, InsideStep(w),
         NEW e \in Events, on[w] = e
  PROVE  EventSound(e)'
<1>1. rules' = rules /\ on' = on
  <2>1. CASE \/ MarkInvalidPayload(w) \/ MarkProcessing(w) \/ FindAudit(w) \/ CreateAudit(w)
             \/ FindRules(w) \/ Acquire(w) \/ Skip(w)
    BY <2>1 DEF MarkInvalidPayload, MarkProcessing, FindAudit, CreateAudit, FindRules,
       Acquire, Skip, Proceed, GoTo, NextAction
  <2>2. CASE \/ Perform(w) \/ PerformThrows(w) \/ Complete(w) \/ Fail(w) \/ MarkCompleted(w)
             \/ MarkFailed(w) \/ MoveToDlq(w) \/ StepThrows(w)
    BY <2>2 DEF Perform, PerformThrows, Complete, Fail, MarkCompleted, MarkFailed,
       MoveToDlq, StepThrows, Proceed, GoTo, NextAction
  <2> QED
    BY <2>1, <2>2 DEF InsideStep
<1>2. CASE OwnKeys(on[w])
  BY <1>2, SkipSound, AcquireSound, PerformSound, CompleteSound, FailSound,
     StepThrowsSound, FindRulesSound, MarkCompletedSound, OutsideLoopSound DEF InsideStep
<1>3. CASE ~OwnKeys(on[w])
  BY <1>1, <1>3 DEF EventSound, OwnKeys, buildIdempotencyKey
<1> QED
  BY <1>2, <1>3

\* A run changes nothing of another event's.
LEMMA OtherEventsUntouched ==
  ASSUME TypeOK, NEW w \in Workers, InsideStep(w), NEW e \in Events, e # on[w]
  PROVE  /\ sent'[e] = sent[e] /\ rules' = rules /\ job' = job
         /\ \A a \in Actions :
              row'[buildIdempotencyKey(e, a)] = row[buildIdempotencyKey(e, a)]
<1>1. /\ row \in [Keys -> IdempotencyRow] /\ sent \in [Events -> SUBSET Actions]
      /\ \A a \in Actions : /\ buildIdempotencyKey(e, a) \in Keys
                            /\ buildIdempotencyKey(e, a) # KeyAtHand(w)
  BY KeysOfActions, KeysApart DEF TypeOK, KeyAtHand
<1>2. CASE \/ MarkInvalidPayload(w) \/ MarkProcessing(w) \/ FindAudit(w) \/ CreateAudit(w)
           \/ FindRules(w) \/ Skip(w)
  BY <1>2 DEF MarkInvalidPayload, MarkProcessing, FindAudit, CreateAudit, FindRules,
     Skip, dbVars, worldVars
<1>3. CASE Acquire(w) \/ Complete(w) \/ Fail(w)
  BY <1>1, <1>3 DEF Acquire, Complete, Fail, worldVars
<1>4. CASE Perform(w) \/ PerformThrows(w)
  BY <1>1, <1>4 DEF Perform, PerformThrows, TakesPlace, dbVars, worldVars
<1>5. CASE MarkCompleted(w) \/ MarkFailed(w) \/ MoveToDlq(w) \/ StepThrows(w)
  BY <1>5 DEF MarkCompleted, MarkFailed, MoveToDlq, StepThrows, dbVars, worldVars
<1> QED
  BY <1>2, <1>3, <1>4, <1>5 DEF InsideStep

LEMMA ReportSound ==
  ASSUME AccountInv, Without({"zombie", "edit"}), NEW w \in Workers, ReportStep(w),
         NEW e \in Events
  PROVE  EventSound(e)'
<1>1. /\ TypeOK /\ RunsTyped /\ EventSound(e)
      /\ pc[w] # "idle"
  BY DEF AccountInv, TypeInv, TypeOK, ActionsAccounted, ReportStep, Return, Throw, Discard
<1>2. /\ on[w] \in Events /\ UNCHANGED <<rules, row, sent>> /\ Release(w)
      /\ \/ job' = job
         \/ \E s \in {"waiting", "completed", "failed"} :
              /\ job' = [job EXCEPT ![on[w]] = Settled(on[w], s)]
              /\ s = "completed" <=> pc[w] = "return"
  <2>1. rules' = rules
    BY DEF ReportStep, Return, Throw, Discard, Report
  <2> QED
    BY <1>1, <2>1, ReportStepEnds
<1>3. /\ \A v \in Workers : v # w => pc'[v] = pc[v] /\ on'[v] = on[v] /\ todo'[v] = todo[v]
      /\ pc'[w] \notin InLoop \cup {"return"}
  BY <1>1, <1>2 DEF Release, RunsTyped, InLoop, Holding
<1>4. CASE on[w] = e /\ pc[w] = "return"
  <2> SUFFICES ASSUME OwnKeys(e)
               PROVE  EventSound(e)'
    BY <1>2 DEF EventSound, OwnKeys, buildIdempotencyKey
  <2>1. Accounted(e, {})
    BY <1>1, <1>4 DEF EventSound
  <2>2. Accounted(e, {})'
    BY <1>2, <2>1 DEF Accounted, ActionsOf, buildIdempotencyKey
  <2>3. \A v \in Workers \ {w} : pc[v] # "idle" => on[v] # e
    BY <1>1, <1>4, InLoopFacts
  <2>4. \A v \in Workers : on'[v] = e => pc'[v] \notin InLoop \cup {"return"}
    BY <1>3, <2>3 DEF InLoop, Holding
  <2> QED
    BY <1>1, <1>2, <2>2, <2>4 DEF EventSound, ActionsOf, buildIdempotencyKey
<1>5. CASE ~(on[w] = e /\ pc[w] = "return")
  <2>1. job'[e].state = "completed" => job[e].state = "completed"
    <3>1. job \in [Events -> Job]
      BY <1>1 DEF TypeOK
    <3>2. \A s : Settled(on[w], s).state = s
      BY <1>2, <3>1, SettledFields
    <3> QED
      BY <1>2, <1>5, <3>1, <3>2
  <2>2. ActionsOf(e)' = ActionsOf(e) /\ (OwnKeys(e)' => OwnKeys(e))
    BY <1>2 DEF ActionsOf, OwnKeys, buildIdempotencyKey
  <2> QED
    BY <1>1, <1>2, <1>3, <2>1, <2>2, SoundKept
<1> QED
  BY <1>4, <1>5

LEMMA AccountInvStep == AccountInv /\ [Next]_vars => AccountInv'
<1> SUFFICES ASSUME AccountInv, [Next]_vars, Without({"zombie", "edit"}), NEW e \in Events
             PROVE  EventSound(e)'
  BY TypeInvStep, RunsOwnJobsStep, NextKeeps DEF AccountInv, ActionsAccounted, Without
<1>0. /\ TypeOK /\ RunsTyped /\ EventSound(e)
      /\ ActionsOf(e) \subseteq Actions
  BY ActionsTyped DEF AccountInv, TypeInv, TypeOK, ActionsAccounted
<1>1. ASSUME NEW w \in Workers, InsideStep(w)
      PROVE  EventSound(e)'
  <2>1. CASE on[w] = e
    BY <1>1, <2>1, InsideStepSound
  <2>2. CASE on[w] # e
    <3>1. /\ sent'[e] = sent[e] /\ rules' = rules /\ job' = job
          /\ \A a \in ActionsOf(e) :
               row'[buildIdempotencyKey(e, a)] = row[buildIdempotencyKey(e, a)]
      BY <1>0, <1>1, <2>2, OtherEventsUntouched
    <3>2. on'[w] = on[w]
      BY <1>1, InsideStepStays
    <3>3. ActionsOf(e)' = ActionsOf(e) /\ (OwnKeys(e)' => OwnKeys(e))
      BY <3>1 DEF ActionsOf, OwnKeys, buildIdempotencyKey
    <3> QED
      BY <1>0, <1>1, <2>2, <3>1, <3>2, <3>3, RunMovesAlone, SoundKept
  <2> QED
    BY <2>1, <2>2
<1>2. ASSUME NEW w \in Workers, ReportStep(w)
      PROVE  EventSound(e)'
  BY <1>2, ReportSound
<1>3. ASSUME NEW w \in Workers, Crash(w)
      PROVE  EventSound(e)'
  <2>1. UNCHANGED <<rules, row, sent, job>> /\ Release(w)
    BY <1>3 DEF Crash, dbVars, worldVars
  <2>2. \A v \in Workers : on'[v] = e /\ pc'[v] \in InLoop \cup {"return"} =>
          pc'[v] = pc[v] /\ on'[v] = on[v] /\ todo'[v] = todo[v]
    BY <1>0, <2>1 DEF Release, RunsTyped, InLoop, Holding
  <2>3. ActionsOf(e)' = ActionsOf(e) /\ (OwnKeys(e)' => OwnKeys(e))
    BY <2>1 DEF ActionsOf, OwnKeys, buildIdempotencyKey
  <2> QED
    BY <1>0, <2>1, <2>2, <2>3, SoundKept
<1>4. ASSUME NEW w \in Workers, NEW f \in Events, Take(w, f)
      PROVE  EventSound(e)'
  <2>1. UNCHANGED <<rules, row, sent, todo>>
    BY <1>4 DEF Take, dbVars, worldVars
  <2>2. job'[e].state = "completed" => job[e].state = "completed"
    BY <1>0, <1>4 DEF Take, TypeOK, Job
  <2>3. \A v \in Workers : on'[v] = e /\ pc'[v] \in InLoop \cup {"return"} =>
          pc'[v] = pc[v] /\ on'[v] = on[v]
    BY <1>0, <1>4 DEF Take, RunsTyped, InLoop, Holding
  <2>4. ActionsOf(e)' = ActionsOf(e) /\ (OwnKeys(e)' => OwnKeys(e))
    BY <2>1 DEF ActionsOf, OwnKeys, buildIdempotencyKey
  <2> QED
    BY <1>0, <2>1, <2>2, <2>3, <2>4, SoundKept
<1>5. ASSUME NEW f \in Events, Enqueue(f) \/ Evict(f) \/ Stall(f)
      PROVE  EventSound(e)'
  <2>1. UNCHANGED <<rules, row, sent, pc, on, todo>>
    BY <1>5 DEF Enqueue, Evict, Stall, runVars, dbVars, worldVars
  <2>2. job'[e].state = "completed" => job[e].state = "completed"
    <3>1. CASE Stall(f)
      BY <1>0, <3>1, StallFields
    <3>2. CASE Enqueue(f) \/ Evict(f)
      BY SMTT(30), <1>0, <3>2 DEF Enqueue, Evict, TypeOK, Job
    <3> QED
      BY <1>5, <3>1, <3>2
  <2>3. ActionsOf(e)' = ActionsOf(e) /\ (OwnKeys(e)' => OwnKeys(e))
    BY <2>1 DEF ActionsOf, OwnKeys, buildIdempotencyKey
  <2> QED
    BY <1>0, <2>1, <2>2, <2>3, SoundKept
<1>6. ASSUME NEW f \in Events, EditRules(f)
      PROVE  EventSound(e)'
  <2>1. UNCHANGED <<row, sent, pc, on, todo, job>>
    BY <1>6 DEF EditRules, runVars, dbVars, worldVars
  <2>2. PICK p \in Reordered(rules[f]) : rules' = [rules EXCEPT ![f] = p]
    BY <1>6 DEF EditRules, Without
  <2>3. ActionsOf(e)' = ActionsOf(e) /\ (OwnKeys(e)' => OwnKeys(e))
    <3>1. CASE f = e
      BY <1>0, <2>2, <3>1, ReorderedSame
    <3>2. CASE f # e
      <4>1. rules'[e] = rules[e]
        BY <1>0, <2>2, <3>2 DEF TypeOK
      <4> QED
        BY <4>1 DEF ActionsOf, OwnKeys, buildIdempotencyKey
    <3> QED
      BY <3>1, <3>2
  <2> QED
    BY <1>0, <2>1, <2>3, SoundKept
<1>7. ASSUME NEW k \in Keys, Expire(k)
      PROVE  EventSound(e)'
  <2>1. UNCHANGED <<rules, sent, pc, on, todo, job>>
    BY <1>7 DEF Expire, runVars, worldVars
  <2>2. \A l \in Keys : row'[l].status = row[l].status
    BY <1>0, <1>7, RowUpdates DEF Expire, TypeOK
  <2>3. \A a \in ActionsOf(e) : buildIdempotencyKey(e, a) \in Keys
    BY <1>0, KeysOfActions
  <2>4. ActionsOf(e)' = ActionsOf(e) /\ (OwnKeys(e)' => OwnKeys(e))
    BY <2>1 DEF ActionsOf, OwnKeys, buildIdempotencyKey
  <2> QED
    BY <1>0, <2>1, <2>2, <2>3, <2>4, SoundKept
<1>8. CASE UNCHANGED vars
  <2>1. UNCHANGED <<rules, row, sent, pc, on, todo, job>>
    BY <1>8 DEF vars, runVars, dbVars, worldVars
  <2>2. ActionsOf(e)' = ActionsOf(e) /\ (OwnKeys(e)' => OwnKeys(e))
    BY <2>1 DEF ActionsOf, OwnKeys, buildIdempotencyKey
  <2> QED
    BY <1>0, <2>1, <2>2, SoundKept
<1> QED
  BY <1>1, <1>2, <1>3, <1>4, <1>5, <1>6, <1>7, <1>8, RunStepKinds DEF Next

(* After any mix of failing actions, crashes and database errors, retries  *)
(* and stalls, a completed job has carried out every action of its rules   *)
(* but those whose key is still PROCESSING: an action that is skipped      *)
(* leaves a trace an operator can look for.                                *)
THEOREM SkippedActionsLeaveTrace == Spec => []SkippedLeavesTrace
<1>1. AccountInv => SkippedLeavesTrace
  BY DEF AccountInv, ActionsAccounted, EventSound, Accounted, SkippedLeavesTrace
<1> QED
  BY <1>1, AccountInvInit, AccountInvStep, PTL DEF Spec

-----------------------------------------------------------------------------
(* While nothing is lost a completed job skipped nothing: what is still    *)
(* PROCESSING is held by a run of the job.                                 *)

\* A run keeps hold of its key until it settles it.
LEMMA HoldsOrSettles ==
  ASSUME TypeOK, NEW w \in Workers, InsideStep(w), Without({"db", "ack"})
  PROVE  /\ \A v \in Workers \ {w} : HeldBy(v)' = HeldBy(v)
         /\ \/ UNCHANGED row /\ HeldBy(w)' = HeldBy(w)
            \/ Acquire(w) /\ HeldBy(w)' = KeyAtHand(w)
            \/ (Complete(w) \/ Fail(w)) /\ HeldBy(w) = KeyAtHand(w)
<1>0. RunsTyped
  BY DEF TypeOK
<1>1. \A v \in Workers \ {w} : HeldBy(v)' = HeldBy(v)
  BY <1>0, RunMovesAlone DEF HeldBy, KeyAtHand, buildIdempotencyKey
<1>2. CASE Acquire(w)
  <2>1. GoTo(w, "perform")
    BY <1>2 DEF Acquire, Proceed, Without
  <2>2. HeldBy(w)' = KeyAtHand(w)
    BY <1>0, <2>1 DEF GoTo, RunsTyped, HeldBy, Holding, KeyAtHand, buildIdempotencyKey
  <2> QED
    BY <1>1, <1>2, <2>2
<1>3. CASE Complete(w) \/ Fail(w)
  BY <1>1, <1>3 DEF Complete, Fail, HeldBy, Holding
<1>4. CASE Perform(w) \/ PerformThrows(w)
  <2>1. row' = row /\ pc[w] \in Holding /\ pc'[w] \in Holding /\ UNCHANGED <<on, todo>>
    BY <1>0, <1>4 DEF Perform, PerformThrows, GoTo, RunsTyped, Holding, dbVars
  <2> QED
    BY <1>1, <2>1 DEF HeldBy, KeyAtHand, buildIdempotencyKey
<1>5. CASE ~(Acquire(w) \/ Complete(w) \/ Fail(w) \/ Perform(w) \/ PerformThrows(w))
  <2>1. ~StepThrows(w)
    BY DEF StepThrows, Without
  <2>2. row' = row /\ pc[w] \notin Holding /\ pc'[w] \notin Holding
    <3> USE <1>0 DEF RunsTyped, GoTo, NextAction, Proceed, OnThrow, InTry, Holding, dbVars
    <3>1. CASE MarkInvalidPayload(w) \/ MarkProcessing(w)
      BY <3>1 DEF MarkInvalidPayload, MarkProcessing
    <3>2. CASE FindAudit(w) \/ CreateAudit(w) \/ FindRules(w)
      BY <3>2 DEF FindAudit, CreateAudit, FindRules
    <3>3. CASE Skip(w)
      BY <3>3 DEF Skip
    <3>4. CASE MarkCompleted(w) \/ MarkFailed(w) \/ MoveToDlq(w)
      BY <3>4 DEF MarkCompleted, MarkFailed, MoveToDlq
    <3> QED
      BY <1>5, <2>1, <3>1, <3>2, <3>3, <3>4 DEF InsideStep
  <2> QED
    BY <1>1, <2>2 DEF HeldBy
<1> QED
  BY <1>2, <1>3, <1>4, <1>5

LEMMA LocksHeldStep == TypeInv /\ LocksHeld /\ [Next]_vars => LocksHeld'
<1> SUFFICES ASSUME TypeInv, LocksHeld, [Next]_vars, Without({"crash", "db", "ack"}),
                    NEW k \in Keys, row'[k].status = "PROCESSING"
             PROVE  \E w \in Workers : HeldBy(w)' = k
  BY NextKeeps DEF LocksHeld, Without
<1>0. /\ TypeOK /\ RunsTyped
      /\ row[k].status = "PROCESSING" => \E w \in Workers : HeldBy(w) = k
  BY DEF TypeInv, TypeOK, LocksHeld
<1>1. ASSUME NEW w \in Workers, InsideStep(w)
      PROVE  \E v \in Workers : HeldBy(v)' = k
  <2>1. /\ \A v \in Workers \ {w} : HeldBy(v)' = HeldBy(v)
        /\ \/ UNCHANGED row /\ HeldBy(w)' = HeldBy(w)
           \/ Acquire(w) /\ HeldBy(w)' = KeyAtHand(w)
           \/ (Complete(w) \/ Fail(w)) /\ HeldBy(w) = KeyAtHand(w)
    BY <1>0, <1>1, HoldsOrSettles DEF Without
  <2>2. CASE UNCHANGED row /\ HeldBy(w)' = HeldBy(w)
    BY <1>0, <2>1, <2>2
  <2>3. CASE Acquire(w) /\ HeldBy(w)' = KeyAtHand(w)
    <3>1. CASE k = KeyAtHand(w)
      BY <2>3, <3>1
    <3>2. CASE k # KeyAtHand(w)
      <4>1. row'[k] = row[k] /\ pc[w] = "actions"
        BY <1>0, <2>3, <3>2 DEF Acquire, TypeOK
      <4>2. HeldBy(w) = NoKey
        BY <4>1 DEF HeldBy, Holding
      <4> QED
        BY <1>0, <2>1, <4>1, <4>2, NoKeyAssumption
    <3> QED
      BY <3>1, <3>2
  <2>4. CASE (Complete(w) \/ Fail(w)) /\ HeldBy(w) = KeyAtHand(w)
    <3>1. pc[w] # "idle" /\ todo[w] # <<>>
      BY <1>0, <2>4 DEF Complete, Fail, RunsTyped, Holding
    <3>2. KeyAtHand(w) \in Keys /\ row[KeyAtHand(w)] \in IdempotencyRow
      BY <1>0, <3>1, ActionAtHand DEF TypeOK
    <3>3. k # KeyAtHand(w) /\ row'[k] = row[k]
      BY <1>0, <2>4, <3>2, RowUpdates DEF Complete, Fail, TypeOK
    <3> QED
      BY <1>0, <2>1, <2>4, <3>3
  <2> QED
    BY <2>1, <2>2, <2>3, <2>4
<1>2. ASSUME NEW w \in Workers, ReportStep(w)
      PROVE  \E v \in Workers : HeldBy(v)' = k
  <2>1. row' = row /\ Release(w) /\ pc[w] \notin Holding
    BY <1>0, <1>2, ReportStepEnds DEF ReportStep, Return, Throw, Discard, Holding
  <2>2. \A v \in Workers : HeldBy(v)' = HeldBy(v)
    BY <1>0, <2>1 DEF Release, RunsTyped, HeldBy, Holding, KeyAtHand, buildIdempotencyKey
  <2> QED
    BY <1>0, <2>1, <2>2
<1>3. ASSUME NEW w \in Workers, NEW e \in Events, Take(w, e)
      PROVE  \E v \in Workers : HeldBy(v)' = k
  <2>1. \A v \in Workers : HeldBy(v)' = HeldBy(v)
    BY <1>0, <1>3 DEF Take, RunsTyped, HeldBy, Holding, KeyAtHand, buildIdempotencyKey
  <2> QED
    BY <1>0, <1>3, <2>1 DEF Take, dbVars
<1>4. CASE \/ \E e \in Events : Enqueue(e) \/ Evict(e) \/ Stall(e) \/ EditRules(e)
           \/ \E l \in Keys : Expire(l)
           \/ UNCHANGED vars
  <2>1. UNCHANGED <<pc, on, todo>>
    BY <1>4 DEF Enqueue, Evict, Stall, EditRules, Expire, vars, runVars
  <2>2. row'[k].status = row[k].status
    BY <1>0, <1>4, RowUpdates
    DEF Enqueue, Evict, Stall, EditRules, Expire, vars, dbVars, TypeOK
  <2>3. \A v \in Workers : HeldBy(v)' = HeldBy(v)
    BY <2>1 DEF HeldBy, KeyAtHand, buildIdempotencyKey
  <2> QED
    BY <1>0, <2>2, <2>3
<1>5. \A w \in Workers : ~Crash(w)
  BY DEF Crash, Without
<1> QED
  BY <1>1, <1>2, <1>3, <1>4, <1>5, RunStepKinds DEF Next

LEMMA LocksHeldInit == Init => LocksHeld
  BY DEF Init, LocksHeld, NoRow

\* The only run that can hold a key of an event's is a run of the event.
LEMMA HolderIsOfEvent ==
  ASSUME NEW e \in Events, NEW a, NEW w \in Workers, NoKey # buildIdempotencyKey(e, a),
         HeldBy(w) = buildIdempotencyKey(e, a)
  PROVE  pc[w] \in Holding /\ on[w] = e
  BY DEF HeldBy, KeyAtHand, buildIdempotencyKey

LEMMA NothingSkipped ==
  ASSUME AccountInv, LocksHeld
  PROVE  CompletedActionsSent
<1> SUFFICES ASSUME Without({"crash", "zombie", "db", "ack", "edit"}),
                    NEW e \in Events, job[e].state = "completed", OwnKeys(e),
                    NEW a \in ActionsOf(e), a \notin sent[e]
             PROVE  FALSE
  BY DEF CompletedActionsSent
<1>1. buildIdempotencyKey(e, a) \in Keys
  BY ActionsTyped, KeysOfActions DEF AccountInv, TypeInv
<1>2. row[buildIdempotencyKey(e, a)].status = "PROCESSING"
  BY DEF AccountInv, ActionsAccounted, EventSound, Accounted, Without
<1>3. PICK w \in Workers : HeldBy(w) = buildIdempotencyKey(e, a)
  BY <1>1, <1>2 DEF LocksHeld, Without
<1>4. pc[w] # "idle" /\ on[w] = e
  BY <1>1, <1>3, HolderIsOfEvent, NoKeyAssumption DEF Holding
<1> QED
  BY <1>4 DEF AccountInv, RunsOwnJobs, Without

(* The promise of the retry scheme, for every number of actions, attempts  *)
(* and workers, and every order of rules of equal priority: as long as the *)
(* database and the workers hold, failing actions, late failures, a full   *)
(* queue and locks that are overrun never make a completed job lack an     *)
(* action of its rules that has a key of its own.                          *)
THEOREM RetriesLoseNoAction == Spec => []CompletedActionsSent
<1>1. AccountInv /\ LocksHeld => CompletedActionsSent
  BY NothingSkipped
<1>2. AccountInv => TypeInv
  BY DEF AccountInv
<1> QED
  BY <1>1, <1>2, AccountInvInit, AccountInvStep, LocksHeldInit, LocksHeldStep, PTL DEF Spec

-----------------------------------------------------------------------------
(* No action overtakes another.  Plans stay as they are, so what a run has *)
(* left is the end of the plan; the actions before it are accounted for,   *)
(* and none of their keys is PROCESSING, since a run holds only the key of *)
(* the action it is at.                                                    *)

LEMMA LastOfTail ==
  ASSUME NEW plan \in Seq(Actions), NEW s \in Seq(Actions), s # <<>>,
         Len(s) <= Len(plan),
         \A i \in DOMAIN s : s[i] = plan[Len(plan) - Len(s) + i]
  PROVE  /\ Len(Tail(s)) <= Len(plan)
         /\ \A i \in DOMAIN Tail(s) : Tail(s)[i] = plan[Len(plan) - Len(Tail(s)) + i]
<1>1. /\ Len(Tail(s)) = Len(s) - 1 /\ Len(s) \in Nat \ {0} /\ Len(plan) \in Nat
      /\ \A i \in DOMAIN Tail(s) : i + 1 \in DOMAIN s /\ Tail(s)[i] = s[i + 1]
  BY HeadAndTail
<1>2. Tail(s) \in Seq(Actions)
  OBVIOUS
<1>3. ASSUME NEW i \in DOMAIN Tail(s)
      PROVE  Tail(s)[i] = plan[Len(plan) - Len(Tail(s)) + i]
  <2>1. i \in Nat
    BY <1>2
  <2>2. Len(plan) - Len(s) + (i + 1) = Len(plan) - Len(Tail(s)) + i
    BY <1>1, <2>1
  <2> QED
    BY <1>1, <2>2
<1> QED
  BY <1>1, <1>3

LEMMA OrderKeptInit == Init => OrderKept
  BY DEF Init, OrderKept, InLoop, Holding

\* In the loop a run keeps its list or drops the head of it.
LEMMA InsideStepList ==
  ASSUME TypeOK, NEW w \in Workers, InsideStep(w), pc'[w] \in InLoop
  PROVE  \/ FindRules(w) /\ todo'[w] = rules[on[w]]
         \/ pc[w] \in InLoop /\ todo'[w] = todo[w]
         \/ pc[w] \in InLoop /\ todo[w] # <<>> /\ todo'[w] = Tail(todo[w])
<1>0. RunsTyped
  BY DEF TypeOK
<1> USE <1>0 DEF RunsTyped, GoTo, NextAction, Proceed, OnThrow, InTry, InLoop, Holding
<1>1. CASE \/ MarkInvalidPayload(w) \/ MarkProcessing(w) \/ FindAudit(w) \/ CreateAudit(w)
           \/ MarkFailed(w) \/ MoveToDlq(w) \/ MarkCompleted(w)
  BY <1>1 DEF MarkInvalidPayload, MarkProcessing, FindAudit, CreateAudit, MarkFailed,
     MoveToDlq, MarkCompleted
<1>2. CASE FindRules(w)
  BY <1>2 DEF FindRules
<1>3. CASE Acquire(w) \/ Skip(w)
  BY <1>3 DEF Acquire, Skip
<1>4. CASE Perform(w) \/ PerformThrows(w)
  BY <1>4 DEF Perform, PerformThrows
<1>5. CASE Complete(w) \/ Fail(w)
  BY <1>5 DEF Complete, Fail
<1>6. CASE StepThrows(w)
  BY <1>6 DEF StepThrows
<1> QED
  BY <1>1, <1>2, <1>3, <1>4, <1>5, <1>6 DEF InsideStep

LEMMA PlansStay ==
  ASSUME [Next]_vars, Without({"edit", "reorder"})
  PROVE  rules' = rules
<1>1. ASSUME NEW v \in Workers, RunStep(v) \/ Crash(v) \/ \E e \in Events : Take(v, e)
      PROVE  rules' = rules
  <2>1. CASE InsideStep(v)
    <3>1. CASE \/ MarkInvalidPayload(v) \/ MarkProcessing(v) \/ FindAudit(v)
               \/ CreateAudit(v) \/ FindRules(v) \/ Acquire(v) \/ Skip(v)
      BY <3>1 DEF MarkInvalidPayload, MarkProcessing, FindAudit, CreateAudit, FindRules,
         Acquire, Skip
    <3>2. CASE \/ Perform(v) \/ PerformThrows(v) \/ Complete(v) \/ Fail(v)
               \/ MarkCompleted(v) \/ MarkFailed(v) \/ MoveToDlq(v) \/ StepThrows(v)
      BY <3>2 DEF Perform, PerformThrows, Complete, Fail, MarkCompleted, MarkFailed,
         MoveToDlq, StepThrows
    <3> QED
      BY <2>1, <3>1, <3>2 DEF InsideStep
  <2>2. CASE ReportStep(v)
    BY <2>2 DEF ReportStep, Return, Throw, Discard, Report
  <2>3. CASE Crash(v) \/ \E e \in Events : Take(v, e)
    BY <2>3 DEF Crash, Take
  <2> QED
    BY <1>1, <2>1, <2>2, <2>3, RunStepKinds
<1>2. \A e \in Events : ~EditRules(e)
  BY DEF EditRules, Without
<1>3. CASE \/ \E e \in Events : Enqueue(e) \/ Evict(e) \/ Stall(e)
           \/ \E k \in Keys : Expire(k)
           \/ UNCHANGED vars
  BY <1>3 DEF Enqueue, Evict, Stall, Expire, vars
<1> QED
  BY <1>1, <1>2, <1>3 DEF Next

LEMMA OrderKeptStep == TypeInv /\ OrderKept /\ [Next]_vars => OrderKept'
<1> SUFFICES ASSUME TypeInv, OrderKept, [Next]_vars,
                    Without({"crash", "zombie", "db", "ack", "edit", "reorder"}),
                    NEW w \in Workers, pc'[w] \in InLoop
             PROVE  LastOf(w)'
  BY NextKeeps DEF OrderKept, Without
<1>0. /\ TypeOK /\ RunsTyped
      /\ pc[w] \in InLoop => LastOf(w)
  BY DEF TypeInv, TypeOK, OrderKept
<1>1. rules' = rules
  BY PlansStay DEF Without
<1>2. /\ rules[on[w]] \in Seq(Actions) \/ on[w] \notin Events
      /\ todo[w] \in Seq(Actions)
  BY <1>0, ActionsTyped DEF RunsTyped
<1>3. CASE pc[w] \in InLoop /\ on'[w] = on[w] /\ todo'[w] = todo[w]
  BY <1>0, <1>1, <1>3 DEF LastOf
<1>4. ASSUME InsideStep(w)
      PROVE  LastOf(w)'
  <2>1. on'[w] = on[w] /\ on[w] \in Events
    BY <1>0, <1>4, InsideStepStays DEF RunsTyped
  <2>2. CASE todo'[w] = rules[on[w]]
    <3>1. Len(rules[on[w]]) \in Nat /\ rules[on[w]] \in Seq(Actions)
      BY <1>2, <2>1
    <3>2. \A i \in DOMAIN rules[on[w]] : i \in Nat
      BY <3>1
    <3>3. \A i \in DOMAIN rules[on[w]] : Len(rules[on[w]]) - Len(rules[on[w]]) + i = i
      BY <3>1, <3>2
    <3>4. Len(rules[on[w]]) <= Len(rules[on[w]])
      BY <3>1
    <3> QED
      BY <1>1, <2>1, <2>2, <3>3, <3>4 DEF LastOf
  <2>3. CASE pc[w] \in InLoop /\ todo[w] # <<>> /\ todo'[w] = Tail(todo[w])
    <3>1. LastOf(w)
      BY <1>0, <2>3
    <3>2. /\ Len(Tail(todo[w])) <= Len(rules[on[w]])
          /\ \A i \in DOMAIN Tail(todo[w]) :
               Tail(todo[w])[i] = rules[on[w]][Len(rules[on[w]]) - Len(Tail(todo[w])) + i]
      BY <1>2, <2>1, <2>3, <3>1, LastOfTail DEF LastOf
    <3> QED
      BY <1>1, <2>1, <2>3, <3>2 DEF LastOf
  <2> QED
    BY <1>0, <1>3, <1>4, <2>1, <2>2, <2>3, InsideStepList
<1>5. ASSUME NEW v \in Workers, InsideStep(v), v # w
      PROVE  LastOf(w)'
  <2>1. pc'[w] = pc[w] /\ on'[w] = on[w] /\ todo'[w] = todo[w]
    BY <1>0, <1>5, RunMovesAlone
  <2> QED
    BY <1>3, <2>1
<1>6. ASSUME NEW v \in Workers, ReportStep(v)
      PROVE  LastOf(w)'
  <2>1. Release(v)
    BY <1>0, <1>6, ReportStepEnds
  <2>2. pc'[w] = pc[w] /\ on'[w] = on[w] /\ todo'[w] = todo[w]
    BY <1>0, <2>1 DEF Release, RunsTyped, InLoop, Holding
  <2> QED
    BY <1>3, <2>2
<1>7. ASSUME NEW v \in Workers, NEW e \in Events, Take(v, e)
      PROVE  LastOf(w)'
  <2>1. pc'[w] = pc[w] /\ on'[w] = on[w] /\ todo'[w] = todo[w]
    BY <1>0, <1>7 DEF Take, RunsTyped, InLoop, Holding
  <2> QED
    BY <1>3, <2>1
<1>8. \A v \in Workers : ~Crash(v)
  BY DEF Crash, Without
<1>9. CASE \/ \E e \in Events : Enqueue(e) \/ Evict(e) \/ Stall(e) \/ EditRules(e)
           \/ \E k \in Keys : Expire(k)
           \/ UNCHANGED vars
  <2>1. UNCHANGED <<pc, on, todo>>
    BY <1>9 DEF Enqueue, Evict, Stall, EditRules, Expire, vars, runVars
  <2> QED
    BY <1>3, <2>1
<1> QED
  BY <1>4, <1>5, <1>6, <1>7, <1>8, <1>9, RunStepKinds DEF Next

\* The actions in front of the one at hand have taken place.
LEMMA EarlierSent ==
  ASSUME AccountInv, LocksHeld, OrderKept,
         Without({"crash", "zombie", "db", "ack", "edit", "reorder"}),
         NEW w \in Workers, pc[w] = "perform", OwnKeys(on[w]),
         NEW i \in DOMAIN rules[on[w]], NEW j \in DOMAIN rules[on[w]],
         i < j, rules[on[w]][j] = Head(todo[w])
  PROVE  rules[on[w]][i] \in sent[on[w]]
<1> DEFINE plan == rules[on[w]]
           m == Len(plan) - Len(todo[w])
<1>1. /\ TypeOK /\ RunsTyped /\ on[w] \in Events /\ EventSound(on[w])
      /\ \A v \in Workers \ {w} : pc[v] # "idle" => on[v] # on[w]
  BY InLoopFacts DEF Without
<1>2. LoopSound(w) /\ LastOf(w)
  BY <1>1 DEF EventSound, InLoop, Holding, OrderKept
<1>3. /\ plan \in Seq(Actions) /\ todo[w] \in Seq(Actions) /\ todo[w] # <<>>
      /\ Head(todo[w]) = todo[w][1] /\ 1 \in DOMAIN todo[w]
  BY <1>1, ActionsTyped, HeadAndTail DEF RunsTyped, Holding
<1>4. /\ m \in Nat /\ m + 1 \in DOMAIN plan
      /\ \A l \in DOMAIN todo[w] : m + l \in DOMAIN plan /\ todo[w][l] = plan[m + l]
  <2>1. /\ Len(todo[w]) <= Len(plan)
        /\ \A l \in DOMAIN todo[w] : todo[w][l] = plan[m + l]
    BY <1>2 DEF LastOf
  <2> HIDE DEF plan
  <2>2. /\ Len(plan) \in Nat /\ Len(todo[w]) \in Nat \ {0}
        /\ DOMAIN plan = 1 .. Len(plan) /\ DOMAIN todo[w] = 1 .. Len(todo[w])
    BY <1>3
  <2>3. m \in Nat /\ \A l \in 1 .. Len(todo[w]) : m + l \in 1 .. Len(plan)
    BY <2>1, <2>2
  <2> QED
    BY <1>3, <2>1, <2>2, <2>3
<1> HIDE DEF plan, m
<1>5. j = m + 1
  <2>1. plan[j] = plan[m + 1]
    BY <1>3, <1>4 DEF plan
  <2> QED
    BY <1>4, <2>1 DEF OwnKeys, plan
<1>6. plan[i] \in ActionsOf(on[w]) /\ plan[i] \notin ToDo(w)
  <2>1. ASSUME NEW l \in DOMAIN todo[w], todo[w][l] = plan[i]
        PROVE  FALSE
    <3>1. plan[m + l] = plan[i] /\ m + l \in DOMAIN plan
      BY <1>4, <2>1
    <3>2. m + l = i
      BY <3>1 DEF OwnKeys, plan
    <3>3. l \in Nat \ {0} /\ i \in Nat
      BY <1>3 DEF plan
    <3> QED
      BY <1>4, <1>5, <3>2, <3>3
  <2> QED
    BY <2>1 DEF ActionsOf, ToDo, plan
<1>7. \/ plan[i] \in sent[on[w]]
      \/ row[buildIdempotencyKey(on[w], plan[i])].status = "PROCESSING"
  BY <1>2, <1>6 DEF LoopSound, Accounted
<1>8. ASSUME row[buildIdempotencyKey(on[w], plan[i])].status = "PROCESSING"
      PROVE  FALSE
  <2>1. buildIdempotencyKey(on[w], plan[i]) \in Keys
    BY <1>1, <1>6, ActionsTyped, KeysOfActions
  <2>2. PICK v \in Workers : HeldBy(v) = buildIdempotencyKey(on[w], plan[i])
    BY <1>8, <2>1 DEF LocksHeld, Without
  <2>3. pc[v] \in Holding /\ on[v] = on[w]
    BY <1>1, <2>1, <2>2, HolderIsOfEvent, NoKeyAssumption
  <2>4. v = w
    BY <1>1, <2>3 DEF Holding
  <2>5. buildIdempotencyKey(on[w], plan[i]) = buildIdempotencyKey(on[w], plan[j])
    BY <2>2, <2>3, <2>4 DEF HeldBy, KeyAtHand, plan
  <2>6. i = j
    BY <2>5 DEF OwnKeys, plan
  <2> QED
    BY <1>3, <2>6 DEF plan
<1> QED
  BY <1>7, <1>8 DEF plan

LEMMA InOrderStep ==
  ASSUME AccountInv, LocksHeld, OrderKept, InOrder, [Next]_vars
  PROVE  InOrder'
<1> SUFFICES ASSUME Without({"crash", "zombie", "db", "ack", "edit", "reorder"}),
                    NEW e \in Events, OwnKeys(e)',
                    NEW i \in DOMAIN rules'[e], NEW j \in DOMAIN rules'[e],
                    i < j, rules'[e][j] \in sent'[e]
             PROVE  rules'[e][i] \in sent'[e]
  BY NextKeeps DEF InOrder, Without
<1>0. TypeOK /\ RunsTyped
  BY DEF AccountInv, TypeInv, TypeOK
<1>1. rules' = rules /\ OwnKeys(e)
  BY PlansStay DEF Without, OwnKeys, buildIdempotencyKey
<1>2. CASE sent' = sent
  BY <1>1, <1>2 DEF InOrder
<1>3. ASSUME NEW w \in Workers, pc[w] = "perform", TakesPlace(w)
      PROVE  rules'[e][i] \in sent'[e]
  <2>1. CASE on[w] = e
    <3>1. sent'[e] = sent[e] \cup {Head(todo[w])}
      BY <1>0, <1>3, <2>1 DEF TakesPlace, TypeOK
    <3>2. CASE rules[e][j] \in sent[e]
      BY <1>1, <3>1, <3>2 DEF InOrder
    <3>3. CASE rules[e][j] = Head(todo[w])
      BY <1>1, <1>3, <2>1, <3>1, <3>3, EarlierSent
    <3> QED
      BY <1>1, <3>1, <3>2, <3>3
  <2>2. CASE on[w] # e
    <3>1. sent'[e] = sent[e]
      BY <1>0, <1>3, <2>2 DEF TakesPlace, TypeOK
    <3> QED
      BY <1>1, <3>1 DEF InOrder
  <2> QED
    BY <2>1, <2>2
<1>4. ASSUME NEW w \in Workers, InsideStep(w)
      PROVE  sent' = sent \/ (pc[w] = "perform" /\ TakesPlace(w))
  <2>1. CASE \/ MarkInvalidPayload(w) \/ MarkProcessing(w) \/ FindAudit(w) \/ CreateAudit(w)
             \/ FindRules(w) \/ Acquire(w) \/ Skip(w)
    BY <2>1 DEF MarkInvalidPayload, MarkProcessing, FindAudit, CreateAudit, FindRules,
       Acquire, Skip, worldVars
  <2>2. CASE Perform(w) \/ PerformThrows(w)
    BY <2>2 DEF Perform, PerformThrows, worldVars
  <2>3. CASE \/ Complete(w) \/ Fail(w) \/ MarkCompleted(w) \/ MarkFailed(w)
             \/ MoveToDlq(w) \/ StepThrows(w)
    BY <2>3 DEF Complete, Fail, MarkCompleted, MarkFailed, MoveToDlq, StepThrows, worldVars
  <2> QED
    BY <1>4, <2>1, <2>2, <2>3 DEF InsideStep
<1>5. ASSUME NEW w \in Workers, ReportStep(w)
      PROVE  sent' = sent
  BY <1>0, <1>5, ReportStepEnds
<1>6. CASE \/ \E w \in Workers : Crash(w) \/ \E f \in Events : Take(w, f)
           \/ \E f \in Events : Enqueue(f) \/ Evict(f) \/ Stall(f) \/ EditRules(f)
           \/ \E k \in Keys : Expire(k)
           \/ UNCHANGED vars
  <2>1. sent' = sent
    BY <1>6 DEF Crash, Take, Enqueue, Evict, Stall, EditRules, Expire, vars, worldVars
  <2> QED
    BY <1>2, <2>1
<1> QED
  BY <1>2, <1>3, <1>4, <1>5, <1>6, RunStepKinds DEF Next

(* Actions take place in the order of their rules, over all attempts: for  *)
(* every plan whose actions have keys of their own, none takes place       *)
(* before one in front of it, through failing actions, late failures,      *)
(* retries, stalls and locks that are overrun.                             *)
THEOREM ActionsInOrder == Spec => []InOrder
<1>1. Init => InOrder
  BY DEF Init, InOrder
<1>2. AccountInv => TypeInv
  BY DEF AccountInv
<1>3. AccountInv /\ LocksHeld /\ OrderKept /\ InOrder /\ [Next]_vars => InOrder'
  BY InOrderStep
<1> QED
  BY <1>1, <1>2, <1>3, AccountInvInit, AccountInvStep, LocksHeldInit, LocksHeldStep,
     OrderKeptInit, OrderKeptStep, PTL DEF Spec

=============================================================================
