--------------------------- MODULE RuleConditions ---------------------------
(***************************************************************************)
(* The conditions of an automation rule: how a payload is matched against  *)
(* them, what a write makes of one, what a sequence of sparse operations   *)
(* leaves, and the normal form duplicates are looked for in.               *)
(*                                                                         *)
(* A condition is its shape; a row is a shape and whether it is live, and  *)
(* its id is its position among the rows of its rule.                      *)
(***************************************************************************)
EXTENDS Integers, FiniteSets, Sequences

CONSTANTS
  Fields,       \* paths into the metadata of an event
  Values,       \* what a condition may hold and what a path may lead to
  Yes, No,      \* true and false
  Missing,      \* undefined and null
  Primitives,   \* values that === compares by what they are
  Arrays,       \* values Array.isArray accepts
  NumberOf,     \* NumberOf[v]: {Number(v)}, or {} where that is NaN
  ElementsOf    \* ElementsOf[v]: what an array includes

ASSUME ValuesAssumption ==
  /\ {Yes, No} \cup Missing \subseteq Primitives
  /\ Primitives \cup Arrays \subseteq Values
  /\ Yes # No /\ {Yes, No} \cap Missing = {}
  /\ NumberOf \in [Values -> SUBSET Int]
  /\ ElementsOf \in [Values -> SUBSET Values]

Operators == {"eq", "neq", "gt", "gte", "lt", "lte", "in", "exists"}
Shape == [field : Fields, operator : Operators, value : Values]
ConditionRow == [shape : Shape, live : BOOLEAN]

-----------------------------------------------------------------------------
Same(a, b) == a = b /\ a \in Primitives

(* Number(a) with Number(b), where neither is NaN.                         *)
NumberPairs(a, b) == NumberOf[a] \X NumberOf[b]

matchCondition(c, data) ==
  LET actual == data[c.field]
      numbers == NumberPairs(actual, c.value)
  IN  \/ c.operator = "eq" /\ Same(actual, c.value)
      \/ c.operator = "neq" /\ ~Same(actual, c.value)
      \/ c.operator = "gt" /\ \E n \in numbers : n[1] > n[2]
      \/ c.operator = "gte" /\ \E n \in numbers : n[1] >= n[2]
      \/ c.operator = "lt" /\ \E n \in numbers : n[1] < n[2]
      \/ c.operator = "lte" /\ \E n \in numbers : n[1] <= n[2]
      \/ c.operator = "in" /\ actual \in ElementsOf[c.value]
      \/ c.operator = "exists" /\ (c.value = Yes <=> actual \notin Missing)

(* AND-only; a rule without conditions matches every payload.              *)
matchConditions(shapes, data) == \A c \in shapes : matchCondition(c, data)

-----------------------------------------------------------------------------
(* { ...old, ...new }                                                      *)
Override(new, old) ==
  [f \in DOMAIN old |-> IF f \in DOMAIN new THEN new[f] ELSE old[f]]

(* Faulty variant, for the mutation runs: exists is kept as a truthiness.  *)
StoredTruthy(c) ==
  IF c.operator = "exists"
    THEN [c EXCEPT !.value = IF @ \in {No} \cup Missing THEN No ELSE Yes]
    ELSE c

(* What a row gives back of a condition written to it.                     *)
Stored(c) ==
  IF c.operator = "exists" THEN [c EXCEPT !.value = IF @ = Yes THEN Yes ELSE No]
                           ELSE c

Storable(c) == Stored(c) = c

(* What the schemas let through: a condition to create, and an operation   *)
(* of an update ("put" holds the columns it names).                        *)
IsConditionCreate(c) ==
  /\ c \in Shape
  /\ c.operator = "exists" => c.value \in {Yes, No}
  /\ c.operator = "in" => c.value \in Arrays

IsConditionOp(op) ==
  \/ op.do = "create" /\ IsConditionCreate(op.put)
  \/ op.do = "delete" /\ op.id \in Nat \ {0}
  \/ /\ op.do = "update" /\ op.id \in Nat \ {0}
     /\ DOMAIN op.put \in (SUBSET {"field", "operator", "value"}) \ {{}}
     /\ \A c \in Shape : Override(op.put, c) \in Shape

IsLiveRow(rows, id) == id \in DOMAIN rows /\ rows[id].live

(* One operation on the rows, as computeFinalConditions plays it through.  *)
Foresee(rows, op) ==
  IF op.do = "create" THEN Append(rows, [shape |-> op.put, live |-> TRUE])
  ELSE IF ~IsLiveRow(rows, op.id) THEN rows
  ELSE IF op.do = "delete" THEN [rows EXCEPT ![op.id].live = FALSE]
  ELSE [rows EXCEPT ![op.id].shape = Override(op.put, @)]

computeFinalConditions(rows, ops) ==
  LET after[k \in 0..Len(ops)] ==
        IF k = 0 THEN rows ELSE Foresee(after[k - 1], ops[k])
  IN  after[Len(ops)]

LiveShapes(rows) == {rows[i].shape : i \in {k \in DOMAIN rows : rows[k].live}}

(* Without ids and in a fixed order: each live shape and how often it occurs. *)
Normalized(rows) ==
  {<<s, Cardinality({i \in DOMAIN rows : rows[i] = [shape |-> s, live |-> TRUE]})>> :
     s \in LiveShapes(rows)}

=============================================================================
