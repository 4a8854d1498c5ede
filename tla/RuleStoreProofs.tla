--------------------------- MODULE RuleStoreProofs ---------------------------
(***************************************************************************)
(* What RuleStore guarantees for every set of clients, requests and rules, *)
(* with proofs: types, the soft deletes, the notification configs, and the *)
(* lemmas RuleBookProofs builds on.  The prediction of update() is a       *)
(* recursive function over the operations; facts about it are proved by    *)
(* looking at the least operation at which they fail.                      *)
(***************************************************************************)
EXTENDS RuleStore, FiniteSetTheorems, SequenceTheorems, WellFoundedInduction, TLAPS

-----------------------------------------------------------------------------
\* Every nonempty set of naturals has a least element.
LEMMA Least ==
  ASSUME NEW S, S \subseteq Nat, S # {}
  PROVE  \E m \in S : \A n \in S : m <= n
<1> DEFINE R == {ss \in Nat \X Nat : ss[1] < ss[2]}
<1>1. IsWellFoundedOn(R, Nat)
  BY NatLessThanWellFounded DEF OpToRel
<1>2. PICK m \in S : \A n \in S : ~ (<<n, m>> \in R)
  <2> HIDE DEF R
  <2> QED
    BY <1>1, WFMin
<1>3. ASSUME NEW n \in S PROVE m <= n
  <2>1. <<n, m>> \in Nat \X Nat /\ <<n, m>>[1] = n /\ <<n, m>>[2] = m
    OBVIOUS
  <2> QED
    BY <1>2, <2>1
<1> QED
  BY <1>3

-----------------------------------------------------------------------------
(* Conditions.                                                             *)
LEMMA StoredShape ==
  ASSUME NEW s \in Shape
  PROVE  /\ Stored(s) \in Shape /\ Storable(Stored(s))
         /\ Stored(s).operator = s.operator /\ Stored(s).field = s.field
  BY ValuesAssumption DEF Stored, Storable, Shape

LEMMA CreatedStorable ==
  ASSUME NEW s, IsConditionCreate(s)
  PROVE  s \in Shape /\ Storable(s)
  BY DEF IsConditionCreate, Storable, Stored, Shape

Rows == Seq(ConditionRow)

LEMMA RowFields ==
  ASSUME NEW row \in ConditionRow, NEW s \in Shape
  PROVE  /\ row.shape \in Shape /\ row.live \in BOOLEAN
         /\ [row EXCEPT !.shape = s] \in ConditionRow
         /\ [row EXCEPT !.live = FALSE] \in ConditionRow
         /\ [shape |-> s, live |-> TRUE] \in ConditionRow
  BY DEF ConditionRow

(* Replacing or adding one member of a list.                               *)
LEMMA PutMember ==
  ASSUME NEW S, NEW q \in Seq(S), NEW i, NEW e \in S
  PROVE  /\ [q EXCEPT ![i] = e] \in Seq(S)
         /\ DOMAIN [q EXCEPT ![i] = e] = DOMAIN q
         /\ Len([q EXCEPT ![i] = e]) = Len(q)
         /\ \A j \in DOMAIN q : [q EXCEPT ![i] = e][j] = IF j = i THEN e ELSE q[j]
<1>1. q \in [1..Len(q) -> S] /\ Len(q) \in Nat
  BY LenProperties
<1>2. [q EXCEPT ![i] = e] \in [1..Len(q) -> S]
  BY <1>1
<1> QED
  BY <1>1, <1>2

LEMMA AddMember ==
  ASSUME NEW S, NEW q \in Seq(S), NEW e \in S
  PROVE  /\ Append(q, e) \in Seq(S)
         /\ Len(Append(q, e)) = Len(q) + 1
         /\ DOMAIN q = 1..Len(q) /\ Len(q) \in Nat
         /\ DOMAIN Append(q, e) = 1..(Len(q) + 1)
         /\ \A j \in 1..Len(q) : Append(q, e)[j] = q[j]
         /\ Append(q, e)[Len(q) + 1] = e
  BY LenProperties, AppendProperties

LEMMA Member ==
  ASSUME NEW S, NEW q \in Seq(S), NEW i \in DOMAIN q
  PROVE  q[i] \in S /\ i \in Nat \ {0} /\ i <= Len(q)
  BY LenProperties, ElementOfSeq

LEMMA ForeseeRows ==
  ASSUME NEW rows \in Rows, NEW op, IsConditionOp(op)
  PROVE  Foresee(rows, op) \in Rows
<1>0. rows \in Seq(ConditionRow)
  BY DEF Rows
<1>1. CASE op.do = "create"
  <2> DEFINE row == [shape |-> op.put, live |-> TRUE]
  <2>1. op.put \in Shape
    BY <1>1, CreatedStorable DEF IsConditionOp
  <2>2. row \in ConditionRow
    BY <2>1 DEF ConditionRow
  <2>3. Foresee(rows, op) = Append(rows, row)
    BY <1>1 DEF Foresee
  <2> HIDE DEF row
  <2>4. Append(rows, row) \in Seq(ConditionRow)
    BY <1>0, <2>2, AddMember
  <2> QED
    BY <2>3, <2>4 DEF Rows
<1>2. CASE op.do # "create" /\ ~IsLiveRow(rows, op.id)
  BY <1>2 DEF Foresee
<1>3. CASE op.do # "create" /\ IsLiveRow(rows, op.id)
  <2> DEFINE i == op.id
             old == rows[i]
             row == IF op.do = "delete" THEN [old EXCEPT !.live = FALSE]
                    ELSE [old EXCEPT !.shape = Override(op.put, old.shape)]
  <2>1. old \in ConditionRow
    BY <1>0, <1>3, Member DEF IsLiveRow
  <2>2. op.do = "delete" \/ Override(op.put, old.shape) \in Shape
    BY <1>3, <2>1 DEF IsConditionOp, ConditionRow
  <2>3. Foresee(rows, op) = [rows EXCEPT ![i] = row]
    BY <1>3 DEF Foresee
  <2> HIDE DEF i, old
  <2>4. row \in ConditionRow
    BY <2>1, <2>2 DEF ConditionRow
  <2> HIDE DEF row
  <2>5. [rows EXCEPT ![i] = row] \in Seq(ConditionRow)
    BY <1>0, <2>4, PutMember
  <2> QED
    BY <2>3, <2>5 DEF Rows
<1> QED
  BY <1>1, <1>2, <1>3

-----------------------------------------------------------------------------
(* computeFinalConditions: the rows after each of the operations.          *)
IsPath(p, rows, ops, n) ==
  /\ p \in [0..n -> Rows] /\ p[0] = rows
  /\ \A k \in 1..n : p[k] = Foresee(p[k - 1], ops[k])

LEMMA PathExists ==
  ASSUME NEW rows \in Rows, NEW ops, NEW n \in Nat, \A k \in 1..n : IsConditionOp(ops[k])
  PROVE  \E p : IsPath(p, rows, ops, n)
<1> DEFINE Bad == {m \in 0..n : ~ \E p : IsPath(p, rows, ops, m)}
<1> SUFFICES ASSUME Bad # {} PROVE FALSE
  OBVIOUS
<1>1. PICK m \in Bad : \A l \in Bad : m <= l
  <2>1. Bad \subseteq Nat
    OBVIOUS
  <2> HIDE DEF Bad
  <2> QED
    BY <2>1, Least
<1>2. CASE m = 0
  <2>1. IsPath([k \in 0..0 |-> rows], rows, ops, 0)
    BY DEF IsPath
  <2> QED
    BY <1>1, <1>2, <2>1
<1>3. CASE m # 0
  <2>1. m - 1 \in 0..n /\ m - 1 \in Nat /\ m - 1 \notin Bad /\ IsConditionOp(ops[m])
    BY <1>1, <1>3
  <2>2. PICK p : IsPath(p, rows, ops, m - 1)
    BY <2>1
  <2>3. Foresee(p[m - 1], ops[m]) \in Rows
    BY <2>1, <2>2, ForeseeRows DEF IsPath
  <2> DEFINE q == [k \in 0..m |-> IF k = m THEN Foresee(p[m - 1], ops[m]) ELSE p[k]]
  <2>4. q \in [0..m -> Rows] /\ q[0] = rows
    BY <1>3, <2>1, <2>2, <2>3 DEF IsPath
  <2>5. \A k \in 1..m : q[k] = Foresee(q[k - 1], ops[k])
    BY <1>3, <2>1, <2>2, <2>3 DEF IsPath
  <2>6. IsPath(q, rows, ops, m)
    BY <2>4, <2>5 DEF IsPath
  <2> QED
    BY <1>1, <2>6
<1> QED
  BY <1>2, <1>3

(* The prediction is the end of such a path.                               *)
LEMMA FinalOfPath ==
  ASSUME NEW rows \in Rows, NEW ops, Len(ops) \in Nat,
         \A k \in 1..Len(ops) : IsConditionOp(ops[k])
  PROVE  \E p : /\ IsPath(p, rows, ops, Len(ops))
                /\ computeFinalConditions(rows, ops) = p[Len(ops)]
<1> DEFINE D == 0..Len(ops)
           Def(f) == f = [k \in D |-> IF k = 0 THEN rows ELSE Foresee(f[k - 1], ops[k])]
           after == CHOOSE f : Def(f)
<1>1. PICK p : IsPath(p, rows, ops, Len(ops))
  BY PathExists
<1>2. Def(p)
  BY <1>1 DEF IsPath
<1>3. computeFinalConditions(rows, ops) = after[Len(ops)]
  BY DEF computeFinalConditions
<1>4. Def(after)
  BY <1>2
<1> HIDE DEF after
<1>5. \A k \in D : after[k] = p[k]
  <2> DEFINE Bad == {k \in D : after[k] # p[k]}
  <2> SUFFICES ASSUME Bad # {} PROVE FALSE
    OBVIOUS
  <2>1. PICK m \in Bad : \A l \in Bad : m <= l
    <3>1. Bad \subseteq Nat
      OBVIOUS
    <3> HIDE DEF Bad
    <3> QED
      BY <3>1, Least
  <2>2. /\ after[m] = IF m = 0 THEN rows ELSE Foresee(after[m - 1], ops[m])
        /\ p[m] = IF m = 0 THEN rows ELSE Foresee(p[m - 1], ops[m])
    BY <1>2, <1>4
  <2>3. m # 0 => after[m - 1] = p[m - 1]
    BY <2>1
  <2> QED
    BY <2>1, <2>2, <2>3
<1> QED
  BY <1>1, <1>3, <1>5

LEMMA FinalRows ==
  ASSUME NEW rows \in Rows, NEW ops, Len(ops) \in Nat,
         \A k \in 1..Len(ops) : IsConditionOp(ops[k])
  PROVE  computeFinalConditions(rows, ops) \in Rows
  BY FinalOfPath DEF IsPath

LEMMA NormalizedType ==
  ASSUME NEW rows \in Rows
  PROVE  Normalized(rows) \in SUBSET (Shape \X Nat)
<1>1. rows \in Seq(ConditionRow)
  BY DEF Rows
<1>2. ASSUME NEW s \in LiveShapes(rows) PROVE s \in Shape
  <2>1. PICK i \in DOMAIN rows : s = rows[i].shape
    BY DEF LiveShapes
  <2>2. rows[i] \in ConditionRow
    BY <1>1, Member
  <2> QED
    BY <2>1, <2>2 DEF ConditionRow
<1> DEFINE Count(s) ==
             Cardinality({i \in DOMAIN rows : rows[i] = [shape |-> s, live |-> TRUE]})
<1>3. ASSUME NEW s PROVE Count(s) \in Nat
  <2>1. IsFiniteSet(DOMAIN rows)
    BY <1>1, LenProperties, FS_Interval
  <2> QED
    BY <2>1, FS_Subset, FS_CardinalityType
<1>4. Normalized(rows) = {<<s, Count(s)>> : s \in LiveShapes(rows)}
  BY DEF Normalized
<1> HIDE DEF Count
<1> QED
  BY <1>2, <1>3, <1>4

LEMMA IdentityType ==
  ASSUME NEW parent \in Parent, NEW rows \in Rows
  PROVE  IdentityOf(parent, rows) \in Identity
  BY NormalizedType DEF IdentityOf, Identity, Parent

-----------------------------------------------------------------------------
(* Requests and the rules they change.                                     *)
LEMMA ListIsSeq ==
  ASSUME NEW s, IsList(s), NEW S, \A k \in 1..Len(s) : s[k] \in S
  PROVE  s \in Seq(S) /\ Len(s) \in Nat /\ DOMAIN s = 1..Len(s)
<1>1. PICK n \in Nat : n = Len(s)
  BY DEF IsList
<1>2. s = [k \in 1..n |-> s[k]]
  BY <1>1 DEF IsList
<1>3. s \in [1..n -> S]
  BY <1>1, <1>2
<1>4. s \in Seq(S)
  BY <1>3, SeqDef
<1> QED
  BY <1>1, <1>3, <1>4

LEMMA RequestOps ==
  ASSUME NEW r \in Requests, r.kind # "remove"
  PROVE  /\ Len(r.conds) \in Nat /\ DOMAIN r.conds = 1..Len(r.conds)
         /\ Len(r.acts) \in Nat /\ DOMAIN r.acts = 1..Len(r.acts)
         /\ Len(Ops(r)) = Len(r.conds) + Len(r.acts)
         /\ \A k \in 1..Len(r.conds) : Ops(r)[k] = r.conds[k] /\ IsConditionOp(r.conds[k])
         /\ \A k \in (Len(r.conds) + 1)..Len(Ops(r)) :
              /\ k - Len(r.conds) \in DOMAIN r.acts /\ Ops(r)[k] = r.acts[k - Len(r.conds)]
              /\ IsActionOp(Ops(r)[k])
<1>1. /\ IsList(r.conds) /\ IsList(r.acts)
      /\ \A k \in DOMAIN r.conds : IsConditionOp(r.conds[k])
      /\ \A k \in DOMAIN r.acts : IsActionOp(r.acts[k])
  BY RequestsAssumption DEF IsRequest
<1> DEFINE S == {r.conds[k] : k \in 1..Len(r.conds)} \cup {r.acts[k] : k \in 1..Len(r.acts)}
<1>2. (\A k \in 1..Len(r.conds) : r.conds[k] \in S) /\ (\A k \in 1..Len(r.acts) : r.acts[k] \in S)
  OBVIOUS
<1> HIDE DEF S
<1>3. /\ r.conds \in Seq(S) /\ Len(r.conds) \in Nat /\ DOMAIN r.conds = 1..Len(r.conds)
      /\ r.acts \in Seq(S) /\ Len(r.acts) \in Nat /\ DOMAIN r.acts = 1..Len(r.acts)
  BY <1>1, <1>2, ListIsSeq
<1>4. PICK m, n \in Nat : m = Len(r.conds) /\ n = Len(r.acts)
  BY <1>3
<1>5. /\ Len(Ops(r)) = m + n
      /\ \A k \in 1..(m + n) :
           Ops(r)[k] = IF k <= m THEN r.conds[k] ELSE r.acts[k - m]
  BY <1>3, <1>4, ConcatProperties DEF Ops
<1>6. ASSUME NEW k \in 1..m
      PROVE  Ops(r)[k] = r.conds[k] /\ IsConditionOp(r.conds[k])
  <2>1. k \in 1..(m + n) /\ k <= m
    OBVIOUS
  <2>2. k \in DOMAIN r.conds
    BY <1>3, <1>4
  <2> QED
    BY <1>1, <1>5, <2>1, <2>2
<1>7. ASSUME NEW k \in (m + 1)..(m + n)
      PROVE  k - m \in DOMAIN r.acts /\ Ops(r)[k] = r.acts[k - m] /\ IsActionOp(Ops(r)[k])
  <2>1. k - m \in 1..n /\ k \in 1..(m + n) /\ ~(k <= m)
    OBVIOUS
  <2> QED
    BY <1>1, <1>3, <1>4, <1>5, <2>1
<1> QED
  BY <1>3, <1>4, <1>5, <1>6, <1>7

LEMMA OpsEmpty ==
  ASSUME NEW r \in Requests, r.kind # "remove"
  PROVE  Len(Ops(r)) \in Nat /\ (Ops(r) # <<>> => Len(Ops(r)) # 0)
<1>1. IsList(r.conds) /\ IsList(r.acts)
  BY RequestsAssumption DEF IsRequest
<1> DEFINE S == {r.conds[k] : k \in 1..Len(r.conds)} \cup {r.acts[k] : k \in 1..Len(r.acts)}
<1>2. (\A k \in 1..Len(r.conds) : r.conds[k] \in S) /\ (\A k \in 1..Len(r.acts) : r.acts[k] \in S)
  OBVIOUS
<1> HIDE DEF S
<1>3. r.conds \in Seq(S) /\ r.acts \in Seq(S)
  BY <1>1, <1>2, ListIsSeq
<1>4. Ops(r) \in Seq(S)
  BY <1>3, ConcatProperties DEF Ops
<1> QED
  BY <1>4, EmptySeq, LenProperties

LEMMA RequestKind ==
  ASSUME NEW r \in Requests
  PROVE  /\ r.kind \in {"create", "update", "remove"}
         /\ r.kind = "create" => r.patch \in Parent
         /\ r.kind = "update" =>
              r.rule \in Nat /\ \A p \in Parent : Override(r.patch, p) \in Parent
         /\ r.kind = "remove" => r.rule \in Nat
         /\ r.kind # "remove" => r.given \in BOOLEAN /\ (~r.given => r.conds = <<>>)
         /\ r.kind = "create" =>
              \A k \in DOMAIN r.conds : r.conds[k].do = "create" /\ IsConditionOp(r.conds[k])
         /\ r.kind = "create" =>
              \A k \in DOMAIN r.acts : r.acts[k].do = "create" /\ IsActionOp(r.acts[k])
  BY RequestsAssumption DEF IsRequest

UpdateOf(r, m, rs) ==
  r \in Requests /\ r.kind = "update" /\ m.rule = r.rule /\ m.rule \in DOMAIN rs
Predicted(m) == m.want \in Identity /\ m.existing \in Identity

\* Where a request is, what it must remember by then.
InStage(stage, r, m, rs) ==
  \/ stage = "idle" /\ r = Nothing /\ m = Blank
  \/ /\ r \in Requests /\ r.kind = "create" /\ stage \in {"check", "insert"}
     /\ m.rule = 0 /\ m.want \in Identity /\ m.existing = Nothing
  \/ UpdateOf(r, m, rs) /\ stage = "find" /\ m = [Blank EXCEPT !.rule = r.rule]
  \/ UpdateOf(r, m, rs) /\ Predicted(m) /\ stage \in {"check", "parent"}
  \/ UpdateOf(r, m, rs) /\ Predicted(m) /\ stage = "op" /\ m.at \in 1..Len(Ops(r))
  \/ /\ UpdateOf(r, m, rs) /\ Predicted(m) /\ stage = "rewrite" /\ m.merged \in Shape
     /\ m.at \in 1..Len(r.conds) /\ r.conds[m.at].do = "update"
     /\ r.conds[m.at].id \in DOMAIN rs[m.rule].conds
  \/ /\ UpdateOf(r, m, rs) /\ Predicted(m) /\ stage \in {"config", "write"}
     /\ m.at \in (Len(r.conds) + 1)..Len(Ops(r)) /\ Ops(r)[m.at].do = "update"
     /\ Ops(r)[m.at].of = m.rule /\ Ops(r)[m.at].id \in DOMAIN rs[m.rule].acts
  \/ UpdateOf(r, m, rs) /\ Predicted(m) /\ stage = "reload"
  \/ /\ r \in Requests /\ r.kind = "create" /\ stage = "reload" /\ m.want \in Identity
     /\ m.rule \in DOMAIN rs /\ m.existing = Nothing
  \/ /\ r \in Requests /\ r.kind = "remove" /\ stage \in {"collect", "transact"}
     /\ m.rule = r.rule /\ m.rule \in DOMAIN rs /\ m.want = Nothing /\ m.existing = Nothing

ClientsTyped ==
  /\ pc \in [Clients -> Stages]
  /\ req \in [Clients -> Requests \cup {Nothing}]
  /\ mem \in [Clients -> Locals]

TypeInv ==
  /\ faults \subseteq AllFaults
  /\ rules \in Seq(Rule)
  /\ ClientsTyped
  /\ served \in 0..MaxRequests
  /\ \A c \in Clients : InStage(pc[c], req[c], mem[c], rules)

\* Rows are added to a rule, and rules to the table, but never taken away.
Grown(rs) ==
  \A i \in DOMAIN rules :
    /\ i \in DOMAIN rs
    /\ DOMAIN rules[i].conds \subseteq DOMAIN rs[i].conds
    /\ DOMAIN rules[i].acts \subseteq DOMAIN rs[i].acts

LEMMA StageKept ==
  ASSUME NEW stage, NEW r, NEW m, NEW rs, Grown(rs), InStage(stage, r, m, rules)
  PROVE  InStage(stage, r, m, rs)
  BY DEF InStage, UpdateOf, Grown

OthersStay(c) ==
  \A d \in Clients \ {c} : pc'[d] = pc[d] /\ req'[d] = req[d] /\ mem'[d] = mem[d]

\* What every step does to the types: its client's stage, its rules.
StepTyped(c) ==
  /\ OthersStay(c) /\ ClientsTyped'
  /\ rules' \in Seq(Rule) /\ Grown(rules')
  /\ InStage(pc'[c], req'[c], mem'[c], rules')

-----------------------------------------------------------------------------
(* What the statements write.                                              *)
LEMMA MarkedRows ==
  ASSUME NEW rows \in Seq(ConditionRow), NEW ids
  PROVE  /\ Marked(rows, ids) \in Seq(ConditionRow)
         /\ DOMAIN Marked(rows, ids) = DOMAIN rows /\ Len(Marked(rows, ids)) = Len(rows)
         /\ \A k \in DOMAIN rows :
              Marked(rows, ids)[k] =
                IF k \in ids THEN [rows[k] EXCEPT !.live = FALSE] ELSE rows[k]
<1>1. PICK n \in Nat : n = Len(rows) /\ DOMAIN rows = 1..n
  BY LenProperties
<1>2. \A k \in 1..n : rows[k] \in ConditionRow
  BY <1>1, Member
<1>3. Marked(rows, ids) = [k \in 1..n |-> IF k \in ids THEN [rows[k] EXCEPT !.live = FALSE]
                                                       ELSE rows[k]]
  BY <1>1 DEF Marked
<1>4. \A k \in 1..n : [rows[k] EXCEPT !.live = FALSE] \in ConditionRow
  BY <1>2 DEF ConditionRow
<1>5. Marked(rows, ids) \in [1..n -> ConditionRow]
  BY <1>2, <1>3, <1>4
<1>6. Marked(rows, ids) \in Seq(ConditionRow)
  BY <1>5, SeqDef
<1> QED
  BY <1>1, <1>3, <1>4, <1>5, <1>6

LEMMA MarkedActions ==
  ASSUME NEW rows \in Seq(ActionRow), NEW ids
  PROVE  /\ Marked(rows, ids) \in Seq(ActionRow)
         /\ DOMAIN Marked(rows, ids) = DOMAIN rows
         /\ \A k \in DOMAIN rows :
              Marked(rows, ids)[k] =
                IF k \in ids THEN [rows[k] EXCEPT !.live = FALSE] ELSE rows[k]
         /\ ConfigsMarked(rows, ids) \in Seq(ActionRow)
         /\ DOMAIN ConfigsMarked(rows, ids) = DOMAIN rows
         /\ \A k \in DOMAIN rows :
              ConfigsMarked(rows, ids)[k] =
                IF k \in ids THEN [rows[k] EXCEPT !.cfgLive = FALSE] ELSE rows[k]
<1>1. PICK n \in Nat : n = Len(rows) /\ DOMAIN rows = 1..n
  BY LenProperties
<1>2. \A k \in 1..n : rows[k] \in ActionRow
  BY <1>1, Member
<1>3. /\ Marked(rows, ids) = [k \in 1..n |-> IF k \in ids THEN [rows[k] EXCEPT !.live = FALSE]
                                                          ELSE rows[k]]
      /\ ConfigsMarked(rows, ids) =
           [k \in 1..n |-> IF k \in ids THEN [rows[k] EXCEPT !.cfgLive = FALSE] ELSE rows[k]]
  BY <1>1 DEF Marked, ConfigsMarked
<1>4. \A k \in 1..n : /\ [rows[k] EXCEPT !.live = FALSE] \in ActionRow
                      /\ [rows[k] EXCEPT !.cfgLive = FALSE] \in ActionRow
  BY <1>2 DEF ActionRow
<1>5. /\ Marked(rows, ids) \in [1..n -> ActionRow]
      /\ ConfigsMarked(rows, ids) \in [1..n -> ActionRow]
  BY <1>2, <1>3, <1>4
<1>6. Marked(rows, ids) \in Seq(ActionRow) /\ ConfigsMarked(rows, ids) \in Seq(ActionRow)
  BY <1>5, SeqDef
<1> QED
  BY <1>1, <1>3, <1>5, <1>6

LEMMA CreatedAction ==
  ASSUME NEW op, IsActionOp(op)
  PROVE  /\ NewAction(op) \in ActionRow
         /\ NewAction(op).live = TRUE /\ NewAction(op).cfgLive = TRUE
         /\ op.do = "create" => NewAction(op).named = NewAction(op).channel
  BY DEF NewAction, ActionRow, IsActionOp

LEMMA RuleFields ==
  ASSUME NEW rule \in Rule
  PROVE  /\ rule.parent \in Parent /\ rule.live \in BOOLEAN
         /\ rule.conds \in Seq(ConditionRow) /\ rule.conds \in Rows
         /\ rule.acts \in Seq(ActionRow)
         /\ \A x \in Parent : [rule EXCEPT !.parent = x] \in Rule
         /\ \A x \in Seq(ConditionRow) : [rule EXCEPT !.conds = x] \in Rule
         /\ \A x \in Seq(ActionRow) : [rule EXCEPT !.acts = x] \in Rule
  BY DEF Rule, Rows

LEMMA LocalsFields ==
  ASSUME NEW m \in Locals
  PROVE  /\ m.rule \in Nat /\ m.at \in Nat /\ m.want \in Identity \cup {Nothing}
         /\ m.existing \in Identity \cup {Nothing} /\ m.merged \in Shape \cup {Nothing}
         /\ m.collected \in SUBSET Nat
         /\ \A x \in Nat : [m EXCEPT !.rule = x] \in Locals /\ [m EXCEPT !.at = x] \in Locals
         /\ \A x \in Shape : [m EXCEPT !.merged = x] \in Locals
         /\ \A x \in SUBSET Nat : [m EXCEPT !.collected = x] \in Locals
  BY DEF Locals

LEMMA BlankType == Blank \in Locals /\ \A i \in Nat : [Blank EXCEPT !.rule = i] \in Locals
  BY DEF Blank, Locals

\* A client goes on, or is done.
Goes(c, stage, m) ==
  /\ OthersStay(c) /\ ClientsTyped'
  /\ pc'[c] = stage /\ mem'[c] = m /\ req'[c] = req[c]
Ends(c) ==
  /\ OthersStay(c) /\ ClientsTyped'
  /\ pc'[c] = "idle" /\ mem'[c] = Blank /\ req'[c] = Nothing

LEMMA GoToStep ==
  ASSUME ClientsTyped, NEW c \in Clients, NEW stage \in Stages, NEW m \in Locals,
         GoTo(c, stage, m)
  PROVE  Goes(c, stage, m)
  BY DEF GoTo, Goes, OthersStay, ClientsTyped

LEMMA FinishStep ==
  ASSUME ClientsTyped, NEW c \in Clients, Finish(c)
  PROVE  Ends(c)
  BY BlankType DEF Finish, Ends, OthersStay, ClientsTyped, Stages

\* On to operation k.
AtOp(m, k) == [m EXCEPT !.at = k, !.merged = Nothing]

LEMMA GoToOpStep ==
  ASSUME ClientsTyped, NEW c \in Clients, NEW k \in Nat, GoToOp(c, k)
  PROVE  /\ AtOp(mem[c], k) \in Locals
         /\ Goes(c, IF k <= Len(Ops(req[c])) THEN "op" ELSE "reload", AtOp(mem[c], k))
         /\ AtOp(mem[c], k).rule = mem[c].rule /\ AtOp(mem[c], k).at = k
         /\ AtOp(mem[c], k).want = mem[c].want
         /\ AtOp(mem[c], k).existing = mem[c].existing
<1>1. mem[c] \in Locals
  BY DEF ClientsTyped
<1>2. /\ AtOp(mem[c], k) \in Locals
      /\ AtOp(mem[c], k).rule = mem[c].rule /\ AtOp(mem[c], k).at = k
      /\ AtOp(mem[c], k).want = mem[c].want
      /\ AtOp(mem[c], k).existing = mem[c].existing
  BY <1>1 DEF AtOp, Locals
<1> DEFINE stage == IF k <= Len(Ops(req[c])) THEN "op" ELSE "reload"
<1>3. stage \in Stages
  BY DEF Stages
<1>4. GoTo(c, stage, AtOp(mem[c], k))
  BY DEF GoToOp, AtOp
<1> HIDE DEF stage
<1>5. Goes(c, stage, AtOp(mem[c], k))
  BY <1>2, <1>3, <1>4, GoToStep
<1> QED
  BY <1>2, <1>5 DEF stage

-----------------------------------------------------------------------------
(* Steps.                                                                  *)
Edits(i, rule) ==
  i \in DOMAIN rules /\ rule \in Rule /\ rules' = [rules EXCEPT ![i] = rule]

LEMMA EditStep ==
  ASSUME rules \in Seq(Rule), NEW i, NEW rule, Edits(i, rule)
  PROVE  /\ rules' \in Seq(Rule) /\ DOMAIN rules' = DOMAIN rules /\ Len(rules') = Len(rules)
         /\ rules'[i] = rule /\ \A j \in DOMAIN rules \ {i} : rules'[j] = rules[j]
         /\ /\ DOMAIN rules[i].conds \subseteq DOMAIN rule.conds
            /\ DOMAIN rules[i].acts \subseteq DOMAIN rule.acts
            => Grown(rules')
<1>1. /\ rules' \in Seq(Rule) /\ DOMAIN rules' = DOMAIN rules /\ Len(rules') = Len(rules)
      /\ \A j \in DOMAIN rules : rules'[j] = IF j = i THEN rule ELSE rules[j]
  BY PutMember DEF Edits
<1> QED
  BY <1>1 DEF Edits, Grown

LEMMA SameRules ==
  ASSUME rules \in Seq(Rule), rules' = rules
  PROVE  rules' \in Seq(Rule) /\ Grown(rules')
  BY DEF Grown

\* A client at an operation, and what that is.
LEMMA AtOperation ==
  ASSUME TypeInv, NEW c \in Clients, pc[c] \in {"op", "rewrite", "config", "write"}
  PROVE  /\ req[c] \in Requests /\ UpdateOf(req[c], mem[c], rules) /\ Predicted(mem[c])
         /\ mem[c] \in Locals /\ rules[mem[c].rule] \in Rule
         /\ Len(req[c].conds) \in Nat /\ Len(Ops(req[c])) \in Nat
         /\ mem[c].at \in 1..Len(Ops(req[c]))
         /\ pc[c] \in {"config", "write"} => mem[c].at > Len(req[c].conds)
         /\ pc[c] = "rewrite" => mem[c].at <= Len(req[c].conds)
         /\ mem[c].at <= Len(req[c].conds) =>
              Op(c) = req[c].conds[mem[c].at] /\ IsConditionOp(Op(c))
         /\ mem[c].at > Len(req[c].conds) => IsActionOp(Op(c))
<1>1. InStage(pc[c], req[c], mem[c], rules) /\ rules \in Seq(Rule) /\ mem[c] \in Locals
  BY DEF TypeInv, ClientsTyped
<1>2. UpdateOf(req[c], mem[c], rules) /\ Predicted(mem[c])
  BY <1>1 DEF InStage
<1>3. /\ req[c] \in Requests /\ req[c].kind # "remove" /\ mem[c].rule \in DOMAIN rules
  BY <1>2 DEF UpdateOf
<1>4. PICK m \in Nat, n \in Nat : /\ m = Len(req[c].conds) /\ m + n = Len(Ops(req[c]))
  BY <1>3, RequestOps
<1>5. /\ mem[c].at \in 1..(m + n) /\ (pc[c] = "rewrite" => mem[c].at \in 1..m)
      /\ pc[c] \in {"config", "write"} => mem[c].at \in (m + 1)..(m + n)
  BY SMTT(30), <1>1, <1>4 DEF InStage
<1>6. rules[mem[c].rule] \in Rule
  BY <1>1, <1>3, Member
<1>7. ASSUME mem[c].at <= m
      PROVE  Op(c) = req[c].conds[mem[c].at] /\ IsConditionOp(Op(c))
  <2>1. mem[c].at \in 1..Len(req[c].conds)
    BY <1>4, <1>5, <1>7
  <2> QED
    BY <1>3, <2>1, RequestOps DEF Op
<1>8. ASSUME mem[c].at > m
      PROVE  IsActionOp(Op(c))
  <2>1. mem[c].at \in (Len(req[c].conds) + 1)..Len(Ops(req[c]))
    BY <1>4, <1>5, <1>8
  <2> QED
    BY <1>3, <2>1, RequestOps DEF Op
<1> QED
  BY <1>1, <1>2, <1>3, <1>4, <1>5, <1>6, <1>7, <1>8

LEMMA NextOpStep ==
  ASSUME TypeInv, NEW c \in Clients, pc[c] \in {"op", "rewrite", "config", "write"},
         NextOp(c), Grown(rules')
  PROVE  /\ OthersStay(c) /\ ClientsTyped'
         /\ Goes(c, IF mem[c].at + 1 <= Len(Ops(req[c])) THEN "op" ELSE "reload",
                 AtOp(mem[c], mem[c].at + 1))
         /\ InStage(pc'[c], req'[c], mem'[c], rules')
<1>1. /\ UpdateOf(req[c], mem[c], rules) /\ Predicted(mem[c]) /\ mem[c].at \in Nat
      /\ Len(Ops(req[c])) \in Nat
  BY AtOperation
<1>2. PICK k \in Nat : k = mem[c].at + 1 /\ k # 0
  BY <1>1
<1>3. GoToOp(c, k) /\ ClientsTyped
  BY <1>2 DEF NextOp, TypeInv
<1> DEFINE m == AtOp(mem[c], k)
           stage == IF k <= Len(Ops(req[c])) THEN "op" ELSE "reload"
<1>4. /\ Goes(c, stage, m) /\ m.rule = mem[c].rule /\ m.at = k
      /\ m.want = mem[c].want /\ m.existing = mem[c].existing
  BY <1>3, GoToOpStep
<1>5. UpdateOf(req[c], m, rules') /\ Predicted(m)
  BY <1>1, <1>4 DEF UpdateOf, Predicted, Grown
<1>6. \/ stage = "op" /\ m.at \in 1..Len(Ops(req[c]))
      \/ stage = "reload"
  BY <1>1, <1>2, <1>4
<1> HIDE DEF m, stage
<1>7. InStage(stage, req[c], m, rules')
  BY <1>5, <1>6 DEF InStage
<1>8. InStage(pc'[c], req'[c], mem'[c], rules')
  BY <1>4, <1>7 DEF Goes
<1> QED
  BY <1>2, <1>4, <1>8 DEF Goes, m, stage

LEMMA EndsTyped ==
  ASSUME NEW c \in Clients, Ends(c)
  PROVE  OthersStay(c) /\ ClientsTyped' /\ InStage(pc'[c], req'[c], mem'[c], rules')
  BY DEF Ends, InStage

LEMMA StartTyped ==
  ASSUME TypeInv, NEW c \in Clients, NEW r \in Requests, Start(c, r)
  PROVE  StepTyped(c) /\ rules' = rules
<1>1. /\ pc[c] = "idle" /\ rules' = rules /\ req' = [req EXCEPT ![c] = r]
      /\ r.kind # "create" => r.rule \in DOMAIN rules
      /\ rules \in Seq(Rule) /\ ClientsTyped
  BY DEF Start, TypeInv
<1> DEFINE want == IdentityOf(r.patch, computeFinalConditions(<<>>, r.conds))
           m == IF r.kind = "create" THEN [Blank EXCEPT !.want = want]
                                     ELSE [Blank EXCEPT !.rule = r.rule]
           stage == CASE r.kind = "create" -> "check"
                      [] r.kind = "update" -> "find"
                      [] r.kind = "remove" -> "collect"
<1>2. pc' = [pc EXCEPT ![c] = stage] /\ mem' = [mem EXCEPT ![c] = m]
  BY DEF Start
<1>3. r.kind = "create" => want \in Identity
  <2> SUFFICES ASSUME r.kind = "create" PROVE want \in Identity
    OBVIOUS
  <2>1. \A k \in 1..Len(r.conds) : IsConditionOp(r.conds[k])
    BY RequestOps
  <2>2. computeFinalConditions(<<>>, r.conds) \in Rows
    <3>1. <<>> \in Rows /\ Len(r.conds) \in Nat
      BY RequestOps, EmptySeq DEF Rows
    <3> QED
      BY <2>1, <3>1, FinalRows
  <2> QED
    BY <2>2, RequestKind, IdentityType
<1> HIDE DEF want
<1>4. CASE r.kind = "create"
  <2>1. /\ m \in Locals /\ m.rule = 0 /\ m.want = want /\ m.existing = Nothing
        /\ stage = "check"
    BY <1>3, <1>4 DEF Blank, Locals
  <2> HIDE DEF m, stage
  <2>2. InStage(stage, r, m, rules)
    BY <1>3, <1>4, <2>1 DEF InStage
  <2> QED
    BY <1>1, <1>2, <2>1, <2>2, SameRules DEF StepTyped, OthersStay, ClientsTyped, Stages
<1>5. CASE r.kind = "update"
  <2>1. /\ m = [Blank EXCEPT !.rule = r.rule] /\ stage = "find" /\ r.rule \in Nat
        /\ m \in Locals /\ m.rule = r.rule
    BY <1>1, <1>5, RequestKind DEF Blank, Locals
  <2> HIDE DEF m, stage
  <2>2. InStage(stage, r, m, rules)
    BY <1>1, <1>5, <2>1 DEF InStage, UpdateOf
  <2> QED
    BY <1>1, <1>2, <2>1, <2>2, SameRules DEF StepTyped, OthersStay, ClientsTyped, Stages
<1>6. CASE r.kind = "remove"
  <2>1. /\ m = [Blank EXCEPT !.rule = r.rule] /\ stage = "collect" /\ r.rule \in Nat
        /\ m \in Locals /\ m.rule = r.rule /\ m.want = Nothing /\ m.existing = Nothing
    BY <1>1, <1>6, RequestKind DEF Blank, Locals
  <2> HIDE DEF m, stage
  <2>2. InStage(stage, r, m, rules)
    BY <1>1, <1>6, <2>1 DEF InStage
  <2> QED
    BY <1>1, <1>2, <2>1, <2>2, SameRules DEF StepTyped, OthersStay, ClientsTyped, Stages
<1> QED
  BY <1>4, <1>5, <1>6, RequestKind

\* What update() has read and foreseen, as it goes on from find.
Read(c) ==
  [mem[c] EXCEPT
     !.existing = IdentityOf(rules[req[c].rule].parent, rules[req[c].rule].conds),
     !.want = IdentityOf(Override(req[c].patch, rules[req[c].rule].parent),
                         computeFinalConditions(rules[req[c].rule].conds, req[c].conds)),
     !.at = 1]

LEMMA FindStep ==
  ASSUME TypeInv, NEW c \in Clients, Find(c)
  PROVE  /\ rules' = rules /\ UpdateOf(req[c], mem[c], rules) /\ pc[c] = "find"
         /\ mem[c] = [Blank EXCEPT !.rule = req[c].rule]
         /\ \/ ~rules[req[c].rule].live /\ Ends(c)
            \/ /\ rules[req[c].rule].live
               /\ Goes(c, pc'[c], Read(c))
               /\ Read(c).existing
                    = IdentityOf(rules[req[c].rule].parent, rules[req[c].rule].conds)
               /\ Read(c).want
                    = IdentityOf(Override(req[c].patch, rules[req[c].rule].parent),
                                 computeFinalConditions(rules[req[c].rule].conds,
                                                        req[c].conds))
               /\ Read(c).rule = mem[c].rule /\ Read(c).at = 1 /\ Predicted(Read(c))
               /\ \/ /\ pc'[c] = "check"
                     /\ req[c].given \/ {"event", "service"} \cap DOMAIN req[c].patch # {}
                  \/ /\ pc'[c] \in {"parent", "op", "reload"}
                     /\ ~req[c].given /\ {"event", "service"} \cap DOMAIN req[c].patch = {}
                     /\ pc'[c] = "parent" \/ DOMAIN req[c].patch = {}
                     /\ pc'[c] = "op" => Ops(req[c]) # <<>>
                     /\ pc'[c] = "reload" => Ops(req[c]) = <<>>
<1>1. /\ InStage(pc[c], req[c], mem[c], rules) /\ pc[c] = "find" /\ rules' = rules
      /\ rules \in Seq(Rule) /\ ClientsTyped /\ mem[c] \in Locals
  BY DEF Find, TypeInv, ClientsTyped
<1>2. UpdateOf(req[c], mem[c], rules) /\ mem[c] = [Blank EXCEPT !.rule = req[c].rule]
  BY <1>1 DEF InStage
<1>3. PICK r \in Requests : r = req[c] /\ r.kind = "update" /\ r.rule \in DOMAIN rules
  BY <1>2 DEF UpdateOf
<1>4. PICK rule \in Rule : rule = rules[r.rule]
  BY <1>1, <1>3, Member
<1>5. computeFinalConditions(rule.conds, r.conds) \in Rows
  <2>1. Len(r.conds) \in Nat /\ \A k \in 1..Len(r.conds) : IsConditionOp(r.conds[k])
    BY <1>3, RequestOps
  <2>2. rule.conds \in Rows
    BY RuleFields
  <2> QED
    BY <2>1, <2>2, FinalRows
<1>6. Override(r.patch, rule.parent) \in Parent
  BY <1>3, RuleFields, RequestKind
<1> DEFINE existing == IdentityOf(rule.parent, rule.conds)
           want == IdentityOf(Override(r.patch, rule.parent),
                              computeFinalConditions(rule.conds, r.conds))
           stage == IF r.given \/ {"event", "service"} \cap DOMAIN r.patch # {} THEN "check"
                    ELSE IF DOMAIN r.patch # {} THEN "parent"
                    ELSE IF Ops(r) # <<>> THEN "op" ELSE "reload"
<1>7. existing \in Identity /\ want \in Identity
  BY <1>5, <1>6, RuleFields, IdentityType
<1> DEFINE l == Read(c)
<1>8. PICK m \in Locals :
        m = mem[c] /\ l = [m EXCEPT !.existing = existing, !.want = want, !.at = 1]
  BY <1>1, <1>3, <1>4 DEF Read
<1>9. ~rules[req[c].rule].live \/ GoTo(c, stage, Read(c))
  BY <1>3, <1>4 DEF Find, Read
<1>10. stage \in Stages
  BY DEF Stages
<1> HIDE DEF existing, want, stage, l
<1>11. /\ l \in Locals /\ l.existing = existing /\ l.want = want
       /\ l.rule = m.rule /\ l.at = 1
  BY <1>7, <1>8 DEF Locals
<1>12. CASE ~rules[req[c].rule].live
  <2>1. Finish(c)
    BY <1>12 DEF Find
  <2> QED
    BY <1>1, <1>2, <1>12, <2>1, FinishStep
<1>13. CASE rules[req[c].rule].live
  <2>1. Goes(c, stage, Read(c)) /\ pc'[c] = stage
    BY <1>1, <1>9, <1>10, <1>11, <1>13, GoToStep DEF Goes, l
  <2> QED
    BY <1>1, <1>2, <1>3, <1>4, <1>7, <1>8, <1>11, <1>13, <2>1
       DEF Predicted, existing, want, stage, l
<1> QED
  BY <1>12, <1>13

LEMMA FindTyped ==
  ASSUME TypeInv, NEW c \in Clients, Find(c)
  PROVE  StepTyped(c) /\ rules' = rules
<1>1. rules' = rules /\ rules' \in Seq(Rule) /\ Grown(rules')
  BY FindStep, SameRules DEF TypeInv
<1>2. CASE Ends(c)
  BY <1>1, <1>2, EndsTyped DEF StepTyped
<1>3. CASE Goes(c, pc'[c], Read(c))
  <2>1. PICK m \in Locals : m = mem'[c]
    BY <1>3 DEF Goes, ClientsTyped
  <2>2. CASE ~Ends(c)
    <3>1. /\ m.rule = mem[c].rule /\ m.at = 1 /\ Predicted(m)
          /\ UpdateOf(req[c], mem[c], rules)
          /\ pc'[c] \in {"check", "parent", "op", "reload"}
          /\ pc'[c] = "op" => Ops(req[c]) # <<>>
      BY <1>3, <2>1, <2>2, FindStep DEF Goes
    <3>2. pc'[c] = "op" => 1 \in 1..Len(Ops(req[c]))
      <4>1. PICK r \in Requests : r = req[c] /\ r.kind # "remove"
        BY <3>1 DEF UpdateOf
      <4>2. Len(Ops(r)) \in Nat /\ (Ops(r) # <<>> => Len(Ops(r)) # 0)
        BY <4>1, OpsEmpty
      <4> QED
        BY <3>1, <4>1, <4>2
    <3>3. UpdateOf(req[c], m, rules)
      BY <3>1 DEF UpdateOf
    <3>4. InStage(pc'[c], req[c], m, rules)
      BY <3>1, <3>2, <3>3 DEF InStage
    <3> QED
      BY <1>1, <1>3, <2>1, <3>4 DEF StepTyped, Goes
  <2> QED
    BY <1>2, <2>2
<1> QED
  BY <1>2, <1>3, FindStep

LEMMA CheckStep ==
  ASSUME TypeInv, NEW c \in Clients, CheckDuplicate(c)
  PROVE  /\ StepTyped(c) /\ rules' = rules /\ pc[c] = "check"
         /\ \/ IsDuplicate(c) /\ Ends(c)
            \/ ~IsDuplicate(c) /\ req[c].kind = "create" /\ Goes(c, "insert", mem[c])
            \/ /\ ~IsDuplicate(c) /\ UpdateOf(req[c], mem[c], rules)
               /\ \/ DOMAIN req[c].patch # {} /\ Goes(c, "parent", mem[c])
                  \/ /\ DOMAIN req[c].patch = {}
                     /\ Goes(c, IF 1 <= Len(Ops(req[c])) THEN "op" ELSE "reload",
                             AtOp(mem[c], 1))
<1>1. /\ InStage(pc[c], req[c], mem[c], rules) /\ pc[c] = "check" /\ rules' = rules
      /\ rules \in Seq(Rule) /\ ClientsTyped /\ mem[c] \in Locals
  BY DEF CheckDuplicate, TypeInv, ClientsTyped
<1>2. rules' \in Seq(Rule) /\ Grown(rules')
  BY <1>1, SameRules
<1>3. CASE IsDuplicate(c)
  <2>1. Ends(c)
    BY <1>1, <1>3, FinishStep DEF CheckDuplicate
  <2> QED
    BY <1>1, <1>2, <1>3, <2>1, EndsTyped DEF StepTyped
<1>4. CASE ~IsDuplicate(c) /\ req[c].kind = "create"
  <2>1. Goes(c, "insert", mem[c])
    BY <1>1, <1>4, GoToStep DEF CheckDuplicate, Stages
  <2>2. InStage("insert", req[c], mem[c], rules)
    BY <1>1, <1>4 DEF InStage, UpdateOf
  <2> QED
    BY <1>1, <1>2, <1>4, <2>1, <2>2 DEF StepTyped, Goes
<1>5. CASE ~IsDuplicate(c) /\ req[c].kind # "create"
  <2>1. UpdateOf(req[c], mem[c], rules) /\ Predicted(mem[c])
    BY <1>1, <1>5 DEF InStage
  <2>2. CASE DOMAIN req[c].patch # {}
    <3>1. Goes(c, "parent", mem[c])
      BY <1>1, <1>5, <2>2, GoToStep DEF CheckDuplicate, Stages
    <3>2. InStage("parent", req[c], mem[c], rules)
      BY <2>1 DEF InStage
    <3> QED
      BY <1>1, <1>2, <1>5, <2>1, <2>2, <3>1, <3>2 DEF StepTyped, Goes
  <2>3. CASE DOMAIN req[c].patch = {}
    <3>1. GoToOp(c, 1)
      BY <1>5, <2>3 DEF CheckDuplicate
    <3>2. PICK m \in Locals :
            /\ m = AtOp(mem[c], 1)
            /\ Goes(c, IF 1 <= Len(Ops(req[c])) THEN "op" ELSE "reload", m)
            /\ m.rule = mem[c].rule /\ m.at = 1 /\ Predicted(m)
      BY <1>1, <2>1, <3>1, GoToOpStep DEF Predicted
    <3>3. UpdateOf(req[c], m, rules)
      BY <2>1, <3>2 DEF UpdateOf
    <3>4. Len(Ops(req[c])) \in Nat
      BY <2>1, OpsEmpty DEF UpdateOf
    <3>5. InStage(pc'[c], req[c], m, rules)
      BY <3>2, <3>3, <3>4 DEF InStage, Goes
    <3> QED
      BY <1>1, <1>2, <1>5, <2>1, <2>3, <3>2, <3>5 DEF StepTyped, Goes
  <2> QED
    BY <2>2, <2>3
<1> QED
  BY <1>3, <1>4, <1>5

NewRule(r) ==
  [parent |-> r.patch, live |-> TRUE,
   conds |-> [k \in DOMAIN r.conds |-> [shape |-> Stored(r.conds[k].put), live |-> TRUE]],
   acts |-> [k \in DOMAIN r.acts |-> NewAction(r.acts[k])]]

LEMMA NewRuleType ==
  ASSUME NEW r \in Requests, r.kind = "create"
  PROVE  NewRule(r) \in Rule
<1>1. PICK m \in Nat, n \in Nat : DOMAIN r.conds = 1..m /\ DOMAIN r.acts = 1..n
  BY RequestOps
<1>2. ASSUME NEW k \in 1..m
      PROVE  [shape |-> Stored(r.conds[k].put), live |-> TRUE] \in ConditionRow
  <2>1. r.conds[k].put \in Shape
    BY <1>1, RequestKind, CreatedStorable DEF IsConditionOp
  <2>2. Stored(r.conds[k].put) \in Shape
    BY <2>1, StoredShape
  <2> QED
    BY <2>2 DEF ConditionRow
<1>3. \A k \in 1..n : NewAction(r.acts[k]) \in ActionRow
  BY <1>1, RequestKind, CreatedAction
<1>4. /\ NewRule(r).conds \in [1..m -> ConditionRow]
      /\ NewRule(r).acts \in [1..n -> ActionRow]
  BY <1>1, <1>2, <1>3 DEF NewRule
<1>5. NewRule(r).conds \in Seq(ConditionRow) /\ NewRule(r).acts \in Seq(ActionRow)
  BY <1>4, SeqDef
<1>6. r.patch \in Parent
  BY RequestKind
<1> QED
  BY <1>5, <1>6 DEF NewRule, Rule

LEMMA InsertStep ==
  ASSUME TypeInv, NEW c \in Clients, Insert(c)
  PROVE  /\ StepTyped(c) /\ pc[c] = "insert"
         /\ req[c] \in Requests /\ req[c].kind = "create"
         /\ rules' = Append(rules, NewRule(req[c])) /\ NewRule(req[c]) \in Rule
         /\ Goes(c, "reload", [mem[c] EXCEPT !.rule = Len(rules) + 1])
<1>1. /\ InStage(pc[c], req[c], mem[c], rules) /\ pc[c] = "insert"
      /\ rules' = Append(rules, NewRule(req[c]))
      /\ rules \in Seq(Rule) /\ ClientsTyped /\ mem[c] \in Locals
      /\ GoTo(c, "reload", [mem[c] EXCEPT !.rule = Len(rules) + 1])
  BY DEF Insert, TypeInv, ClientsTyped, NewRule
<1>2. req[c] \in Requests /\ req[c].kind = "create" /\ mem[c].want \in Identity
      /\ mem[c].existing = Nothing
  BY <1>1 DEF InStage
<1>3. NewRule(req[c]) \in Rule
  BY <1>2, NewRuleType
<1>4. /\ rules' \in Seq(Rule) /\ DOMAIN rules = 1..Len(rules) /\ Len(rules) \in Nat
      /\ DOMAIN rules' = 1..(Len(rules) + 1)
      /\ \A j \in 1..Len(rules) : rules'[j] = rules[j]
  BY <1>1, <1>3, AddMember
<1>5. Grown(rules')
  BY <1>4 DEF Grown
<1>6. PICK m \in Locals : /\ m = [mem[c] EXCEPT !.rule = Len(rules) + 1]
                          /\ m.rule = Len(rules) + 1 /\ m.want = mem[c].want
                          /\ m.existing = mem[c].existing
  BY <1>1, <1>4 DEF Locals
<1>7. Goes(c, "reload", m)
  BY <1>1, <1>6, GoToStep DEF Stages
<1>8. InStage("reload", req[c], m, rules')
  BY <1>2, <1>4, <1>6 DEF InStage
<1> QED
  BY <1>1, <1>2, <1>3, <1>4, <1>5, <1>6, <1>7, <1>8 DEF StepTyped, Goes

LEMMA ParentStep ==
  ASSUME TypeInv, NEW c \in Clients, UpdateParent(c)
  PROVE  /\ StepTyped(c) /\ pc[c] = "parent" /\ UpdateOf(req[c], mem[c], rules)
         /\ \/ /\ rules[mem[c].rule].live
               /\ Override(req[c].patch, rules[mem[c].rule].parent) \in Parent
               /\ Edits(mem[c].rule,
                        [rules[mem[c].rule] EXCEPT
                           !.parent = Override(req[c].patch, rules[mem[c].rule].parent)])
               /\ Goes(c, IF 1 <= Len(Ops(req[c])) THEN "op" ELSE "reload", AtOp(mem[c], 1))
            \/ ~rules[mem[c].rule].live /\ Ends(c) /\ rules' = rules
<1>1. /\ InStage(pc[c], req[c], mem[c], rules) /\ pc[c] = "parent"
      /\ rules \in Seq(Rule) /\ ClientsTyped /\ mem[c] \in Locals
  BY DEF UpdateParent, TypeInv, ClientsTyped
<1>2. UpdateOf(req[c], mem[c], rules) /\ Predicted(mem[c])
  BY <1>1 DEF InStage
<1>3. PICK i \in DOMAIN rules : i = mem[c].rule
  BY <1>2 DEF UpdateOf
<1>4. rules[i] \in Rule
  BY <1>1, Member
<1>5. CASE ~rules[i].live
  <2>1. Finish(c) /\ rules' = rules
    BY <1>3, <1>5 DEF UpdateParent
  <2>2. Ends(c)
    BY <1>1, <2>1, FinishStep
  <2> QED
    BY <1>1, <1>2, <1>3, <1>5, <2>1, <2>2, EndsTyped, SameRules DEF StepTyped
<1>6. CASE rules[i].live
  <2> DEFINE parent == Override(req[c].patch, rules[i].parent)
             rule == [rules[i] EXCEPT !.parent = parent]
  <2>1. rules' = [rules EXCEPT ![i] = rule] /\ GoToOp(c, 1)
    BY <1>3, <1>6 DEF UpdateParent
  <2>2. parent \in Parent
    BY <1>2, <1>4, RuleFields, RequestKind DEF UpdateOf
  <2>3. Edits(i, rule) /\ rule.conds = rules[i].conds /\ rule.acts = rules[i].acts
    <3> HIDE DEF parent
    <3>1. rule \in Rule /\ rule.conds = rules[i].conds /\ rule.acts = rules[i].acts
      BY <1>4, <2>2 DEF Rule
    <3> QED
      BY <2>1, <3>1 DEF Edits
  <2> HIDE DEF parent, rule
  <2>4. rules' \in Seq(Rule) /\ Grown(rules')
    BY <1>1, <2>3, EditStep
  <2>5. PICK m \in Locals :
          /\ m = AtOp(mem[c], 1)
          /\ Goes(c, IF 1 <= Len(Ops(req[c])) THEN "op" ELSE "reload", m)
          /\ m.rule = mem[c].rule /\ m.at = 1 /\ Predicted(m)
    BY <1>1, <1>2, <2>1, GoToOpStep DEF Predicted
  <2>6. UpdateOf(req[c], m, rules')
    BY <1>2, <2>4, <2>5 DEF UpdateOf, Grown
  <2>7. Len(Ops(req[c])) \in Nat
    BY <1>2, OpsEmpty DEF UpdateOf
  <2>8. InStage(pc'[c], req[c], m, rules')
    BY <2>5, <2>6, <2>7 DEF InStage, Goes
  <2>9. StepTyped(c)
    BY <2>4, <2>5, <2>8 DEF StepTyped, Goes
  <2> QED
    BY <1>1, <1>2, <1>3, <1>6, <2>2, <2>3, <2>5, <2>9 DEF parent, rule
<1> QED
  BY <1>5, <1>6

(* A statement that writes the conditions, or the actions, of one rule.    *)
WritesConds(i, rows) ==
  rows \in Seq(ConditionRow) /\ Edits(i, [rules[i] EXCEPT !.conds = rows])
WritesActs(i, rows) ==
  rows \in Seq(ActionRow) /\ Edits(i, [rules[i] EXCEPT !.acts = rows])

LEMMA WriteStep ==
  ASSUME rules \in Seq(Rule), NEW i \in DOMAIN rules, NEW rows
  PROVE  /\ /\ rows \in Seq(ConditionRow)
            /\ rules' = [rules EXCEPT ![i] = [rules[i] EXCEPT !.conds = rows]]
            => WritesConds(i, rows)
         /\ /\ rows \in Seq(ActionRow)
            /\ rules' = [rules EXCEPT ![i] = [rules[i] EXCEPT !.acts = rows]]
            => WritesActs(i, rows)
         /\ WritesConds(i, rows) =>
              /\ rules' \in Seq(Rule) /\ DOMAIN rules' = DOMAIN rules
              /\ \A j \in DOMAIN rules \ {i} : rules'[j] = rules[j]
              /\ rules'[i].conds = rows /\ rules'[i].acts = rules[i].acts
              /\ rules'[i].live = rules[i].live /\ rules'[i].parent = rules[i].parent
              /\ DOMAIN rules[i].conds \subseteq DOMAIN rows => Grown(rules')
         /\ WritesActs(i, rows) =>
              /\ rules' \in Seq(Rule) /\ DOMAIN rules' = DOMAIN rules
              /\ \A j \in DOMAIN rules \ {i} : rules'[j] = rules[j]
              /\ rules'[i].acts = rows /\ rules'[i].conds = rules[i].conds
              /\ rules'[i].live = rules[i].live /\ rules'[i].parent = rules[i].parent
              /\ DOMAIN rules[i].acts \subseteq DOMAIN rows => Grown(rules')
<1>1. PICK old \in Rule : old = rules[i]
  BY Member
<1>2. /\ rows \in Seq(ConditionRow) => [old EXCEPT !.conds = rows] \in Rule
      /\ rows \in Seq(ActionRow) => [old EXCEPT !.acts = rows] \in Rule
      /\ [old EXCEPT !.conds = rows].conds = rows /\ [old EXCEPT !.conds = rows].acts = old.acts
      /\ [old EXCEPT !.conds = rows].live = old.live
      /\ [old EXCEPT !.conds = rows].parent = old.parent
      /\ [old EXCEPT !.acts = rows].acts = rows /\ [old EXCEPT !.acts = rows].conds = old.conds
      /\ [old EXCEPT !.acts = rows].live = old.live
      /\ [old EXCEPT !.acts = rows].parent = old.parent
  BY DEF Rule
<1>3. PICK cs, as : cs = [old EXCEPT !.conds = rows] /\ as = [old EXCEPT !.acts = rows]
  OBVIOUS
<1>4. /\ WritesConds(i, rows) <=> rows \in Seq(ConditionRow) /\ Edits(i, cs)
      /\ WritesActs(i, rows) <=> rows \in Seq(ActionRow) /\ Edits(i, as)
  BY <1>1, <1>3 DEF WritesConds, WritesActs
<1>5. /\ rows \in Seq(ConditionRow) /\ rules' = [rules EXCEPT ![i] = cs] => Edits(i, cs)
      /\ rows \in Seq(ActionRow) /\ rules' = [rules EXCEPT ![i] = as] => Edits(i, as)
  BY <1>2, <1>3 DEF Edits
<1> QED
  BY ZenonT(40), <1>1, <1>2, <1>3, <1>4, <1>5, EditStep

LEMMA DeleteConditionStep ==
  ASSUME TypeInv, NEW c \in Clients, DeleteCondition(c)
  PROVE  /\ StepTyped(c) /\ NextOp(c) /\ OnCondition(c) /\ Op(c).do = "delete"
         /\ WritesConds(mem[c].rule, Marked(rules[mem[c].rule].conds, {Op(c).id}))
<1>1. /\ rules \in Seq(Rule) /\ OnCondition(c) /\ pc[c] = "op" /\ NextOp(c) /\ Op(c).do = "delete"
  BY DEF DeleteCondition, TypeInv, OnCondition
<1>2. PICK i \in DOMAIN rules : i = mem[c].rule /\ rules[i] \in Rule
  BY <1>1, AtOperation DEF UpdateOf
<1> DEFINE rows == Marked(rules[i].conds, {Op(c).id})
<1>3. rules' = [rules EXCEPT ![i] = [rules[i] EXCEPT !.conds = rows]]
  BY <1>2 DEF DeleteCondition
<1>4. rows \in Seq(ConditionRow) /\ DOMAIN rows = DOMAIN rules[i].conds
  BY <1>2, RuleFields, MarkedRows
<1> HIDE DEF rows
<1>5. WritesConds(i, rows) /\ rules' \in Seq(Rule) /\ Grown(rules')
  BY <1>1, <1>3, <1>4, WriteStep
<1>6. StepTyped(c)
  BY <1>1, <1>5, NextOpStep DEF StepTyped
<1> QED
  BY <1>1, <1>2, <1>5, <1>6 DEF rows

LEMMA CreateConditionStep ==
  ASSUME TypeInv, NEW c \in Clients, CreateCondition(c)
  PROVE  /\ StepTyped(c) /\ NextOp(c) /\ OnCondition(c) /\ Op(c).do = "create"
         /\ Op(c).put \in Shape /\ Storable(Op(c).put)
         /\ WritesConds(mem[c].rule, Append(rules[mem[c].rule].conds,
                                            [shape |-> Op(c).put, live |-> TRUE]))
<1>1. /\ rules \in Seq(Rule) /\ OnCondition(c) /\ pc[c] = "op" /\ NextOp(c) /\ Op(c).do = "create"
      /\ mem[c].at <= Len(req[c].conds)
  BY DEF CreateCondition, TypeInv, OnCondition
<1>2. PICK i \in DOMAIN rules : i = mem[c].rule /\ rules[i] \in Rule
  BY <1>1, AtOperation DEF UpdateOf
<1>3. Op(c).put \in Shape /\ Storable(Op(c).put)
  BY <1>1, AtOperation, CreatedStorable DEF IsConditionOp
<1>9. PICK put \in Shape : put = Op(c).put
  BY <1>3
<1> DEFINE row == [shape |-> put, live |-> TRUE]
           rows == Append(rules[i].conds, row)
<1>4. row \in ConditionRow /\ row = [shape |-> Op(c).put, live |-> TRUE]
  BY <1>9, RowFields DEF ConditionRow
<1>5. rules' = [rules EXCEPT ![i] = [rules[i] EXCEPT !.conds = rows]]
  BY <1>2, <1>3, <1>9 DEF CreateCondition, Storable
<1> HIDE DEF row
<1>6. rows \in Seq(ConditionRow) /\ DOMAIN rules[i].conds \subseteq DOMAIN rows
  BY <1>2, <1>4, RuleFields, AddMember
<1> HIDE DEF rows
<1>7. WritesConds(i, rows) /\ rules' \in Seq(Rule) /\ Grown(rules')
  BY <1>1, <1>5, <1>6, WriteStep
<1>8. StepTyped(c)
  BY <1>1, <1>7, NextOpStep DEF StepTyped
<1> QED
  BY <1>1, <1>2, <1>3, <1>4, <1>7, <1>8 DEF rows

LEMMA FindConditionStep ==
  ASSUME TypeInv, NEW c \in Clients, FindCondition(c)
  PROVE  /\ StepTyped(c) /\ rules' = rules /\ OnCondition(c) /\ Op(c).do = "update"
         /\ \/ ~IsLiveRow(rules[mem[c].rule].conds, Op(c).id) /\ Ends(c)
            \/ /\ IsLiveRow(rules[mem[c].rule].conds, Op(c).id)
               /\ rules[mem[c].rule].conds[Op(c).id] \in ConditionRow
               /\ \E m \in Locals :
                    /\ m.merged = Stored(Override(Op(c).put,
                                           rules[mem[c].rule].conds[Op(c).id].shape))
                    /\ Override(Op(c).put, rules[mem[c].rule].conds[Op(c).id].shape) \in Shape
                    /\ m.rule = mem[c].rule /\ m.at = mem[c].at /\ m.want = mem[c].want
                    /\ m.existing = mem[c].existing
                    /\ Goes(c, "rewrite", m)
<1>1. /\ rules \in Seq(Rule) /\ OnCondition(c) /\ pc[c] = "op" /\ Op(c).do = "update"
      /\ mem[c].at <= Len(req[c].conds) /\ rules' = rules /\ ClientsTyped
      /\ InStage(pc[c], req[c], mem[c], rules)
  BY DEF FindCondition, TypeInv, OnCondition
<1>2. PICK i \in DOMAIN rules : i = mem[c].rule /\ rules[i] \in Rule
  BY <1>1, AtOperation DEF UpdateOf
<1>3. rules' \in Seq(Rule) /\ Grown(rules')
  BY <1>1, SameRules
<1>4. CASE ~IsLiveRow(rules[i].conds, Op(c).id)
  <2>1. Ends(c)
    BY SMTT(30), <1>1, <1>2, <1>4, FinishStep DEF FindCondition
  <2> QED
    BY <1>1, <1>2, <1>3, <1>4, <2>1, EndsTyped DEF StepTyped
<1>5. CASE IsLiveRow(rules[i].conds, Op(c).id)
  <2>1. PICK old \in ConditionRow : old = rules[i].conds[Op(c).id]
    BY <1>2, <1>5, RuleFields, Member DEF IsLiveRow
  <2> DEFINE s == Override(Op(c).put, old.shape)
  <2>2. s \in Shape
    BY <1>1, <2>1, AtOperation DEF IsConditionOp, ConditionRow
  <2> HIDE DEF s
  <2>3. PICK t \in Shape : t = Stored(s)
    BY <2>2, StoredShape
  <2>4. PICK l \in Locals : l = mem[c]
    BY <1>1, AtOperation
  <2> DEFINE m == [l EXCEPT !.merged = t]
  <2>5. GoTo(c, "rewrite", m)
    BY <1>2, <1>5, <2>1, <2>3, <2>4 DEF FindCondition, s
  <2>9. /\ m \in Locals /\ m.merged = t /\ m.rule = l.rule /\ m.at = l.at
        /\ m.want = l.want /\ m.existing = l.existing
    BY DEF Locals
  <2> HIDE DEF m
  <2>6. Goes(c, "rewrite", m)
    BY <1>1, <2>5, <2>9, GoToStep DEF Stages
  <2>7. /\ UpdateOf(req[c], m, rules) /\ Predicted(m) /\ m.at \in 1..Len(req[c].conds)
        /\ req[c].conds[m.at].do = "update" /\ req[c].conds[m.at].id \in DOMAIN rules[m.rule].conds
    <3>1. /\ UpdateOf(req[c], mem[c], rules) /\ Predicted(mem[c])
          /\ mem[c].at \in 1..Len(Ops(req[c])) /\ mem[c].at <= Len(req[c].conds)
          /\ Len(req[c].conds) \in Nat /\ Len(Ops(req[c])) \in Nat
          /\ Op(c) = req[c].conds[mem[c].at]
      BY <1>1, AtOperation
    <3>2. Op(c).id \in DOMAIN rules[m.rule].conds
      BY <1>2, <1>5, <2>4, <2>9 DEF IsLiveRow
    <3> QED
      BY <1>1, <2>4, <2>9, <3>1, <3>2 DEF UpdateOf, Predicted
  <2>8. InStage("rewrite", req[c], m, rules)
    BY <2>9, <2>7 DEF InStage
  <2> QED
    BY <1>1, <1>2, <1>3, <1>5, <2>1, <2>2, <2>3, <2>4, <2>9, <2>6, <2>8 DEF StepTyped, Goes, s
<1> QED
  BY <1>2, <1>4, <1>5

LEMMA RewriteConditionStep ==
  ASSUME TypeInv, NEW c \in Clients, RewriteCondition(c)
  PROVE  /\ StepTyped(c) /\ NextOp(c) /\ pc[c] = "rewrite" /\ Op(c).do = "update"
         /\ Op(c) = req[c].conds[mem[c].at] /\ mem[c].merged \in Shape
         /\ \/ ~IsLiveRow(rules[mem[c].rule].conds, Op(c).id) /\ rules' = rules
            \/ /\ IsLiveRow(rules[mem[c].rule].conds, Op(c).id)
               /\ WritesConds(mem[c].rule,
                    [rules[mem[c].rule].conds EXCEPT ![Op(c).id] =
                       [rules[mem[c].rule].conds[Op(c).id] EXCEPT !.shape = mem[c].merged]])
<1>1. /\ rules \in Seq(Rule) /\ pc[c] = "rewrite" /\ NextOp(c)
      /\ InStage(pc[c], req[c], mem[c], rules)
  BY DEF RewriteCondition, TypeInv
<1>2. /\ mem[c].merged \in Shape /\ req[c].conds[mem[c].at].do = "update"
      /\ mem[c].at <= Len(req[c].conds) /\ Op(c) = req[c].conds[mem[c].at]
  BY <1>1, AtOperation DEF InStage
<1>3. PICK i \in DOMAIN rules : i = mem[c].rule /\ rules[i] \in Rule
  BY SMTT(30), <1>1, AtOperation DEF UpdateOf
<1>4. CASE ~IsLiveRow(rules[i].conds, Op(c).id)
  <2>1. rules' = rules
    BY <1>3, <1>4 DEF RewriteCondition
  <2>2. rules' \in Seq(Rule) /\ Grown(rules')
    BY SMTT(30), <1>1, <2>1, SameRules
  <2> QED
    BY <1>1, <1>2, <1>3, <1>4, <2>1, <2>2, NextOpStep DEF StepTyped
<1>5. CASE IsLiveRow(rules[i].conds, Op(c).id)
  <2> DEFINE k == Op(c).id
             old == rules[i].conds
             row == [old[k] EXCEPT !.shape = mem[c].merged]
             rows == [old EXCEPT ![k] = row]
  <2>1. old \in Seq(ConditionRow)
    BY <1>3, RuleFields
  <2>2. rules' = [rules EXCEPT ![i] = [rules[i] EXCEPT !.conds = rows]]
    BY <1>3, <1>5 DEF RewriteCondition
  <2>3. old[k] \in ConditionRow
    <3>1. k \in DOMAIN old
      BY <1>5 DEF IsLiveRow
    <3> HIDE DEF k, old
    <3> QED
      BY <2>1, <3>1, Member
  <2>4. row \in ConditionRow
    <3> HIDE DEF k, old
    <3> QED
      BY <1>2, <2>3 DEF ConditionRow
  <2>5. rows \in Seq(ConditionRow) /\ DOMAIN rows = DOMAIN old
    <3> HIDE DEF k, old, row
    <3> QED
      BY <2>1, <2>4, PutMember
  <2> HIDE DEF rows
  <2>6. WritesConds(i, rows) /\ rules' \in Seq(Rule) /\ Grown(rules')
    BY <1>1, <2>2, <2>5, WriteStep
  <2>7. StepTyped(c)
    BY <1>1, <2>6, NextOpStep DEF StepTyped
  <2> QED
    BY <1>1, <1>2, <1>3, <1>5, <2>6, <2>7 DEF rows
<1> QED
  BY <1>3, <1>4, <1>5

LEMMA DeleteActionStep ==
  ASSUME TypeInv, NEW c \in Clients, DeleteAction(c)
  PROVE  /\ StepTyped(c) /\ NextOp(c) /\ OnAction(c) /\ Op(c).do = "delete"
         /\ \/ Op(c).of # mem[c].rule /\ rules' = rules
            \/ /\ Op(c).of # mem[c].rule
               /\ WritesActs(Op(c).of, ConfigsMarked(rules[Op(c).of].acts, {Op(c).id}))
            \/ /\ Op(c).of = mem[c].rule
               /\ WritesActs(mem[c].rule, Marked(ConfigsMarked(rules[mem[c].rule].acts,
                                                               {Op(c).id}), {Op(c).id}))
<1>1. /\ rules \in Seq(Rule) /\ OnAction(c) /\ pc[c] = "op" /\ NextOp(c) /\ Op(c).do = "delete"
  BY DEF DeleteAction, TypeInv, OnAction
<1>2. PICK i \in DOMAIN rules : i = mem[c].rule /\ rules[i] \in Rule
  BY <1>1, AtOperation DEF UpdateOf
<1>3. PICK of, ids : of = Op(c).of /\ ids = {Op(c).id}
  OBVIOUS
<1> DEFINE configs == [rules EXCEPT ![of] =
                         [rules[of] EXCEPT !.acts = ConfigsMarked(rules[of].acts, ids)]]
<1>4. /\ of = i => rules' = [configs EXCEPT ![i] =
                              [configs[i] EXCEPT !.acts = Marked(configs[i].acts, ids)]]
      /\ of # i => rules' = configs
  BY <1>2, <1>3 DEF DeleteAction
<1>5. ASSUME of \notin DOMAIN rules
      PROVE  of # i /\ rules' = rules
  <2>1. PICK n \in Nat : rules \in [1..n -> Rule]
    BY <1>1, LenProperties
  <2>2. configs = rules
    BY <1>5, <2>1
  <2> QED
    BY <1>2, <1>4, <1>5, <2>2
<1>6. ASSUME of \in DOMAIN rules, of # i
      PROVE  WritesActs(of, ConfigsMarked(rules[of].acts, ids)) /\ Grown(rules')
  <2> DEFINE rows == ConfigsMarked(rules[of].acts, ids)
  <2>1. rules[of] \in Rule
    BY <1>1, <1>6, Member
  <2>2. rows \in Seq(ActionRow) /\ DOMAIN rows = DOMAIN rules[of].acts
    BY <2>1, RuleFields, MarkedActions
  <2>3. rules' = [rules EXCEPT ![of] = [rules[of] EXCEPT !.acts = rows]]
    BY <1>4, <1>6
  <2> HIDE DEF rows
  <2>4. WritesActs(of, rows) /\ Grown(rules')
    BY <1>1, <1>6, <2>2, <2>3, WriteStep
  <2> QED
    BY <2>4 DEF rows
<1>7. ASSUME of = i
      PROVE  WritesActs(i, Marked(ConfigsMarked(rules[i].acts, ids), ids)) /\ Grown(rules')
  <2> DEFINE some == ConfigsMarked(rules[i].acts, ids)
             rows == Marked(some, ids)
  <2>1. some \in Seq(ActionRow) /\ DOMAIN some = DOMAIN rules[i].acts
    BY <1>2, RuleFields, MarkedActions
  <2>2. rows \in Seq(ActionRow) /\ DOMAIN rows = DOMAIN rules[i].acts
    BY <2>1, MarkedActions
  <2>3. rules' = [rules EXCEPT ![i] = [rules[i] EXCEPT !.acts = rows]]
    <3>1. PICK n \in Nat : rules \in [1..n -> Rule]
      BY <1>1, LenProperties
    <3>2. PICK old \in Rule : old = rules[i]
      BY <1>2
    <3>3. configs = [rules EXCEPT ![i] = [old EXCEPT !.acts = some]]
      BY <1>7, <3>2
    <3> HIDE DEF some
    <3>4. PICK one : one = [old EXCEPT !.acts = some]
      OBVIOUS
    <3>5. one.acts = some /\ [one EXCEPT !.acts = rows] = [old EXCEPT !.acts = rows]
      BY <3>4 DEF Rule
    <3>6. configs = [rules EXCEPT ![i] = one] /\ configs[i] = one
      BY <1>2, <3>1, <3>3, <3>4
    <3>7. rules' = [configs EXCEPT ![i] = [one EXCEPT !.acts = rows]]
      BY <1>4, <1>7, <3>5, <3>6
    <3> HIDE DEF configs, rows
    <3>8. rules' = [rules EXCEPT ![i] = [one EXCEPT !.acts = rows]]
      BY <3>1, <3>6, <3>7
    <3> QED
      BY <3>2, <3>5, <3>8
  <2> HIDE DEF rows
  <2>4. WritesActs(i, rows) /\ Grown(rules')
    BY <1>1, <2>2, <2>3, WriteStep
  <2> QED
    BY <2>4 DEF rows
<1>8. rules' \in Seq(Rule) /\ Grown(rules')
  BY <1>1, <1>5, <1>6, <1>7, SameRules, WriteStep
<1>9. StepTyped(c)
  BY <1>1, <1>8, NextOpStep DEF StepTyped
<1> QED
  BY <1>1, <1>2, <1>3, <1>5, <1>6, <1>7, <1>9

LEMMA CreateActionStep ==
  ASSUME TypeInv, NEW c \in Clients, CreateAction(c)
  PROVE  /\ StepTyped(c) /\ NextOp(c) /\ OnAction(c) /\ Op(c).do = "create"
         /\ IsActionOp(Op(c))
         /\ WritesActs(mem[c].rule, Append(rules[mem[c].rule].acts, NewAction(Op(c))))
<1>1. /\ rules \in Seq(Rule) /\ OnAction(c) /\ pc[c] = "op" /\ NextOp(c) /\ Op(c).do = "create"
      /\ mem[c].at > Len(req[c].conds)
  BY DEF CreateAction, TypeInv, OnAction
<1>2. PICK i \in DOMAIN rules : i = mem[c].rule /\ rules[i] \in Rule
  BY <1>1, AtOperation DEF UpdateOf
<1>3. IsActionOp(Op(c))
  BY <1>1, AtOperation
<1>4. PICK row \in ActionRow : row = NewAction(Op(c))
  BY <1>3, CreatedAction
<1> DEFINE rows == Append(rules[i].acts, row)
<1>5. rules' = [rules EXCEPT ![i] = [rules[i] EXCEPT !.acts = rows]]
  BY <1>2, <1>4 DEF CreateAction
<1>6. rows \in Seq(ActionRow) /\ DOMAIN rules[i].acts \subseteq DOMAIN rows
  BY <1>2, <1>4, RuleFields, AddMember
<1> HIDE DEF rows
<1>7. WritesActs(i, rows) /\ rules' \in Seq(Rule) /\ Grown(rules')
  BY <1>1, <1>5, <1>6, WriteStep
<1>8. StepTyped(c)
  BY <1>1, <1>7, NextOpStep DEF StepTyped
<1> QED
  BY <1>1, <1>2, <1>3, <1>4, <1>7, <1>8 DEF rows

LEMMA FindActionStep ==
  ASSUME TypeInv, NEW c \in Clients, FindAction(c)
  PROVE  /\ StepTyped(c) /\ rules' = rules /\ OnAction(c) /\ Op(c).do = "update"
         /\ \/ Ends(c)
            \/ /\ Op(c).kind = "notification" /\ Goes(c, "config", mem[c])
            \/ /\ Op(c).kind # "notification" /\ Goes(c, "write", mem[c])
<1>1. /\ rules \in Seq(Rule) /\ OnAction(c) /\ pc[c] = "op" /\ Op(c).do = "update"
      /\ mem[c].at > Len(req[c].conds) /\ rules' = rules /\ ClientsTyped
      /\ InStage(pc[c], req[c], mem[c], rules)
  BY DEF FindAction, TypeInv, OnAction
<1>2. /\ UpdateOf(req[c], mem[c], rules) /\ Predicted(mem[c]) /\ mem[c] \in Locals
      /\ mem[c].at \in (Len(req[c].conds) + 1)..Len(Ops(req[c]))
  BY <1>1, AtOperation
<1>3. rules' \in Seq(Rule) /\ Grown(rules')
  BY <1>1, SameRules
<1> DEFINE found == /\ Op(c).of = mem[c].rule
                    /\ IsLiveRow(rules[mem[c].rule].acts, Op(c).id)
                    /\ rules[mem[c].rule].acts[Op(c).id].kind = Op(c).kind
<1>4. CASE ~found
  <2>1. Ends(c)
    BY <1>1, <1>4, FinishStep DEF FindAction
  <2> QED
    BY <1>1, <1>3, <2>1, EndsTyped DEF StepTyped
<1>5. CASE found
  <2>1. PICK stage \in {"config", "write"} :
           /\ stage = IF Op(c).kind = "notification" THEN "config" ELSE "write"
           /\ GoTo(c, stage, mem[c])
    BY <1>5 DEF FindAction
  <2>2. Goes(c, stage, mem[c])
    BY <1>1, <1>2, <2>1, GoToStep DEF Stages
  <2>3. InStage(stage, req[c], mem[c], rules)
    BY <1>1, <1>2, <1>5, <2>1 DEF InStage, IsLiveRow, Op
  <2> QED
    BY <1>1, <1>3, <2>1, <2>2, <2>3 DEF StepTyped, Goes
<1> QED
  BY <1>4, <1>5

LEMMA FindConfigStep ==
  ASSUME TypeInv, NEW c \in Clients, FindConfig(c)
  PROVE  /\ StepTyped(c) /\ rules' = rules /\ pc[c] = "config"
         /\ \/ Ends(c)
            \/ /\ Goes(c, "write", mem[c])
               /\ Op(c).named \/ rules[mem[c].rule].acts[Op(c).id].named =>
                    Op(c).channel \/ rules[mem[c].rule].acts[Op(c).id].channel
<1>1. /\ rules \in Seq(Rule) /\ pc[c] = "config" /\ rules' = rules /\ ClientsTyped
      /\ InStage(pc[c], req[c], mem[c], rules) /\ mem[c] \in Locals
  BY DEF FindConfig, TypeInv, ClientsTyped
<1>2. rules' \in Seq(Rule) /\ Grown(rules')
  BY <1>1, SameRules
<1>3. CASE Finish(c)
  <2>1. Ends(c)
    BY <1>1, <1>3, FinishStep
  <2> QED
    BY <1>1, <1>2, <2>1, EndsTyped DEF StepTyped
<1>4. CASE /\ GoTo(c, "write", mem[c])
           /\ rules[mem[c].rule].acts[Op(c).id].named \/ Op(c).named =>
                rules[mem[c].rule].acts[Op(c).id].channel \/ Op(c).channel
  <2>1. Goes(c, "write", mem[c])
    BY <1>1, <1>4, GoToStep DEF Stages
  <2>2. InStage("write", req[c], mem[c], rules)
    BY <1>1 DEF InStage
  <2> QED
    BY <1>1, <1>2, <1>4, <2>1, <2>2 DEF StepTyped, Goes
<1> QED
  BY <1>3, <1>4 DEF FindConfig

LEMMA WriteConfigStep ==
  ASSUME TypeInv, NEW c \in Clients, WriteConfig(c)
  PROVE  /\ StepTyped(c) /\ NextOp(c) /\ pc[c] = "write" /\ IsActionOp(Op(c))
         /\ Op(c).id \in DOMAIN rules[mem[c].rule].acts
         /\ WritesActs(mem[c].rule,
              [rules[mem[c].rule].acts EXCEPT ![Op(c).id] =
                 [rules[mem[c].rule].acts[Op(c).id] EXCEPT
                    !.named = @ \/ Op(c).named, !.channel = @ \/ Op(c).channel]])
<1>1. /\ rules \in Seq(Rule) /\ pc[c] = "write" /\ NextOp(c)
      /\ InStage(pc[c], req[c], mem[c], rules)
  BY DEF WriteConfig, TypeInv
<1>2. PICK i \in DOMAIN rules : i = mem[c].rule /\ rules[i] \in Rule
  BY <1>1, AtOperation DEF UpdateOf
<1>3. IsActionOp(Op(c))
  BY <1>1, AtOperation
<1>4. PICK k \in DOMAIN rules[i].acts : k = Op(c).id
  BY <1>1, <1>2 DEF InStage, Op
<1>5. PICK n \in BOOLEAN, h \in BOOLEAN : n = Op(c).named /\ h = Op(c).channel
  BY <1>3 DEF IsActionOp
<1>6. PICK rows \in Seq(ActionRow) : rows = rules[i].acts
  BY <1>2, RuleFields
<1>7. PICK old \in ActionRow : old = rows[k]
  BY <1>4, <1>6, Member
<1> DEFINE new == [old EXCEPT !.named = @ \/ n, !.channel = @ \/ h]
           written == [rows EXCEPT ![k] = new]
<1>8. new \in ActionRow
  BY DEF ActionRow
<1>9. rules' = [rules EXCEPT ![i] = [rules[i] EXCEPT !.acts = written]]
  BY <1>2, <1>4, <1>5, <1>6, <1>7 DEF WriteConfig
<1> HIDE DEF new
<1>10. written \in Seq(ActionRow) /\ DOMAIN written = DOMAIN rules[i].acts
  BY <1>6, <1>8, PutMember
<1> HIDE DEF written
<1>11. WritesActs(i, written) /\ rules' \in Seq(Rule) /\ Grown(rules')
  BY <1>1, <1>9, <1>10, WriteStep
<1>12. StepTyped(c)
  BY <1>1, <1>11, NextOpStep DEF StepTyped
<1> QED
  BY <1>1, <1>2, <1>3, <1>4, <1>5, <1>6, <1>7, <1>11, <1>12 DEF written, new

LEMMA ReloadStep ==
  ASSUME TypeInv, NEW c \in Clients, Reload(c) \/ Abort(c)
  PROVE  StepTyped(c) /\ rules' = rules /\ Ends(c)
<1>1. rules' = rules /\ rules \in Seq(Rule) /\ ClientsTyped /\ Finish(c)
  BY DEF Reload, Abort, TypeInv
<1>2. Ends(c) /\ rules' \in Seq(Rule) /\ Grown(rules')
  BY <1>1, FinishStep, SameRules
<1> QED
  BY <1>1, <1>2, EndsTyped DEF StepTyped

LEMMA CollectStep ==
  ASSUME TypeInv, NEW c \in Clients, CollectActions(c)
  PROVE  /\ StepTyped(c) /\ rules' = rules /\ pc[c] = "collect"
         /\ mem[c] \in Locals /\ mem[c].rule \in DOMAIN rules
         /\ Goes(c, "transact", [mem[c] EXCEPT !.collected = DOMAIN rules[mem[c].rule].acts])
<1>1. /\ InStage(pc[c], req[c], mem[c], rules) /\ pc[c] = "collect" /\ rules' = rules
      /\ rules \in Seq(Rule) /\ ClientsTyped /\ mem[c] \in Locals
      /\ GoTo(c, "transact", [mem[c] EXCEPT !.collected = DOMAIN rules[mem[c].rule].acts])
  BY DEF CollectActions, TypeInv, ClientsTyped
<1>2. /\ req[c] \in Requests /\ req[c].kind = "remove" /\ mem[c].rule = req[c].rule
      /\ mem[c].rule \in DOMAIN rules /\ mem[c].want = Nothing /\ mem[c].existing = Nothing
  BY <1>1 DEF InStage
<1>3. PICK ids \in SUBSET Nat : ids = DOMAIN rules[mem[c].rule].acts
  <2>1. rules[mem[c].rule].acts \in Seq(ActionRow)
    BY <1>1, <1>2, Member, RuleFields
  <2> QED
    BY <2>1, LenProperties
<1>4. PICK l \in Locals : l = mem[c]
  BY <1>1
<1> DEFINE m == [l EXCEPT !.collected = ids]
<1>5. /\ m \in Locals /\ m.rule = l.rule /\ m.want = l.want /\ m.existing = l.existing
      /\ GoTo(c, "transact", m)
  BY <1>1, <1>3, <1>4 DEF Locals
<1>6. m = [mem[c] EXCEPT !.collected = DOMAIN rules[mem[c].rule].acts]
  BY <1>3, <1>4
<1> HIDE DEF m
<1>7. Goes(c, "transact", m)
  BY <1>1, <1>5, GoToStep DEF Stages
<1>8. InStage("transact", req[c], m, rules)
  BY <1>2, <1>4, <1>5 DEF InStage
<1>9. rules' \in Seq(Rule) /\ Grown(rules')
  BY <1>1, SameRules
<1> QED
  BY <1>1, <1>2, <1>6, <1>7, <1>8, <1>9 DEF StepTyped, Goes

\* A rule as the transaction leaves it.
Removed(rule, collected) ==
  [rule EXCEPT !.live = FALSE, !.conds = Marked(@, DOMAIN @),
               !.acts = ConfigsMarked(Marked(@, DOMAIN @), collected)]

LEMMA RemovedRule ==
  ASSUME NEW rule \in Rule, NEW ids
  PROVE  /\ Removed(rule, ids) \in Rule /\ Removed(rule, ids).live = FALSE
         /\ Removed(rule, ids).parent = rule.parent
         /\ Removed(rule, ids).conds = Marked(rule.conds, DOMAIN rule.conds)
         /\ Removed(rule, ids).acts
              = ConfigsMarked(Marked(rule.acts, DOMAIN rule.acts), ids)
         /\ DOMAIN Removed(rule, ids).conds = DOMAIN rule.conds
         /\ DOMAIN Removed(rule, ids).acts = DOMAIN rule.acts
<1> DEFINE conds == Marked(rule.conds, DOMAIN rule.conds)
           some == Marked(rule.acts, DOMAIN rule.acts)
           acts == ConfigsMarked(some, ids)
<1>1. conds \in Seq(ConditionRow) /\ DOMAIN conds = DOMAIN rule.conds
  BY RuleFields, MarkedRows
<1>2. some \in Seq(ActionRow) /\ DOMAIN some = DOMAIN rule.acts
  BY RuleFields, MarkedActions
<1>3. acts \in Seq(ActionRow) /\ DOMAIN acts = DOMAIN rule.acts
  BY <1>2, MarkedActions
<1>4. Removed(rule, ids) = [rule EXCEPT !.live = FALSE, !.conds = conds, !.acts = acts]
  BY DEF Removed
<1> HIDE DEF conds, some, acts
<1>5. /\ Removed(rule, ids) \in Rule /\ Removed(rule, ids).live = FALSE
      /\ Removed(rule, ids).parent = rule.parent
      /\ Removed(rule, ids).conds = conds /\ Removed(rule, ids).acts = acts
  BY <1>1, <1>3, <1>4 DEF Rule
<1> QED
  BY <1>1, <1>3, <1>5 DEF conds, some, acts

LEMMA SoftDeleteStep ==
  ASSUME TypeInv, NEW c \in Clients, SoftDelete(c)
  PROVE  /\ StepTyped(c) /\ pc[c] = "transact" /\ Ends(c)
         /\ req[c].kind = "remove" /\ mem[c].rule = req[c].rule
         /\ Edits(mem[c].rule, Removed(rules[mem[c].rule], mem[c].collected))
<1>1. /\ InStage(pc[c], req[c], mem[c], rules) /\ pc[c] = "transact"
      /\ rules \in Seq(Rule) /\ ClientsTyped /\ Finish(c)
      /\ rules' = [rules EXCEPT
                     ![mem[c].rule] = Removed(rules[mem[c].rule], mem[c].collected)]
  BY DEF SoftDelete, TypeInv, Removed
<1>2. req[c].kind = "remove" /\ mem[c].rule = req[c].rule /\ mem[c].rule \in DOMAIN rules
  BY <1>1 DEF InStage
<1>3. Edits(mem[c].rule, Removed(rules[mem[c].rule], mem[c].collected))
  BY <1>1, <1>2, Member, RemovedRule DEF Edits
<1>4. rules' \in Seq(Rule) /\ Grown(rules')
  <2>1. PICK i \in DOMAIN rules : i = mem[c].rule
    BY <1>2
  <2>2. rules[i] \in Rule
    BY <1>1, Member
  <2>3. PICK gone : gone = Removed(rules[i], mem[c].collected)
    OBVIOUS
  <2>4. /\ Edits(i, gone) /\ DOMAIN rules[i].conds \subseteq DOMAIN gone.conds
        /\ DOMAIN rules[i].acts \subseteq DOMAIN gone.acts
    BY <1>3, <2>1, <2>2, <2>3, RemovedRule
  <2> QED
    BY <1>1, <2>4, EditStep
<1>5. Ends(c)
  BY <1>1, FinishStep
<1> QED
  BY <1>1, <1>2, <1>3, <1>4, <1>5, EndsTyped DEF StepTyped

-----------------------------------------------------------------------------
(* Types.                                                                  *)
LEMMA TypeInit == Init => TypeInv
<1> SUFFICES ASSUME Init PROVE TypeInv
  OBVIOUS
<1>1. faults \subseteq AllFaults /\ rules \in Seq(Rule) /\ served \in 0..MaxRequests
  BY BoundsAssumption, StoresAssumption DEF Init
<1>2. ClientsTyped
  BY BlankType DEF Init, ClientsTyped, Stages
<1>3. \A c \in Clients : InStage(pc[c], req[c], mem[c], rules)
  BY SMTT(30) DEF Init, InStage
<1> QED
  BY <1>1, <1>2, <1>3 DEF TypeInv

\* The steps of one client.
Steps(c) ==
  \/ \E r \in Requests : Start(c, r)
  \/ Find(c) \/ CheckDuplicate(c) \/ Insert(c) \/ UpdateParent(c)
  \/ DeleteCondition(c) \/ CreateCondition(c) \/ FindCondition(c) \/ RewriteCondition(c)
  \/ DeleteAction(c) \/ CreateAction(c) \/ FindAction(c) \/ FindConfig(c) \/ WriteConfig(c)
  \/ Reload(c) \/ CollectActions(c) \/ SoftDelete(c) \/ Abort(c)

LEMMA EachStepTyped ==
  ASSUME TypeInv, NEW c \in Clients, Steps(c)
  PROVE  StepTyped(c)
  BY ZenonT(40), StartTyped, FindTyped, CheckStep, InsertStep, ParentStep, DeleteConditionStep,
     CreateConditionStep, FindConditionStep, RewriteConditionStep, DeleteActionStep,
     CreateActionStep, FindActionStep, FindConfigStep, WriteConfigStep, ReloadStep,
     CollectStep, SoftDeleteStep
     DEF Steps

LEMMA ServedStays ==
  ASSUME TypeInv, NEW c \in Clients, Steps(c)
  PROVE  served' \in 0..MaxRequests /\ faults' = faults
<1>1. ASSUME NEW r \in Requests, Start(c, r)
      PROVE  served' \in 0..MaxRequests /\ faults' = faults
  BY <1>1, BoundsAssumption DEF Start, TypeInv
<1>2. (\E r \in Requests : Start(c, r)) \/ (served' = served /\ faults' = faults)
  BY DEF Steps, Find, CheckDuplicate, Insert, UpdateParent, DeleteCondition,
         CreateCondition, FindCondition, RewriteCondition, DeleteAction, CreateAction,
         FindAction, FindConfig, WriteConfig, Reload, CollectActions, SoftDelete, Abort
<1> QED
  BY <1>1, <1>2 DEF TypeInv

LEMMA TypeStep == TypeInv /\ [Next]_vars => TypeInv'
<1> SUFFICES ASSUME TypeInv, [Next]_vars PROVE TypeInv'
  OBVIOUS
<1>1. CASE UNCHANGED vars
  BY <1>1 DEF vars, TypeInv, ClientsTyped, InStage, UpdateOf
<1>2. CASE Next
  <2>1. PICK c \in Clients : Steps(c)
    BY <1>2 DEF Next, Steps
  <2>2. StepTyped(c) /\ served' \in 0..MaxRequests /\ faults' = faults
    BY <2>1, EachStepTyped, ServedStays
  <2>3. ASSUME NEW d \in Clients \ {c}
        PROVE  InStage(pc'[d], req'[d], mem'[d], rules')
    <3>1. InStage(pc[d], req[d], mem[d], rules) /\ Grown(rules')
      BY <2>2 DEF TypeInv, StepTyped
    <3>2. InStage(pc[d], req[d], mem[d], rules')
      BY <3>1, StageKept
    <3> QED
      BY <2>2, <3>2 DEF StepTyped, OthersStay
  <2>4. \A d \in Clients : InStage(pc'[d], req'[d], mem'[d], rules')
    BY <2>2, <2>3 DEF StepTyped
  <2> QED
    BY <2>2, <2>4 DEF TypeInv, StepTyped
<1> QED
  BY <1>1, <1>2

LEMMA TypeInvMeansTyped == TypeInv => TypeOK
<1> SUFFICES ASSUME TypeInv PROVE TypeOK
  OBVIOUS
<1>1. ASSUME NEW c \in Clients
      PROVE  (pc[c] = "idle" <=> req[c] = Nothing) /\ (pc[c] = "idle" => mem[c] = Blank)
  BY RequestsAssumption DEF TypeInv, InStage, UpdateOf
<1> QED
  BY <1>1 DEF TypeInv, TypeOK, ClientsTyped

(* The tables hold rules, and a request in progress knows what it needs:   *)
(* the invariant states, stage by stage, what the handler remembers.       *)
THEOREM RulesTyped == Spec => []TypeOK
<1>1. Init => TypeInv
  BY TypeInit
<1>2. TypeInv /\ [Next]_vars => TypeInv'
  BY TypeStep
<1>3. TypeInv => TypeOK
  BY TypeInvMeansTyped
<1> QED
  BY <1>1, <1>2, <1>3, PTL DEF Spec

-----------------------------------------------------------------------------
(* What the steps leave alone.                                             *)
Reads(c) ==
  \/ \E r \in Requests : Start(c, r)
  \/ Find(c) \/ CheckDuplicate(c) \/ FindCondition(c) \/ FindAction(c) \/ FindConfig(c)
  \/ Reload(c) \/ CollectActions(c) \/ Abort(c)
WritesOwnConditions(c) ==
  UpdateParent(c) \/ DeleteCondition(c) \/ CreateCondition(c) \/ RewriteCondition(c)
WritesActions(c) == DeleteAction(c) \/ CreateAction(c) \/ WriteConfig(c)

LEMMA ReadsOnly == ASSUME NEW c \in Clients, Reads(c) PROVE rules' = rules
  BY DEF Reads, Start, Find, CheckDuplicate, FindCondition, FindAction, FindConfig, Reload,
         CollectActions, Abort

LEMMA KindsOfSteps ==
  ASSUME NEW c \in Clients, Steps(c)
  PROVE  \/ Reads(c) \/ WritesOwnConditions(c) \/ WritesActions(c)
         \/ Insert(c) \/ SoftDelete(c)
  BY DEF Steps, Reads, WritesOwnConditions, WritesActions

LEMMA ConditionWrites ==
  ASSUME TypeInv, NEW c \in Clients, WritesOwnConditions(c)
  PROVE  /\ pc[c] \in {"parent", "op", "rewrite"} /\ UpdateOf(req[c], mem[c], rules)
         /\ DOMAIN rules' = DOMAIN rules
         /\ \A j \in DOMAIN rules \ {mem[c].rule} : rules'[j] = rules[j]
         /\ rules'[mem[c].rule].acts = rules[mem[c].rule].acts
         /\ rules'[mem[c].rule].live = rules[mem[c].rule].live
<1>1. PICK i : i = mem[c].rule
  OBVIOUS
<1>2. rules \in Seq(Rule)
  BY DEF TypeInv
<1>3. CASE UpdateParent(c)
  <2>1. /\ pc[c] = "parent" /\ UpdateOf(req[c], mem[c], rules)
    BY <1>3, ParentStep
  <2>2. i \in DOMAIN rules /\ rules[i] \in Rule
    BY <1>1, <1>2, <2>1, Member DEF UpdateOf
  <2>3. CASE rules' = rules
    BY <1>1, <2>1, <2>3
  <2>4. CASE \E x \in Parent : Edits(i, [rules[i] EXCEPT !.parent = x])
    <3>1. PICK x \in Parent : Edits(i, [rules[i] EXCEPT !.parent = x])
      BY <2>4
    <3>2. PICK new : new = [rules[i] EXCEPT !.parent = x]
      OBVIOUS
    <3>3. new.acts = rules[i].acts /\ new.live = rules[i].live /\ Edits(i, new)
      BY <2>2, <3>1, <3>2 DEF Rule
    <3> QED
      BY <1>1, <1>2, <2>1, <3>3, EditStep
  <2> QED
    BY <1>1, <1>3, <2>3, <2>4, ParentStep
<1>4. ASSUME pc[c] \in {"op", "rewrite"}, \/ rules' = rules
                                          \/ \E rows : WritesConds(i, rows)
      PROVE  /\ UpdateOf(req[c], mem[c], rules)
             /\ DOMAIN rules' = DOMAIN rules
             /\ \A j \in DOMAIN rules \ {i} : rules'[j] = rules[j]
             /\ rules'[i].acts = rules[i].acts /\ rules'[i].live = rules[i].live
  <2>1. UpdateOf(req[c], mem[c], rules) /\ i \in DOMAIN rules
    BY <1>1, <1>4, AtOperation DEF UpdateOf
  <2> QED
    BY <1>2, <1>4, <2>1, WriteStep
<1>5. CASE DeleteCondition(c)
  BY <1>1, <1>4, <1>5, DeleteConditionStep DEF OnCondition
<1>6. CASE CreateCondition(c)
  BY <1>1, <1>4, <1>6, CreateConditionStep DEF OnCondition
<1>7. CASE RewriteCondition(c)
  BY <1>1, <1>4, <1>7, RewriteConditionStep
<1> QED
  BY <1>3, <1>5, <1>6, <1>7 DEF WritesOwnConditions

LEMMA ActionWrites ==
  ASSUME TypeInv, NEW c \in Clients, WritesActions(c)
  PROVE  /\ pc[c] \in {"op", "write"} /\ UpdateOf(req[c], mem[c], rules)
         /\ DOMAIN rules' = DOMAIN rules
         /\ \A j \in DOMAIN rules :
              /\ rules'[j].conds = rules[j].conds /\ rules'[j].live = rules[j].live
              /\ rules'[j].parent = rules[j].parent
<1>1. rules \in Seq(Rule) /\ pc[c] \in {"op", "write"}
  BY DEF TypeInv, WritesActions, DeleteAction, CreateAction, WriteConfig, OnAction
<1>2. UpdateOf(req[c], mem[c], rules)
  BY SMTT(30), <1>1, AtOperation
<1>3. rules' = rules \/ \E i, rows : WritesActs(i, rows)
  BY DeleteActionStep, CreateActionStep, WriteConfigStep DEF WritesActions
<1>4. ASSUME NEW i, NEW rows, WritesActs(i, rows)
      PROVE  /\ DOMAIN rules' = DOMAIN rules
             /\ \A j \in DOMAIN rules :
                  /\ rules'[j].conds = rules[j].conds /\ rules'[j].live = rules[j].live
                  /\ rules'[j].parent = rules[j].parent
  <2>1. i \in DOMAIN rules
    BY <1>4 DEF WritesActs, Edits
  <2> QED
    BY <1>1, <1>4, <2>1, WriteStep
<1> QED
  BY <1>1, <1>2, <1>3, <1>4

LEMMA RequestsKept ==
  ASSUME TypeInv, NEW c \in Clients, Steps(c)
  PROVE  /\ OthersStay(c) /\ faults' = faults
         /\ \/ \E r \in Requests : Start(c, r) /\ req'[c] = r
            \/ pc[c] # "idle" /\ Goes(c, pc'[c], mem'[c])
            \/ pc[c] # "idle" /\ Ends(c)
<1>1. ClientsTyped /\ OthersStay(c) /\ ClientsTyped' /\ faults' = faults
  BY EachStepTyped, ServedStays DEF StepTyped, TypeInv
<1>2. ASSUME NEW r \in Requests, Start(c, r) PROVE req'[c] = r
  BY SMTT(30), <1>1, <1>2 DEF Start, ClientsTyped
<1>3. (\E r \in Requests : Start(c, r)) \/ (pc[c] # "idle" /\ (req' = req \/ Finish(c)))
  BY DEF Steps, Find, CheckDuplicate, Insert, UpdateParent, DeleteCondition,
         CreateCondition, FindCondition, RewriteCondition, DeleteAction, CreateAction,
         FindAction, FindConfig, WriteConfig, Reload, CollectActions, SoftDelete, Abort,
         GoTo, NextOp, GoToOp, OnCondition, OnAction
<1> QED
  BY <1>1, <1>2, <1>3, FinishStep DEF Goes

-----------------------------------------------------------------------------
(* Actions keep their configs.                                             *)
Configured(acts) == \A k \in DOMAIN acts : acts[k].live => acts[k].cfgLive

LEMMA ConfiguredWrites ==
  ASSUME NEW acts \in Seq(ActionRow), NEW ids
  PROVE  /\ Configured(acts) => Configured(Marked(ConfigsMarked(acts, ids), ids))
         /\ Configured(ConfigsMarked(Marked(acts, DOMAIN acts), ids))
         /\ \A row \in ActionRow :
              Configured(acts) /\ (row.live => row.cfgLive) => Configured(Append(acts, row))
<1>1. ASSUME Configured(acts)
      PROVE  Configured(Marked(ConfigsMarked(acts, ids), ids))
  <2>1. PICK some \in Seq(ActionRow) :
           /\ some = ConfigsMarked(acts, ids) /\ DOMAIN some = DOMAIN acts
           /\ \A k \in DOMAIN acts :
                some[k] = IF k \in ids THEN [acts[k] EXCEPT !.cfgLive = FALSE] ELSE acts[k]
    BY MarkedActions
  <2>2. PICK new \in Seq(ActionRow) :
           /\ new = Marked(some, ids) /\ DOMAIN new = DOMAIN acts
           /\ \A k \in DOMAIN acts :
                new[k] = IF k \in ids THEN [some[k] EXCEPT !.live = FALSE] ELSE some[k]
    BY <2>1, MarkedActions
  <2>3. ASSUME NEW k \in DOMAIN acts, new[k].live PROVE new[k].cfgLive
    <3>1. some[k] \in ActionRow /\ acts[k] \in ActionRow
      BY <2>1, Member
    <3> QED
      BY <1>1, <2>1, <2>2, <2>3, <3>1 DEF Configured, ActionRow
  <2> QED
    BY <2>1, <2>2, <2>3 DEF Configured
<1>2. Configured(ConfigsMarked(Marked(acts, DOMAIN acts), ids))
  <2>1. PICK some \in Seq(ActionRow) :
           /\ some = Marked(acts, DOMAIN acts) /\ DOMAIN some = DOMAIN acts
           /\ \A k \in DOMAIN acts : some[k] = [acts[k] EXCEPT !.live = FALSE]
    BY MarkedActions
  <2>2. PICK new \in Seq(ActionRow) :
           /\ new = ConfigsMarked(some, ids) /\ DOMAIN new = DOMAIN acts
           /\ \A k \in DOMAIN acts :
                new[k] = IF k \in ids THEN [some[k] EXCEPT !.cfgLive = FALSE] ELSE some[k]
    BY <2>1, MarkedActions
  <2>3. ASSUME NEW k \in DOMAIN acts PROVE ~new[k].live
    <3>1. some[k] \in ActionRow /\ acts[k] \in ActionRow
      BY <2>1, Member
    <3> QED
      BY <2>1, <2>2, <3>1 DEF ActionRow
  <2> QED
    BY <2>1, <2>2, <2>3 DEF Configured
<1>3. ASSUME NEW row \in ActionRow, Configured(acts), row.live => row.cfgLive
      PROVE  Configured(Append(acts, row))
  BY <1>3, AddMember DEF Configured
<1> QED
  BY <1>1, <1>2, <1>3

NamesOwnActions(r) ==
  \A k \in DOMAIN r.acts : r.acts[k].do # "create" => r.acts[k].of = r.rule

ConfigInv ==
  /\ TypeInv
  /\ Without({"foreign"}) =>
       /\ \A i \in DOMAIN rules : Configured(rules[i].acts)
       /\ \A c \in Clients :
            pc[c] # "idle" /\ req[c].kind = "update" => NamesOwnActions(req[c])

LEMMA ConfigInit == Init => ConfigInv
<1> SUFFICES ASSUME Init PROVE ConfigInv
  OBVIOUS
<1>1. \A i \in DOMAIN rules : Configured(rules[i].acts)
  BY PastAssumption DEF Init, HasConfigs, Configured
<1> QED
  BY <1>1, TypeInit DEF ConfigInv, Init

LEMMA ConfigStep == ConfigInv /\ [Next]_vars => ConfigInv'
<1> SUFFICES ASSUME ConfigInv, [Next]_vars PROVE ConfigInv'
  OBVIOUS
<1>1. TypeInv /\ TypeInv'
  BY TypeStep DEF ConfigInv
<1>2. CASE UNCHANGED vars
  BY <1>1, <1>2 DEF ConfigInv, vars, Without, NamesOwnActions
<1>3. CASE Next
  <2>1. PICK c \in Clients : Steps(c)
    BY <1>3 DEF Next, Steps
  <2>2. OthersStay(c) /\ faults' = faults
    BY <1>1, <2>1, RequestsKept
  <2> SUFFICES ASSUME Without({"foreign"})
               PROVE  /\ \A i \in DOMAIN rules' : Configured(rules'[i].acts)
                      /\ \A d \in Clients :
                           pc'[d] # "idle" /\ req'[d].kind = "update"
                             => NamesOwnActions(req'[d])
    BY <1>1, <2>2 DEF ConfigInv, Without
  <2>3. /\ \A i \in DOMAIN rules : Configured(rules[i].acts)
        /\ \A d \in Clients :
             pc[d] # "idle" /\ req[d].kind = "update" => NamesOwnActions(req[d])
    BY DEF ConfigInv
  <2>4. ASSUME NEW d \in Clients, pc'[d] # "idle", req'[d].kind = "update"
        PROVE  NamesOwnActions(req'[d])
    <3>1. CASE d # c
      BY <2>2, <2>3, <2>4, <3>1 DEF OthersStay
    <3>2. CASE d = c
      <4>1. ASSUME NEW r \in Requests, Start(c, r), req'[c] = r
            PROVE  NamesOwnActions(req'[c])
        BY <2>4, <3>2, <4>1 DEF Start, Expected, Without, NamesOwnActions
      <4> QED
        BY <1>1, <2>1, <2>3, <2>4, <3>2, <4>1, RequestsKept DEF Goes, Ends
    <3> QED
      BY <3>1, <3>2
  <2>5. rules \in Seq(Rule) /\ \A i \in DOMAIN rules : rules[i].acts \in Seq(ActionRow)
    BY <1>1, Member, RuleFields DEF TypeInv
  <2>6. ASSUME NEW i \in DOMAIN rules, NEW rows, WritesActs(i, rows), Configured(rows)
        PROVE  \A j \in DOMAIN rules' : Configured(rules'[j].acts)
    BY <2>3, <2>5, <2>6, WriteStep
  <2>7. \A i \in DOMAIN rules' : Configured(rules'[i].acts)
    <3>1. CASE Reads(c)
      BY <2>3, <3>1, ReadsOnly
    <3>2. CASE WritesOwnConditions(c)
      BY <1>1, <2>3, <3>2, ConditionWrites DEF UpdateOf
    <3>3. CASE DeleteAction(c)
      <4>1. pc[c] = "op" /\ req[c] \in Requests /\ req[c].kind = "update"
            /\ mem[c].rule = req[c].rule /\ mem[c].rule \in DOMAIN rules
        BY <1>1, <3>3, AtOperation DEF DeleteAction, OnAction, UpdateOf
      <4>2. Op(c).of = mem[c].rule
        <5>1. /\ mem[c].at > Len(req[c].conds) /\ Op(c).do = "delete"
              /\ mem[c].at \in 1..Len(Ops(req[c])) /\ Len(Ops(req[c])) \in Nat
              /\ Len(req[c].conds) \in Nat
          BY <1>1, <3>3, <4>1, AtOperation DEF DeleteAction, OnAction
        <5>2. mem[c].at \in (Len(req[c].conds) + 1)..Len(Ops(req[c]))
          BY <5>1
        <5>3. PICK k \in DOMAIN req[c].acts : Op(c) = req[c].acts[k]
          BY <4>1, <5>2, RequestOps DEF Op
        <5> QED
          BY <2>3, <4>1, <5>1, <5>3 DEF NamesOwnActions
      <4> QED
        BY <1>1, <2>3, <2>5, <2>6, <3>3, <4>1, <4>2, DeleteActionStep, ConfiguredWrites
    <3>4. CASE CreateAction(c)
      <4>1. /\ mem[c].rule \in DOMAIN rules /\ NewAction(Op(c)) \in ActionRow
            /\ NewAction(Op(c)).live => NewAction(Op(c)).cfgLive
        BY <1>1, <3>4, CreateActionStep, CreatedAction, AtOperation DEF OnAction, UpdateOf
      <4> QED
        BY <1>1, <2>3, <2>5, <2>6, <3>4, <4>1, CreateActionStep, ConfiguredWrites
    <3>5. CASE WriteConfig(c)
      <4>1. PICK i, k : /\ i = mem[c].rule /\ k = Op(c).id
                        /\ i \in DOMAIN rules /\ k \in DOMAIN rules[i].acts
        BY <1>1, <3>5, WriteConfigStep, AtOperation DEF UpdateOf
      <4>2. PICK acts \in Seq(ActionRow), old \in ActionRow :
              acts = rules[i].acts /\ old = acts[k]
        BY <2>5, <4>1, Member
      <4>3. PICK new : new = [old EXCEPT !.named = @ \/ Op(c).named,
                                         !.channel = @ \/ Op(c).channel]
        OBVIOUS
      <4>4. new.live = old.live /\ new.cfgLive = old.cfgLive
        BY SMTT(30), <4>3 DEF ActionRow
      <4> DEFINE rows == [acts EXCEPT ![k] = new]
      <4>5. WritesActs(i, rows)
        BY <1>1, <3>5, <4>1, <4>2, <4>3, WriteConfigStep
      <4>6. Configured(rows)
        <5>1. acts \in [1..Len(acts) -> ActionRow]
          BY LenProperties
        <5> QED
          BY <2>3, <4>1, <4>2, <4>4, <5>1 DEF Configured
      <4> HIDE DEF rows
      <4> QED
        BY <2>6, <4>1, <4>5, <4>6
    <3>6. CASE Insert(c)
      <4>1. /\ req[c] \in Requests /\ req[c].kind = "create"
            /\ rules' = Append(rules, NewRule(req[c])) /\ NewRule(req[c]) \in Rule
        BY <1>1, <3>6, InsertStep
      <4>2. Configured(NewRule(req[c]).acts)
        <5>1. \A k \in DOMAIN req[c].acts : NewAction(req[c].acts[k]).cfgLive = TRUE
          BY <4>1, RequestKind, CreatedAction
        <5> QED
          BY <5>1 DEF Configured, NewRule
      <4> QED
        BY <2>3, <2>5, <4>1, <4>2, AddMember
    <3>7. CASE SoftDelete(c)
      <4>1. PICK i, ids :
              /\ i = mem[c].rule /\ i \in DOMAIN rules /\ rules[i] \in Rule
              /\ Edits(i, Removed(rules[i], ids))
        BY <1>1, <2>5, <3>7, SoftDeleteStep, Member DEF Edits
      <4>2. PICK gone : gone = Removed(rules[i], ids)
        OBVIOUS
      <4>3. Configured(gone.acts)
        <5>1. PICK acts \in Seq(ActionRow) : acts = rules[i].acts
          BY <2>5, <4>1
        <5>2. gone.acts = ConfigsMarked(Marked(acts, DOMAIN acts), ids)
          BY <4>1, <4>2, <5>1, RemovedRule
        <5> QED
          BY <5>2, ConfiguredWrites
      <4> QED
        BY <2>3, <2>5, <4>1, <4>2, <4>3, EditStep
    <3> QED
      BY <2>1, <3>1, <3>2, <3>3, <3>4, <3>5, <3>6, <3>7, KindsOfSteps DEF WritesActions
  <2> QED
    BY <2>4, <2>7
<1> QED
  BY <1>2, <1>3

(* However requests overlap, die or end in an error: unless an update      *)
(* names another rule's action, no live action is without its config.      *)
THEOREM ConfigsKept == Spec => []LiveActionHasConfig
<1>1. ConfigInv => LiveActionHasConfig
  BY DEF ConfigInv, LiveActionHasConfig, HasConfigs, Configured
<1> QED
  BY <1>1, ConfigInit, ConfigStep, PTL DEF Spec

-----------------------------------------------------------------------------
(* What is deleted goes together.                                          *)
LEMMA BusyRule ==
  ASSUME NEW stage, NEW r, NEW m, NEW rs, InStage(stage, r, m, rs), stage # "idle",
         r.kind # "create"
  PROVE  /\ r \in Requests /\ m.rule = r.rule /\ m.rule \in DOMAIN rs
         /\ stage \in {"collect", "transact"} <=> r.kind = "remove"
  BY DEF InStage, UpdateOf

LEMMA LiveKept ==
  ASSUME TypeInv, NEW c \in Clients, Steps(c), NEW i \in DOMAIN rules
  PROVE  /\ i \in DOMAIN rules'
         /\ rules'[i].live = rules[i].live \/ (SoftDelete(c) /\ i = mem[c].rule)
         /\ \/ DOMAIN rules'[i].acts = DOMAIN rules[i].acts
            \/ CreateAction(c) /\ i = mem[c].rule
<1>1. rules \in Seq(Rule) /\ rules[i] \in Rule /\ rules[i].acts \in Seq(ActionRow)
  BY Member, RuleFields DEF TypeInv
<1>2. CASE Reads(c)
  BY <1>2, ReadsOnly
<1>3. CASE WritesOwnConditions(c)
  BY <1>3, ConditionWrites
<1>4. CASE WritesActions(c)
  <2>1. /\ DOMAIN rules' = DOMAIN rules /\ rules'[i].live = rules[i].live
    BY <1>4, ActionWrites
  <2>2. CASE rules' = rules
    BY <2>2
  <2>3. ASSUME NEW j, NEW rows, WritesActs(j, rows), i # j
        PROVE  rules'[i] = rules[i]
    <3>1. j \in DOMAIN rules
      BY <2>3 DEF WritesActs, Edits
    <3> QED
      BY <1>1, <2>3, <3>1, WriteStep
  <2>4. ASSUME NEW rows, WritesActs(i, rows), DOMAIN rows = DOMAIN rules[i].acts
        PROVE  DOMAIN rules'[i].acts = DOMAIN rules[i].acts
    BY <1>1, <2>4, WriteStep
  <2>5. PICK acts \in Seq(ActionRow) : acts = rules[i].acts
    BY <1>1
  <2>6. CASE DeleteAction(c)
    <3>1. ASSUME NEW ids
          PROVE  /\ DOMAIN ConfigsMarked(acts, ids) = DOMAIN acts
                 /\ DOMAIN Marked(ConfigsMarked(acts, ids), ids) = DOMAIN acts
      BY MarkedActions
    <3> QED
      BY <2>1, <2>2, <2>3, <2>4, <2>5, <2>6, <3>1, DeleteActionStep
  <2>7. CASE CreateAction(c)
    BY <2>1, <2>3, <2>7, CreateActionStep
  <2>8. CASE WriteConfig(c)
    <3>1. PICK j, k, new : /\ j = mem[c].rule
                           /\ WritesActs(j, [rules[j].acts EXCEPT ![k] = new])
      BY ZenonT(40), <2>8, WriteConfigStep
    <3>2. PICK rows : rows = [rules[j].acts EXCEPT ![k] = new]
      OBVIOUS
    <3>3. DOMAIN rows = DOMAIN rules[j].acts
      BY <3>2
    <3> QED
      BY SMTT(30), <2>1, <2>3, <2>4, <3>1, <3>2, <3>3
  <2> QED
    BY <1>4, <2>6, <2>7, <2>8 DEF WritesActions
<1>5. CASE Insert(c)
  <2>1. PICK new \in Rule : rules' = Append(rules, new)
    BY <1>5, InsertStep
  <2>2. i \in DOMAIN rules' /\ rules'[i] = rules[i]
    BY <1>1, <2>1, AddMember
  <2> QED
    BY <2>2
<1>6. CASE SoftDelete(c)
  <2>1. PICK j, ids :
          /\ j \in DOMAIN rules /\ j = mem[c].rule /\ rules[j] \in Rule
          /\ Edits(j, Removed(rules[j], ids))
    BY <1>1, <1>6, SoftDeleteStep, Member DEF Edits
  <2>2. PICK gone : gone = Removed(rules[j], ids)
    OBVIOUS
  <2>3. Edits(j, gone) /\ DOMAIN gone.acts = DOMAIN rules[j].acts
    BY <2>1, <2>2, RemovedRule
  <2>4. /\ DOMAIN rules' = DOMAIN rules /\ rules'[j] = gone
        /\ i # j => rules'[i] = rules[i]
    BY <1>1, <2>3, EditStep
  <2> QED
    BY <1>6, <2>1, <2>3, <2>4
<1> QED
  BY <1>2, <1>3, <1>4, <1>5, <1>6, KindsOfSteps

ActionsGone(acts) == \A k \in DOMAIN acts : ~acts[k].live /\ ~acts[k].cfgLive

LEMMA AllRemoved ==
  ASSUME NEW rule \in Rule
  PROVE  AllDeleted(Removed(rule, DOMAIN rule.acts))
<1>1. PICK acts \in Seq(ActionRow), conds \in Seq(ConditionRow) :
        acts = rule.acts /\ conds = rule.conds
  BY RuleFields
<1>2. PICK gone : gone = Removed(rule, DOMAIN acts)
  OBVIOUS
<1>3. /\ gone.conds = Marked(conds, DOMAIN conds)
      /\ gone.acts = ConfigsMarked(Marked(acts, DOMAIN acts), DOMAIN acts)
  BY <1>1, <1>2, RemovedRule
<1>4. LiveShapes(gone.conds) = {}
  <2>1. /\ DOMAIN gone.conds = DOMAIN conds
        /\ \A k \in DOMAIN conds : gone.conds[k] = [conds[k] EXCEPT !.live = FALSE]
    BY <1>3, MarkedRows
  <2>2. ASSUME NEW k \in DOMAIN conds PROVE ~gone.conds[k].live
    <3>1. conds[k] \in ConditionRow
      BY Member
    <3> QED
      BY <2>1, <3>1 DEF ConditionRow
  <2> QED
    BY <2>1, <2>2 DEF LiveShapes
<1>5. ActionsGone(gone.acts)
  <2>1. PICK some \in Seq(ActionRow) :
           /\ some = Marked(acts, DOMAIN acts) /\ DOMAIN some = DOMAIN acts
           /\ \A k \in DOMAIN acts : some[k] = [acts[k] EXCEPT !.live = FALSE]
    BY MarkedActions
  <2>2. /\ DOMAIN gone.acts = DOMAIN acts
        /\ \A k \in DOMAIN acts : gone.acts[k] = [some[k] EXCEPT !.cfgLive = FALSE]
    BY <1>3, <2>1, MarkedActions
  <2>3. ASSUME NEW k \in DOMAIN acts PROVE ~gone.acts[k].live /\ ~gone.acts[k].cfgLive
    <3>1. some[k] \in ActionRow /\ acts[k] \in ActionRow
      BY <2>1, Member
    <3> QED
      BY <2>1, <2>2, <3>1 DEF ActionRow
  <2> QED
    BY <2>2, <2>3 DEF ActionsGone
<1> QED
  BY <1>1, <1>2, <1>4, <1>5 DEF AllDeleted, ActionsGone

LEMMA GoneStays ==
  ASSUME NEW acts \in Seq(ActionRow), ActionsGone(acts), NEW ids
  PROVE  ActionsGone(ConfigsMarked(acts, ids))
<1>1. /\ DOMAIN ConfigsMarked(acts, ids) = DOMAIN acts
      /\ \A k \in DOMAIN acts :
           ConfigsMarked(acts, ids)[k] =
             IF k \in ids THEN [acts[k] EXCEPT !.cfgLive = FALSE] ELSE acts[k]
  BY MarkedActions
<1>2. \A k \in DOMAIN acts : acts[k] \in ActionRow
  BY Member
<1> QED
  BY <1>1, <1>2 DEF ActionsGone, ActionRow

\* An update past its first read, on a rule that is then there.
PastFind(c) == pc[c] \notin {"idle", "find"} /\ req[c].kind = "update"

RemovalInv ==
  /\ TypeInv
  /\ Without({"removal"}) =>
       /\ \A i \in DOMAIN rules : rules[i].live \/ AllDeleted(rules[i])
       /\ \A c, d \in Clients :
            /\ pc[c] # "idle" /\ req[c].kind = "update"
            /\ pc[d] # "idle" /\ req[d].kind = "remove"
            => mem[c].rule # mem[d].rule
       /\ \A c \in Clients : PastFind(c) => rules[mem[c].rule].live
       /\ \A c \in Clients :
            pc[c] = "transact" => mem[c].collected = DOMAIN rules[mem[c].rule].acts

LEMMA RemovalInit == Init => RemovalInv
<1> SUFFICES ASSUME Init PROVE RemovalInv
  OBVIOUS
<1>1. \A i \in DOMAIN rules : rules[i].live \/ AllDeleted(rules[i])
  BY PastAssumption DEF Init
<1> QED
  BY <1>1, TypeInit DEF RemovalInv, Init, PastFind

LEMMA RemovalStep == RemovalInv /\ [Next]_vars => RemovalInv'
<1> SUFFICES ASSUME RemovalInv, [Next]_vars PROVE RemovalInv'
  OBVIOUS
<1>1. TypeInv /\ TypeInv'
  BY TypeStep DEF RemovalInv
<1>2. CASE UNCHANGED vars
  BY <1>1, <1>2 DEF RemovalInv, vars, Without, PastFind
<1>3. CASE Next
  <2>1. PICK e \in Clients : Steps(e)
    BY <1>3 DEF Next, Steps
  <2>2. OthersStay(e) /\ faults' = faults
    BY <1>1, <2>1, RequestsKept
  <2>3. ASSUME Without({"removal"})
        PROVE  /\ \A i \in DOMAIN rules' : rules'[i].live \/ AllDeleted(rules'[i])
               /\ \A c, d \in Clients :
                    /\ pc'[c] # "idle" /\ req'[c].kind = "update"
                    /\ pc'[d] # "idle" /\ req'[d].kind = "remove"
                    => mem'[c].rule # mem'[d].rule
               /\ \A c \in Clients :
                    pc'[c] \notin {"idle", "find"} /\ req'[c].kind = "update"
                      => rules'[mem'[c].rule].live
               /\ \A c \in Clients :
                    pc'[c] = "transact"
                      => mem'[c].collected = DOMAIN rules'[mem'[c].rule].acts
    <3>1. /\ \A i \in DOMAIN rules : rules[i].live \/ AllDeleted(rules[i])
          /\ \A c, d \in Clients :
               /\ pc[c] # "idle" /\ req[c].kind = "update"
               /\ pc[d] # "idle" /\ req[d].kind = "remove"
               => mem[c].rule # mem[d].rule
          /\ \A c \in Clients : PastFind(c) => rules[mem[c].rule].live
          /\ \A c \in Clients :
               pc[c] = "transact" => mem[c].collected = DOMAIN rules[mem[c].rule].acts
      BY <2>3 DEF RemovalInv
    <3>2. rules \in Seq(Rule) /\ \A i \in DOMAIN rules : rules[i] \in Rule
      BY <1>1, Member DEF TypeInv
    <3>3. \A c \in Clients : /\ InStage(pc[c], req[c], mem[c], rules)
                             /\ InStage(pc'[c], req'[c], mem'[c], rules')
      BY <1>1 DEF TypeInv
    <3>4. ASSUME NEW c \in Clients
          PROVE  /\ pc[c] # "idle" /\ req[c].kind # "create" =>
                      /\ mem[c].rule = req[c].rule /\ mem[c].rule \in DOMAIN rules
                      /\ pc[c] \in {"collect", "transact"} <=> req[c].kind = "remove"
                 /\ pc'[c] # "idle" /\ req'[c].kind # "create" =>
                      /\ mem'[c].rule = req'[c].rule /\ mem'[c].rule \in DOMAIN rules'
                      /\ pc'[c] \in {"collect", "transact"} <=> req'[c].kind = "remove"
      BY <3>3, BusyRule
    <3>5. pc[e] \in {"transact", "parent", "op", "rewrite", "write"} => req[e].kind # "create"
      BY <3>3 DEF InStage, UpdateOf
    <3>6. ASSUME NEW c \in Clients, NEW d \in Clients,
                 pc'[c] # "idle", req'[c].kind = "update",
                 pc'[d] # "idle", req'[d].kind = "remove"
          PROVE  mem'[c].rule # mem'[d].rule
      <4>1. CASE c # e /\ d # e
        BY <2>2, <3>1, <3>6, <4>1 DEF OthersStay
      <4>2. CASE c = e \/ d = e
        <5>1. c # d
          BY <3>6
        <5>2. CASE \E r \in Requests : Start(e, r) /\ req'[e] = r
          <6>1. PICK r \in Requests : Start(e, r) /\ req'[e] = r
            BY <5>2
          <6>2. Expected(e, r)
            BY <6>1 DEF Start
          <6>3. CASE c = e
            BY <2>2, <2>3, <3>4, <3>6, <5>1, <6>1, <6>2, <6>3
               DEF OthersStay, Expected, Overlaps, Without
          <6>4. CASE d = e
            BY <2>2, <2>3, <3>4, <3>6, <5>1, <6>1, <6>2, <6>4
               DEF OthersStay, Expected, Overlaps, Without
          <6> QED
            BY <4>2, <6>3, <6>4
        <5>3. CASE pc[e] # "idle" /\ Goes(e, pc'[e], mem'[e])
          BY <2>2, <3>1, <3>4, <3>6, <4>2, <5>1, <5>3 DEF OthersStay, Goes
        <5>4. CASE Ends(e)
          BY <3>6, <4>2, <5>4 DEF Ends
        <5> QED
          BY <1>1, <2>1, <5>2, <5>3, <5>4, RequestsKept
      <4> QED
        BY <4>1, <4>2
    <3>7. ASSUME NEW c \in Clients, pc'[c] \notin {"idle", "find"}, req'[c].kind = "update"
          PROVE  rules'[mem'[c].rule].live
      <4>1. PICK i : i = mem'[c].rule
        OBVIOUS
      <4>2. /\ i \in DOMAIN rules /\ rules[i].live /\ i = mem[c].rule
            /\ pc[c] # "idle" /\ req[c].kind = "update"
        <5>1. CASE c # e
          BY <2>2, <3>1, <3>4, <3>7, <4>1, <5>1 DEF OthersStay, PastFind
        <5>2. CASE c = e
          <6>1. ASSUME NEW r \in Requests, Start(e, r), req'[e] = r
                PROVE  FALSE
            BY <1>1, <3>7, <5>2, <6>1 DEF Start, TypeInv, ClientsTyped
          <6>2. pc[e] # "idle" /\ Goes(e, pc'[e], mem'[e])
            BY <1>1, <2>1, <3>7, <5>2, <6>1, RequestsKept DEF Ends
          <6>3. /\ req[e].kind = "update" /\ i = mem[e].rule /\ i \in DOMAIN rules
            BY <3>4, <3>7, <4>1, <5>2, <6>2 DEF Goes
          <6>4. CASE pc[e] # "find"
            BY <3>1, <5>2, <6>2, <6>3, <6>4 DEF PastFind
          <6>5. CASE pc[e] = "find"
            <7>1. Find(e) \/ Abort(e)
              <8>1. pc[e] # "idle" /\ pc[e] \notin {"collect", "transact", "reload"}
                BY <6>5
              <8> QED
                BY <2>1, <6>5, <8>1 DEF Steps, Start, CheckDuplicate, Insert, UpdateParent,
                   DeleteCondition, CreateCondition, FindCondition, RewriteCondition,
                   DeleteAction, CreateAction, FindAction, FindConfig, WriteConfig, Reload,
                   CollectActions, SoftDelete, OnCondition, OnAction
            <7>2. Find(e)
              BY <1>1, <3>7, <5>2, <7>1, ReloadStep DEF Ends
            <7> QED
              BY <1>1, <3>7, <5>2, <6>2, <6>3, <7>2, FindStep DEF Ends, UpdateOf
          <6> QED
            BY <6>4, <6>5
        <5> QED
          BY <5>1, <5>2
      <4>3. ~(SoftDelete(e) /\ i = mem[e].rule)
        <5> SUFFICES ASSUME SoftDelete(e), i = mem[e].rule PROVE FALSE
          OBVIOUS
        <5>1. pc[e] = "transact" /\ req[e].kind = "remove"
          BY <1>1, SoftDeleteStep
        <5> QED
          BY <3>1, <4>2, <5>1
      <4> QED
        BY <1>1, <2>1, <4>1, <4>2, <4>3, LiveKept
    <3>8. ASSUME NEW c \in Clients, pc'[c] = "transact"
          PROVE  mem'[c].collected = DOMAIN rules'[mem'[c].rule].acts
      <4>1. CASE c # e
        <5>1. /\ pc[c] = "transact" /\ mem'[c] = mem[c] /\ req[c].kind = "remove"
              /\ mem[c].rule \in DOMAIN rules
          BY <2>2, <3>3, <3>8, <4>1 DEF OthersStay, InStage, UpdateOf
        <5>2. PICK i : i = mem[c].rule
          OBVIOUS
        <5>3. ~(CreateAction(e) /\ i = mem[e].rule)
          <6> SUFFICES ASSUME CreateAction(e), i = mem[e].rule PROVE FALSE
            OBVIOUS
          <6>1. pc[e] = "op" /\ req[e].kind = "update"
            BY <1>1, ActionWrites DEF WritesActions, UpdateOf, CreateAction, OnAction
          <6> QED
            BY <3>1, <5>1, <5>2, <6>1
        <5> QED
          BY <1>1, <2>1, <3>1, <5>1, <5>2, <5>3, LiveKept
      <4>2. CASE c = e
        <5>1. ASSUME NEW r \in Requests, Start(e, r)
              PROVE  FALSE
          BY <1>1, <3>8, <4>2, <5>1, RequestKind DEF Start, TypeInv, ClientsTyped
        <5>2. pc[e] # "idle" /\ Goes(e, pc'[e], mem'[e])
          BY <1>1, <2>1, <3>8, <4>2, <5>1, RequestsKept DEF Ends
        <5>3. req[e].kind = "remove" /\ pc[e] \in {"collect", "transact"}
          <6>1. req'[e].kind = "remove"
            BY <3>3, <3>8, <4>2 DEF InStage, UpdateOf
          <6> QED
            BY <3>4, <5>2, <6>1 DEF Goes
        <5>4. CollectActions(e)
          <6>1. CollectActions(e) \/ SoftDelete(e) \/ Abort(e)
            BY <2>1, <5>3 DEF Steps, Start, Find, CheckDuplicate, Insert, UpdateParent,
               DeleteCondition, CreateCondition, FindCondition, RewriteCondition,
               DeleteAction, CreateAction, FindAction, FindConfig, WriteConfig, Reload,
               OnCondition, OnAction
          <6> QED
            BY <1>1, <3>8, <4>2, <6>1, SoftDeleteStep, ReloadStep DEF Ends
        <5>5. PICK m \in Locals : m = mem[e]
          BY <1>1 DEF TypeInv, ClientsTyped
        <5>6. /\ rules' = rules
              /\ mem'[e] = [m EXCEPT !.collected = DOMAIN rules[m.rule].acts]
          BY <1>1, <5>4, <5>5, CollectStep DEF Goes
        <5> QED
          BY <4>2, <5>6 DEF Locals
      <4> QED
        BY <4>1, <4>2
    <3>9. \A i \in DOMAIN rules' : rules'[i].live \/ AllDeleted(rules'[i])
      <4>1. CASE Reads(e)
        BY <3>1, <4>1, ReadsOnly
      <4>2. CASE WritesOwnConditions(e)
        <5>1. rules[mem[e].rule].live /\ mem[e].rule \in DOMAIN rules
          BY <1>1, <3>1, <4>2, ConditionWrites DEF UpdateOf, PastFind
        <5> QED
          BY <1>1, <3>1, <4>2, <5>1, ConditionWrites
      <4>3. CASE WritesActions(e)
        <5>1. rules[mem[e].rule].live /\ mem[e].rule \in DOMAIN rules
          BY <1>1, <3>1, <4>3, ActionWrites DEF UpdateOf, PastFind
        <5>2. /\ DOMAIN rules' = DOMAIN rules
              /\ \A j \in DOMAIN rules :
                   /\ rules'[j].conds = rules[j].conds /\ rules'[j].live = rules[j].live
          BY <1>1, <4>3, ActionWrites
        <5>3. ASSUME NEW i \in DOMAIN rules, ~rules[i].live
              PROVE  AllDeleted(rules'[i])
          <6>1. LiveShapes(rules[i].conds) = {} /\ ActionsGone(rules[i].acts)
            BY <3>1, <5>3 DEF AllDeleted, ActionsGone
          <6>2. rules'[i].acts = rules[i].acts
                  \/ \E ids : rules'[i].acts = ConfigsMarked(rules[i].acts, ids)
            <7>1. ASSUME NEW j, NEW rows, WritesActs(j, rows)
                  PROVE  /\ i # j => rules'[i] = rules[i]
                         /\ i = j => rules'[i].acts = rows
              <8>1. j \in DOMAIN rules
                BY <7>1 DEF WritesActs, Edits
              <8> QED
                BY <3>2, <7>1, <8>1, WriteStep
            <7>2. CASE DeleteAction(e)
              BY ZenonT(40), <1>1, <5>1, <5>3, <7>1, <7>2, DeleteActionStep
            <7>3. CASE CreateAction(e)
              BY <1>1, <5>1, <5>3, <7>1, <7>3, CreateActionStep
            <7>4. CASE WriteConfig(e)
              BY <1>1, <5>1, <5>3, <7>1, <7>4, WriteConfigStep
            <7> QED
              BY <4>3, <7>2, <7>3, <7>4 DEF WritesActions
          <6>3. ActionsGone(rules'[i].acts)
            <7>1. PICK acts \in Seq(ActionRow) : acts = rules[i].acts
              BY <3>2, RuleFields
            <7> QED
              BY <6>1, <6>2, <7>1, GoneStays
          <6> QED
            BY <5>2, <6>1, <6>3 DEF AllDeleted, ActionsGone
        <5> QED
          BY <3>1, <5>2, <5>3
      <4>4. CASE Insert(e)
        <5>1. PICK new \in Rule : rules' = Append(rules, new) /\ new.live = TRUE
          BY <1>1, <4>4, InsertStep DEF NewRule
        <5> QED
          BY <3>1, <3>2, <5>1, AddMember
      <4>5. CASE SoftDelete(e)
        <5>1. PICK i \in DOMAIN rules :
                /\ i = mem[e].rule
                /\ Edits(i, Removed(rules[i], mem[e].collected))
          BY <1>1, <4>5, SoftDeleteStep DEF Edits
        <5>2. mem[e].collected = DOMAIN rules[i].acts
          BY <1>1, <3>1, <4>5, <5>1, SoftDeleteStep
        <5>3. PICK gone : gone = Removed(rules[i], DOMAIN rules[i].acts)
          OBVIOUS
        <5>4. AllDeleted(gone) /\ Edits(i, gone)
          BY <3>2, <5>1, <5>2, <5>3, AllRemoved
        <5> QED
          BY <3>1, <3>2, <5>4, EditStep
      <4> QED
        BY <2>1, <4>1, <4>2, <4>3, <4>4, <4>5, KindsOfSteps
    <3> QED
      BY <3>6, <3>7, <3>8, <3>9
  <2> QED
    BY <1>1, <2>2, <2>3 DEF RemovalInv, Without, PastFind
<1> QED
  BY <1>2, <1>3

(* Removing a rule is one transaction: unless an update is under way on    *)
(* the same rule, nothing below a deleted rule stays live.                 *)
THEOREM RulesDeletedTogether == Spec => []DeletedTogether
<1>1. RemovalInv => DeletedTogether
  BY Zenon DEF RemovalInv, DeletedTogether
<1> QED
  BY <1>1, RemovalInit, RemovalStep, PTL DEF Spec

-----------------------------------------------------------------------------
(* Notification configs.                                                   *)
LEMMA ReachWrite ==
  ASSUME TypeInv, NEW c \in Clients, Steps(c), pc'[c] = "write"
  PROVE  FindAction(c) \/ FindConfig(c)
<1>1. pc \in [Clients -> Stages]
  BY DEF TypeInv, ClientsTyped
<1>2. ~Ends(c)
  BY DEF Ends
<1>3. \A k : ~GoToOp(c, k)
  BY <1>1 DEF GoToOp, GoTo
<1>4. ~NextOp(c)
  BY <1>3 DEF NextOp
<1>5. \A r \in Requests : ~Start(c, r)
  BY <1>1, RequestKind DEF Start
<1>6. ~Find(c) /\ ~CheckDuplicate(c)
  BY <1>1, <1>2, <1>3, FindStep DEF CheckDuplicate, GoTo, Finish
<1>7. ~Insert(c) /\ ~CollectActions(c) /\ ~SoftDelete(c) /\ ~Reload(c) /\ ~Abort(c)
  BY <1>1, <1>2, SoftDeleteStep, ReloadStep DEF Insert, CollectActions, GoTo
<1>8. ~UpdateParent(c) /\ ~FindCondition(c)
  BY <1>1, <1>3 DEF UpdateParent, FindCondition, GoTo, Finish
<1> QED
  BY <1>4, <1>5, <1>6, <1>7, <1>8
     DEF Steps, DeleteCondition, CreateCondition, RewriteCondition, DeleteAction,
         CreateAction, WriteConfig

\* What the guard of updateNotificationConfig() asks of the config it read.
Suffices(op, config) == op.named \/ config.named => op.channel \/ config.channel

\* A row once written: the columns a step names are set, the others kept.
SameColumns(new, old) == new.named = old.named /\ new.channel = old.channel

LEMMA ColumnsKept ==
  ASSUME TypeInv, NEW c \in Clients, Steps(c), NEW i \in DOMAIN rules,
         NEW k \in DOMAIN rules[i].acts
  PROVE  /\ i \in DOMAIN rules' /\ k \in DOMAIN rules'[i].acts
         /\ \/ SameColumns(rules'[i].acts[k], rules[i].acts[k])
            \/ /\ WriteConfig(c) /\ i = mem[c].rule /\ k = Op(c).id /\ IsActionOp(Op(c))
               /\ rules'[i].acts[k].named = (rules[i].acts[k].named \/ Op(c).named)
               /\ rules'[i].acts[k].channel = (rules[i].acts[k].channel \/ Op(c).channel)
<1>1. rules \in Seq(Rule) /\ rules[i] \in Rule /\ Grown(rules')
  BY Member, EachStepTyped DEF TypeInv, StepTyped
<1>2. PICK acts \in Seq(ActionRow) : acts = rules[i].acts
  BY <1>1, RuleFields
<1>3. PICK old \in ActionRow : old = acts[k]
  BY <1>2, Member
<1>4. i \in DOMAIN rules' /\ k \in DOMAIN rules'[i].acts
  BY <1>1 DEF Grown
<1>5. ASSUME NEW j, NEW rows, WritesActs(j, rows)
      PROVE  /\ i # j => rules'[i] = rules[i]
             /\ i = j => rules'[i].acts = rows
  <2>1. j \in DOMAIN rules
    BY <1>5 DEF WritesActs, Edits
  <2> QED
    BY <1>1, <1>5, <2>1, WriteStep
<1>6. ASSUME NEW ids
      PROVE  /\ SameColumns(ConfigsMarked(acts, ids)[k], old)
             /\ SameColumns(Marked(ConfigsMarked(acts, ids), ids)[k], old)
             /\ SameColumns(ConfigsMarked(Marked(acts, DOMAIN acts), ids)[k], old)
  <2>1. PICK some \in Seq(ActionRow), gone \in Seq(ActionRow) :
           /\ some = ConfigsMarked(acts, ids) /\ gone = Marked(acts, DOMAIN acts)
           /\ DOMAIN some = DOMAIN acts /\ DOMAIN gone = DOMAIN acts
           /\ some[k] = IF k \in ids THEN [old EXCEPT !.cfgLive = FALSE] ELSE old
           /\ gone[k] = [old EXCEPT !.live = FALSE]
    BY <1>2, <1>3, MarkedActions
  <2>2. SameColumns(some[k], old) /\ SameColumns(gone[k], old)
    BY <2>1 DEF SameColumns, ActionRow
  <2>3. some[k] \in ActionRow /\ gone[k] \in ActionRow
    BY <1>2, <2>1, Member
  <2>6. k \in DOMAIN some /\ k \in DOMAIN gone
    BY <1>2, <2>1
  <2>7. Marked(some, ids)[k] = IF k \in ids THEN [some[k] EXCEPT !.live = FALSE] ELSE some[k]
    BY <2>6, MarkedActions
  <2>4. ConfigsMarked(gone, ids)[k]
          = IF k \in ids THEN [gone[k] EXCEPT !.cfgLive = FALSE] ELSE gone[k]
    BY <2>6, MarkedActions
  <2>5. SameColumns(Marked(some, ids)[k], old) /\ SameColumns(ConfigsMarked(gone, ids)[k], old)
    BY <2>2, <2>3, <2>7, <2>4 DEF SameColumns, ActionRow
  <2> QED
    BY <2>1, <2>2, <2>5
<1>7. CASE Reads(c)
  BY <1>4, <1>7, ReadsOnly DEF SameColumns
<1>8. CASE WritesOwnConditions(c)
  BY <1>4, <1>8, ConditionWrites DEF SameColumns
<1>9. CASE DeleteAction(c)
  <2>1. PICK j, ids :
          \/ rules' = rules
          \/ WritesActs(j, ConfigsMarked(rules[j].acts, ids))
          \/ WritesActs(j, Marked(ConfigsMarked(rules[j].acts, ids), ids))
    BY <1>9, DeleteActionStep
  <2>2. CASE rules' = rules
    BY <1>4, <2>2 DEF SameColumns
  <2>3. CASE i # j
    BY <1>4, <1>5, <2>1, <2>3 DEF SameColumns
  <2>4. CASE i = j /\ rules' # rules
    <3>1. \/ rules'[i].acts = ConfigsMarked(acts, ids)
          \/ rules'[i].acts = Marked(ConfigsMarked(acts, ids), ids)
      BY <1>2, <1>5, <2>1, <2>4
    <3> QED
      BY <1>2, <1>3, <1>4, <1>6, <3>1
  <2> QED
    BY <2>2, <2>3, <2>4
<1>10. CASE CreateAction(c)
  <2>1. PICK row \in ActionRow :
           WritesActs(mem[c].rule, Append(rules[mem[c].rule].acts, row))
    BY <1>10, CreateActionStep, CreatedAction
  <2>2. Append(acts, row)[k] = old
    BY <1>2, <1>3, AddMember
  <2> QED
    BY <1>2, <1>3, <1>4, <1>5, <2>1, <2>2 DEF SameColumns
<1>11. CASE WriteConfig(c)
  <2>1. PICK j, l : j = mem[c].rule /\ l = Op(c).id
    BY SMTT(30)
  <2>2. PICK n \in BOOLEAN, h \in BOOLEAN : n = Op(c).named /\ h = Op(c).channel
    BY ZenonT(40), <1>11, WriteConfigStep DEF IsActionOp
  <2>3. WritesActs(j, [rules[j].acts EXCEPT ![l] =
                        [rules[j].acts[l] EXCEPT !.named = @ \/ n, !.channel = @ \/ h]])
    BY <1>11, <2>1, <2>2, WriteConfigStep
  <2>4. CASE i # j
    BY <1>4, <1>5, <2>3, <2>4 DEF SameColumns
  <2>5. CASE i = j
    <3>1. PICK new : new = [rules[j].acts[l] EXCEPT !.named = @ \/ n, !.channel = @ \/ h]
      OBVIOUS
    <3>2. rules'[i].acts = [acts EXCEPT ![l] = new]
      BY <1>2, <1>5, <2>3, <2>5, <3>1
    <3>3. rules'[i].acts[k] = IF k = l THEN new ELSE old
      <4>1. acts \in [1..Len(acts) -> ActionRow]
        BY LenProperties
      <4> QED
        BY <1>2, <1>3, <3>2, <4>1
    <3>4. CASE k # l
      BY SMTT(30), <1>2, <1>3, <1>4, <3>3, <3>4 DEF SameColumns
    <3>5. CASE k = l
      <4>1. new = [old EXCEPT !.named = @ \/ n, !.channel = @ \/ h]
        BY <1>2, <1>3, <2>5, <3>1, <3>5
      <4>2. new.named = (old.named \/ n) /\ new.channel = (old.channel \/ h)
        BY <4>1 DEF ActionRow
      <4> QED
        BY <1>2, <1>3, <1>4, <1>11, <2>1, <2>2, <2>5, <3>3, <3>5, <4>2, WriteConfigStep
    <3> QED
      BY <3>4, <3>5
  <2> QED
    BY <2>4, <2>5
<1>12. CASE Insert(c)
  <2>1. PICK new \in Rule : rules' = Append(rules, new)
    BY <1>12, InsertStep
  <2>2. rules'[i] = rules[i]
    BY <1>1, <2>1, AddMember
  <2> QED
    BY <1>4, <2>2 DEF SameColumns
<1>13. CASE SoftDelete(c)
  <2>1. PICK j, ids :
          /\ j \in DOMAIN rules /\ j = mem[c].rule /\ rules[j] \in Rule
          /\ Edits(j, Removed(rules[j], ids))
    BY <1>1, <1>13, SoftDeleteStep, Member DEF Edits
  <2>2. PICK gone : gone = Removed(rules[j], ids)
    OBVIOUS
  <2>3. /\ Edits(j, gone)
        /\ gone.acts = ConfigsMarked(Marked(rules[j].acts, DOMAIN rules[j].acts), ids)
    BY <2>1, <2>2, RemovedRule
  <2>4. /\ rules'[j] = gone
        /\ i # j => rules'[i] = rules[i]
    BY <1>1, <2>3, EditStep
  <2> QED
    BY <1>2, <1>3, <1>4, <1>6, <2>3, <2>4 DEF SameColumns
<1> QED
  BY <1>7, <1>8, <1>9, <1>10, <1>11, <1>12, <1>13, KindsOfSteps DEF WritesActions

\* What a request knew of a config before it writes still suffices.
ChannelInv ==
  /\ TypeInv
  /\ \A c \in Clients :
       pc[c] = "write" /\ Op(c).kind = "notification"
         => Suffices(Op(c), rules[mem[c].rule].acts[Op(c).id])

LEMMA ChannelStep == ChannelInv /\ [Next]_vars => ChannelInv'
<1> SUFFICES ASSUME ChannelInv, [Next]_vars PROVE ChannelInv'
  OBVIOUS
<1>1. TypeInv /\ TypeInv'
  BY TypeStep DEF ChannelInv
<1>2. CASE UNCHANGED vars
  BY <1>1, <1>2 DEF ChannelInv, vars, Op
<1>3. CASE Next
  <2>1. PICK e \in Clients : Steps(e)
    BY <1>3 DEF Next, Steps
  <2>2. OthersStay(e)
    BY <1>1, <2>1, RequestsKept
  <2>3. ASSUME NEW c \in Clients, pc'[c] = "write", Op(c)'.kind = "notification"
        PROVE  Suffices(Op(c)', rules'[mem'[c].rule].acts[Op(c)'.id])
    <3>1. CASE c # e
      <4>1. /\ pc[c] = "write" /\ mem'[c] = mem[c] /\ req'[c] = req[c]
        BY <2>2, <2>3, <3>1 DEF OthersStay
      <4>2. Op(c)' = Op(c)
        BY <4>1 DEF Op
      <4>3. PICK op, i, k : op = Op(c) /\ i = mem[c].rule /\ k = op.id
        OBVIOUS
      <4>4. /\ i \in DOMAIN rules /\ k \in DOMAIN rules[i].acts /\ IsActionOp(op)
        BY <1>1, <4>1, <4>3, AtOperation DEF TypeInv, InStage, UpdateOf, Op
      <4>5. PICK old, new : old = rules[i].acts[k] /\ new = rules'[i].acts[k]
        OBVIOUS
      <4>6. Suffices(op, old)
        BY <2>3, <4>1, <4>2, <4>3, <4>5 DEF ChannelInv
      <4>7. Suffices(op, new)
        <5>1. CASE SameColumns(new, old)
          BY <4>6, <5>1 DEF Suffices, SameColumns
        <5>2. CASE ~SameColumns(new, old)
          <6>1. PICK other : other = Op(e)
            OBVIOUS
          <6>2. /\ WriteConfig(e) /\ i = mem[e].rule /\ k = other.id /\ IsActionOp(other)
                /\ new.named = (old.named \/ other.named)
                /\ new.channel = (old.channel \/ other.channel)
            BY <1>1, <2>1, <4>4, <4>5, <5>2, <6>1, ColumnsKept
          <6>3. pc[e] = "write"
            BY <6>2 DEF WriteConfig
          <6>4. CASE other.kind = "notification"
            <7>1. Suffices(other, old)
              BY <4>5, <6>1, <6>2, <6>3, <6>4 DEF ChannelInv
            <7> QED
              BY <4>6, <6>2, <7>1 DEF Suffices
          <6>5. CASE other.kind # "notification"
            BY <4>6, <6>2, <6>5 DEF Suffices, IsActionOp
          <6> QED
            BY <6>4, <6>5
        <5> QED
          BY <5>1, <5>2
      <4> QED
        BY <4>1, <4>2, <4>3, <4>5, <4>7
    <3>2. CASE c = e
      <4>1. FindAction(e) \/ FindConfig(e)
        BY <1>1, <2>1, <2>3, <3>2, ReachWrite
      <4>2. CASE FindAction(e)
        <5>1. Goes(e, "write", mem[e]) /\ Op(e).kind # "notification"
          BY <1>1, <2>3, <3>2, <4>2, FindActionStep DEF Ends, Goes
        <5>2. Op(e)' = Op(e)
          BY <5>1 DEF Goes, Op
        <5> QED
          BY <2>3, <3>2, <5>1, <5>2
      <4>3. CASE FindConfig(e)
        <5>1. /\ Goes(e, "write", mem[e]) /\ rules' = rules
              /\ Suffices(Op(e), rules[mem[e].rule].acts[Op(e).id])
          BY <1>1, <2>3, <3>2, <4>3, FindConfigStep DEF Ends, Goes, Suffices
        <5>2. Op(e)' = Op(e)
          BY <5>1 DEF Goes, Op
        <5> QED
          BY <3>2, <5>1, <5>2 DEF Goes
      <4> QED
        BY <4>1, <4>2, <4>3
    <3> QED
      BY <3>1, <3>2
  <2> QED
    BY <1>1, <2>3 DEF ChannelInv
<1> QED
  BY <1>2, <1>3

LEMMA ChannelChange ==
  ChannelInv /\ [Next]_vars =>
    [\A i \in DOMAIN rules : \A k \in DOMAIN rules[i].acts :
       Undeliverable(i, k)' => Undeliverable(i, k)]_vars
<1> SUFFICES ASSUME ChannelInv, Next, NEW i \in DOMAIN rules, NEW k \in DOMAIN rules[i].acts,
                    Undeliverable(i, k)'
             PROVE  Undeliverable(i, k)
  OBVIOUS
<1>1. PICK e \in Clients : Steps(e)
  BY DEF Next, Steps
<1>2. TypeInv /\ rules \in Seq(Rule)
  BY DEF ChannelInv, TypeInv
<1>3. PICK old, new : old = rules[i].acts[k] /\ new = rules'[i].acts[k]
  OBVIOUS
<1>4. new.named /\ ~new.channel
  BY <1>3 DEF Undeliverable
<1>5. CASE SameColumns(new, old)
  BY <1>3, <1>4, <1>5 DEF SameColumns, Undeliverable
<1>6. CASE ~SameColumns(new, old)
  <2>1. PICK op : op = Op(e)
    OBVIOUS
  <2>2. /\ WriteConfig(e) /\ i = mem[e].rule /\ k = op.id /\ IsActionOp(op)
        /\ new.named = (old.named \/ op.named) /\ new.channel = (old.channel \/ op.channel)
    BY SMTT(30), <1>1, <1>2, <1>3, <1>6, <2>1, ColumnsKept
  <2>3. op.kind = "notification" => Suffices(op, old)
    BY <1>3, <2>1, <2>2 DEF ChannelInv, WriteConfig
  <2> QED
    BY <1>3, <1>4, <2>2, <2>3 DEF Suffices, Undeliverable, IsActionOp
<1> QED
  BY <1>5, <1>6

(* The guard on eventName and pushChannel is read before the write, and    *)
(* overlapping updates write in between: still no step makes a config with *)
(* a name and no channel.                                                  *)
THEOREM ConfigsStayDeliverable == Spec => EventHasChannel
<1>1. Init => ChannelInv
  BY TypeInit DEF ChannelInv, Init
<1>2. ChannelInv /\ [Next]_vars =>
        [\A i \in DOMAIN rules : \A k \in DOMAIN rules[i].acts :
           Undeliverable(i, k)' => Undeliverable(i, k)]_vars
  BY ChannelChange
<1> QED
  BY <1>1, <1>2, ChannelStep, PTL DEF Spec, EventHasChannel

=============================================================================
