--------------------------- MODULE RuleBookProofs ---------------------------
(***************************************************************************)
(* That RuleStore predicts what it stores, keeps live rules distinct and   *)
(* implements RuleBook, for every set of clients, requests and rules.  The *)
(* invariant says how far along the predicted path of rows an update is,   *)
(* and that the answer of a duplicate check holds until its last write.    *)
(***************************************************************************)
EXTENDS RuleStoreProofs

-----------------------------------------------------------------------------
(* What the tables hold of what was foreseen.                              *)
LEMMA StoredMatches ==
  ASSUME NEW s \in Shape, NEW data
  PROVE  matchCondition(Stored(s), data) <=> matchCondition(s, data)
<1>1. CASE s.operator # "exists"
  BY <1>1 DEF Stored
<1>2. CASE s.operator = "exists"
  <2>1. PICK t \in Shape : t = Stored(s)
    BY StoredShape
  <2>2. /\ t.operator = "exists" /\ t.field = s.field
        /\ t.value = Yes <=> s.value = Yes
    BY <1>2, <2>1, ValuesAssumption DEF Stored, Shape
  <2> QED
    BY <1>2, <2>1, <2>2 DEF matchCondition
<1> QED
  BY <1>1, <1>2

AllStorable(rows) == \A k \in DOMAIN rows : Storable(rows[k].shape)

\* Row by row, what a write makes of the rows foreseen.
Mirrors(rows, foreseen) ==
  /\ rows \in Rows /\ foreseen \in Rows /\ DOMAIN rows = DOMAIN foreseen
  /\ \A k \in DOMAIN rows : /\ rows[k].live = foreseen[k].live
                            /\ rows[k].shape = Stored(foreseen[k].shape)

LEMMA SameMirrors ==
  ASSUME NEW rows \in Rows, AllStorable(rows)
  PROVE  Mirrors(rows, rows)
  BY DEF Mirrors, AllStorable, Storable

LEMMA RowsMember ==
  ASSUME NEW rows \in Rows
  PROVE  /\ Len(rows) \in Nat /\ DOMAIN rows = 1..Len(rows)
         /\ rows \in [1..Len(rows) -> ConditionRow]
         /\ \A k \in DOMAIN rows : /\ rows[k] \in ConditionRow /\ rows[k].shape \in Shape
                                   /\ rows[k].live \in BOOLEAN
<1>1. rows \in Seq(ConditionRow)
  BY DEF Rows
<1>2. \A k \in DOMAIN rows : rows[k] \in ConditionRow
  BY <1>1, Member
<1> QED
  BY <1>1, <1>2, LenProperties DEF ConditionRow

LEMMA MirrorsStorable ==
  ASSUME NEW rows, NEW foreseen, Mirrors(rows, foreseen), AllStorable(foreseen)
  PROVE  rows = foreseen
<1>1. rows \in Rows /\ foreseen \in Rows /\ DOMAIN rows = DOMAIN foreseen
  BY DEF Mirrors
<1>2. PICK n \in Nat : rows \in [1..n -> ConditionRow] /\ DOMAIN rows = 1..n
  BY <1>1, RowsMember
<1>3. foreseen \in [1..n -> ConditionRow]
  BY <1>1, <1>2, RowsMember
<1>4. ASSUME NEW k \in 1..n PROVE rows[k] = foreseen[k]
  <2>1. rows[k].live = foreseen[k].live /\ rows[k].shape = foreseen[k].shape
    BY <1>1, <1>2 DEF Mirrors, AllStorable, Storable
  <2>2. rows[k] \in ConditionRow /\ foreseen[k] \in ConditionRow
    BY <1>2, <1>3
  <2> QED
    BY <2>1, <2>2 DEF ConditionRow
<1> QED
  BY <1>2, <1>3, <1>4

LEMMA ShapesOfNormalized ==
  ASSUME NEW rows
  PROVE  {sn[1] : sn \in Normalized(rows)} = LiveShapes(rows)
<1> DEFINE Count(s) ==
             Cardinality({i \in DOMAIN rows : rows[i] = [shape |-> s, live |-> TRUE]})
<1>1. Normalized(rows) = {<<s, Count(s)>> : s \in LiveShapes(rows)}
  BY DEF Normalized
<1> HIDE DEF Count
<1>2. \A s : <<s, Count(s)>>[1] = s
  OBVIOUS
<1> QED
  BY ZenonT(40), <1>1, <1>2

LEMMA MirrorsMatch ==
  ASSUME NEW rows, NEW foreseen, Mirrors(rows, foreseen), NEW data
  PROVE  matchConditions(LiveShapes(rows), data)
           <=> matchConditions(LiveShapes(foreseen), data)
<1>1. /\ rows \in Rows /\ foreseen \in Rows /\ DOMAIN rows = DOMAIN foreseen
      /\ \A k \in DOMAIN rows : /\ rows[k].live = foreseen[k].live
                                /\ rows[k].shape = Stored(foreseen[k].shape)
  BY DEF Mirrors
<1>2. ASSUME NEW k \in DOMAIN rows
      PROVE  matchCondition(rows[k].shape, data) <=> matchCondition(foreseen[k].shape, data)
  <2>1. foreseen[k].shape \in Shape
    BY <1>1, RowsMember
  <2> QED
    BY <1>1, <2>1, StoredMatches
<1>3. /\ \A s : s \in LiveShapes(rows) <=> \E k \in DOMAIN rows : rows[k].live /\ s = rows[k].shape
      /\ \A s : s \in LiveShapes(foreseen)
                  <=> \E k \in DOMAIN rows : foreseen[k].live /\ s = foreseen[k].shape
  BY <1>1 DEF LiveShapes
<1> QED
  BY <1>1, <1>2, <1>3 DEF matchConditions

-----------------------------------------------------------------------------
(* Each operation does to the tables what it does to the prediction.       *)
LEMMA ForeseeDelete ==
  ASSUME NEW rows, NEW f, Mirrors(rows, f), NEW op, IsConditionOp(op), op.do = "delete",
         NEW ids, \A x : x \in ids <=> x = op.id
  PROVE  /\ Mirrors(Marked(rows, ids), Foresee(f, op))
         /\ DOMAIN Foresee(f, op) = DOMAIN f
         /\ \A x \in DOMAIN f : Foresee(f, op)[x].shape = f[x].shape
<1>1. rows \in Rows /\ rows \in Seq(ConditionRow) /\ f \in Rows /\ f \in Seq(ConditionRow)
      /\ DOMAIN rows = DOMAIN f
  BY DEF Mirrors, Rows
<1>9. PICK new : new = Marked(rows, ids)
  OBVIOUS
<1>10. /\ Marked(rows, ids) \in Seq(ConditionRow)
       /\ DOMAIN Marked(rows, ids) = DOMAIN rows
       /\ \A k \in DOMAIN rows :
            Marked(rows, ids)[k] =
              IF k \in ids THEN [rows[k] EXCEPT !.live = FALSE] ELSE rows[k]
  <2>1. rows \in Seq(ConditionRow)
    BY <1>1
  <2> QED
    BY <2>1, MarkedRows
<1>2. /\ new \in Seq(ConditionRow) /\ DOMAIN new = DOMAIN rows
      /\ \A k \in DOMAIN rows :
           new[k] = IF k = op.id THEN [rows[k] EXCEPT !.live = FALSE] ELSE rows[k]
  <2>1. /\ new \in Seq(ConditionRow) /\ DOMAIN new = DOMAIN rows
        /\ \A k \in DOMAIN rows :
             new[k] = IF k \in ids THEN [rows[k] EXCEPT !.live = FALSE] ELSE rows[k]
    BY <1>9, <1>10
  <2> QED
    BY <2>1
<1>3. PICK g : g = Foresee(f, op)
  OBVIOUS
<1>4. g \in Rows
  BY <1>1, <1>3, ForeseeRows
<1>5. \A k \in DOMAIN f : rows[k] \in ConditionRow /\ f[k] \in ConditionRow
  BY <1>1, Member
<1>6. CASE ~IsLiveRow(f, op.id)
  <2>1. g = f
    BY <1>3, <1>6 DEF Foresee
  <2>2. ASSUME NEW k \in DOMAIN rows
        PROVE  new[k].live = g[k].live /\ new[k].shape = Stored(g[k].shape)
    BY <1>1, <1>2, <1>5, <1>6, <2>1 DEF Mirrors, IsLiveRow, ConditionRow
  <2> QED
    BY <1>1, <1>2, <1>3, <1>4, <1>9, <2>1, <2>2 DEF Mirrors, Rows
<1>7. CASE IsLiveRow(f, op.id)
  <2>1. PICK i : i = op.id /\ i \in DOMAIN f
    BY <1>7 DEF IsLiveRow
  <2>2. g = [f EXCEPT ![i] = [f[i] EXCEPT !.live = FALSE]]
    BY <1>3, <1>7, <2>1 DEF Foresee
  <2>3. PICK dead : dead = [f[i] EXCEPT !.live = FALSE] /\ dead \in ConditionRow
    <3>1. PICK last \in ConditionRow : last = f[i]
      BY <1>5, <2>1
    <3>2. [last EXCEPT !.live = FALSE] \in ConditionRow
      BY DEF ConditionRow
    <3> QED
      BY <3>1, <3>2
  <2>4. DOMAIN g = DOMAIN f /\ \A k \in DOMAIN f : g[k] = IF k = i THEN dead ELSE f[k]
    BY <1>1, <2>2, <2>3, PutMember
  <2>5. dead.live = FALSE /\ dead.shape = f[i].shape
    BY <1>5, <2>1, <2>3 DEF ConditionRow
  <2>6. ASSUME NEW k \in DOMAIN rows
        PROVE  new[k].live = g[k].live /\ new[k].shape = Stored(g[k].shape)
    <3>1. rows[k].live = f[k].live /\ rows[k].shape = Stored(f[k].shape)
      BY DEF Mirrors
    <3>2. CASE k = i
      <4>1. new[k].live = FALSE /\ new[k].shape = rows[k].shape
        BY <1>1, <1>2, <1>5, <2>1, <3>2 DEF ConditionRow
      <4> QED
        BY <1>1, <2>4, <2>5, <3>1, <3>2, <4>1
    <3>3. CASE k # i
      BY <1>1, <1>2, <2>1, <2>4, <3>1, <3>3
    <3> QED
      BY <3>2, <3>3
  <2> QED
    BY <1>1, <1>2, <1>3, <1>4, <1>9, <2>4, <2>5, <2>6 DEF Mirrors, Rows
<1> QED
  BY <1>6, <1>7

Deleted(rows, op) == Marked(rows, {op.id})

LEMMA DeleteForeseen ==
  ASSUME NEW rows, NEW f, NEW g, Mirrors(rows, f),
         NEW op, IsConditionOp(op), op.do = "delete", g = Foresee(f, op)
  PROVE  /\ Mirrors(Deleted(rows, op), g) /\ DOMAIN g = DOMAIN f
         /\ \A x \in DOMAIN f : g[x].shape = f[x].shape
<1>1. PICK ids : ids = {op.id}
  OBVIOUS
<1>2. \A x : x \in ids <=> x = op.id
  BY <1>1
<1>3. Mirrors(Marked(rows, ids), Foresee(f, op))
  BY <1>2, ForeseeDelete
<1>4. /\ DOMAIN Foresee(f, op) = DOMAIN f
      /\ \A x \in DOMAIN f : Foresee(f, op)[x].shape = f[x].shape
  BY <1>2, ForeseeDelete
<1> QED
  BY <1>1, <1>3, <1>4 DEF Deleted

LEMMA ForeseeCreate ==
  ASSUME NEW rows, NEW f, Mirrors(rows, f), NEW op, IsConditionOp(op), op.do = "create"
  PROVE  /\ Mirrors(Append(rows, [shape |-> op.put, live |-> TRUE]), Foresee(f, op))
         /\ \A x \in DOMAIN Foresee(f, op) :
              \/ x \in DOMAIN f /\ Foresee(f, op)[x].shape = f[x].shape
              \/ Storable(Foresee(f, op)[x].shape)
<1>1. rows \in Rows /\ rows \in Seq(ConditionRow) /\ f \in Rows /\ f \in Seq(ConditionRow)
      /\ DOMAIN rows = DOMAIN f
  BY DEF Mirrors, Rows
<1>2. PICK s \in Shape : s = op.put /\ Storable(s)
  BY CreatedStorable DEF IsConditionOp
<1>3. PICK row \in ConditionRow :
        row = [shape |-> op.put, live |-> TRUE] /\ row.shape = s /\ row.live = TRUE
  <2> DEFINE new == [shape |-> s, live |-> TRUE]
  <2>1. new \in ConditionRow /\ new.shape = s /\ new.live = TRUE
    BY DEF ConditionRow
  <2> QED
    BY <1>2, <2>1
<1>4. PICK n \in Nat : n = Len(rows) /\ n = Len(f) /\ DOMAIN rows = 1..n /\ DOMAIN f = 1..n
  BY <1>1, RowsMember
<1>5. Foresee(f, op) = Append(f, row)
  BY <1>3 DEF Foresee
<1>6. /\ Append(rows, row) \in Seq(ConditionRow) /\ DOMAIN Append(rows, row) = 1..(n + 1)
      /\ \A k \in 1..n : Append(rows, row)[k] = rows[k]
      /\ Append(rows, row)[n + 1] = row
  BY <1>1, <1>4, AddMember
<1>7. /\ Append(f, row) \in Seq(ConditionRow) /\ DOMAIN Append(f, row) = 1..(n + 1)
      /\ \A k \in 1..n : Append(f, row)[k] = f[k]
      /\ Append(f, row)[n + 1] = row
  BY <1>1, <1>4, AddMember
<1>8. \A k \in 1..(n + 1) : k \in 1..n \/ k = n + 1
  OBVIOUS
<1>9. PICK a, b : a = Append(rows, row) /\ b = Append(f, row)
  OBVIOUS
<1>10. ASSUME NEW k \in 1..(n + 1)
       PROVE  a[k].live = b[k].live /\ a[k].shape = Stored(b[k].shape)
  <2>1. CASE k \in 1..n
    <3>1. a[k] = rows[k] /\ b[k] = f[k] /\ k \in DOMAIN f
      BY <1>4, <1>6, <1>7, <1>9, <2>1
    <3> QED
      BY <3>1 DEF Mirrors
  <2>2. CASE k = n + 1
    <3>1. a[k] = row /\ b[k] = row
      BY <1>6, <1>7, <1>9, <2>2
    <3> QED
      BY <1>2, <1>3, <3>1 DEF Storable
  <2> QED
    BY <1>8, <2>1, <2>2
<1>11. Mirrors(a, b)
  BY <1>6, <1>7, <1>9, <1>10 DEF Mirrors, Rows
<1>12. \A x \in DOMAIN b : (x \in DOMAIN f /\ b[x].shape = f[x].shape) \/ Storable(b[x].shape)
  <2>1. ASSUME NEW x \in 1..n PROVE x \in DOMAIN f /\ b[x].shape = f[x].shape
    BY <1>4, <1>7, <1>9
  <2>2. Storable(b[n + 1].shape)
    BY <1>2, <1>3, <1>7, <1>9
  <2> QED
    BY <1>7, <1>8, <1>9, <2>1, <2>2
<1> QED
  BY <1>3, <1>5, <1>9, <1>11, <1>12

LEMMA ForeseeUpdate ==
  ASSUME NEW rows, NEW f, Mirrors(rows, f), NEW op, IsConditionOp(op), op.do = "update",
         IsLiveRow(rows, op.id), Storable(f[op.id].shape)
  PROVE  /\ Mirrors([rows EXCEPT ![op.id] =
                      [rows[op.id] EXCEPT
                         !.shape = Stored(Override(op.put, rows[op.id].shape))]],
                    Foresee(f, op))
         /\ DOMAIN Foresee(f, op) = DOMAIN f
         /\ \A x \in DOMAIN f :
              Foresee(f, op)[x].shape =
                IF x = op.id THEN Override(op.put, f[x].shape) ELSE f[x].shape
<1>1. rows \in Rows /\ rows \in Seq(ConditionRow) /\ f \in Rows /\ f \in Seq(ConditionRow)
      /\ DOMAIN rows = DOMAIN f
  BY DEF Mirrors, Rows
<1>2. PICK i : i = op.id /\ i \in DOMAIN f
  BY <1>1 DEF IsLiveRow
<1>3. \A k \in DOMAIN f : rows[k] \in ConditionRow /\ f[k] \in ConditionRow
  BY <1>1, Member
<1>4. PICK s \in Shape : s = f[i].shape /\ rows[i].shape = s /\ rows[i].live = f[i].live
                         /\ rows[i].live
  BY <1>1, <1>2, <1>3, RowsMember DEF Mirrors, Storable, IsLiveRow
<1>5. PICK t \in Shape : t = Override(op.put, s)
  BY DEF IsConditionOp
<1>6. PICK u \in Shape : u = Stored(t)
  BY StoredShape
<1>7. PICK old \in ConditionRow, last \in ConditionRow : old = rows[i] /\ last = f[i]
  BY <1>2, <1>3
<1>8. PICK new \in ConditionRow, then \in ConditionRow :
        /\ new = [old EXCEPT !.shape = u] /\ new.shape = u /\ new.live = old.live
        /\ then = [last EXCEPT !.shape = t] /\ then.shape = t /\ then.live = last.live
  <2> DEFINE x == [old EXCEPT !.shape = u]
             y == [last EXCEPT !.shape = t]
  <2>1. /\ x \in ConditionRow /\ x.shape = u /\ x.live = old.live
        /\ y \in ConditionRow /\ y.shape = t /\ y.live = last.live
    BY DEF ConditionRow
  <2> QED
    BY <2>1
<1>9. Foresee(f, op) = [f EXCEPT ![i] = then]
  <2>1. IsLiveRow(f, op.id)
    BY <1>2, <1>4 DEF IsLiveRow
  <2> QED
    BY <1>2, <1>4, <1>5, <1>7, <1>8, <2>1 DEF Foresee
<1>10. [rows EXCEPT ![op.id] = [rows[op.id] EXCEPT
           !.shape = Stored(Override(op.put, rows[op.id].shape))]] = [rows EXCEPT ![i] = new]
  BY <1>2, <1>4, <1>5, <1>6, <1>7, <1>8
<1>11. /\ [rows EXCEPT ![i] = new] \in Seq(ConditionRow)
       /\ DOMAIN [rows EXCEPT ![i] = new] = DOMAIN f
       /\ \A k \in DOMAIN f : [rows EXCEPT ![i] = new][k] = IF k = i THEN new ELSE rows[k]
  BY <1>1, PutMember
<1>12. /\ [f EXCEPT ![i] = then] \in Seq(ConditionRow)
       /\ DOMAIN [f EXCEPT ![i] = then] = DOMAIN f
       /\ \A k \in DOMAIN f : [f EXCEPT ![i] = then][k] = IF k = i THEN then ELSE f[k]
  BY <1>1, PutMember
<1>13. PICK a, b : a = [rows EXCEPT ![i] = new] /\ b = [f EXCEPT ![i] = then]
  OBVIOUS
<1>14. ASSUME NEW k \in DOMAIN f
       PROVE  a[k].live = b[k].live /\ a[k].shape = Stored(b[k].shape)
  BY <1>4, <1>6, <1>7, <1>8, <1>11, <1>12, <1>13 DEF Mirrors
<1>15. Mirrors(a, b)
  BY <1>11, <1>12, <1>13, <1>14 DEF Mirrors, Rows
<1> QED
  BY <1>2, <1>4, <1>5, <1>7, <1>8, <1>9, <1>10, <1>12, <1>13, <1>15

-----------------------------------------------------------------------------
(* What create() foresees is what it inserts.                              *)
LEMMA ForeseenCreate ==
  ASSUME NEW r \in Requests, r.kind = "create"
  PROVE  computeFinalConditions(<<>>, r.conds) = NewRule(r).conds
<1>1. /\ Len(r.conds) \in Nat /\ DOMAIN r.conds = 1..Len(r.conds)
      /\ \A k \in 1..Len(r.conds) : IsConditionOp(r.conds[k]) /\ r.conds[k].do = "create"
  BY RequestOps, RequestKind
<1>2. <<>> \in Rows /\ Len(<<>>) = 0
  BY EmptySeq DEF Rows
<1>3. PICK p : /\ IsPath(p, <<>>, r.conds, Len(r.conds))
               /\ computeFinalConditions(<<>>, r.conds) = p[Len(r.conds)]
  BY <1>1, <1>2, FinalOfPath
<1>4. PICK n, rows : n \in Nat /\ n = Len(r.conds) /\ rows = NewRule(r).conds
  BY <1>1
<1>5. rows \in [1..n -> ConditionRow]
  <2>1. rows \in Seq(ConditionRow)
    BY <1>4, NewRuleType, RuleFields
  <2>2. DOMAIN rows = 1..n
    BY <1>1, <1>4 DEF NewRule
  <2> QED
    BY <2>1, <2>2, LenProperties
<1>6. \A k \in 1..n : rows[k] = [shape |-> r.conds[k].put, live |-> TRUE]
  BY <1>1, <1>4, CreatedStorable DEF NewRule, IsConditionOp, Storable
<1> DEFINE Agrees(k) == Len(p[k]) = k /\ \A j \in 1..k : p[k][j] = rows[j]
           Bad == {k \in 0..n : ~Agrees(k)}
<1>7. Bad = {}
  <2> SUFFICES ASSUME Bad # {} PROVE FALSE
    OBVIOUS
  <2>1. PICK k \in Bad : \A l \in Bad : k <= l
    <3>1. Bad \subseteq Nat
      OBVIOUS
    <3> HIDE DEF Bad
    <3> QED
      BY <3>1, Least
  <2>2. CASE k = 0
    <3>1. p[0] = <<>>
      BY <1>3 DEF IsPath
    <3> QED
      BY <1>2, <2>1, <2>2, <3>1
  <2>3. CASE k # 0
    <3>1. k - 1 \in 0..n /\ k \in 1..n /\ k - 1 \notin Bad
      BY <1>4, <2>1, <2>3
    <3>2. PICK q \in Seq(ConditionRow), row \in ConditionRow : q = p[k - 1] /\ row = rows[k]
      <4>1. p[k - 1] \in Seq(ConditionRow)
        BY <1>3, <1>4, <3>1 DEF IsPath, Rows
      <4>2. rows[k] \in ConditionRow
        BY <1>5, <3>1
      <4> QED
        BY <4>1, <4>2
    <3>3. p[k] = Append(q, row)
      <4>1. p[k] = Foresee(q, r.conds[k])
        BY <1>3, <1>4, <3>1, <3>2 DEF IsPath
      <4>2. PICK op : op = r.conds[k]
        OBVIOUS
      <4>3. op.do = "create" /\ row = [shape |-> op.put, live |-> TRUE]
        BY <1>1, <1>4, <1>6, <3>1, <3>2, <4>2
      <4>4. Foresee(q, op) = Append(q, [shape |-> op.put, live |-> TRUE])
        BY <4>3 DEF Foresee
      <4> QED
        BY <4>1, <4>2, <4>3, <4>4
    <3>4. Len(q) = k - 1 /\ \A j \in 1..(k - 1) : q[j] = rows[j]
      BY <3>1, <3>2
    <3>5. /\ Len(p[k]) = k /\ \A j \in 1..(k - 1) : p[k][j] = rows[j]
          /\ p[k][k] = rows[k]
      BY <3>1, <3>2, <3>3, <3>4, AddMember
    <3>6. Agrees(k)
      BY <3>1, <3>5
    <3> QED
      BY <2>1, <3>6
  <2> QED
    BY <2>2, <2>3
<1>8. p[n] \in Rows /\ Agrees(n)
  BY <1>3, <1>4, <1>7 DEF IsPath
<1> HIDE DEF Agrees
<1>9. p[n] = rows
  <2>1. p[n] \in [1..n -> ConditionRow]
    BY <1>8, RowsMember DEF Agrees
  <2> QED
    BY <1>5, <1>8, <2>1 DEF Agrees
<1> QED
  BY <1>3, <1>4, <1>9

-----------------------------------------------------------------------------
(* How far an update has got on the path it foresaw.  fs: the faults.      *)
Allowed(fs, r) ==
  /\ r.kind = "update" =>
       /\ (\A k \in DOMAIN r.conds : ~Retypes(r.conds[k])) \/ "retype" \in fs
       /\ ~ChangesTwice(r) \/ "twice" \in fs
  /\ r.kind = "create" => r.given \/ "bare" \in fs

\* After k operations every shape is as it will be stored, unless one of them made it so.
Plain(fs, r, k, f) ==
  \A x \in DOMAIN f :
    \/ Storable(f[x].shape)
    \/ "retype" \in fs /\ \E j \in 1..k : r.conds[j].do = "update" /\ r.conds[j].id = x

LEMMA OpForeseen ==
  ASSUME NEW fs, NEW r \in Requests, r.kind = "update", Allowed(fs, r),
         "retype" \notin fs \/ "twice" \notin fs,
         NEW k \in 1..Len(r.conds), NEW op, op = r.conds[k],
         NEW first, NEW p, IsPath(p, first, r.conds, Len(r.conds)),
         NEW rows, Mirrors(rows, p[k - 1]), Plain(fs, r, k - 1, p[k - 1])
  PROVE  /\ Plain(fs, r, k, p[k]) \/ (op.do = "update" /\ ~IsLiveRow(rows, op.id))
         /\ op.do = "delete" => Mirrors(Deleted(rows, op), p[k])
         /\ op.do = "create" => Mirrors(Append(rows, [shape |-> op.put, live |-> TRUE]), p[k])
         /\ op.do = "update" /\ IsLiveRow(rows, op.id) =>
              Mirrors([rows EXCEPT ![op.id] = [rows[op.id] EXCEPT
                         !.shape = Stored(Override(op.put, rows[op.id].shape))]], p[k])
<1>1. /\ Len(r.conds) \in Nat /\ DOMAIN r.conds = 1..Len(r.conds) /\ IsConditionOp(op)
      /\ k \in DOMAIN r.conds
  BY RequestOps
<1>2. PICK f, g : f = p[k - 1] /\ g = p[k] /\ g = Foresee(f, op)
  BY DEF IsPath
<1>3. /\ op.do \in {"create", "delete", "update"}
      /\ \A j \in 1..(k - 1) : j \in 1..k /\ j \in 1..Len(r.conds) /\ j # k
      /\ k \in 1..k
  BY <1>1 DEF IsConditionOp
<1>4. CASE op.do = "delete"
  <2>1. /\ Mirrors(Deleted(rows, op), g) /\ DOMAIN g = DOMAIN f
        /\ \A x \in DOMAIN f : g[x].shape = f[x].shape
    <3>1. Mirrors(rows, f) /\ IsConditionOp(op) /\ op.do = "delete" /\ g = Foresee(f, op)
      BY <1>1, <1>2, <1>4
    <3> QED
      BY <3>1, DeleteForeseen
  <2>2. Plain(fs, r, k, g)
    BY <1>2, <1>3, <2>1 DEF Plain
  <2> QED
    BY <1>2, <1>4, <2>1, <2>2
<1>5. CASE op.do = "create"
  <2>1. /\ Mirrors(Append(rows, [shape |-> op.put, live |-> TRUE]), g)
        /\ \A x \in DOMAIN g :
             (x \in DOMAIN f /\ g[x].shape = f[x].shape) \/ Storable(g[x].shape)
    BY <1>1, <1>2, <1>5, ForeseeCreate
  <2>2. Plain(fs, r, k, g)
    BY <1>2, <1>3, <2>1 DEF Plain
  <2> QED
    BY <1>2, <1>5, <2>1, <2>2
<1>6. CASE op.do = "update" /\ ~IsLiveRow(rows, op.id)
  BY <1>6
<1>7. CASE op.do = "update" /\ IsLiveRow(rows, op.id)
  <2>1. op.id \in DOMAIN f /\ f \in Rows
    BY <1>2, <1>7 DEF IsLiveRow, Mirrors
  <2>2. Storable(f[op.id].shape)
    <3> SUFFICES ASSUME ~Storable(f[op.id].shape) PROVE FALSE
      OBVIOUS
    <3>1. PICK j \in 1..(k - 1) : r.conds[j].do = "update" /\ r.conds[j].id = op.id
      BY <1>2, <2>1 DEF Plain
    <3>2. ~ChangesTwice(r)
      BY <1>2, <2>1 DEF Plain, Allowed
    <3> QED
      BY <1>1, <1>3, <1>7, <3>1, <3>2 DEF ChangesTwice
  <2>3. /\ Mirrors([rows EXCEPT ![op.id] = [rows[op.id] EXCEPT
                      !.shape = Stored(Override(op.put, rows[op.id].shape))]], g)
        /\ DOMAIN g = DOMAIN f
        /\ \A x \in DOMAIN f :
             g[x].shape = IF x = op.id THEN Override(op.put, f[x].shape) ELSE f[x].shape
    BY <1>1, <1>2, <1>7, <2>2, ForeseeUpdate
  <2>4. "retype" \notin fs => Storable(Override(op.put, f[op.id].shape))
    <3>1. f[op.id].shape \in Shape
      BY <2>1, RowsMember
    <3> QED
      BY <1>1, <1>7, <2>2, <3>1 DEF Allowed, Retypes
  <2>5. Plain(fs, r, k, g)
    <3> SUFFICES ASSUME NEW x \in DOMAIN g, ~Storable(g[x].shape)
                 PROVE  /\ "retype" \in fs
                        /\ \E j \in 1..k : r.conds[j].do = "update" /\ r.conds[j].id = x
      BY DEF Plain
    <3>1. CASE x = op.id
      BY <1>3, <1>7, <2>3, <2>4, <3>1
    <3>2. CASE x # op.id
      BY <1>2, <1>3, <2>3, <3>2 DEF Plain
    <3> QED
      BY <3>1, <3>2
  <2> QED
    BY <1>2, <1>7, <2>3, <2>5
<1> QED
  BY <1>3, <1>4, <1>5, <1>6, <1>7

\* The condition operations done.
Applied(stage, r, m) ==
  IF stage \in {"find", "check", "parent"} THEN 0
  ELSE IF stage = "reload" \/ m.at > Len(r.conds) THEN Len(r.conds)
  ELSE m.at - 1

\* The parent the update will have left.
Target(stage, r, rule) ==
  IF stage \in {"check", "parent"} THEN Override(r.patch, rule.parent) ELSE rule.parent

\* The rows are those foreseen after k operations, on the way to what is wanted.
Reached(fs, r, want, parent, rows, k) ==
  \E first \in Rows : \E p :
    /\ IsPath(p, first, r.conds, Len(r.conds))
    /\ want = IdentityOf(parent, p[Len(r.conds)])
    /\ Mirrors(rows, p[k]) /\ Plain(fs, r, k, p[k])

Foreseen(fs, stage, r, m, rule) ==
  /\ Reached(fs, r, m.want, Target(stage, r, rule), rule.conds, Applied(stage, r, m))
  /\ stage = "rewrite" =>
       LET op == r.conds[m.at]
       IN  /\ IsLiveRow(rule.conds, op.id)
           /\ m.merged = Stored(Override(op.put, rule.conds[op.id].shape))

-----------------------------------------------------------------------------
(* What a step does to a rule.                                             *)
SameRule(new, old) ==
  new.live = old.live /\ new.parent = old.parent /\ new.conds = old.conds

LEMMA RuleChange ==
  ASSUME TypeInv, NEW c \in Clients, Steps(c), NEW i \in DOMAIN rules
  PROVE  /\ i \in DOMAIN rules'
         /\ \/ SameRule(rules'[i], rules[i])
            \/ WritesOwnConditions(c) /\ i = mem[c].rule
            \/ /\ SoftDelete(c) /\ i = mem[c].rule /\ ~rules'[i].live
               /\ rules'[i].conds = Marked(rules[i].conds, DOMAIN rules[i].conds)
<1>1. rules \in Seq(Rule) /\ rules[i] \in Rule
  BY Member DEF TypeInv
<1>2. CASE Reads(c)
  BY <1>2, ReadsOnly DEF SameRule
<1>3. CASE WritesOwnConditions(c)
  BY <1>3, ConditionWrites DEF SameRule
<1>4. CASE WritesActions(c)
  BY <1>4, ActionWrites DEF SameRule
<1>5. CASE Insert(c)
  <2>1. PICK new \in Rule : rules' = Append(rules, new)
    BY <1>5, InsertStep
  <2>2. i \in DOMAIN rules' /\ rules'[i] = rules[i]
    BY <1>1, <2>1, AddMember
  <2> QED
    BY <2>2 DEF SameRule
<1>6. CASE SoftDelete(c)
  <2>1. PICK j, ids :
          /\ j \in DOMAIN rules /\ j = mem[c].rule /\ rules[j] \in Rule
          /\ Edits(j, Removed(rules[j], ids))
    BY <1>1, <1>6, SoftDeleteStep, Member DEF Edits
  <2>2. PICK gone : gone = Removed(rules[j], ids)
    OBVIOUS
  <2>3. Edits(j, gone) /\ gone.live = FALSE
        /\ gone.conds = Marked(rules[j].conds, DOMAIN rules[j].conds)
    BY <2>1, <2>2, RemovedRule
  <2>4. /\ DOMAIN rules' = DOMAIN rules /\ rules'[j] = gone
        /\ i # j => rules'[i] = rules[i]
    BY <1>1, <2>3, EditStep
  <2> QED
    BY <1>6, <2>1, <2>3, <2>4 DEF SameRule
<1> QED
  BY <1>2, <1>3, <1>4, <1>5, <1>6, KindsOfSteps

LEMMA RulesAdded ==
  ASSUME TypeInv, NEW c \in Clients, Steps(c)
  PROVE  \/ DOMAIN rules' = DOMAIN rules
         \/ /\ Insert(c) /\ rules' = Append(rules, NewRule(req[c]))
            /\ Len(rules) \in Nat /\ DOMAIN rules = 1..Len(rules)
            /\ DOMAIN rules' = 1..(Len(rules) + 1)
            /\ rules'[Len(rules) + 1] = NewRule(req[c])
<1>1. rules \in Seq(Rule)
  BY DEF TypeInv
<1>2. CASE Reads(c)
  BY <1>2, ReadsOnly
<1>3. CASE WritesOwnConditions(c)
  BY <1>3, ConditionWrites
<1>4. CASE WritesActions(c)
  BY <1>4, ActionWrites
<1>5. CASE Insert(c)
  <2>1. PICK new \in Rule : new = NewRule(req[c])
    BY <1>5, InsertStep
  <2>2. rules' = Append(rules, new)
    BY <1>5, <2>1, InsertStep
  <2> QED
    BY <1>1, <1>5, <2>1, <2>2, AddMember
<1>6. CASE SoftDelete(c)
  <2>1. \E i, rule : Edits(i, rule)
    BY <1>6, SoftDeleteStep
  <2> QED
    BY <1>1, <2>1, EditStep
<1> QED
  BY <1>2, <1>3, <1>4, <1>5, <1>6, KindsOfSteps

LEMMA StorableWrites ==
  ASSUME NEW rows \in Seq(ConditionRow), AllStorable(rows)
  PROVE  /\ \A ids : AllStorable(Marked(rows, ids))
         /\ \A s \in Shape : Storable(s) => AllStorable(Append(rows, [shape |-> s, live |-> TRUE]))
         /\ \A s \in Shape, k \in DOMAIN rows : Storable(s) =>
              AllStorable([rows EXCEPT ![k] = [rows[k] EXCEPT !.shape = s]])
<1>1. \A k \in DOMAIN rows : rows[k] \in ConditionRow /\ Storable(rows[k].shape)
  BY Member DEF AllStorable
<1>2. ASSUME NEW ids PROVE AllStorable(Marked(rows, ids))
  <2>1. PICK new : new = Marked(rows, ids)
    OBVIOUS
  <2>2. DOMAIN new = DOMAIN rows /\ \A k \in DOMAIN rows :
          new[k] = IF k \in ids THEN [rows[k] EXCEPT !.live = FALSE] ELSE rows[k]
    BY <2>1, MarkedRows
  <2>3. \A k \in DOMAIN rows : new[k].shape = rows[k].shape
    BY <1>1, <2>2 DEF ConditionRow
  <2> QED
    BY <1>1, <2>1, <2>2, <2>3 DEF AllStorable
<1>3. ASSUME NEW s \in Shape, Storable(s)
      PROVE  AllStorable(Append(rows, [shape |-> s, live |-> TRUE]))
  <2>1. PICK row \in ConditionRow : row = [shape |-> s, live |-> TRUE] /\ row.shape = s
    <3>1. /\ [shape |-> s, live |-> TRUE] \in ConditionRow
          /\ [shape |-> s, live |-> TRUE].shape = s
      BY DEF ConditionRow
    <3> QED
      BY <3>1
  <2>2. PICK n \in Nat : n = Len(rows)
    BY LenProperties
  <2>6. PICK new : new = Append(rows, row)
    OBVIOUS
  <2>3. /\ DOMAIN rows = 1..n /\ DOMAIN new = 1..(n + 1)
        /\ \A j \in 1..n : new[j] = rows[j]
        /\ new[n + 1] = row
    BY <2>2, <2>6, AddMember
  <2>4. \A k \in 1..(n + 1) : k \in 1..n \/ k = n + 1
    BY <2>2
  <2>5. AllStorable(new)
    BY <1>1, <1>3, <2>1, <2>3, <2>4 DEF AllStorable
  <2> QED
    BY <2>1, <2>6, <2>5
<1>4. ASSUME NEW s \in Shape, NEW k \in DOMAIN rows, Storable(s)
      PROVE  AllStorable([rows EXCEPT ![k] = [rows[k] EXCEPT !.shape = s]])
  <2>1. PICK old \in ConditionRow : old = rows[k]
    BY <1>1
  <2>2. PICK row \in ConditionRow : row = [old EXCEPT !.shape = s] /\ row.shape = s
    <3>1. [old EXCEPT !.shape = s] \in ConditionRow /\ [old EXCEPT !.shape = s].shape = s
      BY DEF ConditionRow
    <3> QED
      BY <3>1
  <2>3. PICK new : new = [rows EXCEPT ![k] = row]
    OBVIOUS
  <2>4. DOMAIN new = DOMAIN rows /\ \A j \in DOMAIN rows : new[j] = IF j = k THEN row ELSE rows[j]
    BY <2>3, PutMember
  <2>5. AllStorable(new)
    BY <1>1, <1>4, <2>2, <2>4 DEF AllStorable
  <2> QED
    BY <2>1, <2>2, <2>3, <2>5
<1> QED
  BY <1>2, <1>3, <1>4

-----------------------------------------------------------------------------
(* One writer at a time, and what it writes.                               *)
Writes(c) == pc[c] # "idle" /\ req[c].kind \in {"create", "update"}

WriterInv ==
  /\ TypeInv
  /\ \A i \in DOMAIN rules : AllStorable(rules[i].conds)
  /\ \A c \in Clients : /\ pc[c] = "rewrite" => Storable(mem[c].merged)
                        /\ pc[c] # "idle" => Allowed(faults, req[c])
  /\ Without({"writers"}) => \A c, d \in Clients : Writes(c) /\ Writes(d) => c = d

LEMMA ReachRewrite ==
  ASSUME TypeInv, NEW c \in Clients, Steps(c), pc'[c] = "rewrite"
  PROVE  FindCondition(c)
<1>1. pc \in [Clients -> Stages]
  BY DEF TypeInv, ClientsTyped
<1>2. ~Ends(c)
  BY DEF Ends
<1>3. \A k : ~GoToOp(c, k)
  BY <1>1 DEF GoToOp, GoTo
<1>4. ~NextOp(c)
  BY <1>3 DEF NextOp
<1>5. \A r \in Requests : ~Start(c, r)
  BY <1>1, RequestKind DEF Start
<1>6. ~Find(c) /\ ~CheckDuplicate(c)
  BY <1>1, <1>2, <1>3, FindStep DEF CheckDuplicate, GoTo, Finish
<1>7. ~Insert(c) /\ ~CollectActions(c) /\ ~SoftDelete(c) /\ ~Reload(c) /\ ~Abort(c)
  BY <1>1, <1>2, SoftDeleteStep, ReloadStep DEF Insert, CollectActions, GoTo
<1>8. ~UpdateParent(c) /\ ~FindAction(c) /\ ~FindConfig(c)
  BY <1>1, <1>3 DEF UpdateParent, FindAction, FindConfig, GoTo, Finish
<1> QED
  BY <1>4, <1>5, <1>6, <1>7, <1>8
     DEF Steps, DeleteCondition, CreateCondition, RewriteCondition, DeleteAction,
         CreateAction, WriteConfig

LEMMA WritesKept ==
  ASSUME TypeInv, NEW c \in Clients, Steps(c), pc'[c] # "idle"
  PROVE  \/ \E r \in Requests : Start(c, r) /\ req'[c] = r
         \/ pc[c] # "idle" /\ req'[c] = req[c]
  BY RequestsKept DEF Goes, Ends

LEMMA WriterInit == Init => WriterInv
<1> SUFFICES ASSUME Init PROVE WriterInv
  OBVIOUS
<1>1. \A i \in DOMAIN rules : AllStorable(rules[i].conds)
  BY StoresAssumption DEF Init, AllStorable
<1> QED
  BY <1>1, TypeInit DEF WriterInv, Init, Writes

LEMMA NewRuleStorable ==
  ASSUME NEW r \in Requests, r.kind = "create"
  PROVE  AllStorable(NewRule(r).conds)
<1>1. PICK rows : rows = NewRule(r).conds
  OBVIOUS
<1>2. /\ DOMAIN rows = DOMAIN r.conds
      /\ \A k \in DOMAIN rows : rows[k] = [shape |-> Stored(r.conds[k].put), live |-> TRUE]
  BY <1>1 DEF NewRule
<1>3. ASSUME NEW k \in DOMAIN rows PROVE Storable(rows[k].shape)
  <2>1. PICK op : op = r.conds[k]
    OBVIOUS
  <2>2. op.do = "create" /\ IsConditionOp(op)
    BY <1>2, <2>1, RequestKind
  <2>3. op.put \in Shape
    BY <2>2 DEF IsConditionOp, IsConditionCreate
  <2>4. PICK s : s = Stored(op.put)
    OBVIOUS
  <2>5. Storable(s)
    BY <2>3, <2>4, StoredShape
  <2>6. rows[k] = [shape |-> s, live |-> TRUE]
    BY <1>2, <2>1, <2>4
  <2> QED
    BY <2>5, <2>6
<1> QED
  BY <1>1, <1>3 DEF AllStorable

LEMMA ConditionsStorable ==
  ASSUME TypeInv, NEW c \in Clients, WritesOwnConditions(c), NEW i \in DOMAIN rules,
         i = mem[c].rule, AllStorable(rules[i].conds),
         pc[c] = "rewrite" => Storable(mem[c].merged)
  PROVE  AllStorable(rules'[i].conds)
<1>1. rules \in Seq(Rule) /\ rules[i] \in Rule /\ rules[i].conds \in Seq(ConditionRow)
  BY Member, RuleFields DEF TypeInv
<1>2. PICK old \in Seq(ConditionRow) : old = rules[i].conds
  BY <1>1
<1>3. ASSUME NEW rows, WritesConds(i, rows) PROVE rules'[i].conds = rows
  BY <1>1, <1>3, WriteStep
<1>4. CASE UpdateParent(c)
  <2>1. CASE rules' = rules
    BY <2>1
  <2>2. CASE \E x \in Parent : Edits(i, [rules[i] EXCEPT !.parent = x])
    <3>1. PICK x \in Parent : Edits(i, [rules[i] EXCEPT !.parent = x])
      BY <2>2
    <3>2. PICK new : new = [rules[i] EXCEPT !.parent = x]
      OBVIOUS
    <3>3. new.conds = rules[i].conds /\ Edits(i, new)
      BY <1>1, <3>1, <3>2 DEF Rule
    <3> QED
      BY <1>1, <3>3, EditStep
  <2> QED
    BY <1>4, <2>1, <2>2, ParentStep
<1>5. CASE DeleteCondition(c)
  <2>1. PICK ids : WritesConds(i, Marked(old, ids))
    BY <1>2, <1>5, DeleteConditionStep
  <2> QED
    BY <1>2, <1>3, <2>1, StorableWrites
<1>6. CASE CreateCondition(c)
  <2>1. PICK s \in Shape : Storable(s) /\ WritesConds(i, Append(old, [shape |-> s, live |-> TRUE]))
    BY <1>2, <1>6, CreateConditionStep
  <2> QED
    BY <1>2, <1>3, <2>1, StorableWrites
<1>7. CASE RewriteCondition(c)
  <2>1. CASE rules' = rules
    BY <2>1
  <2>2. CASE rules' # rules
    <3>1. PICK s \in Shape, k \in DOMAIN old :
            Storable(s) /\ WritesConds(i, [old EXCEPT ![k] = [old[k] EXCEPT !.shape = s]])
      BY <1>2, <1>7, <2>2, RewriteConditionStep DEF IsLiveRow
    <3> QED
      BY <1>2, <1>3, <3>1, StorableWrites
  <2> QED
    BY <2>1, <2>2
<1> QED
  BY <1>4, <1>5, <1>6, <1>7 DEF WritesOwnConditions

LEMMA WriterStep == WriterInv /\ [Next]_vars => WriterInv'
<1> SUFFICES ASSUME WriterInv, [Next]_vars PROVE WriterInv'
  OBVIOUS
<1>1. TypeInv /\ TypeInv'
  BY TypeStep DEF WriterInv
<1>2. CASE UNCHANGED vars
  BY <1>1, <1>2 DEF WriterInv, vars, Without, Writes
<1>3. CASE Next
  <2>1. PICK e \in Clients : Steps(e)
    BY <1>3 DEF Next, Steps
  <2>2. OthersStay(e) /\ faults' = faults
    BY <1>1, <2>1, RequestsKept
  <2>3. ASSUME NEW i \in DOMAIN rules' PROVE AllStorable(rules'[i].conds)
    <3>1. CASE i \in DOMAIN rules
      <4>1. AllStorable(rules[i].conds) /\ rules[i].conds \in Seq(ConditionRow)
        BY <1>1, <3>1, Member, RuleFields DEF WriterInv, TypeInv
      <4>2. CASE SameRule(rules'[i], rules[i])
        BY <4>1, <4>2 DEF SameRule
      <4>3. CASE WritesOwnConditions(e) /\ i = mem[e].rule
        BY <1>1, <3>1, <4>1, <4>3, ConditionsStorable DEF WriterInv
      <4>4. CASE rules'[i].conds = Marked(rules[i].conds, DOMAIN rules[i].conds)
        BY <4>1, <4>4, StorableWrites
      <4> QED
        BY <1>1, <2>1, <3>1, <4>2, <4>3, <4>4, RuleChange
    <3>2. CASE i \notin DOMAIN rules
      <4>1. /\ Insert(e) /\ i = Len(rules) + 1
            /\ rules'[Len(rules) + 1] = NewRule(req[e])
        BY <1>1, <2>1, <2>3, <3>2, RulesAdded
      <4> QED
        BY <1>1, <4>1, InsertStep, NewRuleStorable
    <3> QED
      BY <3>1, <3>2
  <2>4. ASSUME NEW c \in Clients, pc'[c] = "rewrite" PROVE Storable(mem'[c].merged)
    <3>1. CASE c # e
      BY <2>2, <2>4, <3>1 DEF OthersStay, WriterInv
    <3>2. CASE c = e
      <4>1. FindCondition(e)
        BY <1>1, <2>1, <2>4, <3>2, ReachRewrite
      <4>2. PICK s \in Shape : mem'[e].merged = Stored(s)
        BY <1>1, <2>4, <3>2, <4>1, FindConditionStep DEF Goes, Ends
      <4> QED
        BY <3>2, <4>2, StoredShape
    <3> QED
      BY <3>1, <3>2
  <2>5. ASSUME NEW c \in Clients, pc'[c] # "idle" PROVE Allowed(faults, req'[c])
    <3>1. CASE c # e
      BY <2>2, <2>5, <3>1 DEF OthersStay, WriterInv
    <3>2. CASE c = e /\ pc[c] # "idle" /\ req'[c] = req[c]
      BY <3>2 DEF WriterInv
    <3>3. CASE c = e /\ \E r \in Requests : Start(e, r) /\ req'[e] = r
      BY <3>3 DEF Start, Expected, Allowed
    <3> QED
      BY <1>1, <2>1, <2>5, <3>1, <3>2, <3>3, WritesKept
  <2>6. ASSUME Without({"writers"}), NEW c \in Clients, NEW d \in Clients,
               pc'[c] # "idle", req'[c].kind \in {"create", "update"},
               pc'[d] # "idle", req'[d].kind \in {"create", "update"}, c # d
        PROVE  FALSE
    <3>1. \A x, y \in Clients : Writes(x) /\ Writes(y) => x = y
      BY <2>6 DEF WriterInv
    <3>2. ASSUME NEW x \in Clients, x # e,
                 pc'[x] # "idle", req'[x].kind \in {"create", "update"},
                 pc'[e] # "idle", req'[e].kind \in {"create", "update"}
          PROVE  FALSE
      <4>1. Writes(x)
        BY <2>2, <3>2 DEF OthersStay, Writes
      <4>2. CASE pc[e] # "idle" /\ req'[e] = req[e]
        BY <3>1, <3>2, <4>1, <4>2 DEF Writes
      <4>3. CASE \E r \in Requests : Start(e, r) /\ req'[e] = r
        <5>1. PICK r \in Requests : Expected(e, r) /\ r.kind \in {"create", "update"}
          BY <3>2, <4>3 DEF Start
        <5>2. x \in Overlaps(e, {"create", "update"})
          BY <3>2, <4>1 DEF Overlaps, Writes
        <5> QED
          BY <2>6, <5>1, <5>2 DEF Expected
      <4> QED
        BY <1>1, <2>1, <3>2, <4>2, <4>3, WritesKept
    <3>3. CASE c # e /\ d # e
      BY <2>2, <2>6, <3>1, <3>3 DEF OthersStay, Writes
    <3> QED
      BY <2>6, <3>2, <3>3
  <2> QED
    BY <1>1, <2>2, <2>3, <2>4, <2>5, <2>6 DEF WriterInv, Without, Writes
<1> QED
  BY <1>2, <1>3

-----------------------------------------------------------------------------
(* What create() foresees.                                                 *)
\* What administrators know a rule by.
Known(rule) == IdentityOf(rule.parent, rule.conds)

CreateForeseen(stage, r, m, rs) ==
  /\ stage \in {"check", "insert"} => m.want = IdentityOf(r.patch, NewRule(r).conds)
  /\ stage = "reload" /\ rs[m.rule].live => Known(rs[m.rule]) = m.want

CreateInv ==
  /\ WriterInv
  /\ Without({"writers"}) =>
       \A c \in Clients :
         pc[c] # "idle" /\ req[c].kind = "create"
           => CreateForeseen(pc[c], req[c], mem[c], rules)
  /\ Without({"removal"}) =>
       \A c \in Clients :
         pc[c] = "reload" /\ req[c].kind = "create" =>
           /\ rules[mem[c].rule].live
           /\ \A d \in Clients :
                pc[d] # "idle" /\ req[d].kind = "remove" => mem[d].rule # mem[c].rule

LEMMA CreateMoves ==
  ASSUME TypeInv, NEW c \in Clients, Steps(c), pc[c] # "idle", req[c].kind = "create"
  PROVE  \/ Ends(c)
         \/ CheckDuplicate(c) /\ ~IsDuplicate(c) /\ Goes(c, "insert", mem[c]) /\ rules' = rules
         \/ Insert(c)
<1>1. pc[c] \in {"check", "insert", "reload"}
  BY DEF TypeInv, InStage, UpdateOf
<1>2. CheckDuplicate(c) \/ Insert(c) \/ Reload(c) \/ Abort(c)
  BY <1>1 DEF Steps, Start, Find, UpdateParent, DeleteCondition, CreateCondition,
     FindCondition, RewriteCondition, DeleteAction, CreateAction, FindAction, FindConfig,
     WriteConfig, CollectActions, SoftDelete, OnCondition, OnAction
<1>3. Reload(c) \/ Abort(c) => Ends(c)
  BY ReloadStep
<1>4. CheckDuplicate(c) =>
        Ends(c) \/ (~IsDuplicate(c) /\ Goes(c, "insert", mem[c]) /\ rules' = rules)
  BY CheckStep DEF UpdateOf
<1> QED
  BY <1>2, <1>3, <1>4

\* A rule another request is writing: nobody else writes it, but it may be removed.
LEMMA NotMine ==
  ASSUME WriterInv, Without({"writers"}), NEW e \in Clients, Steps(e),
         NEW c \in Clients \ {e}, Writes(c), mem[c].rule \in DOMAIN rules
  PROVE  \/ SameRule(rules'[mem[c].rule], rules[mem[c].rule])
         \/ ~rules'[mem[c].rule].live
<1>1. TypeInv
  BY DEF WriterInv
<1>2. ~WritesOwnConditions(e)
  <2> SUFFICES ASSUME WritesOwnConditions(e) PROVE FALSE
    OBVIOUS
  <2>1. Writes(e)
    BY <1>1, ConditionWrites DEF UpdateOf, Writes
  <2> QED
    BY <2>1 DEF WriterInv
<1> QED
  BY <1>1, <1>2, RuleChange

LEMMA CreateInit == Init => CreateInv
  BY WriterInit DEF CreateInv, Init

LEMMA CreateStep == CreateInv /\ [Next]_vars => CreateInv'
<1> SUFFICES ASSUME CreateInv, [Next]_vars PROVE CreateInv'
  OBVIOUS
<1>1. TypeInv /\ WriterInv /\ WriterInv'
  BY WriterStep DEF CreateInv, WriterInv
<1>2. CASE UNCHANGED vars
  BY <1>1, <1>2 DEF CreateInv, vars, Without
<1>3. CASE Next
  <2>1. PICK e \in Clients : Steps(e)
    BY <1>3 DEF Next, Steps
  <2>2. OthersStay(e) /\ faults' = faults
    BY <1>1, <2>1, RequestsKept
  <2>3. \A c \in Clients : InStage(pc[c], req[c], mem[c], rules)
    BY <1>1 DEF TypeInv
  <2>4. ASSUME Without({"writers"}), NEW c \in Clients,
               pc'[c] # "idle", req'[c].kind = "create"
        PROVE  CreateForeseen(pc'[c], req'[c], mem'[c], rules')
    <3>1. CASE c # e
      <4>1. /\ pc[c] # "idle" /\ req[c].kind = "create" /\ Writes(c)
            /\ CreateForeseen(pc[c], req[c], mem[c], rules)
            /\ pc'[c] = pc[c] /\ req'[c] = req[c] /\ mem'[c] = mem[c]
        BY <2>2, <2>4, <3>1 DEF OthersStay, CreateInv, Writes
      <4>2. CASE pc[c] # "reload"
        BY <4>1, <4>2 DEF CreateForeseen
      <4>3. CASE pc[c] = "reload"
        <5>1. mem[c].rule \in DOMAIN rules
          BY <2>3, <4>1, <4>3 DEF InStage, UpdateOf
        <5>2. \/ SameRule(rules'[mem[c].rule], rules[mem[c].rule])
              \/ ~rules'[mem[c].rule].live
          BY <1>1, <2>1, <2>4, <3>1, <4>1, <5>1, NotMine
        <5> QED
          BY <4>1, <4>3, <5>2 DEF CreateForeseen, SameRule, Known
      <4> QED
        BY <4>2, <4>3
    <3>2. CASE c = e /\ \E r \in Requests : Start(e, r) /\ req'[e] = r
      <4>1. PICK r \in Requests : Start(e, r) /\ req'[e] = r
        BY <3>2
      <4>2. r.kind = "create" /\ ClientsTyped
        BY <1>1, <2>4, <3>2, <4>1 DEF TypeInv
      <4>3. PICK want : want = IdentityOf(r.patch, computeFinalConditions(<<>>, r.conds))
        OBVIOUS
      <4>4. pc'[e] = "check" /\ mem'[e] = [Blank EXCEPT !.want = want]
        BY <4>1, <4>2, <4>3 DEF Start, ClientsTyped
      <4>5. mem'[e].want = want
        BY <4>4 DEF Blank
      <4>6. want = IdentityOf(r.patch, NewRule(r).conds)
        BY <4>2, <4>3, ForeseenCreate
      <4> QED
        BY <3>2, <4>1, <4>4, <4>5, <4>6 DEF CreateForeseen
    <3>3. CASE c = e /\ pc[e] # "idle" /\ req'[e] = req[e]
      <4>1. CreateForeseen(pc[e], req[e], mem[e], rules) /\ req[e].kind = "create"
        BY <2>4, <3>3 DEF CreateInv
      <4>2. CASE CheckDuplicate(e) /\ Goes(e, "insert", mem[e])
        BY <3>3, <4>1, <4>2 DEF CreateForeseen, CheckDuplicate, Goes
      <4>3. CASE Insert(e)
        <5>1. /\ pc[e] = "insert" /\ rules' = Append(rules, NewRule(req[e]))
              /\ NewRule(req[e]) \in Rule /\ rules \in Seq(Rule) /\ mem[e] \in Locals
              /\ Goes(e, "reload", [mem[e] EXCEPT !.rule = Len(rules) + 1])
          BY <1>1, <4>3, InsertStep DEF TypeInv, ClientsTyped
        <5>2. /\ pc'[e] = "reload" /\ mem'[e].rule = Len(rules) + 1
              /\ mem'[e].want = mem[e].want
          BY <5>1 DEF Goes, Locals
        <5>3. PICK new \in Rule : new = NewRule(req[e]) /\ new.parent = req[e].patch
          BY <5>1 DEF NewRule
        <5>4. rules'[Len(rules) + 1] = new
          BY <5>1, <5>3, AddMember
        <5> QED
          BY <3>3, <4>1, <5>1, <5>2, <5>3, <5>4 DEF CreateForeseen, Known
      <4> QED
        BY <1>1, <2>1, <2>4, <3>3, <4>1, <4>2, <4>3, CreateMoves DEF Ends
    <3> QED
      BY <1>1, <2>1, <2>4, <3>1, <3>2, <3>3, WritesKept
  <2>5. ASSUME Without({"removal"}), NEW c \in Clients,
               pc'[c] = "reload", req'[c].kind = "create"
        PROVE  /\ rules'[mem'[c].rule].live
               /\ \A d \in Clients :
                    pc'[d] # "idle" /\ req'[d].kind = "remove" => mem'[d].rule # mem'[c].rule
    <3>1. CASE c # e
      <4>1. /\ pc[c] = "reload" /\ req[c].kind = "create" /\ mem'[c] = mem[c]
            /\ rules[mem[c].rule].live
            /\ \A d \in Clients :
                 pc[d] # "idle" /\ req[d].kind = "remove" => mem[d].rule # mem[c].rule
        BY <2>2, <2>5, <3>1 DEF OthersStay, CreateInv
      <4>2. mem[c].rule \in DOMAIN rules
        BY <2>3, <4>1 DEF InStage, UpdateOf
      <4>3. rules'[mem[c].rule].live
        <5>1. ~(SoftDelete(e) /\ mem[c].rule = mem[e].rule)
          BY <1>1, <4>1, SoftDeleteStep
        <5> QED
          BY <1>1, <2>1, <4>1, <4>2, <5>1, LiveKept
      <4>4. ASSUME pc'[e] # "idle", req'[e].kind = "remove"
            PROVE  mem'[e].rule # mem[c].rule
        <5>1. CASE \E r \in Requests : Start(e, r) /\ req'[e] = r
          <6>1. PICK r \in Requests : Start(e, r) /\ r.kind = "remove"
            BY <4>4, <5>1
          <6>2. c \in Overlaps(e, {"create", "update"})
            BY <3>1, <4>1 DEF Overlaps
          <6>3. mem[c].rule # r.rule
            BY <2>5, <6>1, <6>2 DEF Start, Expected
          <6>4. mem'[e] = [Blank EXCEPT !.rule = r.rule]
            BY <1>1, <6>1 DEF Start, TypeInv, ClientsTyped
          <6> QED
            BY <6>3, <6>4 DEF Blank
        <5>2. CASE pc[e] # "idle" /\ req'[e] = req[e]
          <6>1. mem[e].rule = req[e].rule /\ mem'[e].rule = req[e].rule
            BY <1>1, <2>3, <4>4, <5>2, BusyRule DEF WriterInv, TypeInv
          <6> QED
            BY <4>1, <4>4, <5>2, <6>1
        <5> QED
          BY <1>1, <2>1, <4>4, <5>1, <5>2, WritesKept
      <4> QED
        BY <2>2, <4>1, <4>3, <4>4 DEF OthersStay
    <3>2. CASE c = e
      <4>1. pc[e] # "idle" /\ req'[e] = req[e]
        <5>1. \A r \in Requests : ~Start(e, r)
          BY <1>1, <2>5, <3>2, RequestKind DEF Start, TypeInv, ClientsTyped
        <5> QED
          BY <1>1, <2>1, <2>5, <3>2, <5>1, WritesKept
      <4>2. Insert(e)
        BY <1>1, <2>1, <2>5, <3>2, <4>1, CreateMoves DEF Ends, Goes
      <4>3. /\ rules' = Append(rules, NewRule(req[e]))
            /\ NewRule(req[e]) \in Rule /\ rules \in Seq(Rule) /\ mem[e] \in Locals
            /\ mem'[e] = [mem[e] EXCEPT !.rule = Len(rules) + 1]
        BY <1>1, <4>2, InsertStep DEF TypeInv, ClientsTyped, Goes
      <4>4. PICK new \in Rule : new = NewRule(req[e]) /\ new.live = TRUE
        BY <4>3 DEF NewRule
      <4>5. /\ rules'[Len(rules) + 1] = new /\ Len(rules) \in Nat
            /\ DOMAIN rules = 1..Len(rules)
        BY <4>3, <4>4, AddMember
      <4>6. mem'[e].rule = Len(rules) + 1
        BY <4>3 DEF Locals
      <4>7. ASSUME NEW d \in Clients, pc'[d] # "idle", req'[d].kind = "remove"
            PROVE  mem'[d].rule # mem'[e].rule
        <5>1. d # e
          BY <2>5, <3>2, <4>7
        <5>2. mem'[d].rule \in DOMAIN rules
          BY <2>2, <2>3, <4>7, <5>1, BusyRule DEF OthersStay
        <5> QED
          BY <4>5, <4>6, <5>2
      <4> QED
        BY <3>2, <4>4, <4>5, <4>6, <4>7
    <3> QED
      BY <3>1, <3>2
  <2> QED
    BY <1>1, <2>2, <2>4, <2>5 DEF CreateInv, Without
<1> QED
  BY <1>2, <1>3

-----------------------------------------------------------------------------
(* What update() foresees.                                                 *)
PathInv ==
  /\ WriterInv
  /\ Without({"writers"}) /\ ~({"retype", "twice"} \subseteq faults) =>
       \A c \in Clients :
         PastFind(c) /\ rules[mem[c].rule].live =>
           Foreseen(faults, pc[c], req[c], mem[c], rules[mem[c].rule])

LEMMA ReachedByOp ==
  ASSUME NEW fs, NEW r \in Requests, r.kind = "update", Allowed(fs, r),
         "retype" \notin fs \/ "twice" \notin fs,
         NEW k \in 1..Len(r.conds), NEW op, op = r.conds[k],
         NEW want, NEW parent, NEW rows, Reached(fs, r, want, parent, rows, k - 1)
  PROVE  /\ op.do = "delete" => Reached(fs, r, want, parent, Deleted(rows, op), k)
         /\ op.do = "create" =>
              Reached(fs, r, want, parent, Append(rows, [shape |-> op.put, live |-> TRUE]), k)
         /\ op.do = "update" /\ IsLiveRow(rows, op.id) =>
              Reached(fs, r, want, parent,
                [rows EXCEPT ![op.id] = [rows[op.id] EXCEPT
                   !.shape = Stored(Override(op.put, rows[op.id].shape))]], k)
<1>1. PICK first \in Rows, p \in [0..Len(r.conds) -> Rows] :
        /\ IsPath(p, first, r.conds, Len(r.conds))
        /\ want = IdentityOf(parent, p[Len(r.conds)])
        /\ Mirrors(rows, p[k - 1]) /\ Plain(fs, r, k - 1, p[k - 1])
  BY DEF Reached, IsPath
<1>2. /\ Plain(fs, r, k, p[k]) \/ (op.do = "update" /\ ~IsLiveRow(rows, op.id))
      /\ op.do = "delete" => Mirrors(Deleted(rows, op), p[k])
      /\ op.do = "create" => Mirrors(Append(rows, [shape |-> op.put, live |-> TRUE]), p[k])
      /\ op.do = "update" /\ IsLiveRow(rows, op.id) =>
           Mirrors([rows EXCEPT ![op.id] = [rows[op.id] EXCEPT
                      !.shape = Stored(Override(op.put, rows[op.id].shape))]], p[k])
  BY <1>1, OpForeseen
<1>3. ASSUME NEW new, Mirrors(new, p[k]), Plain(fs, r, k, p[k])
      PROVE  Reached(fs, r, want, parent, new, k)
  BY <1>1, <1>3 DEF Reached
<1>4. CASE op.do = "delete"
  BY <1>2, <1>3, <1>4
<1>5. CASE op.do = "create"
  BY <1>2, <1>3, <1>5
<1>6. CASE op.do = "update" /\ IsLiveRow(rows, op.id)
  BY <1>2, <1>3, <1>6
<1> QED
  BY <1>4, <1>5, <1>6

LEMMA ReachedAtStart ==
  ASSUME NEW fs, NEW r \in Requests, r.kind = "update", NEW parent,
         NEW rows \in Rows, AllStorable(rows)
  PROVE  Reached(fs, r, IdentityOf(parent, computeFinalConditions(rows, r.conds)),
                 parent, rows, 0)
<1>1. /\ Len(r.conds) \in Nat /\ \A k \in 1..Len(r.conds) : IsConditionOp(r.conds[k])
  BY RequestOps
<1>2. PICK p : /\ IsPath(p, rows, r.conds, Len(r.conds))
               /\ computeFinalConditions(rows, r.conds) = p[Len(r.conds)]
  BY <1>1, FinalOfPath
<1>3. p[0] = rows
  BY <1>2 DEF IsPath
<1>4. Mirrors(rows, p[0]) /\ Plain(fs, r, 0, p[0])
  BY <1>3, SameMirrors DEF Plain, AllStorable
<1>5. IdentityOf(parent, computeFinalConditions(rows, r.conds))
        = IdentityOf(parent, p[Len(r.conds)])
  BY <1>2
<1> QED
  BY <1>2, <1>4, <1>5 DEF Reached

LEMMA ForeseenSame ==
  ASSUME NEW fs, NEW stage, NEW r, NEW m, NEW new, NEW old, SameRule(new, old),
         Foreseen(fs, stage, r, m, old)
  PROVE  Foreseen(fs, stage, r, m, new)
  BY DEF Foreseen, SameRule, Target

LEMMA NoPatch ==
  ASSUME NEW r, NEW parent \in Parent, DOMAIN r.patch = {}
  PROVE  Override(r.patch, parent) = parent
  BY DEF Override, Parent

\* The stage and the count after k operations.
After(r, k) == IF k <= Len(Ops(r)) THEN "op" ELSE "reload"

LEMMA AppliedNext ==
  ASSUME NEW r \in Requests, r.kind # "remove", NEW m \in Locals,
         NEW k \in 1..(Len(Ops(r)) + 1)
  PROVE  /\ Applied(After(r, k), r, AtOp(m, k))
              = IF k <= Len(r.conds) THEN k - 1 ELSE Len(r.conds)
         /\ After(r, k) # "rewrite" /\ After(r, k) \notin {"check", "parent"}
         /\ AtOp(m, k).want = m.want
<1>1. /\ Len(r.conds) \in Nat /\ Len(r.acts) \in Nat
      /\ Len(Ops(r)) = Len(r.conds) + Len(r.acts)
  BY RequestOps
<1>2. AtOp(m, k).at = k /\ AtOp(m, k).want = m.want
  BY DEF AtOp, Locals
<1>3. CASE k <= Len(Ops(r))
  BY <1>1, <1>2, <1>3 DEF Applied, After
<1>4. CASE ~(k <= Len(Ops(r)))
  <2>3. PICK a, b, n : a = Len(r.conds) /\ b = Len(r.acts) /\ n = Len(Ops(r))
    OBVIOUS
  <2>6. a \in Nat /\ b \in Nat /\ n = a + b
    BY <1>1, <2>3
  <2>4. k \in Int /\ ~(k <= n)
    BY <1>4, <2>3
  <2>5. ~(k <= a) /\ k > a
    BY <2>4, <2>6
  <2>1. ~(k <= Len(r.conds)) /\ k > Len(r.conds)
    BY <2>3, <2>5
  <2>2. After(r, k) = "reload"
    BY <1>4 DEF After
  <2> QED
    BY <1>2, <2>1, <2>2 DEF Applied
<1> QED
  BY <1>3, <1>4

LEMMA PathInit == Init => PathInv
  BY WriterInit DEF PathInv, Init, PastFind

LEMMA OwnStep ==
  ASSUME TypeInv, NEW e \in Clients, Steps(e), pc'[e] \notin {"idle", "find"},
         req'[e].kind = "update", rules'[mem'[e].rule].live
  PROVE  /\ req'[e] = req[e] /\ UpdateOf(req[e], mem[e], rules)
         /\ mem'[e].rule = mem[e].rule /\ mem[e] \in Locals /\ mem'[e] \in Locals
         /\ rules[mem[e].rule].live /\ rules[mem[e].rule] \in Rule
         /\ Goes(e, pc'[e], mem'[e])
         /\ Find(e) \/ PastFind(e)
         /\ \/ Find(e) \/ CheckDuplicate(e) \/ UpdateParent(e) \/ DeleteCondition(e)
            \/ CreateCondition(e) \/ FindCondition(e) \/ RewriteCondition(e)
            \/ WritesActions(e) \/ FindAction(e) \/ FindConfig(e)
<1>1. /\ InStage(pc[e], req[e], mem[e], rules) /\ rules \in Seq(Rule) /\ ClientsTyped
      /\ InStage(pc'[e], req'[e], mem'[e], rules') /\ ClientsTyped'
  BY EachStepTyped DEF TypeInv, StepTyped
<1>2. ASSUME NEW r \in Requests, Start(e, r), req'[e] = r PROVE FALSE
  BY <1>1, <1>2 DEF Start, ClientsTyped
<1>3. pc[e] # "idle" /\ Goes(e, pc'[e], mem'[e]) /\ req'[e] = req[e]
  BY <1>2, RequestsKept DEF Ends, Goes
<1>4. UpdateOf(req[e], mem[e], rules)
  BY <1>1, <1>3, BusyRule DEF UpdateOf
<1>5. mem'[e].rule = mem[e].rule
  BY <1>1, <1>3, <1>4, BusyRule DEF UpdateOf
<1>6. /\ pc[e] \notin {"insert", "collect", "transact", "idle"} /\ ~Ends(e)
      /\ pc[e] = "find" \/ PastFind(e)
  BY <1>1, <1>3, <1>4 DEF InStage, UpdateOf, PastFind, Ends
<1>7. ~Reload(e) /\ ~Abort(e)
  BY <1>6, ReloadStep
<1>8. /\ \A r \in Requests : ~Start(e, r)
      /\ ~Insert(e) /\ ~CollectActions(e) /\ ~SoftDelete(e)
  BY <1>6 DEF Start, Insert, CollectActions, SoftDelete
<1>9. rules[mem[e].rule].live
  BY <1>4, <1>5, <1>8, LiveKept DEF UpdateOf
<1>10. rules[mem[e].rule] \in Rule /\ mem[e] \in Locals /\ mem'[e] \in Locals
  BY <1>1, <1>4, Member DEF UpdateOf, ClientsTyped
<1>11. pc[e] = "find" => Find(e)
  BY <1>7, <1>8 DEF Steps, CheckDuplicate, UpdateParent, DeleteCondition, CreateCondition,
     FindCondition, RewriteCondition, DeleteAction, CreateAction, FindAction, FindConfig,
     WriteConfig, OnCondition, OnAction
<1> QED
  <2>1. \/ Find(e) \/ CheckDuplicate(e) \/ UpdateParent(e) \/ DeleteCondition(e)
        \/ CreateCondition(e) \/ FindCondition(e) \/ RewriteCondition(e)
        \/ WritesActions(e) \/ FindAction(e) \/ FindConfig(e)
    BY <1>7, <1>8 DEF Steps, WritesActions
  <2> QED
    BY <1>3, <1>4, <1>5, <1>6, <1>9, <1>10, <1>11, <2>1

LEMMA FindForesees ==
  ASSUME WriterInv, NEW e \in Clients, Find(e), pc'[e] \notin {"idle", "find"}
  PROVE  Foreseen(faults, pc'[e], req[e], mem'[e], rules[mem[e].rule])
<1>1. TypeInv
  BY DEF WriterInv
<1>2. /\ UpdateOf(req[e], mem[e], rules) /\ pc[e] = "find" /\ mem[e].rule = req[e].rule
      /\ Goes(e, pc'[e], Read(e))
      /\ Read(e).want
           = IdentityOf(Override(req[e].patch, rules[req[e].rule].parent),
                        computeFinalConditions(rules[req[e].rule].conds, req[e].conds))
      /\ Read(e).at = 1
      /\ \/ pc'[e] = "check"
         \/ /\ pc'[e] \in {"parent", "op", "reload"} /\ ~req[e].given
            /\ pc'[e] = "parent" \/ DOMAIN req[e].patch = {}
  BY <1>1, FindStep DEF Ends, UpdateOf
<1>3. PICK r \in Requests, rule \in Rule :
        /\ r = req[e] /\ rule = rules[mem[e].rule] /\ r.kind = "update"
        /\ AllStorable(rule.conds)
  BY <1>1, <1>2, Member DEF UpdateOf, TypeInv, WriterInv
<1>4. rule.parent \in Parent /\ rule.conds \in Rows
  BY RuleFields
<1>5. PICK want, parent :
        /\ parent = Override(r.patch, rule.parent)
        /\ want = IdentityOf(parent, computeFinalConditions(rule.conds, r.conds))
  OBVIOUS
<1>6. Reached(faults, r, want, parent, rule.conds, 0)
  BY <1>3, <1>4, <1>5, ReachedAtStart
<1>7. mem'[e].want = want /\ mem'[e].at = 1
  BY <1>2, <1>3, <1>5 DEF Goes
<1>8. Len(r.conds) \in Nat
  BY SMTT(30), <1>3, RequestOps
<1>9. CASE pc'[e] \in {"check", "parent"}
  BY SMTT(30), <1>3, <1>5, <1>6, <1>7, <1>9 DEF Foreseen, Applied, Target
<1>10. CASE pc'[e] \in {"op", "reload"}
  <2>1. /\ ~r.given /\ DOMAIN r.patch = {}
    BY <1>2, <1>3, <1>10
  <2>2. parent = rule.parent
    BY <1>4, <1>5, <2>1, NoPatch
  <2>3. Len(r.conds) = 0
    <3>1. r.conds = <<>>
      BY <1>3, <2>1, RequestKind
    <3> QED
      BY <3>1, EmptySeq
  <2>4. Applied(pc'[e], r, mem'[e]) = 0
    BY <1>7, <1>10, <2>3 DEF Applied
  <2> QED
    BY <1>3, <1>6, <1>7, <1>10, <2>2, <2>4 DEF Foreseen, Target
<1> QED
  BY <1>2, <1>9, <1>10

LEMMA BeforeOps ==
  ASSUME NEW fs, NEW r \in Requests, r.kind = "update", NEW m \in Locals, NEW old, NEW new,
         NEW stage \in {"check", "parent"}, Foreseen(fs, stage, r, m, old),
         new.conds = old.conds, new.parent = Override(r.patch, old.parent)
  PROVE  Foreseen(fs, After(r, 1), r, AtOp(m, 1), new)
<1>1. Reached(fs, r, m.want, new.parent, new.conds, 0)
  BY DEF Foreseen, Target, Applied
<1>2. Len(r.conds) \in Nat /\ Len(Ops(r)) \in Nat
  BY RequestOps, OpsEmpty
<1>3. /\ Applied(After(r, 1), r, AtOp(m, 1)) = IF 1 <= Len(r.conds) THEN 0 ELSE Len(r.conds)
      /\ After(r, 1) # "rewrite" /\ After(r, 1) \notin {"check", "parent"}
      /\ AtOp(m, 1).want = m.want
  BY <1>2, AppliedNext
<1>4. Applied(After(r, 1), r, AtOp(m, 1)) = 0
  BY <1>2, <1>3
<1> QED
  BY <1>1, <1>3, <1>4 DEF Foreseen, Target

LEMMA CheckForesees ==
  ASSUME WriterInv, NEW e \in Clients, CheckDuplicate(e), pc'[e] # "idle",
         req[e].kind = "update", Foreseen(faults, pc[e], req[e], mem[e], rules[mem[e].rule])
  PROVE  Foreseen(faults, pc'[e], req[e], mem'[e], rules[mem[e].rule])
<1>1. TypeInv
  BY DEF WriterInv
<1>2. /\ pc[e] = "check" /\ UpdateOf(req[e], mem[e], rules)
      /\ \/ Goes(e, "parent", mem[e])
         \/ /\ DOMAIN req[e].patch = {}
            /\ Goes(e, IF 1 <= Len(Ops(req[e])) THEN "op" ELSE "reload", AtOp(mem[e], 1))
  BY <1>1, CheckStep DEF Ends
<1>3. PICK r \in Requests, rule \in Rule, m \in Locals :
        r = req[e] /\ rule = rules[mem[e].rule] /\ m = mem[e] /\ r.kind = "update"
  BY <1>1, <1>2, Member DEF UpdateOf, TypeInv, ClientsTyped
<1>4. Foreseen(faults, "check", r, m, rule)
  BY <1>2, <1>3
<1>5. CASE Goes(e, "parent", m)
  <2>1. Foreseen(faults, "parent", r, m, rule)
    BY <1>4 DEF Foreseen, Applied, Target
  <2> QED
    BY SMTT(30), <1>3, <1>5, <2>1 DEF Goes
<1>6. CASE DOMAIN r.patch = {} /\ Goes(e, After(r, 1), AtOp(m, 1))
  <2>1. rule.parent = Override(r.patch, rule.parent)
    BY <1>6, RuleFields, NoPatch
  <2>2. Foreseen(faults, After(r, 1), r, AtOp(m, 1), rule)
    BY <1>3, <1>4, <2>1, BeforeOps
  <2> QED
    BY <1>3, <1>6, <2>2 DEF Goes
<1> QED
  BY <1>2, <1>3, <1>5, <1>6 DEF After

LEMMA ParentForesees ==
  ASSUME WriterInv, NEW e \in Clients, UpdateParent(e), pc'[e] # "idle",
         Foreseen(faults, pc[e], req[e], mem[e], rules[mem[e].rule])
  PROVE  Foreseen(faults, pc'[e], req[e], mem'[e], rules'[mem[e].rule])
<1>1. TypeInv
  BY DEF WriterInv
<1>2. /\ pc[e] = "parent" /\ UpdateOf(req[e], mem[e], rules)
      /\ Override(req[e].patch, rules[mem[e].rule].parent) \in Parent
      /\ Edits(mem[e].rule,
               [rules[mem[e].rule] EXCEPT
                  !.parent = Override(req[e].patch, rules[mem[e].rule].parent)])
      /\ Goes(e, IF 1 <= Len(Ops(req[e])) THEN "op" ELSE "reload", AtOp(mem[e], 1))
  BY <1>1, ParentStep DEF Ends
<1>3. PICK r \in Requests, rule \in Rule, m \in Locals :
        r = req[e] /\ rule = rules[mem[e].rule] /\ m = mem[e] /\ r.kind = "update"
  BY <1>1, <1>2, Member DEF UpdateOf, TypeInv, ClientsTyped
<1>4. PICK parent \in Parent : parent = Override(r.patch, rule.parent)
  BY <1>2, <1>3
<1>5. PICK new : new = [rule EXCEPT !.parent = parent]
  OBVIOUS
<1>6. new.parent = parent /\ new.conds = rule.conds
  BY <1>5 DEF Rule
<1>7. rules'[m.rule] = new
  <2>1. Edits(m.rule, new) /\ rules \in Seq(Rule)
    BY <1>1, <1>2, <1>3, <1>4, <1>5 DEF TypeInv
  <2> QED
    BY <2>1, EditStep
<1>8. Foreseen(faults, After(r, 1), r, AtOp(m, 1), new)
  <2>1. Foreseen(faults, "parent", r, m, rule)
    BY <1>2, <1>3
  <2> QED
    BY <1>3, <1>4, <1>6, <2>1, BeforeOps
<1> QED
  BY <1>2, <1>3, <1>7, <1>8 DEF Goes, After

LEMMA OpMoves ==
  ASSUME NEW fs, NEW r \in Requests, r.kind = "update", NEW m \in Locals,
         m.at \in 1..Len(Ops(r)), NEW stage \in {"op", "rewrite", "write"},
         NEW old, NEW new, Foreseen(fs, stage, r, m, old), new.parent = old.parent,
         \/ m.at > Len(r.conds) /\ new.conds = old.conds
         \/ m.at <= Len(r.conds) /\ Reached(fs, r, m.want, old.parent, new.conds, m.at)
  PROVE  Foreseen(fs, After(r, m.at + 1), r, AtOp(m, m.at + 1), new)
<1>1. Len(r.conds) \in Nat /\ Len(Ops(r)) \in Nat
  BY RequestOps, OpsEmpty
<1>2. PICK k : k = m.at + 1
  OBVIOUS
<1>3. k \in 1..(Len(Ops(r)) + 1) /\ k - 1 = m.at /\ m.at \in Int
  BY <1>1, <1>2
<1>4. /\ Applied(After(r, k), r, AtOp(m, k)) = IF k <= Len(r.conds) THEN k - 1 ELSE Len(r.conds)
      /\ After(r, k) # "rewrite" /\ After(r, k) \notin {"check", "parent"}
      /\ AtOp(m, k).want = m.want
  BY <1>3, AppliedNext
<1>5. CASE m.at > Len(r.conds) /\ new.conds = old.conds
  <2>1. Applied(stage, r, m) = Len(r.conds) /\ Target(stage, r, old) = old.parent
    BY <1>5 DEF Applied, Target
  <2>2. Reached(fs, r, m.want, new.parent, new.conds, Len(r.conds))
    BY <1>5, <2>1 DEF Foreseen
  <2>3. Applied(After(r, k), r, AtOp(m, k)) = Len(r.conds)
    BY <1>1, <1>3, <1>4, <1>5
  <2> QED
    BY <1>2, <1>4, <2>2, <2>3 DEF Foreseen, Target
<1>6. CASE m.at <= Len(r.conds) /\ Reached(fs, r, m.want, old.parent, new.conds, m.at)
  <2>1. Applied(After(r, k), r, AtOp(m, k)) = m.at
    BY <1>1, <1>3, <1>4, <1>6
  <2> QED
    BY <1>2, <1>4, <1>6, <2>1 DEF Foreseen, Target
<1> QED
  BY <1>5, <1>6

\* The rows and the parent a condition statement leaves.
LEMMA CondsWritten ==
  ASSUME TypeInv, NEW i \in DOMAIN rules, NEW rows, WritesConds(i, rows)
  PROVE  rules'[i].conds = rows /\ rules'[i].parent = rules[i].parent
  BY WriteStep DEF TypeInv

LEMMA OpForesees ==
  ASSUME WriterInv, ~({"retype", "twice"} \subseteq faults),
         NEW e \in Clients, pc'[e] # "idle",
         DeleteCondition(e) \/ CreateCondition(e) \/ RewriteCondition(e),
         Foreseen(faults, pc[e], req[e], mem[e], rules[mem[e].rule])
  PROVE  Foreseen(faults, pc'[e], req[e], mem'[e], rules'[mem[e].rule])
<1>1. TypeInv
  BY DEF WriterInv
<1>2. pc[e] \in {"op", "rewrite"} /\ NextOp(e) /\ StepTyped(e)
  BY <1>1, DeleteConditionStep, CreateConditionStep, RewriteConditionStep DEF OnCondition
<1>3. /\ UpdateOf(req[e], mem[e], rules) /\ mem[e] \in Locals /\ rules[mem[e].rule] \in Rule
      /\ mem[e].at \in 1..Len(Ops(req[e])) /\ mem[e].at <= Len(req[e].conds)
      /\ Op(e) = req[e].conds[mem[e].at]
  BY <1>1, <1>2, AtOperation DEF DeleteCondition, CreateCondition, OnCondition, RewriteCondition
<1>4. PICK r \in Requests, rule \in Rule, m \in Locals :
        r = req[e] /\ rule = rules[mem[e].rule] /\ m = mem[e] /\ r.kind = "update"
  BY <1>3 DEF UpdateOf
<1>5. PICK k \in 1..Len(r.conds) : k = m.at /\ k \in 1..Len(Ops(r)) /\ k - 1 = m.at - 1
  BY <1>3, <1>4
<1>6. PICK op : op = Op(e) /\ op = r.conds[k]
  BY <1>3, <1>4, <1>5
<1>7. Allowed(faults, r) /\ ("retype" \notin faults \/ "twice" \notin faults)
  BY SMTT(30), <1>2, <1>4 DEF WriterInv
<1>8. Reached(faults, r, m.want, rule.parent, rule.conds, k - 1)
  <2>1. Applied(pc[e], r, m) = k - 1 /\ Target(pc[e], r, rule) = rule.parent
    BY <1>2, <1>5 DEF Applied, Target
  <2> QED
    BY <1>4, <2>1 DEF Foreseen
<1>9. ASSUME NEW rows, WritesConds(m.rule, rows),
             Reached(faults, r, m.want, rule.parent, rows, k)
      PROVE  Foreseen(faults, pc'[e], req[e], mem'[e], rules'[mem[e].rule])
  <2>1. PICK new : new = rules'[m.rule]
    OBVIOUS
  <2>2. new.conds = rows /\ new.parent = rule.parent
    BY <1>1, <1>3, <1>4, <1>9, <2>1, CondsWritten DEF UpdateOf
  <2>3. Foreseen(faults, pc[e], r, m, rule)
    BY <1>4
  <2>4. Foreseen(faults, After(r, m.at + 1), r, AtOp(m, m.at + 1), new)
    <3>1. PICK stage \in {"op", "rewrite", "write"} : stage = pc[e]
      BY <1>2
    <3>2. /\ Foreseen(faults, stage, r, m, rule) /\ m.at \in 1..Len(Ops(r))
          /\ m.at <= Len(r.conds)
      BY <1>3, <1>4, <2>3, <3>1
    <3>3. Reached(faults, r, m.want, rule.parent, new.conds, m.at)
      BY <1>5, <1>9, <2>2
    <3> QED
      BY <1>4, <2>2, <3>2, <3>3, OpMoves
  <2>5. Goes(e, After(r, m.at + 1), AtOp(m, m.at + 1))
    <3>1. Grown(rules') /\ pc[e] \in {"op", "rewrite", "config", "write"}
      BY <1>2 DEF StepTyped
    <3>2. Goes(e, IF m.at + 1 <= Len(Ops(r)) THEN "op" ELSE "reload", AtOp(m, m.at + 1))
      BY <1>1, <1>2, <1>4, <3>1, NextOpStep
    <3> QED
      BY <3>2 DEF After
  <2> QED
    BY <1>4, <2>1, <2>4, <2>5 DEF Goes
<1>10. CASE DeleteCondition(e)
  <2>1. op.do = "delete" /\ WritesConds(m.rule, Deleted(rule.conds, op))
    BY <1>1, <1>4, <1>6, <1>10, DeleteConditionStep DEF Deleted
  <2>2. Reached(faults, r, m.want, rule.parent, Deleted(rule.conds, op), k)
    BY <1>4, <1>6, <1>7, <1>8, <2>1, ReachedByOp
  <2> QED
    BY <1>9, <2>1, <2>2
<1>11. CASE CreateCondition(e)
  <2>1. /\ op.do = "create"
        /\ WritesConds(m.rule, Append(rule.conds, [shape |-> op.put, live |-> TRUE]))
    BY <1>1, <1>4, <1>6, <1>11, CreateConditionStep
  <2>2. Reached(faults, r, m.want, rule.parent,
                Append(rule.conds, [shape |-> op.put, live |-> TRUE]), k)
    BY <1>4, <1>6, <1>7, <1>8, <2>1, ReachedByOp
  <2> QED
    BY <1>9, <2>1, <2>2
<1>12. CASE RewriteCondition(e)
  <2>1. /\ pc[e] = "rewrite" /\ op.do = "update"
        /\ IsLiveRow(rule.conds, op.id)
        /\ m.merged = Stored(Override(op.put, rule.conds[op.id].shape))
    BY <1>1, <1>4, <1>5, <1>6, <1>12, RewriteConditionStep DEF Foreseen
  <2>2. PICK s : s = Stored(Override(op.put, rule.conds[op.id].shape)) /\ s = m.merged
    BY <2>1
  <2>3. PICK rows :
          rows = [rule.conds EXCEPT ![op.id] = [rule.conds[op.id] EXCEPT !.shape = s]]
    OBVIOUS
  <2>4. WritesConds(m.rule, rows)
    BY <1>1, <1>4, <1>6, <1>12, <2>1, <2>2, <2>3, RewriteConditionStep
  <2>5. Reached(faults, r, m.want, rule.parent, rows, k)
    <3>1. Reached(faults, r, m.want, rule.parent,
            [rule.conds EXCEPT ![op.id] = [rule.conds[op.id] EXCEPT
               !.shape = Stored(Override(op.put, rule.conds[op.id].shape))]], k)
      BY ZenonT(40), <1>4, <1>6, <1>7, <1>8, <2>1, ReachedByOp
    <3> QED
      BY SMTT(30), <2>2, <2>3, <3>1
  <2> QED
    BY <1>9, <2>4, <2>5
<1> QED
  BY <1>10, <1>11, <1>12

LEMMA FindConditionForesees ==
  ASSUME WriterInv, NEW e \in Clients, FindCondition(e), pc'[e] # "idle",
         Foreseen(faults, pc[e], req[e], mem[e], rules[mem[e].rule])
  PROVE  Foreseen(faults, pc'[e], req[e], mem'[e], rules[mem[e].rule])
<1>1. TypeInv
  BY DEF WriterInv
<1>2. /\ pc[e] = "op" /\ mem[e].at <= Len(req[e].conds)
      /\ Op(e) = req[e].conds[mem[e].at] /\ mem[e].at \in Int
      /\ UpdateOf(req[e], mem[e], rules)
  <2>1. pc[e] = "op" /\ mem[e].at <= Len(req[e].conds)
    BY <1>1, FindConditionStep DEF OnCondition
  <2> QED
    BY <1>1, <2>1, AtOperation
<1>3. PICK r, rule, m, op :
        /\ r = req[e] /\ rule = rules[mem[e].rule] /\ m = mem[e] /\ op = Op(e)
        /\ op = r.conds[m.at]
  BY SMTT(30), <1>2
<1>4. PICK n \in Locals :
        /\ IsLiveRow(rule.conds, op.id)
        /\ n.merged = Stored(Override(op.put, rule.conds[op.id].shape))
        /\ n.at = m.at /\ n.want = m.want
        /\ Goes(e, "rewrite", n)
  BY <1>1, <1>3, FindConditionStep DEF Ends
<1>5. Reached(faults, r, n.want, rule.parent, rule.conds, m.at - 1)
  <2>1. Applied("op", r, m) = m.at - 1 /\ Target("op", r, rule) = rule.parent
    <3>1. Len(r.conds) \in Nat
      BY <1>2, <1>3, RequestOps DEF UpdateOf
    <3> QED
      BY <1>2, <1>3, <3>1 DEF Applied, Target
  <2> QED
    BY <1>2, <1>3, <1>4, <2>1 DEF Foreseen
<1>6. Applied("rewrite", r, n) = m.at - 1 /\ Target("rewrite", r, rule) = rule.parent
  <2>1. Len(r.conds) \in Nat
    BY <1>2, <1>3, RequestOps DEF UpdateOf
  <2>2. ~(m.at > Len(r.conds))
    BY <1>2, <1>3, <2>1
  <2>3. ~(n.at > Len(r.conds)) /\ n.at - 1 = m.at - 1
    BY SMTT(30), <1>4, <2>2
  <2> QED
    BY <2>3 DEF Applied, Target
<1>7. Foreseen(faults, "rewrite", r, n, rule)
  BY <1>3, <1>4, <1>5, <1>6 DEF Foreseen
<1> QED
  BY <1>3, <1>4, <1>7 DEF Goes

LEMMA ActionForesees ==
  ASSUME WriterInv, NEW e \in Clients, WritesActions(e), pc'[e] # "idle",
         Foreseen(faults, pc[e], req[e], mem[e], rules[mem[e].rule])
  PROVE  Foreseen(faults, pc'[e], req[e], mem'[e], rules'[mem[e].rule])
<1>1. TypeInv
  BY SMTT(30) DEF WriterInv
<1>2. /\ pc[e] \in {"op", "write"} /\ NextOp(e) /\ Grown(rules')
      /\ mem[e].at > Len(req[e].conds)
  <2>1. WriteConfig(e) => mem[e].at > Len(req[e].conds)
    BY <1>1, AtOperation DEF WriteConfig
  <2> QED
    BY <1>1, <2>1, DeleteActionStep, CreateActionStep, WriteConfigStep
       DEF WritesActions, OnAction, StepTyped
<1>3. /\ UpdateOf(req[e], mem[e], rules) /\ mem[e].at \in 1..Len(Ops(req[e]))
      /\ mem[e] \in Locals /\ rules[mem[e].rule] \in Rule
  BY <1>1, <1>2, AtOperation
<1>4. PICK r \in Requests, m \in Locals :
        r = req[e] /\ m = mem[e] /\ r.kind = "update"
  BY <1>3 DEF UpdateOf
<1>5. PICK old, new :
        /\ old = rules[m.rule] /\ new = rules'[m.rule]
        /\ new.conds = old.conds /\ new.parent = old.parent
  BY <1>1, <1>3, <1>4, ActionWrites DEF UpdateOf
<1>6. PICK stage \in {"op", "rewrite", "write"} : stage = pc[e]
  BY <1>2
<1>7. Foreseen(faults, stage, r, m, old) /\ m.at \in 1..Len(Ops(r)) /\ m.at > Len(r.conds)
  BY <1>2, <1>3, <1>4, <1>5, <1>6
<1>8. Foreseen(faults, After(r, m.at + 1), r, AtOp(m, m.at + 1), new)
  BY <1>4, <1>5, <1>7, OpMoves
<1>9. Goes(e, After(r, m.at + 1), AtOp(m, m.at + 1))
  <2>1. pc[e] \in {"op", "rewrite", "config", "write"}
    BY <1>2
  <2>2. Goes(e, IF m.at + 1 <= Len(Ops(r)) THEN "op" ELSE "reload", AtOp(m, m.at + 1))
    BY SMTT(30), <1>1, <1>2, <1>4, <2>1, NextOpStep
  <2> QED
    BY <2>2 DEF After
<1> QED
  BY <1>4, <1>5, <1>8, <1>9 DEF Goes

\* Reading an action or a config is no step on the path.
LEMMA ReadForesees ==
  ASSUME WriterInv, NEW e \in Clients, FindAction(e) \/ FindConfig(e), pc'[e] # "idle",
         Foreseen(faults, pc[e], req[e], mem[e], rules[mem[e].rule])
  PROVE  Foreseen(faults, pc'[e], req[e], mem'[e], rules[mem[e].rule])
<1>1. TypeInv
  BY DEF WriterInv
<1>2. /\ pc[e] \in {"op", "config"} /\ pc'[e] \in {"config", "write"} /\ mem'[e] = mem[e]
  BY <1>1, FindActionStep, FindConfigStep DEF OnAction, Ends, Goes
<1> QED
  BY <1>2 DEF Foreseen, Applied, Target

LEMMA OwnPath ==
  ASSUME PathInv, Without({"writers"}), ~({"retype", "twice"} \subseteq faults),
         NEW e \in Clients, Steps(e), pc'[e] \notin {"idle", "find"},
         req'[e].kind = "update", rules'[mem'[e].rule].live
  PROVE  Foreseen(faults, pc'[e], req'[e], mem'[e], rules'[mem'[e].rule])
<1>1. TypeInv /\ WriterInv
  BY DEF PathInv, WriterInv
<1>2. /\ req'[e] = req[e] /\ mem'[e].rule = mem[e].rule /\ rules[mem[e].rule].live
      /\ req[e].kind = "update" /\ pc'[e] # "idle"
      /\ Find(e) \/ PastFind(e)
      /\ \/ Find(e) \/ CheckDuplicate(e) \/ UpdateParent(e) \/ DeleteCondition(e)
         \/ CreateCondition(e) \/ FindCondition(e) \/ RewriteCondition(e)
         \/ WritesActions(e) \/ FindAction(e) \/ FindConfig(e)
  BY <1>1, OwnStep DEF UpdateOf
<1>3. SUFFICES Foreseen(faults, pc'[e], req[e], mem'[e], rules'[mem[e].rule])
  BY <1>2
<1>4. CASE Find(e)
  <2>1. rules' = rules
    BY <1>4 DEF Find
  <2> QED
    BY <1>1, <1>4, <2>1, FindForesees
<1>5. CASE PastFind(e)
  <2>1. Foreseen(faults, pc[e], req[e], mem[e], rules[mem[e].rule])
    BY <1>2, <1>5 DEF PathInv
  <2>2. CASE CheckDuplicate(e) \/ FindCondition(e) \/ FindAction(e) \/ FindConfig(e)
    <3>1. rules' = rules
      BY <2>2 DEF CheckDuplicate, FindCondition, FindAction, FindConfig
    <3> QED
      BY <1>1, <1>2, <2>1, <2>2, <3>1, CheckForesees, FindConditionForesees, ReadForesees
  <2>3. CASE UpdateParent(e)
    BY <1>1, <1>2, <2>1, <2>3, ParentForesees
  <2>4. CASE DeleteCondition(e) \/ CreateCondition(e) \/ RewriteCondition(e)
    BY <1>1, <1>2, <2>1, <2>4, OpForesees
  <2>5. CASE WritesActions(e)
    BY <1>1, <1>2, <2>1, <2>5, ActionForesees
  <2>6. CASE Find(e)
    BY <1>4, <2>6
  <2> QED
    BY <1>2, <2>2, <2>3, <2>4, <2>5, <2>6
<1> QED
  BY <1>2, <1>4, <1>5

LEMMA PathStep == PathInv /\ [Next]_vars => PathInv'
<1> SUFFICES ASSUME PathInv, [Next]_vars PROVE PathInv'
  OBVIOUS
<1>1. TypeInv /\ WriterInv /\ WriterInv'
  BY WriterStep DEF PathInv, WriterInv
<1>2. CASE UNCHANGED vars
  BY <1>1, <1>2 DEF PathInv, vars, Without, PastFind
<1>3. CASE Next
  <2>1. PICK e \in Clients : Steps(e)
    BY <1>3 DEF Next, Steps
  <2>2. OthersStay(e) /\ faults' = faults
    BY <1>1, <2>1, RequestsKept
  <2>3. ASSUME Without({"writers"}), ~({"retype", "twice"} \subseteq faults),
               NEW c \in Clients, pc'[c] \notin {"idle", "find"}, req'[c].kind = "update",
               rules'[mem'[c].rule].live
        PROVE  Foreseen(faults, pc'[c], req'[c], mem'[c], rules'[mem'[c].rule])
    <3>1. CASE c = e
      BY <2>1, <2>3, <3>1, OwnPath
    <3>2. CASE c # e
      <4>1. /\ PastFind(c) /\ Writes(c)
            /\ pc'[c] = pc[c] /\ req'[c] = req[c] /\ mem'[c] = mem[c]
        BY <2>2, <2>3, <3>2 DEF OthersStay, PastFind, Writes
      <4>2. mem[c].rule \in DOMAIN rules
        BY <1>1, <4>1, BusyRule DEF TypeInv, PastFind
      <4>3. SameRule(rules'[mem[c].rule], rules[mem[c].rule])
        BY <1>1, <2>1, <2>3, <3>2, <4>1, <4>2, NotMine
      <4>4. Foreseen(faults, pc[c], req[c], mem[c], rules[mem[c].rule])
        BY <2>3, <4>1, <4>3 DEF PathInv, SameRule
      <4> QED
        BY <4>1, <4>3, <4>4, ForeseenSame
    <3> QED
      BY <3>1, <3>2
  <2> QED
    BY <1>1, <2>2, <2>3 DEF PathInv, Without, PastFind
<1> QED
  BY <1>2, <1>3

-----------------------------------------------------------------------------
(* What was foreseen is what is stored.                                    *)
LEMMA AtReload ==
  ASSUME TypeInv, NEW c \in Clients, pc[c] = "reload"
  PROVE  /\ req[c] \in Requests /\ req[c].kind \in {"create", "update"}
         /\ mem[c].rule \in DOMAIN rules /\ rules[mem[c].rule] \in Rule
         /\ req[c].kind = "update" => PastFind(c)
<1>1. InStage(pc[c], req[c], mem[c], rules) /\ rules \in Seq(Rule)
  BY DEF TypeInv
<1>2. /\ req[c] \in Requests /\ req[c].kind \in {"create", "update"}
      /\ mem[c].rule \in DOMAIN rules
  BY <1>1 DEF InStage, UpdateOf
<1> QED
  BY <1>1, <1>2, Member DEF PastFind

LEMMA ReloadedUpdate ==
  ASSUME RemovalInv, PathInv, Without({"writers", "removal"}),
         ~({"retype", "twice"} \subseteq faults),
         NEW c \in Clients, pc[c] = "reload", req[c].kind = "update"
  PROVE  \E foreseen :
           /\ mem[c].want = IdentityOf(rules[mem[c].rule].parent, foreseen)
           /\ Mirrors(rules[mem[c].rule].conds, foreseen)
           /\ "retype" \notin faults => AllStorable(foreseen)
<1>1. TypeInv /\ PastFind(c)
  BY AtReload DEF RemovalInv
<1>2. rules[mem[c].rule].live
  BY <1>1 DEF RemovalInv, Without
<1>3. Foreseen(faults, pc[c], req[c], mem[c], rules[mem[c].rule])
  BY <1>1, <1>2 DEF PathInv, Without
<1>4. PICK r, rule, n : r = req[c] /\ rule = rules[mem[c].rule] /\ n = Len(r.conds)
  OBVIOUS
<1>5. Reached(faults, r, mem[c].want, rule.parent, rule.conds, n)
  BY <1>3, <1>4 DEF Foreseen, Applied, Target
<1>6. PICK f : /\ mem[c].want = IdentityOf(rule.parent, f)
               /\ Mirrors(rule.conds, f) /\ Plain(faults, r, n, f)
  BY <1>4, <1>5 DEF Reached
<1> QED
  BY <1>4, <1>6 DEF Plain, AllStorable

LEMMA ReloadedCreate ==
  ASSUME CreateInv, Without({"writers", "removal"}),
         NEW c \in Clients, pc[c] = "reload", req[c].kind = "create"
  PROVE  Known(rules[mem[c].rule]) = mem[c].want
  BY DEF CreateInv, CreateForeseen, Without

LEMMA StoredThen == RemovalInv /\ CreateInv /\ PathInv => StoredAsForeseen
<1> SUFFICES ASSUME RemovalInv, CreateInv, PathInv, Without({"writers", "removal", "retype"}),
                    NEW c \in Clients, pc[c] = "reload"
             PROVE  IdentityOf(rules[mem[c].rule].parent, rules[mem[c].rule].conds)
                      = mem[c].want
  BY DEF StoredAsForeseen
<1>1. TypeInv /\ Without({"writers", "removal"}) /\ "retype" \notin faults
  BY DEF RemovalInv, Without
<1>2. CASE req[c].kind = "create"
  BY <1>1, <1>2, ReloadedCreate DEF Known
<1>3. CASE req[c].kind = "update"
  <2>1. PICK foreseen :
          /\ mem[c].want = IdentityOf(rules[mem[c].rule].parent, foreseen)
          /\ Mirrors(rules[mem[c].rule].conds, foreseen) /\ AllStorable(foreseen)
    BY <1>1, <1>3, ReloadedUpdate
  <2>2. rules[mem[c].rule].conds = foreseen
    BY <2>1, MirrorsStorable
  <2> QED
    BY <2>1, <2>2
<1> QED
  BY <1>1, <1>2, <1>3, AtReload

(* computeFinalConditions() predicts what the statements of one request    *)
(* leave in the tables: when a create or an update, alone with its rule,   *)
(* comes to its final read, the rule has the identity the duplicate check  *)
(* was asked about, whatever the operations and the conditions.            *)
THEOREM StoredAsPredicted == Spec => []StoredAsForeseen
<1>1. Init => RemovalInv /\ CreateInv /\ PathInv
  BY RemovalInit, CreateInit, PathInit
<1> QED
  BY <1>1, RemovalStep, CreateStep, PathStep, StoredThen, PTL DEF Spec

LEMMA MatchesThen == RemovalInv /\ CreateInv /\ PathInv => MatchesAsForeseen
<1> SUFFICES ASSUME RemovalInv, CreateInv, PathInv, Without({"twice"}),
                    Without({"writers", "removal"}),
                    NEW c \in Clients, pc[c] = "reload", NEW data
             PROVE  matchConditions(LiveShapes(rules[mem[c].rule].conds), data)
                      <=> matchConditions({sn[1] : sn \in mem[c].want.conds}, data)
  BY DEF MatchesAsForeseen, PredictsEffectiveShape
<1>1. TypeInv /\ ~({"retype", "twice"} \subseteq faults)
  BY DEF RemovalInv, Without
<1>2. \E foreseen :
        /\ mem[c].want = IdentityOf(rules[mem[c].rule].parent, foreseen)
        /\ Mirrors(rules[mem[c].rule].conds, foreseen)
  <2>1. CASE req[c].kind = "create"
    <3>1. mem[c].want = IdentityOf(rules[mem[c].rule].parent, rules[mem[c].rule].conds)
      BY <2>1, ReloadedCreate DEF Known
    <3>2. /\ rules[mem[c].rule].conds \in Rows
          /\ AllStorable(rules[mem[c].rule].conds)
      BY <1>1, AtReload, RuleFields DEF CreateInv, WriterInv
    <3> QED
      BY <3>1, <3>2, SameMirrors
  <2>2. CASE req[c].kind = "update"
    BY <1>1, <2>2, ReloadedUpdate
  <2> QED
    BY <1>1, <2>1, <2>2, AtReload
<1>3. PICK foreseen :
        /\ mem[c].want = IdentityOf(rules[mem[c].rule].parent, foreseen)
        /\ Mirrors(rules[mem[c].rule].conds, foreseen)
  BY <1>2
<1>4. mem[c].want.conds = Normalized(foreseen)
  BY <1>3 DEF IdentityOf
<1>5. {sn[1] : sn \in mem[c].want.conds} = LiveShapes(foreseen)
  BY <1>4, ShapesOfNormalized
<1> QED
  BY ZenonT(40), <1>3, <1>5, MirrorsMatch

(* What the engine makes of the conditions stored is what it makes of the  *)
(* ones predicted, for every payload, also where exists had a value that   *)
(* the tables cannot hold, as long as no request changes a condition twice. *)
THEOREM MatchesAsPredicted == Spec => []MatchesAsForeseen
<1>1. Init => RemovalInv /\ CreateInv /\ PathInv
  BY RemovalInit, CreateInit, PathInit
<1> QED
  BY <1>1, RemovalStep, CreateStep, PathStep, MatchesThen, PTL DEF Spec

-----------------------------------------------------------------------------
(* The conditions a request names are there when it comes to them.         *)
NamesLive(done, r, rows) ==
  \A k \in DOMAIN r.conds :
    k > done /\ r.conds[k].do = "update" =>
      /\ IsLiveRow(rows, r.conds[k].id)
      /\ \A j \in (done + 1)..(k - 1) :
           r.conds[j].do = "delete" => r.conds[j].id # r.conds[k].id

KnownInv ==
  /\ WriterInv
  /\ Without({"writers", "unknown"}) =>
       \A c \in Clients :
         pc[c] # "idle" /\ req[c].kind = "update" /\ rules[mem[c].rule].live =>
           NamesLive(Applied(pc[c], req[c], mem[c]), req[c], rules[mem[c].rule].conds)

LEMMA NamesLater ==
  ASSUME NEW r \in Requests, r.kind = "update", NEW rows,
         NEW a \in Nat, NEW b \in Nat, a <= b, NamesLive(a, r, rows)
  PROVE  NamesLive(b, r, rows)
<1>1. Len(r.conds) \in Nat /\ DOMAIN r.conds = 1..Len(r.conds)
  BY RequestOps
<1>2. ASSUME NEW k \in DOMAIN r.conds, k > b, r.conds[k].do = "update"
      PROVE  /\ IsLiveRow(rows, r.conds[k].id)
             /\ \A j \in (b + 1)..(k - 1) :
                  r.conds[j].do = "delete" => r.conds[j].id # r.conds[k].id
  <2>1. k > a /\ \A j \in (b + 1)..(k - 1) : j \in (a + 1)..(k - 1)
    BY <1>1, <1>2
  <2> QED
    BY <1>2, <2>1 DEF NamesLive
<1> QED
  BY <1>2 DEF NamesLive

LEMMA NamesAfter ==
  ASSUME NEW r \in Requests, r.kind = "update", NEW k \in 1..Len(r.conds),
         NEW op, op = r.conds[k], NEW rows, NEW new, NamesLive(k - 1, r, rows),
         \A x : IsLiveRow(rows, x) /\ ~(op.do = "delete" /\ x = op.id) => IsLiveRow(new, x)
  PROVE  NamesLive(k, r, new)
<1>1. Len(r.conds) \in Nat /\ DOMAIN r.conds = 1..Len(r.conds)
  BY RequestOps
<1>2. ASSUME NEW l \in DOMAIN r.conds, l > k, r.conds[l].do = "update"
      PROVE  /\ IsLiveRow(new, r.conds[l].id)
             /\ \A j \in (k + 1)..(l - 1) :
                  r.conds[j].do = "delete" => r.conds[j].id # r.conds[l].id
  <2>1. /\ l > k - 1 /\ k \in ((k - 1) + 1)..(l - 1)
        /\ \A j \in (k + 1)..(l - 1) : j \in ((k - 1) + 1)..(l - 1)
    BY <1>1, <1>2
  <2>2. /\ IsLiveRow(rows, r.conds[l].id)
        /\ \A j \in ((k - 1) + 1)..(l - 1) :
             r.conds[j].do = "delete" => r.conds[j].id # r.conds[l].id
    BY <1>2, <2>1 DEF NamesLive
  <2> QED
    BY <2>1, <2>2
<1> QED
  BY <1>2 DEF NamesLive

LEMMA LiveAfter ==
  ASSUME NEW rows \in Seq(ConditionRow)
  PROVE  /\ \A op, x : IsLiveRow(rows, x) /\ x # op.id => IsLiveRow(Deleted(rows, op), x)
         /\ \A x : \A row \in ConditionRow : IsLiveRow(rows, x) => IsLiveRow(Append(rows, row), x)
         /\ \A x, k : \A s \in Shape :
              IsLiveRow(rows, x) =>
                IsLiveRow([rows EXCEPT ![k] = [rows[k] EXCEPT !.shape = s]], x)
<1>1. ASSUME NEW op, NEW x, IsLiveRow(rows, x), x # op.id
      PROVE  IsLiveRow(Deleted(rows, op), x)
  <2>1. PICK ids : ids = {op.id}
    OBVIOUS
  <2>2. PICK new : new = Marked(rows, ids)
    OBVIOUS
  <2>3. x \notin ids
    BY <1>1, <2>1
  <2>4. DOMAIN new = DOMAIN rows /\ new[x] = rows[x]
    <3>1. x \in DOMAIN rows
      BY <1>1 DEF IsLiveRow
    <3>2. /\ DOMAIN new = DOMAIN rows
          /\ \A k \in DOMAIN rows :
               new[k] = IF k \in ids THEN [rows[k] EXCEPT !.live = FALSE] ELSE rows[k]
      BY <2>2, MarkedRows
    <3> QED
      BY <2>3, <3>1, <3>2
  <2> QED
    BY <1>1, <2>1, <2>2, <2>4 DEF IsLiveRow, Deleted
<1>2. ASSUME NEW x, NEW row \in ConditionRow, IsLiveRow(rows, x)
      PROVE  IsLiveRow(Append(rows, row), x)
  <2>1. PICK new : new = Append(rows, row)
    OBVIOUS
  <2>2. x \in DOMAIN new /\ new[x] = rows[x]
    BY <1>2, <2>1, AddMember DEF IsLiveRow
  <2> QED
    BY <1>2, <2>1, <2>2 DEF IsLiveRow
<1>3. ASSUME NEW x, NEW k, NEW s \in Shape, IsLiveRow(rows, x)
      PROVE  IsLiveRow([rows EXCEPT ![k] = [rows[k] EXCEPT !.shape = s]], x)
  <2>1. CASE x # k
    BY <1>3, <2>1 DEF IsLiveRow
  <2>2. CASE x = k
    <3>1. PICK old \in ConditionRow : old = rows[k] /\ k \in DOMAIN rows
      BY <1>3, <2>2, Member DEF IsLiveRow
    <3>2. [old EXCEPT !.shape = s].live = old.live
      BY DEF ConditionRow
    <3>3. PICK row : row = [old EXCEPT !.shape = s]
      OBVIOUS
    <3>4. IsLiveRow([rows EXCEPT ![k] = row], x)
      BY <1>3, <2>2, <3>1, <3>2, <3>3 DEF IsLiveRow
    <3> QED
      BY <3>1, <3>3, <3>4
  <2> QED
    BY <2>1, <2>2
<1> QED
  BY <1>1, <1>2, <1>3

LEMMA AppliedNat ==
  ASSUME NEW stage, NEW r, NEW m \in Locals, NEW rs, InStage(stage, r, m, rs),
         stage # "idle", r.kind = "update"
  PROVE  Applied(stage, r, m) \in Nat
<1>1. /\ r \in Requests /\ r.kind # "remove"
      /\ stage \in {"find", "check", "parent", "op", "rewrite", "config", "write", "reload"}
  BY DEF InStage, UpdateOf
<1>2. PICK n, at : n = Len(r.conds) /\ at = m.at
  OBVIOUS
<1>3. n \in Nat /\ at \in Nat
  BY <1>1, <1>2, RequestOps, LocalsFields
<1>4. CASE stage \in {"find", "check", "parent", "reload"}
  BY <1>2, <1>3, <1>4 DEF Applied
<1>5. CASE stage \in {"op", "rewrite", "config", "write"}
  <2>1. at >= 1
    <3>1. Len(Ops(r)) \in Nat
      BY <1>1, OpsEmpty
    <3>2. m.at \in 1..Len(Ops(r)) \/ m.at \in 1..n \/ m.at \in (n + 1)..Len(Ops(r))
      BY <1>2, <1>5 DEF InStage
    <3> QED
      BY <1>2, <1>3, <3>1, <3>2
  <2>2. Applied(stage, r, m) = IF at > n THEN n ELSE at - 1
    BY <1>2, <1>5 DEF Applied
  <2> QED
    BY <1>3, <2>1, <2>2
<1> QED
  BY <1>1, <1>4, <1>5

LEMMA ReachFind ==
  ASSUME TypeInv, NEW c \in Clients, Steps(c), pc'[c] = "find"
  PROVE  \E r \in Requests : Start(c, r)
<1>1. pc \in [Clients -> Stages]
  BY DEF TypeInv, ClientsTyped
<1>2. ~Ends(c)
  BY DEF Ends
<1>3. \A k : ~GoToOp(c, k)
  BY <1>1 DEF GoToOp, GoTo
<1>4. ~NextOp(c)
  BY <1>3 DEF NextOp
<1>5. ~Find(c) /\ ~CheckDuplicate(c)
  BY <1>1, <1>2, <1>3, FindStep DEF CheckDuplicate, GoTo, Finish
<1>6. ~Insert(c) /\ ~CollectActions(c) /\ ~SoftDelete(c) /\ ~Reload(c) /\ ~Abort(c)
  BY <1>1, <1>2, SoftDeleteStep, ReloadStep DEF Insert, CollectActions, GoTo
<1>7. ~UpdateParent(c) /\ ~FindAction(c) /\ ~FindConfig(c) /\ ~FindCondition(c)
  BY <1>1, <1>3 DEF UpdateParent, FindAction, FindConfig, FindCondition, GoTo, Finish
<1>8. ~DeleteCondition(c) /\ ~CreateCondition(c) /\ ~RewriteCondition(c)
  BY <1>4 DEF DeleteCondition, CreateCondition, RewriteCondition
<1>9. ~DeleteAction(c) /\ ~CreateAction(c)
  BY <1>4 DEF DeleteAction, CreateAction
<1>10. ~WriteConfig(c)
  BY <1>4 DEF WriteConfig
<1> QED
  BY <1>5, <1>6, <1>7, <1>8, <1>9, <1>10 DEF Steps

LEMMA AppliedAfter ==
  ASSUME NEW r \in Requests, r.kind = "update", NEW m \in Locals, m.at \in 1..Len(Ops(r))
  PROVE  Applied(After(r, m.at + 1), r, AtOp(m, m.at + 1))
           = IF m.at <= Len(r.conds) THEN m.at ELSE Len(r.conds)
<1>1. PICK n, k, last : n = Len(r.conds) /\ k = m.at + 1 /\ last = Len(Ops(r))
  OBVIOUS
<1>2. n \in Nat /\ last \in Nat
  BY <1>1, RequestOps, OpsEmpty
<1>3. k \in 1..(last + 1) /\ k - 1 = m.at /\ m.at \in Int
  BY <1>1, <1>2
<1>4. Applied(After(r, k), r, AtOp(m, k)) = IF k <= n THEN k - 1 ELSE n
  BY <1>1, <1>3, AppliedNext
<1>5. (IF k <= n THEN k - 1 ELSE n) = IF m.at <= n THEN m.at ELSE n
  BY <1>2, <1>3
<1> QED
  BY <1>1, <1>4, <1>5

LEMMA OwnNames ==
  ASSUME KnownInv, Without({"writers", "unknown"}),
         NEW e \in Clients, Steps(e), pc'[e] \notin {"idle", "find"},
         req'[e].kind = "update", rules'[mem'[e].rule].live
  PROVE  NamesLive(Applied(pc'[e], req'[e], mem'[e]), req'[e], rules'[mem'[e].rule].conds)
<1>1. TypeInv /\ TypeInv'
  <2>1. [Next]_vars
    BY DEF Steps, Next
  <2> QED
    BY <2>1, TypeStep DEF KnownInv, WriterInv
<1>2. /\ req'[e] = req[e] /\ UpdateOf(req[e], mem[e], rules) /\ mem'[e].rule = mem[e].rule
      /\ mem[e] \in Locals /\ mem'[e] \in Locals
      /\ rules[mem[e].rule].live /\ rules[mem[e].rule] \in Rule
      /\ Find(e) \/ PastFind(e)
      /\ \/ Find(e) \/ CheckDuplicate(e) \/ UpdateParent(e) \/ DeleteCondition(e)
         \/ CreateCondition(e) \/ FindCondition(e) \/ RewriteCondition(e)
         \/ WritesActions(e) \/ FindAction(e) \/ FindConfig(e)
  BY <1>1, OwnStep
<1>3. PICK r \in Requests, m \in Locals, n \in Locals, rule \in Rule, rows \in Seq(ConditionRow) :
        /\ r = req[e] /\ m = mem[e] /\ n = mem'[e] /\ rule = rules[m.rule]
        /\ rows = rule.conds /\ r.kind = "update" /\ m.rule = n.rule
  BY <1>2, RuleFields DEF UpdateOf
<1>4. PICK stage, after, a, b, new :
        /\ stage = pc[e] /\ after = pc'[e]
        /\ a = Applied(stage, r, m) /\ b = Applied(after, r, n) /\ new = rules'[m.rule]
  OBVIOUS
<1>5. pc[e] # "idle" /\ NamesLive(a, r, rows)
  <2>1. pc[e] # "idle"
    BY <1>2 DEF Find, PastFind
  <2> QED
    BY <1>2, <1>3, <1>4, <2>1 DEF KnownInv, UpdateOf
<1>6. a \in Nat /\ b \in Nat
  <2>1. InStage(stage, r, m, rules)
    BY <1>1, <1>3, <1>4 DEF TypeInv
  <2>2. InStage(after, r, n, rules')
    BY <1>1, <1>2, <1>3, <1>4 DEF TypeInv
  <2> QED
    BY <1>3, <1>4, <1>5, <2>1, <2>2, AppliedNat
<1>7. SUFFICES NamesLive(b, r, new.conds)
  BY <1>2, <1>3, <1>4
<1>8. ASSUME new.conds = rows, a <= b PROVE NamesLive(b, r, new.conds)
  BY <1>3, <1>5, <1>6, <1>8, NamesLater
<1>9. Len(r.conds) \in Nat /\ Len(Ops(r)) \in Nat
  BY <1>3, RequestOps, OpsEmpty
<1>10. ASSUME NextOp(e), pc[e] \in {"op", "rewrite", "config", "write"}
       PROVE  /\ m.at \in 1..Len(Ops(r))
              /\ b = IF m.at <= Len(r.conds) THEN m.at ELSE Len(r.conds)
  <2>1. Grown(rules')
    BY <1>1, EachStepTyped DEF StepTyped
  <2>2. m.at \in 1..Len(Ops(r))
    BY <1>1, <1>3, <1>10, AtOperation
  <2>3. Goes(e, After(r, m.at + 1), AtOp(m, m.at + 1))
    BY <1>1, <1>3, <1>10, <2>1, NextOpStep DEF After
  <2>4. b = Applied(After(r, m.at + 1), r, AtOp(m, m.at + 1))
    BY <1>3, <1>4, <2>3 DEF Goes
  <2> QED
    BY <1>3, <2>2, <2>4, AppliedAfter
<1>11. CASE Find(e) \/ CheckDuplicate(e)
  <2>1. a = 0 /\ new.conds = rows
    BY <1>3, <1>4, <1>11 DEF Find, CheckDuplicate, Applied
  <2> QED
    BY <1>6, <1>8, <2>1
<1>12. CASE UpdateParent(e)
  <2>1. a = 0
    BY <1>4, <1>12 DEF UpdateParent, Applied
  <2>2. new.conds = rows
    <3>1. CASE rules' = rules
      BY <1>3, <1>4, <3>1
    <3>2. CASE \E x \in Parent : Edits(m.rule, [rule EXCEPT !.parent = x])
      <4>1. PICK x \in Parent : Edits(m.rule, [rule EXCEPT !.parent = x])
        BY <3>2
      <4>2. PICK edited : edited = [rule EXCEPT !.parent = x] /\ edited.conds = rows
        <5>1. [rule EXCEPT !.parent = x].conds = rows
          BY <1>3 DEF Rule
        <5> QED
          BY <5>1
      <4>3. Edits(m.rule, edited)
        BY <4>1, <4>2
      <4>4. rules'[m.rule] = edited
        BY <1>1, <4>3, EditStep DEF TypeInv
      <4> QED
        BY <1>4, <4>2, <4>4
    <3> QED
      BY <1>1, <1>3, <1>12, <3>1, <3>2, ParentStep
  <2> QED
    BY <1>6, <1>8, <2>1, <2>2
<1>13. CASE FindCondition(e) \/ FindAction(e) \/ FindConfig(e)
  <2>1. new.conds = rows
    BY <1>3, <1>4, <1>13 DEF FindCondition, FindAction, FindConfig
  <2>2. a = b
    <3>1. CASE FindCondition(e)
      <4>1. after = "rewrite" /\ n.at = m.at /\ stage = "op"
        <5>1. OnCondition(e) /\ ~Ends(e)
          BY <1>1, <1>2, <1>3, <3>1, FindConditionStep DEF Ends, UpdateOf
        <5> QED
          BY <1>1, <1>3, <1>4, <3>1, <5>1, FindConditionStep DEF Goes, OnCondition
      <4> QED
        BY <1>4, <4>1 DEF Applied
    <3>2. CASE FindAction(e) \/ FindConfig(e)
      <4>1. /\ stage \in {"op", "config"} /\ after \in {"config", "write"} /\ n = m
        BY <1>1, <1>2, <1>3, <1>4, <3>2, FindActionStep, FindConfigStep
           DEF OnAction, Goes, Ends, UpdateOf
      <4> QED
        BY <1>4, <4>1 DEF Applied
    <3> QED
      BY <1>13, <3>1, <3>2
  <2> QED
    BY <1>6, <1>8, <2>1, <2>2
<1>14. CASE WritesActions(e)
  <2>1. NextOp(e) /\ pc[e] \in {"op", "write"} /\ m.at > Len(r.conds)
    <3>1. CASE DeleteAction(e) \/ CreateAction(e)
      BY <1>3, <3>1 DEF DeleteAction, CreateAction, OnAction
    <3>2. CASE WriteConfig(e)
      <4>1. NextOp(e) /\ pc[e] = "write"
        BY <3>2 DEF WriteConfig
      <4> QED
        BY <1>1, <1>3, <4>1, AtOperation
    <3> QED
      BY <1>14, <3>1, <3>2 DEF WritesActions
  <2>2. new.conds = rows
    BY <1>1, <1>2, <1>3, <1>4, <1>14, ActionWrites DEF UpdateOf
  <2>3. a = Len(r.conds)
    BY <1>4, <2>1 DEF Applied
  <2>4. b = Len(r.conds)
    BY <1>9, <1>10, <2>1
  <2> QED
    BY <1>6, <1>8, <2>2, <2>3, <2>4
<1>15. CASE DeleteCondition(e) \/ CreateCondition(e) \/ RewriteCondition(e)
  <2>1. /\ NextOp(e) /\ pc[e] \in {"op", "rewrite"} /\ m.at <= Len(r.conds)
        /\ Op(e) = r.conds[m.at] /\ m.at \in 1..Len(Ops(r))
    <3>1. pc[e] \in {"op", "rewrite"} /\ NextOp(e)
      BY <1>1, <1>15, DeleteConditionStep, CreateConditionStep, RewriteConditionStep
         DEF OnCondition
    <3>2. mem[e].at <= Len(req[e].conds)
      BY <1>1, <1>15, <3>1, AtOperation
         DEF DeleteCondition, CreateCondition, OnCondition, RewriteCondition
    <3> QED
      BY <1>1, <1>3, <3>1, <3>2, AtOperation
  <2>2. PICK k \in 1..Len(r.conds) : k = m.at
    BY <1>9, <2>1
  <2>3. PICK op : op = Op(e) /\ op = r.conds[k]
    BY <2>1, <2>2
  <2>4. a = k - 1 /\ b = k
    <3>1. b = k
      BY <1>10, <2>1, <2>2
    <3>2. PICK len : len = Len(r.conds) /\ len \in Nat /\ ~(k > len)
      BY <1>9, <2>2
    <3>3. a = k - 1
      BY <1>4, <2>1, <2>2, <3>2 DEF Applied
    <3> QED
      BY <3>1, <3>3
  <2>5. NamesLive(k - 1, r, rows)
    BY <1>5, <2>4
  <2>6. ASSUME NEW written,
               \A x : IsLiveRow(rows, x) /\ ~(op.do = "delete" /\ x = op.id)
                        => IsLiveRow(written, x),
               WritesConds(m.rule, written) \/ (rules' = rules /\ written = rows)
        PROVE  NamesLive(b, r, new.conds)
    <3>1. new.conds = written
      <4>1. CASE WritesConds(m.rule, written)
        BY <1>1, <1>2, <1>3, <1>4, <4>1, CondsWritten DEF UpdateOf
      <4>2. CASE rules' = rules /\ written = rows
        BY <1>3, <1>4, <4>2
      <4> QED
        BY <2>6, <4>1, <4>2
    <3>2. NamesLive(k, r, written)
      BY <1>3, <2>3, <2>5, <2>6, NamesAfter
    <3> QED
      BY <2>4, <3>1, <3>2
  <2>7. CASE DeleteCondition(e)
    <3>1. op.do = "delete" /\ WritesConds(m.rule, Deleted(rows, op))
      BY <1>1, <1>3, <2>3, <2>7, DeleteConditionStep DEF Deleted
    <3>2. \A x : IsLiveRow(rows, x) /\ ~(op.do = "delete" /\ x = op.id)
                   => IsLiveRow(Deleted(rows, op), x)
      BY <1>3, <3>1, LiveAfter
    <3> QED
      BY <2>6, <3>1, <3>2
  <2>8. CASE CreateCondition(e)
    <3>1. PICK row \in ConditionRow : WritesConds(m.rule, Append(rows, row))
      <4>1. PICK s \in Shape : WritesConds(m.rule, Append(rows, [shape |-> s, live |-> TRUE]))
        BY <1>1, <1>3, <2>8, CreateConditionStep
      <4>2. [shape |-> s, live |-> TRUE] \in ConditionRow
        BY DEF ConditionRow
      <4> QED
        BY <4>1, <4>2
    <3>2. \A x : IsLiveRow(rows, x) => IsLiveRow(Append(rows, row), x)
      BY <1>3, LiveAfter
    <3> QED
      BY <2>6, <3>1, <3>2
  <2>9. CASE RewriteCondition(e)
    <3>1. CASE rules' = rules
      BY <2>6, <3>1
    <3>2. CASE rules' # rules
      <4>1. PICK s, i :
              /\ s \in Shape
              /\ WritesConds(m.rule, [rows EXCEPT ![i] = [rows[i] EXCEPT !.shape = s]])
        BY <1>1, <1>3, <2>9, <3>2, RewriteConditionStep
      <4>2. \A x : IsLiveRow(rows, x)
                     => IsLiveRow([rows EXCEPT ![i] = [rows[i] EXCEPT !.shape = s]], x)
        BY <1>3, <4>1, LiveAfter
      <4> QED
        BY <2>6, <4>1, <4>2
    <3> QED
      BY <3>1, <3>2
  <2> QED
    BY <1>15, <2>7, <2>8, <2>9
<1> QED
  BY <1>2, <1>11, <1>12, <1>13, <1>14, <1>15

LEMMA KnownInit == Init => KnownInv
  BY WriterInit DEF KnownInv, Init

LEMMA KnownStep == KnownInv /\ [Next]_vars => KnownInv'
<1> SUFFICES ASSUME KnownInv, [Next]_vars PROVE KnownInv'
  OBVIOUS
<1>1. TypeInv /\ WriterInv /\ WriterInv'
  BY WriterStep DEF KnownInv, WriterInv
<1>2. CASE UNCHANGED vars
  BY <1>1, <1>2 DEF KnownInv, vars, Without
<1>3. CASE Next
  <2>1. PICK e \in Clients : Steps(e)
    BY <1>3 DEF Next, Steps
  <2>2. OthersStay(e) /\ faults' = faults
    BY <1>1, <2>1, RequestsKept
  <2>3. ASSUME Without({"writers", "unknown"}), NEW c \in Clients,
               pc'[c] # "idle", req'[c].kind = "update", rules'[mem'[c].rule].live
        PROVE  NamesLive(Applied(pc'[c], req'[c], mem'[c]), req'[c],
                         rules'[mem'[c].rule].conds)
    <3>1. CASE c # e
      <4>1. /\ Writes(c) /\ req[c].kind = "update" /\ pc[c] # "idle"
            /\ pc'[c] = pc[c] /\ req'[c] = req[c] /\ mem'[c] = mem[c]
        BY <2>2, <2>3, <3>1 DEF OthersStay, Writes
      <4>2. mem[c].rule \in DOMAIN rules
        BY <1>1, <4>1, BusyRule DEF TypeInv
      <4>3. SameRule(rules'[mem[c].rule], rules[mem[c].rule])
        <5>1. Without({"writers"})
          BY <2>3 DEF Without
        <5> QED
          BY <1>1, <2>1, <2>3, <3>1, <4>1, <4>2, <5>1, NotMine
      <4>4. NamesLive(Applied(pc[c], req[c], mem[c]), req[c], rules[mem[c].rule].conds)
        BY <2>3, <4>1, <4>3 DEF KnownInv, SameRule
      <4> QED
        BY <4>1, <4>3, <4>4 DEF SameRule
    <3>2. CASE c = e /\ pc'[e] # "find"
      BY <2>1, <2>3, <3>2, OwnNames
    <3>3. CASE c = e /\ pc'[e] = "find"
      <4>1. PICK r \in Requests : Start(e, r)
        BY <1>1, <2>1, <3>3, ReachFind
      <4>2. /\ req'[e] = r /\ mem'[e].rule = r.rule /\ rules' = rules
        BY <1>1, <2>3, <3>3, <4>1 DEF Start, TypeInv, ClientsTyped, Blank
      <4>3. KnownIds(r)
        BY <2>3, <3>3, <4>1, <4>2 DEF Start, Expected, Without
      <4>4. NamesLive(0, r, rules[r.rule].conds)
        <5>1. \A k \in DOMAIN r.conds : (0 + 1)..(k - 1) = 1..(k - 1)
          OBVIOUS
        <5> QED
          BY <4>3, <5>1 DEF KnownIds, NamesLive
      <4>5. Applied("find", r, mem'[e]) = 0
        BY DEF Applied
      <4> QED
        BY <3>3, <4>2, <4>4, <4>5
    <3> QED
      BY <3>1, <3>2, <3>3
  <2> QED
    BY <1>1, <2>2, <2>3 DEF KnownInv, Without
<1> QED
  BY <1>2, <1>3

-----------------------------------------------------------------------------
(* The book administrators see, and the one request that writes to it.     *)
Distinct ==
  \A i, j \in DOMAIN rules : i # j /\ Entry(i) # Nothing => Entry(i) # Entry(j)

\* A duplicate check that was passed still holds; before it nothing was written.
StillChecked(c) ==
  /\ pc[c] = "insert" => \A j \in DOMAIN rules : Entry(j) # mem[c].want
  /\ pc[c] # "idle" /\ req[c].kind = "update" /\ rules[mem[c].rule].live =>
       /\ pc[c] = "check" => mem[c].existing = Known(rules[mem[c].rule])
       /\ pc[c] \notin {"find", "check"} =>
            \A j \in DOMAIN rules \ {mem[c].rule} : Entry(j) # mem[c].want

BookInv ==
  /\ CreateInv /\ PathInv /\ KnownInv
  /\ Orderly => Distinct /\ \A c \in Clients : StillChecked(c)

Updating(p, q, m, i) == {c \in Clients : p[c] # "idle" /\ q[c].kind = "update" /\ m[c].rule = i}
Marks(p, q, m, i) == {c \in Updating(p, q, m, i) : m[c].existing # Nothing}

\* An entry, of any rules and clients.
Shown(rs, p, q, m, i) ==
  IF ~rs[i].live THEN Nothing
  ELSE IF \E c \in Updating(p, q, m, i) : m[c].existing # Nothing
         THEN m[CHOOSE c \in Updating(p, q, m, i) : m[c].existing # Nothing].existing
  ELSE Known(rs[i])
Then(i) == Shown(rules', pc', req', mem', i)

LEMMA EntryShown ==
  /\ \A i : Entry(i) = Shown(rules, pc, req, mem, i)
  /\ \A i : Entry(i)' = Then(i)
  BY DEF Entry, Updates, Shown, Updating, Known, Then

LEMMA ShownCases ==
  ASSUME NEW rs, NEW p, NEW q, NEW m, NEW i
  PROVE  /\ ~rs[i].live => Shown(rs, p, q, m, i) = Nothing
         /\ rs[i].live /\ Marks(p, q, m, i) = {} => Shown(rs, p, q, m, i) = Known(rs[i])
         /\ \A c : rs[i].live /\ Marks(p, q, m, i) = {c}
                     => Shown(rs, p, q, m, i) = m[c].existing
<1>1. (\E c \in Updating(p, q, m, i) : m[c].existing # Nothing) <=> Marks(p, q, m, i) # {}
  BY DEF Marks
<1>2. ASSUME rs[i].live, Marks(p, q, m, i) = {}
      PROVE  Shown(rs, p, q, m, i) = Known(rs[i])
  BY <1>1, <1>2 DEF Shown
<1>3. ASSUME NEW c, rs[i].live, Marks(p, q, m, i) = {c}
      PROVE  Shown(rs, p, q, m, i) = m[c].existing
  <2>1. PICK d : d = CHOOSE x \in Updating(p, q, m, i) : m[x].existing # Nothing
    OBVIOUS
  <2>2. d \in Updating(p, q, m, i) /\ m[d].existing # Nothing
    BY <1>1, <1>3, <2>1
  <2>3. d = c
    BY <1>3, <2>2 DEF Marks
  <2> QED
    BY <1>1, <1>3, <2>1, <2>3 DEF Shown
<1> QED
  BY <1>2, <1>3 DEF Shown

\* Whose rule is marked: at most one update's, and that is past its read.
LEMMA MarksOf ==
  ASSUME WriterInv, Without({"writers"}), NEW c \in Clients, NEW i
  PROVE  /\ PastFind(c) /\ i = mem[c].rule => Marks(pc, req, mem, i) = {c}
         /\ Writes(c) /\ ~PastFind(c) => Marks(pc, req, mem, i) = {}
         /\ Writes(c) /\ req[c].kind = "update" /\ i # mem[c].rule
              => Marks(pc, req, mem, i) = {}
<1>1. \A d \in Clients : InStage(pc[d], req[d], mem[d], rules)
  BY DEF WriterInv, TypeInv
<1>2. \A d \in Clients : PastFind(d) => Predicted(mem[d])
  BY <1>1 DEF PastFind, InStage, UpdateOf
<1>3. \A d \in Clients :
        pc[d] # "idle" /\ req[d].kind = "update" /\ ~PastFind(d) => mem[d].existing = Nothing
  BY <1>1 DEF PastFind, InStage, Blank
<1>4. \A d \in Clients : Writes(c) /\ pc[d] # "idle" /\ req[d].kind = "update" => d = c
  BY DEF WriterInv, Writes
<1>5. PastFind(c) => Writes(c) /\ mem[c].existing # Nothing
  BY <1>2, RequestsAssumption DEF PastFind, Writes, Predicted
<1> QED
  BY <1>3, <1>4, <1>5 DEF Marks, Updating, PastFind

LEMMA MarksSame ==
  ASSUME NEW e \in Clients, OthersStay(e), NEW i,
         e \in Marks(pc', req', mem', i) <=> e \in Marks(pc, req, mem, i),
         e \in Marks(pc, req, mem, i) => mem'[e].existing = mem[e].existing
  PROVE  /\ Marks(pc', req', mem', i) = Marks(pc, req, mem, i)
         /\ \A c \in Marks(pc, req, mem, i) : mem'[c].existing = mem[c].existing
  BY DEF Marks, Updating, OthersStay

LEMMA ShownSame ==
  ASSUME WriterInv, Without({"writers"}), NEW i,
         Marks(pc', req', mem', i) = Marks(pc, req, mem, i),
         \A c \in Marks(pc, req, mem, i) : mem'[c].existing = mem[c].existing,
         rules'[i].live = rules[i].live,
         Marks(pc, req, mem, i) = {} => Known(rules'[i]) = Known(rules[i])
  PROVE  Then(i) = Entry(i)
<1>1. Entry(i) = Shown(rules, pc, req, mem, i)
  BY EntryShown
<1>2. Then(i) = Shown(rules', pc', req', mem', i)
  BY DEF Then
<1>3. CASE ~rules[i].live
  BY <1>1, <1>2, <1>3, ShownCases
<1>4. CASE rules[i].live /\ Marks(pc, req, mem, i) = {}
  BY <1>1, <1>2, <1>4, ShownCases
<1>5. CASE rules[i].live /\ Marks(pc, req, mem, i) # {}
  <2>1. PICK c \in Clients : c \in Marks(pc, req, mem, i)
    BY <1>5 DEF Marks, Updating
  <2>2. Marks(pc, req, mem, i) = {c}
    <3>1. \A d \in Marks(pc, req, mem, i) : d \in Clients /\ Writes(d)
      BY DEF Marks, Updating, Writes
    <3>2. \A d \in Marks(pc, req, mem, i) : d = c
      BY <2>1, <3>1 DEF WriterInv
    <3> QED
      BY <2>1, <3>2
  <2>3. Entry(i) = mem[c].existing
    BY <1>1, <1>5, <2>2, ShownCases
  <2>4. Then(i) = mem'[c].existing
    <3>1. rules'[i].live /\ Marks(pc', req', mem', i) = {c}
      BY <1>5, <2>2
    <3>2. PICK rs, p, q, m : rs = rules' /\ p = pc' /\ q = req' /\ m = mem'
      OBVIOUS
    <3>3. Shown(rs, p, q, m, i) = m[c].existing
      BY <3>1, <3>2, ShownCases
    <3> QED
      BY <1>2, <3>2, <3>3
  <2> QED
    BY <2>1, <2>3, <2>4
<1> QED
  BY <1>3, <1>4, <1>5

LEMMA SameKnown ==
  ASSUME NEW new, NEW old, SameRule(new, old)
  PROVE  Known(new) = Known(old) /\ new.live = old.live
  BY DEF SameRule, Known

\* The locals of an update under way.
LEMMA UnderWay ==
  ASSUME TypeInv, NEW e \in Clients, Steps(e), PastFind(e), pc'[e] # "idle"
  PROVE  /\ req'[e] = req[e] /\ pc'[e] \notin {"find", "check", "insert"}
         /\ mem'[e].rule = mem[e].rule
         /\ mem'[e].want = mem[e].want /\ mem'[e].existing = mem[e].existing
         /\ ~SoftDelete(e) /\ ~Insert(e)
<1>1. /\ InStage(pc[e], req[e], mem[e], rules) /\ ClientsTyped
      /\ InStage(pc'[e], req'[e], mem'[e], rules') /\ ClientsTyped'
      /\ Grown(rules')
  BY EachStepTyped DEF TypeInv, StepTyped
<1>2. pc[e] \notin {"idle", "find", "insert", "collect", "transact"}
  BY <1>1 DEF PastFind, InStage, UpdateOf
<1>3. /\ \A r \in Requests : ~Start(e, r)
      /\ ~Find(e) /\ ~Insert(e) /\ ~CollectActions(e) /\ ~SoftDelete(e)
  BY <1>2 DEF Start, Find, Insert, CollectActions, SoftDelete
<1>4. ~Ends(e)
  BY DEF Ends
<1>5. req'[e] = req[e]
  BY <1>3, <1>4, RequestsKept DEF Goes
<1>6. pc'[e] # "find"
  BY <1>3, ReachFind
<1>7. mem[e] \in Locals /\ mem[e].at \in Nat
  BY <1>1, LocalsFields DEF ClientsTyped
<1>8. ASSUME NEW k \in Nat, NEW stage, stage \notin {"check", "insert"},
             Goes(e, stage, AtOp(mem[e], k))
      PROVE  /\ pc'[e] \notin {"check", "insert"} /\ mem'[e].rule = mem[e].rule
             /\ mem'[e].want = mem[e].want /\ mem'[e].existing = mem[e].existing
  BY <1>7, <1>8 DEF Goes, AtOp, Locals
<1>9. CASE CheckDuplicate(e)
  <2>1. \/ Goes(e, "parent", mem[e])
        \/ Goes(e, IF 1 <= Len(Ops(req[e])) THEN "op" ELSE "reload", AtOp(mem[e], 1))
    BY <1>4, <1>9, CheckStep DEF PastFind
  <2>2. CASE Goes(e, "parent", mem[e])
    BY <1>3, <1>5, <1>6, <2>2 DEF Goes
  <2> QED
    BY <1>3, <1>5, <1>6, <1>8, <2>1, <2>2
<1>10. CASE UpdateParent(e)
  <2>1. Goes(e, IF 1 <= Len(Ops(req[e])) THEN "op" ELSE "reload", AtOp(mem[e], 1))
    BY <1>4, <1>10, ParentStep
  <2> QED
    BY <1>3, <1>5, <1>6, <1>8, <2>1
<1>11. CASE NextOp(e) /\ pc[e] \in {"op", "rewrite", "config", "write"}
  <2>1. Goes(e, IF mem[e].at + 1 <= Len(Ops(req[e])) THEN "op" ELSE "reload",
             AtOp(mem[e], mem[e].at + 1))
    BY <1>1, <1>11, NextOpStep
  <2> QED
    BY <1>3, <1>5, <1>6, <1>7, <1>8, <2>1
<1>12. CASE FindCondition(e)
  BY <1>3, <1>4, <1>5, <1>6, <1>12, FindConditionStep DEF Goes
<1>13. CASE FindAction(e) \/ FindConfig(e)
  BY <1>3, <1>4, <1>5, <1>6, <1>13, FindActionStep, FindConfigStep DEF Goes
<1>14. ~Reload(e) /\ ~Abort(e)
  BY SMTT(30), <1>4, ReloadStep
<1>15. DeleteCondition(e) \/ CreateCondition(e) \/ RewriteCondition(e) \/ DeleteAction(e)
         \/ CreateAction(e)
       => NextOp(e) /\ pc[e] \in {"op", "rewrite", "config", "write"}
  BY DEF DeleteCondition, CreateCondition, RewriteCondition, DeleteAction, CreateAction,
         OnCondition, OnAction
<1>16. WriteConfig(e) => NextOp(e) /\ pc[e] \in {"op", "rewrite", "config", "write"}
  BY DEF WriteConfig
<1> QED
  BY <1>3, <1>9, <1>10, <1>11, <1>12, <1>13, <1>14, <1>15, <1>16 DEF Steps

\* Once its conditions are done, an update's rule is what it wanted.
LEMMA AllApplied ==
  ASSUME PathInv, Without({"writers", "retype"}), NEW c \in Clients, PastFind(c),
         pc[c] \notin {"check", "parent"}, rules[mem[c].rule].live,
         Applied(pc[c], req[c], mem[c]) = Len(req[c].conds)
  PROVE  Known(rules[mem[c].rule]) = mem[c].want
<1>1. Without({"writers"}) /\ "retype" \notin faults
  BY DEF Without
<1>2. Foreseen(faults, pc[c], req[c], mem[c], rules[mem[c].rule])
  BY <1>1 DEF PathInv
<1>3. PICK r, rule, n : r = req[c] /\ rule = rules[mem[c].rule] /\ n = Len(r.conds)
  OBVIOUS
<1>4. Reached(faults, r, mem[c].want, rule.parent, rule.conds, n)
  <2>1. Applied(pc[c], r, mem[c]) = n /\ Target(pc[c], r, rule) = rule.parent
    BY <1>3 DEF Target
  <2>2. Foreseen(faults, pc[c], r, mem[c], rule)
    BY <1>2, <1>3
  <2> QED
    BY <2>1, <2>2 DEF Foreseen
<1>5. PICK f : /\ mem[c].want = IdentityOf(rule.parent, f)
               /\ Mirrors(rule.conds, f) /\ Plain(faults, r, n, f)
  BY <1>3, <1>4 DEF Reached
<1>6. AllStorable(f)
  BY <1>1, <1>5 DEF Plain, AllStorable
<1>7. rule.conds = f
  BY <1>5, <1>6, MirrorsStorable
<1> QED
  BY <1>3, <1>5, <1>7 DEF Known

LEMMA EndsAsWanted ==
  ASSUME BookInv, Orderly, NEW e \in Clients, Steps(e), PastFind(e), pc[e] # "check",
         pc'[e] = "idle", rules[mem[e].rule].live
  PROVE  rules' = rules /\ Known(rules[mem[e].rule]) = mem[e].want
<1>1. /\ TypeInv /\ PathInv /\ KnownInv
      /\ Without({"writers", "retype"}) /\ Without({"writers", "unknown"}) /\ "abort" \notin faults
  BY DEF BookInv, PathInv, WriterInv, Orderly, Without
<1>2. /\ InStage(pc[e], req[e], mem[e], rules) /\ rules \in Seq(Rule) /\ ClientsTyped
      /\ mem[e] \in Locals /\ req[e] \in Requests /\ req[e].kind = "update"
      /\ UpdateOf(req[e], mem[e], rules) /\ Len(req[e].conds) \in Nat
  <2>1. InStage(pc[e], req[e], mem[e], rules) /\ rules \in Seq(Rule) /\ ClientsTyped
    BY <1>1 DEF TypeInv
  <2>2. UpdateOf(req[e], mem[e], rules)
    BY <2>1 DEF InStage, PastFind, UpdateOf
  <2> QED
    BY <2>1, <2>2, RequestOps DEF UpdateOf, ClientsTyped
<1>3. \A stage, m : Goes(e, stage, m) => stage = "idle"
  BY DEF Goes
<1>4. pc[e] \notin {"idle", "find", "insert", "collect", "transact", "check"}
  BY <1>2 DEF PastFind, InStage, UpdateOf
<1>5. /\ \A r \in Requests : ~Start(e, r)
      /\ ~Find(e) /\ ~Insert(e) /\ ~CollectActions(e) /\ ~SoftDelete(e) /\ ~CheckDuplicate(e)
      /\ ~Abort(e)
  BY <1>1, <1>4 DEF Start, Find, Insert, CollectActions, SoftDelete, CheckDuplicate, Abort
<1>6. ~UpdateParent(e)
  BY <1>1, <1>3, ParentStep
<1>7. ~(NextOp(e) /\ pc[e] \in {"op", "rewrite", "config", "write"})
  <2> SUFFICES ASSUME NextOp(e), pc[e] \in {"op", "rewrite", "config", "write"} PROVE FALSE
    OBVIOUS
  <2>1. Grown(rules')
    BY <1>1, EachStepTyped DEF StepTyped
  <2> QED
    BY <1>1, <1>3, <2>1, NextOpStep
<1>8. ~FindCondition(e)
  <2> SUFFICES ASSUME FindCondition(e) PROVE FALSE
    OBVIOUS
  <2>1. /\ ~IsLiveRow(rules[mem[e].rule].conds, Op(e).id) /\ Op(e).do = "update"
        /\ pc[e] = "op" /\ mem[e].at <= Len(req[e].conds)
    BY <1>1, <1>3, FindConditionStep DEF OnCondition
  <2>2. Op(e) = req[e].conds[mem[e].at] /\ mem[e].at \in 1..Len(req[e].conds)
    <3>1. Op(e) = req[e].conds[mem[e].at] /\ mem[e].at \in 1..Len(Ops(req[e]))
      BY <1>1, <2>1, AtOperation
    <3> QED
      BY <1>2, <2>1, <3>1
  <2>3. PICK n, k : n = Len(req[e].conds) /\ k = mem[e].at
    OBVIOUS
  <2>4. n \in Nat /\ k \in 1..n /\ ~(k > n) /\ k > k - 1
    BY <1>2, <2>2, <2>3
  <2>5. Applied("op", req[e], mem[e]) = k - 1
    BY <2>3, <2>4 DEF Applied
  <2>6. NamesLive(k - 1, req[e], rules[mem[e].rule].conds)
    BY <1>1, <1>2, <2>1, <2>5 DEF KnownInv
  <2>7. k \in DOMAIN req[e].conds
    BY <1>2, <2>3, <2>4, RequestOps
  <2> QED
    BY <2>1, <2>2, <2>3, <2>4, <2>6, <2>7 DEF NamesLive
<1>9. FindAction(e) \/ FindConfig(e) \/ Reload(e)
  <2>1. DeleteCondition(e) \/ CreateCondition(e) \/ RewriteCondition(e) \/ DeleteAction(e)
           \/ CreateAction(e)
         => NextOp(e) /\ pc[e] \in {"op", "rewrite", "config", "write"}
    BY DEF DeleteCondition, CreateCondition, RewriteCondition, DeleteAction, CreateAction,
           OnCondition, OnAction
  <2>2. WriteConfig(e) => NextOp(e) /\ pc[e] \in {"op", "rewrite", "config", "write"}
    BY DEF WriteConfig
  <2> QED
    BY SMTT(30), <1>5, <1>6, <1>7, <1>8, <2>1, <2>2 DEF Steps
<1>10. /\ rules' = rules /\ pc[e] \in {"op", "config", "reload"}
       /\ pc[e] # "reload" => mem[e].at > Len(req[e].conds)
  <2>1. FindAction(e) => rules' = rules /\ pc[e] = "op" /\ mem[e].at > Len(req[e].conds)
    BY DEF FindAction, OnAction
  <2>2. FindConfig(e) => rules' = rules /\ pc[e] = "config" /\ mem[e].at > Len(req[e].conds)
    BY <1>1, AtOperation DEF FindConfig
  <2> QED
    BY <1>9, <2>1, <2>2 DEF Reload
<1>11. Applied(pc[e], req[e], mem[e]) = Len(req[e].conds)
  BY <1>10 DEF Applied
<1> QED
  BY <1>1, <1>4, <1>10, <1>11, AllApplied

\* An update that ends writes nothing with its last step.
LEMMA EndsRead ==
  ASSUME TypeInv, NEW e \in Clients, Steps(e), ~SoftDelete(e), ~Insert(e), pc'[e] = "idle"
  PROVE  rules' = rules
<1>1. \A stage, m : Goes(e, stage, m) => stage = "idle"
  BY DEF Goes
<1>2. ~(NextOp(e) /\ pc[e] \in {"op", "rewrite", "config", "write"})
  <2> SUFFICES ASSUME NextOp(e), pc[e] \in {"op", "rewrite", "config", "write"} PROVE FALSE
    OBVIOUS
  <2>1. Grown(rules')
    BY SMTT(30), EachStepTyped DEF StepTyped
  <2> QED
    BY <1>1, <2>1, NextOpStep
<1>3. DeleteCondition(e) \/ CreateCondition(e) \/ RewriteCondition(e) \/ DeleteAction(e)
         \/ CreateAction(e)
       => NextOp(e) /\ pc[e] \in {"op", "rewrite", "config", "write"}
  BY DEF DeleteCondition, CreateCondition, RewriteCondition, DeleteAction, CreateAction,
         OnCondition, OnAction
<1>4. WriteConfig(e) => NextOp(e) /\ pc[e] \in {"op", "rewrite", "config", "write"}
  BY DEF WriteConfig
<1>5. UpdateParent(e) => rules' = rules
  BY <1>1, ParentStep
<1> QED
  BY <1>2, <1>3, <1>4, <1>5, KindsOfSteps, ReadsOnly DEF WritesOwnConditions, WritesActions

\* What the step of an update does to the book.
LEMMA UpdateMoves ==
  ASSUME BookInv, Orderly, NEW e \in Clients, Steps(e), pc[e] # "idle", req[e].kind = "update"
  PROVE  /\ DOMAIN rules' = DOMAIN rules /\ mem[e].rule \in DOMAIN rules
         /\ \A j \in DOMAIN rules \ {mem[e].rule} : Then(j) = Entry(j)
         /\ \/ Then(mem[e].rule) = Entry(mem[e].rule)
            \/ /\ PastFind(e) /\ pc[e] # "check" /\ rules[mem[e].rule].live
               /\ Then(mem[e].rule) = mem[e].want
<1>1. /\ TypeInv /\ WriterInv /\ Without({"writers"}) /\ StillChecked(e)
      /\ OthersStay(e) /\ Writes(e)
      /\ InStage(pc[e], req[e], mem[e], rules)
  <2>1. TypeInv /\ WriterInv /\ Without({"writers"}) /\ StillChecked(e)
    BY DEF BookInv, PathInv, WriterInv, Orderly, Without
  <2> QED
    BY <2>1, RequestsKept DEF Writes, TypeInv
<1>2. PICK i \in DOMAIN rules : i = mem[e].rule /\ i = req[e].rule
  BY <1>1, BusyRule
<1>3. /\ ~SoftDelete(e) /\ ~Insert(e) /\ \A r \in Requests : ~Start(e, r)
  BY <1>1 DEF InStage, UpdateOf, SoftDelete, Insert, Start
<1>4. DOMAIN rules' = DOMAIN rules /\ \A j \in DOMAIN rules : rules'[j].live = rules[j].live
  BY <1>1, <1>3, RulesAdded, LiveKept
<1>5. \/ Goes(e, pc'[e], mem'[e]) /\ pc'[e] # "idle"
      \/ Ends(e)
  <2>1. ASSUME Goes(e, pc'[e], mem'[e]), pc'[e] = "idle" PROVE Ends(e)
    <3>1. InStage(pc'[e], req'[e], mem'[e], rules')
      BY <1>1, EachStepTyped DEF StepTyped
    <3> QED
      BY <1>1, <2>1, <3>1, RequestsAssumption DEF InStage, UpdateOf, Goes
  <2> QED
    BY <1>1, <1>3, <2>1, RequestsKept
<1>6. CASE PastFind(e) /\ pc'[e] # "idle"
  <2>1. /\ req'[e] = req[e] /\ mem'[e].rule = mem[e].rule /\ pc'[e] # "find"
        /\ mem'[e].existing = mem[e].existing
    BY <1>1, <1>6, UnderWay
  <2>2. ASSUME NEW j \in DOMAIN rules PROVE Then(j) = Entry(j)
    <3>1. /\ Marks(pc', req', mem', j) = Marks(pc, req, mem, j)
          /\ \A c \in Marks(pc, req, mem, j) : mem'[c].existing = mem[c].existing
      <4>1. e \in Marks(pc', req', mem', j) <=> e \in Marks(pc, req, mem, j)
        BY <1>1, <1>6, <2>1 DEF Marks, Updating, Writes
      <4> QED
        BY <1>1, <2>1, <4>1, MarksSame
    <3>2. Marks(pc, req, mem, j) = {} => Known(rules'[j]) = Known(rules[j])
      <4>1. CASE j = i
        <5>1. Marks(pc, req, mem, j) = {e}
          BY <1>1, <1>2, <1>6, <4>1, MarksOf
        <5> QED
          BY <5>1
      <4>2. CASE j # i
        BY <1>1, <1>2, <1>3, <4>2, RuleChange, SameKnown
      <4> QED
        BY <4>1, <4>2
    <3> QED
      BY <1>1, <1>4, <3>1, <3>2, ShownSame
  <2> QED
    BY <1>2, <1>4, <2>2
<1>7. ASSUME rules' = rules, NEW j \in DOMAIN rules, j # i,
             Ends(e) \/ mem'[e].rule = mem[e].rule
      PROVE  Then(j) = Entry(j)
  <2>1. e \notin Marks(pc, req, mem, j) /\ e \notin Marks(pc', req', mem', j)
    BY <1>2, <1>7 DEF Marks, Updating, Ends
  <2>2. /\ Marks(pc', req', mem', j) = Marks(pc, req, mem, j)
        /\ \A c \in Marks(pc, req, mem, j) : mem'[c].existing = mem[c].existing
    BY <1>1, <2>1, MarksSame
  <2> QED
    BY <1>1, <1>7, <2>2, ShownSame
<1>8. ASSUME ~rules[i].live, rules' = rules PROVE Then(i) = Entry(i)
  <2>1. Then(i) = Nothing
    BY <1>8, ShownCases DEF Then
  <2>2. Entry(i) = Nothing
    BY <1>8, EntryShown, ShownCases
  <2> QED
    BY <2>1, <2>2
<1>9. CASE Ends(e)
  <2>1. pc'[e] = "idle" /\ rules' = rules
    BY <1>1, <1>3, <1>9, EndsRead DEF Ends
  <2>2. CASE ~rules[i].live
    BY <1>2, <1>4, <1>7, <1>8, <1>9, <2>1, <2>2
  <2>3. CASE rules[i].live
    <3>1. Then(i) = Known(rules[i])
      <4>1. e \notin Marks(pc', req', mem', i)
        BY <1>9 DEF Marks, Updating, Ends
      <4>2. \A d \in Clients \ {e} : d \notin Marks(pc', req', mem', i)
        <5>1. \A d \in Clients \ {e} : ~(pc[d] # "idle" /\ req[d].kind = "update")
          BY <1>1 DEF WriterInv, Writes
        <5> QED
          BY <1>1, <5>1 DEF Marks, Updating, OthersStay
      <4>3. Marks(pc', req', mem', i) = {}
        BY <4>1, <4>2 DEF Marks, Updating
      <4> QED
        BY <2>1, <2>3, <4>3, ShownCases DEF Then
    <3>2. CASE pc[e] = "find"
      <4>1. Marks(pc, req, mem, i) = {}
        BY <1>1, <3>2, MarksOf DEF PastFind
      <4>2. Entry(i) = Known(rules[i])
        BY <2>3, <4>1, EntryShown, ShownCases
      <4> QED
        BY <1>2, <1>4, <1>7, <1>9, <2>1, <3>1, <4>2
    <3>3. CASE pc[e] # "find"
      <4>1. PastFind(e)
        BY <3>3 DEF PastFind
      <4>2. CASE pc[e] = "check"
        <5>1. Marks(pc, req, mem, i) = {e}
          BY <1>1, <1>2, <4>1, MarksOf
        <5>2. Entry(i) = mem[e].existing
          BY <2>3, <5>1, EntryShown, ShownCases
        <5>3. mem[e].existing = Known(rules[i])
          BY <1>1, <1>2, <2>3, <4>2 DEF StillChecked
        <5> QED
          BY <1>2, <1>4, <1>7, <1>9, <2>1, <3>1, <5>2, <5>3
      <4>3. CASE pc[e] # "check"
        <5>1. Known(rules[i]) = mem[e].want
          BY <1>2, <2>1, <2>3, <4>1, <4>3, EndsAsWanted
        <5> QED
          BY <1>2, <1>4, <1>7, <1>9, <2>1, <2>3, <3>1, <4>1, <4>3, <5>1
      <4> QED
        BY <4>2, <4>3
    <3> QED
      BY <3>2, <3>3
  <2> QED
    BY <2>2, <2>3
<1>10. CASE ~PastFind(e) /\ Goes(e, pc'[e], mem'[e]) /\ pc'[e] # "idle"
  <2>1. pc[e] = "find"
    BY <1>10 DEF PastFind
  <2>2. Find(e)
    <3>1. ~Reload(e) /\ ~Abort(e)
      BY <1>1, <1>10, ReloadStep DEF Ends
    <3> QED
      BY <1>3, <2>1, <3>1 DEF Steps, CheckDuplicate, UpdateParent, DeleteCondition,
         CreateCondition, FindCondition, RewriteCondition, DeleteAction, CreateAction,
         FindAction, FindConfig, WriteConfig, OnCondition, OnAction, CollectActions
  <2>3. /\ rules' = rules /\ mem'[e].rule = mem[e].rule /\ rules[i].live
        /\ mem'[e].existing = Known(rules[i]) /\ mem'[e].existing # Nothing
        /\ req'[e] = req[e]
    <3>1. /\ rules' = rules /\ rules[i].live /\ Goes(e, pc'[e], Read(e))
          /\ Read(e).existing = Known(rules[i]) /\ Read(e).existing \in Identity
          /\ Read(e).rule = mem[e].rule
      BY <1>1, <1>2, <1>10, <2>2, FindStep DEF Ends, Predicted, Known
    <3>2. Read(e).existing # Nothing
      BY <3>1, RequestsAssumption
    <3> QED
      BY <3>1, <3>2 DEF Goes
  <2>4. Then(i) = Entry(i)
    <3>1. Marks(pc, req, mem, i) = {}
      BY <1>1, <2>1, MarksOf DEF PastFind
    <3>2. Entry(i) = Known(rules[i])
      BY <2>3, <3>1, EntryShown, ShownCases
    <3>3. e \in Marks(pc', req', mem', i)
      BY <1>2, <1>10, <2>3 DEF Marks, Updating
    <3>4. \A d \in Clients \ {e} : d \notin Marks(pc', req', mem', i)
      <4>1. \A d \in Clients \ {e} : ~(pc[d] # "idle" /\ req[d].kind = "update")
        BY <1>1 DEF WriterInv, Writes
      <4> QED
        BY <1>1, <4>1 DEF Marks, Updating, OthersStay
    <3>5. Marks(pc', req', mem', i) = {e}
      <4>1. Marks(pc', req', mem', i) \subseteq Clients
        BY DEF Marks, Updating
      <4> QED
        BY <3>3, <3>4, <4>1
    <3>6. PICK rs, p, q, m : rs = rules' /\ p = pc' /\ q = req' /\ m = mem'
      OBVIOUS
    <3>7. Shown(rs, p, q, m, i) = m[e].existing
      BY <2>3, <3>5, <3>6, ShownCases
    <3> QED
      BY <2>3, <3>2, <3>6, <3>7 DEF Then
  <2> QED
    BY <1>2, <1>4, <1>7, <2>3, <2>4
<1> QED
  BY <1>5, <1>6, <1>9, <1>10

\* What the step of any other request does to it.
LEMMA Bystander ==
  ASSUME WriterInv, Without({"writers"}), NEW e \in Clients, OthersStay(e), NEW j,
         pc[e] = "idle" \/ req[e].kind # "update",
         pc'[e] = "idle" \/ req'[e].kind # "update" \/ mem'[e].existing = Nothing,
         SameRule(rules'[j], rules[j])
  PROVE  Then(j) = Entry(j)
<1>1. e \notin Marks(pc, req, mem, j) /\ e \notin Marks(pc', req', mem', j)
  BY DEF Marks, Updating
<1>2. /\ Marks(pc', req', mem', j) = Marks(pc, req, mem, j)
      /\ \A c \in Marks(pc, req, mem, j) : mem'[c].existing = mem[c].existing
  BY <1>1, MarksSame
<1> QED
  BY <1>2, SameKnown, ShownSame

LEMMA StartMoves ==
  ASSUME BookInv, Orderly, NEW e \in Clients, NEW r \in Requests, Start(e, r)
  PROVE  rules' = rules /\ \A j \in DOMAIN rules : Then(j) = Entry(j)
<1>1. /\ TypeInv /\ WriterInv /\ Without({"writers"})
  BY DEF BookInv, PathInv, WriterInv, Orderly, Without
<1>2. OthersStay(e) /\ pc[e] = "idle" /\ rules' = rules
  BY <1>1, RequestsKept DEF Steps, Start
<1>3. req'[e] = r /\ (r.kind # "create" => mem'[e] = [Blank EXCEPT !.rule = r.rule])
  BY <1>1 DEF Start, TypeInv, ClientsTyped
<1>4. req'[e].kind # "update" \/ mem'[e].existing = Nothing
  BY <1>3 DEF Blank
<1>5. \A j \in DOMAIN rules : SameRule(rules'[j], rules[j])
  BY <1>2 DEF SameRule
<1> QED
  BY <1>1, <1>2, <1>4, <1>5, Bystander

LEMMA CreateAdds ==
  ASSUME BookInv, Orderly, NEW e \in Clients, Steps(e), pc[e] # "idle", req[e].kind = "create"
  PROVE  /\ \A j \in DOMAIN rules : Then(j) = Entry(j)
         /\ \/ DOMAIN rules' = DOMAIN rules
            \/ /\ pc[e] = "insert" /\ mem[e].want \in Identity
               /\ Len(rules) \in Nat /\ DOMAIN rules = 1..Len(rules)
               /\ Len(rules') = Len(rules) + 1 /\ DOMAIN rules' = 1..(Len(rules) + 1)
               /\ Then(Len(rules) + 1) = mem[e].want
<1>1. /\ TypeInv /\ WriterInv /\ Without({"writers"}) /\ CreateInv
      /\ OthersStay(e) /\ InStage(pc[e], req[e], mem[e], rules)
  <2>1. TypeInv /\ WriterInv /\ Without({"writers"}) /\ CreateInv
    BY DEF BookInv, PathInv, WriterInv, Orderly, Without
  <2> QED
    BY <2>1, RequestsKept DEF TypeInv
<1>2. /\ \A r \in Requests : ~Start(e, r)
      /\ ~SoftDelete(e) /\ ~WritesOwnConditions(e)
  BY <1>1, ConditionWrites DEF InStage, UpdateOf, Start, SoftDelete
<1>3. pc'[e] = "idle" \/ req'[e] = req[e]
  BY <1>1, <1>2, RequestsKept DEF Goes, Ends
<1>4. \A j \in DOMAIN rules : Then(j) = Entry(j)
  <2>1. \A j \in DOMAIN rules : SameRule(rules'[j], rules[j])
    BY SMTT(30), <1>1, <1>2, RuleChange
  <2> QED
    BY <1>1, <1>3, <2>1, Bystander
<1>5. CASE Insert(e)
  <2>1. /\ pc[e] = "insert" /\ rules' = Append(rules, NewRule(req[e]))
        /\ NewRule(req[e]) \in Rule /\ rules \in Seq(Rule)
        /\ Goes(e, "reload", [mem[e] EXCEPT !.rule = Len(rules) + 1])
    BY <1>1, <1>5, InsertStep DEF TypeInv
  <2>2. mem[e].want \in Identity /\ mem[e].want = IdentityOf(req[e].patch, NewRule(req[e]).conds)
    <3>1. mem[e].want \in Identity
      BY <1>1, <2>1 DEF InStage, UpdateOf
    <3>2. CreateForeseen(pc[e], req[e], mem[e], rules)
      BY <1>1 DEF CreateInv
    <3> QED
      BY <2>1, <3>1, <3>2 DEF CreateForeseen
  <2>3. PICK new \in Rule : new = NewRule(req[e]) /\ new.parent = req[e].patch /\ new.live = TRUE
    BY <2>1 DEF NewRule
  <2>4. /\ rules'[Len(rules) + 1] = new /\ Len(rules) \in Nat /\ DOMAIN rules = 1..Len(rules)
        /\ Len(rules') = Len(rules) + 1 /\ DOMAIN rules' = 1..(Len(rules) + 1)
    BY <2>1, <2>3, AddMember
  <2>5. PICK i : i = Len(rules) + 1
    OBVIOUS
  <2>6. Known(rules'[i]) = mem[e].want /\ rules'[i].live
    BY <2>2, <2>3, <2>4, <2>5 DEF Known
  <2>7. Marks(pc', req', mem', i) = {}
    <3>1. e \notin Marks(pc', req', mem', i)
      BY <2>1 DEF Marks, Updating, Goes
    <3>2. \A d \in Clients \ {e} : ~(pc[d] # "idle" /\ req[d].kind = "update")
      BY <1>1 DEF WriterInv, Writes
    <3>3. \A d \in Clients \ {e} : d \notin Marks(pc', req', mem', i)
      BY <1>1, <3>2 DEF Marks, Updating, OthersStay
    <3> QED
      BY <3>1, <3>3 DEF Marks, Updating
  <2>8. Then(i) = mem[e].want
    BY <2>6, <2>7, ShownCases DEF Then
  <2> QED
    BY <1>4, <2>1, <2>2, <2>4, <2>5, <2>8
<1>6. CASE ~Insert(e)
  BY <1>1, <1>4, <1>6, RulesAdded
<1> QED
  BY <1>5, <1>6

LEMMA RemoveStrikes ==
  ASSUME BookInv, Orderly, NEW e \in Clients, Steps(e), pc[e] # "idle", req[e].kind = "remove"
  PROVE  /\ DOMAIN rules' = DOMAIN rules
         /\ \/ \A j \in DOMAIN rules : Then(j) = Entry(j)
            \/ \E i \in DOMAIN rules : /\ Then(i) = Nothing
                                       /\ \A j \in DOMAIN rules \ {i} : Then(j) = Entry(j)
<1>1. /\ TypeInv /\ WriterInv /\ Without({"writers"})
      /\ OthersStay(e) /\ InStage(pc[e], req[e], mem[e], rules)
  <2>1. TypeInv /\ WriterInv /\ Without({"writers"})
    BY DEF BookInv, PathInv, WriterInv, Orderly, Without
  <2> QED
    BY <2>1, RequestsKept DEF TypeInv
<1>2. /\ \A r \in Requests : ~Start(e, r)
      /\ ~Insert(e) /\ ~WritesOwnConditions(e)
  BY <1>1, ConditionWrites DEF InStage, UpdateOf, Start, Insert
<1>3. pc'[e] = "idle" \/ req'[e] = req[e]
  BY <1>1, <1>2, RequestsKept DEF Goes, Ends
<1>4. DOMAIN rules' = DOMAIN rules
  BY <1>1, <1>2, RulesAdded
<1>5. PICK i \in DOMAIN rules : i = mem[e].rule
  BY <1>1, BusyRule
<1>6. \A j \in DOMAIN rules :
        SameRule(rules'[j], rules[j]) \/ (j = i /\ ~rules'[j].live)
  BY <1>1, <1>2, <1>5, RuleChange
<1>7. ASSUME NEW j \in DOMAIN rules, SameRule(rules'[j], rules[j]) PROVE Then(j) = Entry(j)
  BY <1>1, <1>3, <1>7, Bystander
<1>8. CASE SameRule(rules'[i], rules[i])
  BY <1>4, <1>6, <1>7, <1>8
<1>9. CASE ~rules'[i].live
  <2>1. Then(i) = Nothing
    BY <1>9, ShownCases DEF Then
  <2> QED
    BY <1>4, <1>6, <1>7, <2>1
<1> QED
  BY <1>6, <1>8, <1>9

\* What is wanted is new, if the duplicate check says so.
LEMMA CheckPassed ==
  ASSUME BookInv, Orderly, NEW e \in Clients, CheckDuplicate(e), ~IsDuplicate(e)
  PROVE  \A j \in DOMAIN rules \ {mem[e].rule} : Entry(j) # mem[e].want
<1>1. /\ TypeInv /\ WriterInv /\ Without({"writers"}) /\ "bare" \notin faults
      /\ InStage(pc[e], req[e], mem[e], rules) /\ pc[e] = "check"
  <2>1. TypeInv /\ WriterInv /\ Without({"writers"}) /\ "bare" \notin faults
    BY DEF BookInv, PathInv, WriterInv, Orderly, Without
  <2> QED
    BY <2>1 DEF TypeInv, CheckDuplicate
<1>2. /\ req[e].kind \in {"create", "update"} /\ mem[e].want \in Identity
      /\ mem[e].want # Nothing
  BY <1>1, RequestsAssumption DEF InStage, UpdateOf, Predicted
<1>3. Allowed(faults, req[e])
  BY <1>1 DEF WriterInv
<1>4. req[e].given \/ req[e].kind = "update"
  BY <1>1, <1>2, <1>3 DEF Allowed
<1>5. SUFFICES ASSUME NEW j \in DOMAIN rules \ {mem[e].rule}, Entry(j) = mem[e].want
               PROVE  FALSE
  OBVIOUS
<1>6. Marks(pc, req, mem, j) = {}
  <2>1. Writes(e)
    BY <1>1, <1>2 DEF Writes
  <2> QED
    BY <1>1, <1>2, <2>1, MarksOf DEF PastFind
<1>7. rules[j].live /\ Known(rules[j]) = mem[e].want
  <2>1. rules[j].live
    BY <1>2, <1>5, EntryShown, ShownCases
  <2> QED
    BY <1>5, <1>6, <2>1, EntryShown, ShownCases
<1>8. /\ rules[j].parent.event = mem[e].want.event
      /\ mem[e].want.service = rules[j].parent.service
      /\ Normalized(rules[j].conds) = mem[e].want.conds
  BY <1>7 DEF Known, IdentityOf
<1> QED
  BY <1>4, <1>7, <1>8 DEF IsDuplicate

\* Without a check a rule keeps the identity it had.
LEMMA CheckSkipped ==
  ASSUME TypeInv, NEW e \in Clients, Find(e), pc'[e] \notin {"idle", "check"}
  PROVE  Read(e).want = Known(rules[mem[e].rule])
<1>1. /\ UpdateOf(req[e], mem[e], rules) /\ mem[e].rule = req[e].rule
      /\ Read(e).want
           = IdentityOf(Override(req[e].patch, rules[req[e].rule].parent),
                        computeFinalConditions(rules[req[e].rule].conds, req[e].conds))
      /\ ~req[e].given /\ {"event", "service"} \cap DOMAIN req[e].patch = {}
  BY FindStep DEF Ends, UpdateOf
<1>2. PICK r \in Requests, rule \in Rule :
        /\ r = req[e] /\ rule = rules[mem[e].rule] /\ r.kind = "update"
  BY <1>1, Member DEF UpdateOf, TypeInv
<1>3. rule.parent \in Parent /\ rule.conds \in Rows
  BY RuleFields
<1>4. /\ Len(r.conds) \in Nat /\ Len(r.conds) = 0
      /\ \A k \in 1..Len(r.conds) : IsConditionOp(r.conds[k])
  <2>1. r.conds = <<>>
    BY <1>1, <1>2, RequestKind
  <2> QED
    BY <1>2, <2>1, EmptySeq, RequestOps
<1>5. computeFinalConditions(rule.conds, r.conds) = rule.conds
  <2>1. PICK p : /\ IsPath(p, rule.conds, r.conds, Len(r.conds))
                 /\ computeFinalConditions(rule.conds, r.conds) = p[Len(r.conds)]
    BY <1>3, <1>4, FinalOfPath
  <2> QED
    BY <1>4, <2>1 DEF IsPath
<1>6. PICK parent : parent = Override(r.patch, rule.parent)
  OBVIOUS
<1>7. parent.event = rule.parent.event /\ parent.service = rule.parent.service
  <2>1. "event" \notin DOMAIN r.patch /\ "service" \notin DOMAIN r.patch
    BY <1>1, <1>2
  <2> QED
    BY <1>3, <1>6, <2>1 DEF Override, Parent
<1>8. Read(e).want = IdentityOf(parent, rule.conds)
  BY <1>1, <1>2, <1>5, <1>6
<1> QED
  BY <1>2, <1>7, <1>8 DEF Known, IdentityOf

\* Every step leaves the book as it is or makes one entry, a new or an old one, other.
Stays == DOMAIN rules' = DOMAIN rules /\ \A j \in DOMAIN rules : Then(j) = Entry(j)
Strikes(i) ==
  /\ DOMAIN rules' = DOMAIN rules /\ i \in DOMAIN rules /\ Then(i) = Nothing
  /\ \A j \in DOMAIN rules \ {i} : Then(j) = Entry(j)
Changes(i) ==
  /\ DOMAIN rules' = DOMAIN rules /\ i \in DOMAIN rules
  /\ Entry(i) # Nothing /\ Then(i) \in Identity
  /\ \A j \in DOMAIN rules \ {i} : Then(j) = Entry(j) /\ Entry(j) # Then(i)
Adds ==
  LET new == Len(rules) + 1
  IN  /\ Len(rules) \in Nat /\ DOMAIN rules = 1..Len(rules)
      /\ Len(rules') = new /\ DOMAIN rules' = 1..new
      /\ Then(new) \in Identity
      /\ \A j \in DOMAIN rules : Then(j) = Entry(j) /\ Entry(j) # Then(new)

LEMMA OthersMove ==
  ASSUME BookInv, Orderly, NEW e \in Clients, Steps(e), ~Writes(e)
  PROVE  Stays \/ \E i : Strikes(i)
<1>1. TypeInv
  BY DEF BookInv, PathInv, WriterInv
<1>2. CASE pc[e] # "idle" /\ req[e].kind = "remove"
  BY <1>2, RemoveStrikes DEF Stays, Strikes
<1>3. CASE \E r \in Requests : Start(e, r)
  BY <1>3, StartMoves DEF Stays
<1> QED
  <2>1. (\E r \in Requests : Start(e, r)) \/ pc[e] # "idle"
    BY <1>1, RequestsKept
  <2>2. pc[e] # "idle" => req[e].kind \in {"create", "update", "remove"}
    BY <1>1, RequestKind DEF TypeInv, InStage, UpdateOf
  <2> QED
    BY <1>2, <1>3, <2>1, <2>2 DEF Writes

LEMMA BookMoves ==
  ASSUME BookInv, Orderly, NEW e \in Clients, Steps(e)
  PROVE  Stays \/ (\E i : Strikes(i) \/ Changes(i)) \/ Adds
<1>1. /\ TypeInv /\ WriterInv /\ Without({"writers"}) /\ StillChecked(e)
      /\ InStage(pc[e], req[e], mem[e], rules)
  BY DEF BookInv, PathInv, WriterInv, TypeInv, Orderly, Without
<1>2. CASE ~Writes(e)
  BY <1>2, OthersMove
<1>3. CASE pc[e] # "idle" /\ req[e].kind = "create"
  <2>1. CASE DOMAIN rules' = DOMAIN rules
    BY <1>3, <2>1, CreateAdds DEF Stays
  <2>2. CASE DOMAIN rules' # DOMAIN rules
    BY <1>1, <1>3, <2>2, CreateAdds DEF Adds, StillChecked
  <2> QED
    BY <2>1, <2>2
<1>4. CASE pc[e] # "idle" /\ req[e].kind = "update"
  <2>1. PICK i : i = mem[e].rule
    OBVIOUS
  <2>2. /\ DOMAIN rules' = DOMAIN rules /\ i \in DOMAIN rules
        /\ \A j \in DOMAIN rules \ {i} : Then(j) = Entry(j)
    BY <1>4, <2>1, UpdateMoves
  <2>3. CASE Then(i) = Entry(i)
    BY <2>2, <2>3 DEF Stays
  <2>4. CASE PastFind(e) /\ pc[e] # "check" /\ rules[i].live /\ Then(i) = mem[e].want
    <3>1. \A j \in DOMAIN rules \ {i} : Entry(j) # mem[e].want
      BY <1>1, <1>4, <2>1, <2>4 DEF StillChecked, PastFind
    <3>2. Predicted(mem[e])
      BY <1>1, <2>4 DEF PastFind, InStage, UpdateOf
    <3>3. Entry(i) = mem[e].existing
      <4>1. Marks(pc, req, mem, i) = {e}
        BY <1>1, <2>1, <2>4, MarksOf
      <4> QED
        BY <2>4, <4>1, EntryShown, ShownCases
    <3> QED
      BY <2>2, <2>4, <3>1, <3>2, <3>3, RequestsAssumption DEF Changes, Predicted
  <2> QED
    BY <1>4, <2>1, <2>3, <2>4, UpdateMoves
<1> QED
  BY <1>2, <1>3, <1>4 DEF Writes

LEMMA DistinctThen ==
  ASSUME BookInv, Orderly, NEW e \in Clients, Steps(e)
  PROVE  Distinct'
<1>1. Distinct
  BY RequestsAssumption DEF BookInv
<1>2. \A i \in Identity : i # Nothing
  BY RequestsAssumption
<1>3. SUFFICES ASSUME NEW i \in DOMAIN rules', NEW j \in DOMAIN rules', i # j,
                      Then(i) # Nothing
               PROVE  Then(i) # Then(j)
  BY EntryShown DEF Distinct
<1>4. CASE Stays
  BY <1>1, <1>3, <1>4 DEF Stays, Distinct
<1>5. ASSUME NEW k, Strikes(k) PROVE Then(i) # Then(j)
  BY <1>1, <1>3, <1>5 DEF Strikes, Distinct
<1>6. ASSUME NEW k, Changes(k) PROVE Then(i) # Then(j)
  BY <1>1, <1>2, <1>3, <1>6 DEF Changes, Distinct
<1>7. CASE Adds
  <2>1. PICK n \in Nat : n = Len(rules)
    <3>1. Len(rules) \in Nat
      BY <1>7 DEF Adds
    <3> QED
      BY <3>1
  <2>2. /\ \A k \in 1..(n + 1) : k \in DOMAIN rules \/ k = n + 1
        /\ i \in 1..(n + 1) /\ j \in 1..(n + 1)
        /\ Then(n + 1) \in Identity
        /\ \A k \in DOMAIN rules : Then(k) = Entry(k) /\ Entry(k) # Then(n + 1)
    BY <1>7, <2>1 DEF Adds
  <2> QED
    BY <1>1, <1>2, <1>3, <2>2 DEF Distinct
<1> QED
  BY <1>4, <1>5, <1>6, <1>7, BookMoves

\* What another request does leaves a passed check as it is.
LEMMA OtherCheckKept ==
  ASSUME BookInv, Orderly, NEW e \in Clients, Steps(e), NEW c \in Clients \ {e}
  PROVE  StillChecked(c)'
<1>1. /\ TypeInv /\ WriterInv /\ Without({"writers"}) /\ StillChecked(c) /\ OthersStay(e)
      /\ InStage(pc[c], req[c], mem[c], rules)
  <2>1. TypeInv /\ WriterInv /\ Without({"writers"}) /\ StillChecked(c)
    BY DEF BookInv, PathInv, WriterInv, Orderly, Without
  <2> QED
    BY <2>1, RequestsKept DEF TypeInv
<1>2. pc'[c] = pc[c] /\ req'[c] = req[c] /\ mem'[c] = mem[c]
  BY <1>1 DEF OthersStay
<1>3. CASE ~Writes(c)
  <2>1. pc[c] # "insert" /\ ~(pc[c] # "idle" /\ req[c].kind = "update")
    BY <1>1, <1>3 DEF Writes, InStage, UpdateOf
  <2> QED
    BY <1>2, <2>1 DEF StillChecked
<1>4. CASE Writes(c)
  <2>1. ~Writes(e)
    BY <1>1, <1>4 DEF WriterInv
  <2>2. DOMAIN rules' = DOMAIN rules
        /\ \A j \in DOMAIN rules : Then(j) = Entry(j) \/ Then(j) = Nothing
    BY <2>1, OthersMove DEF Stays, Strikes
  <2>3. pc[c] \notin {"find", "idle"} => mem[c].want \in Identity /\ mem[c].want # Nothing
    BY <1>1, <1>4, RequestsAssumption DEF InStage, UpdateOf, Predicted, Writes
  <2>4. ASSUME pc[c] = "insert" PROVE \A j \in DOMAIN rules' : Then(j) # mem[c].want
    BY <1>1, <2>2, <2>3, <2>4 DEF StillChecked
  <2>5. ASSUME pc[c] # "idle", req[c].kind = "update", rules'[mem[c].rule].live
        PROVE  /\ pc[c] = "check" => mem[c].existing = Known(rules'[mem[c].rule])
               /\ pc[c] \notin {"find", "check"} =>
                    \A j \in DOMAIN rules' \ {mem[c].rule} : Then(j) # mem[c].want
    <3>1. mem[c].rule \in DOMAIN rules
      BY <1>1, <2>5, BusyRule
    <3>2. SameRule(rules'[mem[c].rule], rules[mem[c].rule])
      BY <1>1, <1>4, <2>5, <3>1, NotMine
    <3>3. rules[mem[c].rule].live /\ Known(rules'[mem[c].rule]) = Known(rules[mem[c].rule])
      BY <2>5, <3>2, SameKnown
    <3> QED
      BY <1>1, <2>2, <2>3, <2>5, <3>3 DEF StillChecked
  <2>6. \A i : Known(rules[i])' = Known(rules'[i])
    BY DEF Known, IdentityOf
  <2> QED
    BY <1>2, <2>4, <2>5, <2>6, EntryShown DEF StillChecked
<1> QED
  BY <1>3, <1>4

\* A create inserts what it checked.
LEMMA CreateChecked ==
  ASSUME BookInv, Orderly, NEW e \in Clients, Steps(e), pc'[e] = "insert"
  PROVE  \A j \in DOMAIN rules' : Then(j) # mem'[e].want
<1>1. TypeInv /\ InStage(pc[e], req[e], mem[e], rules)
  BY DEF BookInv, PathInv, WriterInv, TypeInv
<1>2. ~ \E r \in Requests : Start(e, r)
  BY <1>1, RequestKind DEF Start, TypeInv, ClientsTyped
<1>3. pc[e] # "idle" /\ req'[e] = req[e]
  BY <1>1, <1>2, RequestsKept DEF Goes, Ends
<1>4. req[e].kind = "create"
  <2>1. InStage(pc'[e], req'[e], mem'[e], rules')
    BY <1>1, EachStepTyped DEF StepTyped
  <2> QED
    BY <1>3, <2>1 DEF InStage, UpdateOf
<1>5. CheckDuplicate(e) /\ ~IsDuplicate(e) /\ mem'[e] = mem[e] /\ rules' = rules
  <2>1. ~Insert(e) /\ ~Ends(e)
    BY <1>1, InsertStep DEF Goes, Ends
  <2> QED
    BY <1>1, <1>3, <1>4, <2>1, CreateMoves DEF Goes
<1>6. \A j \in DOMAIN rules : Entry(j) # mem[e].want
  <2>1. mem[e].rule = 0
    BY <1>1, <1>4, <1>5 DEF InStage, UpdateOf, CheckDuplicate
  <2>2. 0 \notin DOMAIN rules
    BY <1>1, Member DEF TypeInv
  <2> QED
    BY <1>5, <2>1, <2>2, CheckPassed
<1>7. \A j \in DOMAIN rules : Then(j) = Entry(j)
  BY <1>3, <1>4, CreateAdds
<1> QED
  BY <1>5, <1>6, <1>7

\* An update writes what it checked, or leaves the rule's identity as it is.
LEMMA UpdateChecked ==
  ASSUME BookInv, Orderly, NEW e \in Clients, Steps(e), pc'[e] \notin {"idle", "find"},
         req'[e].kind = "update", rules'[mem'[e].rule].live
  PROVE  /\ pc'[e] = "check" => mem'[e].existing = Known(rules'[mem'[e].rule])
         /\ pc'[e] # "check" =>
              \A j \in DOMAIN rules' \ {mem'[e].rule} : Then(j) # mem'[e].want
<1>1. /\ TypeInv /\ WriterInv /\ Without({"writers"}) /\ StillChecked(e) /\ Distinct
  BY DEF BookInv, PathInv, WriterInv, Orderly, Without
<1>2. /\ req'[e] = req[e] /\ UpdateOf(req[e], mem[e], rules)
      /\ mem'[e].rule = mem[e].rule /\ rules[mem[e].rule].live
      /\ Find(e) \/ PastFind(e)
      /\ pc[e] = "check" => CheckDuplicate(e)
  <2>1. \/ Find(e) \/ CheckDuplicate(e) \/ UpdateParent(e) \/ DeleteCondition(e)
        \/ CreateCondition(e) \/ FindCondition(e) \/ RewriteCondition(e)
        \/ WritesActions(e) \/ FindAction(e) \/ FindConfig(e)
    BY <1>1, OwnStep
  <2>2. pc[e] = "check" => CheckDuplicate(e)
    BY <2>1 DEF Find, UpdateParent, DeleteCondition, CreateCondition, FindCondition,
       RewriteCondition, WritesActions, DeleteAction, CreateAction, WriteConfig, FindAction,
       FindConfig, OnCondition, OnAction
  <2> QED
    BY <1>1, <2>2, OwnStep
<1>3. PICK i : i = mem[e].rule /\ i = mem'[e].rule /\ i \in DOMAIN rules
  BY <1>2 DEF UpdateOf
<1>4. /\ DOMAIN rules' = DOMAIN rules
      /\ \A j \in DOMAIN rules \ {i} : Then(j) = Entry(j)
  <2>1. pc[e] # "idle" /\ req[e].kind = "update"
    BY <1>2 DEF PastFind, Find, UpdateOf
  <2> QED
    BY <1>3, <2>1, UpdateMoves
<1>5. CASE Find(e)
  <2>1. /\ rules' = rules /\ mem'[e] = Read(e) /\ pc[e] = "find"
        /\ Read(e).existing = Known(rules[i]) /\ Known(rules[i]) # Nothing
    <3>1. /\ rules' = rules /\ Goes(e, pc'[e], Read(e)) /\ pc[e] = "find"
          /\ mem[e].rule = req[e].rule
          /\ Read(e).existing = Known(rules[req[e].rule]) /\ Read(e).existing \in Identity
      BY <1>1, <1>2, <1>5, FindStep DEF Ends, Predicted, Known, UpdateOf
    <3> QED
      BY <1>3, <3>1, RequestsAssumption DEF Goes
  <2>2. CASE pc'[e] = "check"
    BY <1>3, <2>1, <2>2
  <2>3. CASE pc'[e] # "check"
    <3>1. Read(e).want = Known(rules[i])
      BY <1>1, <1>3, <1>5, <2>3, CheckSkipped
    <3>2. Entry(i) = Known(rules[i])
      <4>1. Writes(e) /\ ~PastFind(e)
        BY <1>2, <2>1 DEF Writes, UpdateOf, PastFind
      <4>2. Marks(pc, req, mem, i) = {}
        BY <1>1, <4>1, MarksOf
      <4> QED
        BY <1>2, <1>3, <4>2, EntryShown, ShownCases
    <3>3. \A j \in DOMAIN rules \ {i} : Entry(j) # Known(rules[i])
      BY <1>1, <1>3, <2>1, <3>2 DEF Distinct
    <3> QED
      BY <1>3, <1>4, <2>1, <2>3, <3>1, <3>3
  <2> QED
    BY <2>2, <2>3
<1>6. CASE PastFind(e)
  <2>1. pc'[e] \notin {"find", "check", "insert"} /\ mem'[e].want = mem[e].want
    BY <1>1, <1>6, UnderWay
  <2>2. \A j \in DOMAIN rules \ {i} : Entry(j) # mem[e].want
    <3>1. CASE pc[e] = "check"
      <4>1. CheckDuplicate(e) /\ ~IsDuplicate(e)
        BY <1>1, <1>2, <3>1, CheckStep DEF Ends
      <4> QED
        BY <1>3, <4>1, CheckPassed
    <3>2. CASE pc[e] # "check"
      BY <1>1, <1>2, <1>3, <1>6, <3>2 DEF StillChecked, PastFind
    <3> QED
      BY <3>1, <3>2
  <2> QED
    BY <1>3, <1>4, <2>1, <2>2
<1> QED
  BY <1>2, <1>5, <1>6

LEMMA BookInit == Init => BookInv
<1> SUFFICES ASSUME Init PROVE BookInv
  OBVIOUS
<1>1. CreateInv /\ PathInv /\ KnownInv
  BY CreateInit, PathInit, KnownInit
<1>2. \A c \in Clients : StillChecked(c)
  BY DEF Init, StillChecked
<1>3. ASSUME NEW i \in DOMAIN rules, Entry(i) # Nothing
      PROVE  rules[i].live /\ Entry(i) = Known(rules[i])
  <2>1. Marks(pc, req, mem, i) = {}
    BY DEF Init, Marks, Updating
  <2> QED
    BY <1>3, <2>1, EntryShown, ShownCases
<1>4. ASSUME NEW i \in DOMAIN rules, NEW j \in DOMAIN rules, i # j,
             Entry(i) # Nothing, Entry(i) = Entry(j)
      PROVE  FALSE
  <2>1. /\ rules[i].live /\ rules[j].live
        /\ Known(rules[i]) = Known(rules[j])
    BY <1>3, <1>4
  <2>2. ~(rules[i].live /\ rules[j].live /\ SameIdentity(rules[i], rules[j]))
    BY <1>4, PastAssumption DEF Init
  <2> QED
    BY <2>1, <2>2 DEF SameIdentity, Known
<1> QED
  BY <1>1, <1>2, <1>4 DEF BookInv, Distinct

LEMMA BookStep == BookInv /\ [Next]_vars => BookInv'
<1> SUFFICES ASSUME BookInv, [Next]_vars PROVE BookInv'
  OBVIOUS
<1>1. CreateInv' /\ PathInv' /\ KnownInv'
  BY CreateStep, PathStep, KnownStep DEF BookInv
<1>2. CASE UNCHANGED vars
  <2>1. \A i : Entry(i)' = Entry(i)
    BY <1>2 DEF vars, Entry, Updates, IdentityOf
  <2>2. Distinct' <=> Distinct
    BY <1>2, <2>1 DEF vars, Distinct
  <2>3. \A c \in Clients : StillChecked(c)' <=> StillChecked(c)
    BY <1>2, <2>1 DEF vars, StillChecked, Known, IdentityOf
  <2>4. Orderly' <=> Orderly
    BY <1>2 DEF vars, Orderly, Without
  <2> QED
    BY <1>1, <2>2, <2>3, <2>4 DEF BookInv
<1>3. CASE Next
  <2>1. PICK e \in Clients : Steps(e)
    BY <1>3 DEF Next, Steps
  <2>2. Orderly' <=> Orderly
    <3>1. faults' = faults
      BY <2>1, RequestsKept DEF BookInv, PathInv, WriterInv
    <3> QED
      BY <3>1 DEF Orderly, Without
  <2>3. ASSUME Orderly PROVE Distinct' /\ \A c \in Clients : StillChecked(c)'
    <3>1. Distinct'
      BY <2>1, <2>3, DistinctThen
    <3>2. \A c \in Clients \ {e} : StillChecked(c)'
      BY <2>1, <2>3, OtherCheckKept
    <3>3. StillChecked(e)'
      <4>1. pc'[e] = "insert" => \A j \in DOMAIN rules' : Then(j) # mem'[e].want
        BY <2>1, <2>3, CreateChecked
      <4>2. pc'[e] # "idle" /\ req'[e].kind = "update" /\ rules'[mem'[e].rule].live =>
              /\ pc'[e] = "check" => mem'[e].existing = Known(rules'[mem'[e].rule])
              /\ pc'[e] \notin {"find", "check"} =>
                   \A j \in DOMAIN rules' \ {mem'[e].rule} : Then(j) # mem'[e].want
        BY <2>1, <2>3, UpdateChecked
      <4>3. (Known(rules[mem[e].rule]))' = Known(rules'[mem'[e].rule])
        BY DEF Known, IdentityOf
      <4> QED
        BY <4>1, <4>2, <4>3, EntryShown DEF StillChecked
    <3> QED
      BY <3>1, <3>2, <3>3
  <2> QED
    BY <1>1, <2>2, <2>3 DEF BookInv
<1> QED
  BY <1>2, <1>3

LEMMA DistinctMeans == BookInv => LiveRulesDistinct
<1> SUFFICES ASSUME BookInv, Orderly, NEW i \in DOMAIN rules, NEW j \in DOMAIN rules, i # j,
                    rules[i].live, rules[j].live, Updates(i) \cup Updates(j) = {}
             PROVE  ~SameIdentity(rules[i], rules[j])
  BY DEF LiveRulesDistinct, RulesDistinct
<1>1. \A k \in {i, j} : Marks(pc, req, mem, k) = {}
  BY DEF Updates, Marks, Updating
<1>2. Entry(i) = Known(rules[i]) /\ Entry(j) = Known(rules[j])
  BY <1>1, EntryShown, ShownCases
<1>3. Known(rules[i]) # Nothing
  <2>1. rules[i] \in Rule
    BY Member DEF BookInv, PathInv, WriterInv, TypeInv
  <2> QED
    BY <2>1, RuleFields, IdentityType, RequestsAssumption DEF Known
<1>4. Known(rules[i]) # Known(rules[j])
  BY <1>2, <1>3 DEF BookInv, Distinct
<1> QED
  BY <1>4 DEF SameIdentity, Known

(* checkDuplicate() is asked once, before the first write, and its answer  *)
(* holds until the last: where creates and updates come one at a time and  *)
(* none is cut short, no two live rules share event, service and           *)
(* conditions once no update is under way on either, removals overlapping  *)
(* or not.                                                                 *)
THEOREM RulesStayDistinct == Spec => []LiveRulesDistinct
  BY BookInit, BookStep, DistinctMeans, PTL DEF Spec

-----------------------------------------------------------------------------
(* The tables are a RuleBook.                                              *)
Page == [i \in DOMAIN rules |-> Entry(i)]
Entries == Identity \cup {Nothing}

LEMMA PageType == TypeInv => Page \in Seq(Entries)
<1> SUFFICES ASSUME TypeInv PROVE Page \in Seq(Entries)
  OBVIOUS
<1>1. PICK n \in Nat : n = Len(rules) /\ DOMAIN rules = 1..n
  BY LenProperties DEF TypeInv
<1>2. ASSUME NEW i \in DOMAIN rules PROVE Entry(i) \in Entries
  <2>1. Known(rules[i]) \in Identity
    <3>1. rules[i] \in Rule
      BY Member DEF TypeInv
    <3> QED
      BY <3>1, RuleFields, IdentityType DEF Known
  <2>2. \A c \in Clients : mem[c].existing \in Entries
    BY LocalsFields DEF TypeInv, ClientsTyped, Entries
  <2>3. ASSUME \E c \in Updates(i) : mem[c].existing # Nothing
        PROVE  (CHOOSE c \in Updates(i) : mem[c].existing # Nothing) \in Clients
    BY <2>3 DEF Updates
  <2> QED
    BY <2>1, <2>2, <2>3 DEF Entry, Known, Entries
<1>3. Page \in [1..n -> Entries]
  BY <1>1, <1>2 DEF Page
<1> QED
  BY <1>3, SeqDef

LEMMA PageThen == Page' = [i \in DOMAIN rules' |-> Then(i)]
<1>1. Page' = [i \in DOMAIN rules' |-> Entry(i)']
  BY DEF Page
<1>2. \A i \in DOMAIN rules' : Entry(i)' = Then(i)
  BY EntryShown
<1> QED
  BY <1>1, <1>2

\* One step of the book, from page b to page n.
TurnsTo(b, n) ==
  \/ n = b
  \/ /\ Len(n) = Len(b) + 1 /\ n[Len(n)] \in Identity
     /\ \A j \in DOMAIN b \ {0} : b[j] # n[Len(n)]
     /\ n = Append(b, n[Len(n)])
  \/ \E i \in DOMAIN b :
       /\ b[i] # Nothing
       /\ \/ n[i] = Nothing /\ n = [b EXCEPT ![i] = Nothing]
          \/ /\ n[i] \in Identity /\ \A j \in DOMAIN b \ {i} : b[j] # n[i]
             /\ n = [b EXCEPT ![i] = n[i]]

LEMMA PagesTurn ==
  ASSUME BookInv, Orderly, NEW e \in Clients, Steps(e)
  PROVE  TurnsTo(Page, Page')
<1>1. TypeInv
  BY DEF BookInv, PathInv, WriterInv
<1>2. PICK b, n : b = Page /\ n = Page'
  OBVIOUS
<1>3. /\ DOMAIN b = DOMAIN rules /\ \A j \in DOMAIN rules : b[j] = Entry(j)
      /\ b = [j \in DOMAIN rules |-> Entry(j)]
  BY <1>2 DEF Page
<1>4. /\ DOMAIN n = DOMAIN rules' /\ \A j \in DOMAIN rules' : n[j] = Then(j)
      /\ n = [j \in DOMAIN rules' |-> Then(j)]
  BY <1>2, PageThen
<1>5. CASE Stays
  <2>1. n = b
    BY <1>3, <1>4, <1>5 DEF Stays
  <2> QED
    BY <1>2, <2>1 DEF TurnsTo
<1>6. ASSUME NEW i, Strikes(i) PROVE TurnsTo(b, n)
  <2>1. i \in DOMAIN b /\ n[i] = Nothing /\ n = [b EXCEPT ![i] = Nothing]
    BY <1>3, <1>4, <1>6 DEF Strikes
  <2>2. CASE b[i] = Nothing
    BY <2>1, <2>2, <1>3 DEF TurnsTo
  <2> QED
    BY <2>1, <2>2 DEF TurnsTo
<1>7. ASSUME NEW i, Changes(i) PROVE TurnsTo(b, n)
  <2>1. /\ i \in DOMAIN b /\ b[i] # Nothing /\ n[i] \in Identity
        /\ \A j \in DOMAIN b \ {i} : b[j] # n[i]
        /\ n = [b EXCEPT ![i] = n[i]]
    BY <1>3, <1>4, <1>7 DEF Changes
  <2> QED
    BY <2>1 DEF TurnsTo
<1>8. CASE Adds
  <2>1. PICK m \in Nat : m = Len(rules)
    <3>1. Len(rules) \in Nat
      BY <1>8 DEF Adds
    <3> QED
      BY <3>1
  <2>2. /\ DOMAIN b = 1..m /\ DOMAIN n = 1..(m + 1)
        /\ n[m + 1] \in Identity
        /\ \A j \in DOMAIN b : n[j] = b[j] /\ b[j] # n[m + 1]
    BY <1>3, <1>4, <1>8, <2>1 DEF Adds
  <2>3. b \in Seq(Entries) /\ n[m + 1] \in Entries
    BY <1>1, <1>2, <2>2, PageType DEF Entries
  <2>4. Len(b) = m
    BY <2>1, <2>2, <2>3, LenProperties
  <2>5. PICK s : s = Append(b, n[m + 1])
    OBVIOUS
  <2>6. s \in Seq(Entries) /\ DOMAIN s = 1..(m + 1) /\ Len(s) = m + 1
        /\ s[m + 1] = n[m + 1] /\ \A j \in 1..m : s[j] = b[j]
    BY <2>3, <2>4, <2>5, AddMember, LenProperties
  <2>7. n = s
    <3>1. s = [j \in 1..(m + 1) |-> s[j]]
      BY <2>6
    <3>2. n = [j \in 1..(m + 1) |-> n[j]]
      BY <1>4, <2>2
    <3>3. \A j \in 1..(m + 1) : n[j] = s[j]
      BY <2>1, <2>2, <2>6
    <3> QED
      BY <3>1, <3>2, <3>3
  <2>8. Len(n) = m + 1
    BY <2>6, <2>7
  <2>9. PICK x : x = n[m + 1]
    OBVIOUS
  <2>10. n[Len(n)] = x /\ x \in Identity /\ n = Append(b, x) /\ \A j \in DOMAIN b : b[j] # x
    BY <2>2, <2>5, <2>7, <2>8, <2>9
  <2>11. TurnsTo(b, n)
    BY <2>4, <2>8, <2>10 DEF TurnsTo
  <2> QED
    BY <1>2, <2>11
<1> QED
  BY <1>2, <1>5, <1>6, <1>7, <1>8, BookMoves

LEMMA BookStarts == Init /\ BookInv => Book!Init
<1> SUFFICES ASSUME Init, BookInv PROVE Book!Init
  OBVIOUS
<1>1. PICK b : b = IF Orderly THEN [i \in DOMAIN rules |-> Entry(i)] ELSE <<>>
  OBVIOUS
<1>2. b \in Seq(Identity \cup {Nothing})
  <2>1. CASE Orderly
    BY <1>1, <2>1, PageType DEF BookInv, PathInv, WriterInv, Page, Entries
  <2>2. CASE ~Orderly
    BY <1>1, <2>2
  <2> QED
    BY <2>1, <2>2
<1>3. \A i \in DOMAIN b : b[i] # Nothing => \A j \in DOMAIN b \ {i} : b[j] # b[i]
  <2>1. CASE Orderly
    BY <1>1, <2>1 DEF BookInv, Distinct
  <2>2. CASE ~Orderly
    BY <1>1, <2>2
  <2> QED
    BY <2>1, <2>2
<1> QED
  BY <1>1, <1>2, <1>3 DEF Book!Init, Book!IsNew

LEMMA BookTurns ==
  BookInv /\ [Next]_vars =>
    [Book!Next]_(IF Orderly THEN [i \in DOMAIN rules |-> Entry(i)] ELSE <<>>)
<1> SUFFICES ASSUME BookInv, [Next]_vars
             PROVE  [Book!Next]_(IF Orderly THEN [i \in DOMAIN rules |-> Entry(i)] ELSE <<>>)
  OBVIOUS
<1>1. CASE UNCHANGED vars
  <2>1. (\A i : Entry(i)' = Entry(i)) /\ rules' = rules /\ faults' = faults
    BY <1>1 DEF vars, Entry, Updates, IdentityOf
  <2> QED
    BY <2>1 DEF Orderly, Without
<1>2. CASE Next
  <2>1. PICK e \in Clients : Steps(e)
    BY <1>2 DEF Next, Steps
  <2>2. Orderly' <=> Orderly
    <3>1. faults' = faults
      BY <2>1, RequestsKept DEF BookInv, PathInv, WriterInv
    <3> QED
      BY <3>1 DEF Orderly, Without
  <2>3. CASE ~Orderly
    BY <2>2, <2>3
  <2>4. CASE Orderly
    <3>1. PICK b, n : b = Page /\ n = Page'
      OBVIOUS
    <3>2. TurnsTo(b, n)
      BY <2>1, <2>4, <3>1, PagesTurn
    <3>3. /\ b = (IF Orderly THEN [i \in DOMAIN rules |-> Entry(i)] ELSE <<>>)
          /\ n = (IF Orderly THEN [i \in DOMAIN rules |-> Entry(i)] ELSE <<>>)'
      BY <2>2, <2>4, <3>1 DEF Page
    <3> QED
      BY <3>2, <3>3 DEF TurnsTo, Book!Next, Book!Add, Book!Change, Book!StrikeOut, Book!IsNew
  <2> QED
    BY <2>3, <2>4
<1> QED
  BY <1>1, <1>2

(* create(), update() and remove(), statement by statement and with        *)
(* removals in between, do to what administrators see what a RuleBook      *)
(* does: one entry changes at a time, and never to one that is there.      *)
THEOREM RulesImplementBook == Spec => ImplementsRuleBook
<1>1. Init => Book!Init
  BY BookInit, BookStarts
<1>2. BookInv /\ [Next]_vars =>
        [Book!Next]_(IF Orderly THEN [i \in DOMAIN rules |-> Entry(i)] ELSE <<>>)
  BY BookTurns
<1> QED
  BY <1>1, <1>2, BookInit, BookStep, PTL DEF Spec, ImplementsRuleBook, Book!Spec

=============================================================================
