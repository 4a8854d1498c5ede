---------------------------- MODULE MCRuleStore ----------------------------
(* RuleStore for TLC: a rule from before pushChannel was required, and the *)
(* requests that meet one another in it.                                   *)
EXTENDS RuleStore, TLC

CONSTANTS c1, c2, f, e1, e2, s1, undef, yes, no, five, list, null, nothing

\* undefined, true, false, 5 and the array [5] as what metadata leads to.
MCValues == {undef, yes, no, five, list}
Numbers ==
  [v \in MCValues |-> CASE v = yes -> {1} [] v = no -> {0} [] v = five -> {5}
                        [] v = list -> {5} [] v = undef -> {}]
Elements == [v \in MCValues |-> IF v = list THEN {five} ELSE {}]

Cond(op, v) == [field |-> f, operator |-> op, value |-> v]
IsFive == Cond("eq", five)
IsThere == Cond("exists", yes)
NotThere == Cond("exists", no)
AtLeastYes == Cond("gte", yes)

Row(c) == [shape |-> c, live |-> TRUE]
Alert(named, channel) ==
  [kind |-> "notification", live |-> TRUE, cfgLive |-> TRUE,
   named |-> named, channel |-> channel]
Owner(e, s) == [event |-> e, service |-> s, active |-> TRUE]
Idle(e, s) == [event |-> e, service |-> s, active |-> FALSE]

\* One rule with two conditions and a legacy action; an inactive one of another event.
Legacy ==
  <<[parent |-> Owner(e1, s1), live |-> TRUE, conds |-> <<Row(IsFive), Row(IsThere)>>,
     acts |-> <<Alert(FALSE, FALSE)>>],
    [parent |-> Idle(e2, s1), live |-> TRUE, conds |-> <<Row(IsFive)>>,
     acts |-> <<Alert(TRUE, FALSE)>>]>>
MCStores == {Legacy}

Add(c) == [do |-> "create", put |-> c]
Put(k, columns) == [do |-> "update", id |-> k, put |-> columns]
Drop(k) == [do |-> "delete", id |-> k]

Act(do, i, k, kind, named, channel) ==
  [do |-> do, of |-> i, id |-> k, kind |-> kind, named |-> named, channel |-> channel]

Create(e, s, given, conds, acts) ==
  [kind |-> "create", patch |-> Owner(e, s), given |-> given, conds |-> conds, acts |-> acts]
Update(i, patch, conds, acts) ==
  [kind |-> "update", rule |-> i, patch |-> patch, given |-> conds # <<>>,
   conds |-> conds, acts |-> acts]
RemoveRule(i) == [kind |-> "remove", rule |-> i]

NewIsFive == Create(e1, s1, TRUE, <<Add(IsFive)>>, <<Act("create", 0, 0, "email", FALSE, FALSE)>>)
NewBare == Create(e1, null, FALSE, <<>>, <<>>)
NewGlobal == Create(e1, null, TRUE, <<>>, <<Act("create", 0, 0, "notification", TRUE, TRUE)>>)
DropOne == Update(1, <<>>, <<Drop(2)>>, <<Act("update", 1, 1, "notification", TRUE, FALSE)>>)
SwapConds ==
  Update(1, [active |-> FALSE], <<Drop(2), Put(1, [value |-> yes, operator |-> "gte"]),
                                  Add(NotThere)>>,
         <<Act("create", 0, 0, "notification", TRUE, TRUE)>>)
Channel == Update(1, <<>>, <<>>, <<Act("update", 1, 1, "notification", FALSE, TRUE)>>)
Move == Update(2, [event |-> e1], <<>>, <<>>)
Swap == Update(2, <<>>, <<Put(1, [operator |-> "exists"])>>,
               <<Act("delete", 1, 1, "notification", FALSE, FALSE)>>)
Lost == Update(2, [service |-> s1], <<Put(3, [value |-> five])>>,
               <<Act("delete", 2, 1, "notification", FALSE, FALSE)>>)

\* eq to exists and back: the value is lost on the way.
BackAndForth ==
  Update(2, <<>>, <<Put(1, [operator |-> "exists"]), Put(1, [operator |-> "eq"])>>, <<>>)
DropAction == Update(1, <<>>, <<>>, <<Act("delete", 1, 1, "notification", FALSE, FALSE)>>)

MCRequests ==
  {NewIsFive, DropAction, NewBare, NewGlobal, DropOne, SwapConds, Channel, Move, Swap, Lost,
   BackAndForth, RemoveRule(1), RemoveRule(2), RemoveRule(3)}

InTurn == {{}, {"removal", "twice"}, {"foreign", "retype", "unknown"}}
Anything == {AllFaults, AllFaults \ {"foreign"}, AllFaults \ {"removal"}}
Everything == InTurn \cup Anything
Bare == {{"bare"}}
Backwards == {{"retype", "twice"}}

Interchangeable == Permutations(Clients)

=============================================================================
