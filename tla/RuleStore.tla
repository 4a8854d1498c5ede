----------------------------- MODULE RuleStore -----------------------------
(***************************************************************************)
(* Rule management: RuleService.create, update and remove, served          *)
(* concurrently, each over the awaits of the two child services and their  *)
(* repositories.  pc[c] names the await a request makes next; every        *)
(* statement commits on its own, but for the two soft-delete transactions. *)
(*                                                                         *)
(* faults, fixed by Init, says what this execution has to live with:       *)
(*   "writers"   creates and updates may overlap one another               *)
(*   "removal"   a rule may be removed while being created or updated      *)
(*   "abort"     a request may die at any await (statement fails, crash)   *)
(*   "unknown"   updates may name conditions the rule does not have        *)
(*   "foreign"   updates may name actions of another rule                  *)
(*   "bare"      rules may be created without the conditions field         *)
(*   "retype"    an update may leave exists with a value that is no boolean *)
(*   "twice"     an update may change one condition more than once         *)
(***************************************************************************)
EXTENDS RuleConditions

CONSTANTS
  Clients,       \* requests that can be served at one time
  Requests,      \* what they may ask for
  Stores,        \* rules there may be to begin with
  Events, Services,
  NoService,     \* a null service_name
  Nothing,       \* no request, no identity, no condition
  MaxRequests,   \* bound: requests served in all
  FaultSets      \* fault sets Init chooses from

VARIABLES
  faults,
  rules,    \* every rule ever stored, with its conditions, actions, configs
  pc,       \* pc[c]: the await client c's request makes next
  req,      \* req[c]: the request it serves
  mem,      \* mem[c]: the locals of its handler
  served    \* requests started so far

vars == <<faults, rules, pc, req, mem, served>>

AllFaults == {"writers", "removal", "abort", "unknown", "foreign", "bare", "retype",
              "twice"}
Without(some) == faults \cap some = {}

Parent == [event : Events, service : Services \cup {NoService}, active : BOOLEAN]

\* named, channel: the notification config has an eventName, a pushChannel.
ActionRow ==
  [kind : {"email", "webhook", "notification"}, live : BOOLEAN, cfgLive : BOOLEAN,
   named : BOOLEAN, channel : BOOLEAN]
Rule ==
  [parent : Parent, live : BOOLEAN, conds : Seq(ConditionRow), acts : Seq(ActionRow)]
Identity ==
  [event : Events, service : Services \cup {NoService}, conds : SUBSET (Shape \X Nat)]

IdentityOf(parent, rows) ==
  [event |-> parent.event, service |-> parent.service, conds |-> Normalized(rows)]

(* An operation on an action: "of" is the rule the action belongs to.      *)
IsActionOp(op) ==
  /\ op.kind \in {"email", "webhook", "notification"}
  /\ {op.named, op.channel} \subseteq BOOLEAN
  /\ op.do = "create" => op.named = op.channel /\ (op.named <=> op.kind = "notification")
  /\ op.kind # "notification" => ~op.named /\ ~op.channel
  /\ op.do \in {"create", "update", "delete"}
  /\ op.do # "create" => op.of \in Nat \ {0} /\ op.id \in Nat \ {0}

IsList(s) == Len(s) \in Nat /\ s = [k \in 1..Len(s) |-> s[k]]

(* What passes the Zod schemas.  "given": the conditions field is present; *)
(* "patch" holds the parent columns the request sets.                      *)
IsRequest(r) ==
  /\ r.kind = "create" => r.patch \in Parent
  /\ r.kind = "update" =>
       /\ DOMAIN r.patch \subseteq {"event", "service", "active"}
       /\ \A p \in Parent : Override(r.patch, p) \in Parent
       /\ r.rule \in Nat \ {0}
  /\ r.kind = "remove" => r.rule \in Nat \ {0}
  /\ r.kind \in {"create", "update", "remove"}
  /\ r.kind # "remove" =>
       /\ r.given \in BOOLEAN /\ (~r.given => r.conds = <<>>)
       /\ IsList(r.conds) /\ IsList(r.acts)
       /\ \A k \in DOMAIN r.conds :
            IsConditionOp(r.conds[k]) /\ (r.kind = "create" => r.conds[k].do = "create")
       /\ \A k \in DOMAIN r.acts :
            IsActionOp(r.acts[k]) /\ (r.kind = "create" => r.acts[k].do = "create")

ASSUME RequestsAssumption ==
  /\ \A r \in Requests : IsRequest(r)
  /\ Nothing \notin Requests \cup Identity \cup Shape
ASSUME StoresAssumption ==
  /\ Stores \subseteq Seq(Rule)
  /\ \A s \in Stores : \A i \in DOMAIN s : \A k \in DOMAIN s[i].conds :
       Storable(s[i].conds[k].shape)

SameIdentity(a, b) == IdentityOf(a.parent, a.conds) = IdentityOf(b.parent, b.conds)
AllDeleted(rule) ==
  /\ LiveShapes(rule.conds) = {}
  /\ \A k \in DOMAIN rule.acts : ~rule.acts[k].live /\ ~rule.acts[k].cfgLive
HasConfigs(rule) ==
  \A k \in DOMAIN rule.acts : rule.acts[k].live => rule.acts[k].cfgLive

(* What the properties below say of the rules, they say of those there are *)
(* to begin with: nothing went wrong before.                               *)
ASSUME PastAssumption ==
  \A s \in Stores : \A i \in DOMAIN s :
    /\ s[i].live \/ AllDeleted(s[i])
    /\ HasConfigs(s[i])
    /\ \A j \in DOMAIN s \ {i} : ~(s[i].live /\ s[j].live /\ SameIdentity(s[i], s[j]))
ASSUME BoundsAssumption ==
  MaxRequests \in Nat /\ FaultSets \subseteq SUBSET AllFaults

Stages == {"idle", "check", "insert", "find", "parent", "op", "rewrite", "config",
           "write", "reload", "collect", "transact"}

Locals ==
  [rule : Nat, at : Nat, existing : Identity \cup {Nothing},
   want : Identity \cup {Nothing}, merged : Shape \cup {Nothing}, collected : SUBSET Nat]

\* The rule meant, the operation reached, the identity update() read, the one
\* it predicts, the condition row to write, the action ids softDelete() read.
Blank ==
  [rule |-> 0, at |-> 0, existing |-> Nothing, want |-> Nothing, merged |-> Nothing,
   collected |-> {}]

(* The rules are what Rule says; a busy client has a request and an idle   *)
(* one remembers nothing.                                                  *)
TypeOK ==
  /\ faults \subseteq AllFaults
  /\ rules \in Seq(Rule)
  /\ pc \in [Clients -> Stages]
  /\ req \in [Clients -> Requests \cup {Nothing}]
  /\ mem \in [Clients -> Locals]
  /\ served \in 0..MaxRequests
  /\ \A c \in Clients : /\ pc[c] = "idle" <=> req[c] = Nothing
                        /\ pc[c] = "idle" => mem[c] = Blank

Init ==
  /\ faults \in FaultSets
  /\ rules \in Stores
  /\ pc = [c \in Clients |-> "idle"]
  /\ req = [c \in Clients |-> Nothing]
  /\ mem = [c \in Clients |-> Blank]
  /\ served = 0

-----------------------------------------------------------------------------
IsLive(i) == i \in DOMAIN rules /\ rules[i].live

Ops(r) == r.conds \o r.acts
Op(c) == Ops(req[c])[mem[c].at]
OnCondition(c) == pc[c] = "op" /\ mem[c].at <= Len(req[c].conds)
OnAction(c) == pc[c] = "op" /\ mem[c].at > Len(req[c].conds)

(* The handler returns or throws.                                          *)
Finish(c) ==
  /\ pc' = [pc EXCEPT ![c] = "idle"]
  /\ req' = [req EXCEPT ![c] = Nothing]
  /\ mem' = [mem EXCEPT ![c] = Blank]

GoTo(c, stage, locals) ==
  /\ pc' = [pc EXCEPT ![c] = stage]
  /\ mem' = [mem EXCEPT ![c] = locals]
  /\ UNCHANGED req

(* On to the k-th child operation, or to the read that ends an update.     *)
GoToOp(c, k) ==
  GoTo(c, IF k <= Len(Ops(req[c])) THEN "op" ELSE "reload",
       [mem[c] EXCEPT !.at = k, !.merged = Nothing])

NextOp(c) == GoToOp(c, mem[c].at + 1)

(* Rows marked as deleted: a condition, an action with or without config.  *)
Marked(rows, ids) ==
  [k \in DOMAIN rows |-> IF k \in ids THEN [rows[k] EXCEPT !.live = FALSE] ELSE rows[k]]
ConfigsMarked(rows, ids) ==
  [k \in DOMAIN rows |-> IF k \in ids THEN [rows[k] EXCEPT !.cfgLive = FALSE] ELSE rows[k]]

NewAction(op) ==
  [kind |-> op.kind, live |-> TRUE, cfgLive |-> TRUE,
   named |-> op.named, channel |-> op.channel]

-----------------------------------------------------------------------------
(* What the faults rule out is never asked for.                            *)
Retypes(op) ==
  op.do = "update" /\ \E s \in Shape : Storable(s) /\ ~Storable(Override(op.put, s))

KnownIds(r) ==
  \A k \in DOMAIN r.conds : r.conds[k].do = "update" =>
    /\ IsLiveRow(rules[r.rule].conds, r.conds[k].id)
    /\ \A j \in 1..(k - 1) : r.conds[j].do = "delete" => r.conds[j].id # r.conds[k].id

ChangesTwice(r) ==
  \E j, k \in DOMAIN r.conds :
    j # k /\ r.conds[j].do = "update" /\ r.conds[k].do = "update"
          /\ r.conds[j].id = r.conds[k].id

Overlaps(c, kinds) == {d \in Clients \ {c} : pc[d] # "idle" /\ req[d].kind \in kinds}

Expected(c, r) ==
  /\ r.kind # "remove" /\ Without({"writers"}) => Overlaps(c, {"create", "update"}) = {}
  /\ r.kind = "update" /\ Without({"removal"}) =>
       \A d \in Overlaps(c, {"remove"}) : mem[d].rule # r.rule
  /\ r.kind = "remove" /\ Without({"removal"}) =>
       \A d \in Overlaps(c, {"create", "update"}) : mem[d].rule # r.rule
  /\ r.kind = "create" => r.given \/ "bare" \in faults
  /\ r.kind = "update" =>
       /\ KnownIds(r) \/ "unknown" \in faults
       /\ (\A k \in DOMAIN r.acts : r.acts[k].do # "create" => r.acts[k].of = r.rule)
            \/ "foreign" \in faults
       /\ (\A k \in DOMAIN r.conds : ~Retypes(r.conds[k])) \/ "retype" \in faults
       /\ ~ChangesTwice(r) \/ "twice" \in faults

(* A request arrives, about a rule there is or was.                        *)
Start(c, r) ==
  /\ pc[c] = "idle" /\ served < MaxRequests
  /\ r.kind # "create" => r.rule \in DOMAIN rules
  /\ Expected(c, r)
  /\ served' = served + 1
  /\ req' = [req EXCEPT ![c] = r]
  /\ pc' = [pc EXCEPT ![c] = CASE r.kind = "create" -> "check"
                                [] r.kind = "update" -> "find"
                                [] r.kind = "remove" -> "collect"]
  /\ mem' = [mem EXCEPT ![c] =
       IF r.kind = "create"
         THEN [Blank EXCEPT !.want =
                IdentityOf(r.patch, computeFinalConditions(<<>>, r.conds))]
         ELSE [Blank EXCEPT !.rule = r.rule]]
  /\ UNCHANGED <<faults, rules>>

(* Faulty variant, for the mutation runs: a new service or event alone is  *)
(* not checked.                                                            *)
FindCheckingConditionsOnly(c) ==
  LET r == req[c]
      rule == rules[r.rule]
      read == [mem[c] EXCEPT
                 !.existing = IdentityOf(rule.parent, rule.conds),
                 !.want = IdentityOf(Override(r.patch, rule.parent),
                                     computeFinalConditions(rule.conds, r.conds))]
  IN  /\ pc[c] = "find"
      /\ IF ~rule.live THEN Finish(c)
         ELSE GoTo(c, IF r.given THEN "check"
                      ELSE IF DOMAIN r.patch # {} THEN "parent"
                      ELSE IF Ops(r) # <<>> THEN "op" ELSE "reload",
                   [read EXCEPT !.at = 1])
      /\ UNCHANGED <<faults, rules, served>>

(* update() reads the rule and predicts what it will have become.          *)
Find(c) ==
  LET r == req[c]
      rule == rules[r.rule]
      checks == r.given \/ {"event", "service"} \cap DOMAIN r.patch # {}
      read == [mem[c] EXCEPT
                 !.existing = IdentityOf(rule.parent, rule.conds),
                 !.want = IdentityOf(Override(r.patch, rule.parent),
                                     computeFinalConditions(rule.conds, r.conds))]
  IN  /\ pc[c] = "find"
      /\ IF ~rule.live THEN Finish(c)
         ELSE GoTo(c, IF checks THEN "check"
                      ELSE IF DOMAIN r.patch # {} THEN "parent"
                      ELSE IF Ops(r) # <<>> THEN "op" ELSE "reload",
                   [read EXCEPT !.at = 1])
      /\ UNCHANGED <<faults, rules, served>>

(* Faulty variant, for the mutation runs: inactive rules are overlooked.   *)
IsDuplicateOfActive(c) ==
  \E i \in DOMAIN rules \ {mem[c].rule} :
    /\ rules[i].live /\ rules[i].parent.active
    /\ IdentityOf(rules[i].parent, rules[i].conds) = mem[c].want

(* Without a service in the query a rule of any service counts.  Conditions *)
(* that were not given normalise to {}, which no stored list equals.       *)
IsDuplicate(c) ==
  /\ req[c].given \/ req[c].kind = "update"
  /\ \E i \in DOMAIN rules \ {mem[c].rule} :
       /\ rules[i].live
       /\ rules[i].parent.event = mem[c].want.event
       /\ mem[c].want.service \in {NoService, rules[i].parent.service}
       /\ Normalized(rules[i].conds) = mem[c].want.conds

CheckDuplicate(c) ==
  /\ pc[c] = "check"
  /\ IF IsDuplicate(c) THEN Finish(c)
     ELSE IF req[c].kind = "create" THEN GoTo(c, "insert", mem[c])
     ELSE IF DOMAIN req[c].patch # {} THEN GoTo(c, "parent", mem[c])
     ELSE GoToOp(c, 1)
  /\ UNCHANGED <<faults, rules, served>>

(* The rule and all its children, in one nested create.                    *)
Insert(c) ==
  LET r == req[c]
      row(op) == [shape |-> Stored(op.put), live |-> TRUE]
  IN  /\ pc[c] = "insert"
      /\ rules' = Append(rules,
           [parent |-> r.patch, live |-> TRUE,
            conds |-> [k \in DOMAIN r.conds |-> row(r.conds[k])],
            acts |-> [k \in DOMAIN r.acts |-> NewAction(r.acts[k])]])
      /\ GoTo(c, "reload", [mem[c] EXCEPT !.rule = Len(rules) + 1])
      /\ UNCHANGED <<faults, served>>

UpdateParent(c) ==
  LET i == mem[c].rule
  IN  /\ pc[c] = "parent"
      /\ \/ /\ rules[i].live
            /\ rules' = [rules EXCEPT ![i].parent = Override(req[c].patch, @)]
            /\ GoToOp(c, 1)
         \/ ~rules[i].live /\ Finish(c) /\ UNCHANGED rules
      /\ UNCHANGED <<faults, served>>

-----------------------------------------------------------------------------
(* RuleConditionService.applyOperations: one operation after another.      *)

(* Faulty variant, for the mutation runs: return in place of continue.     *)
DeleteConditionReturning(c) ==
  /\ OnCondition(c) /\ Op(c).do = "delete"
  /\ rules' = [rules EXCEPT ![mem[c].rule].conds = Marked(@, {Op(c).id})]
  /\ GoToOp(c, Len(req[c].conds) + 1)
  /\ UNCHANGED <<faults, served>>

DeleteCondition(c) ==
  /\ OnCondition(c) /\ Op(c).do = "delete"
  /\ rules' = [rules EXCEPT ![mem[c].rule].conds = Marked(@, {Op(c).id})]
  /\ NextOp(c)
  /\ UNCHANGED <<faults, served>>

CreateCondition(c) ==
  /\ OnCondition(c) /\ Op(c).do = "create"
  /\ rules' = [rules EXCEPT ![mem[c].rule].conds =
                 Append(@, [shape |-> Stored(Op(c).put), live |-> TRUE])]
  /\ NextOp(c)
  /\ UNCHANGED <<faults, served>>

(* handleUpdate() reads the row and merges; a missing row throws.          *)
FindCondition(c) ==
  LET rows == rules[mem[c].rule].conds
  IN  /\ OnCondition(c) /\ Op(c).do = "update"
      /\ IF IsLiveRow(rows, Op(c).id)
           THEN GoTo(c, "rewrite", [mem[c] EXCEPT
                  !.merged = Stored(Override(Op(c).put, rows[Op(c).id].shape))])
           ELSE Finish(c)
      /\ UNCHANGED <<faults, rules, served>>

(* It writes all columns of the merged row, if that is still live.         *)
RewriteCondition(c) ==
  LET i == mem[c].rule
  IN  /\ pc[c] = "rewrite"
      /\ rules' = IF IsLiveRow(rules[i].conds, Op(c).id)
                    THEN [rules EXCEPT ![i].conds[Op(c).id].shape = mem[c].merged]
                    ELSE rules
      /\ NextOp(c)
      /\ UNCHANGED <<faults, served>>

-----------------------------------------------------------------------------
(* RuleActionService.applyOperations.                                      *)

(* Faulty variant, for the mutation runs: the config goes, the action stays. *)
DeleteConfigOnly(c) ==
  /\ OnAction(c) /\ Op(c).do = "delete"
  /\ rules' = [rules EXCEPT ![Op(c).of].acts = ConfigsMarked(@, {Op(c).id})]
  /\ NextOp(c)
  /\ UNCHANGED <<faults, served>>

(* The action goes only if it is the rule's, its config in any case.       *)
DeleteAction(c) ==
  LET i == mem[c].rule
      id == {Op(c).id}
      configs == [rules EXCEPT ![Op(c).of].acts = ConfigsMarked(@, id)]
  IN  /\ OnAction(c) /\ Op(c).do = "delete"
      /\ rules' = IF Op(c).of = i THEN [configs EXCEPT ![i].acts = Marked(@, id)]
                                  ELSE configs
      /\ NextOp(c)
      /\ UNCHANGED <<faults, served>>

CreateAction(c) ==
  /\ OnAction(c) /\ Op(c).do = "create"
  /\ rules' = [rules EXCEPT ![mem[c].rule].acts = Append(@, NewAction(Op(c)))]
  /\ NextOp(c)
  /\ UNCHANGED <<faults, served>>

(* findActiveByRuleId(): not of this rule, gone, or of another type throws. *)
FindAction(c) ==
  LET rows == rules[mem[c].rule].acts
  IN  /\ OnAction(c) /\ Op(c).do = "update"
      /\ IF /\ Op(c).of = mem[c].rule /\ IsLiveRow(rows, Op(c).id)
            /\ rows[Op(c).id].kind = Op(c).kind
           THEN GoTo(c, IF Op(c).kind = "notification" THEN "config" ELSE "write", mem[c])
           ELSE Finish(c)
      /\ UNCHANGED <<faults, rules, served>>

(* Faulty variant, for the mutation runs: the new eventName is not looked at. *)
FindConfigOfOldName(c) ==
  LET config == rules[mem[c].rule].acts[Op(c).id]
  IN  /\ pc[c] = "config"
      /\ IF /\ config.cfgLive
            /\ config.named => config.channel \/ Op(c).channel
           THEN GoTo(c, "write", mem[c])
           ELSE Finish(c)
      /\ UNCHANGED <<faults, rules, served>>

(* updateNotificationConfig() merges what it read with what it is given.   *)
FindConfig(c) ==
  LET config == rules[mem[c].rule].acts[Op(c).id]
  IN  /\ pc[c] = "config"
      /\ IF /\ config.cfgLive
            /\ config.named \/ Op(c).named => config.channel \/ Op(c).channel
           THEN GoTo(c, "write", mem[c])
           ELSE Finish(c)
      /\ UNCHANGED <<faults, rules, served>>

(* The config is found by its action id, deleted or not; columns the       *)
(* update does not name keep their values.                                 *)
WriteConfig(c) ==
  LET i == mem[c].rule
      config == rules[i].acts[Op(c).id]
  IN  /\ pc[c] = "write"
      /\ rules' = [rules EXCEPT ![i].acts[Op(c).id] =
           [config EXCEPT !.named = @ \/ Op(c).named, !.channel = @ \/ Op(c).channel]]
      /\ NextOp(c)
      /\ UNCHANGED <<faults, served>>

(* Faulty variant, for the mutation runs: what one request knew reaches    *)
(* the next.                                                               *)
ReloadKeepingLocals(c) ==
  /\ pc[c] = "reload"
  /\ pc' = [pc EXCEPT ![c] = "idle"]
  /\ req' = [req EXCEPT ![c] = Nothing]
  /\ UNCHANGED <<faults, rules, mem, served>>

(* The final read of create() and update(): a result or an exception.      *)
Reload(c) ==
  /\ pc[c] = "reload"
  /\ Finish(c)
  /\ UNCHANGED <<faults, rules, served>>

-----------------------------------------------------------------------------
(* RuleRepository.softDelete: the action ids are read before the           *)
(* transaction that marks everything below the rule.                       *)
CollectActions(c) ==
  /\ pc[c] = "collect"
  /\ GoTo(c, "transact", [mem[c] EXCEPT !.collected = DOMAIN rules[mem[c].rule].acts])
  /\ UNCHANGED <<faults, rules, served>>

(* Faulty variant, for the mutation runs: configs are left out.            *)
SoftDeleteLeavingConfigs(c) ==
  LET rule == rules[mem[c].rule]
  IN  /\ pc[c] = "transact"
      /\ rules' = [rules EXCEPT ![mem[c].rule] =
           [rule EXCEPT !.live = FALSE, !.conds = Marked(@, DOMAIN @),
                        !.acts = Marked(@, DOMAIN @)]]
      /\ Finish(c)
      /\ UNCHANGED <<faults, served>>

SoftDelete(c) ==
  LET rule == rules[mem[c].rule]
  IN  /\ pc[c] = "transact"
      /\ rules' = [rules EXCEPT ![mem[c].rule] =
           [rule EXCEPT !.live = FALSE, !.conds = Marked(@, DOMAIN @),
                        !.acts = ConfigsMarked(Marked(@, DOMAIN @), mem[c].collected)]]
      /\ Finish(c)
      /\ UNCHANGED <<faults, served>>

(* A statement fails, after which nothing of the handler runs, or the      *)
(* process dies; what was committed before stays.                          *)
Abort(c) ==
  /\ "abort" \in faults
  /\ pc[c] # "idle"
  /\ Finish(c)
  /\ UNCHANGED <<faults, rules, served>>

Next ==
  \E c \in Clients :
    \/ \E r \in Requests : Start(c, r)
    \/ Find(c)
    \/ CheckDuplicate(c)
    \/ Insert(c)
    \/ UpdateParent(c)
    \/ DeleteCondition(c)
    \/ CreateCondition(c)
    \/ FindCondition(c)
    \/ RewriteCondition(c)
    \/ DeleteAction(c)
    \/ CreateAction(c)
    \/ FindAction(c)
    \/ FindConfig(c)
    \/ WriteConfig(c)
    \/ Reload(c)
    \/ CollectActions(c)
    \/ SoftDelete(c)
    \/ Abort(c)

Spec == Init /\ [][Next]_vars

-----------------------------------------------------------------------------
Updates(i) == {c \in Clients : pc[c] # "idle" /\ req[c].kind = "update" /\ mem[c].rule = i}

\* Creates and updates one at a time, run to their end, on known conditions.
Orderly == Without({"writers", "abort", "unknown", "bare", "retype"})

RulesDistinct ==
  \A i, j \in DOMAIN rules :
    /\ i # j /\ rules[i].live /\ rules[j].live
    /\ Updates(i) \cup Updates(j) = {}
    => ~SameIdentity(rules[i], rules[j])

(* "Duplicate identity is eventType + optional serviceName + normalized    *)
(* condition set" (rule.service.ts:333): taken at its word, a second rule  *)
(* with the identity of a live one is refused, also when both are made     *)
(* without conditions.  Refuted: the code compares {} with [].             *)
DuplicatesRefused == RulesDistinct

(* checkDuplicate() does its work when creates and updates come one at a   *)
(* time: no two live rules, inactive ones and those being removed          *)
(* included, agree in event, service and conditions once no update is      *)
(* under way on either.                                                    *)
LiveRulesDistinct ==
  Orderly => RulesDistinct

(* computeFinalConditions() "predicts the final shape for one request in   *)
(* memory": what create() and update() leave in the tables is, column by   *)
(* column, what the duplicate check was asked about.                       *)
StoredAsForeseen ==
  Without({"writers", "removal", "retype"}) =>
    \A c \in Clients : pc[c] = "reload" =>
      LET rule == rules[mem[c].rule]
      IN  IdentityOf(rule.parent, rule.conds) = mem[c].want

(* "duplicate detection can compare the final effective rule shape"        *)
(* (rule.service.ts:234): what the engine makes of the stored conditions   *)
(* is what it would make of the predicted ones.  Refuted where one request *)
(* turns a condition into exists and back: the prediction still has the    *)
(* value, the tables have lost it.                                         *)
PredictsEffectiveShape ==
  Without({"writers", "removal"}) =>
    \A c \in Clients : pc[c] = "reload" =>
      \A data \in [Fields -> Values] :
        matchConditions(LiveShapes(rules[mem[c].rule].conds), data)
          <=> matchConditions({sn[1] : sn \in mem[c].want.conds}, data)

(* Even where the predicted condition is not the stored one (exists with a *)
(* value that is no boolean), the engine makes the same of both, as long   *)
(* as no request changes a condition twice.                                *)
MatchesAsForeseen ==
  Without({"twice"}) => PredictsEffectiveShape

(* "parent rule, conditions, actions, and action-specific config rows all  *)
(* get the same deletedAt" (rule.repository.ts:143): nothing below a       *)
(* deleted rule stays live, unless an update overlapped the removal.       *)
DeletedTogether ==
  Without({"removal"}) =>
    \A i \in DOMAIN rules : ~rules[i].live => AllDeleted(rules[i])

(* mapActionRowsToRuntimeActions() drops an action without config and says *)
(* nothing: as long as no update deletes through the id of another rule's  *)
(* action, there is none, whatever overlaps or fails.                      *)
LiveActionHasConfig ==
  Without({"foreign"}) =>
    \A i \in DOMAIN rules : HasConfigs(rules[i])

(* The guard of updateNotificationConfig() is read before the write and    *)
(* still suffices: no step, overlapping updates included, makes a config   *)
(* with an eventName and no pushChannel out of one that was not so.        *)
Undeliverable(i, k) == rules[i].acts[k].named /\ ~rules[i].acts[k].channel
EventHasChannel ==
  [][\A i \in DOMAIN rules : \A k \in DOMAIN rules[i].acts :
       Undeliverable(i, k)' => Undeliverable(i, k)]_vars

(* What the administrators see of it: an update shows when it ends.        *)
Entry(i) ==
  IF ~rules[i].live THEN Nothing
  ELSE IF \E c \in Updates(i) : mem[c].existing # Nothing
         THEN mem[CHOOSE c \in Updates(i) : mem[c].existing # Nothing].existing
  ELSE IdentityOf(rules[i].parent, rules[i].conds)

Book == INSTANCE RuleBook WITH
  Identities <- Identity, Gone <- Nothing,
  book <- IF Orderly THEN [i \in DOMAIN rules |-> Entry(i)] ELSE <<>>

(* Requests served one at a time, removals excepted, are those of a        *)
(* RuleBook: each changes one rule in one step, and never to an identity   *)
(* another rule has.                                                       *)
ImplementsRuleBook == Book!Spec

=============================================================================
