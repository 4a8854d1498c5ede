------------------------ MODULE ActionServicesProofs ------------------------
(***************************************************************************)
(* What holds of the action services, for all runs, actions, partitions,   *)
(* maintainers and readers, any number of calls and every set of faults.   *)
(***************************************************************************)
EXTENDS ActionServices, FiniteSetTheorems, SequenceTheorems, TLAPS

-----------------------------------------------------------------------------
(* Partitions.  A process in the loops has every partition it is past.     *)
Complete(m) == \A j \in 1..(boot[m].at - 1) : PartitionOrder[j] \in partitions

BootInv ==
  /\ BootTypeOK
  /\ \A m \in Maintainers :
       /\ Complete(m)
       /\ boot[m].stage \in {"looking", "creating"} => boot[m].at <= Len(PartitionOrder)
       /\ boot[m].stage = "up" => boot[m].at = Len(PartitionOrder) + 1

(* Types.  A call is at a stage of its kind, and has its row from there on. *)
CallRecord ==
  [at : Stages, action : Actions \cup {NoAction}, row : Nat, reached : BOOLEAN]

MailCall(c, m) ==
  /\ c.action \in Actions /\ c.action.kind = "email" /\ c.reached = FALSE
  /\ \/ c.at \in {"log", "threw"} /\ c.row = 0
     \/ c.at \in {"mail", "sent", "failed", "returned", "threw"} /\ c.row \in 1..m

NoticeCall(c, n) ==
  /\ c.action \in Actions /\ c.action.kind = "notification" /\ c.reached = FALSE
  /\ \/ c.at \in {"notice", "threw"} /\ c.row = 0
     \/ c.at \in {"tell", "trigger", "returned", "threw"} /\ c.row \in 1..n

HookCall(c) ==
  /\ c.action \in Actions /\ c.action.kind = "webhook" /\ c.row = 0
  /\ \/ c.at \in {"fetch", "threw"} /\ c.reached = FALSE
     \/ c.at \in {"returned", "threw"} /\ c.reached = TRUE

InStage(c, m, n) == c = NoCall \/ MailCall(c, m) \/ NoticeCall(c, n) \/ HookCall(c)

\* Each call inserts one row at most: those that have not done it yet.
Inserting == {r \in Runs : call[r].at \in {"log", "notice"}}

RowsCounted ==
  IsFiniteSet(Inserting) /\ Len(emails) + Len(notices) + Cardinality(Inserting) <= calls

TypeInv ==
  /\ faults \subseteq AllFaults
  /\ BootInv
  /\ call \in [Runs -> CallRecord]
  /\ emails \in Seq(EmailLog) /\ notices \in Seq(NotificationLog)
  /\ completed \subseteq Actions /\ calls \in 0..MaxCalls
  /\ found \in [Readers -> {0} \cup DOMAIN notices]
  /\ \A r \in Runs : InStage(call[r], Len(emails), Len(notices))
  /\ RowsCounted

(* Rows.  No two calls share one, and a row belongs to its call's action.  *)
OfMail(r) == call[r].row # 0 /\ call[r].action.kind = "email"
OfNotice(r) == call[r].row # 0 /\ call[r].action.kind = "notification"

OwnRows ==
  /\ \A r, s \in Runs : r # s /\ OfMail(r) /\ OfMail(s) => call[r].row # call[s].row
  /\ \A r, s \in Runs : r # s /\ OfNotice(r) /\ OfNotice(s) => call[r].row # call[s].row
  /\ \A r \in Runs : OfNotice(r) => notices[call[r].row].action = call[r].action

RowInv == TypeInv /\ OwnRows

(* E-mail logs.  What a row says at each stage of the call it belongs to.  *)
MailStage(r) ==
  /\ call[r].at = "mail" =>
       emails[Row(r)].status = "PENDING" /\ emails[Row(r)].accepted = FALSE
  /\ call[r].at = "sent" =>
       emails[Row(r)].status = "PENDING" /\ emails[Row(r)].accepted = TRUE
  /\ call[r].at = "failed" /\ Without({"late", "db", "ack"}) =>
       emails[Row(r)].accepted = FALSE
  /\ call[r].at = "returned" /\ OfMail(r) => emails[Row(r)].accepted = TRUE

MailStages == \A r \in Runs : MailStage(r)

MailInv == RowInv /\ MailStages /\ StatusHonest /\ PendingIsInProgress

(* Notification logs, likewise.                                            *)
NoticeStage(r) ==
  /\ call[r].at = "tell" =>
       /\ call[r].action.user = TRUE
       /\ notices[Row(r)].told = FALSE /\ notices[Row(r)].triggered = FALSE
  /\ call[r].at = "trigger" =>
       /\ HasChannel(call[r].action)
       /\ notices[Row(r)].told = call[r].action.user /\ notices[Row(r)].triggered = FALSE
  /\ call[r].at = "returned" /\ OfNotice(r) =>
       /\ notices[Row(r)].told = call[r].action.user
       /\ notices[Row(r)].triggered = HasChannel(call[r].action)

NoticeStages == \A r \in Runs : NoticeStage(r)

NoticeInv == RowInv /\ NoticeStages

(* No repetition.  A key is one run's, and nobody's once it is COMPLETED;  *)
(* a notification that reached the last of those it is for is closed.      *)
OneRunPerAction ==
  /\ \A r, s \in Runs : r # s /\ call[r].action # NoAction => call[r].action # call[s].action
  /\ \A r \in Runs : call[r].action \notin completed

Closed(a) == a \in completed \/ \E r \in Runs : call[r].at = "returned" /\ call[r].action = a

Delivered(n) ==
  notices[n].triggered \/ (notices[n].told /\ ~HasChannel(notices[n].action))

DeliveredIsClosed == \A n \in DOMAIN notices : Delivered(n) => Closed(notices[n].action)

RepeatInv ==
  /\ NoticeInv /\ OneRunPerAction
  /\ Without({"late", "crash", "db", "ack"}) => DeliveredIsClosed
  /\ NoNeedlessRepeat

-----------------------------------------------------------------------------
(* Partitions.                                                             *)
LEMMA OrderTyped ==
  /\ Len(PartitionOrder) \in Nat
  /\ DOMAIN PartitionOrder = 1..Len(PartitionOrder)
  /\ Range(PartitionOrder) = {PartitionOrder[j] : j \in 1..Len(PartitionOrder)}
  BY PartitionAssumption DEF Range

\* To the next partition, with those behind it complete.
LEMMA GoneOn ==
  ASSUME BootInv, NEW m \in Maintainers, NEW k \in 1..(Len(PartitionOrder) + 1), GoOn(m, k),
         partitions \subseteq partitions', partitions' \subseteq Range(PartitionOrder),
         \A j \in 1..(k - 1) : PartitionOrder[j] \in partitions'
  PROVE  BootInv'
<1> DEFINE next == AtLoop(IF k <= Len(PartitionOrder) THEN "looking" ELSE "up", k)
<1>1. boot' = [boot EXCEPT ![m] = next]
  BY DEF GoOn
<1>2. /\ next \in [stage : {"down", "looking", "creating", "up"},
                   at : 1..(Len(PartitionOrder) + 1)]
      /\ next.at = k
      /\ next.stage \in {"looking", "creating"} => k <= Len(PartitionOrder)
      /\ next.stage = "up" => k = Len(PartitionOrder) + 1
  BY OrderTyped DEF AtLoop
<1> HIDE DEF next
<1>3. BootTypeOK'
  BY <1>1, <1>2 DEF BootInv, BootTypeOK
<1>4. boot'[m] = next /\ \A s \in Maintainers \ {m} : boot'[s] = boot[s]
  BY <1>1 DEF BootInv, BootTypeOK
<1>5. ASSUME NEW s \in Maintainers
      PROVE  /\ Complete(s)'
             /\ boot'[s].stage \in {"looking", "creating"} =>
                  boot'[s].at <= Len(PartitionOrder)
             /\ boot'[s].stage = "up" => boot'[s].at = Len(PartitionOrder) + 1
  <2>1. CASE s = m
    BY <1>2, <1>4, <2>1 DEF Complete
  <2>2. CASE s # m
    BY <1>4, <2>2 DEF Complete, BootInv
  <2> QED
    BY <2>1, <2>2
<1> QED
  BY <1>3, <1>5 DEF BootInv

\* Down, or about to create what it did not find.
LEMMA StageLeft ==
  ASSUME BootInv, NEW m \in Maintainers,
         \/ boot' = [boot EXCEPT ![m] = Down]
         \/ boot[m].stage = "looking" /\ boot' = [boot EXCEPT ![m].stage = "creating"],
         partitions' = partitions
  PROVE  BootInv'
<1> DEFINE Where == [stage : {"down", "looking", "creating", "up"},
                     at : 1..(Len(PartitionOrder) + 1)]
<1>1. PICK next \in Where :
        /\ boot' = [boot EXCEPT ![m] = next]
        /\ \/ next.stage = "down" /\ next.at = 1
           \/ boot[m].stage = "looking" /\ next.stage = "creating" /\ next.at = boot[m].at
  <2>1. CASE boot' = [boot EXCEPT ![m] = Down]
    <3>1. Down \in Where /\ Down.stage = "down" /\ Down.at = 1
      BY OrderTyped DEF Down, AtLoop
    <3> QED
      BY <2>1, <3>1
  <2>2. CASE boot[m].stage = "looking" /\ boot' = [boot EXCEPT ![m].stage = "creating"]
    <3> DEFINE next == [boot[m] EXCEPT !.stage = "creating"]
    <3>1. boot[m] \in Where
      BY DEF BootInv, BootTypeOK
    <3>2. next \in Where /\ next.stage = "creating" /\ next.at = boot[m].at
      BY <3>1
    <3>3. boot' = [boot EXCEPT ![m] = next]
      BY <2>2
    <3> HIDE DEF next
    <3> QED
      BY <2>2, <3>2, <3>3
  <2> QED
    BY <2>1, <2>2
<1>2. BootTypeOK'
  BY <1>1 DEF BootInv, BootTypeOK
<1>3. boot'[m] = next /\ \A s \in Maintainers \ {m} : boot'[s] = boot[s]
  BY <1>1 DEF BootInv, BootTypeOK
<1> QED
  BY <1>1, <1>2, <1>3, OrderTyped DEF BootInv, Complete

LEMMA BootStepInv == BootInv /\ [BootNext]_<<faults, bootVars>> => BootInv'
<1> SUFFICES ASSUME BootInv, [BootNext]_<<faults, bootVars>> PROVE BootInv'
  OBVIOUS
<1>0. \A m \in Maintainers : boot[m].at \in 1..(Len(PartitionOrder) + 1)
  BY DEF BootInv, BootTypeOK
<1>1. ASSUME NEW m \in Maintainers, Launch(m)
      PROVE  BootInv'
  BY <1>1, GoneOn, OrderTyped DEF Launch, BootInv, BootTypeOK
<1>2. ASSUME NEW m \in Maintainers, Look(m)
      PROVE  BootInv'
  <2>1. CASE PartitionOrder[boot[m].at] \in partitions
    <3>1. boot[m].at \in 1..Len(PartitionOrder)
      BY <1>0, <1>2, OrderTyped DEF Look, BootInv
    <3>2. /\ partitions' = partitions /\ partitions \subseteq Range(PartitionOrder)
          /\ GoOn(m, boot[m].at + 1)
      BY <1>2, <2>1 DEF Look, BootInv, BootTypeOK
    <3>3. \A j \in 1..((boot[m].at + 1) - 1) : PartitionOrder[j] \in partitions
      BY <2>1, <3>1, OrderTyped DEF BootInv, Complete
    <3> QED
      BY SMTT(30), <3>1, <3>2, <3>3, GoneOn, OrderTyped
  <2>2. CASE PartitionOrder[boot[m].at] \notin partitions
    BY <1>2, <2>2, StageLeft DEF Look
  <2> QED
    BY <2>1, <2>2
<1>3. ASSUME NEW m \in Maintainers, CreatePartition(m)
      PROVE  BootInv'
  <2>1. boot[m].at \in 1..Len(PartitionOrder)
    BY <1>0, <1>3, OrderTyped DEF CreatePartition, BootInv
  <2>2. CASE PartitionOrder[boot[m].at] \in partitions
    BY <1>3, <2>2, StageLeft DEF CreatePartition
  <2>3. CASE PartitionOrder[boot[m].at] \notin partitions
    <3>1. /\ partitions' = partitions \cup {PartitionOrder[boot[m].at]}
          /\ partitions \subseteq Range(PartitionOrder)
          /\ GoOn(m, boot[m].at + 1)
      BY <1>3, <2>3 DEF CreatePartition, BootInv, BootTypeOK
    <3>2. \A j \in 1..((boot[m].at + 1) - 1) : PartitionOrder[j] \in partitions'
      BY <2>1, <3>1, OrderTyped DEF BootInv, Complete
    <3> QED
      BY SMTT(30), <2>1, <3>1, <3>2, GoneOn, OrderTyped
  <2> QED
    BY <2>2, <2>3
<1>4. ASSUME NEW m \in Maintainers, BootFails(m)
      PROVE  BootInv'
  BY <1>4, StageLeft DEF BootFails
<1>5. CASE UNCHANGED <<faults, bootVars>>
  BY <1>5 DEF bootVars, BootInv, BootTypeOK, Complete
<1> QED
  BY <1>1, <1>2, <1>3, <1>4, <1>5 DEF BootNext, BootStep

LEMMA BootInit_Inv == BootInit => BootInv
<1> SUFFICES ASSUME BootInit PROVE BootInv
  OBVIOUS
<1>1. \A m \in Maintainers : boot[m] = Down
  BY DEF BootInit
<1>2. partitions \subseteq Range(PartitionOrder)
  <2>1. PICK n \in 0..Len(PartitionOrder) : partitions = Range(SubSeq(PartitionOrder, 1, n))
    BY DEF BootInit
  <2>2. \A i \in 1..n : PartitionOrder[i] \in Range(PartitionOrder)
    BY OrderTyped
  <2>3. SubSeq(PartitionOrder, 1, n) \in Seq(Range(PartitionOrder))
    BY <2>2, SubSeqProperties, OrderTyped
  <2> QED
    BY <2>1, <2>3 DEF Range
<1> QED
  BY <1>1, <1>2, OrderTyped DEF BootInit, BootInv, BootTypeOK, Complete, Down, AtLoop

\* A process that is up is past every partition.
LEMMA BootInvComplete == BootInv => UpMeansComplete
<1> SUFFICES ASSUME BootInv, NEW m \in Maintainers, boot[m].stage = "up"
             PROVE  partitions = Range(PartitionOrder)
  BY DEF UpMeansComplete
<1>1. \A j \in 1..Len(PartitionOrder) : PartitionOrder[j] \in partitions
  BY OrderTyped DEF BootInv, Complete
<1> QED
  BY <1>1, OrderTyped DEF BootInv, BootTypeOK

(* A maintenance process that is up found or created every partition, in   *)
(* whatever order any number of them start, race, fail and start again     *)
(* (PartitionService.onApplicationBootstrap).                              *)
THEOREM PartitionsComplete == Spec => []UpMeansComplete
<1>1. Init => BootInv
  BY BootInit_Inv DEF Init
<1>2. BootInv /\ [Next]_vars => BootInv'
  <2>1. [Next]_vars => [BootNext]_<<faults, bootVars>>
    BY DEF Next, vars, bootVars, callVars, ElseUnchanged, Call, CreateEmailLog, SendMail,
       MarkSent, MarkFailed, CreateNotice, TellUser, Trigger, Fetch, Leave, Crash,
       MarkAsRead, FindUnread, MarkAllAsRead
  <2> QED
    BY <2>1, BootStepInv
<1> QED
  BY <1>1, <1>2, BootInvComplete, PTL DEF Spec

-----------------------------------------------------------------------------
(* Types.                                                                  *)
LEMMA CallFields ==
  ASSUME NEW c \in CallRecord, NEW stage \in Stages, NEW n \in Nat
  PROVE  /\ [c EXCEPT !.at = stage] \in CallRecord
         /\ [c EXCEPT !.at = stage].at = stage
         /\ [c EXCEPT !.at = stage].action = c.action
         /\ [c EXCEPT !.at = stage].row = c.row
         /\ [c EXCEPT !.at = stage].reached = c.reached
         /\ [c EXCEPT !.at = stage, !.row = n] \in CallRecord
         /\ [c EXCEPT !.at = stage, !.row = n].at = stage
         /\ [c EXCEPT !.at = stage, !.row = n].action = c.action
         /\ [c EXCEPT !.at = stage, !.row = n].row = n
         /\ [c EXCEPT !.at = stage, !.row = n].reached = c.reached
         /\ [c EXCEPT !.at = stage, !.reached = TRUE] \in CallRecord
         /\ [c EXCEPT !.at = stage, !.reached = TRUE].at = stage
         /\ [c EXCEPT !.at = stage, !.reached = TRUE].action = c.action
         /\ [c EXCEPT !.at = stage, !.reached = TRUE].row = c.row
         /\ [c EXCEPT !.at = stage, !.reached = TRUE].reached = TRUE
  BY DEF CallRecord

LEMMA NoCallFields ==
  /\ NoCall \in CallRecord
  /\ NoCall.at = "idle" /\ NoCall.action = NoAction /\ NoCall.row = 0
  /\ NoCall.reached = FALSE
  BY DEF NoCall, CallRecord, Stages

LEMMA OneCallMoves ==
  ASSUME call \in [Runs -> CallRecord], NEW r \in Runs, NEW c \in CallRecord,
         call' = [call EXCEPT ![r] = c]
  PROVE  /\ call' \in [Runs -> CallRecord]
         /\ call'[r] = c
         /\ \A s \in Runs \ {r} : call'[s] = call[s]
  OBVIOUS

LEMMA InStageGrows ==
  ASSUME NEW c, NEW m \in Nat, NEW n \in Nat, NEW m2 \in Nat, NEW n2 \in Nat,
         m <= m2, n <= n2, InStage(c, m, n)
  PROVE  InStage(c, m2, n2)
<1>1. 1..m \subseteq 1..m2 /\ 1..n \subseteq 1..n2
  OBVIOUS
<1> QED
  BY <1>1 DEF InStage, MailCall, NoticeCall

\* Which call a run at a stage is making.
LEMMA WhichCall ==
  ASSUME TypeInv, NEW r \in Runs
  PROVE  /\ call[r] \in CallRecord
         /\ call[r].at = "idle" => call[r] = NoCall
         /\ call[r].at \in {"log", "mail", "sent", "failed"} => MailCall(call[r], Len(emails))
         /\ call[r].at \in {"notice", "tell", "trigger"} => NoticeCall(call[r], Len(notices))
         /\ call[r].at = "fetch" => HookCall(call[r])
<1>1. call[r] \in CallRecord /\ InStage(call[r], Len(emails), Len(notices))
  BY DEF TypeInv
<1> QED
  BY <1>1, NoCallFields DEF InStage, MailCall, NoticeCall, HookCall

LEMMA RowsTyped ==
  ASSUME TypeInv
  PROVE  /\ Len(emails) \in Nat /\ DOMAIN emails = 1..Len(emails)
         /\ \A n \in 1..Len(emails) : emails[n] \in EmailLog
         /\ Len(notices) \in Nat /\ DOMAIN notices = 1..Len(notices)
         /\ \A n \in 1..Len(notices) : notices[n] \in NotificationLog
  BY DEF TypeInv

LEMMA Fewer ==
  ASSUME NEW S, IsFiniteSet(S), NEW T, T \subseteq S
  PROVE  /\ IsFiniteSet(T) /\ Cardinality(T) \in Nat /\ Cardinality(S) \in Nat
         /\ Cardinality(T) <= Cardinality(S)
  BY FS_Subset, FS_CardinalityType

\* A step of one run: it moves its call on, adds a row at most, and counts.
LEMMA RunMoves ==
  ASSUME TypeInv, NEW r \in Runs, NEW c \in CallRecord, call' = [call EXCEPT ![r] = c],
         emails' \in Seq(EmailLog), notices' \in Seq(NotificationLog),
         Len(emails) <= Len(emails'), Len(notices) <= Len(notices'),
         InStage(c, Len(emails'), Len(notices')),
         completed' \subseteq Actions, calls' \in 0..MaxCalls, ElseUnchanged,
         \/ /\ Len(emails') + Len(notices') = Len(emails) + Len(notices)
            /\ calls' = calls /\ c.at \notin {"log", "notice"}
         \/ /\ Len(emails') + Len(notices') = Len(emails) + Len(notices)
            /\ calls' = calls + 1
         \/ /\ Len(emails') + Len(notices') = Len(emails) + Len(notices) + 1
            /\ calls' = calls /\ call[r].at \in {"log", "notice"}
            /\ c.at \notin {"log", "notice"}
  PROVE  TypeInv'
<1>1. /\ call' \in [Runs -> CallRecord]
      /\ call'[r] = c
      /\ \A s \in Runs \ {r} : call'[s] = call[s]
  BY OneCallMoves DEF TypeInv
<1>2. /\ Len(emails) \in Nat /\ Len(emails') \in Nat
      /\ Len(notices) \in Nat /\ Len(notices') \in Nat /\ calls \in Nat
  BY ActionsAssumption DEF TypeInv
<1>3. \A s \in Runs : InStage(call'[s], Len(emails'), Len(notices'))
  BY <1>1, <1>2, InStageGrows DEF TypeInv
<1>4. RowsCounted'
  <2>1. IsFiniteSet(Inserting) /\ Cardinality(Inserting) \in Nat
    BY FS_CardinalityType DEF TypeInv, RowsCounted
  <2>2. Inserting' = {s \in Runs : call'[s].at \in {"log", "notice"}}
    BY DEF Inserting
  <2> HIDE DEF Inserting
  <2>3. CASE c.at \notin {"log", "notice"} /\ r \notin Inserting
    <3>1. Inserting' \subseteq Inserting
      BY <1>1, <2>2, <2>3 DEF Inserting
    <3>2. /\ Len(emails') + Len(notices') = Len(emails) + Len(notices)
          /\ calls' \in {calls, calls + 1}
      BY <2>3 DEF Inserting
    <3>3. IsFiniteSet(Inserting') /\ Cardinality(Inserting') \in Nat
          /\ Cardinality(Inserting') <= Cardinality(Inserting)
      BY <2>1, <3>1, Fewer
    <3> QED
      BY <1>2, <2>1, <3>2, <3>3 DEF TypeInv, RowsCounted
  <2>4. CASE c.at \notin {"log", "notice"} /\ r \in Inserting
    <3>1. Inserting' \subseteq Inserting \ {r}
      BY <1>1, <2>2, <2>4 DEF Inserting
    <3>2. /\ IsFiniteSet(Inserting \ {r})
          /\ Cardinality(Inserting \ {r}) = Cardinality(Inserting) - 1
      BY <2>1, <2>4, FS_RemoveElement
    <3>3. IsFiniteSet(Inserting') /\ Cardinality(Inserting') \in Nat
          /\ Cardinality(Inserting') <= Cardinality(Inserting \ {r})
      BY <3>1, <3>2, Fewer
    <3>4. /\ Len(emails') + Len(notices') <= Len(emails) + Len(notices) + 1
          /\ calls' \in {calls, calls + 1}
      BY <1>2
    <3> QED
      BY <1>2, <2>1, <3>2, <3>3, <3>4 DEF TypeInv, RowsCounted
  <2>5. CASE c.at \in {"log", "notice"}
    <3>1. Inserting' \subseteq Inserting \cup {r}
      BY <1>1, <2>2 DEF Inserting
    <3>2. /\ IsFiniteSet(Inserting \cup {r}) /\ Cardinality(Inserting \cup {r}) \in Nat
          /\ Cardinality(Inserting \cup {r}) <= Cardinality(Inserting) + 1
      <4>1. /\ IsFiniteSet(Inserting \cup {r})
            /\ Cardinality(Inserting \cup {r}) = IF r \in Inserting
                                                  THEN Cardinality(Inserting)
                                                  ELSE Cardinality(Inserting) + 1
        BY <2>1, FS_AddElement
      <4> QED
        BY <2>1, <4>1
    <3>3. IsFiniteSet(Inserting') /\ Cardinality(Inserting') \in Nat
          /\ Cardinality(Inserting') <= Cardinality(Inserting \cup {r})
      BY <3>1, <3>2, Fewer
    <3>4. /\ Len(emails') + Len(notices') = Len(emails) + Len(notices)
          /\ calls' = calls + 1
      BY <2>5
    <3> QED
      BY SMTT(30), <1>2, <2>1, <3>2, <3>3, <3>4 DEF TypeInv, RowsCounted
  <2> QED
    BY <2>3, <2>4, <2>5
<1>5. BootInv' /\ faults' \subseteq AllFaults
  BY DEF ElseUnchanged, TypeInv, BootInv, BootTypeOK, Complete
<1>6. found' \in [Readers -> {0} \cup DOMAIN notices']
  <2>1. DOMAIN notices = 1..Len(notices) /\ DOMAIN notices' = 1..Len(notices')
    BY DEF TypeInv
  <2>2. {0} \cup DOMAIN notices \subseteq {0} \cup DOMAIN notices'
    BY <1>2, <2>1
  <2>3. found' = found /\ found \in [Readers -> {0} \cup DOMAIN notices]
    BY DEF ElseUnchanged, TypeInv
  <2> QED
    BY <2>2, <2>3
<1> QED
  BY <1>1, <1>3, <1>4, <1>5, <1>6 DEF TypeInv

LEMMA TypeInit == Init => TypeInv
<1> SUFFICES ASSUME Init PROVE TypeInv
  OBVIOUS
<1>1. /\ \A r \in Runs : call[r] = NoCall
      /\ call \in [Runs -> CallRecord]
  BY NoCallFields DEF Init
<1>2. Inserting = {}
  BY <1>1, NoCallFields DEF Inserting
<1>3. RowsCounted
  BY <1>2, FS_EmptySet DEF RowsCounted, Init
<1>4. BootInv
  BY BootInit_Inv DEF Init
<1>5. emails = <<>> /\ notices = <<>> /\ calls = 0 /\ completed = {}
  BY DEF Init
<1> QED
  BY <1>1, <1>3, <1>4, <1>5, ActionsAssumption DEF Init, TypeInv, InStage

-----------------------------------------------------------------------------
(* What the step of a run does, field by field; every proof below works    *)
(* with these.                                                             *)
OthersStay(r) == \A s \in Runs \ {r} : call'[s] = call[s]

CallStays(r) ==
  /\ call'[r].action = call[r].action /\ call'[r].row = call[r].row
  /\ call'[r].reached = call[r].reached

OnlyEmail(r) ==
  /\ notices' = notices
  /\ DOMAIN emails' = DOMAIN emails
  /\ \A n \in DOMAIN emails \ {Row(r)} : emails'[n] = emails[n]

OnlyNotice(r) ==
  /\ emails' = emails
  /\ DOMAIN notices' = DOMAIN notices
  /\ \A n \in DOMAIN notices \ {Row(r)} : notices'[n] = notices[n]
  /\ notices'[Row(r)].action = notices[Row(r)].action

LEMMA EmailFields ==
  ASSUME NEW e \in EmailLog, NEW status \in {"SENT", "FAILED"}
  PROVE  /\ [e EXCEPT !.accepted = TRUE] \in EmailLog
         /\ [e EXCEPT !.accepted = TRUE].accepted = TRUE
         /\ [e EXCEPT !.accepted = TRUE].status = e.status
         /\ [e EXCEPT !.status = status] \in EmailLog
         /\ [e EXCEPT !.status = status].status = status
         /\ [e EXCEPT !.status = status].accepted = e.accepted
  BY DEF EmailLog

LEMMA NoticeFields ==
  ASSUME NEW e \in NotificationLog
  PROVE  /\ [e EXCEPT !.told = TRUE] \in NotificationLog
         /\ [e EXCEPT !.told = TRUE].action = e.action
         /\ [e EXCEPT !.told = TRUE].told = TRUE
         /\ [e EXCEPT !.told = TRUE].triggered = e.triggered
         /\ [e EXCEPT !.told = TRUE].marks = e.marks
         /\ [e EXCEPT !.triggered = TRUE] \in NotificationLog
         /\ [e EXCEPT !.triggered = TRUE].action = e.action
         /\ [e EXCEPT !.triggered = TRUE].told = e.told
         /\ [e EXCEPT !.triggered = TRUE].triggered = TRUE
         /\ [e EXCEPT !.triggered = TRUE].marks = e.marks
  BY DEF NotificationLog

LEMMA RowWritten ==
  ASSUME NEW S, NEW rows \in Seq(S), NEW n \in 1..Len(rows), NEW e \in S,
         NEW written, written = [rows EXCEPT ![n] = e]
  PROVE  /\ written \in Seq(S) /\ Len(written) = Len(rows)
         /\ DOMAIN written = DOMAIN rows /\ DOMAIN rows = 1..Len(rows)
         /\ written[n] = e
         /\ \A k \in DOMAIN rows \ {n} : written[k] = rows[k]
<1>1. DOMAIN rows = 1..Len(rows)
  OBVIOUS
<1>2. /\ written \in Seq(S) /\ Len(written) = Len(rows)
      /\ \A j \in 1..Len(rows) : written[j] = IF j = n THEN e ELSE rows[j]
  BY ExceptSeq
<1>3. DOMAIN written = 1..Len(written)
  BY <1>2
<1> QED
  BY <1>1, <1>2, <1>3

LEMMA RowAdded ==
  ASSUME NEW S, NEW rows \in Seq(S), NEW e \in S, NEW added, added = Append(rows, e)
  PROVE  /\ added \in Seq(S) /\ Len(added) = Len(rows) + 1 /\ Len(rows) \in Nat
         /\ DOMAIN added = DOMAIN rows \cup {Len(added)}
         /\ Len(added) \notin DOMAIN rows /\ Len(added) # 0
         /\ added[Len(added)] = e
         /\ \A k \in DOMAIN rows : added[k] = rows[k]
  OBVIOUS

LEMMA Kinds ==
  ASSUME NEW a \in Actions
  PROVE  /\ a.kind \in {"email", "notification", "webhook"}
         /\ a.user \in BOOLEAN /\ HasChannel(a) \in BOOLEAN /\ a # NoAction
  BY ActionsAssumption DEF Action, HasChannel

LEMMA CallStep ==
  ASSUME TypeInv, NEW r \in Runs, NEW a \in Actions, Call(r, a)
  PROVE  /\ TypeInv' /\ OthersStay(r)
         /\ call[r] = NoCall
         /\ call'[r].action = a /\ call'[r].row = 0 /\ call'[r].reached = FALSE
         /\ call'[r].at \in {"log", "notice", "fetch"}
         /\ UNCHANGED <<emails, notices, completed>>
<1> DEFINE stage == CASE a.kind = "email" -> "log"
                      [] a.kind = "notification" -> "notice"
                      [] a.kind = "webhook" -> "fetch"
           c == [NoCall EXCEPT !.action = a, !.at = stage]
<1>1. /\ stage \in {"log", "notice", "fetch"}
      /\ stage = "log" => a.kind = "email"
      /\ stage = "notice" => a.kind = "notification"
      /\ stage = "fetch" => a.kind = "webhook"
  BY Kinds
<1>2. call' = [call EXCEPT ![r] = c]
  BY DEF Call
<1> HIDE DEF stage
<1>3. /\ c \in CallRecord /\ c.action = a /\ c.row = 0 /\ c.reached = FALSE
      /\ c.at = stage
  BY <1>1 DEF NoCall, CallRecord, Stages
<1> HIDE DEF c
<1>4. InStage(c, Len(emails), Len(notices))
  BY <1>1, <1>3 DEF InStage, MailCall, NoticeCall, HookCall
<1>5. /\ emails' = emails /\ notices' = notices /\ completed' = completed
      /\ calls' = calls + 1 /\ calls < MaxCalls /\ ElseUnchanged /\ call[r].at = "idle"
  BY DEF Call, At
<1>6. calls' \in 0..MaxCalls /\ Len(emails) \in Nat /\ Len(notices) \in Nat
  BY <1>5, ActionsAssumption DEF TypeInv
<1>7. TypeInv'
  <2>1. /\ emails' \in Seq(EmailLog) /\ notices' \in Seq(NotificationLog)
        /\ completed' \subseteq Actions
    BY <1>5 DEF TypeInv
  <2>2. /\ Len(emails) <= Len(emails') /\ Len(notices) <= Len(notices')
        /\ Len(emails') + Len(notices') = Len(emails) + Len(notices)
        /\ InStage(c, Len(emails'), Len(notices'))
    BY <1>4, <1>5, <1>6
  <2> QED
    BY <1>2, <1>3, <1>5, <1>6, <2>1, <2>2, RunMoves
<1>8. call'[r] = c /\ OthersStay(r)
  BY <1>2, <1>3, OneCallMoves DEF TypeInv, OthersStay
<1> QED
  BY <1>1, <1>3, <1>5, <1>7, <1>8, WhichCall

LEMMA LeaveStep ==
  ASSUME TypeInv, NEW r \in Runs, Leave(r) \/ Crash(r)
  PROVE  /\ TypeInv' /\ OthersStay(r)
         /\ call[r] # NoCall /\ call'[r] = NoCall
         /\ UNCHANGED <<emails, notices>>
<1>1. /\ call' = [call EXCEPT ![r] = NoCall] /\ call[r].at # "idle"
      /\ emails' = emails /\ notices' = notices /\ calls' = calls /\ ElseUnchanged
      /\ completed' = completed \/ completed' = completed \cup {call[r].action}
  BY DEF Leave, Crash, At
<1>2. InStage(call[r], Len(emails), Len(notices)) /\ call[r] # NoCall
  BY <1>1, NoCallFields DEF TypeInv
<1>3. completed' \subseteq Actions
  BY <1>1, <1>2 DEF TypeInv, InStage, MailCall, NoticeCall, HookCall
<1>4. TypeInv'
  <2>1. /\ emails' \in Seq(EmailLog) /\ notices' \in Seq(NotificationLog)
        /\ calls' \in 0..MaxCalls /\ Len(emails) \in Nat /\ Len(notices) \in Nat
    BY <1>1 DEF TypeInv
  <2>2. InStage(NoCall, Len(emails'), Len(notices')) /\ NoCall.at \notin {"log", "notice"}
    BY NoCallFields DEF InStage
  <2>3. /\ Len(emails) <= Len(emails') /\ Len(notices) <= Len(notices')
        /\ Len(emails') + Len(notices') = Len(emails) + Len(notices)
    BY <1>1, <2>1
  <2> QED
    BY <1>1, <1>3, <2>1, <2>2, <2>3, NoCallFields, RunMoves
<1>5. call'[r] = NoCall /\ OthersStay(r)
  BY <1>1, OneCallMoves, NoCallFields DEF TypeInv, OthersStay
<1> QED
  BY <1>1, <1>2, <1>4, <1>5

\* A run goes on to another stage, with its row or without one.
LEMMA Goes ==
  ASSUME TypeInv, NEW r \in Runs, NEW stage \in Stages \ {"log", "notice"}, GoTo(r, stage),
         emails' \in Seq(EmailLog), notices' \in Seq(NotificationLog),
         Len(emails) <= Len(emails'), Len(notices) <= Len(notices'),
         \/ Len(emails') + Len(notices') = Len(emails) + Len(notices)
         \/ /\ Len(emails') + Len(notices') = Len(emails) + Len(notices) + 1
            /\ call[r].at \in {"log", "notice"},
         \A c \in CallRecord :
           /\ c.at = stage /\ c.action = call[r].action /\ c.row = call[r].row
           /\ c.reached = call[r].reached
           => InStage(c, Len(emails'), Len(notices')),
         UNCHANGED <<completed, calls>>, ElseUnchanged
  PROVE  TypeInv' /\ OthersStay(r) /\ CallStays(r) /\ call'[r].at = stage
<1> DEFINE c == [call[r] EXCEPT !.at = stage]
<1>1. call' = [call EXCEPT ![r] = c]
  BY DEF GoTo
<1>2. /\ c \in CallRecord /\ c.at = stage
      /\ c.action = call[r].action /\ c.row = call[r].row /\ c.reached = call[r].reached
  BY ZenonT(40), WhichCall, CallFields
<1> HIDE DEF c
<1>3. call'[r] = c /\ OthersStay(r)
  BY <1>1, <1>2, OneCallMoves DEF TypeInv, OthersStay
<1>4. TypeInv'
  <2>1. completed' \subseteq Actions /\ calls' \in 0..MaxCalls /\ calls' = calls
    BY DEF TypeInv
  <2>2. c.at \notin {"log", "notice"} /\ InStage(c, Len(emails'), Len(notices'))
    BY <1>2
  <2> QED
    BY <1>1, <1>2, <2>1, <2>2, RunMoves
<1> QED
  BY <1>2, <1>3, <1>4 DEF CallStays

\* ... or with the row it has just inserted.
LEMMA Enters ==
  ASSUME TypeInv, NEW r \in Runs, NEW c \in CallRecord, call' = [call EXCEPT ![r] = c],
         c.at \notin {"log", "notice"},
         c.action = call[r].action, c.reached = call[r].reached,
         emails' \in Seq(EmailLog), notices' \in Seq(NotificationLog),
         Len(emails) <= Len(emails'), Len(notices) <= Len(notices'),
         Len(emails') + Len(notices') = Len(emails) + Len(notices) + 1,
         call[r].at \in {"log", "notice"},
         InStage(c, Len(emails'), Len(notices')),
         UNCHANGED <<completed, calls>>, ElseUnchanged
  PROVE  /\ TypeInv' /\ OthersStay(r)
         /\ call'[r].at = c.at /\ call'[r].action = call[r].action
         /\ call'[r].row = c.row /\ call'[r].reached = call[r].reached
<1>1. call'[r] = c /\ OthersStay(r)
  BY OneCallMoves DEF TypeInv, OthersStay
<1>2. TypeInv'
  <2>1. completed' \subseteq Actions /\ calls' \in 0..MaxCalls /\ calls' = calls
    BY DEF TypeInv
  <2> QED
    BY <2>1, RunMoves
<1> QED
  BY <1>1, <1>2

\* Rows added by a create.
Added(rows, rows2) ==
  /\ DOMAIN rows2 = DOMAIN rows \cup {Len(rows2)}
  /\ Len(rows2) \notin DOMAIN rows /\ Len(rows2) # 0
  /\ \A n \in DOMAIN rows : rows2[n] = rows[n]

LEMMA CreateEmailLogStep ==
  ASSUME TypeInv, NEW r \in Runs, CreateEmailLog(r)
  PROVE  /\ TypeInv' /\ OthersStay(r)
         /\ call[r].at = "log" /\ MailCall(call[r], Len(emails)) /\ call[r].row = 0
         /\ call'[r].action = call[r].action /\ call'[r].reached = FALSE
         /\ UNCHANGED <<notices, completed>>
         /\ \/ /\ Added(emails, emails')
               /\ emails'[Len(emails')].status = "PENDING"
               /\ emails'[Len(emails')].accepted = FALSE
               /\ \/ call'[r].at = "mail" /\ call'[r].row = Len(emails')
                  \/ Fails("ack") /\ call'[r].at = "threw" /\ call'[r].row = 0
            \/ emails' = emails /\ call'[r].at = "threw" /\ call'[r].row = 0
<1> DEFINE row == [action |-> call[r].action, status |-> "PENDING", accepted |-> FALSE]
           inserted == Append(emails, row)
<1>1. /\ call[r].at = "log" /\ MailCall(call[r], Len(emails)) /\ call[r].row = 0
      /\ call[r].reached = FALSE /\ call[r].action \in Actions
      /\ call[r].action.kind = "email"
  BY WhichCall DEF CreateEmailLog, At, MailCall
<1>2. row \in EmailLog /\ row.status = "PENDING" /\ row.accepted = FALSE
  BY <1>1 DEF EmailLog
<1>3. /\ notices' = notices /\ completed' = completed /\ calls' = calls /\ ElseUnchanged
      /\ notices' \in Seq(NotificationLog) /\ emails \in Seq(EmailLog)
      /\ Len(emails) \in Nat /\ Len(notices) \in Nat
  BY DEF CreateEmailLog, TypeInv
<1>4. ASSUME emails' = inserted
      PROVE  /\ emails' \in Seq(EmailLog) /\ Len(emails') = Len(emails) + 1
             /\ Added(emails, emails') /\ emails'[Len(emails')] = row
  <2> HIDE DEF row
  <2> QED
    BY <1>2, <1>3, <1>4, RowAdded DEF Added
<1> HIDE DEF row, inserted
<1>5. CASE emails' = inserted /\ call' = [call EXCEPT ![r].at = "mail", ![r].row = Len(inserted)]
  <2>0. emails' = inserted
    BY <1>5
  <2>1. /\ Len(emails') \in Nat /\ "mail" \in Stages \ {"log", "notice"}
        /\ Len(emails) <= Len(emails') /\ Len(notices) <= Len(notices')
        /\ Len(emails') + Len(notices') = Len(emails) + Len(notices) + 1
    BY <1>3, <1>4, <2>0 DEF Stages
  <2> DEFINE c == [call[r] EXCEPT !.at = "mail", !.row = Len(emails')]
  <2>2. /\ c \in CallRecord /\ c.at = "mail" /\ c.row = Len(emails')
        /\ c.action = call[r].action /\ c.reached = call[r].reached
    <3>1. call[r] \in CallRecord
      BY WhichCall
    <3> QED
      BY <2>1, <3>1 DEF CallRecord
  <2>3. call' = [call EXCEPT ![r] = c]
    BY <1>5, <2>0 DEF TypeInv
  <2> HIDE DEF c
  <2>4. InStage(c, Len(emails'), Len(notices'))
    <3>1. Len(emails') \in 1..Len(emails')
      BY <1>3, <1>4, <2>0
    <3> QED
      BY <1>1, <2>2, <3>1 DEF InStage, MailCall
  <2>5. /\ TypeInv' /\ OthersStay(r)
        /\ call'[r].at = c.at /\ call'[r].action = call[r].action
        /\ call'[r].row = c.row /\ call'[r].reached = call[r].reached
    BY <1>1, <1>3, <1>4, <2>0, <2>1, <2>2, <2>3, <2>4, Enters
  <2> QED
    BY <1>1, <1>2, <1>3, <1>4, <2>0, <2>2, <2>5
<1>6. ASSUME GoTo(r, "threw"),
             \/ emails' = inserted /\ Fails("ack")
             \/ emails' = emails
      PROVE  /\ TypeInv' /\ OthersStay(r) /\ CallStays(r) /\ call'[r].at = "threw"
  <2>1. /\ emails' \in Seq(EmailLog) /\ "threw" \in Stages \ {"log", "notice"}
        /\ Len(emails) <= Len(emails') /\ Len(notices) <= Len(notices')
        /\ \/ Len(emails') + Len(notices') = Len(emails) + Len(notices)
           \/ Len(emails') + Len(notices') = Len(emails) + Len(notices) + 1
    BY <1>3, <1>4, <1>6 DEF Stages
  <2>2. \A c \in CallRecord :
          /\ c.at = "threw" /\ c.action = call[r].action /\ c.row = call[r].row
          /\ c.reached = call[r].reached
          => InStage(c, Len(emails'), Len(notices'))
    BY <1>1 DEF InStage, MailCall
  <2> QED
    BY <1>1, <1>3, <1>6, <2>1, <2>2, Goes
<1>7. \/ emails' = inserted /\ call' = [call EXCEPT ![r].at = "mail", ![r].row = Len(inserted)]
      \/ GoTo(r, "threw") /\ emails' = inserted /\ Fails("ack")
      \/ GoTo(r, "threw") /\ emails' = emails
  BY DEF CreateEmailLog, inserted, row
<1> QED
  BY <1>1, <1>2, <1>3, <1>4, <1>5, <1>6, <1>7 DEF CallStays

\* What is written to the row of a call.
Accepts(r) == emails' = [emails EXCEPT ![Row(r)].accepted = TRUE]
MarksEmail(r, status) == emails' = [emails EXCEPT ![Row(r)].status = status]
Tells(r) == notices' = [notices EXCEPT ![Row(r)].told = TRUE]
Triggers(r) == notices' = [notices EXCEPT ![Row(r)].triggered = TRUE]

\* The three steps that write the row they have.
LEMMA EmailStep ==
  ASSUME TypeInv, NEW r \in Runs, NEW stage \in {"sent", "failed", "returned", "threw"},
         call[r].at \in {"mail", "sent", "failed"}, GoTo(r, stage),
         \/ emails' = emails
         \/ Accepts(r)
         \/ MarksEmail(r, "SENT")
         \/ MarksEmail(r, "FAILED"),
         UNCHANGED <<notices, completed, calls>>, ElseUnchanged
  PROVE  /\ TypeInv' /\ OthersStay(r) /\ CallStays(r) /\ call'[r].at = stage
         /\ MailCall(call[r], Len(emails)) /\ Row(r) \in DOMAIN emails /\ Row(r) # 0
         /\ OnlyEmail(r)
         /\ Accepts(r) =>
              /\ emails'[Row(r)].accepted = TRUE
              /\ emails'[Row(r)].status = emails[Row(r)].status
         /\ \A status \in {"SENT", "FAILED"} :
              MarksEmail(r, status) =>
                /\ emails'[Row(r)].status = status
                /\ emails'[Row(r)].accepted = emails[Row(r)].accepted
<1>1. /\ MailCall(call[r], Len(emails)) /\ Row(r) \in 1..Len(emails)
      /\ call[r].action \in Actions /\ call[r].action.kind = "email"
      /\ call[r].reached = FALSE
  BY WhichCall DEF MailCall, Row
<1>2. emails[Row(r)] \in EmailLog /\ emails \in Seq(EmailLog)
  BY <1>1, RowsTyped DEF TypeInv
<1>3. ASSUME NEW e \in EmailLog, emails' = [emails EXCEPT ![Row(r)] = e]
      PROVE  /\ emails' \in Seq(EmailLog) /\ Len(emails') = Len(emails)
             /\ OnlyEmail(r) /\ emails'[Row(r)] = e
  BY <1>1, <1>2, <1>3, RowWritten DEF OnlyEmail
<1>4. ASSUME Accepts(r)
      PROVE  /\ emails' \in Seq(EmailLog) /\ Len(emails') = Len(emails) /\ OnlyEmail(r)
             /\ emails'[Row(r)].accepted = TRUE
             /\ emails'[Row(r)].status = emails[Row(r)].status
  <2> DEFINE e == [emails[Row(r)] EXCEPT !.accepted = TRUE]
  <2>1. /\ e \in EmailLog /\ e.accepted = TRUE
        /\ e.status = emails[Row(r)].status
    BY <1>2, EmailFields
  <2>2. emails' = [emails EXCEPT ![Row(r)] = e]
    BY <1>4 DEF Accepts
  <2> HIDE DEF e
  <2> QED
    BY <1>3, <2>1, <2>2
<1>5. ASSUME NEW status \in {"SENT", "FAILED"},
             MarksEmail(r, status)
      PROVE  /\ emails' \in Seq(EmailLog) /\ Len(emails') = Len(emails) /\ OnlyEmail(r)
             /\ emails'[Row(r)].status = status
             /\ emails'[Row(r)].accepted = emails[Row(r)].accepted
  <2> DEFINE e == [emails[Row(r)] EXCEPT !.status = status]
  <2>1. /\ e \in EmailLog /\ e.status = status
        /\ e.accepted = emails[Row(r)].accepted
    BY <1>2, EmailFields
  <2>2. emails' = [emails EXCEPT ![Row(r)] = e]
    BY <1>5 DEF MarksEmail
  <2> HIDE DEF e
  <2> QED
    BY <1>3, <2>1, <2>2
<1>6. emails' \in Seq(EmailLog) /\ Len(emails') = Len(emails) /\ OnlyEmail(r)
  BY <1>2, <1>4, <1>5 DEF OnlyEmail
<1>7. TypeInv' /\ OthersStay(r) /\ CallStays(r) /\ call'[r].at = stage
  <2>1. /\ stage \in Stages \ {"log", "notice"} /\ notices' \in Seq(NotificationLog)
        /\ Len(emails) <= Len(emails') /\ Len(notices) <= Len(notices')
        /\ Len(emails') + Len(notices') = Len(emails) + Len(notices)
    BY <1>6, RowsTyped DEF Stages, TypeInv
  <2>2. \A c \in CallRecord :
          /\ c.at = stage /\ c.action = call[r].action /\ c.row = call[r].row
          /\ c.reached = call[r].reached
          => InStage(c, Len(emails'), Len(notices'))
    BY <1>1, <1>6 DEF InStage, MailCall, Row
  <2> QED
    BY <1>6, <2>1, <2>2, Goes
<1>8. Row(r) \in DOMAIN emails /\ Row(r) # 0
  BY <1>1, RowsTyped
<1> QED
  BY <1>1, <1>4, <1>5, <1>6, <1>7, <1>8, Zenon

LEMMA CreateNoticeStep ==
  ASSUME TypeInv, NEW r \in Runs, CreateNotice(r)
  PROVE  /\ TypeInv' /\ OthersStay(r)
         /\ call[r].at = "notice" /\ NoticeCall(call[r], Len(notices)) /\ call[r].row = 0
         /\ call'[r].action = call[r].action /\ call'[r].reached = FALSE
         /\ UNCHANGED <<emails, completed>>
         /\ \/ /\ Added(notices, notices')
               /\ notices'[Len(notices')].action = call[r].action
               /\ notices'[Len(notices')].told = FALSE
               /\ notices'[Len(notices')].triggered = FALSE
               /\ \/ /\ call'[r].row = Len(notices')
                     /\ call'[r].at = IF call[r].action.user THEN "tell"
                                      ELSE AfterTelling(call[r].action)
                  \/ call'[r].at = "threw" /\ call'[r].row = 0
            \/ notices' = notices /\ call'[r].at = "threw" /\ call'[r].row = 0
<1> DEFINE a == call[r].action
           row == [action |-> a, told |-> FALSE, triggered |-> FALSE, marks |-> 0]
           inserted == Append(notices, row)
           stage == IF a.user THEN "tell" ELSE AfterTelling(a)
<1>1. /\ call[r].at = "notice" /\ NoticeCall(call[r], Len(notices)) /\ call[r].row = 0
      /\ call[r].reached = FALSE /\ a \in Actions /\ a.kind = "notification"
  BY WhichCall DEF CreateNotice, At, NoticeCall
<1>2. /\ row \in NotificationLog /\ row.action = a /\ row.told = FALSE
      /\ row.triggered = FALSE
  BY <1>1 DEF NotificationLog
<1>3. /\ emails' = emails /\ completed' = completed /\ calls' = calls /\ ElseUnchanged
      /\ emails' \in Seq(EmailLog) /\ notices \in Seq(NotificationLog)
      /\ Len(emails) \in Nat /\ Len(notices) \in Nat
  BY DEF CreateNotice, TypeInv
<1>4. ASSUME notices' = inserted
      PROVE  /\ notices' \in Seq(NotificationLog) /\ Len(notices') = Len(notices) + 1
             /\ Added(notices, notices') /\ notices'[Len(notices')] = row
  <2> HIDE DEF row
  <2> QED
    BY <1>2, <1>3, <1>4, RowAdded DEF Added
<1>5. stage \in {"tell", "trigger", "returned"}
  BY DEF AfterTelling
<1> HIDE DEF row, inserted, stage
<1>6. CASE notices' = inserted /\ call' = [call EXCEPT ![r].at = stage, ![r].row = Len(inserted)]
  <2>0. notices' = inserted
    BY <1>6
  <2>1. /\ Len(notices') \in Nat /\ stage \in Stages \ {"log", "notice"}
        /\ Len(emails) <= Len(emails') /\ Len(notices) <= Len(notices')
        /\ Len(emails') + Len(notices') = Len(emails) + Len(notices) + 1
    BY <1>3, <1>4, <1>5, <2>0 DEF Stages
  <2> DEFINE c == [call[r] EXCEPT !.at = stage, !.row = Len(notices')]
  <2>2. /\ c \in CallRecord /\ c.at = stage /\ c.row = Len(notices')
        /\ c.action = call[r].action /\ c.reached = call[r].reached
    <3>1. call[r] \in CallRecord
      BY WhichCall
    <3> QED
      BY <2>1, <3>1 DEF CallRecord
  <2>3. call' = [call EXCEPT ![r] = c]
    BY <1>6, <2>0 DEF TypeInv
  <2> HIDE DEF c
  <2>4. InStage(c, Len(emails'), Len(notices'))
    <3>1. Len(notices') \in 1..Len(notices')
      BY <1>3, <1>4, <2>0
    <3> QED
      BY <1>1, <1>5, <2>2, <3>1 DEF InStage, NoticeCall
  <2>5. /\ TypeInv' /\ OthersStay(r)
        /\ call'[r].at = c.at /\ call'[r].action = call[r].action
        /\ call'[r].row = c.row /\ call'[r].reached = call[r].reached
    BY <1>1, <1>3, <1>4, <2>0, <2>1, <2>2, <2>3, <2>4, Enters
  <2> QED
    BY <1>1, <1>2, <1>3, <1>4, <2>0, <2>2, <2>5 DEF stage
<1>7. ASSUME GoTo(r, "threw"), notices' = inserted \/ notices' = notices
      PROVE  /\ TypeInv' /\ OthersStay(r) /\ CallStays(r) /\ call'[r].at = "threw"
  <2>1. /\ notices' \in Seq(NotificationLog) /\ "threw" \in Stages \ {"log", "notice"}
        /\ Len(emails) <= Len(emails') /\ Len(notices) <= Len(notices')
        /\ \/ Len(emails') + Len(notices') = Len(emails) + Len(notices)
           \/ Len(emails') + Len(notices') = Len(emails) + Len(notices) + 1
    BY <1>3, <1>4, <1>7 DEF Stages
  <2>2. \A c \in CallRecord :
          /\ c.at = "threw" /\ c.action = call[r].action /\ c.row = call[r].row
          /\ c.reached = call[r].reached
          => InStage(c, Len(emails'), Len(notices'))
    BY <1>1 DEF InStage, NoticeCall
  <2> QED
    BY <1>1, <1>3, <1>7, <2>1, <2>2, Goes
<1>8. \/ notices' = inserted /\ call' = [call EXCEPT ![r].at = stage, ![r].row = Len(inserted)]
      \/ GoTo(r, "threw") /\ notices' = inserted
      \/ GoTo(r, "threw") /\ notices' = notices
  BY DEF CreateNotice, inserted, row, stage
<1> QED
  BY <1>1, <1>2, <1>3, <1>4, <1>6, <1>7, <1>8 DEF CallStays

LEMMA NoticeStep ==
  ASSUME TypeInv, NEW r \in Runs, NEW stage \in {"trigger", "returned", "threw"},
         call[r].at \in {"tell", "trigger"}, GoTo(r, stage),
         \/ notices' = notices
         \/ Tells(r)
         \/ Triggers(r),
         UNCHANGED <<emails, completed, calls>>, ElseUnchanged
  PROVE  /\ TypeInv' /\ OthersStay(r) /\ CallStays(r) /\ call'[r].at = stage
         /\ NoticeCall(call[r], Len(notices)) /\ Row(r) \in DOMAIN notices /\ Row(r) # 0
         /\ OnlyNotice(r)
         /\ notices'[Row(r)].marks = notices[Row(r)].marks
         /\ Tells(r) =>
              /\ notices'[Row(r)].told = TRUE
              /\ notices'[Row(r)].triggered = notices[Row(r)].triggered
         /\ Triggers(r) =>
              /\ notices'[Row(r)].triggered = TRUE
              /\ notices'[Row(r)].told = notices[Row(r)].told
<1>1. /\ NoticeCall(call[r], Len(notices)) /\ Row(r) \in 1..Len(notices)
      /\ call[r].action \in Actions /\ call[r].action.kind = "notification"
      /\ call[r].reached = FALSE
  BY WhichCall DEF NoticeCall, Row
<1>2. notices[Row(r)] \in NotificationLog /\ notices \in Seq(NotificationLog)
  BY <1>1, RowsTyped DEF TypeInv
<1>3. ASSUME NEW e \in NotificationLog, notices' = [notices EXCEPT ![Row(r)] = e],
             e.action = notices[Row(r)].action
      PROVE  /\ notices' \in Seq(NotificationLog) /\ Len(notices') = Len(notices)
             /\ OnlyNotice(r) /\ notices'[Row(r)] = e
  BY <1>1, <1>2, <1>3, RowWritten DEF OnlyNotice
<1>4. ASSUME Tells(r)
      PROVE  /\ notices' \in Seq(NotificationLog) /\ Len(notices') = Len(notices)
             /\ OnlyNotice(r)
             /\ notices'[Row(r)].told = TRUE
             /\ notices'[Row(r)].marks = notices[Row(r)].marks
             /\ notices'[Row(r)].triggered = notices[Row(r)].triggered
  <2> DEFINE e == [notices[Row(r)] EXCEPT !.told = TRUE]
  <2>1. /\ e \in NotificationLog /\ e.told = TRUE /\ e.action = notices[Row(r)].action
        /\ e.triggered = notices[Row(r)].triggered /\ e.marks = notices[Row(r)].marks
    BY <1>2, NoticeFields
  <2>2. notices' = [notices EXCEPT ![Row(r)] = e]
    BY <1>4 DEF Tells
  <2> HIDE DEF e
  <2> QED
    BY <1>3, <2>1, <2>2
<1>5. ASSUME Triggers(r)
      PROVE  /\ notices' \in Seq(NotificationLog) /\ Len(notices') = Len(notices)
             /\ OnlyNotice(r)
             /\ notices'[Row(r)].triggered = TRUE
             /\ notices'[Row(r)].marks = notices[Row(r)].marks
             /\ notices'[Row(r)].told = notices[Row(r)].told
  <2> DEFINE e == [notices[Row(r)] EXCEPT !.triggered = TRUE]
  <2>1. /\ e \in NotificationLog /\ e.triggered = TRUE /\ e.action = notices[Row(r)].action
        /\ e.told = notices[Row(r)].told /\ e.marks = notices[Row(r)].marks
    BY <1>2, NoticeFields
  <2>2. notices' = [notices EXCEPT ![Row(r)] = e]
    BY <1>5 DEF Triggers
  <2> HIDE DEF e
  <2> QED
    BY <1>3, <2>1, <2>2
<1>6. /\ notices' \in Seq(NotificationLog) /\ Len(notices') = Len(notices) /\ OnlyNotice(r)
      /\ notices'[Row(r)].marks = notices[Row(r)].marks
  BY <1>2, <1>4, <1>5 DEF OnlyNotice
<1>7. TypeInv' /\ OthersStay(r) /\ CallStays(r) /\ call'[r].at = stage
  <2>1. /\ stage \in Stages \ {"log", "notice"} /\ emails' \in Seq(EmailLog)
        /\ Len(emails) <= Len(emails') /\ Len(notices) <= Len(notices')
        /\ Len(emails') + Len(notices') = Len(emails) + Len(notices)
    BY <1>6, RowsTyped DEF Stages, TypeInv
  <2>2. \A c \in CallRecord :
          /\ c.at = stage /\ c.action = call[r].action /\ c.row = call[r].row
          /\ c.reached = call[r].reached
          => InStage(c, Len(emails'), Len(notices'))
    BY <1>1, <1>6 DEF InStage, NoticeCall, Row
  <2> QED
    BY <1>6, <2>1, <2>2, Goes
<1>8. Row(r) \in DOMAIN notices /\ Row(r) # 0
  BY <1>1, RowsTyped
<1> QED
  BY <1>1, <1>4, <1>5, <1>6, <1>7, <1>8, Zenon

LEMMA FetchStep ==
  ASSUME TypeInv, NEW r \in Runs, Fetch(r)
  PROVE  /\ TypeInv' /\ OthersStay(r)
         /\ call[r].at = "fetch" /\ HookCall(call[r]) /\ call[r].reached = FALSE
         /\ call'[r].action = call[r].action /\ call'[r].row = 0
         /\ \/ call'[r].at \in {"returned", "threw"} /\ call'[r].reached = TRUE
            \/ call'[r].at = "threw" /\ call'[r].reached = FALSE
         /\ UNCHANGED <<emails, notices, completed>>
<1>1. /\ call[r].at = "fetch" /\ HookCall(call[r]) /\ call[r].reached = FALSE
      /\ call[r] \in CallRecord /\ call[r].row = 0
  BY WhichCall DEF Fetch, At, HookCall
<1>2. PICK c \in CallRecord :
        /\ call' = [call EXCEPT ![r] = c]
        /\ c.action = call[r].action /\ c.row = call[r].row
        /\ \/ c.at \in {"returned", "threw"} /\ c.reached = TRUE
           \/ c.at = "threw" /\ c.reached = FALSE
  <2>1. ASSUME NEW stage \in {"returned", "threw"},
               call' = [call EXCEPT ![r].at = stage, ![r].reached = TRUE]
        PROVE  \E c \in CallRecord :
                 /\ call' = [call EXCEPT ![r] = c]
                 /\ c.action = call[r].action /\ c.row = call[r].row
                 /\ c.at \in {"returned", "threw"} /\ c.reached = TRUE
    <3> DEFINE c == [call[r] EXCEPT !.at = stage, !.reached = TRUE]
    <3>1. call' = [call EXCEPT ![r] = c]
      BY <2>1 DEF TypeInv
    <3>2. /\ c \in CallRecord /\ c.at = stage /\ c.reached = TRUE
          /\ c.action = call[r].action /\ c.row = call[r].row
      BY <1>1 DEF CallRecord, Stages
    <3> HIDE DEF c
    <3> QED
      BY <3>1, <3>2
  <2>2. ASSUME GoTo(r, "threw")
        PROVE  \E c \in CallRecord :
                 /\ call' = [call EXCEPT ![r] = c]
                 /\ c.action = call[r].action /\ c.row = call[r].row
                 /\ c.at = "threw" /\ c.reached = FALSE
    <3> DEFINE c == [call[r] EXCEPT !.at = "threw"]
    <3>1. call' = [call EXCEPT ![r] = c]
      BY <2>2 DEF GoTo
    <3>2. /\ c \in CallRecord /\ c.at = "threw" /\ c.reached = FALSE
          /\ c.action = call[r].action /\ c.row = call[r].row
      BY <1>1 DEF CallRecord, Stages
    <3> HIDE DEF c
    <3> QED
      BY <3>1, <3>2
  <2>3. \/ call' = [call EXCEPT ![r].at = "returned", ![r].reached = TRUE]
        \/ call' = [call EXCEPT ![r].at = "threw", ![r].reached = TRUE]
        \/ GoTo(r, "threw")
    BY DEF Fetch
  <2>4. CASE call' = [call EXCEPT ![r].at = "returned", ![r].reached = TRUE]
    BY <2>1, <2>4
  <2>5. CASE call' = [call EXCEPT ![r].at = "threw", ![r].reached = TRUE]
    BY <2>1, <2>5
  <2>6. CASE GoTo(r, "threw")
    BY <2>2, <2>6
  <2> QED
    BY <2>3, <2>4, <2>5, <2>6
<1>3. call'[r] = c /\ OthersStay(r)
  BY <1>2, OneCallMoves DEF TypeInv, OthersStay
<1>4. /\ emails' = emails /\ notices' = notices /\ completed' = completed /\ calls' = calls
      /\ ElseUnchanged
  BY DEF Fetch
<1>5. TypeInv'
  <2>1. /\ emails' \in Seq(EmailLog) /\ notices' \in Seq(NotificationLog)
        /\ completed' \subseteq Actions /\ calls' \in 0..MaxCalls
    BY <1>4 DEF TypeInv
  <2>2. /\ Len(emails) <= Len(emails') /\ Len(notices) <= Len(notices')
        /\ Len(emails') + Len(notices') = Len(emails) + Len(notices)
    BY <1>4, RowsTyped
  <2>3. InStage(c, Len(emails'), Len(notices')) /\ c.at \notin {"log", "notice"}
    BY <1>1, <1>2 DEF InStage, HookCall
  <2> QED
    BY <1>2, <1>4, <2>1, <2>2, <2>3, RunMoves
<1> QED
  BY <1>1, <1>2, <1>3, <1>4, <1>5

\* The steps of a mail on its way, and those of a notification.
MailMoves(r) ==
  /\ TypeInv' /\ OthersStay(r) /\ CallStays(r) /\ OnlyEmail(r)
  /\ MailCall(call[r], Len(emails)) /\ Row(r) \in DOMAIN emails /\ Row(r) # 0
  /\ completed' = completed

NoticeMoves(r) ==
  /\ TypeInv' /\ OthersStay(r) /\ CallStays(r) /\ OnlyNotice(r)
  /\ NoticeCall(call[r], Len(notices)) /\ Row(r) \in DOMAIN notices /\ Row(r) # 0
  /\ notices'[Row(r)].marks = notices[Row(r)].marks
  /\ completed' = completed

LEMMA SendMailStep ==
  ASSUME TypeInv, NEW r \in Runs, SendMail(r)
  PROVE  /\ MailMoves(r) /\ call[r].at = "mail"
         /\ emails'[Row(r)].status = emails[Row(r)].status
         /\ \/ call'[r].at = "sent" /\ emails'[Row(r)].accepted = TRUE
            \/ Fails("late") /\ call'[r].at = "failed" /\ emails'[Row(r)].accepted = TRUE
            \/ call'[r].at = "failed" /\ emails' = emails
<1>1. /\ call[r].at = "mail"
      /\ UNCHANGED <<notices, completed, calls>> /\ ElseUnchanged
  BY DEF SendMail, At
<1>2. CASE GoTo(r, "sent") /\ Accepts(r)
  BY <1>1, <1>2, EmailStep DEF MailMoves
<1>3. CASE /\ GoTo(r, "failed") /\ Fails("late")
           /\ Accepts(r)
  BY <1>1, <1>3, EmailStep DEF MailMoves
<1>4. CASE GoTo(r, "failed") /\ emails' = emails
  BY <1>1, <1>4, EmailStep DEF MailMoves
<1> QED
  BY <1>2, <1>3, <1>4 DEF SendMail, Accepts

LEMMA MarkSentStep ==
  ASSUME TypeInv, NEW r \in Runs, MarkSent(r)
  PROVE  /\ MailMoves(r) /\ call[r].at = "sent"
         /\ emails'[Row(r)].accepted = emails[Row(r)].accepted
         /\ \/ /\ emails'[Row(r)].status = "SENT"
               /\ call'[r].at = "returned" \/ (Fails("ack") /\ call'[r].at = "failed")
            \/ Fails("db") /\ call'[r].at = "failed" /\ emails' = emails
<1>1. /\ call[r].at = "sent"
      /\ UNCHANGED <<notices, completed, calls>> /\ ElseUnchanged
  BY DEF MarkSent, At
<1>2. CASE GoTo(r, "returned") /\ MarksEmail(r, "SENT")
  BY <1>1, <1>2, EmailStep DEF MailMoves
<1>3. CASE /\ GoTo(r, "failed") /\ Fails("ack")
           /\ MarksEmail(r, "SENT")
  BY <1>1, <1>3, EmailStep DEF MailMoves
<1>4. CASE GoTo(r, "failed") /\ Fails("db") /\ emails' = emails
  BY <1>1, <1>4, EmailStep DEF MailMoves
<1> QED
  BY <1>2, <1>3, <1>4 DEF MarkSent, MarksEmail

LEMMA MarkFailedStep ==
  ASSUME TypeInv, NEW r \in Runs, MarkFailed(r)
  PROVE  /\ MailMoves(r) /\ call[r].at = "failed" /\ call'[r].at = "threw"
         /\ emails'[Row(r)].accepted = emails[Row(r)].accepted
         /\ emails'[Row(r)].status = "FAILED" \/ (Fails("db") /\ emails' = emails)
<1>1. /\ call[r].at = "failed" /\ GoTo(r, "threw")
      /\ UNCHANGED <<notices, completed, calls>> /\ ElseUnchanged
  BY DEF MarkFailed, At
<1>2. CASE MarksEmail(r, "FAILED")
  BY <1>1, <1>2, EmailStep DEF MailMoves
<1>3. CASE Fails("db") /\ emails' = emails
  BY <1>1, <1>3, EmailStep DEF MailMoves
<1> QED
  BY <1>2, <1>3 DEF MarkFailed, MarksEmail

LEMMA TellUserStep ==
  ASSUME TypeInv, NEW r \in Runs, TellUser(r)
  PROVE  /\ NoticeMoves(r) /\ call[r].at = "tell"
         /\ notices'[Row(r)].triggered = notices[Row(r)].triggered
         /\ \/ /\ notices'[Row(r)].told = TRUE
               /\ \/ call'[r].at = AfterTelling(call[r].action)
                  \/ Fails("late") /\ call'[r].at = "threw"
            \/ call'[r].at = "threw" /\ notices' = notices
<1>1. /\ call[r].at = "tell"
      /\ UNCHANGED <<emails, completed, calls>> /\ ElseUnchanged
  BY DEF TellUser, At
<1>2. CASE /\ GoTo(r, AfterTelling(call[r].action))
           /\ Tells(r)
  <2>1. AfterTelling(call[r].action) \in {"trigger", "returned"}
    BY DEF AfterTelling
  <2> QED
    BY <1>1, <1>2, <2>1, NoticeStep DEF NoticeMoves
<1>3. CASE /\ GoTo(r, "threw") /\ Fails("late")
           /\ Tells(r)
  BY <1>1, <1>3, NoticeStep DEF NoticeMoves
<1>4. CASE GoTo(r, "threw") /\ notices' = notices
  BY <1>1, <1>4, NoticeStep DEF NoticeMoves
<1> QED
  BY <1>2, <1>3, <1>4 DEF TellUser, Tells

LEMMA TriggerStep ==
  ASSUME TypeInv, NEW r \in Runs, Trigger(r)
  PROVE  /\ NoticeMoves(r) /\ call[r].at = "trigger"
         /\ notices'[Row(r)].told = notices[Row(r)].told
         /\ \/ /\ notices'[Row(r)].triggered = TRUE
               /\ call'[r].at = "returned" \/ (Fails("late") /\ call'[r].at = "threw")
            \/ call'[r].at = "threw" /\ notices' = notices
<1>1. /\ call[r].at = "trigger"
      /\ UNCHANGED <<emails, completed, calls>> /\ ElseUnchanged
  BY DEF Trigger, At
<1>2. CASE GoTo(r, "returned") /\ Triggers(r)
  BY <1>1, <1>2, NoticeStep DEF NoticeMoves
<1>3. CASE /\ GoTo(r, "threw") /\ Fails("late")
           /\ Triggers(r)
  BY <1>1, <1>3, NoticeStep DEF NoticeMoves
<1>4. CASE GoTo(r, "threw") /\ notices' = notices
  BY <1>1, <1>4, NoticeStep DEF NoticeMoves
<1> QED
  BY <1>2, <1>3, <1>4 DEF Trigger, Triggers

\* What is not the engine's: bootstraps, and readers, who only write marks.
Aside ==
  \/ BootNext /\ UNCHANGED <<callVars, found>>
  \/ \E q \in Readers : MarkAsRead(q) \/ \E n \in DOMAIN notices : FindUnread(q, n)
  \/ MarkAllAsRead
  \/ UNCHANGED vars

LEMMA AsideStep ==
  ASSUME TypeInv, Aside
  PROVE  /\ TypeInv'
         /\ UNCHANGED <<faults, call, emails, completed>>
         /\ DOMAIN notices' = DOMAIN notices
         /\ \A n \in DOMAIN notices :
              /\ notices'[n].action = notices[n].action
              /\ notices'[n].told = notices[n].told
              /\ notices'[n].triggered = notices[n].triggered
<1>1. UNCHANGED <<faults, call, emails, completed, calls>>
  BY DEF Aside, callVars, vars, BootNext, BootStep, Launch, Look, CreatePartition, BootFails,
     MarkAsRead, FindUnread, MarkAllAsRead, ElseUnchanged
<1>2. BootInv'
  <2>1. [BootNext]_<<faults, bootVars>>
    BY DEF Aside, vars, bootVars, MarkAsRead, FindUnread, MarkAllAsRead, ElseUnchanged
  <2> QED
    BY <2>1, BootStepInv DEF TypeInv
<1>3. /\ notices \in Seq(NotificationLog) /\ DOMAIN notices = 1..Len(notices)
      /\ \A n \in DOMAIN notices : notices[n] \in NotificationLog
      /\ found \in [Readers -> {0} \cup DOMAIN notices]
      /\ Len(notices) \in Nat
  BY RowsTyped DEF TypeInv
<1>4. \A e \in NotificationLog, k \in Nat :
        /\ [e EXCEPT !.marks = k] \in NotificationLog
        /\ [e EXCEPT !.marks = k].action = e.action /\ [e EXCEPT !.marks = k].told = e.told
        /\ [e EXCEPT !.marks = k].triggered = e.triggered
        /\ e.marks + 1 \in Nat
  BY DEF NotificationLog
<1> DEFINE OnlyMarks ==
      /\ notices' \in Seq(NotificationLog) /\ Len(notices') = Len(notices)
      /\ DOMAIN notices' = DOMAIN notices
      /\ \A n \in DOMAIN notices :
           /\ notices'[n].action = notices[n].action
           /\ notices'[n].told = notices[n].told
           /\ notices'[n].triggered = notices[n].triggered
<1>5. ASSUME notices' = notices
      PROVE  OnlyMarks
  BY <1>3, <1>5
<1>6. ASSUME NEW q \in Readers, MarkAsRead(q)
      PROVE  OnlyMarks /\ found' \in [Readers -> {0} \cup DOMAIN notices]
  <2>1. found[q] \in 1..Len(notices)
    BY <1>3, <1>6 DEF MarkAsRead
  <2>2. CASE notices' = Marked(found[q])
    <3> DEFINE e == [notices[found[q]] EXCEPT !.marks = notices[found[q]].marks + 1]
    <3>1. /\ e \in NotificationLog /\ e.action = notices[found[q]].action
          /\ e.told = notices[found[q]].told /\ e.triggered = notices[found[q]].triggered
      BY <1>3, <1>4, <2>1
    <3>2. notices' = [notices EXCEPT ![found[q]] = e]
      BY <2>2 DEF Marked
    <3> HIDE DEF e
    <3>3. /\ notices' \in Seq(NotificationLog) /\ Len(notices') = Len(notices)
          /\ DOMAIN notices' = DOMAIN notices
          /\ notices'[found[q]] = e
          /\ \A k \in DOMAIN notices \ {found[q]} : notices'[k] = notices[k]
      BY <1>3, <2>1, <3>1, <3>2, RowWritten
    <3> QED
      BY <1>3, <1>6, <3>1, <3>3 DEF MarkAsRead
  <2>3. CASE notices' = notices
    BY <1>3, <1>5, <1>6, <2>3 DEF MarkAsRead
  <2> QED
    BY <1>6, <2>2, <2>3 DEF MarkAsRead
<1>7. ASSUME MarkAllAsRead
      PROVE  OnlyMarks /\ found' \in [Readers -> {0} \cup DOMAIN notices]
  <2> DEFINE row(n) == IF notices[n].marks = 0 THEN [notices[n] EXCEPT !.marks = 1]
                                               ELSE notices[n]
  <2>1. notices' = [n \in DOMAIN notices |-> row(n)]
    BY <1>7 DEF MarkAllAsRead
  <2>2. \A n \in DOMAIN notices :
          /\ row(n) \in NotificationLog /\ row(n).action = notices[n].action
          /\ row(n).told = notices[n].told /\ row(n).triggered = notices[n].triggered
    BY <1>3, <1>4
  <2> HIDE DEF row
  <2>3. notices' \in [1..Len(notices) -> NotificationLog]
    BY <1>3, <2>1, <2>2
  <2>4. notices' \in Seq(NotificationLog) /\ Len(notices') = Len(notices)
    BY <1>3, <2>3
  <2> QED
    BY <1>3, <1>7, <2>1, <2>2, <2>4 DEF MarkAllAsRead, ElseUnchanged
<1>8. OnlyMarks /\ found' \in [Readers -> {0} \cup DOMAIN notices]
  <2>1. CASE BootNext /\ UNCHANGED <<callVars, found>>
    BY <1>3, <1>5, <2>1 DEF callVars
  <2>2. ASSUME NEW q \in Readers, NEW n \in DOMAIN notices, FindUnread(q, n)
        PROVE  OnlyMarks /\ found' \in [Readers -> {0} \cup DOMAIN notices]
    BY <1>3, <1>5, <2>2 DEF FindUnread, callVars
  <2>3. CASE UNCHANGED vars
    BY <1>3, <1>5, <2>3 DEF vars
  <2> QED
    BY <1>6, <1>7, <2>1, <2>2, <2>3 DEF Aside
<1>9. RowsCounted'
  BY <1>1, <1>8 DEF TypeInv, RowsCounted, Inserting
<1> QED
  BY <1>1, <1>2, <1>8, <1>9 DEF TypeInv

LEMMA StepKinds ==
  [Next]_vars => \/ Aside
                 \/ \E r \in Runs :
                      \/ \E a \in Actions : Call(r, a)
                      \/ CreateEmailLog(r) \/ SendMail(r) \/ MarkSent(r) \/ MarkFailed(r)
                      \/ CreateNotice(r) \/ TellUser(r) \/ Trigger(r)
                      \/ Fetch(r) \/ Leave(r) \/ Crash(r)
  BY DEF Next, Aside

LEMMA TypeStep == TypeInv /\ [Next]_vars => TypeInv'
  BY StepKinds, CallStep, CreateEmailLogStep, SendMailStep, MarkSentStep, MarkFailedStep,
     CreateNoticeStep, TellUserStep, TriggerStep, FetchStep, LeaveStep, AsideStep
     DEF MailMoves, NoticeMoves

\* What TypeOK says of rows, from the calls counted.
LEMMA TypeInvOK == TypeInv => TypeOK
<1> SUFFICES ASSUME TypeInv PROVE TypeOK
  OBVIOUS
<1>1. /\ Len(emails) \in Nat /\ Len(notices) \in Nat /\ MaxCalls \in Nat
      /\ Len(emails) <= MaxCalls /\ Len(notices) <= MaxCalls
  <2>1. Cardinality(Inserting) \in Nat
    BY FS_CardinalityType DEF TypeInv, RowsCounted
  <2> QED
    BY <2>1, ActionsAssumption, RowsTyped DEF TypeInv, RowsCounted
<1>2. ASSUME NEW r \in Runs
      PROVE  call[r] \in [at : Stages, action : Actions \cup {NoAction},
                          row : 0..MaxCalls, reached : BOOLEAN]
  <2>1. call[r] \in CallRecord /\ InStage(call[r], Len(emails), Len(notices))
    BY DEF TypeInv
  <2>2. call[r].row \in 0..MaxCalls
    BY <1>1, <2>1, NoCallFields DEF InStage, MailCall, NoticeCall, HookCall
  <2> QED
    BY <2>1, <2>2 DEF CallRecord
<1>3. ASSUME NEW r \in Runs
      PROVE  /\ call[r].at \in {"mail", "sent", "failed"} => call[r].row \in DOMAIN emails
             /\ call[r].at \in {"tell", "trigger"} => call[r].row \in DOMAIN notices
             /\ call[r].at = "idle" => call[r] = NoCall
  BY WhichCall, RowsTyped DEF MailCall, NoticeCall
<1>4. call \in [Runs -> [at : Stages, action : Actions \cup {NoAction},
                        row : 0..MaxCalls, reached : BOOLEAN]]
  BY <1>2 DEF TypeInv
<1> QED
  BY <1>3, <1>4 DEF TypeInv, TypeOK, BootInv

(* Type correctness: in particular no call but one on a row there is ever  *)
(* writes a log, and no more rows are inserted than calls are made.        *)
THEOREM ServicesTyped == Spec => []TypeOK
<1>1. Init => TypeInv
  BY TypeInit
<1>2. TypeInv /\ [Next]_vars => TypeInv'
  BY TypeStep
<1> QED
  BY <1>1, <1>2, TypeInvOK, PTL DEF Spec

-----------------------------------------------------------------------------
(* Rows.                                                                   *)
LEMMA RowOf ==
  ASSUME TypeInv, NEW r \in Runs
  PROVE  /\ OfMail(r) => Row(r) \in DOMAIN emails /\ call[r].action \in Actions
         /\ OfNotice(r) => Row(r) \in DOMAIN notices /\ call[r].action \in Actions
         /\ call[r].at \in {"mail", "sent", "failed"} => OfMail(r) /\ Row(r) # 0
         /\ call[r].at \in {"tell", "trigger"} => OfNotice(r) /\ Row(r) # 0
         /\ call[r].at = "returned" /\ call[r].action.kind = "email" => OfMail(r)
         /\ call[r].at = "returned" /\ call[r].action.kind = "notification" => OfNotice(r)
<1>1. InStage(call[r], Len(emails), Len(notices))
  BY DEF TypeInv
<1>2. /\ DOMAIN emails = 1..Len(emails) /\ DOMAIN notices = 1..Len(notices)
      /\ Len(emails) \in Nat /\ Len(notices) \in Nat
  BY RowsTyped
<1>3. CASE call[r] = NoCall
  BY <1>3, NoCallFields DEF OfMail, OfNotice
<1>4. CASE MailCall(call[r], Len(emails))
  BY <1>2, <1>4 DEF MailCall, OfMail, OfNotice, Row
<1>5. CASE NoticeCall(call[r], Len(notices))
  BY <1>2, <1>5 DEF NoticeCall, OfMail, OfNotice, Row
<1>6. CASE HookCall(call[r])
  BY <1>6 DEF HookCall, OfMail, OfNotice
<1> QED
  BY <1>1, <1>3, <1>4, <1>5, <1>6 DEF InStage

\* No step but the two inserts gives a call a row.
LEMMA RowsStay ==
  ASSUME RowInv, TypeInv',
         \A t \in Runs : \/ call'[t].row = 0
                         \/ call'[t].row = call[t].row /\ call'[t].action = call[t].action,
         \A n \in DOMAIN notices : notices'[n].action = notices[n].action
  PROVE  RowInv'
<1>1. \A t \in Runs : OfNotice(t) => call[t].row \in DOMAIN notices
  BY RowOf DEF RowInv, Row
<1> QED
  BY <1>1 DEF RowInv, OwnRows, OfMail, OfNotice

LEMMA RowInitial == Init => RowInv
<1> SUFFICES ASSUME Init PROVE RowInv
  OBVIOUS
<1>1. TypeInv /\ \A r \in Runs : call[r].row = 0
  BY TypeInit, NoCallFields DEF Init
<1> QED
  BY <1>1 DEF RowInv, OwnRows, OfMail, OfNotice

LEMMA EmailRowNew ==
  ASSUME RowInv, NEW r \in Runs, CreateEmailLog(r)
  PROVE  RowInv'
<1>1. /\ TypeInv' /\ OthersStay(r)
      /\ call[r].row = 0 /\ call[r].action.kind = "email"
      /\ call'[r].action = call[r].action /\ notices' = notices
      /\ \/ /\ Added(emails, emails') /\ call'[r].row = Len(emails')
         \/ call'[r].row = 0
  BY CreateEmailLogStep DEF RowInv, MailCall
<1>2. CASE call'[r].row = 0
  BY <1>1, <1>2, RowsStay DEF OthersStay
<1>3. CASE Added(emails, emails') /\ call'[r].row = Len(emails')
  <2>1. \A t \in Runs \ {r} : OfMail(t)' => call'[t].row # call'[r].row
    <3>1. ASSUME NEW t \in Runs \ {r}, OfMail(t)'
          PROVE  call'[t].row # call'[r].row
      <4>1. call'[t] = call[t] /\ OfMail(t)
        BY <1>1, <3>1 DEF OthersStay, OfMail
      <4>2. call[t].row \in DOMAIN emails
        BY <4>1, RowOf DEF RowInv, Row
      <4> QED
        BY <1>3, <4>1, <4>2 DEF Added
    <3> QED
      BY SMTT(30), <3>1
  <2>2. ~OfNotice(r)'
    BY <1>1 DEF OfNotice
  <2> QED
    BY <1>1, <2>1, <2>2 DEF RowInv, OwnRows, OfMail, OfNotice, OthersStay
<1> QED
  BY <1>1, <1>2, <1>3

LEMMA NoticeRowNew ==
  ASSUME RowInv, NEW r \in Runs, CreateNotice(r)
  PROVE  RowInv'
<1>1. /\ TypeInv' /\ OthersStay(r)
      /\ call[r].row = 0 /\ call[r].action.kind = "notification"
      /\ call'[r].action = call[r].action
      /\ \A n \in DOMAIN notices : notices'[n].action = notices[n].action
      /\ \/ /\ Added(notices, notices') /\ call'[r].row = Len(notices')
            /\ notices'[Len(notices')].action = call[r].action
         \/ call'[r].row = 0
  BY CreateNoticeStep DEF RowInv, NoticeCall, Added
<1>2. CASE call'[r].row = 0
  BY <1>1, <1>2, RowsStay DEF OthersStay
<1>3. CASE /\ Added(notices, notices') /\ call'[r].row = Len(notices')
           /\ notices'[Len(notices')].action = call[r].action
  <2>1. ASSUME NEW t \in Runs \ {r}, OfNotice(t)'
        PROVE  /\ call'[t].row # call'[r].row
               /\ notices'[call'[t].row].action = call'[t].action
    <3>1. call'[t] = call[t] /\ OfNotice(t)
      BY <1>1, <2>1 DEF OthersStay, OfNotice
    <3>2. call[t].row \in DOMAIN notices /\ notices[call[t].row].action = call[t].action
      BY <3>1, RowOf DEF RowInv, Row, OwnRows
    <3> QED
      BY <1>1, <1>3, <3>1, <3>2 DEF Added
  <2>2. ~OfMail(r)'
    BY <1>1 DEF OfMail
  <2>3. \A t \in Runs \ {r} : OfNotice(t)' => /\ call'[t].row # call'[r].row
                                              /\ notices'[call'[t].row].action = call'[t].action
    BY <2>1
  <2> QED
    BY SMTT(30), <1>1, <1>3, <2>2, <2>3 DEF RowInv, OwnRows, OfMail, OfNotice, OthersStay
<1> QED
  BY <1>1, <1>2, <1>3

LEMMA RowStep == RowInv /\ [Next]_vars => RowInv'
<1> SUFFICES ASSUME RowInv, [Next]_vars PROVE RowInv'
  OBVIOUS
<1>0. TypeInv /\ TypeInv'
  BY TypeStep DEF RowInv
<1>1. CASE Aside
  BY <1>0, <1>1, AsideStep, RowsStay
<1>2. ASSUME NEW r \in Runs, NEW a \in Actions, Call(r, a)
      PROVE  RowInv'
  BY <1>0, <1>2, CallStep, RowsStay DEF OthersStay
<1>3. ASSUME NEW r \in Runs, SendMail(r) \/ MarkSent(r) \/ MarkFailed(r)
      PROVE  RowInv'
  BY <1>0, <1>3, SendMailStep, MarkSentStep, MarkFailedStep, RowsStay
     DEF MailMoves, OthersStay, CallStays, OnlyEmail
<1>4. ASSUME NEW r \in Runs, TellUser(r) \/ Trigger(r)
      PROVE  RowInv'
  BY <1>0, <1>4, TellUserStep, TriggerStep, RowsStay
     DEF NoticeMoves, OthersStay, CallStays, OnlyNotice
<1>5. ASSUME NEW r \in Runs, Fetch(r)
      PROVE  RowInv'
  BY <1>0, <1>5, FetchStep, RowsStay DEF OthersStay
<1>6. ASSUME NEW r \in Runs, Leave(r) \/ Crash(r)
      PROVE  RowInv'
  BY <1>0, <1>6, LeaveStep, NoCallFields, RowsStay DEF OthersStay
<1> QED
  BY <1>1, <1>2, <1>3, <1>4, <1>5, <1>6, StepKinds, EmailRowNew, NoticeRowNew

\* Where a step of one run leaves the others with the rows they had.
LEMMA OthersRows ==
  ASSUME RowInv, NEW r \in Runs, NEW s \in Runs \ {r}
  PROVE  /\ OfMail(s) /\ OfMail(r) => Row(s) # Row(r)
         /\ OfNotice(s) /\ OfNotice(r) => Row(s) # Row(r)
  BY SMTT(30) DEF RowInv, OwnRows, Row

-----------------------------------------------------------------------------
(* E-mail logs.                                                            *)
LEMMA FaultsStay == [Next]_vars => faults' = faults
  BY DEF Next, vars, callVars, bootVars, BootNext, BootStep, Launch, Look, CreatePartition,
     BootFails, ElseUnchanged, Call, CreateEmailLog, SendMail, MarkSent, MarkFailed,
     CreateNotice, TellUser, Trigger, Fetch, Leave, Crash, MarkAsRead, FindUnread,
     MarkAllAsRead

\* A run that keeps its call and its row keeps what the row says.
LEMMA MailStageKept ==
  ASSUME RowInv, NEW s \in Runs, MailStage(s), faults' = faults, call'[s] = call[s],
         OfMail(s) => emails'[Row(s)] = emails[Row(s)]
  PROVE  MailStage(s)'
<1>1. call[s].at \in {"mail", "sent", "failed"} => OfMail(s)
  BY RowOf DEF RowInv
<1> QED
  BY <1>1 DEF MailStage, OfMail, Row, Without

\* Steps that leave the logs alone and do not end the work on one.
LEMMA MailsAlone ==
  ASSUME MailInv, RowInv', faults' = faults, emails' = emails, NEW r \in Runs, OthersStay(r),
         call[r].at \notin {"mail", "sent", "failed"} \/ Fails("crash"),
         call'[r].at \notin {"mail", "sent", "failed"},
         call'[r].at # "returned" \/ call'[r].action.kind # "email"
  PROVE  MailInv'
<1>1. MailStages'
  <2>1. ASSUME NEW s \in Runs PROVE MailStage(s)'
    <3>1. CASE s = r
      BY <3>1 DEF MailStage, OfMail
    <3>2. CASE s # r
      BY <3>2, MailStageKept DEF MailInv, MailStages, OthersStay
    <3> QED
      BY <3>1, <3>2
  <2> QED
    BY <2>1 DEF MailStages
<1>2. StatusHonest'
  BY DEF MailInv, StatusHonest, Without
<1>3. PendingIsInProgress'
  <2>1. SUFFICES ASSUME Without({"crash", "db", "ack"}), NEW n \in DOMAIN emails,
                        emails[n].status = "PENDING"
                 PROVE  \E s \in Runs : /\ call'[s].at \in {"mail", "sent", "failed"}
                                        /\ call'[s].row = n
    BY DEF PendingIsInProgress, AtWorkOn, Without
  <2>2. PICK s \in Runs : call[s].at \in {"mail", "sent", "failed"} /\ call[s].row = n
    BY <2>1 DEF MailInv, PendingIsInProgress, AtWorkOn
  <2>3. s # r
    BY <2>1, <2>2 DEF Without, Fails
  <2> QED
    BY <2>2, <2>3 DEF OthersStay
<1> QED
  BY <1>1, <1>2, <1>3 DEF MailInv

LEMMA MailCreated ==
  ASSUME MailInv, RowInv', faults' = faults, NEW r \in Runs, CreateEmailLog(r)
  PROVE  MailInv'
<1>0. RowInv /\ TypeInv
  BY DEF MailInv, RowInv
<1>1. /\ OthersStay(r) /\ call[r].at = "log"
      /\ \/ /\ Added(emails, emails')
            /\ emails'[Len(emails')].status = "PENDING"
            /\ emails'[Len(emails')].accepted = FALSE
            /\ \/ call'[r].at = "mail" /\ call'[r].row = Len(emails')
               \/ Fails("ack") /\ call'[r].at = "threw"
         \/ emails' = emails /\ call'[r].at = "threw"
  BY <1>0, CreateEmailLogStep
<1>2. CASE emails' = emails /\ call'[r].at = "threw"
  BY <1>1, <1>2, MailsAlone
<1>3. CASE /\ Added(emails, emails')
           /\ emails'[Len(emails')].status = "PENDING"
           /\ emails'[Len(emails')].accepted = FALSE
           /\ \/ call'[r].at = "mail" /\ call'[r].row = Len(emails')
              \/ Fails("ack") /\ call'[r].at = "threw"
  <2>1. /\ DOMAIN emails' = DOMAIN emails \cup {Len(emails')}
        /\ \A n \in DOMAIN emails : emails'[n] = emails[n]
    BY <1>3 DEF Added
  <2>2. ASSUME NEW s \in Runs PROVE MailStage(s)'
    <3>1. CASE s = r
      BY SMTT(30), <1>3, <3>1 DEF MailStage, Row
    <3>2. CASE s # r
      <4>1. OfMail(s) => Row(s) \in DOMAIN emails
        BY SMTT(30), <1>0, RowOf
      <4> QED
        BY <1>0, <1>1, <2>1, <3>2, <4>1, MailStageKept DEF MailInv, MailStages, OthersStay
    <3> QED
      BY <3>1, <3>2
  <2>3. StatusHonest'
    BY ZenonT(40), <1>3, <2>1 DEF MailInv, StatusHonest, Without
  <2>4. PendingIsInProgress'
    <3>1. SUFFICES ASSUME Without({"crash", "db", "ack"}), NEW n \in DOMAIN emails',
                          emails'[n].status = "PENDING"
                   PROVE  \E s \in Runs : /\ call'[s].at \in {"mail", "sent", "failed"}
                                          /\ call'[s].row = n
      BY DEF PendingIsInProgress, AtWorkOn, Without
    <3>2. CASE n = Len(emails')
      BY <1>3, <3>1, <3>2 DEF Without, Fails
    <3>3. CASE n \in DOMAIN emails
      <4>1. PICK s \in Runs : call[s].at \in {"mail", "sent", "failed"} /\ call[s].row = n
        BY <2>1, <3>1, <3>3 DEF MailInv, PendingIsInProgress, AtWorkOn
      <4> QED
        BY SMTT(30), <1>1, <4>1 DEF OthersStay
    <3> QED
      BY <2>1, <3>2, <3>3
  <2> QED
    BY <2>2, <2>3, <2>4 DEF MailInv, MailStages
<1> QED
  BY <1>1, <1>2, <1>3

\* One mail moves: what is left to show is about its own row.
LEMMA MailMoved ==
  ASSUME MailInv, RowInv', faults' = faults, NEW r \in Runs, MailMoves(r),
         MailStage(r)',
         /\ emails'[Row(r)].status = "SENT" => emails'[Row(r)].accepted
         /\ emails'[Row(r)].status = "FAILED" /\ Without({"late", "db", "ack"}) =>
              ~emails'[Row(r)].accepted,
         emails'[Row(r)].status = "PENDING" =>
           call'[r].at \in {"mail", "sent", "failed"} \/ ~Without({"crash", "db", "ack"})
  PROVE  MailInv'
<1>0. /\ RowInv /\ TypeInv /\ OthersStay(r) /\ CallStays(r)
      /\ Row(r) \in DOMAIN emails /\ OfMail(r)
      /\ DOMAIN emails' = DOMAIN emails
      /\ \A n \in DOMAIN emails \ {Row(r)} : emails'[n] = emails[n]
  BY DEF MailInv, RowInv, MailMoves, OnlyEmail, OfMail, MailCall, Row
<1>1. ASSUME NEW s \in Runs PROVE MailStage(s)'
  <2>1. CASE s # r
    <3>1. OfMail(s) => Row(s) \in DOMAIN emails /\ Row(s) # Row(r)
      BY <1>0, <2>1, RowOf, OthersRows
    <3> QED
      BY <1>0, <2>1, <3>1, MailStageKept DEF MailInv, MailStages, OthersStay
  <2> QED
    BY <2>1
<1>2. StatusHonest'
  BY <1>0 DEF MailInv, StatusHonest, Without
<1>3. PendingIsInProgress'
  <2>1. SUFFICES ASSUME Without({"crash", "db", "ack"}), NEW n \in DOMAIN emails,
                        emails'[n].status = "PENDING"
                 PROVE  \E s \in Runs : /\ call'[s].at \in {"mail", "sent", "failed"}
                                        /\ call'[s].row = n
    BY <1>0 DEF PendingIsInProgress, AtWorkOn, Without
  <2>2. CASE n = Row(r)
    BY <1>0, <2>1, <2>2 DEF CallStays, Row
  <2>3. CASE n # Row(r)
    <3>1. PICK s \in Runs : call[s].at \in {"mail", "sent", "failed"} /\ call[s].row = n
      BY <1>0, <2>1, <2>3 DEF MailInv, PendingIsInProgress, AtWorkOn
    <3>2. s # r
      BY <2>3, <3>1 DEF Row
    <3> QED
      BY <1>0, <3>1, <3>2 DEF OthersStay
  <2> QED
    BY <2>2, <2>3
<1> QED
  BY <1>1, <1>2, <1>3 DEF MailInv, MailStages

LEMMA MailStep == MailInv /\ [Next]_vars => MailInv'
<1> SUFFICES ASSUME MailInv, [Next]_vars PROVE MailInv'
  OBVIOUS
<1>0. /\ RowInv /\ RowInv' /\ TypeInv /\ TypeInv' /\ faults' = faults
      /\ \A r \in Runs : MailStage(r)
  BY RowStep, FaultsStay DEF MailInv, RowInv, MailStages
<1>1. CASE Aside
  <2>1. UNCHANGED <<faults, call, emails>>
    BY <1>0, <1>1, AsideStep
  <2> QED
    BY <1>0, <2>1 DEF MailInv, MailStages, MailStage, StatusHonest, PendingIsInProgress,
       AtWorkOn, OfMail, Row, Without
<1>2. ASSUME NEW r \in Runs, NEW a \in Actions, Call(r, a)
      PROVE  MailInv'
  BY <1>0, <1>2, CallStep, NoCallFields, MailsAlone
<1>3. ASSUME NEW r \in Runs, CreateNotice(r)
      PROVE  MailInv'
  BY <1>0, <1>3, CreateNoticeStep, MailsAlone DEF NoticeCall, AfterTelling
<1>4. ASSUME NEW r \in Runs, TellUser(r) \/ Trigger(r)
      PROVE  MailInv'
  BY <1>0, <1>4, TellUserStep, TriggerStep, MailsAlone
     DEF NoticeMoves, NoticeCall, AfterTelling, OnlyNotice, CallStays
<1>5. ASSUME NEW r \in Runs, Fetch(r)
      PROVE  MailInv'
  BY <1>0, <1>5, FetchStep, MailsAlone DEF HookCall
<1>6. ASSUME NEW r \in Runs, Leave(r) \/ Crash(r)
      PROVE  MailInv'
  <2>1. call[r].at \notin {"mail", "sent", "failed"} \/ Fails("crash")
    BY <1>6 DEF Leave, Crash
  <2> QED
    BY <1>0, <1>6, <2>1, LeaveStep, NoCallFields, MailsAlone
<1>7. ASSUME NEW r \in Runs, SendMail(r)
      PROVE  MailInv'
  <2>1. /\ MailMoves(r) /\ call[r].at = "mail" /\ MailStage(r) /\ CallStays(r)
        /\ emails'[Row(r)].status = emails[Row(r)].status
        /\ \/ call'[r].at = "sent" /\ emails'[Row(r)].accepted = TRUE
           \/ Fails("late") /\ call'[r].at = "failed" /\ emails'[Row(r)].accepted = TRUE
           \/ call'[r].at = "failed" /\ emails' = emails
    BY <1>0, <1>7, SendMailStep DEF MailMoves
  <2>2. emails'[Row(r)].status = "PENDING" /\ emails[Row(r)].accepted = FALSE
    BY <2>1 DEF MailStage
  <2>3. MailStage(r)'
    BY <1>0, <2>1, <2>2 DEF MailStage, CallStays, Row, Without, Fails
  <2> QED
    BY <1>0, <2>1, <2>2, <2>3, MailMoved
<1>8. ASSUME NEW r \in Runs, MarkSent(r)
      PROVE  MailInv'
  <2>1. /\ MailMoves(r) /\ call[r].at = "sent" /\ MailStage(r) /\ CallStays(r)
        /\ emails'[Row(r)].accepted = emails[Row(r)].accepted
        /\ \/ /\ emails'[Row(r)].status = "SENT"
              /\ call'[r].at = "returned" \/ (Fails("ack") /\ call'[r].at = "failed")
           \/ Fails("db") /\ call'[r].at = "failed" /\ emails' = emails
    BY <1>0, <1>8, MarkSentStep DEF MailMoves
  <2>2. emails[Row(r)].status = "PENDING" /\ emails'[Row(r)].accepted = TRUE
    BY <2>1 DEF MailStage
  <2>3. MailStage(r)'
    BY <1>0, <2>1, <2>2 DEF MailStage, CallStays, Row, Without, Fails
  <2> QED
    BY <1>0, <2>1, <2>2, <2>3, MailMoved DEF Without, Fails
<1>9. ASSUME NEW r \in Runs, MarkFailed(r)
      PROVE  MailInv'
  <2>1. /\ MailMoves(r) /\ call[r].at = "failed" /\ call'[r].at = "threw" /\ MailStage(r)
        /\ Row(r) \in DOMAIN emails
        /\ emails'[Row(r)].accepted = emails[Row(r)].accepted
        /\ emails'[Row(r)].status = "FAILED" \/ (Fails("db") /\ emails' = emails)
    BY <1>0, <1>9, MarkFailedStep DEF MailMoves
  <2>2. MailStage(r)'
    BY <2>1 DEF MailStage
  <2>3. Without({"late", "db", "ack"}) => emails'[Row(r)].accepted = FALSE
    BY <2>1 DEF MailStage
  <2>4. /\ emails'[Row(r)].status = "SENT" => emails'[Row(r)].accepted
        /\ emails'[Row(r)].status = "PENDING" => ~Without({"crash", "db", "ack"})
    BY <2>1 DEF MailInv, StatusHonest, Without, Fails
  <2> QED
    BY <1>0, <2>1, <2>2, <2>3, <2>4, MailMoved
<1> QED
  BY <1>0, <1>1, <1>2, <1>3, <1>4, <1>5, <1>6, <1>7, <1>8, <1>9, StepKinds, MailCreated

LEMMA MailInitial == Init => MailInv
<1> SUFFICES ASSUME Init PROVE MailInv
  OBVIOUS
<1>1. /\ RowInv /\ emails = <<>> /\ DOMAIN emails = {}
      /\ \A r \in Runs : call[r].at = "idle"
  BY RowInitial, NoCallFields DEF Init
<1> QED
  BY <1>1 DEF MailInv, MailStages, MailStage, StatusHonest, PendingIsInProgress

LEMMA MailAlways == Spec => []MailInv
  BY MailInitial, MailStep, PTL DEF Spec

(* SENT in email_logs means that the transport took the mail, under every  *)
(* fault; FAILED that it did not, where nothing is answered late and the   *)
(* database fails no one (EmailActionService.send).                        *)
THEOREM EmailStatusHonest == Spec => []StatusHonest
<1>1. MailInv => StatusHonest
  BY DEF MailInv
<1> QED
  BY <1>1, MailAlways, PTL

(* A PENDING row of email_logs is one a run is at work on, unless a worker *)
(* died or a statement failed: no path through send() forgets its row.     *)
THEOREM PendingEmailsInProgress == Spec => []PendingIsInProgress
<1>1. MailInv => PendingIsInProgress
  BY DEF MailInv
<1> QED
  BY <1>1, MailAlways, PTL

-----------------------------------------------------------------------------
(* Notification logs.                                                      *)
LEMMA NoticeStageKept ==
  ASSUME RowInv, NEW s \in Runs, NoticeStage(s), call'[s] = call[s],
         OfNotice(s) => /\ notices'[Row(s)].told = notices[Row(s)].told
                        /\ notices'[Row(s)].triggered = notices[Row(s)].triggered
  PROVE  NoticeStage(s)'
<1>1. call[s].at \in {"tell", "trigger"} => OfNotice(s)
  BY RowOf DEF RowInv
<1> QED
  BY <1>1 DEF NoticeStage, OfNotice, Row

\* A step of one run leaves the rows of the others alone.
LEMMA NoticeOthers ==
  ASSUME NoticeInv, RowInv', NEW r \in Runs, OthersStay(r), NoticeStage(r)',
         \A n \in DOMAIN notices :
           n # Row(r) => /\ notices'[n].told = notices[n].told
                         /\ notices'[n].triggered = notices[n].triggered,
         OfNotice(r) \/ \A n \in DOMAIN notices : notices'[n] = notices[n]
  PROVE  NoticeInv'
<1>1. ASSUME NEW s \in Runs \ {r} PROVE NoticeStage(s)'
  <2>1. OfNotice(s) => Row(s) \in DOMAIN notices
    BY RowOf DEF NoticeInv, RowInv
  <2>2. OfNotice(s) /\ OfNotice(r) => Row(s) # Row(r)
    BY OthersRows DEF NoticeInv
  <2> QED
    BY <2>1, <2>2, NoticeStageKept DEF NoticeInv, NoticeStages, OthersStay
<1> QED
  BY <1>1 DEF NoticeInv, NoticeStages

LEMMA NoticeCreated ==
  ASSUME NoticeInv, RowInv', NEW r \in Runs, CreateNotice(r)
  PROVE  NoticeInv'
<1>0. RowInv /\ TypeInv
  BY DEF NoticeInv, RowInv
<1>1. /\ OthersStay(r) /\ call[r].action \in Actions /\ call'[r].action = call[r].action
      /\ \/ /\ Added(notices, notices')
            /\ notices'[Len(notices')].told = FALSE
            /\ notices'[Len(notices')].triggered = FALSE
            /\ \/ /\ call'[r].row = Len(notices')
                  /\ call'[r].at = IF call[r].action.user THEN "tell"
                                   ELSE AfterTelling(call[r].action)
               \/ call'[r].at = "threw"
         \/ notices' = notices /\ call'[r].at = "threw"
  BY <1>0, CreateNoticeStep DEF NoticeCall
<1>2. NoticeStage(r)'
  BY <1>1, Kinds DEF NoticeStage, AfterTelling, Row, OfNotice, HasChannel
<1>3. \A n \in DOMAIN notices : notices'[n] = notices[n]
  BY <1>1 DEF Added
<1> QED
  BY <1>1, <1>2, <1>3, NoticeOthers

LEMMA NoticeInvStep == NoticeInv /\ [Next]_vars => NoticeInv'
<1> SUFFICES ASSUME NoticeInv, [Next]_vars PROVE NoticeInv'
  OBVIOUS
<1>0. /\ RowInv /\ RowInv' /\ TypeInv /\ TypeInv'
      /\ \A r \in Runs : NoticeStage(r)
  BY RowStep DEF NoticeInv, RowInv, NoticeStages
<1>1. CASE Aside
  <2>1. ASSUME NEW s \in Runs PROVE NoticeStage(s)'
    <3>1. OfNotice(s) => Row(s) \in DOMAIN notices
      BY <1>0, RowOf
    <3> QED
      BY <1>0, <1>1, <3>1, AsideStep, NoticeStageKept
  <2> QED
    BY <1>0, <2>1 DEF NoticeInv, NoticeStages
<1>2. ASSUME NEW r \in Runs, OthersStay(r), notices' = notices,
             call'[r].at \notin {"tell", "trigger"},
             call'[r].at # "returned" \/ call'[r].action.kind # "notification"
      PROVE  NoticeInv'
  <2>1. NoticeStage(r)'
    BY <1>2 DEF NoticeStage, OfNotice
  <2> QED
    BY <1>0, <1>2, <2>1, NoticeOthers
<1>3. ASSUME NEW r \in Runs, NEW a \in Actions, Call(r, a)
      PROVE  NoticeInv'
  BY <1>0, <1>2, <1>3, CallStep
<1>4. ASSUME NEW r \in Runs, CreateEmailLog(r)
      PROVE  NoticeInv'
  BY <1>0, <1>2, <1>4, CreateEmailLogStep
<1>5. ASSUME NEW r \in Runs, SendMail(r) \/ MarkSent(r) \/ MarkFailed(r)
      PROVE  NoticeInv'
  BY <1>0, <1>2, <1>5, SendMailStep, MarkSentStep, MarkFailedStep
     DEF MailMoves, MailCall, OnlyEmail, CallStays
<1>6. ASSUME NEW r \in Runs, Fetch(r)
      PROVE  NoticeInv'
  BY <1>0, <1>2, <1>6, FetchStep DEF HookCall
<1>7. ASSUME NEW r \in Runs, Leave(r) \/ Crash(r)
      PROVE  NoticeInv'
  BY <1>0, <1>2, <1>7, LeaveStep, NoCallFields
<1>8. ASSUME NEW r \in Runs, TellUser(r)
      PROVE  NoticeInv'
  <2>1. /\ NoticeMoves(r) /\ CallStays(r) /\ OnlyNotice(r) /\ OthersStay(r)
        /\ call[r].at = "tell" /\ NoticeStage(r) /\ OfNotice(r) /\ call[r].action \in Actions
        /\ notices'[Row(r)].triggered = notices[Row(r)].triggered
        /\ \/ /\ notices'[Row(r)].told = TRUE
              /\ \/ call'[r].at = AfterTelling(call[r].action)
                 \/ call'[r].at = "threw"
           \/ call'[r].at = "threw"
    BY <1>0, <1>8, TellUserStep, RowOf DEF NoticeMoves, NoticeCall
  <2>2. NoticeStage(r)'
    BY <2>1, Kinds DEF NoticeStage, AfterTelling, CallStays, Row, OfNotice, HasChannel
  <2> QED
    BY <1>0, <2>1, <2>2, NoticeOthers DEF OnlyNotice
<1>9. ASSUME NEW r \in Runs, Trigger(r)
      PROVE  NoticeInv'
  <2>1. /\ NoticeMoves(r) /\ CallStays(r) /\ OnlyNotice(r) /\ OthersStay(r)
        /\ call[r].at = "trigger" /\ NoticeStage(r) /\ OfNotice(r)
        /\ call[r].action \in Actions
        /\ notices'[Row(r)].told = notices[Row(r)].told
        /\ \/ notices'[Row(r)].triggered = TRUE /\ call'[r].at \in {"returned", "threw"}
           \/ call'[r].at = "threw"
    BY <1>0, <1>9, TriggerStep, RowOf DEF NoticeMoves, NoticeCall
  <2>2. NoticeStage(r)'
    BY <2>1, Kinds DEF NoticeStage, CallStays, Row, OfNotice, HasChannel
  <2> QED
    BY <1>0, <2>1, <2>2, NoticeOthers DEF OnlyNotice
<1> QED
  BY <1>0, <1>1, <1>3, <1>4, <1>5, <1>6, <1>7, <1>8, <1>9, StepKinds, NoticeCreated

LEMMA NoticeInitial == Init => NoticeInv
<1> SUFFICES ASSUME Init PROVE NoticeInv
  OBVIOUS
<1>1. RowInv /\ \A r \in Runs : call[r].at = "idle"
  BY RowInitial, NoCallFields DEF Init
<1> QED
  BY <1>1 DEF NoticeInv, NoticeStages, NoticeStage

LEMMA NoticeInvDelivered == NoticeInv => DeliveredAsConfigured
<1> SUFFICES ASSUME NoticeInv, NEW r \in Runs, call[r].at = "returned",
                    call[r].action.kind = "notification"
             PROVE  /\ notices[Row(r)].told <=> call[r].action.user
                    /\ notices[Row(r)].triggered <=> HasChannel(call[r].action)
  BY DEF DeliveredAsConfigured, At
<1>1. OfNotice(r)
  BY RowOf DEF NoticeInv, RowInv
<1> QED
  BY <1>1 DEF NoticeInv, NoticeStages, NoticeStage

(* A notification that was returned as sent told its user exactly if it    *)
(* names one and triggered its channel exactly if it has a valid one: no   *)
(* refusal by Pusher is swallowed (NotificationActionService.send).        *)
THEOREM NotificationsDelivered == Spec => []DeliveredAsConfigured
<1>1. Init => NoticeInv
  BY NoticeInitial
<1>2. NoticeInv /\ [Next]_vars => NoticeInv'
  BY NoticeInvStep
<1> QED
  BY <1>1, <1>2, NoticeInvDelivered, PTL DEF Spec

-----------------------------------------------------------------------------
(* No repetition.                                                          *)
LEMMA KeysStep == TypeInv /\ OneRunPerAction /\ [Next]_vars => OneRunPerAction'
<1> SUFFICES ASSUME TypeInv, OneRunPerAction, [Next]_vars PROVE OneRunPerAction'
  OBVIOUS
<1>1. ASSUME completed' = completed, \A r \in Runs : call'[r].action = call[r].action
      PROVE  OneRunPerAction'
  BY <1>1 DEF OneRunPerAction
<1>2. ASSUME NEW r \in Runs, OthersStay(r), call'[r].action = call[r].action,
             completed' = completed
      PROVE  OneRunPerAction'
  BY <1>1, <1>2 DEF OthersStay
<1>3. ASSUME NEW r \in Runs, NEW a \in Actions, Call(r, a)
      PROVE  OneRunPerAction'
  <2>1. /\ OthersStay(r) /\ call'[r].action = a /\ completed' = completed
        /\ a \notin completed /\ \A s \in Runs : call[s].action # a
    BY <1>3, CallStep DEF Call
  <2> QED
    BY <2>1 DEF OneRunPerAction, OthersStay
<1>4. ASSUME NEW r \in Runs, Leave(r) \/ Crash(r)
      PROVE  OneRunPerAction'
  <2>1. /\ OthersStay(r) /\ call[r] # NoCall /\ call'[r].action = NoAction
        /\ completed' = completed \/ completed' = completed \cup {call[r].action}
    BY <1>4, LeaveStep, NoCallFields DEF Leave, Crash
  <2>2. call[r].action \in Actions
    BY <2>1 DEF TypeInv, InStage, MailCall, NoticeCall, HookCall
  <2>3. NoAction \notin completed'
    BY <2>1, <2>2, ActionsAssumption DEF TypeInv
  <2>4. \A s \in Runs \ {r} : call[s].action # call[r].action
    BY <2>2, ActionsAssumption DEF OneRunPerAction
  <2> QED
    BY <2>1, <2>3, <2>4 DEF OneRunPerAction, OthersStay
<1>5. CASE Aside
  BY <1>1, <1>5, AsideStep
<1>6. ASSUME NEW r \in Runs, CreateEmailLog(r) \/ CreateNotice(r) \/ Fetch(r)
      PROVE  OneRunPerAction'
  BY <1>2, <1>6, CreateEmailLogStep, CreateNoticeStep, FetchStep
<1>7. ASSUME NEW r \in Runs, SendMail(r) \/ MarkSent(r) \/ MarkFailed(r)
      PROVE  OneRunPerAction'
  BY <1>2, <1>7, SendMailStep, MarkSentStep, MarkFailedStep DEF MailMoves, CallStays
<1>8. ASSUME NEW r \in Runs, TellUser(r) \/ Trigger(r)
      PROVE  OneRunPerAction'
  BY <1>2, <1>8, TellUserStep, TriggerStep DEF NoticeMoves, CallStays
<1> QED
  BY <1>3, <1>4, <1>5, <1>6, <1>7, <1>8, StepKinds

\* While a run is at work on an action, no notification of it is delivered.
LEMMA OpenAction ==
  ASSUME RepeatInv, DeliveredIsClosed, NEW r \in Runs, call[r].at # "returned",
         call[r].action # NoAction, NEW n \in DOMAIN notices,
         notices[n].action = call[r].action
  PROVE  ~Delivered(n)
<1>1. ~Closed(call[r].action)
  BY DEF RepeatInv, OneRunPerAction, Closed
<1> QED
  BY <1>1 DEF DeliveredIsClosed

LEMMA ClosedStays ==
  ASSUME NEW r \in Runs, OthersStay(r), call[r].at # "returned", completed' = completed, NEW a
  PROVE  Closed(a) => Closed(a)'
  BY DEF Closed, OthersStay

\* Steps after which the same notifications are delivered, or fewer.
LEMMA NothingDelivered ==
  ASSUME RepeatInv, NoticeInv', OneRunPerAction', faults' = faults,
         \A n \in DOMAIN notices : n \in DOMAIN notices' /\ notices'[n].action = notices[n].action,
         \A n \in DOMAIN notices' :
           \/ /\ n \in DOMAIN notices
              /\ notices'[n].told = notices[n].told
              /\ notices'[n].triggered = notices[n].triggered
           \/ notices'[n].told = FALSE /\ notices'[n].triggered = FALSE,
         Without({"late", "crash", "db", "ack"}) => \A a \in Actions : Closed(a) => Closed(a)'
  PROVE  RepeatInv'
<1>1. ASSUME Without({"late", "crash", "db", "ack"}) PROVE DeliveredIsClosed'
  <2>1. ASSUME NEW n \in DOMAIN notices', Delivered(n)'
        PROVE  \/ notices'[n].action \in completed'
               \/ \E s \in Runs : call'[s].at = "returned"
                                  /\ call'[s].action = notices'[n].action
    <3>1. /\ n \in DOMAIN notices /\ Delivered(n)
          /\ notices'[n].action = notices[n].action
      BY <2>1 DEF Delivered
    <3>2. Closed(notices[n].action)
      BY <1>1, <3>1 DEF RepeatInv, DeliveredIsClosed
    <3>3. notices[n].action \in Actions
      BY <3>1, RowsTyped DEF RepeatInv, NoticeInv, RowInv, NotificationLog
    <3>4. PICK a \in Actions : a = notices'[n].action /\ Closed(a)'
      BY <1>1, <3>1, <3>2, <3>3
    <3> QED
      BY <3>4 DEF Closed
  <2> QED
    BY <2>1 DEF DeliveredIsClosed, Delivered, Closed
<1>2. NoNeedlessRepeat'
  BY DEF RepeatInv, NoNeedlessRepeat, Without
<1> QED
  BY <1>1, <1>2 DEF RepeatInv, Without

\* The step that may deliver one: the run has no other delivered before it,
\* and is back when it has delivered.
LEMMA OneDelivered ==
  ASSUME RepeatInv, NoticeInv', OneRunPerAction', faults' = faults,
         NEW r \in Runs, NoticeMoves(r), call[r].at \in {"tell", "trigger"},
         /\ Without({"late", "crash", "db", "ack"})
         /\ \/ notices'[Row(r)].triggered
            \/ notices'[Row(r)].told /\ ~HasChannel(call[r].action)
         => call'[r].at = "returned"
  PROVE  RepeatInv'
<1>0. /\ RowInv /\ TypeInv /\ OfNotice(r) /\ Row(r) \in DOMAIN notices
      /\ OthersStay(r) /\ CallStays(r) /\ completed' = completed
      /\ call[r].action \in Actions /\ call[r].action # NoAction
      /\ notices[Row(r)].action = call[r].action
      /\ DOMAIN notices' = DOMAIN notices
      /\ \A n \in DOMAIN notices \ {Row(r)} : notices'[n] = notices[n]
      /\ notices'[Row(r)].action = call[r].action
  <2>1. RowInv /\ TypeInv
    BY DEF RepeatInv, NoticeInv, RowInv
  <2>2. OfNotice(r) /\ call[r].action \in Actions
    BY <2>1, RowOf
  <2>3. call[r].action # NoAction
    BY <2>2, Kinds
  <2>4. notices[Row(r)].action = call[r].action
    BY <2>1, <2>2 DEF RowInv, OwnRows, Row
  <2> QED
    BY <2>1, <2>2, <2>3, <2>4 DEF NoticeMoves, OnlyNotice
<1>1. ASSUME Without({"late", "crash", "db", "ack"}) PROVE DeliveredIsClosed'
  <2>1. ASSUME NEW n \in DOMAIN notices, Delivered(n)'
        PROVE  \/ notices'[n].action \in completed'
               \/ \E s \in Runs : call'[s].at = "returned"
                                  /\ call'[s].action = notices'[n].action
    <3>1. CASE n = Row(r)
      BY <1>0, <1>1, <2>1, <3>1 DEF CallStays, Delivered
    <3>2. CASE n # Row(r)
      <4>1. notices'[n] = notices[n] /\ Delivered(n)
        BY <1>0, <2>1, <3>2 DEF Delivered
      <4>2. Closed(notices[n].action)
        BY <1>1, <4>1 DEF RepeatInv, DeliveredIsClosed
      <4> QED
        BY <1>0, <4>1, <4>2 DEF Closed, OthersStay
    <3> QED
      BY <3>1, <3>2
  <2> QED
    BY <1>0, <2>1 DEF DeliveredIsClosed, Delivered, Closed
<1>2. ASSUME Without({"late", "crash", "db", "ack"}), NEW m \in DOMAIN notices,
             NEW n \in DOMAIN notices, m # n, notices'[m].action = notices'[n].action
      PROVE  /\ ~(notices'[m].triggered /\ notices'[n].triggered)
             /\ notices'[m].told /\ notices'[n].told => HasChannel(notices'[m].action)
  <2>1. ASSUME NEW k \in DOMAIN notices, k # Row(r), notices'[k].action = call[r].action
        PROVE  /\ ~notices'[k].triggered
               /\ notices'[k].told => HasChannel(notices'[k].action)
    <3>1. notices'[k] = notices[k] /\ ~Delivered(k)
      BY <1>0, <1>2, <2>1, OpenAction DEF RepeatInv
    <3> QED
      BY <3>1 DEF Delivered
  <2>2. CASE m = Row(r)
    BY <1>0, <1>2, <2>1, <2>2
  <2>3. CASE n = Row(r)
    BY <1>0, <1>2, <2>1, <2>3
  <2>4. CASE m # Row(r) /\ n # Row(r)
    BY <1>0, <1>2, <2>4 DEF RepeatInv, NoNeedlessRepeat
  <2> QED
    BY <2>2, <2>3, <2>4
<1>3. NoNeedlessRepeat'
  BY <1>0, <1>2 DEF NoNeedlessRepeat, Without
<1> QED
  BY <1>1, <1>3 DEF RepeatInv, Without

LEMMA RepeatStep == RepeatInv /\ [Next]_vars => RepeatInv'
<1> SUFFICES ASSUME RepeatInv, [Next]_vars PROVE RepeatInv'
  OBVIOUS
<1>0. /\ TypeInv /\ NoticeInv' /\ OneRunPerAction' /\ faults' = faults
      /\ \A r \in Runs : NoticeStage(r)
  BY NoticeInvStep, KeysStep, FaultsStay DEF RepeatInv, NoticeInv, RowInv, NoticeStages
<1>1. CASE Aside
  <2>1. /\ UNCHANGED <<call, completed>> /\ DOMAIN notices' = DOMAIN notices
        /\ \A n \in DOMAIN notices :
             /\ notices'[n].action = notices[n].action
             /\ notices'[n].told = notices[n].told
             /\ notices'[n].triggered = notices[n].triggered
    BY <1>0, <1>1, AsideStep
  <2>2. \A a \in Actions : Closed(a) => Closed(a)'
    BY <2>1 DEF Closed
  <2> QED
    BY <1>0, <2>1, <2>2, NothingDelivered
<1>2. ASSUME NEW r \in Runs, OthersStay(r), call[r].at # "returned",
             notices' = notices, completed' = completed
      PROVE  RepeatInv'
  BY <1>0, <1>2, ClosedStays, NothingDelivered
<1>3. ASSUME NEW r \in Runs, NEW a \in Actions, Call(r, a)
      PROVE  RepeatInv'
  BY <1>0, <1>2, <1>3, CallStep, NoCallFields
<1>4. ASSUME NEW r \in Runs, CreateEmailLog(r) \/ Fetch(r)
      PROVE  RepeatInv'
  BY <1>0, <1>2, <1>4, CreateEmailLogStep, FetchStep
<1>5. ASSUME NEW r \in Runs, SendMail(r) \/ MarkSent(r) \/ MarkFailed(r)
      PROVE  RepeatInv'
  BY <1>0, <1>2, <1>5, SendMailStep, MarkSentStep, MarkFailedStep DEF MailMoves, OnlyEmail
<1>6. ASSUME NEW r \in Runs, Leave(r) \/ Crash(r)
      PROVE  RepeatInv'
  <2>1. OthersStay(r) /\ notices' = notices
    BY <1>0, <1>6, LeaveStep
  <2>2. ASSUME Without({"late", "crash", "db", "ack"}), NEW a \in Actions, Closed(a)
        PROVE  Closed(a)'
    <3>1. /\ call[r].at # "returned" => completed' = completed
          /\ call[r].at = "returned" => completed' = completed \cup {call[r].action}
      BY <1>6, <2>2 DEF Leave, Crash, At, Fails, Without
    <3> QED
      BY <2>1, <2>2, <3>1 DEF Closed, OthersStay
  <2> QED
    BY <1>0, <2>1, <2>2, NothingDelivered
<1>7. ASSUME NEW r \in Runs, CreateNotice(r)
      PROVE  RepeatInv'
  <2>1. /\ OthersStay(r) /\ call[r].at = "notice" /\ completed' = completed
        /\ \/ /\ Added(notices, notices')
              /\ notices'[Len(notices')].told = FALSE
              /\ notices'[Len(notices')].triggered = FALSE
           \/ notices' = notices
    BY <1>0, <1>7, CreateNoticeStep
  <2>2. CASE notices' = notices
    BY <1>2, <2>1, <2>2
  <2>3. CASE /\ Added(notices, notices')
             /\ notices'[Len(notices')].told = FALSE
             /\ notices'[Len(notices')].triggered = FALSE
    <3>1. \A a \in Actions : Closed(a) => Closed(a)'
      BY <2>1, ClosedStays
    <3> QED
      BY <1>0, <2>3, <3>1, NothingDelivered DEF Added
  <2> QED
    BY <2>1, <2>2, <2>3
<1>8. ASSUME NEW r \in Runs, TellUser(r)
      PROVE  RepeatInv'
  <2>1. /\ NoticeMoves(r) /\ call[r].at = "tell" /\ NoticeStage(r)
        /\ OnlyNotice(r) /\ OfNotice(r)
        /\ notices'[Row(r)].triggered = notices[Row(r)].triggered
        /\ \/ /\ notices'[Row(r)].told = TRUE
              /\ \/ call'[r].at = AfterTelling(call[r].action)
                 \/ Fails("late") /\ call'[r].at = "threw"
           \/ call'[r].at = "threw" /\ notices' = notices
    BY <1>0, <1>8, TellUserStep, RowOf DEF NoticeMoves
  <2>2. /\ Without({"late", "crash", "db", "ack"})
        /\ \/ notices'[Row(r)].triggered
           \/ notices'[Row(r)].told /\ ~HasChannel(call[r].action)
        => call'[r].at = "returned"
    BY <2>1 DEF NoticeStage, AfterTelling, Fails, Without
  <2> QED
    BY <1>0, <2>1, <2>2, OneDelivered
<1>9. ASSUME NEW r \in Runs, Trigger(r)
      PROVE  RepeatInv'
  <2>1. /\ NoticeMoves(r) /\ call[r].at = "trigger" /\ NoticeStage(r)
        /\ OnlyNotice(r) /\ OfNotice(r)
        /\ notices'[Row(r)].told = notices[Row(r)].told
        /\ \/ /\ notices'[Row(r)].triggered = TRUE
              /\ call'[r].at = "returned" \/ (Fails("late") /\ call'[r].at = "threw")
           \/ call'[r].at = "threw" /\ notices' = notices
    BY <1>0, <1>9, TriggerStep, RowOf DEF NoticeMoves
  <2>2. /\ Without({"late", "crash", "db", "ack"})
        /\ \/ notices'[Row(r)].triggered
           \/ notices'[Row(r)].told /\ ~HasChannel(call[r].action)
        => call'[r].at = "returned"
    BY <2>1 DEF NoticeStage, Fails, Without
  <2> QED
    BY <1>0, <2>1, <2>2, OneDelivered
<1> QED
  BY <1>1, <1>3, <1>4, <1>5, <1>6, <1>7, <1>8, <1>9, StepKinds

LEMMA RepeatInitial == Init => RepeatInv
<1> SUFFICES ASSUME Init PROVE RepeatInv
  OBVIOUS
<1>1. /\ NoticeInv /\ notices = <<>> /\ DOMAIN notices = {} /\ completed = {}
      /\ \A r \in Runs : call[r].action = NoAction
  BY NoticeInitial, NoCallFields DEF Init
<1> QED
  BY <1>1 DEF RepeatInv, OneRunPerAction, DeliveredIsClosed, NoNeedlessRepeat

(* Where neither an answer nor a worker is lost, the retries of a          *)
(* notification trigger its channel once, and tell its user again only     *)
(* for the sake of the channel (NotificationActionService.send).           *)
THEOREM NotificationsNotRepeated == Spec => []NoNeedlessRepeat
<1>1. Init => RepeatInv
  BY RepeatInitial
<1>2. RepeatInv /\ [Next]_vars => RepeatInv'
  BY RepeatStep
<1>3. RepeatInv => NoNeedlessRepeat
  BY DEF RepeatInv
<1> QED
  BY <1>1, <1>2, <1>3, PTL DEF Spec

-----------------------------------------------------------------------------
(* Reading.                                                                *)
FirstRead ==
  \A n \in DOMAIN notices :
    notices'[n].marks > notices[n].marks /\ notices[n].marks > 0 =>
      \E q \in Readers : found[q] = n /\ found'[q] = 0

LEMMA FirstReadStep == TypeInv /\ [Next]_vars => FirstRead
<1> SUFFICES ASSUME TypeInv, [Next]_vars PROVE FirstRead
  OBVIOUS
<1>1. /\ \A n \in DOMAIN notices : notices[n] \in NotificationLog /\ notices[n].marks \in Nat
      /\ found \in [Readers -> {0} \cup DOMAIN notices]
      /\ 0 \notin DOMAIN notices
  <2>1. found \in [Readers -> {0} \cup DOMAIN notices]
    BY DEF TypeInv
  <2>2. DOMAIN notices = 1..Len(notices) /\ Len(notices) \in Nat
    BY RowsTyped
  <2>3. \A n \in 1..Len(notices) : notices[n] \in NotificationLog
    BY RowsTyped
  <2>4. \A l \in NotificationLog : l.marks \in Nat
    BY DEF NotificationLog
  <2> QED
    BY <2>1, <2>2, <2>3, <2>4
<1>2. ASSUME \A n \in DOMAIN notices : notices'[n].marks = notices[n].marks
      PROVE  FirstRead
  BY <1>1, <1>2 DEF FirstRead
<1>3. ASSUME NEW q \in Readers, MarkAsRead(q)
      PROVE  FirstRead
  <2>1. CASE notices' = Marked(found[q])
    <3>1. \A n \in DOMAIN notices : n # found[q] => notices'[n] = notices[n]
      BY <2>1 DEF Marked
    <3>2. found[q] \in DOMAIN notices /\ found'[q] = 0
      BY <1>1, <1>3 DEF MarkAsRead
    <3> QED
      BY <1>1, <3>1, <3>2 DEF FirstRead
  <2>2. CASE notices' = notices
    BY <1>2, <2>2
  <2> QED
    BY <1>3, <2>1, <2>2 DEF MarkAsRead
<1>4. CASE MarkAllAsRead
  <2>1. \A n \in DOMAIN notices : notices[n].marks > 0 => notices'[n] = notices[n]
    BY <1>1, <1>4 DEF MarkAllAsRead
  <2> QED
    BY <1>1, <2>1 DEF FirstRead
<1>5. CASE Aside /\ notices' = notices
  BY <1>2, <1>5
<1>6. ASSUME NEW r \in Runs,
             \/ \E a \in Actions : Call(r, a)
             \/ CreateEmailLog(r) \/ SendMail(r) \/ MarkSent(r) \/ MarkFailed(r)
             \/ Fetch(r) \/ Leave(r) \/ Crash(r)
      PROVE  FirstRead
  <2>1. notices' = notices
    BY <1>6 DEF Call, CreateEmailLog, SendMail, MarkSent, MarkFailed, Fetch, Leave, Crash
  <2> QED
    BY <1>2, <2>1
<1>7. ASSUME NEW r \in Runs, CreateNotice(r)
      PROVE  FirstRead
  BY <1>2, <1>7, CreateNoticeStep DEF Added
<1>8. ASSUME NEW r \in Runs, TellUser(r) \/ Trigger(r)
      PROVE  FirstRead
  <2>1. /\ notices'[Row(r)].marks = notices[Row(r)].marks
        /\ \A n \in DOMAIN notices \ {Row(r)} : notices'[n] = notices[n]
    BY <1>8, TellUserStep, TriggerStep DEF NoticeMoves, OnlyNotice
  <2> QED
    BY <1>2, <2>1
<1>9. Aside => \/ notices' = notices
               \/ \E q \in Readers : MarkAsRead(q)
               \/ MarkAllAsRead
  BY DEF Aside, callVars, vars, FindUnread
<1> QED
  BY <1>3, <1>4, <1>5, <1>6, <1>7, <1>8, <1>9, StepKinds

(* The time at which a notification was first read is only overwritten by  *)
(* a request that had found it unread (NotificationLogService.markAsRead,  *)
(* markAllAsRead).                                                         *)
THEOREM FirstReadKept == Spec => FirstReadStays
<1>1. Init => TypeInv
  BY TypeInit
<1>2. TypeInv /\ [Next]_vars => TypeInv'
  BY TypeStep
<1>3. TypeInv /\ [Next]_vars =>
        [\A n \in DOMAIN notices :
           notices'[n].marks > notices[n].marks /\ notices[n].marks > 0 =>
             \E q \in Readers : found[q] = n /\ found'[q] = 0]_vars
  BY FirstReadStep DEF FirstRead
<1> QED
  BY <1>1, <1>2, <1>3, PTL DEF Spec, FirstReadStays

-----------------------------------------------------------------------------
(* The services implement ActionCalls.                                     *)
Seen(r) == IF call[r].at \in Working THEN "running" ELSE call[r].at

LEMMA SeenAt ==
  ASSUME NEW at
  PROVE  /\ at \in {"log", "mail", "sent", "failed", "notice", "tell", "trigger", "fetch"} =>
              at \in Working
         /\ at \in {"idle", "returned", "threw"} => at \notin Working
  BY DEF Working, Stages

\* What a run sees is a state of ActionCalls, and steps of one run move one.
LEMMA EngineMoves ==
  ASSUME NEW r \in Runs,
         \A s \in Runs \ {r} : Seen(s)' = Seen(s) /\ Effect(s)' = Effect(s),
         \/ Seen(r) = "idle" /\ Seen(r)' = "running" /\ Effect(r)' = FALSE
         \/ /\ Seen(r) = "running" /\ Effect(r) = FALSE
            /\ Seen(r)' = "running" /\ Effect(r)' = TRUE
         \/ Seen(r) = "running" /\ Seen(r)' = "returned" /\ Effect(r)' = TRUE
         \/ Seen(r) = "running" /\ Seen(r)' = "threw" /\ Effect(r)' \in {Effect(r), TRUE}
         \/ /\ Seen(r) \in {"running", "returned", "threw"}
            /\ Seen(r)' = "idle" /\ Effect(r)' = FALSE
         \/ Seen(r)' = Seen(r) /\ Effect(r)' = Effect(r)
  PROVE  Engine!Next \/ UNCHANGED Engine!vars
<1> DEFINE state == [s \in Runs |-> IF call[s].at \in Working THEN "running" ELSE call[s].at]
           done == [s \in Runs |-> Effect(s)]
<1>1. /\ state = [s \in Runs |-> Seen(s)]
      /\ state' = [s \in Runs |-> Seen(s)']
      /\ done' = [s \in Runs |-> Effect(s)']
  BY DEF Seen
<1>2. state[r] = Seen(r) /\ done[r] = Effect(r)
  BY <1>1
<1>3. /\ state' = [state EXCEPT ![r] = Seen(r)']
      /\ done' = [done EXCEPT ![r] = Effect(r)']
  <2>1. \A s \in Runs : /\ state[s] = Seen(s) /\ state'[s] = Seen(s)'
                        /\ done[s] = Effect(s) /\ done'[s] = Effect(s)'
    BY <1>1
  <2>2. /\ state = [s \in Runs |-> state[s]] /\ state' = [s \in Runs |-> state'[s]]
        /\ done = [s \in Runs |-> done[s]] /\ done' = [s \in Runs |-> done'[s]]
    OBVIOUS
  <2> HIDE DEF state, done
  <2>3. \A s \in Runs : s # r => state'[s] = state[s] /\ done'[s] = done[s]
    BY <2>1
  <2>4. state' = [state EXCEPT ![r] = state'[r]] /\ done' = [done EXCEPT ![r] = done'[r]]
    BY <2>2, <2>3
  <2> QED
    BY <2>1, <2>4
<1>4. CASE Seen(r)' = Seen(r) /\ Effect(r)' = Effect(r)
  <2>1. state' = state /\ done' = done
    BY <1>1, <1>4
  <2> QED
    BY <2>1 DEF Engine!vars
<1> HIDE DEF state, done
<1>5. CASE Seen(r) = "idle" /\ Seen(r)' = "running" /\ Effect(r)' = FALSE
  <2>1. Engine!Move(r, {"idle"}, "running", FALSE)
    BY <1>2, <1>3, <1>5 DEF Engine!Move, state, done
  <2> QED
    BY <2>1 DEF Engine!Next
<1>6. CASE /\ Seen(r) = "running" /\ Effect(r) = FALSE
           /\ Seen(r)' = "running" /\ Effect(r)' = TRUE
  <2>1. Engine!TakesEffect(r)
    BY <1>2, <1>3, <1>6 DEF Engine!TakesEffect, Engine!Move, state, done
  <2> QED
    BY <2>1 DEF Engine!Next
<1>7. CASE Seen(r) = "running" /\ Seen(r)' = "returned" /\ Effect(r)' = TRUE
  <2>1. Engine!Move(r, {"running"}, "returned", TRUE)
    BY <1>2, <1>3, <1>7 DEF Engine!Move, state, done
  <2> QED
    BY <2>1 DEF Engine!Next
<1>8. CASE Seen(r) = "running" /\ Seen(r)' = "threw" /\ Effect(r)' \in {Effect(r), TRUE}
  <2>1. PICK effect \in {done[r], TRUE} : effect = Effect(r)'
    BY <1>2, <1>8
  <2>2. Engine!Move(r, {"running"}, "threw", effect)
    BY <1>2, <1>3, <1>8, <2>1 DEF Engine!Move, state, done
  <2> QED
    BY <2>1, <2>2 DEF Engine!Next, done
<1>9. CASE /\ Seen(r) \in {"running", "returned", "threw"}
           /\ Seen(r)' = "idle" /\ Effect(r)' = FALSE
  <2>1. Engine!Move(r, {"running", "returned", "threw"}, "idle", FALSE)
    BY <1>2, <1>3, <1>9 DEF Engine!Move, state, done
  <2> QED
    BY <2>1 DEF Engine!Next
<1> QED
  BY <1>4, <1>5, <1>6, <1>7, <1>8, <1>9

\* What the effect of a call is, by its kind.
LEMMA EffectOf ==
  ASSUME NEW r \in Runs
  PROVE  /\ OfMail(r) => Effect(r) = emails[Row(r)].accepted
         /\ OfNotice(r) => Effect(r) = TRUE
         /\ call[r].row = 0 => Effect(r) = call[r].reached
<1>1. CASE OfMail(r)
  BY <1>1 DEF Effect, OfMail, OfNotice, Row
<1>2. CASE OfNotice(r)
  BY <1>2 DEF Effect, OfMail, OfNotice, Row
<1>3. CASE ~OfMail(r) /\ ~OfNotice(r)
  BY <1>3 DEF Effect, OfMail, OfNotice, Row
<1> QED
  BY <1>1, <1>2, <1>3

LEMMA EffectOfNext ==
  ASSUME NEW r \in Runs
  PROVE  /\ OfMail(r)' => Effect(r)' = emails'[call'[r].row].accepted
         /\ OfNotice(r)' => Effect(r)' = TRUE
         /\ call'[r].row = 0 => Effect(r)' = call'[r].reached
<1>1. CASE OfMail(r)'
  BY <1>1 DEF Effect, OfMail, OfNotice, Row
<1>2. CASE OfNotice(r)'
  BY <1>2 DEF Effect, OfMail, OfNotice, Row
<1>3. CASE ~OfMail(r)' /\ ~OfNotice(r)'
  BY <1>3 DEF Effect, OfMail, OfNotice, Row
<1> QED
  BY <1>1, <1>2, <1>3

\* A run that keeps its call keeps its effect, if its mail's row is left alone.
LEMMA EffectKept ==
  ASSUME TypeInv, NEW s \in Runs, call'[s] = call[s],
         OfMail(s) => emails'[Row(s)].accepted = emails[Row(s)].accepted
  PROVE  Seen(s)' = Seen(s) /\ Effect(s)' = Effect(s)
<1>1. Seen(s)' = Seen(s)
  BY DEF Seen
<1>2. InStage(call[s], Len(emails), Len(notices))
  BY DEF TypeInv
<1>3. OfMail(s) \/ OfNotice(s) \/ call[s].row = 0
  BY <1>2, NoCallFields DEF InStage, MailCall, NoticeCall, HookCall, OfMail, OfNotice
<1>4. /\ OfMail(s)' <=> OfMail(s)
      /\ OfNotice(s)' <=> OfNotice(s)
      /\ call'[s].row = Row(s)
  BY DEF OfMail, OfNotice, Row
<1>5. Effect(s)' = Effect(s)
  BY <1>3, <1>4, EffectOf, EffectOfNext
<1> QED
  BY <1>1, <1>5

LEMMA OthersKept ==
  ASSUME RowInv, NEW r \in Runs, OthersStay(r),
         \A n \in DOMAIN emails : (n = Row(r) /\ OfMail(r)) \/ emails'[n] = emails[n]
  PROVE  \A s \in Runs \ {r} : Seen(s)' = Seen(s) /\ Effect(s)' = Effect(s)
<1>1. ASSUME NEW s \in Runs \ {r}
      PROVE  Seen(s)' = Seen(s) /\ Effect(s)' = Effect(s)
  <2>1. TypeInv /\ call'[s] = call[s]
    BY DEF RowInv, OthersStay
  <2>2. OfMail(s) => emails'[Row(s)] = emails[Row(s)]
    BY <2>1, RowOf, OthersRows
  <2> QED
    BY <2>1, <2>2, EffectKept
<1> QED
  BY <1>1

LEMMA EngineMail ==
  ASSUME MailInv, NEW r \in Runs, SendMail(r) \/ MarkSent(r) \/ MarkFailed(r)
  PROVE  Engine!Next \/ UNCHANGED Engine!vars
<1>0. RowInv /\ TypeInv /\ MailStage(r)
  BY DEF MailInv, RowInv, MailStages
<1>1. /\ MailMoves(r) /\ call[r].at \in {"mail", "sent", "failed"}
      /\ \/ /\ call[r].at = "mail" /\ call'[r].at \in {"sent", "failed"}
            /\ emails'[Row(r)].accepted = TRUE \/ emails' = emails
         \/ /\ call[r].at = "sent" /\ call'[r].at \in {"returned", "failed"}
            /\ emails'[Row(r)].accepted = emails[Row(r)].accepted
         \/ /\ call[r].at = "failed" /\ call'[r].at = "threw"
            /\ emails'[Row(r)].accepted = emails[Row(r)].accepted
  BY <1>0, SendMailStep, MarkSentStep, MarkFailedStep
<1>2. /\ OfMail(r) /\ call[r].action \in Actions /\ OthersStay(r) /\ CallStays(r)
      /\ \A n \in DOMAIN emails : n = Row(r) \/ emails'[n] = emails[n]
  BY <1>0, <1>1, RowOf DEF MailMoves, OnlyEmail
<1>3. Effect(r) = emails[Row(r)].accepted /\ Effect(r)' = emails'[Row(r)].accepted
  BY <1>2, EffectOf, EffectOfNext DEF CallStays, OfMail, Row
<1>4. /\ Seen(r) = "running"
      /\ Seen(r)' = IF call'[r].at \in {"sent", "failed"} THEN "running" ELSE call'[r].at
  BY <1>1, SeenAt DEF Seen
<1>5. \A s \in Runs \ {r} : Seen(s)' = Seen(s) /\ Effect(s)' = Effect(s)
  BY <1>0, <1>2, OthersKept
<1>6. CASE call[r].at = "mail"
  <2>1. /\ Effect(r) = FALSE /\ Effect(r)' \in {FALSE, TRUE}
        /\ Seen(r)' = "running"
    BY <1>0, <1>1, <1>3, <1>4, <1>6 DEF MailStage
  <2> QED
    BY <1>4, <1>5, <2>1, EngineMoves
<1>7. CASE call[r].at = "sent"
  <2>1. /\ Effect(r) = TRUE /\ Effect(r)' = TRUE
        /\ Seen(r)' \in {"running", "returned"}
    BY <1>0, <1>1, <1>3, <1>4, <1>7 DEF MailStage
  <2> QED
    BY <1>4, <1>5, <2>1, EngineMoves
<1>8. CASE call[r].at = "failed"
  <2>1. Effect(r)' = Effect(r) /\ Seen(r)' = "threw"
    BY <1>1, <1>3, <1>4, <1>8
  <2> QED
    BY <1>4, <1>5, <2>1, EngineMoves
<1> QED
  BY <1>1, <1>6, <1>7, <1>8

LEMMA EngineNotice ==
  ASSUME RowInv, NEW r \in Runs, TellUser(r) \/ Trigger(r)
  PROVE  Engine!Next \/ UNCHANGED Engine!vars
<1>0. TypeInv
  BY DEF RowInv
<1>1. /\ NoticeMoves(r) /\ call[r].at \in {"tell", "trigger"}
      /\ call'[r].at \in {"trigger", "returned", "threw"}
  BY <1>0, TellUserStep, TriggerStep DEF AfterTelling
<1>2. /\ OfNotice(r) /\ call[r].action \in Actions /\ OthersStay(r) /\ CallStays(r)
      /\ emails' = emails
  BY <1>0, <1>1, RowOf DEF NoticeMoves, OnlyNotice
<1>3. Effect(r) = TRUE /\ Effect(r)' = TRUE
  BY <1>2, EffectOf, EffectOfNext DEF CallStays, OfNotice
<1>4. /\ Seen(r) = "running"
      /\ Seen(r)' = IF call'[r].at = "trigger" THEN "running" ELSE call'[r].at
  BY <1>1, SeenAt DEF Seen
<1>5. \A s \in Runs \ {r} : Seen(s)' = Seen(s) /\ Effect(s)' = Effect(s)
  BY <1>2, OthersKept
<1> QED
  BY <1>1, <1>3, <1>4, <1>5, EngineMoves

\* The mail's row is there before the mail is out: nothing has happened yet.
LEMMA EngineCreatesMail ==
  ASSUME RowInv, NEW r \in Runs, CreateEmailLog(r)
  PROVE  Engine!Next \/ UNCHANGED Engine!vars
<1>1. /\ OthersStay(r) /\ call[r].at = "log" /\ MailCall(call[r], Len(emails))
      /\ call[r].row = 0
      /\ call'[r].action = call[r].action /\ call'[r].reached = FALSE
      /\ \A n \in DOMAIN emails : emails'[n] = emails[n]
      /\ \/ /\ call'[r].at = "mail" /\ call'[r].row # 0
            /\ emails'[call'[r].row].accepted = FALSE
         \/ call'[r].at = "threw" /\ call'[r].row = 0
  BY CreateEmailLogStep DEF RowInv, Added
<1>2. Effect(r) = FALSE /\ Effect(r)' = FALSE
  <2>1. call[r].action \in Actions /\ call[r].action.kind = "email" /\ call[r].reached = FALSE
    BY <1>1 DEF MailCall
  <2> QED
    BY <1>1, <2>1, EffectOf, EffectOfNext DEF OfMail
<1>3. /\ Seen(r) = "running"
      /\ Seen(r)' = IF call'[r].at = "mail" THEN "running" ELSE "threw"
  BY <1>1, SeenAt DEF Seen
<1>4. \A s \in Runs \ {r} : Seen(s)' = Seen(s) /\ Effect(s)' = Effect(s)
  BY <1>1, OthersKept
<1> QED
  BY <1>1, <1>2, <1>3, <1>4, EngineMoves

\* The notification's row is the notification.
LEMMA EngineCreatesNotice ==
  ASSUME RowInv, NEW r \in Runs, CreateNotice(r)
  PROVE  Engine!Next \/ UNCHANGED Engine!vars
<1>1. /\ OthersStay(r) /\ call[r].at = "notice" /\ NoticeCall(call[r], Len(notices))
      /\ call[r].row = 0
      /\ call'[r].action = call[r].action /\ call'[r].reached = FALSE
      /\ emails' = emails
      /\ \/ call'[r].at \in {"tell", "trigger", "returned"} /\ call'[r].row # 0
         \/ call'[r].at = "threw" /\ call'[r].row = 0
  BY CreateNoticeStep DEF RowInv, Added, AfterTelling
<1>2. /\ Effect(r) = FALSE
      /\ Effect(r)' = (call'[r].row # 0)
  <2>1. /\ call[r].action \in Actions /\ call[r].action.kind = "notification"
        /\ call[r].reached = FALSE
    BY <1>1 DEF NoticeCall
  <2> QED
    BY <1>1, <2>1, EffectOf, EffectOfNext DEF OfNotice
<1>3. /\ Seen(r) = "running"
      /\ Seen(r)' = IF call'[r].at \in {"tell", "trigger"} THEN "running" ELSE call'[r].at
  BY <1>1, SeenAt DEF Seen
<1>4. \A s \in Runs \ {r} : Seen(s)' = Seen(s) /\ Effect(s)' = Effect(s)
  BY <1>1, OthersKept
<1> QED
  BY <1>1, <1>2, <1>3, <1>4, EngineMoves

LEMMA EngineFetch ==
  ASSUME RowInv, NEW r \in Runs, Fetch(r)
  PROVE  Engine!Next \/ UNCHANGED Engine!vars
<1>1. /\ OthersStay(r) /\ call[r].at = "fetch" /\ HookCall(call[r]) /\ call[r].reached = FALSE
      /\ call'[r].action = call[r].action /\ call'[r].row = 0 /\ emails' = emails
      /\ \/ call'[r].at \in {"returned", "threw"} /\ call'[r].reached = TRUE
         \/ call'[r].at = "threw" /\ call'[r].reached = FALSE
  BY FetchStep DEF RowInv
<1>2. Effect(r) = FALSE /\ Effect(r)' = call'[r].reached
  BY <1>1, EffectOf, EffectOfNext DEF HookCall
<1>3. Seen(r) = "running" /\ Seen(r)' = call'[r].at
  BY <1>1, SeenAt DEF Seen
<1>4. \A s \in Runs \ {r} : Seen(s)' = Seen(s) /\ Effect(s)' = Effect(s)
  BY <1>1, OthersKept
<1> QED
  BY <1>1, <1>2, <1>3, <1>4, EngineMoves

LEMMA EngineCallsAndLeaves ==
  ASSUME RowInv, NEW r \in Runs,
         (\E a \in Actions : Call(r, a)) \/ Leave(r) \/ Crash(r)
  PROVE  Engine!Next \/ UNCHANGED Engine!vars
<1>0. TypeInv
  BY DEF RowInv
<1>1. CASE \E a \in Actions : Call(r, a)
  <2>1. /\ OthersStay(r) /\ emails' = emails /\ call[r].at = "idle"
        /\ call'[r].action \in Actions /\ call'[r].row = 0 /\ call'[r].reached = FALSE
        /\ call'[r].at \in {"log", "notice", "fetch"}
    BY <1>0, <1>1, CallStep, NoCallFields
  <2>2. Effect(r)' = FALSE /\ Seen(r) = "idle" /\ Seen(r)' = "running"
    BY <2>1, EffectOfNext, SeenAt DEF Seen
  <2>3. \A s \in Runs \ {r} : Seen(s)' = Seen(s) /\ Effect(s)' = Effect(s)
    BY <2>1, OthersKept
  <2> QED
    BY <2>2, <2>3, EngineMoves
<1>2. CASE Leave(r) \/ Crash(r)
  <2>1. /\ OthersStay(r) /\ emails' = emails /\ call'[r] = NoCall
        /\ call[r].at # "idle" /\ call[r].at \in Stages
    BY <1>0, <1>2, LeaveStep, WhichCall DEF Leave, Crash, At, CallRecord
  <2>2. Effect(r)' = FALSE /\ Seen(r)' = "idle"
    BY <2>1, NoCallFields, EffectOfNext, SeenAt DEF Seen
  <2>3. Seen(r) \in {"running", "returned", "threw"}
    BY <2>1 DEF Seen, Working
  <2>4. \A s \in Runs \ {r} : Seen(s)' = Seen(s) /\ Effect(s)' = Effect(s)
    BY <2>1, OthersKept
  <2> QED
    BY <2>2, <2>3, <2>4, EngineMoves
<1> QED
  BY <1>1, <1>2

LEMMA EngineAside ==
  ASSUME TypeInv, Aside
  PROVE  UNCHANGED Engine!vars
<1>1. UNCHANGED <<call, emails>>
  BY AsideStep
<1>2. \A s \in Runs : Seen(s)' = Seen(s) /\ Effect(s)' = Effect(s)
  BY <1>1, EffectKept
<1> QED
  BY <1>1, <1>2 DEF Engine!vars

LEMMA EngineStep == MailInv /\ [Next]_vars => Engine!Next \/ UNCHANGED Engine!vars
<1> SUFFICES ASSUME MailInv, [Next]_vars PROVE Engine!Next \/ UNCHANGED Engine!vars
  OBVIOUS
<1>1. RowInv /\ TypeInv
  BY DEF MailInv, RowInv
<1> QED
  BY <1>1, StepKinds, EngineAside, EngineMail, EngineNotice, EngineCreatesMail,
     EngineCreatesNotice, EngineFetch, EngineCallsAndLeaves

LEMMA EngineInit == Init => Engine!Init
<1> SUFFICES ASSUME Init PROVE Engine!Init
  OBVIOUS
<1>1. \A r \in Runs : call[r].at = "idle" /\ call[r].row = 0 /\ call[r].reached = FALSE
  BY NoCallFields DEF Init
<1>2. \A r \in Runs : Effect(r) = FALSE
  BY <1>1, EffectOf
<1>3. "idle" \notin Working
  BY SeenAt
<1> QED
  BY <1>1, <1>2, <1>3 DEF Engine!Init

(* The services implement ActionCalls, under every fault: a call that      *)
(* returns has taken effect, and none takes effect twice.  It is what the  *)
(* worker's Perform and PerformThrows assume of a service.                 *)
THEOREM ServicesImplementCalls == Spec => ImplementsActionCalls
<1>1. Init => Engine!Init
  BY EngineInit
<1>2. MailInv /\ [Next]_vars => [Engine!Next]_Engine!vars
  BY EngineStep
<1> QED
  BY <1>1, <1>2, MailAlways, PTL DEF Spec, ImplementsActionCalls, Engine!Spec

=============================================================================
