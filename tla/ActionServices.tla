--------------------------- MODULE ActionServices ---------------------------
(***************************************************************************)
(* The three kinds of action a rule can have, await by await: the e-mail   *)
(* with its log row, the notification with its log row and up to two       *)
(* Pusher calls, the webhook.  Calls come from concurrent runs of the rule *)
(* engine, which calls again what threw and not what returned; the log     *)
(* tables are those PartitionBootstrap prepares, and notifications are     *)
(* read through NotificationLogService meanwhile.                          *)
(*                                                                         *)
(* faults:  "transport"  SMTP, Pusher or the webhook's host refuses        *)
(*          "late"       it throws although the outside world saw it       *)
(*          "db"         a statement fails                                 *)
(*          "ack"        a statement commits and its answer is lost        *)
(*          "crash"      a process dies                                    *)
(*          "refused"    findFirst refuses the compound key it is given    *)
(*                       (no field of NotificationLogWhereInput)           *)
(***************************************************************************)
EXTENDS PartitionBootstrap, FiniteSets

CONSTANTS
  Runs,        \* runs of the rule engine
  Actions,     \* the actions they carry out, one key each
  Readers,     \* markAsRead requests that can be served at one time
  EmailLogs, NotificationLogs,   \* the partitions their rows go to
  NoAction,
  MaxCalls,    \* bound: calls of send()
  FaultSets

VARIABLES
  call,        \* call[r]: the call run r is making
  emails,      \* rows of email_logs, and whether the transport took the mail
  notices,     \* rows of notification_logs, and what became of them
  completed,   \* actions whose key is COMPLETED
  calls,       \* calls made so far
  found        \* found[q]: the unread row markAsRead q has found, or 0

callVars == <<call, emails, notices, completed, calls>>
vars == <<faults, partitions, boot, call, emails, notices, completed, calls, found>>

AllFaults == {"transport", "late", "db", "ack", "crash", "refused"}

\* user: someone is told; named: eventName is set; channel: pushChannel as it
\* is after templates are resolved.
Action ==
  [kind : {"email", "notification", "webhook"}, user : BOOLEAN, named : BOOLEAN,
   channel : {"none", "invalid", "valid"}]

ASSUME ActionsAssumption ==
  /\ Actions \subseteq Action /\ NoAction \notin Actions
  /\ MaxCalls \in Nat
  /\ FaultSets \subseteq SUBSET AllFaults

EmailLog == [action : Actions, status : {"PENDING", "SENT", "FAILED"}, accepted : BOOLEAN]
NotificationLog ==
  [action : Actions, told : BOOLEAN, triggered : BOOLEAN, marks : Nat]

Stages ==
  {"idle", "log", "mail", "sent", "failed", "notice", "tell", "trigger", "fetch",
   "returned", "threw"}
Working == Stages \ {"idle", "returned", "threw"}

\* row: the log row of the call; reached: the webhook's host got the request.
NoCall == [at |-> "idle", action |-> NoAction, row |-> 0, reached |-> FALSE]

(* Rows and locals are what they should be, and a call between its first   *)
(* insert and its end has its row.                                         *)
TypeOK ==
  /\ BootTypeOK
  /\ faults \subseteq AllFaults
  /\ call \in [Runs -> [at : Stages, action : Actions \cup {NoAction},
                        row : 0..MaxCalls, reached : BOOLEAN]]
  /\ emails \in Seq(EmailLog) /\ notices \in Seq(NotificationLog)
  /\ completed \subseteq Actions /\ calls \in 0..MaxCalls
  /\ found \in [Readers -> {0} \cup DOMAIN notices]
  /\ \A r \in Runs :
       /\ call[r].at \in {"mail", "sent", "failed"} => call[r].row \in DOMAIN emails
       /\ call[r].at \in {"tell", "trigger"} => call[r].row \in DOMAIN notices
       /\ call[r].at = "idle" => call[r] = NoCall

Init ==
  /\ faults \in FaultSets
  /\ BootInit
  /\ call = [r \in Runs |-> NoCall]
  /\ emails = <<>> /\ notices = <<>>
  /\ completed = {} /\ calls = 0
  /\ found = [q \in Readers |-> 0]

-----------------------------------------------------------------------------
At(r, stage) == call[r].at = stage
Row(r) == call[r].row
GoTo(r, stage) == call' = [call EXCEPT ![r].at = stage]

ElseUnchanged == UNCHANGED <<faults, partitions, boot, found>>

(* normalizePushChannel(): a name Pusher would not take counts as none.    *)
HasChannel(a) == a.named /\ a.channel = "valid"

Fails(how) == how \in faults

(* executeRule() has acquired the action's key and calls the service.      *)
Call(r, a) ==
  /\ At(r, "idle") /\ calls < MaxCalls
  /\ a \notin completed /\ \A s \in Runs : call[s].action # a
  /\ calls' = calls + 1
  /\ call' = [call EXCEPT ![r] =
       [NoCall EXCEPT !.action = a,
                      !.at = CASE a.kind = "email" -> "log"
                               [] a.kind = "notification" -> "notice"
                               [] a.kind = "webhook" -> "fetch"]]
  /\ UNCHANGED <<emails, notices, completed>> /\ ElseUnchanged

(* Faulty variant, for the mutation runs: the locals of the call survive.  *)
LeaveKeepingCall(r) ==
  /\ call[r].at \in {"returned", "threw"}
  /\ GoTo(r, "idle")
  /\ UNCHANGED <<emails, notices, completed, calls>> /\ ElseUnchanged

(* ... and closes the key when it is back, if the database lets it.        *)
Leave(r) ==
  /\ call[r].at \in {"returned", "threw"}
  /\ call' = [call EXCEPT ![r] = NoCall]
  /\ \/ At(r, "returned") /\ completed' = completed \cup {call[r].action}
     \/ /\ At(r, "threw") \/ Fails("db")
        /\ UNCHANGED completed
  /\ UNCHANGED <<emails, notices, calls>> /\ ElseUnchanged

-----------------------------------------------------------------------------
(* EmailActionService.send: the row is inserted outside the try block.     *)
CreateEmailLog(r) ==
  LET inserted == Append(emails, [action |-> call[r].action, status |-> "PENDING",
                                  accepted |-> FALSE])
  IN  /\ At(r, "log")
      /\ \/ /\ EmailLogs \in partitions
            /\ emails' = inserted
            /\ \/ call' = [call EXCEPT ![r].at = "mail", ![r].row = Len(inserted)]
               \/ Fails("ack") /\ GoTo(r, "threw")
         \/ /\ EmailLogs \notin partitions \/ Fails("db")
            /\ GoTo(r, "threw") /\ UNCHANGED emails
      /\ UNCHANGED <<notices, completed, calls>> /\ ElseUnchanged

(* Faulty variant, for the mutation runs: sendMail() is not awaited.       *)
SendMailUnawaited(r) ==
  /\ At(r, "mail")
  /\ \/ emails' = [emails EXCEPT ![Row(r)].accepted = TRUE]
     \/ Fails("transport") /\ UNCHANGED emails
  /\ GoTo(r, "sent")
  /\ UNCHANGED <<notices, completed, calls>> /\ ElseUnchanged

SendMail(r) ==
  /\ At(r, "mail")
  /\ \/ /\ emails' = [emails EXCEPT ![Row(r)].accepted = TRUE]
        /\ \/ GoTo(r, "sent")
           \/ Fails("late") /\ GoTo(r, "failed")
     \/ Fails("transport") /\ GoTo(r, "failed") /\ UNCHANGED emails
  /\ UNCHANGED <<notices, completed, calls>> /\ ElseUnchanged

(* The update to SENT is still inside the try block.                       *)
MarkSent(r) ==
  /\ At(r, "sent")
  /\ \/ /\ emails' = [emails EXCEPT ![Row(r)].status = "SENT"]
        /\ \/ GoTo(r, "returned")
           \/ Fails("ack") /\ GoTo(r, "failed")
     \/ Fails("db") /\ GoTo(r, "failed") /\ UNCHANGED emails
  /\ UNCHANGED <<notices, completed, calls>> /\ ElseUnchanged

(* Faulty variants, for the mutation runs: the catch block does not        *)
(* rethrow; it does not write.                                             *)
MarkFailedSwallowing(r) ==
  /\ At(r, "failed")
  /\ emails' = [emails EXCEPT ![Row(r)].status = "FAILED"]
  /\ GoTo(r, "returned")
  /\ UNCHANGED <<notices, completed, calls>> /\ ElseUnchanged

MarkFailedInLogOnly(r) ==
  /\ At(r, "failed")
  /\ GoTo(r, "threw")
  /\ UNCHANGED <<emails, notices, completed, calls>> /\ ElseUnchanged

(* The catch block marks the row and throws in any case: its own exception *)
(* or the one it caught.                                                   *)
MarkFailed(r) ==
  /\ At(r, "failed")
  /\ \/ emails' = [emails EXCEPT ![Row(r)].status = "FAILED"]
     \/ Fails("db") /\ UNCHANGED emails
  /\ GoTo(r, "threw")
  /\ UNCHANGED <<notices, completed, calls>> /\ ElseUnchanged

-----------------------------------------------------------------------------
(* NotificationActionService.send: insert, tell the user, trigger the      *)
(* channel; nothing is caught and nothing is taken back.                   *)
AfterTelling(a) == IF HasChannel(a) THEN "trigger" ELSE "returned"

CreateNotice(r) ==
  LET a == call[r].action
      inserted == Append(notices, [action |-> a, told |-> FALSE, triggered |-> FALSE,
                                   marks |-> 0])
  IN  /\ At(r, "notice")
      /\ \/ /\ NotificationLogs \in partitions
            /\ notices' = inserted
            /\ \/ call' = [call EXCEPT ![r].at = IF a.user THEN "tell" ELSE AfterTelling(a),
                                       ![r].row = Len(inserted)]
               \/ Fails("ack") /\ GoTo(r, "threw")
         \/ /\ NotificationLogs \notin partitions \/ Fails("db")
            /\ GoTo(r, "threw") /\ UNCHANGED notices
      /\ UNCHANGED <<emails, completed, calls>> /\ ElseUnchanged

(* Faulty variant, for the mutation runs: an eventName without a usable    *)
(* pushChannel throws in place of being skipped.                           *)
TellUserOrThrow(r) ==
  LET a == call[r].action
  IN  /\ At(r, "tell")
      /\ notices' = [notices EXCEPT ![Row(r)].told = TRUE]
      /\ GoTo(r, IF a.named /\ ~HasChannel(a) THEN "threw" ELSE AfterTelling(a))
      /\ UNCHANGED <<emails, completed, calls>> /\ ElseUnchanged

TellUser(r) ==
  /\ At(r, "tell")
  /\ \/ /\ notices' = [notices EXCEPT ![Row(r)].told = TRUE]
        /\ \/ GoTo(r, AfterTelling(call[r].action))
           \/ Fails("late") /\ GoTo(r, "threw")
     \/ Fails("transport") /\ GoTo(r, "threw") /\ UNCHANGED notices
  /\ UNCHANGED <<emails, completed, calls>> /\ ElseUnchanged

(* Faulty variant, for the mutation runs: Pusher's refusal is only logged. *)
TriggerBestEffort(r) ==
  /\ At(r, "trigger")
  /\ \/ notices' = [notices EXCEPT ![Row(r)].triggered = TRUE]
     \/ Fails("transport") /\ UNCHANGED notices
  /\ GoTo(r, "returned")
  /\ UNCHANGED <<emails, completed, calls>> /\ ElseUnchanged

Trigger(r) ==
  /\ At(r, "trigger")
  /\ \/ /\ notices' = [notices EXCEPT ![Row(r)].triggered = TRUE]
        /\ \/ GoTo(r, "returned")
           \/ Fails("late") /\ GoTo(r, "threw")
     \/ Fails("transport") /\ GoTo(r, "threw") /\ UNCHANGED notices
  /\ UNCHANGED <<emails, completed, calls>> /\ ElseUnchanged

-----------------------------------------------------------------------------
(* executeWebhook: any answer will do, a timeout or a failing fetch throws. *)
Fetch(r) ==
  /\ At(r, "fetch")
  /\ \/ call' = [call EXCEPT ![r].at = "returned", ![r].reached = TRUE]
     \/ Fails("late") /\ call' = [call EXCEPT ![r].at = "threw", ![r].reached = TRUE]
     \/ Fails("transport") /\ GoTo(r, "threw")
  /\ UNCHANGED <<emails, notices, completed, calls>> /\ ElseUnchanged

(* The worker dies; BullMQ will hand the job to another run.               *)
Crash(r) ==
  /\ Fails("crash") /\ ~At(r, "idle")
  /\ call' = [call EXCEPT ![r] = NoCall]
  /\ UNCHANGED <<emails, notices, completed, calls>> /\ ElseUnchanged

-----------------------------------------------------------------------------
(* NotificationLogService.markAsRead looks first, and updates by id alone. *)
FindUnread(q, n) ==
  /\ ~Fails("refused")
  /\ found[q] = 0 /\ n \in DOMAIN notices /\ notices[n].marks = 0
  /\ found' = [found EXCEPT ![q] = n]
  /\ UNCHANGED <<faults, partitions, boot, callVars>>

Marked(n) == [notices EXCEPT ![n].marks = @ + 1]

MarkAsRead(q) ==
  /\ found[q] # 0
  /\ \/ notices' = Marked(found[q])
     \/ Fails("db") /\ UNCHANGED notices
  /\ found' = [found EXCEPT ![q] = 0]
  /\ UNCHANGED <<faults, partitions, boot, call, emails, completed, calls>>

(* Faulty variant, for the mutation runs: without isRead = false.          *)
MarkAllAgain ==
  /\ \E n \in DOMAIN notices : notices[n].marks = 0
  /\ notices' = [n \in DOMAIN notices |-> [notices[n] EXCEPT !.marks = @ + 1]]
  /\ UNCHANGED <<call, emails, completed, calls>> /\ ElseUnchanged

(* markAllAsRead: one statement.                                           *)
MarkAllAsRead ==
  /\ \E n \in DOMAIN notices : notices[n].marks = 0
  /\ notices' = [n \in DOMAIN notices |->
                   IF notices[n].marks = 0 THEN [notices[n] EXCEPT !.marks = 1]
                                           ELSE notices[n]]
  /\ UNCHANGED <<call, emails, completed, calls>> /\ ElseUnchanged

-----------------------------------------------------------------------------
Next ==
  \/ BootNext /\ UNCHANGED <<callVars, found>>
  \/ \E r \in Runs :
       \/ \E a \in Actions : Call(r, a)
       \/ CreateEmailLog(r) \/ SendMail(r) \/ MarkSent(r) \/ MarkFailed(r)
       \/ CreateNotice(r) \/ TellUser(r) \/ Trigger(r)
       \/ Fetch(r)
       \/ Leave(r)
       \/ Crash(r)
  \/ \E q \in Readers : MarkAsRead(q) \/ \E n \in DOMAIN notices : FindUnread(q, n)
  \/ MarkAllAsRead

Spec == Init /\ [][Next]_vars

FairSpec == Spec /\ BootFairness

-----------------------------------------------------------------------------
AtWorkOn(n) ==
  {r \in Runs : call[r].at \in {"mail", "sent", "failed"} /\ call[r].row = n}

(* SENT stands for a mail the transport took, whatever fails; FAILED for   *)
(* one it did not take, unless it threw after taking it or the update to   *)
(* SENT failed: then the row says FAILED of a mail that is on its way.     *)
StatusHonest ==
  \A n \in DOMAIN emails :
    /\ emails[n].status = "SENT" => emails[n].accepted
    /\ emails[n].status = "FAILED" /\ Without({"late", "db", "ack"}) => ~emails[n].accepted

(* A row does not stay PENDING: when nobody is at work on it any more it   *)
(* is SENT or FAILED, unless the worker died or a statement failed.        *)
PendingIsInProgress ==
  Without({"crash", "db", "ack"}) =>
    \A n \in DOMAIN emails : emails[n].status = "PENDING" => AtWorkOn(n) # {}

(* A notification that counts as carried out was delivered to everyone its *)
(* configuration names, where an eventName whose pushChannel is missing or *)
(* invalid names nobody: every refusal by Pusher reaches the retry.        *)
DeliveredAsConfigured ==
  \A r \in Runs :
    At(r, "returned") /\ call[r].action.kind = "notification" =>
      LET row == notices[Row(r)]
      IN  /\ row.told <=> call[r].action.user
          /\ row.triggered <=> HasChannel(call[r].action)

(* The retries of a notification repeat what came before the failure: the  *)
(* user is told again for each refusal of the channel.  Without a channel  *)
(* nobody is told twice, and no channel is triggered twice, as long as     *)
(* answers and workers are not lost.                                       *)
NoNeedlessRepeat ==
  Without({"late", "crash", "db", "ack"}) =>
    \A m, n \in DOMAIN notices :
      m # n /\ notices[m].action = notices[n].action =>
        /\ ~(notices[m].triggered /\ notices[n].triggered)
        /\ notices[m].told /\ notices[n].told => HasChannel(notices[m].action)

(* The time a notification was read is that of the first request, unless a *)
(* markAsRead found it unread before that: markAllAsRead never overwrites  *)
(* it, nor does a markAsRead that came later.                              *)
FirstReadStays ==
  [][\A n \in DOMAIN notices :
       notices'[n].marks > notices[n].marks /\ notices[n].marks > 0 =>
         \E q \in Readers : found[q] = n /\ found'[q] = 0]_vars

Effect(r) ==
  CASE Row(r) = 0 -> call[r].reached
    [] Row(r) # 0 /\ call[r].action.kind = "email" -> emails[Row(r)].accepted
    [] Row(r) # 0 /\ call[r].action.kind = "notification" -> TRUE

Engine == INSTANCE ActionCalls WITH
  Callers <- Runs,
  state <- [r \in Runs |-> IF call[r].at \in Working THEN "running" ELSE call[r].at],
  done <- [r \in Runs |-> Effect(r)]

(* Whatever fails: a call that returns has taken effect (the mail was      *)
(* taken, the notification stored, the webhook answered), and each call    *)
(* takes effect at most once.  This is what AutomationWorker's Perform and *)
(* PerformThrows assume of a service.                                      *)
ImplementsActionCalls == Engine!Spec

=============================================================================
