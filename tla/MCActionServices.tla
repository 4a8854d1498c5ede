-------------------------- MODULE MCActionServices --------------------------
(* ActionServices for TLC: one action of every kind, a service none or     *)
(* some of whose partitions exist.                                         *)
EXTENDS ActionServices

CONSTANTS m1, m2, r1, r2, q1, auditLogs, emailLogs, noticeLogs, jobLogs, none

OneService == <<auditLogs, emailLogs, noticeLogs, jobLogs>>
LogsOfActions == <<emailLogs, noticeLogs>>

Mail == [kind |-> "email", user |-> FALSE, named |-> FALSE, channel |-> "none"]
Hook == [kind |-> "webhook", user |-> FALSE, named |-> FALSE, channel |-> "none"]
Note(user, named, channel) ==
  [kind |-> "notification", user |-> user, named |-> named, channel |-> channel]

MCActions == {Mail, Hook, Note(TRUE, TRUE, "valid"), Note(TRUE, TRUE, "invalid"),
              Note(FALSE, TRUE, "valid")}

MCFaults == {{}, {"transport", "refused"}, {"transport", "late", "refused"},
             {"crash", "refused"}, {"transport", "db", "ack", "refused"}}

=============================================================================
