------------------------- MODULE MCAutomationWorker -------------------------
(* AutomationWorker for TLC: small plans and the fault sets of the runs.   *)
EXTENDS AutomationWorker

CONSTANTS e1, w1, w2, r1, mail, push, x, y, none

\* Two actions of one rule with keys of their own, and a third that differs
\* from the first in nothing the key is built from.
Mail == [id |-> 1, rule |-> r1, type |-> mail, target |-> x]
Push == [id |-> 2, rule |-> r1, type |-> push, target |-> y]
MailAgain == [id |-> 3, rule |-> r1, type |-> mail, target |-> x]

MCActions == {Mail, Push, MailAgain}

NoSharedKey == {<<>>, <<Mail>>, <<Mail, Push>>}
EitherOrder == {<<>>, <<Mail>>, <<Mail, Push>>, <<Push, Mail>>}
OneAction == {<<Mail>>}
NoneOrOne == {<<>>, <<Mail>>}
SharedKey == {<<Mail, MailAgain>>}

\* Everything but stale runs and edited rules: services that fail over a
\* dependable database and workers, workers that crash, a failing database.
Orderly == {{"action", "late", "overrun", "evict"}, {"action", "late", "ack", "evict"},
            {"action", "late", "reorder"}, {"action", "crash", "evict"},
            {"action", "db", "evict"}, {"action", "crash", "db", "reorder"},
            AllFaults \ {"zombie", "edit", "reorder", "evict"}}

Anything == {AllFaults}

NoFault == {{}}
FailingActions == {{"action"}}
FailingDatabase == {{"action", "db"}}
StaleRuns == {{"action", "zombie", "overrun"}}

=============================================================================
