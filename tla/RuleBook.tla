------------------------------ MODULE RuleBook ------------------------------
(***************************************************************************)
(* What rule management promises its administrators: a numbered list of    *)
(* rules, each known by its identity (event, service, conditions), that is *)
(* added to, changed and struck out in single steps and never holds the    *)
(* same identity twice.                                                    *)
(***************************************************************************)
EXTENDS Sequences, Naturals

CONSTANTS Identities, Gone

VARIABLE book

IsNew(i, identity) == \A j \in DOMAIN book \ {i} : book[j] # identity

Init ==
  /\ book \in Seq(Identities \cup {Gone})
  /\ \A i \in DOMAIN book : book[i] # Gone => IsNew(i, book[i])

Add ==
  LET identity == book'[Len(book')]
  IN  /\ Len(book') = Len(book) + 1
      /\ identity \in Identities /\ IsNew(0, identity)
      /\ book' = Append(book, identity)

Change(i) ==
  /\ book[i] # Gone
  /\ book'[i] \in Identities /\ IsNew(i, book'[i])
  /\ book' = [book EXCEPT ![i] = book'[i]]

StrikeOut(i) ==
  /\ book[i] # Gone
  /\ book' = [book EXCEPT ![i] = Gone]

Next == Add \/ \E i \in DOMAIN book : Change(i) \/ StrikeOut(i)

Spec == Init /\ [][Next]_book

=============================================================================
