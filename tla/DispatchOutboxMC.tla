-------------------------- MODULE DispatchOutboxMC --------------------------
(* Small instances of the dispatch outbox. *)
EXTENDS DispatchOutbox

CONSTANTS e1, u1, u2, n1, loop1, slot1, s1, s2

\* One node runs all tasks.
OneNode == [t \in Tasks |-> n1]
FromU1 == [e \in Events |-> u1]
=============================================================================
