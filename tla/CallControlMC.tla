--------------------------- MODULE CallControlMC ---------------------------
(* CallControl with values for its constants. *)
EXTENDS CallControl, TLC

CONSTANTS c1, c2, d1, d2, w1

Ask(actor, targets, direct) == [actor |-> actor, targets |-> targets, direct |-> direct]

(* A group call and a direct call that compete for the same users. *)
Competing == {Ask(1, {2, 3}, FALSE), Ask(3, {2}, TRUE)}
(* Call ids are interchangeable. *)
SymmetricCalls == Permutations(Calls)

(* A direct call, and a group call of two. *)
OfTwo == {Ask(1, {2}, TRUE), Ask(2, {1}, FALSE)}
=============================================================================
