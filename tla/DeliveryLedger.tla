--------------------------- MODULE DeliveryLedger ---------------------------
(***************************************************************************)
(* What the dispatch outbox promises, without tasks, leases or tokens: the *)
(* recipients of an event are recorded with it, each of them gets a budget *)
(* of attempts and one verdict that has to be earned, an event is closed   *)
(* when its last recipient is settled, and all of it is removed together.  *)
(***************************************************************************)
EXTENDS Naturals

CONSTANTS
    Events, Users, Sessions,
    SenderOf,      \* Events -> Users
    DirectEvents,  \* the events that have a delivered receipt
    Budget,        \* attempts per recipient
    NoReceipt

VARIABLES
    parent,        \* [Events -> "none", "pending", "dispatched", "dead", "deleted"]
    verdict,       \* [Rows -> "absent", "pending", or one of Final]
    tries,         \* [Rows -> Nat]: attempts begun
    pushes,        \* [Rows -> Nat]: pushes that reached the recipient
    stored,        \* rows with a copy in the offline queue
    receipt        \* [Events -> Users \X Sessions, or NoReceipt]

vars == <<parent, verdict, tries, pushes, stored, receipt>>

Rows == Events \X Users
Final == {"online", "offline", "dead"}
Verdicts == {"absent", "pending"} \cup Final

Init ==
    /\ parent = [e \in Events |-> "none"]
    /\ verdict = [r \in Rows |-> "absent"]
    /\ tries = [r \in Rows |-> 0]
    /\ pushes = [r \in Rows |-> 0]
    /\ stored = {}
    /\ receipt = [e \in Events |-> NoReceipt]

Record(e, R) ==
    /\ parent[e] = "none" /\ R # {}
    /\ parent' = [parent EXCEPT ![e] = "pending"]
    /\ verdict' = [r \in Rows |-> IF r[1] = e /\ r[2] \in R THEN "pending" ELSE verdict[r]]
    /\ UNCHANGED <<tries, pushes, stored, receipt>>

Attempt(S) ==
    /\ \A r \in S : parent[r[1]] = "pending" /\ verdict[r] = "pending" /\ tries[r] < Budget
    /\ tries' = [r \in Rows |-> IF r \in S THEN tries[r] + 1 ELSE tries[r]]
    /\ UNCHANGED <<parent, verdict, pushes, stored, receipt>>

(* An attempt may outlive the event; it never exceeds the budget. *)
Allowance(r) == IF parent[r[1]] = "deleted" THEN Budget ELSE tries[r]

Push(r) ==
    /\ pushes[r] < Allowance(r)
    /\ pushes' = [pushes EXCEPT ![r] = @ + 1]
    /\ UNCHANGED <<parent, verdict, tries, stored, receipt>>

Store(S) ==
    /\ \A r \in S : 0 < Allowance(r)
    /\ stored' = stored \cup S
    /\ UNCHANGED <<parent, verdict, tries, pushes, receipt>>

(* Only the first acknowledgement of the peer counts. *)
Acknowledge(e, u, s) ==
    /\ e \in DirectEvents /\ u # SenderOf[e] /\ pushes[<<e, u>>] > 0
    /\ receipt[e] = NoReceipt
    /\ receipt' = [receipt EXCEPT ![e] = <<u, s>>]
    /\ UNCHANGED <<parent, verdict, tries, pushes, stored>>

Earned(r, v) ==
    \/ v = "online" /\ pushes[r] > 0
    \/ v = "offline" /\ r \in stored
    \/ v = "dead" /\ tries[r] = Budget

Settle ==
    /\ verdict' \in [Rows -> Verdicts]
    /\ \A r \in Rows : verdict'[r] # verdict[r] =>
          parent[r[1]] = "pending" /\ verdict[r] = "pending" /\ Earned(r, verdict'[r])
    /\ UNCHANGED <<parent, tries, pushes, stored, receipt>>

Outcome(e) == IF \E u \in Users : verdict[<<e, u>>] = "dead" THEN "dead" ELSE "dispatched"

Close(E) ==
    /\ \A e \in E : parent[e] = "pending" /\ \A u \in Users : verdict[<<e, u>>] # "pending"
    /\ parent' = [e \in Events |-> IF e \in E THEN Outcome(e) ELSE parent[e]]
    /\ UNCHANGED <<verdict, tries, pushes, stored, receipt>>

Remove(E) ==
    /\ \A e \in E : parent[e] \in {"dispatched", "dead"}
    /\ parent' = [e \in Events |-> IF e \in E THEN "deleted" ELSE parent[e]]
    /\ verdict' = [r \in Rows |-> IF r[1] \in E THEN "absent" ELSE verdict[r]]
    /\ tries' = [r \in Rows |-> IF r[1] \in E THEN 0 ELSE tries[r]]
    /\ UNCHANGED <<pushes, stored, receipt>>

Next ==
    \/ \E e \in Events, R \in SUBSET Users : Record(e, R)
    \/ \E S \in SUBSET Rows : Attempt(S) \/ Store(S)
    \/ \E r \in Rows : Push(r)
    \/ \E e \in Events, u \in Users, s \in Sessions : Acknowledge(e, u, s)
    \/ Settle
    \/ \E E \in SUBSET Events : Close(E) \/ Remove(E)

Spec == Init /\ [][Next]_vars
=============================================================================
