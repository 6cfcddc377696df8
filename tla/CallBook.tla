------------------------------ MODULE CallBook ------------------------------
(***************************************************************************)
(* What call control promises, without locks, leases, effects or expiry:   *)
(* a call is opened at once for users who are in no other call, and from   *)
(* then on it only runs down: participants answer and go but never come    *)
(* back, each from the first device that answered, every change has a      *)
(* new version, and the page of an ended call is closed for good.          *)
(***************************************************************************)
EXTENDS Naturals

CONSTANTS Calls, Users, Devices, None

VARIABLE book      \* [Calls -> Pages \cup {None}]

InCall == {"invited", "joined"}
Parts == InCall \cup {"none", "left", "rejected"}
Pages == [starter : Users, state : {"ringing", "active", "ended"},
          reason : {"none", "timeout", "rejected", "cancelled", "normal"},
          part : [Users -> Parts], claim : [Users -> Devices \cup {None}], version : Nat]

Init == book = [c \in Calls |-> None]

Open(c) == book[c] # None /\ book[c].state # "ended"
Engaged(u) == \E c \in Calls : Open(c) /\ book[c].part[u] \in InCall

Ringing(a, d, T) ==
    [starter |-> a, state |-> "ringing", reason |-> "none",
     part |-> [u \in Users |-> IF u = a THEN "joined" ELSE IF u \in T THEN "invited" ELSE "none"],
     claim |-> [u \in Users |-> IF u = a THEN d ELSE None], version |-> 1]

Invite(c, a, d, T) ==
    /\ book[c] = None
    /\ T # {} /\ a \notin T
    /\ book' = [book EXCEPT ![c] = Ringing(a, d, T)]
    /\ \A u \in T \cup {a} : ~Engaged(u)

(* Where a participant may go, and where a call. *)
Goes(p, q) ==
    \/ q = p
    \/ p = "invited" /\ q \in {"joined", "left", "rejected"}
    \/ p = "joined" /\ q = "left"
Runs(s, t) == t = s \/ t = "ended" \/ (s = "ringing" /\ t = "active")

(* A page that can be read: who is joined has a device, an active call was   *)
(* answered by somebody else, and an ended one has a reason and nobody in it. *)
Consistent(p) ==
    /\ \A u \in Users : p.part[u] = "joined" => p.claim[u] # None
    /\ p.state = "active" => \E u \in Users \ {p.starter} : p.claim[u] # None
    /\ p.state = "ended" <=> p.reason # "none"
    /\ p.state = "ended" => \A u \in Users : p.part[u] # "joined"

Shown(p) == <<p.state, p.reason, p.part>>

Succeeds(p, q) ==
    /\ q.starter = p.starter
    /\ \A u \in Users : Goes(p.part[u], q.part[u])
    /\ \A u \in Users : q.claim[u] # p.claim[u] => p.claim[u] = None /\ p.part[u] = "invited"
    /\ Runs(p.state, q.state)
    /\ q.reason \in {"rejected", "cancelled"} => p.state = "ringing"
    /\ p.version <= q.version
    /\ Shown(q) # Shown(p) => p.version < q.version

(* An open call goes on, or ends; the other pages stay. *)
Proceed(c) ==
    /\ Open(c)
    /\ book' = [book EXCEPT ![c] = book'[c]]
    /\ book'[c] \in Pages /\ Consistent(book'[c]) /\ Succeeds(book[c], book'[c])

(* One page changes. *)
Next ==
    \E c \in Calls :
        /\ book'[c] # book[c]
        /\ \/ Proceed(c)
           \/ \E a \in Users, d \in Devices, T \in SUBSET Users : Invite(c, a, d, T)

Spec == Init /\ [][Next]_book
=============================================================================
