---------------------------- MODULE TimelineLog ----------------------------
(***************************************************************************)
(* What the committed timeline promises, without transactions or locks:    *)
(* each channel has one append-only numbered log, an entry appears in it   *)
(* at the next number and never moves, and while an idempotency claim is   *)
(* remembered no second entry with that claim is appended.                 *)
(***************************************************************************)
EXTENDS Naturals

CONSTANTS
    Requests,      \* what can be appended
    ChannelIds,    \* the channels
    Claims,        \* the idempotency claims
    ChannelFor,    \* Requests -> ChannelIds
    ClaimFor       \* Requests -> SUBSET Claims, empty or a singleton

VARIABLES
    length,        \* [ChannelIds -> Nat]: the last number of each log
    entry,         \* [ChannelIds -> SUBSET (Nat \X Requests)]: the numbered entries
    taken          \* the claims that are remembered

vars == <<length, entry, taken>>

Init ==
    /\ length = [c \in ChannelIds |-> 0]
    /\ entry = [c \in ChannelIds |-> {}]
    /\ taken = {}

Append(r) ==
    LET c == ChannelFor[r] IN
    /\ ClaimFor[r] \cap taken = {}
    /\ length' = [length EXCEPT ![c] = @ + 1]
    /\ entry' = [entry EXCEPT ![c] = @ \cup {<<length[c] + 1, r>>}]
    /\ taken' = taken \cup ClaimFor[r]

(* Old claims are forgotten; the log itself never is. *)
Forget(K) ==
    /\ taken' = taken \ K
    /\ UNCHANGED <<length, entry>>

Next ==
    \/ \E r \in Requests : Append(r)
    \/ \E K \in SUBSET Claims : Forget(K)

Spec == Init /\ [][Next]_vars
=============================================================================
