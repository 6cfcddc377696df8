----------------------------- MODULE Friendship -----------------------------
(***************************************************************************)
(* Friends and what they may send each other (friend_service.rs,           *)
(* blacklist_service.rs, privacy_service.rs, send_authorization.rs, the    *)
(* rpcs of rpc/contact and the administrator's route).                     *)
(*                                                                         *)
(* privchat_friendships has a row for each direction: what one user asked  *)
(* the other, and what came of it.  A user is a friend when the row of     *)
(* either direction is accepted.  Requests run at the same time and their  *)
(* transactions at READ COMMITTED: a statement works on the rows that its  *)
(* snapshot has, as they are once it gets their locks.                     *)
(***************************************************************************)
CONSTANTS Users,     \* two of them, in one direct channel
          Handlers   \* requests that may be under way at the same time

VARIABLES
    edge,      \* the status of each direction's row
    blocks,    \* privchat_blacklist: who blocks whom
    work,      \* what each handler is doing
    friends,   \* history: they were made friends, and nobody has ended it since
    outcast,   \* history: <<x, y>> when x ended the friendship with y, and has not
               \* asked for it or taken it up again
    barred     \* history: <<h, why>> for a message under way whose recipient has
               \* barred the sender, for that reason, since the message came

vars == <<edge, blocks, work, friends, outcast, barred>>

TwoUsers == \E a, b \in Users : a # b /\ Users = {a, b}

Pairs == {p \in Users \X Users : p[1] # p[2]}
Reverse(p) == <<p[2], p[1]>>

Idle == [kind |-> "none", pair |-> <<>>, step |-> "idle", rows |-> {}, held |-> {}, fresh |-> TRUE]

Init ==
    /\ edge = [p \in Pairs |-> "none"]
    /\ blocks = {}
    /\ work = [h \in Handlers |-> Idle]
    /\ friends = FALSE
    /\ outcast = {}
    /\ barred = {}

At(h, kind, step) == work[h].kind = kind /\ work[h].step = step
Goes(h, step) == work' = [work EXCEPT ![h].step = step]
Ends(h) == work' = [work EXCEPT ![h] = Idle]
Comes(h, kind, p, step, rows) ==
    /\ work[h] = Idle
    /\ work' = [work EXCEPT ![h] = [Idle EXCEPT !.kind = kind, !.pair = p, !.step = step, !.rows = rows]]

(* No transaction but that of h has the lock of a row. *)
Free(h, p) == \A g \in Handlers \ {h} : p \notin work[g].held

(* try_is_friend, try_friendship_removed. *)
IsFriend == \E p \in Pairs : edge[p] = "accepted"
IsRemoved == \E p \in Pairs : edge[p] = "removed"

-----------------------------------------------------------------------------
(* Requests.                                                                 *)

(* rpc friend/apply, with a grant or a source that allows it; p is           *)
(* <<requester, target>>.                                                    *)
Apply(h, p) ==
    /\ Comes(h, "apply", p, "check", {})
    /\ UNCHANGED <<edge, blocks, friends, outcast>>

(* rpc friend/accept; p is <<accepting user, requester>>. *)
Accept(h, p) ==
    /\ Comes(h, "accept", p, "check", {})
    /\ UNCHANGED <<edge, blocks, friends, outcast>>

(* The unlocked look at the friendship that both begin with; a query that    *)
(* fails counts as no.                                                       *)
AlreadyFriends(h) ==
    /\ At(h, "apply", "check") \/ At(h, "accept", "check")
    /\ IsFriend
    /\ Ends(h)
    /\ UNCHANGED <<edge, blocks, friends, outcast>>

NotYetFriends(h) ==
    /\ At(h, "apply", "check") \/ At(h, "accept", "check")
    /\ Goes(h, "write")
    /\ UNCHANGED <<edge, blocks, friends, outcast>>

(* The row that a request leaves. *)
Requested(status) == IF status = "accepted" THEN "accepted" ELSE "pending"

SaveRequest(h) ==
    /\ At(h, "apply", "write") /\ Free(h, work[h].pair)
    /\ edge' = [edge EXCEPT ![work[h].pair] = Requested(@)]
    /\ outcast' = outcast \ {work[h].pair}
    /\ Ends(h)
    /\ UNCHANGED <<blocks, friends>>

(* SELECT ... FOR UPDATE of the pending request; without one the caller      *)
(* hears that they are friends or that the request has expired.              *)
LockRequestUnlocked(h) ==
    /\ At(h, "accept", "write")
    /\ IF edge[Reverse(work[h].pair)] = "pending" THEN Goes(h, "reciprocal") ELSE Ends(h)
    /\ UNCHANGED <<edge, blocks, friends, outcast>>

LockRequest(h) ==
    LET asked == Reverse(work[h].pair)
    IN  /\ At(h, "accept", "write") /\ Free(h, asked)
        /\ IF edge[asked] = "pending"
           THEN work' = [work EXCEPT ![h].step = "reciprocal", ![h].held = {asked}]
           ELSE Ends(h)
        /\ UNCHANGED <<edge, blocks, friends, outcast>>

(* The upsert of the other row, and the commit. *)
CommitAccept(h) ==
    /\ At(h, "accept", "reciprocal") /\ Free(h, work[h].pair)
    /\ edge' = [p \in Pairs |-> "accepted"]
    /\ outcast' = {}
    /\ work' = [work EXCEPT ![h].step = "announce", ![h].held = {}, ![h].fresh = ~friends]
    /\ friends' = TRUE
    /\ UNCHANGED blocks

(* The direct channel, the push and the system message of a new friendship,  *)
(* or none of them when the channel cannot be had.                           *)
Announce(h) ==
    /\ At(h, "accept", "announce")
    /\ Ends(h)
    /\ UNCHANGED <<edge, blocks, friends, outcast>>

(* rpc friend/reject by p[1] and friend/recall by p[1]: one statement each. *)
RejectRequest(p) ==
    /\ edge[Reverse(p)] = "pending" /\ \A h \in Handlers : Reverse(p) \notin work[h].held
    /\ edge' = [edge EXCEPT ![Reverse(p)] = "rejected"]
    /\ UNCHANGED <<blocks, work, friends, outcast>>

RecallRequest(p) ==
    /\ edge[p] = "pending" /\ \A h \in Handlers : p \notin work[h].held
    /\ edge' = [edge EXCEPT ![p] = "recalled"]
    /\ UNCHANGED <<blocks, work, friends, outcast>>

-----------------------------------------------------------------------------
(* rpc friend/remove and create_friendship_admin: one statement that locks   *)
(* the rows of both directions one after the other.                          *)

RowsRemovedOneWay(p) == {q \in {p} : edge[q] # "none"}

(* The rows that a removal works on: those that its snapshot has, whatever   *)
(* their status.                                                             *)
RowsRemoved(p) == {q \in {p, Reverse(p)} : edge[q] # "none"}

(* fresh: neither row was being inserted when the snapshot was taken. *)
RemoveFriend(h, p) ==
    /\ work[h] = Idle
    /\ work' = [work EXCEPT ![h] = [Idle EXCEPT !.kind = "remove", !.pair = p, !.step = "rows",
                                               !.rows = RowsRemoved(p),
                                               !.fresh = \A q \in Pairs : edge[q] # "none"]]
    /\ UNCHANGED <<edge, blocks, friends, outcast>>

CreateFriendshipAdmin(h, p) ==
    /\ Comes(h, "admin", p, "rows", {p, Reverse(p)})
    /\ UNCHANGED <<edge, blocks, friends, outcast>>

LockRow(h, p) ==
    /\ work[h].step = "rows" /\ p \in work[h].rows \ work[h].held /\ Free(h, p)
    /\ At(h, "admin", "rows") => p = work[h].pair \/ work[h].pair \in work[h].held
    /\ work' = [work EXCEPT ![h].held = @ \cup {p}]
    /\ UNCHANGED <<edge, blocks, friends, outcast>>

CommitRemove(h) ==
    /\ At(h, "remove", "rows") /\ work[h].held = work[h].rows
    /\ edge' = [p \in Pairs |-> IF p \in work[h].rows THEN "removed" ELSE edge[p]]
    /\ outcast' = IF friends /\ work[h].fresh THEN outcast \cup {work[h].pair} ELSE outcast
    /\ friends' = (friends /\ work[h].rows = {})
    /\ Ends(h)
    /\ UNCHANGED blocks

CommitAdmin(h) ==
    /\ At(h, "admin", "rows") /\ work[h].held = work[h].rows
    /\ edge' = [p \in Pairs |-> "accepted"]
    /\ outcast' = {}
    /\ friends' = TRUE
    /\ Ends(h)
    /\ UNCHANGED blocks

-----------------------------------------------------------------------------
(* Block lists.                                                              *)

AddToBlacklist(p) ==
    /\ blocks' = blocks \cup {p}
    /\ UNCHANGED <<edge, work, friends, outcast>>

RemoveFromBlacklist(p) ==
    /\ blocks' = blocks \ {p}
    /\ UNCHANGED <<edge, work, friends, outcast>>

-----------------------------------------------------------------------------
(* authorize_send_to_channel of a direct channel: four queries, each of the  *)
(* tables as they are by then.  p is <<sender, recipient>>.                  *)

SendMessage(h, p) ==
    /\ Comes(h, "send", p, "blocks", {})
    /\ UNCHANGED <<edge, blocks, friends, outcast>>

CheckMutualBlock(h) ==
    /\ At(h, "send", "blocks")
    /\ IF {work[h].pair, Reverse(work[h].pair)} \cap blocks # {} THEN Ends(h) ELSE Goes(h, "friends")
    /\ UNCHANGED <<edge, blocks, friends, outcast>>

CheckFriends(h) ==
    /\ At(h, "send", "friends")
    /\ Goes(h, IF IsFriend THEN "passed" ELSE "removed")
    /\ UNCHANGED <<edge, blocks, friends, outcast>>

CheckRemoved(h) ==
    /\ At(h, "send", "removed")
    /\ IF IsRemoved THEN Ends(h) ELSE Goes(h, "privacy")
    /\ UNCHANGED <<edge, blocks, friends, outcast>>

(* The recipient takes messages from those who are no friends, or does not:  *)
(* a setting that is read from the database each time and may be either.     *)
CheckPrivacy(h) ==
    /\ At(h, "send", "privacy")
    /\ Goes(h, "passed") \/ Ends(h)
    /\ UNCHANGED <<edge, blocks, friends, outcast>>

(* The message goes on to the timeline. *)
Deliver(h) ==
    /\ At(h, "send", "passed")
    /\ Ends(h)
    /\ UNCHANGED <<edge, blocks, friends, outcast>>

-----------------------------------------------------------------------------

(* A query or a commit fails, or the database ends one of the transactions   *)
(* that wait for each other: the transaction is undone and the request       *)
(* refused.                                                                  *)
Fails(h) ==
    /\ work[h].step \in {"write", "reciprocal", "rows", "blocks", "friends", "removed", "privacy"}
    /\ Ends(h)
    /\ UNCHANGED <<edge, blocks, friends, outcast>>

(* The history of what the recipient has upheld throughout. *)
Bars == [blocked |-> blocks, parted |-> outcast]
Remember ==
    barred' = {m \in Handlers \X DOMAIN Bars :
        /\ work'[m[1]].kind = "send"
        /\ Reverse(work'[m[1]].pair) \in Bars'[m[2]]
        /\ work[m[1]] = Idle \/ m \in barred}

Next ==
    /\ \/ \E h \in Handlers, p \in Pairs :
            \/ Apply(h, p) \/ Accept(h, p) \/ SendMessage(h, p)
            \/ RemoveFriend(h, p) \/ CreateFriendshipAdmin(h, p) \/ LockRow(h, p)
       \/ \E h \in Handlers :
            \/ AlreadyFriends(h) \/ NotYetFriends(h) \/ SaveRequest(h)
            \/ LockRequest(h) \/ CommitAccept(h) \/ Announce(h)
            \/ CommitRemove(h) \/ CommitAdmin(h)
            \/ CheckMutualBlock(h) \/ CheckFriends(h) \/ CheckRemoved(h) \/ CheckPrivacy(h)
            \/ Deliver(h) \/ Fails(h)
       \/ \E p \in Pairs : RejectRequest(p) \/ RecallRequest(p)
                           \/ AddToBlacklist(p) \/ RemoveFromBlacklist(p)
    /\ Remember

Spec == Init /\ [][Next]_vars

-----------------------------------------------------------------------------

(* A user who is blocked, or whose friendship was ended, from before a       *)
(* message comes until it is judged does not get it through, whatever        *)
(* requests, recalls and rejections of either side come in between: only the *)
(* one who barred the sender can undo that (send_authorization.rs: blocks    *)
(* before friends; friend_service.rs remove_friend, which must mark both     *)
(* rows).  A removal whose snapshot lacks a row that an accept is inserting  *)
(* does not count as one: it leaves that row accepted.                       *)
BarredCannotSend == \A h \in Handlers : At(h, "send", "passed") => \A m \in barred : m[1] # h

(* Only the request that made the two friends announces the friendship: two  *)
(* accepts, one of each side or of two devices, never both do, nor does one  *)
(* that comes after a friendship the administrator made                      *)
(* (friend_service.rs accept_friend_request_with_source, rpc/contact/friend/ *)
(* accept.rs).                                                               *)
DecidedOnce == \A h \in Handlers : At(h, "accept", "announce") => work[h].fresh
=============================================================================
