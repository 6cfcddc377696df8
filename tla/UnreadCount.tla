---------------------------- MODULE UnreadCount -----------------------------
(***************************************************************************)
(* Unread counts of one channel (sync/sync_service.rs, channel_service.rs, *)
(* unread_count_service.rs and the revoke of message_service.rs).          *)
(*                                                                         *)
(* Committed messages add to the counts of the other members through a     *)
(* batcher; a read clears them, a revoke takes its message out again.      *)
(* The statements of reads and revokes interleave with the batcher's.  A   *)
(* fault is a call that fails, a reply that is lost after its statement    *)
(* took effect, or a restart of the server.                                *)
(***************************************************************************)
EXTENDS Naturals, Sequences, FiniteSets, Functions

CONSTANTS
    Members,      \* of the channel
    Revokes,      \* revoke requests under way at a time
    QueueCap,     \* UNREAD_BATCH_QUEUE_CAPACITY
    MaxPts,       \* bound: messages of a run
    MaxFaults     \* bound: faults of a run

VARIABLES
    author,       \* the sender of the message at each pts
    gone,         \* the revoked messages
    requests,     \* the batcher's queue: the sender of each message in it
    pending,      \* the batcher's counts that are not yet in the database
    caching,      \* counts in the database that Redis is about to get
    unread,       \* privchat_user_channels.unread_count
    redis,        \* the unread counts in Redis
    cursor,       \* privchat_channel_read_cursor.last_read_pts
    clearing,     \* the next statement of each member's read, if one is under way
    revoking,     \* revoke requests under way
    overlaps,     \* revokes let in while another one of the message was under way
    readded,      \* what the batcher adds again since a reply was lost
    problems      \* faults so far

batcher == <<requests, pending, caching>>
reading == <<cursor, clearing>>
removal == <<gone, revoking, overlaps>>
vars == <<author, batcher, unread, redis, reading, removal, readded, problems>>

Zero == [u \in Members |-> 0]

Init ==
    /\ author = <<>>
    /\ requests = <<>> /\ pending = Zero /\ caching = Zero /\ unread = Zero /\ redis = Zero
    /\ cursor = Zero /\ clearing = [u \in Members |-> "none"]
    /\ gone = {} /\ revoking = {} /\ overlaps = 0
    /\ readded = Zero /\ problems = 0

Fault == problems < MaxFaults /\ problems' = problems + 1

-----------------------------------------------------------------------------
(* Messages and the batcher.                                                 *)

(* A committed client message: its sender waits for room in the queue. *)
Enqueue(s) ==
    /\ Len(author) < MaxPts /\ Len(requests) < QueueCap
    /\ author' = Append(author, s)
    /\ requests' = Append(requests, s)
    /\ UNCHANGED <<pending, caching, unread, redis, reading, removal, readded, problems>>

(* A message of the server counts at once, first in Redis, then in the       *)
(* database; a failure of either is only logged.                             *)
SendMessage(s) ==
    /\ Len(author) < MaxPts
    /\ author' = Append(author, s)
    /\ \E inRedis, inDatabase \in BOOLEAN :
          /\ IF inRedis /\ inDatabase THEN UNCHANGED problems ELSE Fault
          /\ redis' = [u \in Members |-> IF u # s /\ inRedis THEN redis[u] + 1 ELSE redis[u]]
          /\ unread' = [u \in Members |-> IF u # s /\ inDatabase THEN unread[u] + 1 ELSE unread[u]]
    /\ UNCHANGED <<batcher, reading, removal, readded>>

MergedForAll(s) == [u \in Members |-> pending[u] + 1]

(* The batch with one more message for everybody but its sender. *)
Merged(s) == [u \in Members |-> IF u = s THEN pending[u] ELSE pending[u] + 1]

(* The batcher takes a message and looks the members up; if that fails the   *)
(* message is dropped.                                                       *)
Resolve ==
    /\ requests # <<>>
    /\ requests' = Tail(requests)
    /\ \/ pending' = Merged(Head(requests)) /\ UNCHANGED problems
       \/ UNCHANGED pending /\ Fault
    /\ UNCHANGED <<author, caching, unread, redis, reading, removal, readded>>

(* The tick takes the whole batch, one statement per count; the users of a   *)
(* statement that failed go back to the batch, also when the statement took  *)
(* effect and only its reply was lost.                                       *)
Flush ==
    /\ pending # Zero /\ caching = Zero
    /\ \E failing \in {{}} \cup {{n} : n \in Range(pending) \ {0}}, applied \in BOOLEAN :
          /\ IF failing = {} THEN UNCHANGED problems ELSE Fault
          /\ LET Ok(u) == pending[u] \notin failing
             IN  /\ unread' = [u \in Members |-> IF Ok(u) \/ applied THEN unread[u] + pending[u] ELSE unread[u]]
                 /\ caching' = [u \in Members |-> IF Ok(u) THEN pending[u] ELSE 0]
                 /\ pending' = [u \in Members |-> IF Ok(u) THEN 0 ELSE pending[u]]
                 /\ readded' = [u \in Members |-> IF ~Ok(u) /\ applied THEN readded[u] + pending[u] ELSE readded[u]]
    /\ UNCHANGED <<author, requests, redis, reading, removal>>

(* Redis gets what the database has; a failure is only logged. *)
Cache ==
    /\ caching # Zero
    /\ caching' = Zero
    /\ \/ redis' = [u \in Members |-> redis[u] + caching[u]] /\ UNCHANGED problems
       \/ UNCHANGED redis /\ Fault
    /\ UNCHANGED <<author, requests, pending, unread, reading, removal, readded>>

-----------------------------------------------------------------------------
(* The part of a read that touches the counts (the rest is ReadCursor's).    *)

StoreCursor(u, p) ==
    /\ clearing[u] = "none" /\ p \in cursor[u] + 1 .. Len(author)
    /\ cursor' = [cursor EXCEPT ![u] = p]
    /\ clearing' = [clearing EXCEPT ![u] = "unread"]
    /\ UNCHANGED <<author, batcher, unread, redis, removal, readded, problems>>

(* The whole count goes, also for messages above the cursor. *)
ClearUnread(u) ==
    /\ clearing[u] = "unread"
    /\ unread' = [unread EXCEPT ![u] = 0]
    /\ clearing' = [clearing EXCEPT ![u] = "redis"]
    /\ UNCHANGED <<author, batcher, redis, cursor, removal, readded, problems>>

ClearChannel(u) ==
    /\ clearing[u] = "redis"
    /\ redis' = [redis EXCEPT ![u] = 0]
    /\ clearing' = [clearing EXCEPT ![u] = "none"]
    /\ UNCHANGED <<author, batcher, unread, cursor, removal, readded, problems>>

-----------------------------------------------------------------------------
(* message/revoke and the revoke of the admin API.                           *)

RevokeStep(k, step) == {r \in revoking : r.id = k /\ r.step = step}

LetIn(k, p) ==
    /\ k \notin {r.id : r \in revoking}
    /\ revoking' = revoking \cup {[id |-> k, pts |-> p, step |-> "checked"]}
    /\ overlaps' = IF p \in {r.pts : r \in revoking} THEN overlaps + 1 ELSE overlaps
    /\ UNCHANGED <<author, batcher, unread, redis, reading, gone, readded, problems>>

RevokeUnchecked(k, p) == p \in 1 .. Len(author) /\ LetIn(k, p)

(* The entry point and revoke_message look whether the message is revoked    *)
(* already.                                                                  *)
RevokeChecks(k, p) == p \in 1 .. Len(author) \ gone /\ LetIn(k, p)

(* The row is marked without looking again. *)
RevokeMarks(k) ==
    /\ \E r \in RevokeStep(k, "checked") :
          /\ gone' = gone \cup {r.pts}
          /\ revoking' = (revoking \ {r}) \cup {[r EXCEPT !.step = "marked"]}
    /\ UNCHANGED <<author, batcher, unread, redis, reading, overlaps, readded, problems>>

(* Who has not read up to the message and has something unread. *)
Discounted(p) == {u \in Members \ {author[p]} : unread[u] > 0 /\ cursor[u] < p}

(* A failure to discount is only logged. *)
RevokeDiscounts(k) ==
    /\ \E r \in RevokeStep(k, "marked") :
          /\ revoking' = revoking \ {r}
          /\ \/ /\ unread' = [u \in Members |-> IF u \in Discounted(r.pts) THEN unread[u] - 1 ELSE unread[u]]
                /\ UNCHANGED problems
             \/ UNCHANGED unread /\ Fault
    /\ UNCHANGED <<author, batcher, redis, reading, gone, overlaps, readded>>

-----------------------------------------------------------------------------
(* The server starts again: what it kept in memory is gone. *)
Restart ==
    /\ Fault
    /\ requests' = <<>> /\ pending' = Zero /\ caching' = Zero
    /\ clearing' = [u \in Members |-> "none"]
    /\ revoking' = {}
    /\ UNCHANGED <<author, unread, redis, cursor, gone, overlaps, readded>>

Next ==
    \/ \E u \in Members :
          \/ Enqueue(u) \/ SendMessage(u)
          \/ \E p \in 1 .. MaxPts : StoreCursor(u, p)
          \/ ClearUnread(u) \/ ClearChannel(u)
    \/ Resolve \/ Flush \/ Cache
    \/ \E k \in Revokes :
          \/ \E p \in 1 .. MaxPts : RevokeChecks(k, p)
          \/ RevokeMarks(k) \/ RevokeDiscounts(k)
    \/ Restart

Spec == Init /\ [][Next]_vars

-----------------------------------------------------------------------------
(* Properties. *)

FromOthers(u) == Cardinality({p \in 1 .. Len(author) : author[p] # u})
Counting(u) == unread[u] + pending[u] + Cardinality({i \in 1 .. Len(requests) : requests[i] # u})

(* However reads, revokes, failed statements and lost replies interleave,    *)
(* what is unread, batched and queued for a user exceeds the messages of the *)
(* others only by what the batcher kept after a lost reply, and, without any *)
(* fault, what a user who has read nothing misses of them is no more than    *)
(* one for each revoked message and one for each revoke that was let in      *)
(* beside another one of its message (sync_service.rs                        *)
(* merge_unread_increment, message_service.rs revoke_message_core).          *)
CountsAddUp ==
    \A u \in Members :
        /\ Counting(u) <= FromOthers(u) + readded[u]
        /\ problems = 0 /\ cursor[u] = 0 =>
              Counting(u) + Cardinality(gone) + overlaps >= FromOthers(u)
=============================================================================
