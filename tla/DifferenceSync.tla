--------------------------- MODULE DifferenceSync ---------------------------
(***************************************************************************)
(* How a client catches up with a channel: sync/get_difference over the    *)
(* commit log, with Redis in front of it (sync_service.rs, sync_cache.rs). *)
(*                                                                         *)
(* The commit log of one channel is 1 .. dbPts (TimelineCommit's Gapless); *)
(* Redis holds the channel's pts for ten seconds and the latest CacheSize  *)
(* commits for an hour.  After a commit, the wire, server and event paths  *)
(* write the cache themselves, sync/submit hands the commit to a bounded   *)
(* queue that drops it when full, and a reader that missed the cache       *)
(* writes back what it found.  All of them interleave freely.              *)
(***************************************************************************)
EXTENDS Naturals, Sequences, FiniteSets, FiniteSetsExt

CONSTANTS
    Clients,
    MaxPts,        \* bound: commits in a run
    CacheSize,     \* commits kept in the sorted set (100 in the code)
    Limits,        \* the limits clients ask for
    QueueCap,      \* capacity of the post-commit cache queue (4096)
    MaxFaults,     \* bound: failed Redis or database calls, expired caches, restarts
    None

ASSUME SyncAssumption ==
    /\ MaxPts \in Nat /\ MaxFaults \in Nat /\ CacheSize \in Nat \ {0} /\ QueueCap \in Nat \ {0}
    /\ Limits \subseteq Nat \ {0}
    /\ None \notin Nat

VARIABLES
    dbPts,         \* privchat_channel_pts.current_pts = length of the commit log
    direct,        \* commits whose handler still has to write the cache: pts -> next write
    submitted,     \* commits of sync/submit not yet handed to the queue
    queue,         \* the post-commit cache queue
    cachedPts,     \* Redis pts:{channel}, or None
    cache,         \* Redis commit_log:{channel}: the pts of the commits in it
    backfill,      \* write-backs in progress: the commits still to be cached
    phase,         \* where each client's RPC is
    last,          \* the last_pts it asked with
    limit,         \* the limit it asked with
    current,       \* the current_pts the handler works with
    reply,         \* the reply, or None
    cursor,        \* what the client has caught up with
    faults         \* faults so far

redis == <<cachedPts, cache>>
writers == <<direct, submitted, queue, backfill>>
rpc == <<phase, last, limit, current, reply>>
vars == <<dbPts, redis, writers, rpc, cursor, faults>>

Init ==
    /\ dbPts = 0
    /\ direct = {}
    /\ submitted = {}
    /\ queue = <<>>
    /\ cachedPts = None
    /\ cache = {}
    /\ backfill = {}
    /\ phase = [c \in Clients |-> "idle"]
    /\ last = [c \in Clients |-> 0]
    /\ limit = [c \in Clients |-> 0]
    /\ current = [c \in Clients |-> 0]
    /\ reply = [c \in Clients |-> None]
    /\ cursor = [c \in Clients |-> 0]
    /\ faults = 0

(* The n smallest, and the n largest, elements of a set of numbers. *)
FirstN(S, n) == {x \in S : Cardinality({y \in S : y < x}) < n}
LastN(S, n) == {x \in S : Cardinality({y \in S : y > x}) < n}

(* Something fails. *)
Fault == faults < MaxFaults /\ faults' = faults + 1

-----------------------------------------------------------------------------
(* Writing the cache. *)

(* ZADD, then keep the CacheSize highest, then EXPIRE; an error may come     *)
(* before or after each of the three.                                        *)
Cached(p) == LastN(cache \cup {p}, CacheSize)
FailedWrites(p) == {cache, cache \cup {p}, Cached(p)}

CommitDirectAfterCache ==
    /\ dbPts < MaxPts
    /\ cachedPts' = dbPts + 1
    /\ UNCHANGED <<dbPts, cache, writers, rpc, cursor, faults>>

(* A message on the wire, a server message or an event is committed; its     *)
(* handler goes on to cache_pts and cache_commit.                            *)
CommitDirect ==
    /\ dbPts < MaxPts
    /\ dbPts' = dbPts + 1
    /\ direct' = direct \cup {<<dbPts + 1, "pts">>}
    /\ UNCHANGED <<redis, submitted, queue, backfill, rpc, cursor, faults>>

(* A sync/submit is committed. *)
CommitSubmit ==
    /\ dbPts < MaxPts
    /\ dbPts' = dbPts + 1
    /\ submitted' = submitted \cup {dbPts + 1}
    /\ UNCHANGED <<redis, direct, queue, backfill, rpc, cursor, faults>>

(* cache_committed_commit writes the pts, then the commit; an error of the   *)
(* first write skips the second.                                             *)
CachePts(p) ==
    /\ <<p, "pts">> \in direct
    /\ cachedPts' = p
    /\ direct' = (direct \ {<<p, "pts">>}) \cup {<<p, "commit">>}
    /\ UNCHANGED <<dbPts, cache, submitted, queue, backfill, rpc, cursor, faults>>

CacheCommit(p) ==
    /\ <<p, "commit">> \in direct
    /\ cache' = Cached(p)
    /\ direct' = direct \ {<<p, "commit">>}
    /\ UNCHANGED <<dbPts, cachedPts, submitted, queue, backfill, rpc, cursor, faults>>

CacheFails(w) ==
    /\ w \in direct
    /\ cache' \in IF w[2] = "commit" THEN FailedWrites(w[1]) ELSE {cache}
    /\ direct' = direct \ {w}
    /\ Fault
    /\ UNCHANGED <<dbPts, cachedPts, submitted, queue, backfill, rpc, cursor>>

(* try_send: a full queue drops the commit. *)
Enqueue(p) ==
    /\ p \in submitted
    /\ submitted' = submitted \ {p}
    /\ queue' = IF Len(queue) < QueueCap THEN Append(queue, p) ELSE queue
    /\ UNCHANGED <<dbPts, redis, direct, backfill, rpc, cursor, faults>>

(* The queue's only consumer writes pts and commit; it logs an error of      *)
(* either and goes on.                                                       *)
DrainQueue(ptsOk, commitOk) ==
    /\ queue # <<>>
    /\ cachedPts' = IF ptsOk THEN Head(queue) ELSE cachedPts
    /\ cache' \in IF commitOk THEN {Cached(Head(queue))} ELSE FailedWrites(Head(queue))
    /\ queue' = Tail(queue)
    /\ IF ptsOk /\ commitOk THEN UNCHANGED faults ELSE Fault
    /\ UNCHANGED <<dbPts, direct, submitted, backfill, rpc, cursor>>

(* A spawned write-back caches its commits one by one, in order, and stops   *)
(* at the first error.                                                       *)
Backfill(B) ==
    /\ B \in backfill
    /\ \E p \in B :
          /\ \A q \in B : p <= q
          /\ cache' = Cached(p)
          /\ backfill' = (backfill \ {B}) \cup ({B \ {p}} \ {{}})
    /\ UNCHANGED <<dbPts, cachedPts, direct, submitted, queue, rpc, cursor, faults>>

BackfillFails(B) ==
    /\ B \in backfill
    /\ \E p \in B :
          /\ \A q \in B : p <= q
          /\ cache' \in FailedWrites(p)
    /\ backfill' = backfill \ {B}
    /\ Fault
    /\ UNCHANGED <<dbPts, cachedPts, direct, submitted, queue, rpc, cursor>>

PtsNeverExpires == FALSE /\ UNCHANGED vars

(* The pts key lives ten seconds, the commit set an hour. *)
PtsExpires ==
    /\ cachedPts # None
    /\ cachedPts' = None
    /\ UNCHANGED <<dbPts, cache, writers, rpc, cursor, faults>>

CommitsExpire ==
    /\ cache # {}
    /\ cache' = {}
    /\ Fault
    /\ UNCHANGED <<dbPts, cachedPts, writers, rpc, cursor>>

(* The server restarts: what its handlers and queue still had to do is lost, *)
(* and every client's RPC with it; Redis and the database stay.              *)
Restart ==
    /\ direct' = {} /\ submitted' = {} /\ queue' = <<>> /\ backfill' = {}
    /\ phase' = [c \in Clients |-> "idle"]
    /\ last' = [c \in Clients |-> 0] /\ limit' = [c \in Clients |-> 0]
    /\ current' = [c \in Clients |-> 0] /\ reply' = [c \in Clients |-> None]
    /\ Fault
    /\ UNCHANGED <<dbPts, redis, cursor>>

-----------------------------------------------------------------------------
(* handle_get_difference, split where it awaits Redis or the database. *)

Goto(c, p) == phase' = [phase EXCEPT ![c] = p]

(* The RPC is over and the handler's locals are gone. *)
EndRpc(c) ==
    /\ Goto(c, "idle")
    /\ last' = [last EXCEPT ![c] = 0]
    /\ limit' = [limit EXCEPT ![c] = 0]
    /\ current' = [current EXCEPT ![c] = 0]
    /\ reply' = [reply EXCEPT ![c] = None]

(* sync/get_channel_pts asks for the pts only; sync/submit reads it the same *)
(* way, for its gap check, before it commits.                                *)
JustPts == 0

GetChannelPts(c) ==
    /\ phase[c] = "idle"
    /\ Goto(c, "pts")
    /\ UNCHANGED <<dbPts, redis, writers, last, limit, current, reply, cursor, faults>>

GetDifference(c, l) ==
    /\ phase[c] = "idle"
    /\ last' = [last EXCEPT ![c] = cursor[c]]
    /\ limit' = [limit EXCEPT ![c] = l]
    /\ Goto(c, "pts")
    /\ UNCHANGED <<dbPts, redis, writers, current, reply, cursor, faults>>

Reply(c, r) ==
    /\ reply' = [reply EXCEPT ![c] = r]
    /\ Goto(c, "replied")

Resync == [resync |-> TRUE, commits |-> {}, more |-> FALSE]
OnlyPts == [resync |-> FALSE, commits |-> {}, more |-> FALSE]

(* A client whose last_pts is ahead of current_pts has to resync. *)
CheckAhead(c, cur) ==
    CASE limit[c] = JustPts -> Reply(c, OnlyPts)
      [] limit[c] # JustPts /\ last[c] > cur -> Reply(c, Resync)
      [] OTHER -> Goto(c, "query") /\ UNCHANGED reply

ReadCachedPts(c) ==
    /\ phase[c] = "pts"
    /\ cachedPts # None
    /\ current' = [current EXCEPT ![c] = cachedPts]
    /\ CheckAhead(c, cachedPts)
    /\ UNCHANGED <<dbPts, redis, writers, last, limit, cursor, faults>>

(* No pts in Redis, or no answer: a failed GET counts as a miss. *)
MissCachedPts(c) ==
    /\ phase[c] = "pts"
    /\ IF cachedPts = None THEN UNCHANGED faults ELSE Fault
    /\ Goto(c, "db_pts")
    /\ UNCHANGED <<dbPts, redis, writers, last, limit, current, reply, cursor>>

ReadDbPts(c) ==
    /\ phase[c] = "db_pts"
    /\ current' = [current EXCEPT ![c] = dbPts]
    /\ Goto(c, "store_pts")
    /\ UNCHANGED <<dbPts, redis, writers, last, limit, reply, cursor, faults>>

StorePts(c) ==
    /\ phase[c] = "store_pts"
    /\ cachedPts' = current[c]
    /\ CheckAhead(c, current[c])
    /\ UNCHANGED <<dbPts, cache, writers, last, limit, current, cursor, faults>>

(* The reply to a client that asked from last: nothing although the channel  *)
(* is ahead, or a first commit that does not follow last, means resync.      *)
Difference(c, commits) ==
    IF current[c] > last[c] /\ (commits = {} \/ Min(commits) # last[c] + 1)
    THEN Resync
    ELSE [resync |-> FALSE, commits |-> commits,
          more |-> commits # {} /\ Max(commits) < current[c]]

InCache(c) == FirstN({p \in cache : p > last[c]}, limit[c])
InDb(c) == FirstN({p \in 1 .. dbPts : p > last[c]}, limit[c])

UsableAny(c, commits) == TRUE

(* A cached range is taken when its first commit follows last. *)
Usable(c, commits) == Min(commits) = last[c] + 1

QueryHit(c) ==
    /\ phase[c] = "query"
    /\ InCache(c) # {} /\ Usable(c, InCache(c))
    /\ Reply(c, Difference(c, InCache(c)))
    /\ UNCHANGED <<dbPts, redis, writers, last, limit, current, cursor, faults>>

QueryMiss(c) ==
    /\ phase[c] = "query"
    /\ IF InCache(c) = {} THEN Goto(c, "db_miss")
       ELSE ~Usable(c, InCache(c)) /\ Goto(c, "db_partial")
    /\ UNCHANGED <<dbPts, redis, writers, last, limit, current, reply, cursor, faults>>

(* The database answers; after a complete miss a task writes the commits     *)
(* back to the cache.                                                        *)
QueryDb(c) ==
    /\ phase[c] \in {"db_partial", "db_miss"}
    /\ Reply(c, Difference(c, InDb(c)))
    /\ backfill' = IF phase[c] = "db_miss" /\ InDb(c) # {} THEN backfill \cup {InDb(c)} ELSE backfill
    /\ UNCHANGED <<dbPts, redis, direct, submitted, queue, last, limit, current, cursor, faults>>

(* Redis or the database fails: the RPC ends with an error. *)
RpcFails(c) ==
    /\ phase[c] \notin {"idle", "replied"}
    /\ EndRpc(c)
    /\ Fault
    /\ UNCHANGED <<dbPts, redis, writers, cursor>>

-----------------------------------------------------------------------------
(* The client (external): it moves its cursor to the last commit of a reply, *)
(* and applies a pushed commit that follows its cursor.                      *)

Apply(c) ==
    /\ phase[c] = "replied"
    /\ cursor' = [cursor EXCEPT ![c] = Max({@} \cup reply[c].commits)]
    /\ EndRpc(c)
    /\ UNCHANGED <<dbPts, redis, writers, faults>>

ReceivePush(c) ==
    /\ cursor[c] < dbPts
    /\ cursor' = [cursor EXCEPT ![c] = @ + 1]
    /\ UNCHANGED <<dbPts, redis, writers, rpc, faults>>

Handler(c) ==
    \/ ReadCachedPts(c) \/ MissCachedPts(c) \/ ReadDbPts(c) \/ StorePts(c)
    \/ QueryHit(c) \/ QueryMiss(c) \/ QueryDb(c)

Write ==
    \/ \E p \in 1 .. MaxPts : CachePts(p) \/ CacheCommit(p) \/ Enqueue(p)
    \/ \E ptsOk, commitOk \in BOOLEAN : DrainQueue(ptsOk, commitOk)
    \/ \E w \in direct : CacheFails(w)
    \/ \E B \in backfill : Backfill(B) \/ BackfillFails(B)

Next ==
    \/ CommitDirect \/ CommitSubmit
    \/ Write
    \/ PtsExpires \/ CommitsExpire \/ Restart
    \/ \E c \in Clients :
          \/ \E l \in Limits : GetDifference(c, l)
          \/ GetChannelPts(c)
          \/ Handler(c) \/ RpcFails(c) \/ Apply(c) \/ ReceivePush(c)

Spec == Init /\ [][Next]_vars

(* Handlers run on, the pts key expires, and a client keeps asking (it       *)
(* reconnects, or is woken by the next push), not only for the pts.          *)
Fairness ==
    /\ WF_vars(PtsExpires)
    /\ \A c \in Clients :
          /\ WF_vars(Handler(c)) /\ WF_vars(Apply(c))
          /\ SF_vars(\E l \in Limits : GetDifference(c, l))

FairSpec == Spec /\ Fairness

-----------------------------------------------------------------------------
(* Properties. *)

(* Redis never runs ahead of the database, whoever wrote it and however      *)
(* late: the cached pts and every cached commit are committed.               *)
CacheBehindLog ==
    /\ cachedPts # None => cachedPts <= dbPts
    /\ cache \subseteq 1 .. dbPts

(* A difference that is not empty starts right after the client's last_pts,  *)
(* names committed commits only and respects the limit, and a reply that     *)
(* says there is more is followed by more, whatever the cache held and       *)
(* however stale current_pts was (sync_service.rs handle_get_difference).    *)
DifferenceIsTrue ==
    \A c \in Clients : reply[c] # None =>
        /\ reply[c].commits # {} => Min(reply[c].commits) = last[c] + 1
        /\ reply[c].commits \subseteq 1 .. dbPts
        /\ Cardinality(reply[c].commits) <= limit[c]
        /\ reply[c].more => Max(reply[c].commits) < dbPts

(* A client that keeps asking catches up with the channel, however stale the *)
(* cached pts is and whatever the cache has lost.                            *)
CatchesUp == <>[](\A c \in Clients : cursor[c] = dbPts)

(* What the comment at the cache hit claims and the code does not ensure:    *)
(* "cache hit and contiguous: the first pts follows last_pts", so a          *)
(* difference has no hole.                                                   *)
DifferenceHasNoHole ==
    \A c \in Clients : reply[c] # None /\ reply[c].commits # {} =>
        reply[c].commits = Min(reply[c].commits) .. Max(reply[c].commits)
=============================================================================
