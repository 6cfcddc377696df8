----------------------------- MODULE ReadCursor -----------------------------
(***************************************************************************)
(* Read cursors of one channel and what the others are told of them        *)
(* (read_state_service.rs).  A member who marks the channel read moves a   *)
(* cursor in memory, then in the database, and if it advanced there the    *)
(* peer or the authors are told.  Requests of several devices and users    *)
(* interleave between their statements; a call of a request may fail, the  *)
(* channel may leave the memory and the server may start again.  The       *)
(* clearing of the unread counts on the way is in UnreadCount.             *)
(***************************************************************************)
EXTENDS Naturals, Sequences, FiniteSets, FiniteSetsExt

CONSTANTS
    Members,      \* of the channel, two of them when it is direct
    Readers,      \* bound: the members who mark it read
    Direct,       \* the kind of the channel
    Marks,        \* mark-read requests under way at a time
    MaxPts,       \* bound: messages of a run
    MaxFaults     \* bound: failing calls and restarts of a run

VARIABLES
    author,       \* the sender of the message at each pts
    gone,         \* the revoked messages
    memory,       \* last_read_pts of the channel in memory
    cursor,       \* privchat_channel_read_cursor.last_read_pts
    marking,      \* mark-read requests under way
    told,         \* the highest cursor each member was told of
    failed,       \* members with a mark-read request that did not finish
    problems      \* faults so far

ReadersAreMembers == Readers \subseteq Members /\ MaxPts \in Nat

vars == <<author, gone, memory, cursor, marking, told, failed, problems>>

Zero == [u \in Members |-> 0]
Larger(a, b) == IF a > b THEN a ELSE b

Init ==
    /\ author = <<>> /\ gone = {}
    /\ memory = Zero /\ cursor = Zero /\ told = Zero
    /\ marking = {} /\ failed = {} /\ problems = 0

Fault == problems < MaxFaults /\ problems' = problems + 1

(* A message is committed, and one is revoked (external to this component). *)
Commit(s) ==
    /\ Len(author) < MaxPts
    /\ author' = Append(author, s)
    /\ UNCHANGED <<gone, memory, cursor, marking, told, failed, problems>>

Revoke(p) ==
    /\ p \in 1 .. Len(author)
    /\ gone' = gone \cup {p}
    /\ UNCHANGED <<author, memory, cursor, marking, told, failed, problems>>

-----------------------------------------------------------------------------
(* message/status/read_pts.                                                  *)

(* What the client says it has seen clips the request. *)
Accepted(requested, visible) == IF requested < visible THEN requested ELSE visible

(* Above the channel's current pts a request is refused, and at 0 nothing is *)
(* left to do.  The cursor in memory takes the larger value, which the       *)
(* request goes on with.                                                     *)
MarkReadPts(m, u, requested, visible) ==
    /\ m \notin {r.id : r \in marking}
    /\ requested <= Len(author)
    /\ Accepted(requested, visible) > 0
    /\ memory' = [memory EXCEPT ![u] = Larger(@, Accepted(requested, visible))]
    /\ marking' = marking \cup {[id |-> m, user |-> u, step |-> "marked", to |-> memory'[u], from |-> 0]}
    /\ UNCHANGED <<author, gone, cursor, told, failed, problems>>

Step(m, step) == {r \in marking : r.id = m /\ r.step = step}

(* The statement that stores the cursor sees the row as it was when the      *)
(* statement began.                                                          *)
SnapshotCursor(m) ==
    /\ \E r \in Step(m, "marked") :
          marking' = (marking \ {r}) \cup {[r EXCEPT !.step = "snapshot", !.from = cursor[r.user]]}
    /\ UNCHANGED <<author, gone, memory, cursor, told, failed, problems>>

(* It locks the row and keeps the larger cursor; whether it advanced is      *)
(* judged by the value of the request and the row that was seen.             *)
StoreCursor(m) ==
    /\ \E r \in Step(m, "snapshot") :
          /\ cursor' = [cursor EXCEPT ![r.user] = Larger(@, r.to)]
          /\ marking' = IF r.to > r.from
                        THEN (marking \ {r}) \cup {[r EXCEPT !.step = "advanced", !.to = cursor'[r.user]]}
                        ELSE marking \ {r}
    /\ UNCHANGED <<author, gone, memory, told, failed, problems>>

AuthorsOfLast(r) == {author[p] : p \in {r.to} \ gone} \ {r.user}

(* The authors of the messages the cursor has passed now. *)
AuthorsInRange(r) == {author[p] : p \in (r.from + 1 .. r.to) \ gone} \ {r.user}

(* The furthest that anybody but u has read. *)
AggregateExcluding(u) == Max({cursor[v] : v \in Members \ {u}})

(* send_read_cursor_event to the peer of a direct channel. *)
PeerTold(r) == [u \in Members |-> IF u = r.user THEN told[u] ELSE Larger(told[u], r.to)]

(* send_group_read_aggregate_event to the authors in a group. *)
AuthorsTold(r) ==
    [u \in Members |-> IF u \in AuthorsInRange(r) THEN Larger(told[u], AggregateExcluding(u)) ELSE told[u]]

Broadcast(m) ==
    /\ \E r \in Step(m, "advanced") :
          /\ told' = IF Direct THEN PeerTold(r) ELSE AuthorsTold(r)
          /\ marking' = marking \ {r}
    /\ UNCHANGED <<author, gone, memory, cursor, failed, problems>>

(* A call of the request fails and ends it with an error. *)
MarkFails(m) ==
    /\ Fault
    /\ \E r \in marking :
          /\ r.id = m
          /\ marking' = marking \ {r}
          /\ failed' = failed \cup {r.user}
    /\ UNCHANGED <<author, gone, memory, cursor, told>>

-----------------------------------------------------------------------------
(* The channel leaves the memory and is loaded again, with no cursors. *)
EvictStaleMemory ==
    /\ memory # Zero
    /\ memory' = Zero
    /\ UNCHANGED <<author, gone, cursor, marking, told, failed, problems>>

(* The server starts again. *)
Restart ==
    /\ Fault
    /\ memory' = Zero
    /\ failed' = failed \cup {r.user : r \in marking}
    /\ marking' = {}
    /\ UNCHANGED <<author, gone, cursor, told>>

Next ==
    \/ \E s \in Members : Commit(s)
    \/ \E p \in 1 .. MaxPts : Revoke(p)
    \/ \E m \in Marks :
          \/ \E u \in Readers, requested, visible \in 0 .. MaxPts : MarkReadPts(m, u, requested, visible)
          \/ SnapshotCursor(m) \/ StoreCursor(m) \/ Broadcast(m) \/ MarkFails(m)
    \/ EvictStaleMemory \/ Restart

Spec == Init /\ [][Next]_vars

-----------------------------------------------------------------------------
(* "你的消息有人读了": once the requests of a reader are done and none of      *)
(* them failed, the peer, or in a group the author of every message below    *)
(* the reader's cursor, has been told that it was read, although each        *)
(* request announces only the range it believes it advanced over             *)
(* (read_state_service.rs broadcast_read_cursor).                            *)
ReadsAreAnnounced ==
    \A u \in Members :
        u \notin failed /\ (\A r \in marking : r.user # u)
          => IF Direct
             THEN \A v \in Members \ {u} : told[v] >= cursor[u]
             ELSE \A p \in 1 .. cursor[u] : author[p] # u /\ p \notin gone => told[author[p]] >= p
=============================================================================
