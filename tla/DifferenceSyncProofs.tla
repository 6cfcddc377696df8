------------------------ MODULE DifferenceSyncProofs ------------------------
(***************************************************************************)
(* For any number of clients, any limits and any cache size: Redis never   *)
(* runs ahead of the commit log, and every difference a client is sent is  *)
(* a true one. With them the unread counts (UnreadCount), for any number   *)
(* of members, messages and revokes.                                       *)
(***************************************************************************)
EXTENDS DifferenceSync, FiniteSetTheorems, WellFoundedInduction, TLAPS

(* Everything that is on its way into Redis is committed. *)
Pending ==
    /\ \A w \in direct : w[1] \in 1 .. dbPts
    /\ submitted \subseteq 1 .. dbPts
    /\ \A i \in 1 .. Len(queue) : queue[i] \in 1 .. dbPts
    /\ \A B \in backfill : B \subseteq 1 .. dbPts /\ B # {}
    /\ \A c \in Clients : current[c] \in 0 .. dbPts

Shapes ==
    /\ dbPts \in Nat
    /\ direct \subseteq Nat \X {"pts", "commit"}
    /\ queue \in Seq(Nat)
    /\ current \in [Clients -> Nat]

CacheInv ==
    /\ Shapes
    /\ Pending
    /\ cachedPts # None => cachedPts \in 0 .. dbPts
    /\ cache \subseteq 1 .. dbPts

LEMMA CacheInit == Init => CacheInv
BY SyncAssumption DEF Init, CacheInv, Shapes, Pending

(* Caching a commit keeps the cache within the log. *)
LEMMA CachedInLog ==
    ASSUME NEW p \in 1 .. dbPts, cache \subseteq 1 .. dbPts
    PROVE  Cached(p) \subseteq 1 .. dbPts /\ \A C \in FailedWrites(p) : C \subseteq 1 .. dbPts
BY DEF Cached, LastN, FailedWrites

(* A step of one RPC that leaves the writers alone. *)
LEMMA RpcStep ==
    ASSUME CacheInv, UNCHANGED <<dbPts, cache, direct, submitted, queue>>,
           cachedPts' = cachedPts \/ cachedPts' \in 0 .. dbPts,
           \A B \in backfill' : B \in backfill \/ (B \subseteq 1 .. dbPts /\ B # {}),
           \/ current' = current
           \/ \E c \in Clients, n \in 0 .. dbPts : current' = [current EXCEPT ![c] = n]
           \/ current' = [c \in Clients |-> 0]
    PROVE  CacheInv'
<1>1. current' \in [Clients -> Nat] /\ \A c \in Clients : current'[c] \in 0 .. dbPts
  <2>1. dbPts \in Nat /\ current \in [Clients -> Nat] /\ \A c \in Clients : current[c] \in 0 .. dbPts
    BY DEF CacheInv, Shapes, Pending
  <2>2. CASE current' = current
    BY <2>1, <2>2
  <2>3. CASE \E c \in Clients, n \in 0 .. dbPts : current' = [current EXCEPT ![c] = n]
    BY <2>1, <2>3
  <2>4. CASE current' = [c \in Clients |-> 0]
    BY <2>1, <2>4
  <2> QED
    BY <2>2, <2>3, <2>4
<1> QED
  BY <1>1 DEF CacheInv, Shapes, Pending

LEMMA CacheNext == CacheInv /\ [Next]_vars => CacheInv'
<1> SUFFICES ASSUME CacheInv, [Next]_vars PROVE CacheInv'
  OBVIOUS
<1> USE SyncAssumption
<1>s. Shapes /\ Pending /\ dbPts \in Nat /\ cache \subseteq 1 .. dbPts
  BY DEF CacheInv, Shapes
<1>1. CASE CommitDirect
  <2>1. dbPts' = dbPts + 1 /\ direct' = direct \cup {<<dbPts + 1, "pts">>} /\ cache' = cache
        /\ cachedPts' = cachedPts /\ submitted' = submitted /\ queue' = queue /\ backfill' = backfill
        /\ current' = current
    BY <1>1 DEF CommitDirect, redis, rpc
  <2>2. <<dbPts + 1, "pts">>[1] = dbPts + 1 /\ <<dbPts + 1, "pts">> \in Nat \X {"pts", "commit"}
    BY <1>s
  <2>3. \A x \in 1 .. dbPts : x \in 1 .. dbPts'
    BY <2>1, <1>s
  <2>4. Shapes'
    BY <2>1, <2>2, <1>s DEF Shapes
  <2>5. Pending'
    BY <2>1, <2>2, <2>3, <1>s DEF Pending
  <2> QED
    BY <2>1, <2>4, <2>5, <1>s DEF CacheInv
<1>2. CASE CommitSubmit
  BY <1>2 DEF CommitSubmit, redis, rpc, CacheInv, Shapes, Pending
<1>3. ASSUME NEW p, CachePts(p) PROVE CacheInv'
  <2>1. <<p, "pts">> \in direct /\ <<p, "pts">>[1] = p /\ <<p, "commit">>[1] = p
    BY <1>3 DEF CachePts
  <2>2. p \in 1 .. dbPts /\ <<p, "commit">> \in Nat \X {"pts", "commit"}
    BY <2>1, <1>s DEF Pending
  <2>3. Shapes'
    BY <1>3, <2>2, <1>s DEF CachePts, Shapes, rpc
  <2>4. Pending'
    BY <1>3, <2>1, <2>2, <1>s DEF CachePts, Pending, rpc
  <2> QED
    BY <1>3, <2>2, <2>3, <2>4, <1>s DEF CachePts, CacheInv
<1>4. ASSUME NEW p, CacheCommit(p) PROVE CacheInv'
  <2>1. <<p, "commit">> \in direct /\ <<p, "commit">>[1] = p
    BY <1>4 DEF CacheCommit
  <2>2. p \in 1 .. dbPts
    BY <2>1, <1>s DEF Pending
  <2>3. Cached(p) \subseteq 1 .. dbPts
    BY <2>2, <1>s, CachedInLog
  <2> QED
    BY <1>4, <2>3 DEF CacheCommit, CacheInv, Shapes, Pending, rpc
<1>5. ASSUME NEW w, CacheFails(w) PROVE CacheInv'
  <2>1. w \in direct /\ w[1] \in 1 .. dbPts
    BY <1>5, <1>s DEF CacheFails, Pending
  <2>2. cache' = cache \/ cache' \in FailedWrites(w[1])
    BY <1>5 DEF CacheFails
  <2>3. cache' \subseteq 1 .. dbPts
    BY <2>1, <2>2, <1>s, CachedInLog
  <2> QED
    BY <1>5, <2>3 DEF CacheFails, CacheInv, Shapes, Pending, rpc
<1>6. ASSUME NEW p, Enqueue(p) PROVE CacheInv'
  <2>1. p \in 1 .. dbPts /\ p \in Nat
    BY <1>6, <1>s DEF Enqueue, Pending
  <2>2. queue' \in Seq(Nat) /\ \A i \in 1 .. Len(queue') : queue'[i] \in 1 .. dbPts
    <3>1. CASE queue' = queue
      BY <3>1, <1>s DEF Shapes, Pending
    <3>2. CASE queue' = Append(queue, p)
      BY <3>2, <2>1, <1>s DEF Shapes, Pending
    <3> QED
      BY <3>1, <3>2, <1>6 DEF Enqueue
  <2> QED
    BY <1>6, <2>2 DEF Enqueue, CacheInv, Shapes, Pending, rpc, redis
<1>7. ASSUME NEW a \in BOOLEAN, NEW b \in BOOLEAN, DrainQueue(a, b) PROVE CacheInv'
  <2>1. queue \in Seq(Nat) /\ queue # <<>>
    BY <1>7, <1>s DEF DrainQueue, Shapes
  <2>2. Head(queue) = queue[1] /\ 1 \in 1 .. Len(queue)
    BY <2>1
  <2>3. Head(queue) \in 1 .. dbPts
    BY <2>2, <1>s DEF Pending
  <2>4. Tail(queue) \in Seq(Nat) /\ \A i \in 1 .. Len(Tail(queue)) : Tail(queue)[i] \in 1 .. dbPts
    BY <2>1, <1>s DEF Pending
  <2>5. Cached(Head(queue)) \subseteq 1 .. dbPts /\ \A C \in FailedWrites(Head(queue)) : C \subseteq 1 .. dbPts
    BY <2>3, <1>s, CachedInLog
  <2>6. UNCHANGED <<dbPts, direct, submitted, backfill, current>> /\ queue' = Tail(queue)
    BY <1>7 DEF DrainQueue, rpc
  <2>7. Shapes' /\ Pending'
    BY <2>4, <2>6, <1>s DEF Shapes, Pending
  <2>8. cache' \subseteq 1 .. dbPts
    <3>1. cache' = Cached(Head(queue)) \/ cache' \in FailedWrites(Head(queue))
      BY <1>7 DEF DrainQueue
    <3> QED
      BY <3>1, <2>5, <1>s
  <2>9. cachedPts' # None => cachedPts' \in 0 .. dbPts
    <3>1. cachedPts' = Head(queue) \/ cachedPts' = cachedPts
      BY <1>7 DEF DrainQueue
    <3> QED
      BY <3>1, <2>3, <1>s DEF CacheInv
  <2> QED
    BY <2>6, <2>7, <2>8, <2>9 DEF CacheInv
<1>8. ASSUME NEW B, Backfill(B) PROVE CacheInv'
  <2>1. PICK p \in B : cache' = Cached(p) /\ backfill' = (backfill \ {B}) \cup ({B \ {p}} \ {{}})
    BY <1>8 DEF Backfill
  <2>2. B \subseteq 1 .. dbPts
    BY <1>8, <1>s DEF Backfill, Pending
  <2>3. Cached(p) \subseteq 1 .. dbPts
    BY <2>1, <2>2, <1>s, CachedInLog
  <2>4. \A C \in backfill' : C \subseteq 1 .. dbPts /\ C # {}
    BY <2>1, <2>2, <1>s DEF Pending
  <2> QED
    BY <1>8, <2>1, <2>3, <2>4 DEF Backfill, CacheInv, Shapes, Pending, rpc
<1>9. ASSUME NEW B, BackfillFails(B) PROVE CacheInv'
  <2>1. PICK p \in B : cache' \in FailedWrites(p)
    BY <1>9 DEF BackfillFails
  <2>2. p \in 1 .. dbPts
    BY <1>9, <1>s DEF BackfillFails, Pending
  <2>3. cache' \subseteq 1 .. dbPts
    BY <2>1, <2>2, <1>s, CachedInLog
  <2> QED
    BY <1>9, <2>3 DEF BackfillFails, CacheInv, Shapes, Pending, rpc
<1>10. CASE PtsExpires \/ CommitsExpire
  BY <1>10 DEF PtsExpires, CommitsExpire, CacheInv, Shapes, Pending, rpc, writers
<1>11. CASE Restart
  BY <1>11 DEF Restart, CacheInv, Shapes, Pending, redis
<1>12. ASSUME NEW c \in Clients, NEW l, GetDifference(c, l) PROVE CacheInv'
  BY <1>12, RpcStep DEF GetDifference, redis, writers, CacheInv, Pending
<1>12a. ASSUME NEW c \in Clients, GetChannelPts(c) PROVE CacheInv'
  BY <1>12a, RpcStep DEF GetChannelPts, redis, writers, CacheInv, Pending
<1>13. ASSUME NEW c \in Clients, ReadCachedPts(c) PROVE CacheInv'
  BY <1>13, RpcStep DEF ReadCachedPts, redis, writers, CacheInv, Pending
<1>14. ASSUME NEW c \in Clients, MissCachedPts(c) \/ QueryHit(c) \/ QueryMiss(c) PROVE CacheInv'
  BY <1>14, RpcStep DEF MissCachedPts, QueryHit, QueryMiss, redis, writers, CacheInv, Pending
<1>15. ASSUME NEW c \in Clients, ReadDbPts(c) PROVE CacheInv'
  <2>1. dbPts \in 0 .. dbPts /\ current' = [current EXCEPT ![c] = dbPts]
    BY <1>15, <1>s DEF ReadDbPts
  <2>2. \E d \in Clients, n \in 0 .. dbPts : current' = [current EXCEPT ![d] = n]
    BY <2>1
  <2>3. UNCHANGED <<dbPts, cache, direct, submitted, queue, cachedPts, backfill>>
    BY <1>15 DEF ReadDbPts, redis, writers
  <2> QED
    BY <2>2, <2>3, RpcStep
<1>16. ASSUME NEW c \in Clients, StorePts(c) PROVE CacheInv'
  BY <1>16, <1>s, RpcStep DEF StorePts, writers, Pending
<1>17. ASSUME NEW c \in Clients, QueryDb(c) PROVE CacheInv'
  <2>1. InDb(c) \subseteq 1 .. dbPts
    BY DEF InDb, FirstN
  <2> QED
    BY <1>17, <2>1, <1>s, RpcStep DEF QueryDb, redis, Pending
<1>18. ASSUME NEW c \in Clients, RpcFails(c) \/ Apply(c) PROVE CacheInv'
  <2>1. 0 \in 0 .. dbPts
    BY <1>s
  <2> QED
    BY <1>18, <2>1, <1>s, RpcStep DEF RpcFails, Apply, EndRpc, redis, writers, Pending
<1>19. ASSUME NEW c \in Clients, ReceivePush(c) PROVE CacheInv'
  BY <1>19, RpcStep DEF ReceivePush, redis, writers, rpc, CacheInv, Pending
<1>20. CASE UNCHANGED vars
  BY <1>20, RpcStep DEF vars, redis, writers, rpc, CacheInv, Pending
<1> QED
  BY <1>1, <1>2, <1>3, <1>4, <1>5, <1>6, <1>7, <1>8, <1>9, <1>10, <1>11, <1>12, <1>12a, <1>13, <1>14, <1>15,
     <1>16, <1>17, <1>18, <1>19, <1>20 DEF Next, Write, Handler

(* Redis never runs ahead of the database, however many clients read, however*)
(* late a handler, the queue or a write-back writes, and after any restart.  *)
THEOREM CacheNeverAhead == Spec => []CacheBehindLog
<1>1. CacheInv => CacheBehindLog
  BY DEF CacheInv, CacheBehindLog, Shapes
<1> QED
  BY <1>1, CacheInit, CacheNext, PTL DEF Spec

-----------------------------------------------------------------------------
(* The least, the greatest and the first few of a set of pts. *)

Less == {ss \in Nat \X Nat : ss[1] < ss[2]}

LEMMA LessWF == IsWellFoundedOn(Less, Nat)
  BY NatLessThanWellFounded DEF OpToRel, Less

(* The least-number principle, for a set. *)
LEMMA LeastNat ==
  ASSUME NEW T \in SUBSET Nat, T # {}
  PROVE  \E x \in T : \A y \in T : x <= y
<1>1. PICK x \in T : \A y \in T : ~ (<<y, x>> \in Less)
  BY LessWF, WFMin
<1>2. ASSUME NEW y \in T PROVE x <= y
  <2>1. <<y, x>> \notin Less
    BY <1>1
  <2>2. <<y, x>> \in Nat \X Nat /\ <<y, x>>[1] = y /\ <<y, x>>[2] = x
    OBVIOUS
  <2>3. ~(y < x)
    BY <2>1, <2>2 DEF Less
  <2> QED BY <2>3
<1> QED BY <1>2

(* A non-empty set of commits has a last one. *)
LEMMA MaxIn ==
  ASSUME NEW n \in Nat, NEW S \in SUBSET (0 .. n), S # {}
  PROVE  Max(S) \in S /\ \A y \in S : y <= Max(S)
<1> DEFINE T == {k \in Nat : n - k \in S}
<1>1. PICK x0 \in S : TRUE
  OBVIOUS
<1>2. n - x0 \in T /\ T \in SUBSET Nat
  OBVIOUS
<1>3. PICK m \in T : \A y \in T : m <= y
  BY <1>2, LeastNat
<1>4. \A y \in S : n - m >= y
  <2> TAKE y \in S
  <2>1. n - y \in T
    OBVIOUS
  <2> QED BY <1>3, <2>1
<1>5. \E z \in S : \A y \in S : z >= y
  BY <1>3, <1>4
<1> QED BY <1>5 DEF Max

LEMMA MinIn ==
  ASSUME NEW S \in SUBSET Nat, NEW x \in S, \A y \in S : x <= y
  PROVE  Min(S) = x
<1>1. Min(S) \in S /\ \A y \in S : Min(S) <= y
  BY DEF Min
<1>2. Min(S) \in Nat /\ x \in Nat /\ Min(S) <= x /\ x <= Min(S)
  BY <1>1
<1> QED BY <1>2


(* A page of a range holds at most as many commits as were asked for. *)
LEMMA FirstNCount ==
  ASSUME NEW m \in Nat, NEW S \in SUBSET (1 .. m), NEW n \in Nat
  PROVE  IsFiniteSet(FirstN(S, n)) /\ Cardinality(FirstN(S, n)) <= n
<1> DEFINE F == FirstN(S, n)
<1>0. F \subseteq S
  BY Zenon DEF FirstN
<1> HIDE DEF F
<1>1. F \in SUBSET S /\ F \in SUBSET (0 .. m)
  BY <1>0
<1>2. IsFiniteSet(S) /\ IsFiniteSet(F)
  <2>1. IsFiniteSet(1 .. m)
    BY FS_Interval
  <2>2. IsFiniteSet(S)
    BY <2>1, FS_Subset
  <2> QED BY <1>1, <2>2, FS_Subset
<1>3. CASE F = {}
  BY <1>2, <1>3, FS_EmptySet DEF F
<1>4. CASE F # {}
  <2> DEFINE x == Max(F)
             B == {y \in S : y < x}
  <2>1. x \in F /\ \A y \in F : y <= x
    BY <1>1, <1>4, MaxIn
  <2>2. Cardinality(B) < n
    BY <2>1 DEF F, FirstN
  <2> HIDE DEF x
  <2>3. F \ {x} \in SUBSET B
    BY <1>1, <2>1
  <2>4. IsFiniteSet(B) /\ Cardinality(B) \in Nat
    BY <1>2, FS_Subset, FS_CardinalityType
  <2>5. Cardinality(F \ {x}) <= Cardinality(B)
    BY <2>3, <2>4, FS_Subset
  <2>6. Cardinality(F \ {x}) = Cardinality(F) - 1 /\ Cardinality(F) \in Nat
    BY <1>2, <2>1, FS_RemoveElement, FS_CardinalityType
  <2> QED BY <1>2, <2>2, <2>4, <2>5, <2>6 DEF F
<1> QED BY <1>3, <1>4

(* A page that is not empty holds the first commit of its range. *)
LEMMA FirstNFirst ==
  ASSUME NEW m \in Nat, NEW S \in SUBSET (1 .. m), NEW n \in Nat, FirstN(S, n) # {},
         NEW x \in S, \A y \in S : x <= y
  PROVE  Min(FirstN(S, n)) = x
<1>1. n # 0
  <2>1. PICK z \in S : Cardinality({y \in S : y < z}) < n
    BY DEF FirstN
  <2>2. Cardinality({y \in S : y < z}) \in Nat
    <3>1. IsFiniteSet(1 .. m)
      BY FS_Interval
    <3>2. {y \in S : y < z} \subseteq 1 .. m
      OBVIOUS
    <3> QED BY <3>1, <3>2, FS_Subset, FS_CardinalityType
  <2> QED BY <2>1, <2>2
<1>2. \A y \in S : ~(y < x)
  OBVIOUS
<1>3. {y \in S : y < x} = {}
  BY <1>2
<1>4. Cardinality({y \in S : y < x}) < n
  BY <1>1, <1>3, FS_EmptySet
<1>5. x \in FirstN(S, n) /\ FirstN(S, n) \subseteq S
  BY <1>4 DEF FirstN
<1>6. S \subseteq Nat
  OBVIOUS
<1>7. FirstN(S, n) \in SUBSET Nat /\ \A y \in FirstN(S, n) : x <= y
  BY <1>5, <1>6, Zenon
<1> QED BY <1>5, <1>7, MinIn

-----------------------------------------------------------------------------
(* The replies. *)

Phases == {"idle", "pts", "db_pts", "store_pts", "query", "db_partial", "db_miss", "replied"}

RpcShapes ==
    /\ phase \in [Clients -> Phases]
    /\ last \in [Clients -> Nat] /\ limit \in [Clients -> Nat]
    /\ DOMAIN reply = Clients
    /\ reply = [c \in Clients |-> reply[c]]
    /\ cursor \in [Clients -> Nat]
    /\ \A c \in Clients : cursor[c] <= dbPts

(* What a reply to a client that asked from l for n commits may say. *)
TrueReply(r, l, n) ==
    /\ r.commits \subseteq 1 .. dbPts
    /\ r.commits # {} => Min(r.commits) = l + 1
    /\ Cardinality(r.commits) <= n
    /\ r.more => r.commits # {} /\ Max(r.commits) < dbPts

(* There is a reply exactly between the handler's answer and the client's    *)
(* taking it, so what was asked cannot change under it.                      *)
Replies ==
    \A c \in Clients :
        /\ reply[c] # None => phase[c] = "replied"
        /\ phase[c] = "replied" => TrueReply(reply[c], last[c], limit[c])

(* An empty reply is true. *)
LEMMA EmptyReply ==
  ASSUME NEW l \in Nat, NEW n \in Nat
  PROVE  TrueReply(Resync, l, n) /\ TrueReply(OnlyPts, l, n)
BY FS_EmptySet DEF TrueReply, Resync, OnlyPts

(* A true reply stays true while the log grows. *)
LEMMA LogGrows ==
  ASSUME dbPts \in Nat, dbPts' \in Nat, dbPts <= dbPts', NEW r, NEW l, NEW n, TrueReply(r, l, n)
  PROVE  TrueReply(r, l, n)'
<1>1. r.commits \subseteq 1 .. dbPts'
  BY DEF TrueReply
<1>2. r.more => r.commits # {} /\ Max(r.commits) < dbPts'
  <2> SUFFICES ASSUME r.more PROVE r.commits # {} /\ Max(r.commits) < dbPts'
    OBVIOUS
  <2>1. r.commits # {} /\ Max(r.commits) < dbPts /\ r.commits \in SUBSET (0 .. dbPts)
    BY DEF TrueReply
  <2>2. Max(r.commits) \in 0 .. dbPts
    BY <2>1, MaxIn
  <2> QED BY <2>1, <2>2
<1> QED BY <1>1, <1>2 DEF TrueReply

(* The difference built from a page of committed commits is true, from the   *)
(* cache or from the database, although current_pts may be stale.            *)
LEMMA DifferenceTrue ==
  ASSUME CacheInv, RpcShapes, NEW c \in Clients, NEW S \in SUBSET (1 .. dbPts),
         FirstN(S, limit[c]) # {} => Min(FirstN(S, limit[c])) = last[c] + 1
  PROVE  TrueReply(Difference(c, FirstN(S, limit[c])), last[c], limit[c])
<1> DEFINE F == FirstN(S, limit[c])
<1>1. /\ dbPts \in Nat /\ current[c] \in 0 .. dbPts
      /\ last[c] \in Nat /\ limit[c] \in Nat
  BY DEF CacheInv, Shapes, Pending, RpcShapes
<1>2. F \subseteq S
  BY Zenon DEF FirstN
<1>3. Cardinality(F) <= limit[c]
  BY <1>1, FirstNCount
<1>4. F # {} => Min(F) = last[c] + 1
  OBVIOUS
<1> HIDE DEF F
<1>5. CASE Difference(c, F) = Resync
  BY <1>1, <1>5, EmptyReply DEF F
<1> DEFINE mo == F # {} /\ Max(F) < current[c]
           R == [resync |-> FALSE, commits |-> F, more |-> mo]
<1>6. CASE Difference(c, F) = R
  <2>1. F # {} => Max(F) \in 0 .. dbPts
    <3>1. F \in SUBSET (0 .. dbPts)
      BY <1>2
    <3> QED BY <1>1, <3>1, MaxIn
  <2>2. mo => F # {} /\ Max(F) < dbPts
    BY <1>1, <2>1
  <2>3. F \subseteq 1 .. dbPts
    BY <1>2
  <2> HIDE DEF mo
  <2>4. R.commits = F /\ R.more = mo
    OBVIOUS
  <2> HIDE DEF R
  <2>5. TrueReply(R, last[c], limit[c])
    BY <1>3, <1>4, <2>2, <2>3, <2>4, Zenon DEF TrueReply
  <2> QED BY <1>6, <2>5 DEF F
<1> QED BY <1>5, <1>6 DEF Difference

(* Both places a page is read from qualify. *)
LEMMA CachePageTrue ==
  ASSUME CacheInv, RpcShapes, NEW c \in Clients, Usable(c, InCache(c))
  PROVE  TrueReply(Difference(c, InCache(c)), last[c], limit[c])
<1> DEFINE S == {p \in cache : p > last[c]}
<1>1. S \in SUBSET (1 .. dbPts)
  BY DEF CacheInv
<1>2. Min(FirstN(S, limit[c])) = last[c] + 1
  BY DEF Usable, InCache
<1> HIDE DEF S
<1>3. TrueReply(Difference(c, FirstN(S, limit[c])), last[c], limit[c])
  BY <1>1, <1>2, DifferenceTrue
<1> QED BY <1>3 DEF S, InCache

LEMMA LogPageTrue ==
  ASSUME CacheInv, RpcShapes, NEW c \in Clients
  PROVE  TrueReply(Difference(c, InDb(c)), last[c], limit[c])
<1> DEFINE S == {p \in 1 .. dbPts : p > last[c]}
<1>0. dbPts \in Nat /\ last[c] \in Nat /\ limit[c] \in Nat
  BY DEF CacheInv, Shapes, RpcShapes
<1>1. S \in SUBSET (1 .. dbPts)
  OBVIOUS
<1>2. ASSUME FirstN(S, limit[c]) # {} PROVE Min(FirstN(S, limit[c])) = last[c] + 1
  <2>1. FirstN(S, limit[c]) \subseteq S
    BY Zenon DEF FirstN
  <2>2. PICK p \in S : TRUE
    BY <1>2, <2>1
  <2>3. last[c] + 1 \in S /\ \A y \in S : last[c] + 1 <= y
    BY <1>0, <2>2
  <2> HIDE DEF S
  <2> QED BY <1>0, <1>1, <1>2, <2>3, FirstNFirst
<1> HIDE DEF S
<1>3. TrueReply(Difference(c, FirstN(S, limit[c])), last[c], limit[c])
  BY <1>1, <1>2, DifferenceTrue
<1> QED BY <1>3 DEF S, InDb

ReplyInv == CacheInv /\ RpcShapes /\ Replies

LEMMA ReplyInit == Init => ReplyInv
<1> SUFFICES ASSUME Init PROVE RpcShapes /\ Replies
  BY CacheInit DEF ReplyInv
<1>1. RpcShapes
  BY DEF Init, RpcShapes, Phases
<1>2. Replies
  BY DEF Init, Replies
<1> QED BY <1>1, <1>2

(* The RPCs a step leaves alone keep their replies. *)
LEMMA OthersKeep ==
  ASSUME ReplyInv, dbPts' \in Nat, dbPts <= dbPts', NEW c \in Clients,
         phase'[c] = phase[c], reply'[c] = reply[c], last'[c] = last[c], limit'[c] = limit[c]
  PROVE  /\ reply'[c] # None => phase'[c] = "replied"
         /\ phase'[c] = "replied" => TrueReply(reply[c], last[c], limit[c])'
<1>1. dbPts \in Nat
  BY DEF ReplyInv, CacheInv, Shapes
<1>2. phase[c] = "replied" => TrueReply(reply[c], last[c], limit[c])
  BY DEF ReplyInv, Replies
<1>3. ASSUME phase[c] = "replied" PROVE TrueReply(reply[c], last[c], limit[c])'
  <2> DEFINE r == reply[c]
             l == last[c]
             n == limit[c]
  <2>1. TrueReply(r, l, n)
    BY <1>2, <1>3
  <2>2. r' = r /\ l' = l /\ n' = n
    OBVIOUS
  <2> QED BY <1>1, <2>1, <2>2, LogGrows DEF TrueReply
<1> QED BY <1>3 DEF ReplyInv, Replies

(* A step of one client's RPC. *)
LEMMA OneRpc ==
  ASSUME ReplyInv, UNCHANGED dbPts, NEW c \in Clients,
         NEW ph \in Phases, NEW rp, NEW l \in Nat, NEW n \in Nat,
         phase' = [phase EXCEPT ![c] = ph], reply' = [reply EXCEPT ![c] = rp],
         last' = [last EXCEPT ![c] = l], limit' = [limit EXCEPT ![c] = n],
         rp # None => ph = "replied",
         ph = "replied" => TrueReply(rp, l, n)
  PROVE  Replies' /\ phase' \in [Clients -> Phases] /\ last' \in [Clients -> Nat]
         /\ limit' \in [Clients -> Nat] /\ DOMAIN reply' = Clients
         /\ reply' = [d \in Clients |-> reply'[d]]
<1>0. RpcShapes /\ dbPts \in Nat
  BY DEF ReplyInv, CacheInv, Shapes
<1>1. /\ phase'[c] = ph /\ reply'[c] = rp /\ last'[c] = l /\ limit'[c] = n
      /\ \A d \in Clients \ {c} : /\ phase'[d] = phase[d] /\ reply'[d] = reply[d]
                                  /\ last'[d] = last[d] /\ limit'[d] = limit[d]
  BY <1>0 DEF RpcShapes
<1>2. Replies'
  <2> SUFFICES ASSUME NEW d \in Clients
               PROVE  /\ reply'[d] # None => phase'[d] = "replied"
                      /\ phase'[d] = "replied" => TrueReply(reply[d], last[d], limit[d])'
    BY DEF Replies
  <2>1. CASE d = c
    <3>1. TrueReply(rp, l, n) => TrueReply(reply[c], last[c], limit[c])'
      BY <1>1 DEF TrueReply
    <3> QED BY <1>1, <2>1, <3>1
  <2>2. CASE d # c
    BY <1>0, <1>1, <2>2, OthersKeep
  <2> QED BY <2>1, <2>2
<1> QED BY <1>0, <1>2 DEF RpcShapes

(* A step outside the RPCs. *)
LEMMA NoRpc ==
  ASSUME ReplyInv, dbPts' \in Nat, dbPts <= dbPts', UNCHANGED rpc
  PROVE  Replies'
BY OthersKeep DEF Replies, rpc

(* The three ways an RPC moves on: to another await, to a reply, to its end. *)
LEMMA RpcGoes ==
  ASSUME ReplyInv, UNCHANGED <<dbPts, last, limit, reply, cursor>>, NEW c \in Clients,
         NEW ph \in Phases \ {"replied"}, phase[c] # "replied", Goto(c, ph)
  PROVE  Replies' /\ RpcShapes'
<1>1. RpcShapes /\ reply[c] = None
  BY DEF ReplyInv, Replies
<1> DEFINE l == last[c]
           n == limit[c]
<1>2. /\ l \in Nat /\ n \in Nat /\ ph \in Phases
      /\ reply' = [reply EXCEPT ![c] = None] /\ last' = [last EXCEPT ![c] = l]
      /\ limit' = [limit EXCEPT ![c] = n] /\ phase' = [phase EXCEPT ![c] = ph]
  BY <1>1 DEF RpcShapes, Goto
<1> HIDE DEF l, n
<1>3. ph = "replied" => TrueReply(None, l, n)
  OBVIOUS
<1>4. Replies' /\ phase' \in [Clients -> Phases]
  BY <1>2, <1>3, OneRpc
<1> QED BY <1>1, <1>4 DEF RpcShapes

LEMMA RpcReplies ==
  ASSUME ReplyInv, UNCHANGED <<dbPts, last, limit, cursor>>, NEW c \in Clients,
         NEW rp, TrueReply(rp, last[c], limit[c]), Reply(c, rp)
  PROVE  Replies' /\ RpcShapes'
<1>1. RpcShapes
  BY DEF ReplyInv
<1>2. /\ last[c] \in Nat /\ limit[c] \in Nat /\ "replied" \in Phases
      /\ reply' = [reply EXCEPT ![c] = rp] /\ last' = [last EXCEPT ![c] = last[c]]
      /\ limit' = [limit EXCEPT ![c] = limit[c]] /\ phase' = [phase EXCEPT ![c] = "replied"]
  BY <1>1 DEF RpcShapes, Goto, Reply, Phases
<1>3. /\ Replies' /\ phase' \in [Clients -> Phases] /\ DOMAIN reply' = Clients
      /\ reply' = [d \in Clients |-> reply'[d]]
  BY <1>2, OneRpc
<1> QED BY <1>1, <1>3 DEF RpcShapes

LEMMA RpcEnds ==
  ASSUME ReplyInv, UNCHANGED dbPts, NEW c \in Clients, EndRpc(c),
         cursor' \in [Clients -> Nat], \A d \in Clients : cursor'[d] <= dbPts
  PROVE  Replies' /\ RpcShapes'
<1>1. "idle" \in Phases /\ "idle" # "replied" /\ 0 \in Nat
  BY DEF Phases
<1>2. /\ Replies' /\ phase' \in [Clients -> Phases] /\ last' \in [Clients -> Nat]
      /\ limit' \in [Clients -> Nat] /\ DOMAIN reply' = Clients
      /\ reply' = [d \in Clients |-> reply'[d]]
  BY <1>1, OneRpc DEF EndRpc, Goto
<1> QED BY <1>2 DEF RpcShapes

(* After the pts is known, the RPC replies at once or goes on to query. *)
LEMMA RpcChecks ==
  ASSUME ReplyInv, UNCHANGED <<dbPts, last, limit, cursor>>, NEW c \in Clients,
         phase[c] # "replied", NEW cur, CheckAhead(c, cur)
  PROVE  Replies' /\ RpcShapes'
<1>1. last[c] \in Nat /\ limit[c] \in Nat
  BY DEF ReplyInv, RpcShapes
<1>2. CASE Reply(c, OnlyPts) \/ Reply(c, Resync)
  BY <1>1, <1>2, EmptyReply, RpcReplies
<1>3. CASE Goto(c, "query") /\ UNCHANGED reply
  BY <1>3, RpcGoes DEF Phases
<1> QED BY <1>2, <1>3 DEF CheckAhead

LEMMA ReplyNext == ReplyInv /\ [Next]_vars => ReplyInv'
<1> SUFFICES ASSUME ReplyInv, [Next]_vars PROVE ReplyInv'
  OBVIOUS
<1> USE SyncAssumption
<1>s. /\ CacheInv /\ CacheInv' /\ RpcShapes /\ Replies
      /\ dbPts \in Nat /\ dbPts' \in Nat
  BY CacheNext DEF ReplyInv, CacheInv, Shapes
<1> SUFFICES Replies' /\ RpcShapes'
  BY <1>s DEF ReplyInv
<1>1. ASSUME UNCHANGED <<rpc, cursor>>, dbPts <= dbPts' PROVE Replies' /\ RpcShapes'
  <2>1. Replies'
    BY <1>1, <1>s, NoRpc
  <2>2. \A c \in Clients : cursor[c] \in Nat /\ cursor[c] <= dbPts
    BY <1>s DEF RpcShapes
  <2>3. \A c \in Clients : cursor'[c] <= dbPts'
    BY <1>1, <1>s, <2>2
  <2> QED BY <1>1, <1>s, <2>1, <2>3 DEF RpcShapes, rpc
<1>2. CASE CommitDirect \/ CommitSubmit
  <2>1. UNCHANGED <<rpc, cursor>> /\ dbPts' = dbPts + 1
    BY <1>2 DEF CommitDirect, CommitSubmit
  <2> QED BY <1>1, <1>s, <2>1
<1>3. CASE Write \/ PtsExpires \/ CommitsExpire
  <2>1. UNCHANGED <<rpc, cursor, dbPts>>
    BY <1>3 DEF Write, CachePts, CacheCommit, Enqueue, DrainQueue, CacheFails, Backfill,
                BackfillFails, PtsExpires, CommitsExpire
  <2> QED BY <1>1, <1>s, <2>1
<1>4. CASE Restart
  <2>1. /\ UNCHANGED <<dbPts, cursor>> /\ phase' = [c \in Clients |-> "idle"]
        /\ last' = [c \in Clients |-> 0] /\ limit' = [c \in Clients |-> 0]
        /\ reply' = [c \in Clients |-> None]
    BY <1>4 DEF Restart
  <2>2. RpcShapes'
    BY <1>s, <2>1 DEF RpcShapes, Phases
  <2>3. Replies'
    BY <2>1 DEF Replies
  <2> QED BY <2>2, <2>3
<1>5. ASSUME NEW c \in Clients, NEW l \in Limits, GetDifference(c, l)
      PROVE  Replies' /\ RpcShapes'
  <2>1. cursor[c] \in Nat /\ l \in Nat /\ phase[c] = "idle" /\ "pts" \in Phases
    BY <1>5, <1>s DEF RpcShapes, GetDifference, Phases
  <2>2. reply[c] = None
    BY <2>1, <1>s DEF Replies
  <2>3. /\ phase' = [phase EXCEPT ![c] = "pts"] /\ reply' = [reply EXCEPT ![c] = None]
        /\ last' = [last EXCEPT ![c] = cursor[c]] /\ limit' = [limit EXCEPT ![c] = l]
        /\ UNCHANGED <<dbPts, cursor>>
    BY <1>5, <1>s, <2>2 DEF RpcShapes, GetDifference, Goto
  <2>4. "pts" = "replied" => TrueReply(None, cursor[c], l)
    OBVIOUS
  <2>5. /\ Replies' /\ phase' \in [Clients -> Phases] /\ last' \in [Clients -> Nat]
        /\ limit' \in [Clients -> Nat] /\ DOMAIN reply' = Clients
        /\ reply' = [d \in Clients |-> reply'[d]]
    BY <2>1, <2>3, <2>4, OneRpc
  <2> QED BY <2>3, <2>5, <1>s DEF RpcShapes
<1>6. ASSUME NEW c \in Clients, GetChannelPts(c) PROVE Replies' /\ RpcShapes'
  BY <1>6, RpcGoes DEF GetChannelPts, Phases
<1>7. ASSUME NEW c \in Clients, MissCachedPts(c) \/ ReadDbPts(c) PROVE Replies' /\ RpcShapes'
  BY <1>7, RpcGoes DEF MissCachedPts, ReadDbPts, Phases
<1>8. ASSUME NEW c \in Clients, ReadCachedPts(c) \/ StorePts(c) PROVE Replies' /\ RpcShapes'
  BY <1>8, RpcChecks DEF ReadCachedPts, StorePts
<1>9. ASSUME NEW c \in Clients, QueryHit(c) PROVE Replies' /\ RpcShapes'
  BY <1>9, <1>s, CachePageTrue, RpcReplies DEF QueryHit
<1>10. ASSUME NEW c \in Clients, QueryMiss(c) PROVE Replies' /\ RpcShapes'
  <2>1. PICK ph \in {"db_miss", "db_partial"} : Goto(c, ph)
    BY <1>10 DEF QueryMiss
  <2>2. ph \in Phases \ {"replied"} /\ phase[c] # "replied"
        /\ UNCHANGED <<dbPts, last, limit, reply, cursor>>
    BY <1>10 DEF QueryMiss, Phases
  <2> QED BY <2>1, <2>2, RpcGoes
<1>11. ASSUME NEW c \in Clients, QueryDb(c) PROVE Replies' /\ RpcShapes'
  BY <1>11, <1>s, LogPageTrue, RpcReplies DEF QueryDb
<1>12. ASSUME NEW c \in Clients, RpcFails(c) PROVE Replies' /\ RpcShapes'
  <2>1. /\ EndRpc(c) /\ UNCHANGED <<dbPts, cursor>> /\ cursor \in [Clients -> Nat]
        /\ \A d \in Clients : cursor[d] <= dbPts
    BY <1>12, <1>s DEF RpcFails, RpcShapes
  <2> QED BY <2>1, RpcEnds
<1>13. ASSUME NEW c \in Clients, Apply(c) PROVE Replies' /\ RpcShapes'
  <2> DEFINE S == {cursor[c]} \cup reply[c].commits
  <2>1. reply[c].commits \subseteq 1 .. dbPts
    BY <1>13, <1>s DEF Apply, Replies, TrueReply
  <2>2. S \in SUBSET (0 .. dbPts) /\ S # {}
    BY <2>1, <1>s DEF RpcShapes
  <2>3. Max(S) \in 0 .. dbPts
    BY <2>2, <1>s, MaxIn
  <2>4. cursor' = [cursor EXCEPT ![c] = Max(S)] /\ EndRpc(c) /\ UNCHANGED dbPts
    BY <1>13 DEF Apply
  <2>5. cursor' \in [Clients -> Nat] /\ \A d \in Clients : cursor'[d] <= dbPts
    BY <2>3, <2>4, <1>s DEF RpcShapes
  <2> QED BY <2>4, <2>5, RpcEnds
<1>14. ASSUME NEW c \in Clients, ReceivePush(c) PROVE Replies' /\ RpcShapes'
  <2>1. UNCHANGED <<rpc, dbPts>> /\ cursor' = [cursor EXCEPT ![c] = @ + 1] /\ cursor[c] < dbPts
    BY <1>14 DEF ReceivePush
  <2>2. Replies'
    BY <1>s, <2>1, NoRpc
  <2>3. cursor' \in [Clients -> Nat] /\ \A d \in Clients : cursor'[d] <= dbPts
    BY <2>1, <1>s DEF RpcShapes
  <2> QED BY <1>s, <2>1, <2>2, <2>3 DEF RpcShapes, rpc
<1>15. CASE UNCHANGED vars
  BY <1>1, <1>15, <1>s DEF vars
<1> QED
  BY <1>2, <1>3, <1>4, <1>5, <1>6, <1>7, <1>8, <1>9, <1>10, <1>11, <1>12, <1>13, <1>14, <1>15
     DEF Next, Handler

(* handle_get_difference never misleads a client: whatever the cache holds,  *)
(* however stale the cached pts, and whatever commits, restarts and failed   *)
(* writes come in between, a difference starts right after the client's      *)
(* last_pts, names committed commits only, keeps to the limit, and announces *)
(* more only when there is more.                                             *)
THEOREM DifferencesAreTrue == Spec => []DifferenceIsTrue
<1>1. ReplyInv => DifferenceIsTrue
  BY DEF ReplyInv, Replies, TrueReply, DifferenceIsTrue
<1> QED
  BY <1>1, ReplyInit, ReplyNext, PTL DEF Spec

-----------------------------------------------------------------------------
(* Unread counts: what the batcher adds for the commits of the same path     *)
(* (UnreadCount).                                                            *)

CONSTANTS Members, Revokes, BatchCap
VARIABLES sender, removed, requests, pending, caching, unread, counts, seen, clearing, revoking, overlaps,
          readded, hitches
Uc == INSTANCE UnreadCount WITH QueueCap <- BatchCap, author <- sender, gone <- removed, redis <- counts,
                                cursor <- seen, problems <- hitches

(* The places of a sequence of senders that are not u. *)
Others(q, u) == {i \in 1 .. Len(q) : q[i] # u}

LEMMA OthersCount ==
  ASSUME NEW q \in Seq(Members), NEW u
  PROVE  IsFiniteSet(Others(q, u)) /\ Cardinality(Others(q, u)) \in Nat
<1>1. IsFiniteSet(1 .. Len(q))
  BY FS_Interval
<1>2. Others(q, u) \in SUBSET (1 .. Len(q))
  BY DEF Others
<1> QED BY <1>1, <1>2, FS_Subset, FS_CardinalityType

LEMMA OthersAppend ==
  ASSUME NEW q \in Seq(Members), NEW s \in Members, NEW u
  PROVE  Cardinality(Others(Append(q, s), u)) = Cardinality(Others(q, u)) + (IF s = u THEN 0 ELSE 1)
<1> DEFINE n == Len(q) + 1
<1>1. n \in Nat /\ Len(Append(q, s)) = n /\ 1 .. n = (1 .. Len(q)) \cup {n} /\ n \notin 1 .. Len(q)
  OBVIOUS
<1>2. \A i \in 1 .. Len(q) : Append(q, s)[i] = q[i]
  OBVIOUS
<1>3. Append(q, s)[n] = s
  OBVIOUS
<1>4. Others(Append(q, s), u) = IF s = u THEN Others(q, u) ELSE Others(q, u) \cup {n}
  BY <1>1, <1>2, <1>3 DEF Others
<1>5. n \notin Others(q, u)
  BY <1>1 DEF Others
<1>6. IsFiniteSet(Others(q, u)) /\ Cardinality(Others(q, u)) \in Nat
  BY OthersCount
<1> HIDE DEF n
<1>7. Cardinality(Others(q, u) \cup {n}) = Cardinality(Others(q, u)) + 1
  BY <1>5, <1>6, FS_AddElement
<1> QED BY <1>4, <1>6, <1>7

LEMMA OthersTail ==
  ASSUME NEW q \in Seq(Members), q # <<>>, NEW u
  PROVE  Cardinality(Others(q, u)) = Cardinality(Others(Tail(q), u)) + (IF Head(q) = u THEN 0 ELSE 1)
<1> DEFINE S == Others(Tail(q), u)
           T == Others(q, u) \ {1}
           f == [i \in S |-> i + 1]
<1>1. Tail(q) \in Seq(Members) /\ Len(q) \in Nat \ {0} /\ Len(Tail(q)) = Len(q) - 1 /\ Head(q) = q[1]
  OBVIOUS
<1>2. \A i \in 1 .. Len(q) - 1 : Tail(q)[i] = q[i + 1]
  OBVIOUS
<1>3. f \in [S -> T]
  BY <1>1, <1>2 DEF Others
<1>4. \A i, j \in S : f[i] = f[j] => i = j
  BY <1>1 DEF Others
<1>5. \A t \in T : t - 1 \in S /\ f[t - 1] = t
  BY <1>1, <1>2 DEF Others
<1>6. f \in Bijection(S, T)
  <2> HIDE DEF f, S, T
  <2> QED BY <1>3, <1>4, <1>5 DEF Bijection, Injection, Surjection, IsInjective
<1>7. Cardinality(T) = Cardinality(S)
  <2>1. IsFiniteSet(S)
    BY <1>1, OthersCount
  <2> HIDE DEF f, S, T
  <2> QED BY <1>6, <2>1, FS_Bijection DEF ExistsBijection
<1>8. (1 \in Others(q, u)) <=> (Head(q) # u)
  BY <1>1 DEF Others
<1>9. Cardinality(T) = IF 1 \in Others(q, u) THEN Cardinality(Others(q, u)) - 1 ELSE Cardinality(Others(q, u))
  BY OthersCount, FS_RemoveElement
<1>10. Cardinality(S) \in Nat /\ Cardinality(Others(q, u)) \in Nat
  BY <1>1, OthersCount
<1> QED BY <1>7, <1>8, <1>9, <1>10

LEMMA OthersEmpty == ASSUME NEW u PROVE Cardinality(Others(<<>>, u)) = 0
<1>1. Others(<<>>, u) = {}
  BY DEF Others
<1> QED BY <1>1, FS_EmptySet

CountShapes ==
    /\ sender \in Seq(Members) /\ requests \in Seq(Members)
    /\ pending \in [Members -> Nat] /\ unread \in [Members -> Nat] /\ seen \in [Members -> Nat]
    /\ readded \in [Members -> Nat] /\ hitches \in Nat

(* Only a member whose cursor has moved clears counts. *)
ClearsAfterRead ==
    /\ clearing \in [Members -> {"none", "unread", "redis"}]
    /\ \A u \in Members : clearing[u] # "none" => seen[u] > 0

(* A revoke under way that has marked its message has marked it. *)
RevokesKnown ==
    /\ IsFiniteSet(removed) /\ IsFiniteSet(revoking) /\ overlaps \in Nat
    /\ revoking \subseteq [id : Revokes, pts : Int, step : {"checked", "marked"}]
    /\ \A r \in revoking : r.step = "marked" => r.pts \in removed

(* What revokes may have taken out so far: every message that is revoked or  *)
(* about to be, once, and once more for an overlap, but not yet for a revoke *)
(* that is still under way.                                                  *)
Targets(open) == {r.pts : r \in open}
Excess(done, open, over) == Cardinality(done \cup Targets(open)) + over - Cardinality(open)
Allowed == Excess(removed, revoking, overlaps)

LEMMA TargetsCount ==
  ASSUME NEW open, IsFiniteSet(open)
  PROVE  /\ IsFiniteSet(Targets(open)) /\ Cardinality(Targets(open)) \in Nat
         /\ Cardinality(open) \in Nat /\ Cardinality(Targets(open)) <= Cardinality(open)
<1> DEFINE f == [r \in open |-> r.pts]
<1>1. f \in Surjection(open, Targets(open))
  BY DEF Surjection, Targets
<1> HIDE DEF f
<1>2. IsFiniteSet(Targets(open)) /\ Cardinality(Targets(open)) <= Cardinality(open)
  BY <1>1, FS_Surjection
<1> QED BY <1>2, FS_CardinalityType

LEMMA ExcessCount ==
  ASSUME NEW done, NEW open, NEW over \in Nat, IsFiniteSet(done), IsFiniteSet(open)
  PROVE  /\ Excess(done, open, over) \in Int /\ Cardinality(done) \in Nat /\ Cardinality(open) \in Nat
         /\ IsFiniteSet(done \cup Targets(open)) /\ Cardinality(done \cup Targets(open)) \in Nat
         /\ Excess(done, open, over) <= Cardinality(done) + over
<1>1. /\ IsFiniteSet(Targets(open)) /\ Cardinality(Targets(open)) \in Nat
      /\ Cardinality(open) \in Nat /\ Cardinality(Targets(open)) <= Cardinality(open)
  BY TargetsCount
<1>2. /\ IsFiniteSet(done \cup Targets(open))
      /\ Cardinality(done \cup Targets(open)) =
           Cardinality(done) + Cardinality(Targets(open)) - Cardinality(done \cap Targets(open))
  BY <1>1, FS_Union
<1>3. IsFiniteSet(done \cap Targets(open))
  BY <1>1, FS_Intersection
<1>4. /\ Cardinality(done) \in Nat /\ Cardinality(done \cap Targets(open)) \in Nat
      /\ Cardinality(done \cup Targets(open)) \in Nat
  BY <1>2, <1>3, FS_CardinalityType
<1> QED BY <1>1, <1>2, <1>4 DEF Excess

LEMMA AllowedNext == Allowed' = Excess(removed', revoking', overlaps')
BY DEF Allowed, Excess, Targets

LEMMA SameRevokes ==
  ASSUME RevokesKnown, UNCHANGED <<removed, revoking, overlaps>>
  PROVE  RevokesKnown' /\ Allowed' = Allowed /\ Allowed \in Int
BY ExcessCount, AllowedNext DEF RevokesKnown, Allowed

(* No more than the others wrote and a lost reply repeats; no less than they *)
(* wrote and revokes left, unless there was a fault or a read.               *)
Balanced(u, all, queued) ==
    /\ unread[u] + pending[u] + queued <= all + readded[u]
    /\ hitches = 0 /\ seen[u] = 0 => unread[u] + pending[u] + queued + Allowed >= all

Balance == \A u \in Members : Balanced(u, Cardinality(Others(sender, u)), Cardinality(Others(requests, u)))

CountInv == CountShapes /\ ClearsAfterRead /\ RevokesKnown /\ Balance

LEMMA CountInit == Uc!Init => CountInv
<1> SUFFICES ASSUME Uc!Init PROVE CountInv
  OBVIOUS
<1>1. CountShapes /\ ClearsAfterRead
  BY DEF Uc!Init, Uc!Zero, CountShapes, ClearsAfterRead
<1>2. ASSUME NEW u \in Members PROVE unread[u] = 0 /\ pending[u] = 0 /\ readded[u] = 0
  BY DEF Uc!Init, Uc!Zero
<1>3. sender = <<>> /\ requests = <<>> /\ removed = {} /\ revoking = {} /\ overlaps = 0
  BY DEF Uc!Init
<1>4. RevokesKnown
  BY <1>3, FS_EmptySet DEF RevokesKnown
<1>5. Allowed = 0
  <2>1. {} \cup Targets({}) = {}
    BY DEF Targets
  <2>2. Cardinality({}) = 0
    BY FS_EmptySet
  <2>3. Excess({}, {}, 0) = 0
    BY <2>1, <2>2 DEF Excess
  <2> QED BY <1>3, <2>3 DEF Allowed
<1> QED BY <1>1, <1>2, <1>3, <1>4, <1>5, OthersEmpty DEF CountInv, Balance, Balanced

(* A step that adds no message and leaves the queue alone. *)
LEMMA CountsMove ==
  ASSUME CountInv, CountShapes', ClearsAfterRead', RevokesKnown', UNCHANGED <<sender, requests>>,
         hitches' = 0 => hitches = 0,
         \A u \in Members :
            /\ seen'[u] = 0 => seen[u] = 0
            /\ unread'[u] + pending'[u] + readded[u] <= unread[u] + pending[u] + readded'[u]
            /\ hitches' = 0 /\ seen'[u] = 0 =>
                  unread'[u] + pending'[u] + Allowed' >= unread[u] + pending[u] + Allowed
  PROVE  CountInv'
<1>1. ASSUME NEW u \in Members
      PROVE  Balanced(u, Cardinality(Others(sender, u)), Cardinality(Others(requests, u)))'
  <2>1. Cardinality(Others(sender, u)) \in Nat /\ Cardinality(Others(requests, u)) \in Nat
    BY OthersCount DEF CountInv, CountShapes
  <2>2. Others(sender, u)' = Others(sender, u) /\ Others(requests, u)' = Others(requests, u)
    BY DEF Others
  <2>3. Balanced(u, Cardinality(Others(sender, u)), Cardinality(Others(requests, u)))
    BY DEF CountInv, Balance
  <2>4. /\ unread[u] \in Nat /\ pending[u] \in Nat /\ unread'[u] \in Nat /\ pending'[u] \in Nat
        /\ readded[u] \in Nat /\ readded'[u] \in Nat
    BY DEF CountInv, CountShapes
  <2>5. Allowed \in Int /\ Allowed' \in Int
    BY ExcessCount, AllowedNext DEF CountInv, RevokesKnown, Allowed
  <2> QED BY <2>1, <2>2, <2>3, <2>4, <2>5 DEF Balanced
<1> QED BY <1>1 DEF CountInv, Balance

LEMMA CountNext == CountInv /\ [Uc!Next]_Uc!vars => CountInv'
<1> SUFFICES ASSUME CountInv, [Uc!Next]_Uc!vars PROVE CountInv'
  OBVIOUS
<1>s. CountShapes /\ ClearsAfterRead /\ RevokesKnown /\ Balance
  BY DEF CountInv
<1>t. \A u \in Members : /\ Cardinality(Others(sender, u)) \in Nat /\ Cardinality(Others(requests, u)) \in Nat
                         /\ unread[u] \in Nat /\ pending[u] \in Nat /\ seen[u] \in Nat /\ readded[u] \in Nat
  BY <1>s, OthersCount DEF CountShapes
<1>f. Uc!Fault => hitches' # 0 /\ hitches' \in Nat
  BY <1>s DEF Uc!Fault, CountShapes
<1>1. ASSUME NEW s \in Members, Uc!Enqueue(s) PROVE CountInv'
  <2>1. /\ sender' = Append(sender, s) /\ requests' = Append(requests, s)
        /\ UNCHANGED <<pending, unread, seen, clearing, removed, revoking, overlaps, readded, hitches>>
    BY <1>1 DEF Uc!Enqueue, Uc!reading, Uc!removal
  <2>a. RevokesKnown' /\ Allowed' = Allowed /\ Allowed \in Int
    BY <1>s, <2>1, SameRevokes
  <2>2. CountShapes' /\ ClearsAfterRead'
    BY <1>s, <2>1 DEF CountShapes, ClearsAfterRead
  <2>3. ASSUME NEW u \in Members
        PROVE  Balanced(u, Cardinality(Others(sender, u)), Cardinality(Others(requests, u)))'
    <3>1. /\ Cardinality(Others(sender', u)) = Cardinality(Others(sender, u)) + (IF s = u THEN 0 ELSE 1)
          /\ Cardinality(Others(requests', u)) = Cardinality(Others(requests, u)) + (IF s = u THEN 0 ELSE 1)
      BY <1>s, <2>1, OthersAppend DEF CountShapes
    <3>2. Balanced(u, Cardinality(Others(sender, u)), Cardinality(Others(requests, u)))
      BY <1>s DEF Balance
    <3>3. Allowed \in Int /\ Allowed' = Allowed
      BY <2>a
    <3> DEFINE d == IF s = u THEN 0 ELSE 1
    <3>4. d \in Nat
      OBVIOUS
    <3> HIDE DEF d
    <3>5. /\ Cardinality(Others(sender', u)) = Cardinality(Others(sender, u)) + d
          /\ Cardinality(Others(requests', u)) = Cardinality(Others(requests, u)) + d
      BY <3>1 DEF d
    <3> DEFINE A == Cardinality(Others(sender, u))
               Q == Cardinality(Others(requests, u))
    <3>6. Balanced(u, A, Q) /\ A \in Nat /\ Q \in Nat
      BY <1>t, <3>2
    <3> HIDE DEF A, Q
    <3>7. UNCHANGED <<pending, unread, seen, readded, hitches>>
      BY <2>1
    <3>8. /\ unread'[u] + pending'[u] + (Q + d) <= (A + d) + readded'[u]
          /\ hitches' = 0 /\ seen'[u] = 0 => unread'[u] + pending'[u] + (Q + d) + Allowed' >= A + d
      BY <1>t, <3>3, <3>4, <3>6, <3>7 DEF Balanced
    <3> QED BY <3>5, <3>8 DEF Balanced, A, Q
  <2> QED BY <2>a, <2>2, <2>3 DEF CountInv, Balance
<1>2. ASSUME NEW s \in Members, Uc!SendMessage(s) PROVE CountInv'
  <2>1. /\ sender' = Append(sender, s)
        /\ UNCHANGED <<requests, pending, seen, clearing, removed, revoking, overlaps, readded>>
    BY <1>2 DEF Uc!SendMessage, Uc!reading, Uc!removal, Uc!batcher
  <2>2. PICK inDatabase \in BOOLEAN :
          /\ (inDatabase /\ UNCHANGED hitches) \/ Uc!Fault
          /\ unread' = [u \in Members |-> IF u # s /\ inDatabase THEN unread[u] + 1 ELSE unread[u]]
    BY <1>2 DEF Uc!SendMessage
  <2>a. RevokesKnown' /\ Allowed' = Allowed /\ Allowed \in Int
    BY <1>s, <2>1, SameRevokes
  <2>3. CountShapes' /\ ClearsAfterRead'
    BY <1>s, <1>f, <2>1, <2>2 DEF CountShapes, ClearsAfterRead
  <2>4. ASSUME NEW u \in Members
        PROVE  Balanced(u, Cardinality(Others(sender, u)), Cardinality(Others(requests, u)))'
    <3>1. Cardinality(Others(sender', u)) = Cardinality(Others(sender, u)) + (IF s = u THEN 0 ELSE 1)
      BY <1>s, <2>1, OthersAppend DEF CountShapes
    <3>2. Others(requests, u)' = Others(requests, u)
      BY <2>1
    <3>3. Balanced(u, Cardinality(Others(sender, u)), Cardinality(Others(requests, u)))
      BY <1>s DEF Balance
    <3>4. Allowed \in Int /\ Allowed' = Allowed
      BY <2>a
    <3>5. unread'[u] = IF u # s /\ inDatabase THEN unread[u] + 1 ELSE unread[u]
      BY <2>2
    <3>6. hitches' = 0 => inDatabase /\ hitches = 0
      BY <2>2, <1>f
    <3>7. CASE s = u
      BY <1>t, <2>1, <3>1, <3>2, <3>3, <3>4, <3>5, <3>6, <3>7 DEF Balanced
    <3>8. CASE s # u /\ inDatabase
      <4> DEFINE A == Cardinality(Others(sender, u))
                 Q == Cardinality(Others(requests, u))
      <4>1. Balanced(u, A, Q) /\ A \in Nat /\ Q \in Nat
        BY <1>t, <3>3
      <4>2. Cardinality(Others(sender', u)) = A + 1 /\ unread'[u] = unread[u] + 1
        BY <3>1, <3>5, <3>8
      <4> HIDE DEF A, Q
      <4>3. UNCHANGED <<pending, seen, readded>>
        BY <2>1
      <4>4. /\ unread'[u] + pending'[u] + Q <= A + 1 + readded'[u]
            /\ hitches' = 0 /\ seen'[u] = 0 => unread'[u] + pending'[u] + Q + Allowed' >= A + 1
        BY <1>t, <3>4, <3>6, <4>1, <4>2, <4>3 DEF Balanced
      <4> QED BY <3>2, <4>2, <4>4 DEF Balanced, Q
    <3>9. CASE s # u /\ ~inDatabase
      BY <1>t, <2>1, <3>1, <3>2, <3>3, <3>4, <3>5, <3>6, <3>9 DEF Balanced
    <3> QED BY <3>7, <3>8, <3>9
  <2> QED BY <2>a, <2>3, <2>4 DEF CountInv, Balance
<1>3. CASE Uc!Resolve
  <2>1. /\ requests # <<>> /\ requests' = Tail(requests)
        /\ UNCHANGED <<sender, unread, seen, clearing, removed, revoking, overlaps, readded>>
        /\ \/ pending' = Uc!Merged(Head(requests)) /\ UNCHANGED hitches
           \/ UNCHANGED pending /\ Uc!Fault
    BY <1>3 DEF Uc!Resolve, Uc!reading, Uc!removal
  <2>a. RevokesKnown' /\ Allowed' = Allowed /\ Allowed \in Int
    BY <1>s, <2>1, SameRevokes
  <2>2. CountShapes' /\ ClearsAfterRead'
    <3>1. Head(requests) \in Members /\ Tail(requests) \in Seq(Members)
      BY <1>s, <2>1 DEF CountShapes
    <3>2. Uc!Merged(Head(requests)) \in [Members -> Nat]
      BY <1>t DEF Uc!Merged
    <3> QED BY <1>s, <1>f, <2>1, <3>1, <3>2 DEF CountShapes, ClearsAfterRead
  <2>3. ASSUME NEW u \in Members
        PROVE  Balanced(u, Cardinality(Others(sender, u)), Cardinality(Others(requests, u)))'
    <3>1. Cardinality(Others(requests, u)) =
            Cardinality(Others(requests', u)) + (IF Head(requests) = u THEN 0 ELSE 1)
      BY <1>s, <2>1, OthersTail DEF CountShapes
    <3>2. Others(sender, u)' = Others(sender, u)
      BY <2>1
    <3>3. Balanced(u, Cardinality(Others(sender, u)), Cardinality(Others(requests, u)))
      BY <1>s DEF Balance
    <3>4. Allowed \in Int /\ Allowed' = Allowed /\ Cardinality(Others(requests', u)) \in Nat
      BY <1>s, <2>a, <2>2, OthersCount DEF CountShapes
    <3>5. \/ pending'[u] = pending[u] + (IF Head(requests) = u THEN 0 ELSE 1) /\ hitches' = hitches
          \/ pending'[u] = pending[u] /\ hitches' # 0
      BY <1>t, <1>f, <2>1 DEF Uc!Merged
    <3> QED BY <1>t, <2>1, <3>1, <3>2, <3>3, <3>4, <3>5 DEF Balanced
  <2> QED BY <2>a, <2>2, <2>3 DEF CountInv, Balance
<1>4. CASE Uc!Flush
  <2>1. UNCHANGED <<sender, requests, seen, clearing, removed, revoking, overlaps>>
    BY <1>4 DEF Uc!Flush, Uc!reading, Uc!removal
  <2>2. PICK failing, applied :
          /\ IF failing = {} THEN UNCHANGED hitches ELSE Uc!Fault
          /\ unread' = [u \in Members |->
               IF pending[u] \notin failing \/ applied THEN unread[u] + pending[u] ELSE unread[u]]
          /\ pending' = [u \in Members |-> IF pending[u] \notin failing THEN 0 ELSE pending[u]]
          /\ readded' = [u \in Members |->
               IF ~(pending[u] \notin failing) /\ applied THEN readded[u] + pending[u] ELSE readded[u]]
    BY <1>4 DEF Uc!Flush
  <2>a. RevokesKnown' /\ Allowed' = Allowed /\ Allowed \in Int
    BY <1>s, <2>1, SameRevokes
  <2>3. CountShapes' /\ ClearsAfterRead'
    BY <1>s, <1>f, <2>1, <2>2 DEF CountShapes, ClearsAfterRead
  <2>4. hitches' = 0 => hitches = 0 /\ failing = {}
    BY <1>s, <1>f, <2>2 DEF CountShapes
  <2>5. ASSUME NEW u \in Members
        PROVE  /\ unread'[u] + pending'[u] + readded[u] <= unread[u] + pending[u] + readded'[u]
               /\ hitches' = 0 => unread'[u] + pending'[u] >= unread[u] + pending[u]
    BY <1>t, <2>2, <2>4
  <2>6. \A u \in Members : unread'[u] \in Nat /\ pending'[u] \in Nat /\ readded'[u] \in Nat
    BY <1>s, <2>3 DEF CountShapes
  <2> QED BY <1>t, <2>a, <2>1, <2>3, <2>4, <2>5, <2>6, CountsMove
<1>5. CASE Uc!Cache
  <2>1. /\ UNCHANGED <<sender, requests, pending, unread, seen, clearing, removed, revoking, overlaps, readded>>
        /\ UNCHANGED hitches \/ Uc!Fault
    BY <1>5 DEF Uc!Cache, Uc!reading, Uc!removal
  <2>a. RevokesKnown' /\ Allowed' = Allowed /\ Allowed \in Int
    BY <1>s, <2>1, SameRevokes
  <2>2. CountShapes' /\ ClearsAfterRead'
    BY <1>s, <1>f, <2>1 DEF CountShapes, ClearsAfterRead
  <2>3. hitches' = 0 => hitches = 0
    BY <1>f, <2>1
  <2>4. \A u \in Members : unread'[u] \in Nat /\ pending'[u] \in Nat /\ readded'[u] = readded[u]
    BY <2>1, <2>2 DEF CountShapes
  <2> QED BY <1>t, <2>a, <2>1, <2>2, <2>3, <2>4, CountsMove
<1>6. ASSUME NEW u \in Members, NEW p \in 1 .. MaxPts, Uc!StoreCursor(u, p) PROVE CountInv'
  <2>1. /\ UNCHANGED <<sender, requests, pending, unread, removed, revoking, overlaps, readded, hitches>>
        /\ p \in seen[u] + 1 .. Len(sender)
        /\ seen' = [seen EXCEPT ![u] = p] /\ clearing' = [clearing EXCEPT ![u] = "unread"]
    BY <1>6 DEF Uc!StoreCursor, Uc!batcher, Uc!removal
  <2>2. p \in Nat \ {0}
    BY <1>t, <1>s, <2>1 DEF CountShapes
  <2>a. RevokesKnown' /\ Allowed' = Allowed /\ Allowed \in Int
    BY <1>s, <2>1, SameRevokes
  <2>b. seen' \in [Members -> Nat] /\ clearing' \in [Members -> {"none", "unread", "redis"}]
    BY <1>s, <2>1, <2>2 DEF CountShapes, ClearsAfterRead
  <2>3. CountShapes' /\ ClearsAfterRead'
    <3>1. CountShapes'
      BY <1>s, <2>1, <2>b DEF CountShapes
    <3>2. ASSUME NEW v \in Members, clearing'[v] # "none" PROVE seen'[v] > 0
      BY <1>s, <2>1, <2>2, <3>2 DEF CountShapes, ClearsAfterRead
    <3> QED BY <2>b, <3>1, <3>2 DEF ClearsAfterRead
  <2>4. \A v \in Members : seen'[v] = 0 => seen[v] = 0
    BY <1>s, <2>1, <2>2 DEF CountShapes
  <2>5. \A v \in Members : unread'[v] \in Nat /\ pending'[v] \in Nat /\ readded'[v] = readded[v]
    BY <2>1, <2>3 DEF CountShapes
  <2> QED BY <1>t, <2>a, <2>1, <2>3, <2>4, <2>5, CountsMove
<1>7. ASSUME NEW u \in Members, Uc!ClearUnread(u) PROVE CountInv'
  <2>1. /\ UNCHANGED <<sender, requests, pending, seen, removed, revoking, overlaps, readded, hitches>> /\ clearing[u] = "unread"
        /\ unread' = [unread EXCEPT ![u] = 0] /\ clearing' = [clearing EXCEPT ![u] = "redis"]
    BY <1>7 DEF Uc!ClearUnread, Uc!batcher, Uc!removal
  <2>a. RevokesKnown' /\ Allowed' = Allowed /\ Allowed \in Int
    BY <1>s, <2>1, SameRevokes
  <2>2. CountShapes' /\ ClearsAfterRead'
    BY <1>s, <2>1 DEF CountShapes, ClearsAfterRead
  <2>3. seen[u] # 0
    BY <1>s, <1>t, <2>1 DEF ClearsAfterRead
  <2>4. \A v \in Members : unread'[v] <= unread[v] /\ (seen[v] = 0 => unread'[v] = unread[v]) /\ unread'[v] \in Nat
    BY <1>t, <1>s, <2>1, <2>3 DEF CountShapes
  <2>5. readded' = readded
    BY <2>1
  <2> QED BY <1>t, <2>a, <2>1, <2>2, <2>4, <2>5, CountsMove
<1>8. ASSUME NEW u \in Members, Uc!ClearChannel(u) PROVE CountInv'
  <2>1. /\ UNCHANGED <<sender, requests, pending, unread, seen, removed, revoking, overlaps, readded, hitches>>
        /\ clearing' = [clearing EXCEPT ![u] = "none"]
    BY <1>8 DEF Uc!ClearChannel, Uc!batcher, Uc!removal
  <2>a. RevokesKnown' /\ Allowed' = Allowed /\ Allowed \in Int
    BY <1>s, <2>1, SameRevokes
  <2>2. CountShapes' /\ ClearsAfterRead'
    BY <1>s, <2>1 DEF CountShapes, ClearsAfterRead
  <2>4. \A v \in Members : unread'[v] \in Nat /\ pending'[v] \in Nat /\ readded'[v] = readded[v]
    BY <2>1, <2>2 DEF CountShapes
  <2> QED BY <1>t, <2>a, <2>1, <2>2, <2>4, CountsMove
<1>9. ASSUME NEW k \in Revokes, NEW p, Uc!RevokeChecks(k, p) PROVE CountInv'
  <2> DEFINE x == [id |-> k, pts |-> p, step |-> "checked"]
  <2>1. /\ UNCHANGED <<sender, requests, pending, unread, seen, clearing, removed, readded, hitches>>
        /\ p \in Int /\ p \notin removed /\ revoking' = revoking \cup {x}
        /\ overlaps' = IF p \in Targets(revoking) THEN overlaps + 1 ELSE overlaps
    BY <1>9 DEF Uc!RevokeChecks, Uc!LetIn, Uc!batcher, Uc!reading, Targets
  <2>2. CountShapes' /\ ClearsAfterRead'
    BY <1>s, <2>1 DEF CountShapes, ClearsAfterRead
  <2>3. x \in [id : Revokes, pts : Int, step : {"checked", "marked"}] /\ x.pts = p /\ x.step = "checked"
    BY <2>1
  <2> HIDE DEF x
  <2>4. Targets(revoking') = Targets(revoking) \cup {p}
    BY <2>1, <2>3 DEF Targets
  <2>5. /\ IsFiniteSet(revoking') /\ Cardinality(revoking) \in Nat /\ Cardinality(revoking') \in Nat
        /\ Cardinality(revoking') <= Cardinality(revoking) + 1
    <3>1. IsFiniteSet(revoking) /\ revoking' = revoking \cup {x}
      BY <1>s, <2>1 DEF RevokesKnown
    <3>2. /\ IsFiniteSet(revoking \cup {x})
          /\ Cardinality(revoking \cup {x}) = IF x \in revoking THEN Cardinality(revoking) ELSE Cardinality(revoking) + 1
      BY <3>1, FS_AddElement
    <3> QED BY <3>1, <3>2, FS_CardinalityType
  <2>6. RevokesKnown'
    BY <1>s, <2>1, <2>3, <2>5 DEF RevokesKnown
  <2>7. removed' \cup Targets(revoking') = (removed \cup Targets(revoking)) \cup {p}
    BY <2>1, <2>4
  <2>8. Cardinality(removed' \cup Targets(revoking')) =
          Cardinality(removed \cup Targets(revoking)) + (IF p \in Targets(revoking) THEN 0 ELSE 1)
    <3> DEFINE T == removed \cup Targets(revoking)
    <3>1. IsFiniteSet(T) /\ Cardinality(T) \in Nat /\ (p \in T <=> p \in Targets(revoking))
      BY <1>s, <2>1, ExcessCount DEF RevokesKnown
    <3> HIDE DEF T
    <3>2. Cardinality(T \cup {p}) = IF p \in T THEN Cardinality(T) ELSE Cardinality(T) + 1
      BY <3>1, FS_AddElement
    <3>3. Cardinality(T \cup {p}) = Cardinality(T) + (IF p \in Targets(revoking) THEN 0 ELSE 1)
      BY <3>1, <3>2
    <3> QED BY <2>7, <3>3 DEF T
  <2>9. Allowed' >= Allowed /\ Allowed \in Int /\ Allowed' \in Int
    BY <1>s, <2>1, <2>5, <2>8, ExcessCount, AllowedNext DEF Allowed, Excess, RevokesKnown
  <2>10. \A v \in Members : unread'[v] \in Nat /\ pending'[v] \in Nat /\ readded'[v] = readded[v]
    BY <2>1, <2>2 DEF CountShapes
  <2> QED BY <1>t, <2>1, <2>2, <2>6, <2>9, <2>10, CountsMove
<1>10. ASSUME NEW k \in Revokes, Uc!RevokeMarks(k) \/ Uc!RevokeDiscounts(k) PROVE CountInv'
  <2>1. UNCHANGED <<sender, requests, pending, seen, clearing, overlaps, readded>>
    BY <1>10 DEF Uc!RevokeMarks, Uc!RevokeDiscounts, Uc!batcher, Uc!reading
  <2>2. CASE Uc!RevokeMarks(k)
    <3>1. PICK r \in revoking : /\ removed' = removed \cup {r.pts}
                               /\ revoking' = (revoking \ {r}) \cup {[r EXCEPT !.step = "marked"]}
      BY <2>2 DEF Uc!RevokeMarks, Uc!RevokeStep
    <3>2. UNCHANGED <<unread, hitches>>
      BY <2>2 DEF Uc!RevokeMarks
    <3> DEFINE x == [r EXCEPT !.step = "marked"]
    <3>3. x \in [id : Revokes, pts : Int, step : {"checked", "marked"}] /\ x.pts = r.pts
      BY <1>s DEF RevokesKnown
    <3>4. revoking' = (revoking \ {r}) \cup {x}
      BY <3>1
    <3> HIDE DEF x
    <3>5. /\ IsFiniteSet(revoking') /\ Cardinality(revoking) \in Nat /\ Cardinality(revoking') \in Nat
          /\ Cardinality(revoking') <= Cardinality(revoking)
      <4>1. /\ IsFiniteSet(revoking \ {r}) /\ Cardinality(revoking) \in Nat
            /\ Cardinality(revoking \ {r}) = Cardinality(revoking) - 1
        BY <1>s, FS_RemoveElement, FS_CardinalityType DEF RevokesKnown
      <4>2. /\ IsFiniteSet(revoking')
            /\ Cardinality(revoking') = IF x \in revoking \ {r} THEN Cardinality(revoking \ {r})
                                        ELSE Cardinality(revoking \ {r}) + 1
        BY <3>4, <4>1, FS_AddElement
      <4> QED BY <4>1, <4>2, FS_CardinalityType
    <3>6. IsFiniteSet(removed')
      BY <1>s, <3>1, FS_AddElement DEF RevokesKnown
    <3>7. RevokesKnown'
      BY <1>s, <2>1, <3>1, <3>3, <3>4, <3>5, <3>6 DEF RevokesKnown
    <3>8. removed' \cup Targets(revoking') = removed \cup Targets(revoking)
      BY <3>1, <3>3, <3>4 DEF Targets
    <3>a. overlaps \in Nat /\ Cardinality(removed \cup Targets(revoking)) \in Nat
      BY <1>s, ExcessCount DEF RevokesKnown
    <3>9. Allowed' >= Allowed /\ Allowed \in Int /\ Allowed' \in Int
      <4>1. Allowed' = Cardinality(removed \cup Targets(revoking)) + overlaps - Cardinality(revoking')
        BY <2>1, <3>8, AllowedNext DEF Excess
      <4> QED BY <3>5, <3>a, <4>1 DEF Allowed, Excess
    <3>10. CountShapes' /\ ClearsAfterRead'
      BY <1>s, <2>1, <3>2 DEF CountShapes, ClearsAfterRead
    <3> QED BY <1>t, <2>1, <3>2, <3>7, <3>9, <3>10, CountsMove
  <2>3. CASE Uc!RevokeDiscounts(k)
    <3>1. PICK r \in revoking :
            /\ r.step = "marked" /\ revoking' = revoking \ {r}
            /\ \/ /\ unread' = [u \in Members |-> IF u \in Uc!Discounted(r.pts) THEN unread[u] - 1 ELSE unread[u]]
                  /\ UNCHANGED hitches
               \/ UNCHANGED unread /\ Uc!Fault
      BY <2>3 DEF Uc!RevokeDiscounts, Uc!RevokeStep
    <3>2. removed' = removed
      BY <2>3 DEF Uc!RevokeDiscounts
    <3>3. /\ IsFiniteSet(revoking') /\ Cardinality(revoking) \in Nat
          /\ Cardinality(revoking') = Cardinality(revoking) - 1
      BY <1>s, <3>1, FS_RemoveElement, FS_CardinalityType DEF RevokesKnown
    <3>4. RevokesKnown'
      BY <1>s, <2>1, <3>1, <3>2, <3>3 DEF RevokesKnown
    <3>5. removed' \cup Targets(revoking') = removed \cup Targets(revoking)
      BY <1>s, <3>1, <3>2 DEF Targets, RevokesKnown
    <3>a. overlaps \in Nat /\ Cardinality(removed \cup Targets(revoking)) \in Nat
      BY <1>s, ExcessCount DEF RevokesKnown
    <3>6. Allowed' = Allowed + 1 /\ Allowed \in Int
      <4>1. Allowed' = Cardinality(removed \cup Targets(revoking)) + overlaps - Cardinality(revoking')
        BY <2>1, <3>5, AllowedNext DEF Excess
      <4> QED BY <3>3, <3>a, <4>1 DEF Allowed, Excess
    <3>7. \A u \in Members : unread'[u] \in Nat /\ unread'[u] <= unread[u] /\ unread'[u] + 1 >= unread[u]
      BY <1>t, <3>1 DEF Uc!Discounted
    <3>8. unread' \in [Members -> Nat] /\ hitches' \in Nat /\ (hitches' = 0 => hitches = 0)
      BY <1>s, <1>f, <3>1, <3>7 DEF CountShapes
    <3>9. CountShapes' /\ ClearsAfterRead'
      BY <1>s, <2>1, <3>8 DEF CountShapes, ClearsAfterRead
    <3> QED BY <1>t, <2>1, <3>4, <3>6, <3>7, <3>8, <3>9, CountsMove
  <2> QED BY <1>10, <2>2, <2>3
<1>11. CASE Uc!Restart
  <2>1. /\ requests' = <<>> /\ pending' = Uc!Zero /\ clearing' = [u \in Members |-> "none"]
        /\ UNCHANGED <<sender, unread, seen, removed, overlaps, readded>> /\ Uc!Fault
        /\ revoking' = {}
    BY <1>11 DEF Uc!Restart
  <2>a. RevokesKnown'
    BY <1>s, <2>1, FS_EmptySet DEF RevokesKnown
  <2>2. CountShapes' /\ ClearsAfterRead'
    BY <1>s, <1>f, <2>1 DEF CountShapes, ClearsAfterRead, Uc!Zero
  <2>3. ASSUME NEW u \in Members
        PROVE  Balanced(u, Cardinality(Others(sender, u)), Cardinality(Others(requests, u)))'
    <3>1. Cardinality(Others(requests', u)) = 0 /\ pending'[u] = 0
      BY <2>1, OthersEmpty DEF Uc!Zero
    <3>2. Others(sender, u)' = Others(sender, u)
      BY <2>1
    <3>3. Balanced(u, Cardinality(Others(sender, u)), Cardinality(Others(requests, u)))
      BY <1>s DEF Balance
    <3> QED BY <1>t, <1>f, <2>1, <3>1, <3>2, <3>3 DEF Balanced
  <2> QED BY <2>a, <2>2, <2>3 DEF CountInv, Balance
<1>12. CASE UNCHANGED Uc!vars
  <2>1. UNCHANGED <<sender, requests, pending, unread, seen, clearing, removed, revoking, overlaps, readded, hitches>>
    BY <1>12 DEF Uc!vars, Uc!batcher, Uc!reading, Uc!removal
  <2>a. RevokesKnown' /\ Allowed' = Allowed /\ Allowed \in Int
    BY <1>s, <2>1, SameRevokes
  <2>2. CountShapes' /\ ClearsAfterRead'
    BY <1>s, <2>1 DEF CountShapes, ClearsAfterRead
  <2>4. \A v \in Members : unread'[v] \in Nat /\ pending'[v] \in Nat /\ readded'[v] = readded[v]
    BY <2>1, <2>2 DEF CountShapes
  <2> QED BY <1>t, <2>a, <2>1, <2>2, <2>4, CountsMove
<1> QED
  BY <1>1, <1>2, <1>3, <1>4, <1>5, <1>6, <1>7, <1>8, <1>9, <1>10, <1>11, <1>12 DEF Uc!Next

(* However reads, revokes, failed statements and lost replies interleave,    *)
(* what is unread, batched and queued for a member (merge_unread_increment,  *)
(* flush of the batcher) exceeds what the others wrote only by what lost     *)
(* replies repeat, and without faults a member who has read nothing misses   *)
(* no more than one for each revoked message and one for each revoke that    *)
(* the checks of revoke_message let in beside another one of its message,    *)
(* for any number of members, messages and revokes and any capacity of the   *)
(* queue.                                                                    *)
THEOREM UnreadAddsUp == Uc!Spec => []Uc!CountsAddUp
<1>1. CountInv => Uc!CountsAddUp
  <2> SUFFICES ASSUME CountInv, NEW u \in Members
               PROVE  /\ Uc!Counting(u) <= Uc!FromOthers(u) + readded[u]
                      /\ hitches = 0 /\ seen[u] = 0 =>
                            Uc!Counting(u) + Cardinality(removed) + overlaps >= Uc!FromOthers(u)
    BY DEF Uc!CountsAddUp, Uc!Cardinality, Cardinality, Uc!IsFiniteSet, IsFiniteSet
  <2>1. /\ Uc!FromOthers(u) = Cardinality(Others(sender, u))
        /\ Uc!Counting(u) = unread[u] + pending[u] + Cardinality(Others(requests, u))
    BY DEF Uc!FromOthers, Uc!Counting, Others, Uc!Cardinality, Cardinality, Uc!IsFiniteSet, IsFiniteSet
  <2>2. Allowed \in Int /\ Cardinality(removed) \in Nat /\ Allowed <= Cardinality(removed) + overlaps
    BY ExcessCount DEF CountInv, RevokesKnown, Allowed
  <2>3. /\ unread[u] \in Nat /\ pending[u] \in Nat /\ overlaps \in Nat
        /\ Cardinality(Others(sender, u)) \in Nat /\ Cardinality(Others(requests, u)) \in Nat
    BY OthersCount DEF CountInv, CountShapes, RevokesKnown
  <2>4. Balanced(u, Cardinality(Others(sender, u)), Cardinality(Others(requests, u)))
    BY DEF CountInv, Balance
  <2> QED BY <2>1, <2>2, <2>3, <2>4 DEF Balanced
<1> QED
  BY <1>1, CountInit, CountNext, PTL DEF Uc!Spec
=============================================================================
