------------------------ MODULE TimelineCommitProofs ------------------------
(***************************************************************************)
(* The write path and the files it binds, for any set of requests,         *)
(* channels, keys, files and upload sessions. The inductive invariant of   *)
(* TimelineCommit says what the row locks mean: a transaction that holds a *)
(* row knows its committed value. The invariant of MultipartUpload follows *)
(* a session's step, its object and the sweep.                             *)
(***************************************************************************)
EXTENDS TimelineCommit, TLAPS

Row(c, n, r) == <<c, n, r>> \in commitLog

(* Two transactions never hold the same row. *)
LocksExclusive ==
    \A r, s \in Reqs : r # s =>
        /\ HoldsPts(r) /\ HoldsPts(s) => ChanOf[r] # ChanOf[s]
        /\ HoldsDedup(r) /\ HoldsDedup(s) => KeyOf[r] # KeyOf[s]
        /\ HoldsRegistry(r) /\ HoldsRegistry(s) => KeyOf[r] # KeyOf[s]
        /\ HoldsFile(r) /\ HoldsFile(s) => FileOf[r] # FileOf[s]

(* What a transaction read under a lock still holds. *)
LocksFresh ==
    \A r \in Reqs :
        /\ HoldsPts(r) => alloc[r] = currentPts[ChanOf[r]] + 1
        /\ HoldsDedup(r) => dedup[KeyOf[r]] = None
        /\ HoldsRegistry(r) => registry[KeyOf[r]] = None
        /\ HoldsFile(r) => Bindable(r)

(* Rows carry their request's channel, a request has at most one, and only   *)
(* finished handlers have one.                                               *)
RowsOfRequests ==
    \A c \in Channels, n \in Nat, r \in Reqs : Row(c, n, r) =>
        /\ ChanOf[r] = c
        /\ pc[r] = "done"
        /\ n \in 1 .. currentPts[c]
        /\ \A m \in Nat, s \in Reqs : Row(c, m, s) /\ (m = n \/ s = r) => m = n /\ s = r

(* No number is missing. *)
Dense ==
    \A c \in Channels, n \in Nat : n \in 1 .. currentPts[c] => \E r \in Reqs : Row(c, n, r)

(* A committed request's claim is remembered, and every claim is one.        *)
ClaimsRecorded ==
    \A c \in Channels, n \in Nat, r \in Reqs : Row(c, n, r) =>
        /\ UsesDedup(r) /\ KeyOf[r] \notin swept => dedup[KeyOf[r]] = r
        /\ UsesRegistry(r) => registry[KeyOf[r]] = r

LockInv == LocksExclusive /\ LocksFresh
NumberInv == RowsOfRequests /\ Dense
OnceInv == ClaimsRecorded /\ swept \cap PermanentKeys = {}

-----------------------------------------------------------------------------
(* What Return and Goto do to the local state. *)
LEMMA ReturnTypes ==
    ASSUME TypeOK, NEW r \in Reqs, NEW a \in Reqs \cup Codes, Return(r, a)
    PROVE  /\ pc' \in [Reqs -> PCs] /\ alloc' \in [Reqs -> Nat]
           /\ answer' \in [Reqs -> Reqs \cup Codes \cup {None}]
BY DEF TypeOK, Return, Goto, PCs

LEMMA GotoType ==
    ASSUME TypeOK, NEW r \in Reqs, NEW l \in PCs, Goto(r, l)
    PROVE  pc' \in [Reqs -> PCs]
BY DEF TypeOK, Goto

LEMMA KnownType ==
    ASSUME TypeOK, NEW r \in Reqs
    PROVE  /\ Known(r) # None => Known(r) \in Reqs
           /\ (UsesDedup(r) \/ UsesRegistry(r)) /\ Existing(r) # None => Existing(r) \in Reqs
BY CommitAssumption DEF TypeOK, Known, Existing, UsesDedup, UsesRegistry, Paths

(* A handler in "duplicate" has a key, so Existing is one of the tables. *)
DuplicateHasKey == \A r \in Reqs : pc[r] = "duplicate" => UsesDedup(r) \/ UsesRegistry(r)

TypeInv == TypeOK /\ DuplicateHasKey

LEMMA TypeInit == Init => TypeInv
BY CommitAssumption DEF Init, TypeInv, TypeOK, DuplicateHasKey, PCs

LEMMA PersistTypes ==
    ASSUME TypeOK, NEW r \in Reqs, Persist(r)
    PROVE  /\ currentPts' \in [Channels -> Nat]
           /\ commitLog' \subseteq Channels \X Nat \X Reqs
           /\ dedup' \in [Keys -> Reqs \cup {None}]
           /\ registry' \in [Keys -> Reqs \cup {None}]
           /\ boundTo' \in [Files -> Reqs \cup {None}]
           /\ head' \in [Channels -> Nat]
<1> USE CommitAssumption DEF TypeOK, Persist
<1>1. ChanOf[r] \in Channels /\ alloc[r] \in Nat
  OBVIOUS
<1>2. currentPts' \in [Channels -> Nat] /\ commitLog' \subseteq Channels \X Nat \X Reqs
  BY <1>1
<1>3. dedup' \in [Keys -> Reqs \cup {None}] /\ registry' \in [Keys -> Reqs \cup {None}]
  BY DEF Put, UsesDedup, UsesRegistry
<1>4. boundTo' \in [Files -> Reqs \cup {None}]
  OBVIOUS
<1>5. head' \in [Channels -> Nat]
  BY <1>1 DEF AdvanceHead
<1> QED
  BY <1>2, <1>3, <1>4, <1>5

LEMMA TypeNext == TypeInv /\ [Next]_vars => TypeInv'
<1> SUFFICES ASSUME TypeInv, [Next]_vars PROVE TypeInv'
  OBVIOUS
<1> USE CommitAssumption DEF TypeInv
<1>0. ASSUME NEW r \in Reqs, NEW a \in Reqs \cup Codes, Return(r, a),
             UNCHANGED dbVars, refused' \subseteq Reqs, UNCHANGED swept
      PROVE  TypeInv'
  BY <1>0, ReturnTypes DEF TypeOK, dbVars, DuplicateHasKey, Return, Goto, UsesDedup, UsesRegistry
<1>a. ASSUME NEW r \in Reqs, NEW l \in PCs, Goto(r, l), UNCHANGED <<dbVars, answer, refused, swept>>,
             alloc' \in [Reqs -> Nat], l = "duplicate" => UsesDedup(r) \/ UsesRegistry(r)
      PROVE  TypeInv'
  <2>1. TypeOK'
    BY <1>a, GotoType DEF TypeOK, dbVars
  <2>2. DuplicateHasKey'
    BY <1>a DEF TypeOK, DuplicateHasKey, Goto, UsesDedup, UsesRegistry
  <2> QED
    BY <2>1, <2>2
<1>1. ASSUME NEW r \in Reqs, FastPathHit(r) PROVE TypeInv'
  BY <1>1, <1>0, KnownType DEF FastPathHit, TypeOK
<1>2. ASSUME NEW r \in Reqs, FastPathMiss(r) PROVE TypeInv'
  <2>1. "checked" \in PCs BY DEF PCs
  <2> QED BY <1>2, <1>a, <2>1 DEF FastPathMiss, TypeOK
<1>3. ASSUME NEW r \in Reqs, ClaimDedup(r) PROVE TypeInv'
  <2>1. "claimed" \in PCs /\ "duplicate" \in PCs BY DEF PCs
  <2>2. CASE UsesDedup(r) /\ dedup[KeyOf[r]] # None
    BY <1>3, <2>2, <2>1, <1>a DEF ClaimDedup, TypeOK
  <2>3. CASE ~(UsesDedup(r) /\ dedup[KeyOf[r]] # None)
    BY <1>3, <2>3, <2>1, <1>a DEF ClaimDedup, TypeOK
  <2> QED BY <2>2, <2>3
<1>4. ASSUME NEW r \in Reqs, AllocatePts(r) PROVE TypeInv'
  <2>1. "numbered" \in PCs BY DEF PCs
  <2>2. alloc' \in [Reqs -> Nat] BY <1>4 DEF AllocatePts, NextPts, TypeOK
  <2> QED BY <1>4, <1>a, <2>1, <2>2 DEF AllocatePts
<1>5. ASSUME NEW r \in Reqs, WriteRows(r) PROVE TypeInv'
  <2>1. "written" \in PCs BY DEF PCs
  <2> QED BY <1>5, <1>a, <2>1 DEF WriteRows, TypeOK
<1>6. ASSUME NEW r \in Reqs, RefuseBinding(r) PROVE TypeInv'
  BY <1>6, <1>0 DEF RefuseBinding, RefusalCode, Codes, TypeOK
<1>7. ASSUME NEW r \in Reqs, ClaimRegistry(r) PROVE TypeInv'
  <2>1. "registered" \in PCs /\ "duplicate" \in PCs BY DEF PCs
  <2>2. alloc' \in [Reqs -> Nat] BY <1>7 DEF ClaimRegistry, TypeOK
  <2>3. CASE UsesRegistry(r) /\ registry[KeyOf[r]] # None
    BY <1>7, <2>3, <2>1, <2>2, <1>a DEF ClaimRegistry
  <2>4. CASE ~(UsesRegistry(r) /\ registry[KeyOf[r]] # None)
    BY <1>7, <2>4, <2>1, <2>2, <1>a DEF ClaimRegistry
  <2> QED BY <2>3, <2>4
<1>8. ASSUME NEW r \in Reqs, NEW a \in Reqs \cup Codes, Commit(r, a) PROVE TypeInv'
  <2>1. TypeOK'
    BY <1>8, PersistTypes, ReturnTypes DEF Commit, TypeOK
  <2>2. DuplicateHasKey'
    BY <1>8 DEF Commit, Return, Goto, DuplicateHasKey, UsesDedup, UsesRegistry, TypeOK
  <2> QED BY <2>1, <2>2
<1>9. ASSUME NEW r \in Reqs, AnswerDuplicate(r) PROVE TypeInv'
  BY <1>9, <1>0, KnownType DEF AnswerDuplicate, DuplicateHasKey, Codes, TypeOK
<1>10. ASSUME NEW r \in Reqs, Fail(r) PROVE TypeInv'
  BY <1>10, <1>0 DEF Fail, Codes, TypeOK
<1>11. CASE DedupRetention
  <2>1. TypeOK' BY <1>11 DEF DedupRetention, Sweepable, TypeOK
  <2>2. DuplicateHasKey' BY <1>11 DEF DedupRetention, DuplicateHasKey, UsesDedup, UsesRegistry
  <2> QED BY <2>1, <2>2
<1>12. CASE UNCHANGED vars
  BY <1>12 DEF vars, dbVars, TypeOK, DuplicateHasKey, UsesDedup, UsesRegistry
<1> QED
  BY <1>1, <1>2, <1>3, <1>4, <1>5, <1>6, <1>7, <1>8, <1>9, <1>10, <1>11, <1>12 DEF Next, Step, Codes

(* Every variable of the write path keeps its type, for any requests, keys,  *)
(* files and channels.                                                       *)
THEOREM TypeCorrect == Spec => []TypeOK
<1>1. Spec => []TypeInv
  BY TypeInit, TypeNext, PTL DEF Spec
<1> QED
  BY <1>1, PTL DEF TypeInv

-----------------------------------------------------------------------------
(* The locks. *)

LEMMA LockInit == Init => LockInv
BY DEF Init, LockInv, LocksExclusive, LocksFresh, HoldsPts, HoldsDedup, HoldsRegistry, HoldsFile

(* A handler that leaves the database alone, acquires nothing it does not    *)
(* find free, and keeps what it read, preserves the lock invariant.          *)
LEMMA LockLocal ==
    ASSUME TypeInv, LockInv, NEW r \in Reqs, NEW l \in PCs, Goto(r, l), UNCHANGED dbVars,
           alloc' \in [Reqs -> Nat], \A s \in Reqs \ {r} : alloc'[s] = alloc[s],
           HoldsPts(r)' => PtsFree(r) /\ alloc'[r] = currentPts[ChanOf[r]] + 1,
           HoldsDedup(r)' => DedupFree(r) /\ dedup[KeyOf[r]] = None,
           HoldsRegistry(r)' => RegistryFree(r) /\ registry[KeyOf[r]] = None,
           HoldsFile(r)' => FileFree(r) /\ Bindable(r)
    PROVE  LockInv'
<1> USE DEF TypeInv, TypeOK, LockInv, Goto
<1>1. \A s \in Reqs \ {r} :
        /\ pc'[s] = pc[s]
        /\ HoldsPts(s)' = HoldsPts(s) /\ HoldsDedup(s)' = HoldsDedup(s)
        /\ HoldsRegistry(s)' = HoldsRegistry(s) /\ HoldsFile(s)' = HoldsFile(s)
  BY DEF HoldsPts, HoldsDedup, HoldsRegistry, HoldsFile, UsesDedup, UsesRegistry
<1>2. LocksExclusive'
  BY <1>1 DEF LocksExclusive, PtsFree, DedupFree, RegistryFree, FileFree
<1>3. LocksFresh'
  BY <1>1 DEF LocksFresh, dbVars, Bindable
<1> QED
  BY <1>2, <1>3

(* Returning releases everything. *)
LEMMA LockReturn ==
    ASSUME TypeInv, LockInv, NEW r \in Reqs, NEW a \in Reqs \cup Codes, Return(r, a), UNCHANGED dbVars
    PROVE  LockInv'
<1>1. "done" \in PCs /\ pc'[r] = "done"
  BY DEF PCs, Return, Goto, TypeInv, TypeOK
<1>2. ~HoldsPts(r)' /\ ~HoldsDedup(r)' /\ ~HoldsRegistry(r)' /\ ~HoldsFile(r)'
  BY <1>1 DEF HoldsPts, HoldsDedup, HoldsRegistry, HoldsFile
<1>3. alloc' \in [Reqs -> Nat] /\ \A s \in Reqs \ {r} : alloc'[s] = alloc[s]
  BY DEF Return, TypeInv, TypeOK
<1>4. Goto(r, "done")
  BY DEF Return
<1> QED
  BY <1>1, <1>2, <1>3, <1>4, LockLocal

LEMMA LockCommit ==
    ASSUME TypeInv, LockInv, NEW r \in Reqs, NEW a \in Reqs \cup Codes, Commit(r, a)
    PROVE  LockInv'
<1> USE CommitAssumption DEF TypeInv, TypeOK, LockInv
<1>1. \A s \in Reqs \ {r} :
        /\ pc'[s] = pc[s] /\ alloc'[s] = alloc[s]
        /\ HoldsPts(s)' = HoldsPts(s) /\ HoldsDedup(s)' = HoldsDedup(s)
        /\ HoldsRegistry(s)' = HoldsRegistry(s) /\ HoldsFile(s)' = HoldsFile(s)
  BY DEF Commit, Return, Goto, HoldsPts, HoldsDedup, HoldsRegistry, HoldsFile, UsesDedup, UsesRegistry
<1>2. pc[r] = "registered" /\ pc'[r] = "done"
  BY DEF Commit, Return, Goto
<1>3. ~HoldsPts(r)' /\ ~HoldsDedup(r)' /\ ~HoldsRegistry(r)' /\ ~HoldsFile(r)'
  BY <1>2 DEF HoldsPts, HoldsDedup, HoldsRegistry, HoldsFile
<1>4. HoldsPts(r) /\ (UsesDedup(r) => HoldsDedup(r)) /\ (UsesRegistry(r) => HoldsRegistry(r))
      /\ (FileOf[r] # None => HoldsFile(r))
  BY <1>2 DEF HoldsPts, HoldsDedup, HoldsRegistry, HoldsFile
<1>5. LocksExclusive'
  BY <1>1, <1>3 DEF LocksExclusive
<1>6. ASSUME NEW s \in Reqs \ {r}
      PROVE  /\ HoldsPts(s) => currentPts'[ChanOf[s]] = currentPts[ChanOf[s]]
             /\ HoldsDedup(s) => dedup'[KeyOf[s]] = dedup[KeyOf[s]]
             /\ HoldsRegistry(s) => registry'[KeyOf[s]] = registry[KeyOf[s]]
             /\ HoldsFile(s) => boundTo'[FileOf[s]] = boundTo[FileOf[s]]
  <2>1. HoldsPts(s) => currentPts'[ChanOf[s]] = currentPts[ChanOf[s]]
    BY <1>4 DEF LocksExclusive, Commit, Persist
  <2>2. HoldsDedup(s) => dedup'[KeyOf[s]] = dedup[KeyOf[s]]
    BY <1>4 DEF LocksExclusive, Commit, Persist, Put, HoldsDedup, UsesDedup
  <2>3. HoldsRegistry(s) => registry'[KeyOf[s]] = registry[KeyOf[s]]
    BY <1>4 DEF LocksExclusive, Commit, Persist, Put, HoldsRegistry, UsesRegistry
  <2>4. HoldsFile(s) => boundTo'[FileOf[s]] = boundTo[FileOf[s]]
    BY <1>4 DEF LocksExclusive, Commit, Persist, HoldsFile
  <2> QED
    BY <2>1, <2>2, <2>3, <2>4
<1>7. LocksFresh'
  BY <1>1, <1>3, <1>6 DEF LocksFresh, Bindable
<1> QED
  BY <1>5, <1>7

LEMMA LockNext == TypeInv /\ LockInv /\ [Next]_vars => LockInv'
<1> SUFFICES ASSUME TypeInv, LockInv, [Next]_vars PROVE LockInv'
  OBVIOUS
<1>t. TypeInv'
  BY TypeNext
<1>1. ASSUME NEW r \in Reqs, FastPathHit(r) PROVE LockInv'
  BY <1>1, LockReturn, KnownType DEF FastPathHit, TypeInv
<1>2. ASSUME NEW r \in Reqs, FastPathMiss(r) PROVE LockInv'
  <2>1. "checked" \in PCs /\ pc'[r] = "checked"
    BY <1>2 DEF PCs, FastPathMiss, Goto, TypeInv, TypeOK
  <2>2. ~HoldsPts(r)' /\ ~HoldsDedup(r)' /\ ~HoldsRegistry(r)' /\ ~HoldsFile(r)'
    BY <2>1 DEF HoldsPts, HoldsDedup, HoldsRegistry, HoldsFile
  <2> QED
    BY <1>2, <2>1, <2>2, LockLocal DEF FastPathMiss, TypeInv, TypeOK
<1>3. ASSUME NEW r \in Reqs, ClaimDedup(r) PROVE LockInv'
  <2>1. PICK l \in {"claimed", "duplicate"} : Goto(r, l) /\ pc'[r] = l
    BY <1>3 DEF ClaimDedup, Goto, TypeInv, TypeOK
  <2>2. l \in PCs /\ ~HoldsPts(r)' /\ ~HoldsRegistry(r)' /\ ~HoldsFile(r)'
    BY <2>1 DEF HoldsPts, HoldsRegistry, HoldsFile, PCs
  <2>3. HoldsDedup(r)' => DedupFree(r) /\ dedup[KeyOf[r]] = None
    BY <1>3, <2>1 DEF ClaimDedup, HoldsDedup, UsesDedup, Goto, TypeInv, TypeOK
  <2> QED
    BY <1>3, <2>1, <2>2, <2>3, LockLocal DEF ClaimDedup, TypeInv, TypeOK
<1>4. ASSUME NEW r \in Reqs, AllocatePts(r) PROVE LockInv'
  <2>1. "numbered" \in PCs /\ pc[r] = "claimed" /\ pc'[r] = "numbered" /\ Goto(r, "numbered")
    BY <1>4 DEF PCs, AllocatePts, Goto, TypeInv, TypeOK
  <2>2. ~HoldsRegistry(r)' /\ ~HoldsFile(r)' /\ (HoldsDedup(r)' => HoldsDedup(r))
    BY <2>1 DEF HoldsRegistry, HoldsFile, HoldsDedup, UsesDedup
  <2>3. HoldsDedup(r)' => DedupFree(r) /\ dedup[KeyOf[r]] = None
    BY <2>2 DEF LockInv, LocksExclusive, LocksFresh, DedupFree
  <2>4. alloc' \in [Reqs -> Nat] /\ alloc'[r] = currentPts[ChanOf[r]] + 1
        /\ \A s \in Reqs \ {r} : alloc'[s] = alloc[s]
    BY <1>4, <1>t, CommitAssumption DEF AllocatePts, NextPts, TypeInv, TypeOK
  <2> QED
    BY <1>4, <2>1, <2>2, <2>3, <2>4, LockLocal DEF AllocatePts
<1>5. ASSUME NEW r \in Reqs, WriteRows(r) PROVE LockInv'
  <2>1. "written" \in PCs /\ pc[r] = "numbered" /\ pc'[r] = "written" /\ Goto(r, "written")
    BY <1>5 DEF PCs, WriteRows, Goto, TypeInv, TypeOK
  <2>2. ~HoldsRegistry(r)' /\ (HoldsDedup(r)' => HoldsDedup(r)) /\ HoldsPts(r)
    BY <2>1 DEF HoldsRegistry, HoldsPts, HoldsDedup, UsesDedup
  <2>3. (HoldsDedup(r)' => DedupFree(r) /\ dedup[KeyOf[r]] = None)
        /\ PtsFree(r) /\ alloc[r] = currentPts[ChanOf[r]] + 1
    BY <2>2 DEF LockInv, LocksExclusive, LocksFresh, DedupFree, PtsFree
  <2>4. HoldsFile(r)' => FileFree(r) /\ Bindable(r)
    BY <1>5 DEF WriteRows, HoldsFile
  <2> QED
    BY <1>5, <2>1, <2>2, <2>3, <2>4, LockLocal DEF WriteRows, TypeInv, TypeOK
<1>6. ASSUME NEW r \in Reqs, RefuseBinding(r) PROVE LockInv'
  BY <1>6, LockReturn DEF RefuseBinding, RefusalCode, Codes
<1>7. ASSUME NEW r \in Reqs, ClaimRegistry(r) PROVE LockInv'
  <2>1. PICK l \in {"registered", "duplicate"} : Goto(r, l) /\ pc'[r] = l
    BY <1>7 DEF ClaimRegistry, Goto, TypeInv, TypeOK
  <2>2. l \in PCs /\ pc[r] = "written" /\ alloc' \in [Reqs -> Nat]
        /\ (\A s \in Reqs \ {r} : alloc'[s] = alloc[s]) /\ UNCHANGED dbVars
    BY <1>7 DEF PCs, ClaimRegistry, TypeInv, TypeOK
  <2>3. CASE l = "duplicate"
    <3>1. ~HoldsPts(r)' /\ ~HoldsDedup(r)' /\ ~HoldsRegistry(r)' /\ ~HoldsFile(r)'
      BY <2>1, <2>3 DEF HoldsPts, HoldsDedup, HoldsRegistry, HoldsFile
    <3> QED
      BY <2>1, <2>2, <3>1, LockLocal
  <2>4. CASE l = "registered"
    <3>1. alloc' = alloc /\ (UsesRegistry(r) => RegistryFree(r) /\ registry[KeyOf[r]] = None)
      BY <1>7, <2>1, <2>4 DEF ClaimRegistry, Goto, TypeInv, TypeOK
    <3>2. HoldsPts(r) /\ (HoldsDedup(r)' => HoldsDedup(r)) /\ (HoldsFile(r)' => HoldsFile(r))
          /\ (HoldsRegistry(r)' => UsesRegistry(r))
      BY <2>2 DEF HoldsPts, HoldsDedup, HoldsFile, HoldsRegistry, UsesDedup, UsesRegistry
    <3>3. PtsFree(r) /\ alloc[r] = currentPts[ChanOf[r]] + 1
          /\ (HoldsDedup(r)' => DedupFree(r) /\ dedup[KeyOf[r]] = None)
          /\ (HoldsFile(r)' => FileFree(r) /\ Bindable(r))
      BY <3>2 DEF LockInv, LocksExclusive, LocksFresh, DedupFree, PtsFree, FileFree
    <3> QED
      BY <2>1, <2>2, <3>1, <3>2, <3>3, LockLocal
  <2> QED
    BY <2>1, <2>3, <2>4
<1>8. ASSUME NEW r \in Reqs, NEW a \in Reqs \cup Codes, Commit(r, a) PROVE LockInv'
  BY <1>8, LockCommit
<1>9. ASSUME NEW r \in Reqs, AnswerDuplicate(r) PROVE LockInv'
  BY <1>9, LockReturn, KnownType DEF AnswerDuplicate, DuplicateHasKey, Codes, TypeInv
<1>10. ASSUME NEW r \in Reqs, Fail(r) PROVE LockInv'
  BY <1>10, LockReturn DEF Fail, Codes
<1>11. CASE DedupRetention
  <2>1. \A r \in Reqs : HoldsDedup(r) => dedup'[KeyOf[r]] = None
    BY <1>11, CommitAssumption DEF DedupRetention, LockInv, LocksFresh, HoldsDedup, UsesDedup, TypeInv, TypeOK
  <2> QED
    BY <1>11, <2>1 DEF DedupRetention, LockInv, LocksExclusive, LocksFresh, HoldsPts, HoldsDedup,
       HoldsRegistry, HoldsFile, UsesDedup, UsesRegistry, Bindable
<1>12. CASE UNCHANGED vars
  BY <1>12 DEF vars, dbVars, LockInv, LocksExclusive, LocksFresh, HoldsPts, HoldsDedup,
     HoldsRegistry, HoldsFile, UsesDedup, UsesRegistry, Bindable
<1> QED
  BY <1>1, <1>2, <1>3, <1>4, <1>5, <1>6, <1>7, <1>8, <1>9, <1>10, <1>11, <1>12 DEF Next, Step, Codes

-----------------------------------------------------------------------------
(* The numbering.  Apart from a commit, no step touches the log, the pts or  *)
(* a finished handler.                                                       *)
LEMMA OnlyCommitWrites ==
    ASSUME TypeInv, [Next]_vars
    PROVE  \/ \E r \in Reqs, a \in Reqs \cup Codes : Commit(r, a)
           \/ /\ UNCHANGED <<currentPts, commitLog, registry, boundTo, head>>
              /\ \A s \in Reqs : pc[s] = "done" => pc'[s] = "done"
              /\ UNCHANGED <<dedup, swept>> \/ DedupRetention
<1>1. ASSUME NEW r \in Reqs, Step(r) \/ Fail(r), ~Commit(r, r)
      PROVE  /\ UNCHANGED <<currentPts, commitLog, registry, boundTo, head>>
             /\ \A s \in Reqs : pc[s] = "done" => pc'[s] = "done"
             /\ UNCHANGED <<dedup, swept>>
  BY <1>1 DEF Step, Fail, FastPathHit, FastPathMiss, ClaimDedup, AllocatePts, WriteRows, RefuseBinding,
     ClaimRegistry, AnswerDuplicate, Return, Goto, dbVars, TypeInv, TypeOK
<1>2. CASE DedupRetention \/ UNCHANGED vars
  BY <1>2 DEF DedupRetention, vars, dbVars
<1> QED
  BY <1>1, <1>2 DEF Next, Codes

LEMMA NumberInit == Init => NumberInv
BY DEF Init, NumberInv, RowsOfRequests, Dense, Row

(* What a commit does to the log, seen through Row. *)
LEMMA CommitRows ==
    ASSUME TypeInv, LockInv, NEW r \in Reqs, NEW a \in Reqs \cup Codes, Commit(r, a)
    PROVE  /\ alloc[r] = currentPts[ChanOf[r]] + 1 /\ alloc[r] \in Nat /\ ChanOf[r] \in Channels
           /\ pc[r] = "registered" /\ pc'[r] = "done"
           /\ \A s \in Reqs : pc[s] = "done" => pc'[s] = "done"
           /\ currentPts'[ChanOf[r]] = alloc[r]
           /\ \A c \in Channels : c # ChanOf[r] => currentPts'[c] = currentPts[c]
           /\ \A c, n, s : Row(c, n, s)' <=> Row(c, n, s) \/ (c = ChanOf[r] /\ n = alloc[r] /\ s = r)
BY CommitAssumption DEF Commit, Persist, Return, Goto, Row, LockInv, LocksFresh, HoldsPts, TypeInv, TypeOK

LEMMA NumberNext == TypeInv /\ LockInv /\ NumberInv /\ [Next]_vars => NumberInv'
<1> SUFFICES ASSUME TypeInv, LockInv, NumberInv, [Next]_vars PROVE NumberInv'
  OBVIOUS
<1>1. ASSUME NEW r \in Reqs, NEW a \in Reqs \cup Codes, Commit(r, a) PROVE NumberInv'
  <2> DEFINE c0 == ChanOf[r]
             n0 == alloc[r]
  <2>1. /\ n0 = currentPts[c0] + 1 /\ n0 \in Nat /\ c0 \in Channels
        /\ pc[r] = "registered" /\ pc'[r] = "done"
        /\ \A s \in Reqs : pc[s] = "done" => pc'[s] = "done"
        /\ currentPts'[c0] = n0
        /\ \A c \in Channels : c # c0 => currentPts'[c] = currentPts[c]
    BY <1>1, CommitRows
  <2>2. \A c, n, s : Row(c, n, s)' <=> Row(c, n, s) \/ (c = c0 /\ n = n0 /\ s = r)
    BY <1>1, CommitRows
  <2>3. \A c \in Channels : currentPts[c] \in Nat
    BY DEF TypeInv, TypeOK
  <2>4. \A c \in Channels, n \in Nat : ~Row(c, n, r)
    BY <2>1 DEF NumberInv, RowsOfRequests
  <2>5. \A s \in Reqs : ~Row(c0, n0, s)
    BY <2>1, <2>3 DEF NumberInv, RowsOfRequests
  <2> HIDE DEF c0, n0
  <2>6. c0 = ChanOf[r]
    BY DEF c0
  <2>7. RowsOfRequests'
    <3> SUFFICES ASSUME NEW c \in Channels, NEW n \in Nat, NEW s \in Reqs, Row(c, n, s)'
                 PROVE  /\ ChanOf[s] = c /\ pc'[s] = "done" /\ n \in 1 .. currentPts'[c]
                        /\ \A m \in Nat, t \in Reqs :
                              Row(c, m, t)' /\ (m = n \/ t = s) => m = n /\ t = s
      BY DEF RowsOfRequests
    <3>1. CASE Row(c, n, s)
      <4>1. ChanOf[s] = c /\ pc[s] = "done" /\ n \in 1 .. currentPts[c]
            /\ \A m \in Nat, t \in Reqs : Row(c, m, t) /\ (m = n \/ t = s) => m = n /\ t = s
        BY <3>1 DEF NumberInv, RowsOfRequests
      <4>2. n \in 1 .. currentPts'[c]
        BY <4>1, <2>1, <2>3
      <4>3. ASSUME NEW m \in Nat, NEW t \in Reqs, Row(c, m, t)', m = n \/ t = s
            PROVE  m = n /\ t = s
        BY <4>1, <4>3, <2>2, <2>4, <2>5, <3>1
      <4> QED
        BY <4>1, <4>2, <4>3, <2>1
    <3>2. CASE c = c0 /\ n = n0 /\ s = r
      <4>1. n \in 1 .. currentPts'[c]
        BY <3>2, <2>1, <2>3
      <4>2. ASSUME NEW m \in Nat, NEW t \in Reqs, Row(c, m, t)', m = n \/ t = s
            PROVE  m = n /\ t = s
        BY <4>2, <3>2, <2>2, <2>4, <2>5
      <4> QED
        BY <3>2, <4>1, <4>2, <2>1, <2>6
    <3> QED
      BY <3>1, <3>2, <2>2
  <2>8. Dense'
    <3> SUFFICES ASSUME NEW c \in Channels, NEW n \in Nat, n \in 1 .. currentPts'[c]
                 PROVE  \E s \in Reqs : Row(c, n, s)'
      BY DEF Dense
    <3>1. CASE c = c0 /\ n = n0
      BY <3>1, <2>2
    <3>2. CASE ~(c = c0 /\ n = n0)
      <4>1. n \in 1 .. currentPts[c]
        BY <3>2, <2>1, <2>3
      <4>2. PICK s \in Reqs : Row(c, n, s)
        BY <4>1 DEF NumberInv, Dense
      <4> QED
        BY <4>2, <2>2
    <3> QED
      BY <3>1, <3>2
  <2> QED
    BY <2>7, <2>8 DEF NumberInv
<1>2. CASE /\ UNCHANGED <<currentPts, commitLog>>
           /\ \A s \in Reqs : pc[s] = "done" => pc'[s] = "done"
  BY <1>2 DEF NumberInv, RowsOfRequests, Dense, Row
<1> QED
  BY <1>1, <1>2, OnlyCommitWrites

LEMMA RowShape ==
    ASSUME TypeOK, NEW x \in commitLog
    PROVE  x = <<x[1], x[2], x[3]>> /\ x[1] \in Channels /\ x[2] \in Nat /\ x[3] \in Reqs
BY DEF TypeOK

LEMMA NumberImplies == TypeInv /\ NumberInv => Gapless
<1> SUFFICES ASSUME TypeInv, NumberInv, NEW c \in Channels
             PROVE  /\ {row[2] : row \in {x \in commitLog : x[1] = c}} = 1 .. currentPts[c]
                    /\ \A x, y \in commitLog : x[1] = c /\ y[1] = c /\ x[2] = y[2] => x = y
  BY DEF Gapless
<1>0. TypeOK /\ currentPts[c] \in Nat
  BY DEF TypeInv, TypeOK
<1>1. ASSUME NEW x \in commitLog, x[1] = c PROVE x[2] \in 1 .. currentPts[c]
  BY <1>0, <1>1, RowShape DEF NumberInv, RowsOfRequests, Row
<1>2. ASSUME NEW n \in 1 .. currentPts[c] PROVE \E x \in commitLog : x[1] = c /\ x[2] = n
  <2>1. n \in Nat
    BY <1>0
  <2>2. PICK r \in Reqs : Row(c, n, r)
    BY <2>1, <1>2 DEF NumberInv, Dense
  <2> QED
    BY <2>2 DEF Row
<1>3. ASSUME NEW x \in commitLog, NEW y \in commitLog, x[1] = c, y[1] = c, x[2] = y[2] PROVE x = y
  <2>1. /\ x = <<c, x[2], x[3]>> /\ y = <<c, x[2], y[3]>>
        /\ x[2] \in Nat /\ x[3] \in Reqs /\ y[3] \in Reqs
    BY <1>0, <1>3, RowShape
  <2>2. x[3] = y[3]
    BY <2>1 DEF NumberInv, RowsOfRequests, Row
  <2> QED
    BY <2>1, <2>2
<1> QED
  BY <1>1, <1>2, <1>3

(* The pts row lock makes the numbering gapless: for any number of           *)
(* concurrent handlers, failures and lost replies a channel's log is         *)
(* 1 .. current_pts, one row each.                                           *)
THEOREM GaplessTimeline == Spec => []Gapless
<1>1. TypeInv /\ LockInv /\ NumberInv /\ [Next]_vars => (TypeInv /\ LockInv /\ NumberInv)'
  BY TypeNext, LockNext, NumberNext
<1>2. Init => TypeInv /\ LockInv /\ NumberInv
  BY TypeInit, LockInit, NumberInit
<1> QED
  BY <1>1, <1>2, NumberImplies, PTL DEF Spec

-----------------------------------------------------------------------------
(* Exactly once. *)
LEMMA OnceInit == Init => OnceInv
BY DEF Init, OnceInv, ClaimsRecorded, Row

(* What a commit does to the claim tables. *)
LEMMA CommitClaims ==
    ASSUME TypeInv, LockInv, NEW r \in Reqs, NEW a \in Reqs \cup Codes, Commit(r, a)
    PROVE  /\ UsesDedup(r) => dedup[KeyOf[r]] = None /\ dedup' = [dedup EXCEPT ![KeyOf[r]] = r]
           /\ ~UsesDedup(r) => dedup' = dedup
           /\ UsesRegistry(r) => registry[KeyOf[r]] = None /\ registry' = [registry EXCEPT ![KeyOf[r]] = r]
           /\ ~UsesRegistry(r) => registry' = registry
           /\ UsesDedup(r) \/ UsesRegistry(r) => KeyOf[r] \in Keys
           /\ swept' = swept
BY CommitAssumption DEF Commit, Persist, Put, LockInv, LocksFresh, HoldsDedup, HoldsRegistry,
   UsesDedup, UsesRegistry

LEMMA OnceNext == TypeInv /\ LockInv /\ OnceInv /\ [Next]_vars => OnceInv'
<1> SUFFICES ASSUME TypeInv, LockInv, OnceInv, [Next]_vars PROVE OnceInv'
  OBVIOUS
<1> USE CommitAssumption
<1>0. dedup \in [Keys -> Reqs \cup {None}] /\ registry \in [Keys -> Reqs \cup {None}]
  BY DEF TypeInv, TypeOK
<1>1. ASSUME NEW r \in Reqs, NEW a \in Reqs \cup Codes, Commit(r, a) PROVE OnceInv'
  <2> SUFFICES ASSUME NEW c \in Channels, NEW n \in Nat, NEW s \in Reqs, Row(c, n, s)'
               PROVE  /\ UsesDedup(s) /\ KeyOf[s] \notin swept => dedup'[KeyOf[s]] = s
                      /\ UsesRegistry(s) => registry'[KeyOf[s]] = s
    BY <1>1, CommitClaims DEF OnceInv, ClaimsRecorded, UsesDedup, UsesRegistry
  <2>1. CASE Row(c, n, s)
    <3>1. /\ UsesDedup(s) /\ KeyOf[s] \notin swept => dedup[KeyOf[s]] = s
          /\ UsesRegistry(s) => registry[KeyOf[s]] = s
      BY <2>1 DEF OnceInv, ClaimsRecorded
    <3> QED
      BY <3>1, <1>0, <1>1, CommitClaims DEF UsesDedup, UsesRegistry
  <2>2. CASE s = r
    BY <2>2, <1>0, <1>1, CommitClaims
  <2> QED
    BY <2>1, <2>2, <1>1, CommitRows
<1>2. CASE UNCHANGED <<commitLog, registry, dedup, swept>>
  BY <1>2 DEF OnceInv, ClaimsRecorded, Row, UsesDedup, UsesRegistry
<1>3. CASE DedupRetention
  BY <1>3, <1>0 DEF DedupRetention, Sweepable, OnceInv, ClaimsRecorded, Row, UsesDedup, UsesRegistry
<1> QED
  BY <1>1, <1>2, <1>3, OnlyCommitWrites

SafeInv == TypeInv /\ LockInv /\ NumberInv /\ OnceInv

LEMMA SafeInvariant == Spec => []SafeInv
<1>1. Init => SafeInv
  BY TypeInit, LockInit, NumberInit, OnceInit DEF SafeInv
<1>2. SafeInv /\ [Next]_vars => SafeInv'
  BY TypeNext, LockNext, NumberNext, OnceNext DEF SafeInv
<1> QED
  BY <1>1, <1>2, PTL DEF Spec

LEMMA OnceImplies == SafeInv => ExactlyOnce
<1> SUFFICES ASSUME SafeInv, NEW x \in commitLog, NEW y \in commitLog, SameClaim(x[3], y[3])
             PROVE  x = y
  BY DEF ExactlyOnce
<1>1. /\ x = <<x[1], x[2], x[3]>> /\ x[1] \in Channels /\ x[2] \in Nat /\ x[3] \in Reqs
      /\ y = <<y[1], y[2], y[3]>> /\ y[1] \in Channels /\ y[2] \in Nat /\ y[3] \in Reqs
  BY RowShape DEF SafeInv, TypeInv
<1>2. Row(x[1], x[2], x[3]) /\ Row(y[1], y[2], y[3])
  BY <1>1 DEF Row
<1>3. x[3] = y[3]
  BY <1>1, <1>2 DEF SafeInv, OnceInv, ClaimsRecorded, SameClaim
<1>4. x[1] = y[1] /\ x[2] = y[2]
  BY <1>1, <1>2, <1>3 DEF SafeInv, NumberInv, RowsOfRequests
<1> QED
  BY <1>1, <1>3, <1>4

(* A key that retention has not dropped puts at most one message in the log, *)
(* for any number of concurrent retries that all passed the unlocked check.  *)
THEOREM ExactlyOncePerKey == Spec => []ExactlyOnce
BY SafeInvariant, OnceImplies, PTL

-----------------------------------------------------------------------------
(* Answers.  What the tables and the answers name is in the log. *)
Named(r, m) ==
    /\ InLog(m) /\ KeyOf[m] = KeyOf[r]
    /\ UsesDedup(m) <=> UsesDedup(r)
    /\ UsesRegistry(m) <=> UsesRegistry(r)

TablesNamed ==
    \A k \in Keys :
        /\ dedup[k] # None => InLog(dedup[k]) /\ KeyOf[dedup[k]] = k /\ UsesDedup(dedup[k])
        /\ registry[k] # None => InLog(registry[k]) /\ KeyOf[registry[k]] = k /\ UsesRegistry(registry[k])

AnswersNamed == \A r \in Reqs : answer[r] \in Reqs => Named(r, answer[r])

AnswerInv == TablesNamed /\ AnswersNamed

LEMMA AnswerInit == Init => AnswerInv
BY CommitAssumption DEF Init, AnswerInv, TablesNamed, AnswersNamed

LEMMA LogGrows == TypeInv /\ [Next]_vars => commitLog \subseteq commitLog'
BY OnlyCommitWrites DEF Commit, Persist

LEMMA CommittedInLog ==
    ASSUME NEW r \in Reqs, Persist(r)
    PROVE  InLog(r)'
<1>1. <<ChanOf[r], alloc[r], r>> \in commitLog'
  BY DEF Persist
<1>2. <<ChanOf[r], alloc[r], r>>[3] = r
  OBVIOUS
<1> QED
  BY <1>1, <1>2 DEF InLog

LEMMA AnswerNext == SafeInv /\ AnswerInv /\ [Next]_vars => AnswerInv'
<1> SUFFICES ASSUME SafeInv, AnswerInv, [Next]_vars PROVE AnswerInv'
  OBVIOUS
<1> USE CommitAssumption
<1>t. TypeInv /\ LockInv /\ TypeOK
  BY DEF SafeInv, TypeInv
<1>g. \A m : InLog(m) => InLog(m)'
  BY <1>t, LogGrows DEF InLog
<1>k. ASSUME NEW r \in Reqs PROVE Known(r) # None => Known(r) \in Reqs /\ Named(r, Known(r))
  BY <1>t DEF AnswerInv, TablesNamed, Named, Known, UsesDedup, UsesRegistry, TypeOK
<1>e. ASSUME NEW r \in Reqs, UsesDedup(r) \/ UsesRegistry(r)
      PROVE  Existing(r) # None => Existing(r) \in Reqs /\ Named(r, Existing(r))
  BY <1>e, <1>t DEF AnswerInv, TablesNamed, Named, Existing, UsesDedup, UsesRegistry, TypeOK
<1>1. TablesNamed'
  <2>1. ASSUME NEW r \in Reqs, NEW a \in Reqs \cup Codes, Commit(r, a) PROVE TablesNamed'
    <3>1. InLog(r)'
      BY <2>1, CommittedInLog DEF Commit
    <3>2. ASSUME NEW k \in Keys, NEW m \in Reqs, dedup'[k] = m
          PROVE  InLog(m)' /\ KeyOf[m] = k /\ UsesDedup(m)
      <4>1. (m = r /\ UsesDedup(r) /\ KeyOf[r] = k) \/ dedup[k] = m
        BY <3>2, <2>1, <1>t, CommitClaims DEF TypeOK
      <4> QED
        BY <4>1, <3>1, <1>g DEF AnswerInv, TablesNamed
    <3>3. ASSUME NEW k \in Keys, NEW m \in Reqs, registry'[k] = m
          PROVE  InLog(m)' /\ KeyOf[m] = k /\ UsesRegistry(m)
      <4>1. (m = r /\ UsesRegistry(r) /\ KeyOf[r] = k) \/ registry[k] = m
        BY <3>3, <2>1, <1>t, CommitClaims DEF TypeOK
      <4> QED
        BY <4>1, <3>1, <1>g DEF AnswerInv, TablesNamed
    <3>4. dedup' \in [Keys -> Reqs \cup {None}] /\ registry' \in [Keys -> Reqs \cup {None}]
      BY <2>1, <1>t, PersistTypes DEF Commit
    <3> QED
      BY <3>2, <3>3, <3>4 DEF TablesNamed, UsesDedup, UsesRegistry, InLog
  <2>2. CASE UNCHANGED <<dedup, registry>>
    BY <2>2, <1>t, LogGrows DEF AnswerInv, TablesNamed, UsesDedup, UsesRegistry, InLog
  <2>3. CASE DedupRetention /\ UNCHANGED registry
    BY <2>3 DEF DedupRetention, AnswerInv, TablesNamed, UsesDedup, UsesRegistry, InLog
  <2> QED
    BY <2>1, <2>2, <2>3, <1>t, OnlyCommitWrites
<1>2. AnswersNamed'
  <2>1. ASSUME NEW r \in Reqs, NEW a \in Reqs \cup Codes, Return(r, a),
               a \in Reqs => Named(r, a) \/ (a = r /\ InLog(r)')
        PROVE  AnswersNamed'
    <3>1. ASSUME NEW s \in Reqs, NEW m \in Reqs, answer'[s] = m PROVE Named(s, m)'
      <4>1. (s = r /\ m = a) \/ answer[s] = m
        BY <3>1, <2>1, <1>t DEF Return, TypeOK
      <4>2. Named(s, m) \/ (m = s /\ InLog(s)')
        BY <4>1, <2>1 DEF AnswerInv, AnswersNamed
      <4> QED
        BY <4>2, <1>g DEF Named, UsesDedup, UsesRegistry
    <3> QED
      BY <3>1 DEF AnswersNamed, Named, InLog, UsesDedup, UsesRegistry
  <2>2. CASE UNCHANGED answer
    BY <2>2, <1>t, LogGrows DEF AnswerInv, AnswersNamed, Named, InLog, UsesDedup, UsesRegistry
  <2>3. ASSUME NEW r \in Reqs, FastPathHit(r) PROVE AnswersNamed'
    BY <2>3, <2>1, <1>k DEF FastPathHit
  <2>4. ASSUME NEW r \in Reqs, RefuseBinding(r) PROVE AnswersNamed'
    BY <2>4, <2>1 DEF RefuseBinding, RefusalCode, Codes
  <2>5. ASSUME NEW r \in Reqs, Commit(r, r) \/ Commit(r, "error") PROVE AnswersNamed'
    <3>1. InLog(r)'
      BY <2>5, CommittedInLog DEF Commit
    <3> QED
      BY <2>5, <2>1, <3>1 DEF Commit, Codes
  <2>6. ASSUME NEW r \in Reqs, AnswerDuplicate(r) PROVE AnswersNamed'
    <3>1. UsesDedup(r) \/ UsesRegistry(r)
      BY <2>6, <1>t DEF AnswerDuplicate, TypeInv, DuplicateHasKey
    <3>2. CASE Existing(r) # None
      BY <2>6, <2>1, <3>1, <3>2, <1>e DEF AnswerDuplicate
    <3>3. CASE Existing(r) = None
      BY <2>6, <2>1, <3>3 DEF AnswerDuplicate, Codes
    <3> QED
      BY <3>2, <3>3
  <2>7. ASSUME NEW r \in Reqs, Fail(r) PROVE AnswersNamed'
    BY <2>7, <2>1 DEF Fail, Codes
  <2> QED
    BY <2>2, <2>3, <2>4, <2>5, <2>6, <2>7 DEF Next, Step, FastPathMiss, ClaimDedup, AllocatePts,
       WriteRows, ClaimRegistry, DedupRetention, vars
<1> QED
  BY <1>1, <1>2 DEF AnswerInv

LEMMA AnswerImplies == SafeInv /\ AnswerInv => AnswersAgree
<1> SUFFICES ASSUME SafeInv, AnswerInv, NEW r \in Reqs, answer[r] \in Reqs
             PROVE  /\ InLog(answer[r]) /\ KeyOf[answer[r]] = KeyOf[r]
                    /\ \A s \in Reqs : answer[s] \in Reqs /\ SameClaim(r, s) => answer[s] = answer[r]
  BY DEF AnswersAgree
<1>1. Named(r, answer[r])
  BY DEF AnswerInv, AnswersNamed
<1>2. ASSUME NEW s \in Reqs, answer[s] \in Reqs, SameClaim(r, s) PROVE answer[s] = answer[r]
  <2>1. Named(s, answer[s])
    BY <1>2 DEF AnswerInv, AnswersNamed
  <2>2. SameClaim(answer[r], answer[s])
    BY <1>1, <1>2, <2>1 DEF SameClaim, Named
  <2>3. PICK x \in commitLog : x[3] = answer[r]
    BY <1>1 DEF Named, InLog
  <2>4. PICK y \in commitLog : y[3] = answer[s]
    BY <2>1 DEF Named, InLog
  <2> QED
    BY <2>2, <2>3, <2>4, OnceImplies DEF ExactlyOnce
<1> QED
  BY <1>1, <1>2 DEF Named

(* Whatever path an answer takes -- pre-check, commit or conflict -- it      *)
(* names a committed message, and all answers to one key name the same one.  *)
THEOREM AnswersAgreeAlways == Spec => []AnswersAgree
<1>1. SafeInv /\ AnswerInv /\ [Next]_vars => AnswerInv'
  BY AnswerNext
<1> QED
  BY <1>1, AnswerInit, SafeInvariant, AnswerImplies, PTL DEF Spec

-----------------------------------------------------------------------------
(* Files. *)
LEMMA InLogDone == SafeInv => \A r \in Reqs : InLog(r) => pc[r] = "done"
<1> SUFFICES ASSUME SafeInv, NEW r \in Reqs, InLog(r) PROVE pc[r] = "done"
  OBVIOUS
<1>1. PICK x \in commitLog : x[3] = r
  BY DEF InLog
<1>2. x = <<x[1], x[2], r>> /\ x[1] \in Channels /\ x[2] \in Nat
  BY <1>1, RowShape DEF SafeInv, TypeInv
<1> QED
  BY <1>2 DEF SafeInv, NumberInv, RowsOfRequests, Row

(* A commit adds its own request to the log and no other. *)
LEMMA CommitInLog ==
    ASSUME NEW r \in Reqs, Persist(r), NEW m
    PROVE  InLog(m)' <=> InLog(m) \/ m = r
<1>1. <<ChanOf[r], alloc[r], r>>[3] = r
  OBVIOUS
<1>2. commitLog' = commitLog \cup {<<ChanOf[r], alloc[r], r>>}
  BY DEF Persist
<1> QED
  BY <1>1, <1>2 DEF InLog

LEMMA FileNext == SafeInv /\ FileHasOneOwner /\ [Next]_vars => FileHasOneOwner'
<1> SUFFICES ASSUME SafeInv, FileHasOneOwner, [Next]_vars PROVE FileHasOneOwner'
  OBVIOUS
<1> USE CommitAssumption
<1>t. TypeInv /\ LockInv /\ TypeOK
  BY DEF SafeInv, TypeInv
<1>1. ASSUME NEW r \in Reqs, NEW a \in Reqs \cup Codes, Commit(r, a) PROVE FileHasOneOwner'
  <2>1. Persist(r) /\ pc[r] = "registered"
    BY <1>1 DEF Commit
  <2>2. \A m : InLog(m)' <=> InLog(m) \/ m = r
    BY <2>1, CommitInLog
  <2>3. ~InLog(r)
    BY <2>1, InLogDone
  <2>4. FileOf[r] # None => /\ FileOf[r] \in Files /\ r \notin Foreign /\ boundTo[FileOf[r]] \in {None, r}
                           /\ boundTo' = [boundTo EXCEPT ![FileOf[r]] = r]
    BY <2>1, <1>t DEF Persist, LockInv, LocksFresh, HoldsFile, Bindable
  <2>5. FileOf[r] = None => boundTo' = boundTo
    BY <2>1 DEF Persist
  <2>6. boundTo \in [Files -> Reqs \cup {None}]
    BY <1>t DEF TypeOK
  <2>7. ASSUME NEW f \in Files, NEW m \in Reqs, boundTo'[f] = m PROVE InLog(m)' /\ FileOf[m] = f
    BY <2>7, <2>2, <2>4, <2>5, <2>6 DEF FileHasOneOwner
  <2>8. ASSUME NEW s \in Reqs, InLog(s)', FileOf[s] # None
        PROVE  boundTo'[FileOf[s]] = s /\ s \notin Foreign
    <3>1. CASE s = r
      BY <3>1, <2>8, <2>4, <2>6
    <3>2. CASE s # r
      BY <3>2, <2>8, <2>2, <2>3, <2>4, <2>5, <2>6 DEF FileHasOneOwner
    <3> QED
      BY <3>1, <3>2
  <2>9. boundTo' \in [Files -> Reqs \cup {None}]
    BY <2>4, <2>5, <2>6
  <2> QED
    BY <2>7, <2>8, <2>9 DEF FileHasOneOwner, InLog
<1>2. CASE UNCHANGED <<commitLog, boundTo>>
  BY <1>2 DEF FileHasOneOwner, InLog
<1> QED
  BY <1>1, <1>2, <1>t, OnlyCommitWrites

(* An uploaded file is attached to at most one message, by its uploader,     *)
(* however many messages race to attach it.                                  *)
THEOREM OneOwnerPerFile == Spec => []FileHasOneOwner
<1>1. Init => FileHasOneOwner
  BY DEF Init, FileHasOneOwner, InLog
<1> QED
  BY <1>1, FileNext, SafeInvariant, PTL DEF Spec

-----------------------------------------------------------------------------
(* The message head. *)
HeadInv ==
    \A c \in Channels :
        /\ head[c] <= currentPts[c]
        /\ \A n \in Nat, r \in Reqs : Row(c, n, r) /\ PathOf[r] # "event" => n <= head[c]
        /\ head[c] # 0 => \E r \in Reqs : Row(c, head[c], r) /\ PathOf[r] # "event"

LEMMA HeadNext == SafeInv /\ HeadInv /\ [Next]_vars => HeadInv'
<1> SUFFICES ASSUME SafeInv, HeadInv, [Next]_vars PROVE HeadInv'
  OBVIOUS
<1>t. TypeInv /\ LockInv /\ NumberInv /\ TypeOK
  BY DEF SafeInv, TypeInv
<1>1. ASSUME NEW r \in Reqs, NEW a \in Reqs \cup Codes, Commit(r, a) PROVE HeadInv'
  <2>1. /\ alloc[r] = currentPts[ChanOf[r]] + 1 /\ alloc[r] \in Nat /\ ChanOf[r] \in Channels
        /\ currentPts'[ChanOf[r]] = alloc[r]
        /\ \A c \in Channels : c # ChanOf[r] => currentPts'[c] = currentPts[c]
    BY <1>1, <1>t, CommitRows
  <2>2. \A c, n, s : Row(c, n, s)' <=> Row(c, n, s) \/ (c = ChanOf[r] /\ n = alloc[r] /\ s = r)
    BY <1>1, <1>t, CommitRows
  <2>3. \A c \in Channels : head[c] \in Nat /\ currentPts[c] \in Nat
    BY <1>t DEF TypeOK
  <2>4. head[ChanOf[r]] < alloc[r]
    BY <2>1, <2>3 DEF HeadInv
  <2>5. /\ PathOf[r] # "event" => head' = [head EXCEPT ![ChanOf[r]] = alloc[r]]
        /\ PathOf[r] = "event" => head' = head
    BY <1>1, <2>1, <2>3, <2>4 DEF Commit, Persist, AdvanceHead
  <2>6. ASSUME NEW c \in Channels
        PROVE  /\ head'[c] <= currentPts'[c]
               /\ \A n \in Nat, s \in Reqs : Row(c, n, s)' /\ PathOf[s] # "event" => n <= head'[c]
               /\ head'[c] # 0 => \E m \in Nat, s \in Reqs : m = head'[c] /\ Row(c, m, s)' /\ PathOf[s] # "event"
    <3>h. head \in [Channels -> Nat]
      BY <1>t DEF TypeOK
    <3>1. CASE c = ChanOf[r] /\ PathOf[r] # "event"
      <4>1. head'[c] = alloc[r] /\ currentPts'[c] = alloc[r]
        BY <3>1, <3>h, <2>1, <2>5
      <4>2. ASSUME NEW n \in Nat, NEW s \in Reqs, Row(c, n, s)', PathOf[s] # "event"
            PROVE  n <= alloc[r]
        <5>1. CASE Row(c, n, s)
          <6>1. n <= head[c]
            BY <5>1, <4>2 DEF HeadInv
          <6> QED
            BY <6>1, <3>1, <2>1, <2>3, <2>4
        <5>2. CASE n = alloc[r]
          BY <5>2, <2>1
        <5> QED
          BY <5>1, <5>2, <4>2, <2>2
      <4> QED
        BY <4>1, <4>2, <3>1, <2>1, <2>2
    <3>2. CASE c = ChanOf[r] /\ PathOf[r] = "event"
      <4>1. head'[c] = head[c] /\ head[c] <= currentPts'[c]
        BY <3>2, <2>1, <2>3, <2>4, <2>5
      <4> QED
        BY <4>1, <3>2, <2>2, <2>3 DEF HeadInv
    <3>3. CASE c # ChanOf[r]
      <4>1. head'[c] = head[c] /\ currentPts'[c] = currentPts[c]
        BY <3>3, <3>h, <2>1, <2>5
      <4> QED
        BY <4>1, <3>3, <2>2, <2>3 DEF HeadInv
    <3> QED
      BY <3>1, <3>2, <3>3
  <2> QED
    BY <2>6 DEF HeadInv, Row
<1>2. CASE UNCHANGED <<currentPts, commitLog, head>>
  BY <1>2 DEF HeadInv, Row
<1> QED
  BY <1>1, <1>2, <1>t, OnlyCommitWrites

LEMMA HeadImplies == SafeInv /\ HeadInv => HeadIsLatestMessage
<1> SUFFICES ASSUME SafeInv, HeadInv, NEW c \in Channels
             PROVE  /\ \A x \in commitLog : x[1] = c /\ PathOf[x[3]] # "event" => x[2] <= head[c]
                    /\ head[c] # 0 => \E x \in commitLog : x[1] = c /\ PathOf[x[3]] # "event" /\ x[2] = head[c]
  BY DEF HeadIsLatestMessage
<1>1. ASSUME NEW x \in commitLog, x[1] = c, PathOf[x[3]] # "event" PROVE x[2] <= head[c]
  <2>1. x = <<c, x[2], x[3]>> /\ x[2] \in Nat /\ x[3] \in Reqs
    BY <1>1, RowShape DEF SafeInv, TypeInv
  <2> QED
    BY <2>1, <1>1 DEF HeadInv, Row
<1>2. ASSUME head[c] # 0 PROVE \E x \in commitLog : x[1] = c /\ PathOf[x[3]] # "event" /\ x[2] = head[c]
  <2>1. PICK r \in Reqs : Row(c, head[c], r) /\ PathOf[r] # "event"
    BY <1>2 DEF HeadInv
  <2>2. <<c, head[c], r>>[1] = c /\ <<c, head[c], r>>[2] = head[c] /\ <<c, head[c], r>>[3] = r
    OBVIOUS
  <2> QED
    BY <2>1, <2>2 DEF Row
<1> QED
  BY <1>1, <1>2

(* The channel head never lags behind its latest message and never moves for *)
(* an event.                                                                 *)
THEOREM HeadFollowsMessages == Spec => []HeadIsLatestMessage
<1>1. Init => HeadInv
  BY DEF Init, HeadInv, Row
<1> QED
  BY <1>1, HeadNext, HeadImplies, SafeInvariant, PTL DEF Spec

-----------------------------------------------------------------------------
(* Nothing is ever removed from a channel's log and its pts never goes back. *)
THEOREM AppendOnly == Spec => LogAppendOnly
<1>1. SafeInv /\ [Next]_vars =>
        [/\ commitLog \subseteq commitLog'
         /\ \A c \in Channels : currentPts[c] <= currentPts'[c]]_vars
  <2> SUFFICES ASSUME SafeInv, [Next]_vars
               PROVE  /\ commitLog \subseteq commitLog'
                      /\ \A c \in Channels : currentPts[c] <= currentPts'[c]
    OBVIOUS
  <2>1. TypeInv /\ LockInv /\ \A c \in Channels : currentPts[c] \in Nat
    BY DEF SafeInv, TypeInv, TypeOK
  <2>2. \A c \in Channels : currentPts[c] <= currentPts'[c]
    BY <2>1, OnlyCommitWrites, CommitRows
  <2> QED
    BY <2>1, <2>2, LogGrows
<1> QED
  BY <1>1, SafeInvariant, PTL DEF Spec, LogAppendOnly

-----------------------------------------------------------------------------
(* Refinement. *)
LEMMA PairsOfUnion ==
    ASSUME NEW A, NEW e
    PROVE  {<<x[2], x[3]>> : x \in A \cup {e}} = {<<x[2], x[3]>> : x \in A} \cup {<<e[2], e[3]>>}
BY Zenon

LEMMA TaggedDifference ==
    ASSUME NEW A, NEW S, NEW tag
    PROVE  {<<tag, k>> : k \in A \ S} = {<<tag, k>> : k \in A} \ {<<tag, k>> : k \in S}
OBVIOUS

LEMMA TagsDisjoint ==
    ASSUME NEW A, NEW B
    PROVE  {<<"dedup", k>> : k \in A} \cap {<<"registry", k>> : k \in B} = {}
OBVIOUS

LEMMA CommitAppends ==
    ASSUME SafeInv, NEW r \in Reqs, NEW a \in Reqs \cup Codes, Commit(r, a)
    PROVE  Log!Append(r)
<1> USE CommitAssumption
<1>t. TypeInv /\ LockInv /\ TypeOK
  BY DEF SafeInv, TypeInv
<1>1. ClaimOf[r] \cap TakenClaims = {}
  <2>1. UsesDedup(r) => dedup[KeyOf[r]] = None
    BY <1>t, CommitClaims
  <2>2. UsesRegistry(r) => registry[KeyOf[r]] = None
    BY <1>t, CommitClaims
  <2> QED
    BY <2>1, <2>2 DEF ClaimOf, TakenClaims
<1>2. currentPts' = [currentPts EXCEPT ![ChanOf[r]] = @ + 1]
  BY <1>t, CommitRows DEF Commit, Persist
<1>3. Entries' = [Entries EXCEPT ![ChanOf[r]] = @ \cup {<<currentPts[ChanOf[r]] + 1, r>>}]
  <2> DEFINE n0 == currentPts[ChanOf[r]] + 1
  <2>1. commitLog' = commitLog \cup {<<ChanOf[r], n0, r>>} /\ ChanOf[r] \in Channels
    BY <1>t, CommitRows DEF Commit, Persist
  <2> HIDE DEF n0
  <2>2. <<ChanOf[r], n0, r>>[1] = ChanOf[r] /\ <<ChanOf[r], n0, r>>[2] = n0 /\ <<ChanOf[r], n0, r>>[3] = r
    OBVIOUS
  <2> DEFINE Cell(L, c) == {<<row[2], row[3]>> : row \in {x \in L : x[1] = c}}
  <2>3. ASSUME NEW c \in Channels, c # ChanOf[r] PROVE Cell(commitLog', c) = Cell(commitLog, c)
    <3>1. {x \in commitLog' : x[1] = c} = {x \in commitLog : x[1] = c}
      BY <2>1, <2>2, <2>3
    <3> QED
      BY <3>1
  <2>4. Cell(commitLog', ChanOf[r]) = Cell(commitLog, ChanOf[r]) \cup {<<n0, r>>}
    <3>1. {x \in commitLog' : x[1] = ChanOf[r]}
             = {x \in commitLog : x[1] = ChanOf[r]} \cup {<<ChanOf[r], n0, r>>}
      BY <2>1, <2>2
    <3>2. Cell(commitLog', ChanOf[r])
             = {<<x[2], x[3]>> : x \in {x \in commitLog : x[1] = ChanOf[r]} \cup {<<ChanOf[r], n0, r>>}}
      BY <3>1
    <3> QED
      BY <3>2, <2>2, PairsOfUnion
  <2>5. Entries = [c \in Channels |-> Cell(commitLog, c)] /\ Entries' = [c \in Channels |-> Cell(commitLog', c)]
    BY DEF Entries
  <2> HIDE DEF Cell
  <2>6. Entries' = [Entries EXCEPT ![ChanOf[r]] = @ \cup {<<n0, r>>}]
    BY <2>1, <2>3, <2>4, <2>5
  <2> QED
    BY <2>6 DEF n0
<1>4. TakenClaims' = TakenClaims \cup ClaimOf[r]
  <2> DEFINE D(t) == {j \in Keys : t[j] # None}
  <2>1. dedup \in [Keys -> Reqs \cup {None}] /\ registry \in [Keys -> Reqs \cup {None}]
    BY <1>t DEF TypeOK
  <2>2. D(dedup') = IF UsesDedup(r) THEN D(dedup) \cup {KeyOf[r]} ELSE D(dedup)
    BY <1>t, <2>1, CommitClaims
  <2>3. D(registry') = IF UsesRegistry(r) THEN D(registry) \cup {KeyOf[r]} ELSE D(registry)
    BY <1>t, <2>1, CommitClaims
  <2>4. /\ TakenClaims = {<<"dedup", k>> : k \in D(dedup)} \cup {<<"registry", k>> : k \in D(registry)}
        /\ TakenClaims' = {<<"dedup", k>> : k \in D(dedup')} \cup {<<"registry", k>> : k \in D(registry')}
    BY DEF TakenClaims
  <2>5. ~(UsesDedup(r) /\ UsesRegistry(r))
    BY DEF UsesDedup, UsesRegistry
  <2> HIDE DEF D
  <2>6. CASE UsesDedup(r)
    <3>1. ClaimOf[r] = {<<"dedup", KeyOf[r]>>}
      BY <2>6 DEF ClaimOf
    <3>2. {<<"dedup", k>> : k \in D(dedup')} = {<<"dedup", k>> : k \in D(dedup)} \cup {<<"dedup", KeyOf[r]>>}
      BY <2>2, <2>6
    <3> QED
      BY <3>1, <3>2, <2>3, <2>4, <2>5, <2>6
  <2>7. CASE UsesRegistry(r)
    <3>1. ClaimOf[r] = {<<"registry", KeyOf[r]>>}
      BY <2>7, <2>5 DEF ClaimOf
    <3>2. {<<"registry", k>> : k \in D(registry')}
             = {<<"registry", k>> : k \in D(registry)} \cup {<<"registry", KeyOf[r]>>}
      BY <2>3, <2>7
    <3> QED
      BY <3>1, <3>2, <2>2, <2>4, <2>5, <2>7
  <2>8. CASE ~UsesDedup(r) /\ ~UsesRegistry(r)
    <3>1. ClaimOf[r] = {}
      BY <2>8 DEF ClaimOf
    <3> QED
      BY <3>1, <2>2, <2>3, <2>4, <2>8
  <2> QED
    BY <2>6, <2>7, <2>8
<1> QED
  BY <1>1, <1>2, <1>3, <1>4 DEF Log!Append

LEMMA RetentionForgets ==
    ASSUME TypeOK, DedupRetention
    PROVE  \E K \in SUBSET ({"dedup", "registry"} \X Keys) : Log!Forget(K)
<1>1. PICK S \in SUBSET Sweepable : dedup' = [k \in Keys |-> IF k \in S THEN None ELSE dedup[k]]
  BY DEF DedupRetention
<1> DEFINE K == {<<"dedup", k>> : k \in S}
<1>2. K \in SUBSET ({"dedup", "registry"} \X Keys)
  BY DEF Sweepable
<1>3. {j \in Keys : dedup'[j] # None} = {j \in Keys : dedup[j] # None} \ S
  BY <1>1
<1>4. TakenClaims' = TakenClaims \ K
  <2> DEFINE D == {j \in Keys : dedup[j] # None}
             G == {<<"registry", k>> : k \in {j \in Keys : registry[j] # None}}
  <2>1. TakenClaims' = {<<"dedup", k>> : k \in D \ S} \cup G
    BY <1>3 DEF TakenClaims, DedupRetention
  <2>2. TakenClaims = {<<"dedup", k>> : k \in D} \cup G
    BY DEF TakenClaims
  <2>3. {<<"dedup", k>> : k \in D \ S} = {<<"dedup", k>> : k \in D} \ K
    BY TaggedDifference
  <2>4. K \cap G = {}
    BY TagsDisjoint
  <2> QED
    BY <2>1, <2>2, <2>3, <2>4
<1>5. UNCHANGED <<currentPts, Entries>>
  BY DEF DedupRetention, Entries
<1>6. Log!Forget(K)
  BY <1>4, <1>5 DEF Log!Forget
<1> QED
  BY <1>2, <1>6

(* The transactional write path implements the abstract append-only log with *)
(* remembered claims, for any number of concurrent handlers.                 *)
THEOREM TimelineImplementsLog == Spec => ImplementsLog
<1>1. Init => Log!Init
  BY DEF Init, Log!Init, Entries, TakenClaims
<1>2. SafeInv /\ [Next]_vars => [Log!Next]_Log!vars
  <2> SUFFICES ASSUME SafeInv, [Next]_vars PROVE [Log!Next]_Log!vars
    OBVIOUS
  <2>t. TypeInv /\ TypeOK
    BY DEF SafeInv, TypeInv
  <2>1. ASSUME NEW r \in Reqs, NEW a \in Reqs \cup Codes, Commit(r, a) PROVE Log!Next
    BY <2>1, CommitAppends DEF Log!Next
  <2>2. CASE DedupRetention
    BY <2>2, <2>t, RetentionForgets DEF Log!Next
  <2>3. CASE UNCHANGED <<currentPts, commitLog, registry, dedup>>
    BY <2>3 DEF Log!vars, Entries, TakenClaims
  <2> QED
    BY <2>1, <2>2, <2>3, <2>t, OnlyCommitWrites
<1> QED
  BY <1>1, <1>2, SafeInvariant, PTL DEF Spec, ImplementsLog, Log!Spec

-----------------------------------------------------------------------------
(* What the readers of a channel build on (DifferenceSync commits by adding  *)
(* one to dbPts): a step adds at most one number to a channel, the next one, *)
(* together with its row.                                                    *)
FeedsReaders ==
    [][\A c \in Channels : currentPts'[c] # currentPts[c] =>
          /\ currentPts'[c] = currentPts[c] + 1
          /\ \E r \in Reqs : commitLog' = commitLog \cup {<<c, currentPts[c] + 1, r>>}]_vars

(* The commits of overlapping transactions reach the readers one at a time   *)
(* and in order, so that DifferenceSync's 1 .. dbPts is the log of any       *)
(* channel that this write path fills.                                       *)
THEOREM CommitsFeedReaders == Spec => FeedsReaders
<1>1. SafeInv /\ [Next]_vars =>
        [\A c \in Channels : currentPts'[c] # currentPts[c] =>
            /\ currentPts'[c] = currentPts[c] + 1
            /\ \E r \in Reqs : commitLog' = commitLog \cup {<<c, currentPts[c] + 1, r>>}]_vars
  <2> SUFFICES ASSUME SafeInv, [Next]_vars, NEW c \in Channels, currentPts'[c] # currentPts[c]
               PROVE  /\ currentPts'[c] = currentPts[c] + 1
                      /\ \E r \in Reqs : commitLog' = commitLog \cup {<<c, currentPts[c] + 1, r>>}
    OBVIOUS
  <2>1. TypeInv /\ currentPts = [d \in Channels |-> currentPts[d]]
    BY DEF SafeInv, TypeInv, TypeOK
  <2>2. PICK r \in Reqs : \E a \in Reqs \cup Codes : Commit(r, a)
    BY <2>1, OnlyCommitWrites
  <2>3. alloc[r] = currentPts[ChanOf[r]] + 1
    BY <2>2 DEF Commit, SafeInv, LockInv, LocksFresh, HoldsPts
  <2>4. /\ currentPts' = [currentPts EXCEPT ![ChanOf[r]] = alloc[r]]
        /\ commitLog' = commitLog \cup {<<ChanOf[r], alloc[r], r>>}
    BY <2>2 DEF Commit, Persist
  <2>5. c = ChanOf[r] /\ currentPts'[c] = alloc[r]
    BY <2>1, <2>4
  <2> QED BY <2>3, <2>4, <2>5
<1> QED
  BY <1>1, SafeInvariant, PTL DEF Spec, FeedsReaders

(* A handler whose transaction waits for a row that another one holds. *)
WaitsForRow(r) ==
    \/ pc[r] = "checked" /\ UsesDedup(r) /\ ~DedupFree(r)
    \/ pc[r] = "claimed" /\ ~PtsFree(r)
    \/ pc[r] = "numbered" /\ FileOf[r] # None /\ ~FileFree(r)
    \/ pc[r] = "written" /\ UsesRegistry(r) /\ ~RegistryFree(r)

Begun(r) == pc[r] \notin {"idle", "done"}

(* Transactions that have begun do not wait for each other in a circle: one  *)
(* of them waits for nobody.                                                 *)
HandlersGoOn == (\E r \in Reqs : Begun(r)) => \E r \in Reqs : Begun(r) /\ ~WaitsForRow(r)

(* A waiting handler is behind the one it waits for: rows are taken in the   *)
(* order key, pts, file, registry.                                           *)
LEMMA WaitsForLater ==
    ASSUME TypeOK, NEW r \in Reqs, WaitsForRow(r)
    PROVE  \E s \in Reqs :
              \/ pc[r] = "checked" /\ pc[s] \in {"claimed", "numbered", "written", "registered"}
              \/ pc[r] = "claimed" /\ pc[s] \in {"numbered", "written", "registered"}
              \/ pc[r] = "numbered" /\ pc[s] \in {"written", "registered"}
              \/ pc[r] = "written" /\ pc[s] = "registered"
  BY DEF WaitsForRow, DedupFree, PtsFree, FileFree, RegistryFree,
         HoldsDedup, HoldsPts, HoldsFile, HoldsRegistry

(* The row locks of any number of overlapping transactions never deadlock,   *)
(* whichever keys, channels and files they share: the safety half of         *)
(* EveryRequestEnds.                                                         *)
THEOREM HandlersNeverDeadlock == Spec => []HandlersGoOn
<1>1. TypeOK => HandlersGoOn
  <2> SUFFICES ASSUME TypeOK, NEW q \in Reqs, Begun(q), \A r \in Reqs : Begun(r) => WaitsForRow(r)
               PROVE  FALSE
    BY DEF HandlersGoOn
  <2>1. \A r \in Reqs : pc[r] # "registered"
    BY DEF Begun, WaitsForRow
  <2>2. \A r \in Reqs : pc[r] # "written"
    BY <2>1, WaitsForLater DEF Begun
  <2>3. \A r \in Reqs : pc[r] # "numbered"
    BY <2>1, <2>2, WaitsForLater DEF Begun
  <2>4. \A r \in Reqs : pc[r] # "claimed"
    BY <2>1, <2>2, <2>3, WaitsForLater DEF Begun
  <2>5. pc[q] # "checked"
    BY <2>1, <2>2, <2>3, <2>4, WaitsForLater
  <2> QED BY <2>1, <2>2, <2>3, <2>4, <2>5 DEF Begun, WaitsForRow
<1> QED
  BY <1>1, TypeCorrect, PTL

-----------------------------------------------------------------------------
(* Uploads to a bucket (MultipartUpload).  The file rows that a message binds *)
(* are written by record_s3_published; what they lead to is in the bucket.   *)

CONSTANTS Sessions, ObjectKeys, NoClobber, MaxFaults
VARIABLES key, mpu, parts, object, anchor, dir, tomb, expired, rows, registered, job, sweep,
          loose, orphans, mishaps
Mu == INSTANCE MultipartUpload WITH Keys <- ObjectKeys

(* The steps of a request: those that issue a session, those of              *)
(* files/complete before the row, and those with the multipart upload closed. *)
Issuing == {"anchor", "mkdir", "manifest", "undo", "unanchor"}
Completing == {"head", "list", "assemble", "refused", "verify", "recheck", "record", "duplicate", "reuse"}
Behind == {"verify", "recheck", "record", "duplicate", "reuse", "tomb", "discard"}
SweepSteps == {"settle", "resolve", "remove", "abort", "orphan", "drop"}

Places ==
    /\ DOMAIN key = Sessions /\ DOMAIN mpu = Sessions /\ DOMAIN dir = Sessions
    /\ DOMAIN rows = Sessions /\ DOMAIN job = Sessions /\ DOMAIN object = ObjectKeys
    /\ registered \in ObjectKeys \cup {"none"}
    /\ sweep = Mu!NoSweep \/ sweep \in [next : SweepSteps, of : Sessions]
    /\ \A k \in ObjectKeys : object[k] = Mu!NoObject \/ object[k].by \in Sessions

SessionEntries(s) ==
    /\ key[s] \in ObjectKeys \cup {"none"} /\ rows[s] \in ObjectKeys \cup {"none"}
    /\ mpu[s] \in {"none", "open", "closed"}
    /\ dir[s] \in {"none", "half", "ready"}
    /\ job[s] \in {"idle", "tomb", "discard"} \cup Issuing \cup Completing

(* A session that was not created has nothing. *)
NotBegun(s) ==
    mpu[s] = "none" \/ key[s] = "none" =>
        /\ mpu[s] = "none" /\ job[s] = "idle" /\ dir[s] = "none" /\ rows[s] = "none"
        /\ s \notin anchor /\ s \notin tomb /\ sweep.of # s

(* A session's object is the content's, once the session is done with it. *)
Kept(s) == \A k \in ObjectKeys : object[k].by = s => registered = k

(* What the steps of a request have behind them. *)
StepDone(s) ==
    /\ rows[s] # "none" => rows[s] = registered /\ mpu[s] = "closed" /\ Kept(s)
    /\ s \in tomb \/ job[s] = "tomb" => rows[s] # "none"
    /\ job[s] = "reuse" => \A k \in ObjectKeys : object[k].by # s
    /\ job[s] \in {"duplicate", "reuse"} => registered # "none"
    /\ job[s] \in Behind => mpu[s] = "closed"
    /\ job[s] \in {"anchor", "mkdir"} => dir[s] = "none"
    /\ job[s] \in Completing /\ mpu[s] = "open" => dir[s] = "ready"

(* The sweep holds the lock of a session it settles, and closes the          *)
(* multipart upload before it removes anything.                              *)
SweepDone(s) ==
    sweep.of = s =>
        /\ sweep.next \in {"settle", "resolve", "remove"} => job[s] \in {"idle", "unanchor"}
        /\ sweep.next \in {"resolve", "remove", "orphan"} => mpu[s] = "closed"
        /\ sweep.next = "remove" => Kept(s)

(* A session's object is at its key, the session can make no other, and      *)
(* something leads to it; something leads to an open multipart upload.       *)
Found(s) ==
    /\ mpu[s] = "open" => s \in anchor \/ dir[s] = "ready" \/ job[s] = "anchor" \/ s \in loose
    /\ \A k \in ObjectKeys : object[k].by = s =>
         /\ key[s] = k /\ mpu[s] = "closed" /\ job[s] \notin Issuing
         /\ registered = k \/ dir[s] = "ready" \/ s \in anchor \/ s \in orphans

InOrder(s) == SessionEntries(s) /\ NotBegun(s) /\ StepDone(s) /\ SweepDone(s) /\ Found(s)

UploadInv == Places /\ \A s \in Sessions : InOrder(s)

(* What a step of one session leaves alone of another. *)
LeftAlone(t) ==
    /\ key'[t] = key[t] /\ mpu'[t] = mpu[t] /\ rows'[t] = rows[t] /\ job'[t] = job[t] /\ dir'[t] = dir[t]
    /\ t \in tomb' <=> t \in tomb
    /\ t \in anchor' <=> t \in anchor
    /\ t \in loose => t \in loose'
    /\ t \in orphans => t \in orphans'
    /\ registered' = registered \/ registered = "none"
    /\ \A k \in ObjectKeys : object'[k].by = t => object[k].by = t
    /\ sweep'.of = t => sweep' = sweep

USE DEF Mu!bucket, Mu!disk, Mu!database, Mu!history, Mu!None

LEMMA LeftAloneKeeps ==
    ASSUME NEW t, InOrder(t), LeftAlone(t), "none" \notin ObjectKeys
    PROVE  InOrder(t)'
  <1>1. Kept(t) => Kept(t)'
    BY DEF Kept, LeftAlone
  <1>2. SessionEntries(t)' /\ NotBegun(t)'
    BY DEF InOrder, SessionEntries, NotBegun, LeftAlone
  <1>3. StepDone(t)'
    BY <1>1 DEF InOrder, StepDone, LeftAlone
  <1>4. SweepDone(t)'
    BY <1>1 DEF InOrder, SweepDone, LeftAlone
  <1>5. Found(t)'
    BY DEF InOrder, Found, LeftAlone
  <1> QED BY <1>2, <1>3, <1>4, <1>5 DEF InOrder

LEMMA SessionMoves ==
    ASSUME UploadInv, Mu!KeysAndSessions, NEW s \in Sessions, Places', InOrder(s)',
           \A t \in Sessions \ {s} : LeftAlone(t)
    PROVE  UploadInv'
  BY LeftAloneKeeps DEF UploadInv, Mu!KeysAndSessions

LEMMA UploadBegins == ASSUME Mu!KeysAndSessions, Mu!Init PROVE UploadInv
  <1>1. Places
    BY DEF Mu!Init, Places, Mu!NoObject, Mu!NoSweep
  <1>2. ASSUME NEW s \in Sessions PROVE InOrder(s)
    <2>1. /\ key[s] = "none" /\ mpu[s] = "none" /\ dir[s] = "none" /\ rows[s] = "none" /\ job[s] = "idle"
          /\ sweep.of # s /\ \A k \in ObjectKeys : object[k].by # s
      BY DEF Mu!KeysAndSessions, Mu!Init, Mu!NoObject, Mu!NoSweep
    <2> QED BY <2>1 DEF Mu!Init, InOrder, SessionEntries, NotBegun, StepDone, SweepDone, Found, Issuing, Completing, Behind
  <1> QED BY <1>1, <1>2 DEF UploadInv

LEMMA CreateKeeps == ASSUME UploadInv, Mu!KeysAndSessions, NEW s \in Sessions, Mu!Create(s) PROVE UploadInv'
  <1>1. Places'
    BY DEF UploadInv, Places, SweepSteps, Mu!Create, Mu!FinalKey, Mu!Goto, Mu!Fault
  <1>2. \A t \in Sessions \ {s} : LeftAlone(t)
    BY DEF UploadInv, Places, LeftAlone, Mu!NoSweep, Mu!Create, Mu!FinalKey, Mu!Goto, Mu!Fault
  <1>3. InOrder(s)'
    <2>1. InOrder(s) /\ Places
      BY DEF UploadInv
    <2>2. SessionEntries(s)' /\ NotBegun(s)'
      BY <2>1 DEF Mu!KeysAndSessions, InOrder, Places, SessionEntries, NotBegun, Issuing, Completing, Mu!NoSweep, Mu!Create,
                  Mu!FinalKey, Mu!Goto, Mu!Fault
    <2>3. StepDone(s)'
      BY <2>1 DEF InOrder, Places, SessionEntries, NotBegun, StepDone, Found, Kept, Issuing, Completing, Behind,
                  Mu!Create, Mu!FinalKey, Mu!Goto, Mu!Fault
    <2>4. SweepDone(s)'
      BY <2>1 DEF InOrder, NotBegun, SweepDone, Kept, Mu!NoSweep, Mu!Create, Mu!FinalKey, Mu!Goto,
                  Mu!Fault
    <2>5. Found(s)'
      BY <2>1 DEF InOrder, Places, SessionEntries, NotBegun, StepDone, Found, Issuing, Completing, Mu!Create,
                  Mu!FinalKey, Mu!Goto, Mu!Fault
    <2> QED BY <2>2, <2>3, <2>4, <2>5 DEF InOrder
  <1> QED BY <1>1, <1>2, <1>3, SessionMoves

LEMMA WriteAnchorKeeps == ASSUME UploadInv, Mu!KeysAndSessions, NEW s \in Sessions, Mu!WriteAnchor(s) PROVE UploadInv'
  <1>1. Places'
    BY DEF UploadInv, Places, SweepSteps, Mu!WriteAnchor, Mu!Goto, Mu!End, Mu!Closed, Mu!Fault
  <1>2. \A t \in Sessions \ {s} : LeftAlone(t)
    BY DEF UploadInv, Places, LeftAlone, Mu!NoSweep, Mu!WriteAnchor, Mu!Goto, Mu!End, Mu!Closed, Mu!Fault
  <1>3. InOrder(s)'
    <2>1. InOrder(s) /\ Places
      BY DEF UploadInv
    <2>2. SessionEntries(s)' /\ NotBegun(s)'
      BY <2>1 DEF InOrder, Places, SessionEntries, NotBegun, Issuing, Completing, Mu!NoSweep, Mu!WriteAnchor,
                  Mu!Goto, Mu!End, Mu!Closed, Mu!Fault
    <2>3. StepDone(s)'
      BY <2>1 DEF InOrder, Places, SessionEntries, NotBegun, StepDone, Found, Kept, Issuing, Completing, Behind,
                  Mu!WriteAnchor, Mu!Goto, Mu!End, Mu!Closed, Mu!Fault
    <2>4. SweepDone(s)'
      BY <2>1 DEF InOrder, Places, StepDone, SweepDone, Kept, Mu!NoSweep, Mu!WriteAnchor, Mu!Goto, Mu!End,
                  Mu!Closed, Mu!Fault
    <2>5. Found(s)'
      BY <2>1 DEF InOrder, Places, SessionEntries, NotBegun, StepDone, Found, Issuing, Completing, Mu!WriteAnchor,
                  Mu!Goto, Mu!End, Mu!Closed, Mu!Fault
    <2> QED BY <2>2, <2>3, <2>4, <2>5 DEF InOrder
  <1> QED BY <1>1, <1>2, <1>3, SessionMoves

LEMMA MakeDirectoryKeeps == ASSUME UploadInv, Mu!KeysAndSessions, NEW s \in Sessions, Mu!MakeDirectory(s) PROVE UploadInv'
  <1>1. Places'
    BY DEF UploadInv, Places, SweepSteps, Mu!MakeDirectory, Mu!Goto, Mu!Fault
  <1>2. \A t \in Sessions \ {s} : LeftAlone(t)
    BY DEF UploadInv, Places, LeftAlone, Mu!NoSweep, Mu!MakeDirectory, Mu!Goto, Mu!Fault
  <1>3. InOrder(s)'
    <2>1. InOrder(s) /\ Places
      BY DEF UploadInv
    <2>2. SessionEntries(s)' /\ NotBegun(s)'
      BY <2>1 DEF InOrder, Places, SessionEntries, NotBegun, Issuing, Completing, Mu!NoSweep, Mu!MakeDirectory,
                  Mu!Goto, Mu!Fault
    <2>3. StepDone(s)'
      BY <2>1 DEF InOrder, Places, SessionEntries, NotBegun, StepDone, Found, Kept, Issuing, Completing, Behind,
                  Mu!MakeDirectory, Mu!Goto, Mu!Fault
    <2>4. SweepDone(s)'
      BY <2>1 DEF InOrder, Places, StepDone, SweepDone, Kept, Mu!NoSweep, Mu!MakeDirectory, Mu!Goto,
                  Mu!Fault
    <2>5. Found(s)'
      BY <2>1 DEF InOrder, Places, SessionEntries, NotBegun, StepDone, Found, Issuing, Completing,
                  Mu!MakeDirectory, Mu!Goto, Mu!Fault
    <2> QED BY <2>2, <2>3, <2>4, <2>5 DEF InOrder
  <1> QED BY <1>1, <1>2, <1>3, SessionMoves

LEMMA WriteManifestKeeps == ASSUME UploadInv, Mu!KeysAndSessions, NEW s \in Sessions, Mu!WriteManifest(s) PROVE UploadInv'
  <1>1. Places'
    BY DEF UploadInv, Places, SweepSteps, Mu!WriteManifest, Mu!Goto, Mu!Fault
  <1>2. \A t \in Sessions \ {s} : LeftAlone(t)
    BY DEF UploadInv, Places, LeftAlone, Mu!NoSweep, Mu!WriteManifest, Mu!Goto, Mu!Fault
  <1>3. InOrder(s)'
    <2>1. InOrder(s) /\ Places
      BY DEF UploadInv
    <2>2. SessionEntries(s)' /\ NotBegun(s)'
      BY <2>1 DEF InOrder, Places, SessionEntries, NotBegun, Issuing, Completing, Mu!NoSweep, Mu!WriteManifest,
                  Mu!Goto, Mu!Fault
    <2>3. StepDone(s)'
      BY <2>1 DEF InOrder, Places, SessionEntries, NotBegun, StepDone, Found, Kept, Issuing, Completing, Behind,
                  Mu!WriteManifest, Mu!Goto, Mu!Fault
    <2>4. SweepDone(s)'
      BY <2>1 DEF InOrder, Places, StepDone, SweepDone, Kept, Mu!NoSweep, Mu!WriteManifest, Mu!Goto,
                  Mu!Fault
    <2>5. Found(s)'
      BY <2>1 DEF InOrder, Places, SessionEntries, NotBegun, StepDone, Found, Issuing, Completing,
                  Mu!WriteManifest, Mu!Goto, Mu!Fault
    <2> QED BY <2>2, <2>3, <2>4, <2>5 DEF InOrder
  <1> QED BY <1>1, <1>2, <1>3, SessionMoves

LEMMA UndoKeeps == ASSUME UploadInv, Mu!KeysAndSessions, NEW s \in Sessions, Mu!Undo(s) PROVE UploadInv'
  <1>1. Places'
    BY DEF UploadInv, Places, SweepSteps, Mu!Undo, Mu!Goto, Mu!End, Mu!Closed, Mu!Fault
  <1>2. \A t \in Sessions \ {s} : LeftAlone(t)
    BY DEF UploadInv, Places, LeftAlone, Mu!NoSweep, Mu!Undo, Mu!Goto, Mu!End, Mu!Closed, Mu!Fault
  <1>3. InOrder(s)'
    <2>1. InOrder(s) /\ Places
      BY DEF UploadInv
    <2>2. SessionEntries(s)' /\ NotBegun(s)'
      BY <2>1 DEF InOrder, Places, SessionEntries, NotBegun, Issuing, Completing, Mu!NoSweep, Mu!Undo, Mu!Goto,
                  Mu!End, Mu!Closed, Mu!Fault
    <2>3. StepDone(s)'
      BY <2>1 DEF InOrder, Places, SessionEntries, NotBegun, StepDone, Found, Kept, Issuing, Completing, Behind,
                  Mu!Undo, Mu!Goto, Mu!End, Mu!Closed, Mu!Fault
    <2>4. SweepDone(s)'
      BY <2>1 DEF InOrder, Places, StepDone, SweepDone, Kept, Mu!NoSweep, Mu!Undo, Mu!Goto, Mu!End,
                  Mu!Closed, Mu!Fault
    <2>5. Found(s)'
      BY <2>1 DEF InOrder, Places, SessionEntries, NotBegun, StepDone, Found, Issuing, Completing, Mu!Undo,
                  Mu!Goto, Mu!End, Mu!Closed, Mu!Fault
    <2> QED BY <2>2, <2>3, <2>4, <2>5 DEF InOrder
  <1> QED BY <1>1, <1>2, <1>3, SessionMoves

LEMMA RemoveAnchorKeeps == ASSUME UploadInv, Mu!KeysAndSessions, NEW s \in Sessions, Mu!RemoveAnchor(s) PROVE UploadInv'
  <1>1. Places'
    BY DEF UploadInv, Places, SweepSteps, Mu!RemoveAnchor, Mu!Goto, Mu!End
  <1>2. \A t \in Sessions \ {s} : LeftAlone(t)
    BY DEF UploadInv, Places, LeftAlone, Mu!NoSweep, Mu!RemoveAnchor, Mu!Goto, Mu!End
  <1>3. InOrder(s)'
    <2>1. InOrder(s) /\ Places
      BY DEF UploadInv
    <2>2. SessionEntries(s)' /\ NotBegun(s)'
      BY <2>1 DEF InOrder, Places, SessionEntries, NotBegun, Issuing, Completing, Mu!NoSweep, Mu!RemoveAnchor,
                  Mu!Goto, Mu!End
    <2>3. StepDone(s)'
      BY <2>1 DEF InOrder, Places, SessionEntries, NotBegun, StepDone, Found, Kept, Issuing, Completing, Behind,
                  Mu!RemoveAnchor, Mu!Goto, Mu!End
    <2>4. SweepDone(s)'
      BY <2>1 DEF InOrder, Places, StepDone, SweepDone, Kept, Mu!NoSweep, Mu!RemoveAnchor, Mu!Goto, Mu!End
    <2>5. Found(s)'
      BY <2>1 DEF InOrder, Places, SessionEntries, NotBegun, StepDone, Found, Issuing, Completing, Mu!RemoveAnchor,
                  Mu!Goto, Mu!End
    <2> QED BY <2>2, <2>3, <2>4, <2>5 DEF InOrder
  <1> QED BY <1>1, <1>2, <1>3, SessionMoves

LEMMA PartUrlsKeeps == ASSUME UploadInv, Mu!KeysAndSessions, NEW s \in Sessions, Mu!PartUrls(s) PROVE UploadInv'
  <1>1. Places'
    BY DEF UploadInv, Places, SweepSteps, Mu!PartUrls
  <1>2. \A t \in Sessions \ {s} : LeftAlone(t)
    BY DEF UploadInv, Places, LeftAlone, Mu!NoSweep, Mu!PartUrls
  <1>3. InOrder(s)'
    <2>1. InOrder(s) /\ Places
      BY DEF UploadInv
    <2>2. SessionEntries(s)' /\ NotBegun(s)'
      BY <2>1 DEF InOrder, Places, SessionEntries, NotBegun, Issuing, Completing, Mu!NoSweep, Mu!PartUrls
    <2>3. StepDone(s)'
      BY <2>1 DEF InOrder, Places, SessionEntries, NotBegun, StepDone, Found, Kept, Issuing, Completing, Behind,
                  Mu!PartUrls
    <2>4. SweepDone(s)'
      BY <2>1 DEF InOrder, Places, StepDone, SweepDone, Kept, Mu!NoSweep, Mu!PartUrls
    <2>5. Found(s)'
      BY <2>1 DEF InOrder, Places, SessionEntries, NotBegun, StepDone, Found, Issuing, Completing, Mu!PartUrls
    <2> QED BY <2>2, <2>3, <2>4, <2>5 DEF InOrder
  <1> QED BY <1>1, <1>2, <1>3, SessionMoves

LEMMA UploadPartsKeeps == ASSUME UploadInv, Mu!KeysAndSessions, NEW s \in Sessions, Mu!UploadParts(s) PROVE UploadInv'
  <1>1. Places'
    BY DEF UploadInv, Places, SweepSteps, Mu!UploadParts
  <1>2. \A t \in Sessions \ {s} : LeftAlone(t)
    BY DEF UploadInv, Places, LeftAlone, Mu!NoSweep, Mu!UploadParts
  <1>3. InOrder(s)'
    <2>1. InOrder(s) /\ Places
      BY DEF UploadInv
    <2>2. SessionEntries(s)' /\ NotBegun(s)'
      BY <2>1 DEF InOrder, Places, SessionEntries, NotBegun, Issuing, Completing, Mu!NoSweep, Mu!UploadParts
    <2>3. StepDone(s)'
      BY <2>1 DEF InOrder, Places, SessionEntries, NotBegun, StepDone, Found, Kept, Issuing, Completing, Behind,
                  Mu!UploadParts
    <2>4. SweepDone(s)'
      BY <2>1 DEF InOrder, Places, StepDone, SweepDone, Kept, Mu!NoSweep, Mu!UploadParts
    <2>5. Found(s)'
      BY <2>1 DEF InOrder, Places, SessionEntries, NotBegun, StepDone, Found, Issuing, Completing, Mu!UploadParts
    <2> QED BY <2>2, <2>3, <2>4, <2>5 DEF InOrder
  <1> QED BY <1>1, <1>2, <1>3, SessionMoves

LEMMA ExpireKeeps == ASSUME UploadInv, Mu!KeysAndSessions, NEW s \in Sessions, Mu!Expire(s) PROVE UploadInv'
  <1>1. Places'
    BY DEF UploadInv, Places, SweepSteps, Mu!Expire
  <1>2. \A t \in Sessions \ {s} : LeftAlone(t)
    BY DEF UploadInv, Places, LeftAlone, Mu!NoSweep, Mu!Expire
  <1>3. InOrder(s)'
    <2>1. InOrder(s) /\ Places
      BY DEF UploadInv
    <2>2. SessionEntries(s)' /\ NotBegun(s)'
      BY <2>1 DEF InOrder, Places, SessionEntries, NotBegun, Issuing, Completing, Mu!NoSweep, Mu!Expire
    <2>3. StepDone(s)'
      BY <2>1 DEF InOrder, Places, SessionEntries, NotBegun, StepDone, Found, Kept, Issuing, Completing, Behind,
                  Mu!Expire
    <2>4. SweepDone(s)'
      BY <2>1 DEF InOrder, Places, StepDone, SweepDone, Kept, Mu!NoSweep, Mu!Expire
    <2>5. Found(s)'
      BY <2>1 DEF InOrder, Places, SessionEntries, NotBegun, StepDone, Found, Issuing, Completing, Mu!Expire
    <2> QED BY <2>2, <2>3, <2>4, <2>5 DEF InOrder
  <1> QED BY <1>1, <1>2, <1>3, SessionMoves

LEMMA CompleteStartsKeeps == ASSUME UploadInv, Mu!KeysAndSessions, NEW s \in Sessions, Mu!CompleteStarts(s) PROVE UploadInv'
  <1>1. Places'
    BY DEF UploadInv, Places, SweepSteps, Mu!CompleteStarts, Mu!Usable, Mu!SweepLocks, Mu!Goto
  <1>2. \A t \in Sessions \ {s} : LeftAlone(t)
    BY DEF UploadInv, Places, LeftAlone, Mu!NoSweep, Mu!CompleteStarts, Mu!Usable, Mu!SweepLocks, Mu!Goto
  <1>3. InOrder(s)'
    <2>1. InOrder(s) /\ Places
      BY DEF UploadInv
    <2>2. SessionEntries(s)' /\ NotBegun(s)'
      BY <2>1 DEF InOrder, Places, SessionEntries, NotBegun, Issuing, Completing, Mu!NoSweep, Mu!CompleteStarts,
                  Mu!Usable, Mu!SweepLocks, Mu!Goto
    <2>3. StepDone(s)'
      BY <2>1 DEF InOrder, Places, SessionEntries, NotBegun, StepDone, Found, Kept, Issuing, Completing, Behind,
                  Mu!CompleteStarts, Mu!Usable, Mu!SweepLocks, Mu!Goto
    <2>4. SweepDone(s)'
      BY <2>1 DEF InOrder, Places, StepDone, SweepDone, Kept, Mu!NoSweep, Mu!CompleteStarts, Mu!Usable,
                  Mu!SweepLocks, Mu!Goto
    <2>5. Found(s)'
      BY <2>1 DEF InOrder, Places, SessionEntries, NotBegun, StepDone, Found, Issuing, Completing,
                  Mu!CompleteStarts, Mu!Usable, Mu!SweepLocks, Mu!Goto
    <2> QED BY <2>2, <2>3, <2>4, <2>5 DEF InOrder
  <1> QED BY <1>1, <1>2, <1>3, SessionMoves

LEMMA HeadFinalKeyKeeps == ASSUME UploadInv, Mu!KeysAndSessions, NEW s \in Sessions, Mu!HeadFinalKey(s) PROVE UploadInv'
  <1>1. Places'
    BY DEF UploadInv, Places, SweepSteps, Mu!HeadFinalKey, Mu!FoundObject, Mu!AbortThen, Mu!Own, Mu!Free,
           Mu!Held, Mu!Goto, Mu!End, Mu!Closed, Mu!Fault
  <1>2. \A t \in Sessions \ {s} : LeftAlone(t)
    BY DEF UploadInv, Places, LeftAlone, Mu!NoSweep, Mu!HeadFinalKey, Mu!FoundObject, Mu!AbortThen, Mu!Own,
           Mu!Free, Mu!Held, Mu!Goto, Mu!End, Mu!Closed, Mu!Fault
  <1>3. InOrder(s)'
    <2>1. InOrder(s) /\ Places
      BY DEF UploadInv
    <2>2. SessionEntries(s)' /\ NotBegun(s)'
      BY <2>1 DEF InOrder, Places, SessionEntries, NotBegun, Issuing, Completing, Mu!NoSweep, Mu!HeadFinalKey,
                  Mu!FoundObject, Mu!AbortThen, Mu!Own, Mu!Free, Mu!Held, Mu!Goto, Mu!End, Mu!Closed,
                  Mu!Fault
    <2>3. StepDone(s)'
      BY <2>1 DEF InOrder, Places, SessionEntries, NotBegun, StepDone, Found, Kept, Issuing, Completing, Behind,
                  Mu!HeadFinalKey, Mu!FoundObject, Mu!AbortThen, Mu!Own, Mu!Free, Mu!Held, Mu!Goto, Mu!End,
                  Mu!Closed, Mu!Fault
    <2>4. SweepDone(s)'
      BY <2>1 DEF InOrder, Places, StepDone, SweepDone, Kept, Mu!NoSweep, Mu!HeadFinalKey, Mu!FoundObject,
                  Mu!AbortThen, Mu!Own, Mu!Free, Mu!Held, Mu!Goto, Mu!End, Mu!Closed, Mu!Fault
    <2>5. Found(s)'
      BY <2>1 DEF InOrder, Places, SessionEntries, NotBegun, StepDone, Found, Issuing, Completing, Mu!HeadFinalKey,
                  Mu!FoundObject, Mu!AbortThen, Mu!Own, Mu!Free, Mu!Held, Mu!Goto, Mu!End, Mu!Closed,
                  Mu!Fault
    <2> QED BY <2>2, <2>3, <2>4, <2>5 DEF InOrder
  <1> QED BY <1>1, <1>2, <1>3, SessionMoves

LEMMA ListPartsKeeps == ASSUME UploadInv, Mu!KeysAndSessions, NEW s \in Sessions, Mu!ListParts(s) PROVE UploadInv'
  <1>1. Places'
    BY DEF UploadInv, Places, SweepSteps, Mu!ListParts, Mu!UploadIsGone, Mu!FoundObject, Mu!AbortThen,
           Mu!Own, Mu!Free, Mu!Held, Mu!Goto, Mu!End, Mu!Closed, Mu!Fault
  <1>2. \A t \in Sessions \ {s} : LeftAlone(t)
    BY DEF UploadInv, Places, LeftAlone, Mu!NoSweep, Mu!ListParts, Mu!UploadIsGone, Mu!FoundObject,
           Mu!AbortThen, Mu!Own, Mu!Free, Mu!Held, Mu!Goto, Mu!End, Mu!Closed, Mu!Fault
  <1>3. InOrder(s)'
    <2>1. InOrder(s) /\ Places
      BY DEF UploadInv
    <2>2. SessionEntries(s)' /\ NotBegun(s)'
      BY <2>1 DEF InOrder, Places, SessionEntries, NotBegun, Issuing, Completing, Mu!NoSweep, Mu!ListParts,
                  Mu!UploadIsGone, Mu!FoundObject, Mu!AbortThen, Mu!Own, Mu!Free, Mu!Held, Mu!Goto, Mu!End,
                  Mu!Closed, Mu!Fault
    <2>3. StepDone(s)'
      BY <2>1 DEF InOrder, Places, SessionEntries, NotBegun, StepDone, Found, Kept, Issuing, Completing, Behind,
                  Mu!ListParts, Mu!UploadIsGone, Mu!FoundObject, Mu!AbortThen, Mu!Own, Mu!Free, Mu!Held,
                  Mu!Goto, Mu!End, Mu!Closed, Mu!Fault
    <2>4. SweepDone(s)'
      BY <2>1 DEF InOrder, Places, StepDone, SweepDone, Kept, Mu!NoSweep, Mu!ListParts, Mu!UploadIsGone,
                  Mu!FoundObject, Mu!AbortThen, Mu!Own, Mu!Free, Mu!Held, Mu!Goto, Mu!End, Mu!Closed,
                  Mu!Fault
    <2>5. Found(s)'
      BY <2>1 DEF InOrder, Places, SessionEntries, NotBegun, StepDone, Found, Issuing, Completing, Mu!ListParts,
                  Mu!UploadIsGone, Mu!FoundObject, Mu!AbortThen, Mu!Own, Mu!Free, Mu!Held, Mu!Goto, Mu!End,
                  Mu!Closed, Mu!Fault
    <2> QED BY <2>2, <2>3, <2>4, <2>5 DEF InOrder
  <1> QED BY <1>1, <1>2, <1>3, SessionMoves

LEMMA PreconditionFailedKeeps == ASSUME UploadInv, Mu!KeysAndSessions, NEW s \in Sessions, Mu!PreconditionFailed(s) PROVE UploadInv'
  <1>1. Places'
    BY DEF UploadInv, Places, SweepSteps, Mu!PreconditionFailed, Mu!AbortThen, Mu!Free, Mu!Goto, Mu!End,
           Mu!Closed, Mu!Fault
  <1>2. \A t \in Sessions \ {s} : LeftAlone(t)
    BY DEF UploadInv, Places, LeftAlone, Mu!NoSweep, Mu!PreconditionFailed, Mu!AbortThen, Mu!Free, Mu!Goto,
           Mu!End, Mu!Closed, Mu!Fault
  <1>3. InOrder(s)'
    <2>1. InOrder(s) /\ Places
      BY DEF UploadInv
    <2>2. SessionEntries(s)' /\ NotBegun(s)'
      BY <2>1 DEF InOrder, Places, SessionEntries, NotBegun, Issuing, Completing, Mu!NoSweep,
                  Mu!PreconditionFailed, Mu!AbortThen, Mu!Free, Mu!Goto, Mu!End, Mu!Closed, Mu!Fault
    <2>3. StepDone(s)'
      BY <2>1 DEF InOrder, Places, SessionEntries, NotBegun, StepDone, Found, Kept, Issuing, Completing, Behind,
                  Mu!PreconditionFailed, Mu!AbortThen, Mu!Free, Mu!Goto, Mu!End, Mu!Closed, Mu!Fault
    <2>4. SweepDone(s)'
      BY <2>1 DEF InOrder, Places, StepDone, SweepDone, Kept, Mu!NoSweep, Mu!PreconditionFailed,
                  Mu!AbortThen, Mu!Free, Mu!Goto, Mu!End, Mu!Closed, Mu!Fault
    <2>5. Found(s)'
      BY <2>1 DEF InOrder, Places, SessionEntries, NotBegun, StepDone, Found, Issuing, Completing,
                  Mu!PreconditionFailed, Mu!AbortThen, Mu!Free, Mu!Goto, Mu!End, Mu!Closed, Mu!Fault
    <2> QED BY <2>2, <2>3, <2>4, <2>5 DEF InOrder
  <1> QED BY <1>1, <1>2, <1>3, SessionMoves

LEMMA RecordKeeps == ASSUME UploadInv, Mu!KeysAndSessions, NEW s \in Sessions, Mu!Record(s) PROVE UploadInv'
  <1>1. Places'
    BY DEF UploadInv, InOrder, SessionEntries, NotBegun, Places, SweepSteps, Mu!Record, Mu!Registers, Mu!Goto, Mu!End, Mu!Fault
  <1>2. \A t \in Sessions \ {s} : LeftAlone(t)
    BY DEF UploadInv, Places, LeftAlone, Mu!NoSweep, Mu!Record, Mu!Registers, Mu!Goto, Mu!End, Mu!Fault
  <1>3. InOrder(s)'
    <2>1. InOrder(s) /\ Places
      BY DEF UploadInv
    <2>2. SessionEntries(s)' /\ NotBegun(s)'
      BY <2>1 DEF InOrder, Places, SessionEntries, NotBegun, Issuing, Completing, Mu!NoSweep, Mu!Record,
                  Mu!Registers, Mu!Goto, Mu!End, Mu!Fault
    <2>3. StepDone(s)'
      BY <2>1 DEF InOrder, Places, SessionEntries, NotBegun, StepDone, Found, Kept, Issuing, Completing, Behind,
                  Mu!Record, Mu!Registers, Mu!Goto, Mu!End, Mu!Fault
    <2>4. SweepDone(s)'
      BY <2>1 DEF InOrder, Places, StepDone, SweepDone, Kept, Mu!NoSweep, Mu!Record, Mu!Registers, Mu!Goto,
                  Mu!End, Mu!Fault
    <2>5. Found(s)'
      BY <2>1 DEF InOrder, Places, SessionEntries, NotBegun, StepDone, Found, Issuing, Completing, Mu!Record,
                  Mu!Registers, Mu!Goto, Mu!End, Mu!Fault
    <2> QED BY <2>2, <2>3, <2>4, <2>5 DEF InOrder
  <1> QED BY <1>1, <1>2, <1>3, SessionMoves

LEMMA RecordReferenceKeeps == ASSUME UploadInv, Mu!KeysAndSessions, NEW s \in Sessions, Mu!RecordReference(s) PROVE UploadInv'
  <1>1. Places'
    BY DEF UploadInv, Places, SweepSteps, Mu!RecordReference, Mu!Goto, Mu!End, Mu!Fault
  <1>2. \A t \in Sessions \ {s} : LeftAlone(t)
    BY DEF UploadInv, Places, LeftAlone, Mu!NoSweep, Mu!RecordReference, Mu!Goto, Mu!End, Mu!Fault
  <1>3. InOrder(s)'
    <2>1. InOrder(s) /\ Places
      BY DEF UploadInv
    <2>2. SessionEntries(s)' /\ NotBegun(s)'
      BY <2>1 DEF InOrder, Places, SessionEntries, NotBegun, Issuing, Completing, Mu!NoSweep, Mu!RecordReference,
                  Mu!Goto, Mu!End, Mu!Fault
    <2>3. StepDone(s)'
      BY <2>1 DEF InOrder, Places, SessionEntries, NotBegun, StepDone, Found, Kept, Issuing, Completing, Behind,
                  Mu!RecordReference, Mu!Goto, Mu!End, Mu!Fault
    <2>4. SweepDone(s)'
      BY <2>1 DEF InOrder, Places, StepDone, SweepDone, Kept, Mu!NoSweep, Mu!RecordReference, Mu!Goto,
                  Mu!End, Mu!Fault
    <2>5. Found(s)'
      BY <2>1 DEF InOrder, Places, SessionEntries, NotBegun, StepDone, Found, Issuing, Completing,
                  Mu!RecordReference, Mu!Goto, Mu!End, Mu!Fault
    <2> QED BY <2>2, <2>3, <2>4, <2>5 DEF InOrder
  <1> QED BY <1>1, <1>2, <1>3, SessionMoves

LEMMA WriteTombstoneKeeps == ASSUME UploadInv, Mu!KeysAndSessions, NEW s \in Sessions, Mu!WriteTombstone(s) PROVE UploadInv'
  <1>1. Places'
    BY DEF UploadInv, Places, SweepSteps, Mu!WriteTombstone, Mu!Goto, Mu!End, Mu!Fault
  <1>2. \A t \in Sessions \ {s} : LeftAlone(t)
    BY DEF UploadInv, Places, LeftAlone, Mu!NoSweep, Mu!WriteTombstone, Mu!Goto, Mu!End, Mu!Fault
  <1>3. InOrder(s)'
    <2>1. InOrder(s) /\ Places
      BY DEF UploadInv
    <2>2. SessionEntries(s)' /\ NotBegun(s)'
      BY <2>1 DEF InOrder, Places, SessionEntries, NotBegun, Issuing, Completing, Mu!NoSweep, Mu!WriteTombstone,
                  Mu!Goto, Mu!End, Mu!Fault
    <2>3. StepDone(s)'
      BY <2>1 DEF InOrder, Places, SessionEntries, NotBegun, StepDone, Found, Kept, Issuing, Completing, Behind,
                  Mu!WriteTombstone, Mu!Goto, Mu!End, Mu!Fault
    <2>4. SweepDone(s)'
      BY <2>1 DEF InOrder, Places, StepDone, SweepDone, Kept, Mu!NoSweep, Mu!WriteTombstone, Mu!Goto,
                  Mu!End, Mu!Fault
    <2>5. Found(s)'
      BY <2>1 DEF InOrder, Places, SessionEntries, NotBegun, StepDone, Found, Issuing, Completing,
                  Mu!WriteTombstone, Mu!Goto, Mu!End, Mu!Fault
    <2> QED BY <2>2, <2>3, <2>4, <2>5 DEF InOrder
  <1> QED BY <1>1, <1>2, <1>3, SessionMoves

LEMMA GiveUpKeeps == ASSUME UploadInv, Mu!KeysAndSessions, NEW s \in Sessions, Mu!GiveUp(s) PROVE UploadInv'
  <1>1. Places'
    BY DEF UploadInv, Places, SweepSteps, Mu!GiveUp, Mu!Usable, Mu!SweepLocks, Mu!AbortThen, Mu!Goto,
           Mu!End, Mu!Closed, Mu!Fault
  <1>2. \A t \in Sessions \ {s} : LeftAlone(t)
    BY DEF UploadInv, Places, LeftAlone, Mu!NoSweep, Mu!GiveUp, Mu!Usable, Mu!SweepLocks, Mu!AbortThen,
           Mu!Goto, Mu!End, Mu!Closed, Mu!Fault
  <1>3. InOrder(s)'
    <2>1. InOrder(s) /\ Places
      BY DEF UploadInv
    <2>2. SessionEntries(s)' /\ NotBegun(s)'
      BY <2>1 DEF InOrder, Places, SessionEntries, NotBegun, Issuing, Completing, Mu!NoSweep, Mu!GiveUp, Mu!Usable,
                  Mu!SweepLocks, Mu!AbortThen, Mu!Goto, Mu!End, Mu!Closed, Mu!Fault
    <2>3. StepDone(s)'
      BY <2>1 DEF InOrder, Places, SessionEntries, NotBegun, StepDone, Found, Kept, Issuing, Completing, Behind,
                  Mu!GiveUp, Mu!Usable, Mu!SweepLocks, Mu!AbortThen, Mu!Goto, Mu!End, Mu!Closed, Mu!Fault
    <2>4. SweepDone(s)'
      BY <2>1 DEF InOrder, Places, StepDone, SweepDone, Kept, Mu!NoSweep, Mu!GiveUp, Mu!Usable,
                  Mu!SweepLocks, Mu!AbortThen, Mu!Goto, Mu!End, Mu!Closed, Mu!Fault
    <2>5. Found(s)'
      BY <2>1 DEF InOrder, Places, SessionEntries, NotBegun, StepDone, Found, Issuing, Completing, Mu!GiveUp,
                  Mu!Usable, Mu!SweepLocks, Mu!AbortThen, Mu!Goto, Mu!End, Mu!Closed, Mu!Fault
    <2> QED BY <2>2, <2>3, <2>4, <2>5 DEF InOrder
  <1> QED BY <1>1, <1>2, <1>3, SessionMoves

LEMMA DiscardKeeps == ASSUME UploadInv, Mu!KeysAndSessions, NEW s \in Sessions, Mu!Discard(s) PROVE UploadInv'
  <1>1. Places'
    BY DEF UploadInv, Places, SweepSteps, Mu!Discard, Mu!RemoveDir, Mu!Own, Mu!Held, Mu!Goto, Mu!End
  <1>2. \A t \in Sessions \ {s} : LeftAlone(t)
    BY DEF UploadInv, Places, LeftAlone, Mu!NoSweep, Mu!Discard, Mu!RemoveDir, Mu!Own, Mu!Held, Mu!Goto,
           Mu!End
  <1>3. InOrder(s)'
    <2>1. InOrder(s) /\ Places
      BY DEF UploadInv
    <2>2. SessionEntries(s)' /\ NotBegun(s)'
      BY <2>1 DEF InOrder, Places, SessionEntries, NotBegun, Issuing, Completing, Mu!NoSweep, Mu!Discard,
                  Mu!RemoveDir, Mu!Own, Mu!Held, Mu!Goto, Mu!End
    <2>3. StepDone(s)'
      BY <2>1 DEF InOrder, Places, SessionEntries, NotBegun, StepDone, Kept, Found, Behind, Kept, Issuing, Completing, Behind,
                  Mu!Discard, Mu!RemoveDir, Mu!Own, Mu!Held, Mu!Goto, Mu!End
    <2>4. SweepDone(s)'
      BY <2>1 DEF InOrder, Places, StepDone, SweepDone, Kept, Mu!NoSweep, Mu!Discard, Mu!RemoveDir, Mu!Own,
                  Mu!Held, Mu!Goto, Mu!End
    <2>5. Found(s)'
      BY <2>1 DEF InOrder, Places, SessionEntries, NotBegun, StepDone, Kept, Found, Behind, Issuing, Completing, Mu!Discard,
                  Mu!RemoveDir, Mu!Own, Mu!Held, Mu!Goto, Mu!End
    <2> QED BY <2>2, <2>3, <2>4, <2>5 DEF InOrder
  <1> QED BY <1>1, <1>2, <1>3, SessionMoves

LEMMA LookAtAnchorKeeps == ASSUME UploadInv, Mu!KeysAndSessions, NEW s \in Sessions, Mu!LookAtAnchor(s) PROVE UploadInv'
  <1>1. Places'
    BY DEF UploadInv, Places, SweepSteps, Mu!LookAtAnchor, Mu!Sweeping
  <1>2. \A t \in Sessions \ {s} : LeftAlone(t)
    BY DEF UploadInv, Places, LeftAlone, Mu!NoSweep, Mu!LookAtAnchor, Mu!Sweeping
  <1>3. InOrder(s)'
    <2>1. InOrder(s) /\ Places
      BY DEF UploadInv
    <2>2. SessionEntries(s)' /\ NotBegun(s)'
      BY <2>1 DEF InOrder, Places, SessionEntries, NotBegun, Issuing, Completing, Mu!NoSweep, Mu!LookAtAnchor,
                  Mu!Sweeping
    <2>3. StepDone(s)'
      BY <2>1 DEF InOrder, Places, SessionEntries, NotBegun, StepDone, Found, Kept, Issuing, Completing, Behind,
                  Mu!LookAtAnchor, Mu!Sweeping
    <2>4. SweepDone(s)'
      BY <2>1 DEF InOrder, Places, StepDone, SweepDone, Kept, Mu!NoSweep, Mu!LookAtAnchor, Mu!Sweeping
    <2>5. Found(s)'
      BY <2>1 DEF InOrder, Places, SessionEntries, NotBegun, StepDone, Found, Issuing, Completing, Mu!LookAtAnchor,
                  Mu!Sweeping
    <2> QED BY <2>2, <2>3, <2>4, <2>5 DEF InOrder
  <1> QED BY <1>1, <1>2, <1>3, SessionMoves

LEMMA LookAtDirectoryKeeps == ASSUME UploadInv, Mu!KeysAndSessions, NEW s \in Sessions, Mu!LookAtDirectory(s) PROVE UploadInv'
  <1>1. Places'
    BY DEF UploadInv, Places, SweepSteps, Mu!LookAtDirectory, Mu!Sweeping
  <1>2. \A t \in Sessions \ {s} : LeftAlone(t)
    BY DEF UploadInv, Places, LeftAlone, Mu!NoSweep, Mu!LookAtDirectory, Mu!Sweeping
  <1>3. InOrder(s)'
    <2>1. InOrder(s) /\ Places
      BY DEF UploadInv
    <2>2. SessionEntries(s)' /\ NotBegun(s)'
      BY <2>1 DEF InOrder, Places, SessionEntries, NotBegun, Issuing, Completing, Mu!NoSweep, Mu!LookAtDirectory,
                  Mu!Sweeping
    <2>3. StepDone(s)'
      BY <2>1 DEF InOrder, Places, SessionEntries, NotBegun, StepDone, Found, Kept, Issuing, Completing, Behind,
                  Mu!LookAtDirectory, Mu!Sweeping
    <2>4. SweepDone(s)'
      BY <2>1 DEF InOrder, Places, StepDone, SweepDone, Kept, Mu!NoSweep, Mu!LookAtDirectory, Mu!Sweeping
    <2>5. Found(s)'
      BY <2>1 DEF InOrder, Places, SessionEntries, NotBegun, StepDone, Found, Issuing, Completing,
                  Mu!LookAtDirectory, Mu!Sweeping
    <2> QED BY <2>2, <2>3, <2>4, <2>5 DEF InOrder
  <1> QED BY <1>1, <1>2, <1>3, SessionMoves

LEMMA LookAtExpiredKeeps == ASSUME UploadInv, Mu!KeysAndSessions, NEW s \in Sessions, Mu!LookAtExpired(s) PROVE UploadInv'
  <1>1. Places'
    BY DEF UploadInv, Places, SweepSteps, Mu!LookAtExpired, Mu!Sweeping
  <1>2. \A t \in Sessions \ {s} : LeftAlone(t)
    BY DEF UploadInv, Places, LeftAlone, Mu!NoSweep, Mu!LookAtExpired, Mu!Sweeping
  <1>3. InOrder(s)'
    <2>1. InOrder(s) /\ Places
      BY DEF UploadInv
    <2>2. SessionEntries(s)' /\ NotBegun(s)'
      BY <2>1 DEF InOrder, Places, SessionEntries, NotBegun, Issuing, Completing, Mu!NoSweep, Mu!LookAtExpired,
                  Mu!Sweeping
    <2>3. StepDone(s)'
      BY <2>1 DEF InOrder, Places, SessionEntries, NotBegun, StepDone, Found, Kept, Issuing, Completing, Behind,
                  Mu!LookAtExpired, Mu!Sweeping
    <2>4. SweepDone(s)'
      BY <2>1 DEF InOrder, Places, StepDone, SweepDone, Kept, Mu!NoSweep, Mu!LookAtExpired, Mu!Sweeping
    <2>5. Found(s)'
      BY <2>1 DEF InOrder, Places, SessionEntries, NotBegun, StepDone, Found, Issuing, Completing,
                  Mu!LookAtExpired, Mu!Sweeping
    <2> QED BY <2>2, <2>3, <2>4, <2>5 DEF InOrder
  <1> QED BY <1>1, <1>2, <1>3, SessionMoves

(* An object is deleted or made at a session's key. *)
LEMMA ObjectAtKey ==
    ASSUME Places, NEW s \in Sessions, key[s] \in ObjectKeys, NEW x, x = Mu!NoObject \/ x.by = s,
           object' = [object EXCEPT ![key[s]] = x]
    PROVE  /\ DOMAIN object' = ObjectKeys /\ object'[key[s]] = x
           /\ \A k \in ObjectKeys : k # key[s] => object'[k] = object[k]
           /\ \A k \in ObjectKeys : object'[k] = Mu!NoObject \/ object'[k].by \in Sessions
  BY DEF Places, Mu!NoObject

LEMMA AssembleKeeps == ASSUME UploadInv, Mu!KeysAndSessions, NEW s \in Sessions, Mu!Assemble(s) PROVE UploadInv'
  <1>1. InOrder(s) /\ Places /\ key[s] \in ObjectKeys
    BY DEF UploadInv, InOrder, SessionEntries, NotBegun, Mu!Assemble
  <1>2. \/ object' = object
        \/ Mu!Assembled(s) /\ object' = [object EXCEPT ![key[s]] = [by |-> s, good |-> parts[s] = "good"]]
    BY DEF Mu!Assemble, Mu!Assembled, Mu!UploadIsGone, Mu!FoundObject, Mu!AbortThen, Mu!Own, Mu!Free,
           Mu!Held, Mu!Goto, Mu!End, Mu!Closed, Mu!Fault
  <1>3. /\ DOMAIN object' = ObjectKeys
        /\ \A k \in ObjectKeys : k # key[s] => object'[k] = object[k]
        /\ \A k \in ObjectKeys : object'[k] = Mu!NoObject \/ object'[k].by \in Sessions
        /\ object'[key[s]] \in {object[key[s]], [by |-> s, good |-> parts[s] = "good"]}
    BY <1>1, <1>2, ObjectAtKey DEF Places
  <1>4. Places'
    BY <1>1, <1>3 DEF Places, Mu!Assemble, Mu!Assembled, Mu!UploadIsGone, Mu!FoundObject, Mu!AbortThen, Mu!Own,
           Mu!Free, Mu!Held, Mu!Goto, Mu!End, Mu!Closed, Mu!Fault
  <1>5. \A t \in Sessions \ {s} : LeftAlone(t)
    BY <1>1, <1>3 DEF Places, LeftAlone, Mu!NoObject, Mu!KeysAndSessions, Mu!Assemble, Mu!Assembled, Mu!UploadIsGone,
           Mu!FoundObject, Mu!AbortThen, Mu!Own, Mu!Free, Mu!Held, Mu!Goto, Mu!End, Mu!Closed, Mu!Fault
  <1>6. InOrder(s)'
    <2>2. SessionEntries(s)' /\ NotBegun(s)'
      BY <1>1, <1>2, <1>3 DEF InOrder, Places, SessionEntries, NotBegun, Issuing, Completing, Mu!NoSweep, Mu!Assemble,
                  Mu!Assembled, Mu!UploadIsGone, Mu!FoundObject, Mu!AbortThen, Mu!Own, Mu!Free, Mu!Held,
                  Mu!Goto, Mu!End, Mu!Closed, Mu!Fault, Mu!NoObject, Mu!KeysAndSessions
    <2>3. StepDone(s)'
      BY <1>1, <1>2, <1>3 DEF InOrder, Places, SessionEntries, NotBegun, StepDone, SweepDone, Found, Kept, Issuing, Completing,
                  Behind, Mu!Assemble, Mu!Assembled, Mu!UploadIsGone, Mu!FoundObject, Mu!AbortThen, Mu!Own,
                  Mu!Free, Mu!Held, Mu!Goto, Mu!End, Mu!Closed, Mu!Fault, Mu!NoObject, Mu!KeysAndSessions
    <2>4. SweepDone(s)'
      BY <1>1, <1>2, <1>3 DEF InOrder, Places, StepDone, SweepDone, Kept, Mu!NoSweep, Mu!Assemble, Mu!Assembled,
                  Mu!UploadIsGone, Mu!FoundObject, Mu!AbortThen, Mu!Own, Mu!Free, Mu!Held, Mu!Goto, Mu!End,
                  Mu!Closed, Mu!Fault, Mu!NoObject, Mu!KeysAndSessions
    <2>5. Found(s)'
      BY <1>1, <1>2, <1>3 DEF InOrder, Places, SessionEntries, NotBegun, StepDone, SweepDone, Kept, Found, Issuing, Completing,
                  Mu!Assemble, Mu!Assembled, Mu!UploadIsGone, Mu!FoundObject, Mu!AbortThen, Mu!Own, Mu!Free,
                  Mu!Held, Mu!Goto, Mu!End, Mu!Closed, Mu!Fault, Mu!NoObject, Mu!KeysAndSessions
    <2> QED BY <2>2, <2>3, <2>4, <2>5 DEF InOrder
  <1> QED BY <1>4, <1>5, <1>6, SessionMoves

LEMMA VerifyFinalObjectKeeps == ASSUME UploadInv, Mu!KeysAndSessions, NEW s \in Sessions, Mu!VerifyFinalObject(s) PROVE UploadInv'
  <1>1. InOrder(s) /\ Places /\ key[s] \in ObjectKeys
    BY DEF UploadInv, InOrder, SessionEntries, NotBegun, Mu!VerifyFinalObject
  <1>2. \/ object' = object
        \/ Mu!Own(s) /\ object' = [object EXCEPT ![key[s]] = Mu!NoObject]
    BY DEF Mu!VerifyFinalObject, Mu!AbortThen, Mu!Own, Mu!Free, Mu!Held, Mu!Goto, Mu!End, Mu!Closed,
           Mu!Fault
  <1>3. /\ DOMAIN object' = ObjectKeys
        /\ \A k \in ObjectKeys : k # key[s] => object'[k] = object[k]
        /\ \A k \in ObjectKeys : object'[k] = Mu!NoObject \/ object'[k].by \in Sessions
        /\ object'[key[s]] \in {object[key[s]], Mu!NoObject}
    BY <1>1, <1>2, ObjectAtKey DEF Places
  <1>4. Places'
    BY <1>1, <1>3 DEF Places, Mu!VerifyFinalObject, Mu!AbortThen, Mu!Own, Mu!Free, Mu!Held, Mu!Goto, Mu!End, Mu!Closed,
           Mu!Fault
  <1>5. \A t \in Sessions \ {s} : LeftAlone(t)
    BY <1>1, <1>3 DEF Places, LeftAlone, Mu!NoObject, Mu!KeysAndSessions, Mu!VerifyFinalObject, Mu!AbortThen, Mu!Own,
           Mu!Free, Mu!Held, Mu!Goto, Mu!End, Mu!Closed, Mu!Fault
  <1>6. InOrder(s)'
    <2>2. SessionEntries(s)' /\ NotBegun(s)'
      BY <1>1, <1>2, <1>3 DEF InOrder, Places, SessionEntries, NotBegun, Issuing, Completing, Mu!NoSweep, Mu!VerifyFinalObject,
                  Mu!AbortThen, Mu!Own, Mu!Free, Mu!Held, Mu!Goto, Mu!End, Mu!Closed, Mu!Fault, Mu!NoObject,
                  Mu!KeysAndSessions
    <2>3. StepDone(s)'
      BY <1>1, <1>2, <1>3 DEF InOrder, Places, SessionEntries, NotBegun, StepDone, SweepDone, Found, Kept, Issuing, Completing,
                  Behind, Mu!VerifyFinalObject, Mu!AbortThen, Mu!Own, Mu!Free, Mu!Held, Mu!Goto, Mu!End,
                  Mu!Closed, Mu!Fault, Mu!NoObject, Mu!KeysAndSessions
    <2>4. SweepDone(s)'
      BY <1>1, <1>2, <1>3 DEF InOrder, Places, StepDone, SweepDone, Kept, Mu!NoSweep, Mu!VerifyFinalObject,
                  Mu!AbortThen, Mu!Own, Mu!Free, Mu!Held, Mu!Goto, Mu!End, Mu!Closed, Mu!Fault, Mu!NoObject,
                  Mu!KeysAndSessions
    <2>5. Found(s)'
      BY <1>1, <1>2, <1>3 DEF InOrder, Places, SessionEntries, NotBegun, StepDone, SweepDone, Kept, Found, Issuing, Completing,
                  Mu!VerifyFinalObject, Mu!AbortThen, Mu!Own, Mu!Free, Mu!Held, Mu!Goto, Mu!End, Mu!Closed,
                  Mu!Fault, Mu!NoObject, Mu!KeysAndSessions
    <2> QED BY <2>2, <2>3, <2>4, <2>5 DEF InOrder
  <1> QED BY <1>4, <1>5, <1>6, SessionMoves

LEMMA DeleteDuplicateKeeps == ASSUME UploadInv, Mu!KeysAndSessions, NEW s \in Sessions, Mu!DeleteDuplicate(s) PROVE UploadInv'
  <1>1. InOrder(s) /\ Places /\ key[s] \in ObjectKeys
    BY DEF UploadInv, InOrder, SessionEntries, NotBegun, Mu!DeleteDuplicate
  <1>2. \/ object' = object
        \/ Mu!Own(s) /\ object' = [object EXCEPT ![key[s]] = Mu!NoObject]
    BY DEF Mu!DeleteDuplicate, Mu!Redundant, Mu!Own, Mu!Held, Mu!Goto, Mu!End, Mu!Fault
  <1>3. /\ DOMAIN object' = ObjectKeys
        /\ \A k \in ObjectKeys : k # key[s] => object'[k] = object[k]
        /\ \A k \in ObjectKeys : object'[k] = Mu!NoObject \/ object'[k].by \in Sessions
        /\ object'[key[s]] \in {object[key[s]], Mu!NoObject}
    BY <1>1, <1>2, ObjectAtKey DEF Places
  <1>4. Places'
    BY <1>1, <1>3 DEF Places, Mu!DeleteDuplicate, Mu!Redundant, Mu!Own, Mu!Held, Mu!Goto, Mu!End, Mu!Fault
  <1>5. \A t \in Sessions \ {s} : LeftAlone(t)
    BY <1>1, <1>3 DEF Places, LeftAlone, Mu!NoObject, Mu!KeysAndSessions, Mu!DeleteDuplicate, Mu!Redundant, Mu!Own,
           Mu!Held, Mu!Goto, Mu!End, Mu!Fault
  <1>6. InOrder(s)'
    <2>2. SessionEntries(s)' /\ NotBegun(s)'
      BY <1>1, <1>2, <1>3 DEF InOrder, Places, SessionEntries, NotBegun, Issuing, Completing, Mu!NoSweep, Mu!DeleteDuplicate,
                  Mu!Redundant, Mu!Own, Mu!Held, Mu!Goto, Mu!End, Mu!Fault, Mu!NoObject, Mu!KeysAndSessions
    <2>3. StepDone(s)'
      BY <1>1, <1>2, <1>3 DEF InOrder, Places, SessionEntries, NotBegun, StepDone, SweepDone, Found, Kept, Issuing, Completing,
                  Behind, Mu!DeleteDuplicate, Mu!Redundant, Mu!Own, Mu!Held, Mu!Goto, Mu!End, Mu!Fault,
                  Mu!NoObject, Mu!KeysAndSessions
    <2>4. SweepDone(s)'
      BY <1>1, <1>2, <1>3 DEF InOrder, Places, StepDone, SweepDone, Kept, Mu!NoSweep, Mu!DeleteDuplicate, Mu!Redundant,
                  Mu!Own, Mu!Held, Mu!Goto, Mu!End, Mu!Fault, Mu!NoObject, Mu!KeysAndSessions
    <2>5. Found(s)'
      BY <1>1, <1>2, <1>3 DEF InOrder, Places, SessionEntries, NotBegun, StepDone, SweepDone, Kept, Found, Issuing, Completing,
                  Mu!DeleteDuplicate, Mu!Redundant, Mu!Own, Mu!Held, Mu!Goto, Mu!End, Mu!Fault, Mu!NoObject,
                  Mu!KeysAndSessions
    <2> QED BY <2>2, <2>3, <2>4, <2>5 DEF InOrder
  <1> QED BY <1>4, <1>5, <1>6, SessionMoves

LEMMA SweepAbortsKeeps == ASSUME UploadInv, Mu!KeysAndSessions, Mu!SweepAborts PROVE UploadInv'
  <1>1. PICK s \in Sessions : s = sweep.of
    BY DEF UploadInv, Places, Mu!NoSweep, Mu!SweepAborts
  <1>2. InOrder(s) /\ Places /\ key[s] \in ObjectKeys
    BY <1>1 DEF UploadInv, InOrder, SessionEntries, NotBegun, Mu!SweepAborts
  <1>4. Places'
    BY <1>1, <1>2 DEF Places, SweepSteps, Mu!SweepAborts, Mu!Closed, Mu!Sweeping, Mu!SweepOn, Mu!Fault
  <1>5. \A t \in Sessions \ {s} : LeftAlone(t)
    BY <1>1, <1>2 DEF Places, LeftAlone, Mu!NoSweep, Mu!KeysAndSessions, Mu!SweepAborts, Mu!Closed, Mu!Sweeping,
           Mu!SweepOn, Mu!Fault
  <1>6. InOrder(s)'
    <2>2. SessionEntries(s)' /\ NotBegun(s)'
      BY <1>1, <1>2 DEF InOrder, Places, SessionEntries, NotBegun, Issuing, Completing, Mu!NoSweep, Mu!SweepAborts,
                  Mu!Closed, Mu!Sweeping, Mu!SweepOn, Mu!Fault, Mu!NoObject, Mu!KeysAndSessions
    <2>3. StepDone(s)'
      BY <1>1, <1>2 DEF InOrder, Places, SessionEntries, NotBegun, StepDone, SweepDone, Found, Kept, Issuing, Completing,
                  Behind, Mu!SweepAborts, Mu!Closed, Mu!Sweeping, Mu!SweepOn, Mu!Fault, Mu!NoObject,
                  Mu!KeysAndSessions
    <2>4. SweepDone(s)'
      BY <1>1, <1>2 DEF InOrder, Places, StepDone, SweepDone, Kept, Mu!NoSweep, Mu!SweepAborts, Mu!Closed,
                  Mu!Sweeping, Mu!SweepOn, Mu!Fault, Mu!NoObject, Mu!KeysAndSessions
    <2>5. Found(s)'
      BY <1>1, <1>2 DEF InOrder, Places, SessionEntries, NotBegun, StepDone, SweepDone, Kept, Found, Issuing, Completing,
                  Mu!SweepAborts, Mu!Closed, Mu!Sweeping, Mu!SweepOn, Mu!Fault, Mu!NoObject,
                  Mu!KeysAndSessions
    <2> QED BY <2>2, <2>3, <2>4, <2>5 DEF InOrder
  <1> QED BY <1>4, <1>5, <1>6, SessionMoves

LEMMA SweepOrphanKeeps == ASSUME UploadInv, Mu!KeysAndSessions, Mu!SweepOrphan PROVE UploadInv'
  <1>1. PICK s \in Sessions : s = sweep.of
    BY DEF UploadInv, Places, Mu!NoSweep, Mu!SweepOrphan
  <1>2. InOrder(s) /\ Places /\ key[s] \in ObjectKeys
    BY <1>1 DEF UploadInv, InOrder, SessionEntries, NotBegun, Mu!SweepOrphan
  <1>4. Places'
    BY <1>1, <1>2 DEF Places, SweepSteps, Mu!SweepOrphan, Mu!SweepOn, Mu!Free, Mu!Held, Mu!RemoveDir, Mu!Fault
  <1>5. \A t \in Sessions \ {s} : LeftAlone(t)
    BY <1>1, <1>2 DEF Places, LeftAlone, Mu!NoSweep, Mu!KeysAndSessions, Mu!SweepOrphan, Mu!SweepOn, Mu!Free, Mu!Held,
           Mu!RemoveDir, Mu!Fault
  <1>6. InOrder(s)'
    <2>2. SessionEntries(s)' /\ NotBegun(s)'
      BY <1>1, <1>2 DEF InOrder, Places, SessionEntries, NotBegun, Issuing, Completing, Mu!NoSweep, Mu!SweepOrphan,
                  Mu!SweepOn, Mu!Free, Mu!Held, Mu!RemoveDir, Mu!Fault, Mu!NoObject, Mu!KeysAndSessions
    <2>3. StepDone(s)'
      BY <1>1, <1>2 DEF InOrder, Places, SessionEntries, NotBegun, StepDone, SweepDone, Found, Kept, Issuing, Completing,
                  Behind, Mu!SweepOrphan, Mu!SweepOn, Mu!Free, Mu!Held, Mu!RemoveDir, Mu!Fault, Mu!NoObject,
                  Mu!KeysAndSessions
    <2>4. SweepDone(s)'
      BY <1>1, <1>2 DEF InOrder, Places, StepDone, SweepDone, Kept, Mu!NoSweep, Mu!SweepOrphan, Mu!SweepOn,
                  Mu!Free, Mu!Held, Mu!RemoveDir, Mu!Fault, Mu!NoObject, Mu!KeysAndSessions
    <2>5. Found(s)'
      BY <1>1, <1>2 DEF InOrder, Places, SessionEntries, NotBegun, StepDone, SweepDone, Kept, Found, Issuing, Completing,
                  Mu!SweepOrphan, Mu!SweepOn, Mu!Free, Mu!Held, Mu!RemoveDir, Mu!Fault, Mu!NoObject,
                  Mu!KeysAndSessions
    <2> QED BY <2>2, <2>3, <2>4, <2>5 DEF InOrder
  <1> QED BY <1>4, <1>5, <1>6, SessionMoves

LEMMA SweepRemovesKeeps == ASSUME UploadInv, Mu!KeysAndSessions, Mu!SweepRemoves PROVE UploadInv'
  <1>1. PICK s \in Sessions : s = sweep.of
    BY DEF UploadInv, Places, Mu!NoSweep, Mu!SweepRemoves
  <1>2. InOrder(s) /\ Places /\ key[s] \in ObjectKeys
    BY <1>1 DEF UploadInv, InOrder, SessionEntries, NotBegun, Mu!SweepRemoves
  <1>4. Places'
    BY <1>1, <1>2 DEF Places, SweepSteps, Mu!SweepRemoves, Mu!SweepOn, Mu!RemoveDir
  <1>5. \A t \in Sessions \ {s} : LeftAlone(t)
    BY <1>1, <1>2 DEF Places, LeftAlone, Mu!NoSweep, Mu!KeysAndSessions, Mu!SweepRemoves, Mu!SweepOn, Mu!RemoveDir
  <1>6. InOrder(s)'
    <2>2. SessionEntries(s)' /\ NotBegun(s)'
      BY <1>1, <1>2 DEF InOrder, Places, SessionEntries, NotBegun, Issuing, Completing, Mu!NoSweep, Mu!SweepRemoves,
                  Mu!SweepOn, Mu!RemoveDir, Mu!NoObject, Mu!KeysAndSessions
    <2>3. StepDone(s)'
      BY <1>1, <1>2 DEF InOrder, Places, SessionEntries, NotBegun, StepDone, SweepDone, Found, Kept, Issuing, Completing,
                  Behind, Mu!SweepRemoves, Mu!SweepOn, Mu!RemoveDir, Mu!NoObject, Mu!KeysAndSessions
    <2>4. SweepDone(s)'
      BY <1>1, <1>2 DEF InOrder, Places, StepDone, SweepDone, Kept, Mu!NoSweep, Mu!SweepRemoves, Mu!SweepOn,
                  Mu!RemoveDir, Mu!NoObject, Mu!KeysAndSessions
    <2>5. Found(s)'
      BY <1>1, <1>2 DEF InOrder, Places, SessionEntries, NotBegun, StepDone, SweepDone, Kept, Found, Issuing, Completing,
                  Mu!SweepRemoves, Mu!SweepOn, Mu!RemoveDir, Mu!NoObject, Mu!KeysAndSessions
    <2> QED BY <2>2, <2>3, <2>4, <2>5 DEF InOrder
  <1> QED BY <1>4, <1>5, <1>6, SessionMoves

LEMMA SweepDropsKeeps == ASSUME UploadInv, Mu!KeysAndSessions, Mu!SweepDrops PROVE UploadInv'
  <1>1. PICK s \in Sessions : s = sweep.of
    BY DEF UploadInv, Places, Mu!NoSweep, Mu!SweepDrops
  <1>2. InOrder(s) /\ Places /\ key[s] \in ObjectKeys
    BY <1>1 DEF UploadInv, InOrder, SessionEntries, NotBegun, Mu!SweepDrops
  <1>4. Places'
    BY <1>1, <1>2 DEF Places, SweepSteps, Mu!SweepDrops, Mu!SweepOn, Mu!RemoveDir, Mu!Own, Mu!Held
  <1>5. \A t \in Sessions \ {s} : LeftAlone(t)
    BY <1>1, <1>2 DEF Places, LeftAlone, Mu!NoSweep, Mu!KeysAndSessions, Mu!SweepDrops, Mu!SweepOn, Mu!RemoveDir,
           Mu!Own, Mu!Held
  <1>6. InOrder(s)'
    <2>2. SessionEntries(s)' /\ NotBegun(s)'
      BY <1>1, <1>2 DEF InOrder, Places, SessionEntries, NotBegun, Issuing, Completing, Mu!NoSweep, Mu!SweepDrops,
                  Mu!SweepOn, Mu!RemoveDir, Mu!Own, Mu!Held, Mu!NoObject, Mu!KeysAndSessions
    <2>3. StepDone(s)'
      BY <1>1, <1>2 DEF InOrder, Places, SessionEntries, NotBegun, StepDone, SweepDone, Found, Kept, Issuing, Completing,
                  Behind, Mu!SweepDrops, Mu!SweepOn, Mu!RemoveDir, Mu!Own, Mu!Held, Mu!NoObject,
                  Mu!KeysAndSessions
    <2>4. SweepDone(s)'
      BY <1>1, <1>2 DEF InOrder, Places, StepDone, SweepDone, Kept, Mu!NoSweep, Mu!SweepDrops, Mu!SweepOn,
                  Mu!RemoveDir, Mu!Own, Mu!Held, Mu!NoObject, Mu!KeysAndSessions
    <2>5. Found(s)'
      BY <1>1, <1>2 DEF InOrder, Places, SessionEntries, NotBegun, StepDone, SweepDone, Kept, Found, Issuing, Completing,
                  Mu!SweepDrops, Mu!SweepOn, Mu!RemoveDir, Mu!Own, Mu!Held, Mu!NoObject, Mu!KeysAndSessions
    <2> QED BY <2>2, <2>3, <2>4, <2>5 DEF InOrder
  <1> QED BY <1>4, <1>5, <1>6, SessionMoves

LEMMA SweepResolvesKeeps == ASSUME UploadInv, Mu!KeysAndSessions, Mu!SweepResolves PROVE UploadInv'
  <1>1. PICK s \in Sessions : s = sweep.of
    BY DEF UploadInv, Places, Mu!NoSweep, Mu!SweepResolves
  <1>2. InOrder(s) /\ Places /\ key[s] \in ObjectKeys
    BY <1>1 DEF UploadInv, InOrder, SessionEntries, NotBegun, Mu!SweepResolves
  <1>3. \/ object' = object
        \/ Mu!Own(s) /\ object' = [object EXCEPT ![key[s]] = Mu!NoObject]
    BY <1>1 DEF Mu!SweepResolves, Mu!Sweeping, Mu!SweepOn, Mu!Free, Mu!Own, Mu!Held, Mu!RowRefers, Mu!Fault
  <1>4. /\ DOMAIN object' = ObjectKeys
        /\ \A k \in ObjectKeys : k # key[s] => object'[k] = object[k]
        /\ \A k \in ObjectKeys : object'[k] = Mu!NoObject \/ object'[k].by \in Sessions
        /\ object'[key[s]] \in {object[key[s]], Mu!NoObject}
    BY <1>2, <1>3, ObjectAtKey DEF Places
  <1>5. Places'
    BY <1>1, <1>2, <1>4 DEF Places, SweepSteps, Mu!SweepResolves, Mu!Sweeping, Mu!SweepOn, Mu!Free, Mu!Own, Mu!Held,
           Mu!RowRefers, Mu!Fault
  <1>6. \A t \in Sessions \ {s} : LeftAlone(t)
    BY <1>1, <1>2, <1>4 DEF Places, LeftAlone, Mu!NoObject, Mu!NoSweep, Mu!KeysAndSessions, Mu!SweepResolves, Mu!Sweeping,
           Mu!SweepOn, Mu!Free, Mu!Own, Mu!Held, Mu!RowRefers, Mu!Fault
  <1>7. InOrder(s)'
    <2>2. SessionEntries(s)' /\ NotBegun(s)'
      BY <1>1, <1>2, <1>3, <1>4 DEF InOrder, Places, SessionEntries, NotBegun, Issuing, Completing, Mu!NoSweep, Mu!SweepResolves,
                  Mu!Sweeping, Mu!SweepOn, Mu!Free, Mu!Own, Mu!Held, Mu!RowRefers, Mu!Fault, Mu!NoObject,
                  Mu!KeysAndSessions
    <2>3. StepDone(s)'
      BY <1>1, <1>2, <1>3, <1>4 DEF InOrder, Places, SessionEntries, NotBegun, StepDone, SweepDone, Found, Kept, Issuing, Completing,
                  Behind, Mu!SweepResolves, Mu!Sweeping, Mu!SweepOn, Mu!Free, Mu!Own, Mu!Held, Mu!RowRefers,
                  Mu!Fault, Mu!NoObject, Mu!KeysAndSessions
    <2>4. SweepDone(s)'
      BY <1>1, <1>2, <1>3, <1>4 DEF InOrder, Places, StepDone, SweepDone, Found, Kept, Mu!NoSweep, Mu!SweepResolves,
                  Mu!Sweeping, Mu!SweepOn, Mu!Free, Mu!Own, Mu!Held, Mu!RowRefers, Mu!Fault, Mu!NoObject,
                  Mu!KeysAndSessions
    <2>5. Found(s)'
      BY <1>1, <1>2, <1>3, <1>4 DEF InOrder, Places, SessionEntries, NotBegun, StepDone, SweepDone, Kept, Found, Issuing, Completing,
                  Mu!SweepResolves, Mu!Sweeping, Mu!SweepOn, Mu!Free, Mu!Own, Mu!Held, Mu!RowRefers,
                  Mu!Fault, Mu!NoObject, Mu!KeysAndSessions
    <2> QED BY <2>2, <2>3, <2>4, <2>5 DEF InOrder
  <1> QED BY <1>5, <1>6, <1>7, SessionMoves

LEMMA UploadCrashKeeps == ASSUME UploadInv, Mu!KeysAndSessions, Mu!Crash PROVE UploadInv'
  <1>1. Places'
    BY DEF UploadInv, Places, Mu!Crash, Mu!SweepOn
  <1>2. ASSUME NEW s \in Sessions PROVE InOrder(s)'
    <2>1. InOrder(s) /\ job'[s] = "idle" /\ sweep'.of # s
      BY DEF UploadInv, Mu!Crash, Mu!SweepOn, Mu!NoSweep, Mu!KeysAndSessions
    <2>2. SessionEntries(s)' /\ NotBegun(s)' /\ SweepDone(s)'
      BY <2>1 DEF InOrder, SessionEntries, NotBegun, SweepDone, Mu!Crash
    <2>3. StepDone(s)' /\ Found(s)'
      BY <2>1 DEF InOrder, StepDone, Kept, Found, Issuing, Completing, Behind, Mu!Crash
    <2> QED BY <2>2, <2>3 DEF InOrder
  <1> QED BY <1>1, <1>2 DEF UploadInv

LEMMA UploadKeeps == ASSUME UploadInv, Mu!KeysAndSessions, [Mu!Next]_Mu!vars PROVE UploadInv'
  <1>1. CASE UNCHANGED Mu!vars
    <2>1. Places'
      BY <1>1 DEF UploadInv, Places, Mu!vars
    <2>2. \A s \in Sessions : LeftAlone(s)
      BY <1>1 DEF LeftAlone, Mu!vars
    <2> QED BY <2>1, <2>2, LeftAloneKeeps DEF UploadInv, Mu!KeysAndSessions
  <1>2. ASSUME NEW s \in Sessions,
               \/ Mu!Issue(s) \/ Mu!PartUrls(s) \/ Mu!UploadParts(s) \/ Mu!Expire(s)
               \/ Mu!Complete(s) \/ Mu!GiveUp(s) \/ Mu!Discard(s)
        PROVE  UploadInv'
    BY <1>2, CreateKeeps, WriteAnchorKeeps, MakeDirectoryKeeps, WriteManifestKeeps, UndoKeeps, RemoveAnchorKeeps,
       PartUrlsKeeps, UploadPartsKeeps, ExpireKeeps, CompleteStartsKeeps, HeadFinalKeyKeeps, ListPartsKeeps,
       AssembleKeeps, PreconditionFailedKeeps, VerifyFinalObjectKeeps, RecordKeeps, DeleteDuplicateKeeps,
       RecordReferenceKeeps, WriteTombstoneKeeps, GiveUpKeeps, DiscardKeeps DEF Mu!Issue, Mu!Complete
  <1>3. CASE Mu!Sweep
    BY <1>3, LookAtAnchorKeeps, LookAtDirectoryKeeps, LookAtExpiredKeeps, SweepAbortsKeeps, SweepOrphanKeeps,
       SweepResolvesKeeps, SweepRemovesKeeps, SweepDropsKeeps DEF Mu!Sweep
  <1> QED BY <1>1, <1>2, <1>3, UploadCrashKeeps DEF Mu!Next

(* For any number of sessions and keys, nothing is left in the bucket that   *)
(* nobody can find again, whether or not the bucket honours If-None-Match:   *)
(* an open multipart upload has its anchor, its manifest or the request that *)
(* creates it, and an object has a row or the session that may still record  *)
(* or delete it, whatever fails or crashes and however the sweep and the     *)
(* requests interleave, but for the named windows                            *)
(* (request_chunked_upload_token.rs, chunked_upload.rs sweep_s3_anchors).    *)
THEOREM NothingLostInTheBucket ==
    ASSUME Mu!KeysAndSessions
    PROVE  Mu!Spec => []Mu!BucketIsAccountedFor
  <1>1. UploadInv => Mu!BucketIsAccountedFor
    BY DEF UploadInv, InOrder, Found, Places, Mu!BucketIsAccountedFor
  <1> QED BY <1>1, UploadBegins, UploadKeeps, PTL DEF Mu!Spec

(* What the file rows lead to.  The content's object is of the session that   *)
(* registered it, and that session has its row: hence nobody deletes it as   *)
(* his own duplicate or as an object without a row.                          *)
Backed == registered # "none" => object[registered].good /\ rows[object[registered].by] = registered

(* Before its row a session has none; from its verification on, the object   *)
(* at its key is its own, and then the content.                              *)
Sound(s) ==
    /\ job[s] \in Completing => rows[s] = "none"
    /\ job[s] \in {"verify", "recheck", "record"} => object[key[s]].by = s
    /\ job[s] = "record" => object[key[s]].good

SoundInv == Backed /\ \A s \in Sessions : Sound(s)

(* What a step of session s may do to the objects, given that it is sound. *)
Spares(s) ==
    \A k \in ObjectKeys : \/ object'[k] = object[k]
                          \/ object[k] = Mu!NoObject
                          \/ object[k].by = s /\ k # registered

LEMMA SoundMoves ==
    ASSUME UploadInv, Mu!KeysAndSessions, SoundInv, NEW s \in Sessions, Spares(s), Backed', Sound(s)',
           \A t \in Sessions \ {s} : job'[t] = job[t] /\ key'[t] = key[t] /\ rows'[t] = rows[t]
    PROVE  SoundInv'
  <1> SUFFICES ASSUME NEW t \in Sessions \ {s} PROVE Sound(t)'
    BY DEF SoundInv
  <1>1. Sound(t) /\ (job[t] \in Completing => key[t] \in ObjectKeys)
    BY DEF SoundInv, UploadInv, InOrder, SessionEntries, NotBegun, Completing
  <1>2. ASSUME job[t] \in {"verify", "recheck", "record"} PROVE object'[key[t]] = object[key[t]]
    BY <1>1, <1>2 DEF Sound, Spares, Completing, Mu!NoObject, Mu!KeysAndSessions
  <1> QED BY <1>1, <1>2 DEF Sound

LEMMA QuietMoves ==
    ASSUME UploadInv, Mu!KeysAndSessions, SoundInv, NEW s \in Sessions, Sound(s)',
           UNCHANGED <<object, rows, registered>>,
           \A t \in Sessions \ {s} : job'[t] = job[t] /\ key'[t] = key[t]
    PROVE  SoundInv'
  <1>1. Spares(s) /\ Backed'
    BY DEF Spares, SoundInv, Backed
  <1> QED BY <1>1, SoundMoves

(* Issuing a session, and the client's part in it. *)
LEMMA IssueIsSound ==
    ASSUME UploadInv, Mu!KeysAndSessions, SoundInv, NEW s \in Sessions,
           Mu!Issue(s) \/ Mu!PartUrls(s) \/ Mu!UploadParts(s) \/ Mu!Expire(s) \/ Mu!GiveUp(s) \/ Mu!Discard(s)
    PROVE  SoundInv'
  <1>1. /\ UNCHANGED <<object, rows, registered>>
        /\ \A t \in Sessions \ {s} : job'[t] = job[t] /\ key'[t] = key[t]
        /\ job'[s] \in Issuing \cup {"idle", "discard"} \/ (job'[s] = job[s] /\ key'[s] = key[s])
    BY DEF UploadInv, Places, Issuing, Mu!Issue, Mu!Create, Mu!FinalKey, Mu!WriteAnchor, Mu!MakeDirectory,
           Mu!WriteManifest, Mu!Undo, Mu!RemoveAnchor, Mu!PartUrls, Mu!UploadParts, Mu!Expire, Mu!GiveUp, Mu!AbortThen,
           Mu!Usable, Mu!Discard, Mu!Goto, Mu!End
  <1>2. Sound(s)'
    BY <1>1 DEF SoundInv, Sound, Issuing, Completing
  <1> QED BY <1>1, <1>2, QuietMoves

(* files/complete up to the verification. *)
LEMMA LookingIsSound ==
    ASSUME UploadInv, Mu!KeysAndSessions, SoundInv, NEW s \in Sessions,
           \/ Mu!CompleteStarts(s) \/ Mu!HeadFinalKey(s) \/ Mu!ListParts(s) \/ Mu!PreconditionFailed(s)
           \/ Mu!WriteTombstone(s)
    PROVE  SoundInv'
  <1>1. /\ UNCHANGED <<object, rows, registered>> /\ key' = key
        /\ \A t \in Sessions \ {s} : job'[t] = job[t]
    BY DEF UploadInv, Places, Mu!CompleteStarts, Mu!HeadFinalKey, Mu!ListParts, Mu!PreconditionFailed,
           Mu!WriteTombstone, Mu!UploadIsGone, Mu!FoundObject, Mu!AbortThen, Mu!Goto, Mu!End
  <1>2. Sound(s) /\ DOMAIN job = Sessions
    BY DEF SoundInv, UploadInv, Places
  <1>3. Sound(s)'
    BY <1>1, <1>2 DEF Sound, Completing, Mu!CompleteStarts, Mu!HeadFinalKey, Mu!ListParts, Mu!PreconditionFailed,
           Mu!WriteTombstone, Mu!UploadIsGone, Mu!FoundObject, Mu!AbortThen, Mu!Own, Mu!Held, Mu!Goto, Mu!End
  <1> QED BY <1>1, <1>3, QuietMoves

LEMMA AssembleIsSound ==
    ASSUME UploadInv, Mu!KeysAndSessions, SoundInv, NoClobber, NEW s \in Sessions, Mu!Assemble(s)
    PROVE  SoundInv'
  <1>1. Sound(s) /\ key[s] \in ObjectKeys /\ Places
    BY DEF SoundInv, UploadInv, InOrder, SessionEntries, NotBegun, Mu!Assemble
  <1>2. /\ UNCHANGED <<rows, registered>> /\ key' = key
        /\ \A t \in Sessions \ {s} : job'[t] = job[t]
    BY <1>1 DEF Places, Mu!Assemble, Mu!UploadIsGone, Mu!FoundObject, Mu!AbortThen, Mu!Goto, Mu!End
  <1>3. \/ object' = object
        \/ /\ object[key[s]] = Mu!NoObject
           /\ object' = [object EXCEPT ![key[s]] = [by |-> s, good |-> parts[s] = "good"]]
    BY DEF Mu!Assemble, Mu!Assembled, Mu!Free, Mu!Held
  <1>4. Spares(s) /\ Backed'
    BY <1>1, <1>2, <1>3 DEF Spares, SoundInv, Backed, Places, Mu!NoObject
  <1>5. Sound(s)'
    BY <1>1, <1>2, <1>3 DEF Sound, Places, Completing, Mu!Assemble, Mu!Assembled, Mu!UploadIsGone, Mu!FoundObject,
           Mu!AbortThen, Mu!Own, Mu!Held, Mu!Goto, Mu!End
  <1> QED BY <1>2, <1>4, <1>5, SoundMoves

(* Who deletes his own object does not delete the content's. *)
LEMMA DeletingIsSound ==
    ASSUME UploadInv, Mu!KeysAndSessions, SoundInv, NEW s \in Sessions, key[s] \in ObjectKeys,
           object' = object \/ (Mu!Own(s) /\ key[s] # registered /\ object' = [object EXCEPT ![key[s]] = Mu!NoObject]),
           UNCHANGED <<rows, registered, key>>, \A t \in Sessions \ {s} : job'[t] = job[t], Sound(s)'
    PROVE  SoundInv'
  <1>1. Spares(s) /\ Backed'
    BY DEF Spares, SoundInv, Backed, UploadInv, Places, Mu!Own, Mu!Held
  <1> QED BY <1>1, SoundMoves

LEMMA VerifyingIsSound ==
    ASSUME UploadInv, Mu!KeysAndSessions, SoundInv, NEW s \in Sessions,
           Mu!VerifyFinalObject(s) \/ Mu!DeleteDuplicate(s)
    PROVE  SoundInv'
  <1>1. Sound(s) /\ key[s] \in ObjectKeys /\ Places
    BY DEF SoundInv, UploadInv, InOrder, SessionEntries, NotBegun, Mu!VerifyFinalObject, Mu!DeleteDuplicate
  <1>2. /\ UNCHANGED <<rows, registered, key>>
        /\ \A t \in Sessions \ {s} : job'[t] = job[t]
    BY <1>1 DEF Places, Mu!VerifyFinalObject, Mu!DeleteDuplicate, Mu!AbortThen, Mu!Goto, Mu!End
  <1>3. \/ object' = object
        \/ Mu!Own(s) /\ key[s] # registered /\ object' = [object EXCEPT ![key[s]] = Mu!NoObject]
    BY <1>1 DEF SoundInv, Backed, Sound, Completing, Mu!VerifyFinalObject, Mu!DeleteDuplicate, Mu!Redundant, Mu!Own,
           Mu!Held, Mu!KeysAndSessions
  <1>4. Sound(s)'
    BY <1>1, <1>2 DEF Sound, Places, Completing, Mu!VerifyFinalObject, Mu!DeleteDuplicate, Mu!AbortThen, Mu!Held,
           Mu!Goto, Mu!End
  <1> QED BY <1>1, <1>2, <1>3, <1>4, DeletingIsSound

LEMMA RecordingIsSound ==
    ASSUME UploadInv, Mu!KeysAndSessions, SoundInv, NEW s \in Sessions, Mu!Record(s) \/ Mu!RecordReference(s)
    PROVE  SoundInv'
  <1>1. Sound(s) /\ key[s] \in ObjectKeys /\ Places /\ DOMAIN rows = Sessions
    BY DEF SoundInv, UploadInv, InOrder, SessionEntries, NotBegun, Places, Mu!Record, Mu!RecordReference
  <1>2. /\ UNCHANGED <<object, key>>
        /\ \A t \in Sessions \ {s} : job'[t] = job[t] /\ rows'[t] = rows[t]
    BY <1>1 DEF Places, Mu!Record, Mu!RecordReference, Mu!Goto, Mu!End
  <1>3. Spares(s)
    BY <1>2 DEF Spares
  <1>4. Sound(s)'
    BY <1>1, <1>2 DEF Sound, Places, Completing, Mu!Record, Mu!RecordReference, Mu!Goto, Mu!End
  <1>5. Backed'
    <2>1. CASE Mu!Record(s) /\ registered' # registered
      <3>1. registered' = key[s] /\ rows'[s] = key[s] /\ object[key[s]].by = s /\ object[key[s]].good
        BY <2>1, <1>1 DEF Mu!Record, Mu!Registers, Sound
      <3> QED BY <3>1, <1>2 DEF Backed
    <2>2. CASE registered' = registered /\ registered # "none"
      <3>1. rows'[s] \in {rows[s], registered}
        BY <2>2, <1>1 DEF Mu!Record, Mu!Registers, Mu!RecordReference
      <3>2. object[registered].by \in Sessions
        BY <2>2, <1>1 DEF SoundInv, Backed, Places, Mu!NoObject
      <3> QED BY <2>2, <3>1, <3>2, <1>2 DEF SoundInv, Backed
    <2> QED BY <2>1, <2>2 DEF Backed, Mu!RecordReference
  <1> QED BY <1>2, <1>3, <1>4, <1>5, SoundMoves

LEMMA SweepIsSound ==
    ASSUME UploadInv, Mu!KeysAndSessions, SoundInv, Mu!Sweep
    PROVE  SoundInv'
  <1>1. UNCHANGED <<rows, registered, key, job>>
    BY DEF Mu!Sweep, Mu!LookAtAnchor, Mu!LookAtDirectory, Mu!LookAtExpired, Mu!SweepAborts, Mu!SweepOrphan,
           Mu!SweepResolves, Mu!SweepRemoves, Mu!SweepDrops
  <1>2. CASE Mu!SweepResolves
    <2>1. PICK s \in Sessions : s = sweep.of
      BY <1>2 DEF UploadInv, Places, Mu!NoSweep, Mu!SweepResolves
    <2>2. key[s] \in ObjectKeys /\ Sound(s) /\ job[s] \in {"idle", "unanchor"}
      BY <2>1, <1>2 DEF SoundInv, UploadInv, InOrder, SessionEntries, NotBegun, SweepDone, Mu!SweepResolves
    <2>3. \/ object' = object
          \/ Mu!Own(s) /\ key[s] # registered /\ object' = [object EXCEPT ![key[s]] = Mu!NoObject]
      BY <2>1, <2>2, <1>2 DEF SoundInv, Backed, Mu!SweepResolves, Mu!Own, Mu!Held, Mu!RowRefers, Mu!KeysAndSessions
    <2>4. Sound(s)'
      BY <2>2, <1>1 DEF Sound, Completing
    <2> QED BY <2>2, <2>3, <2>4, <1>1, DeletingIsSound
  <1>3. CASE ~Mu!SweepResolves
    <2>1. object' = object
      BY <1>3 DEF Mu!Sweep, Mu!LookAtAnchor, Mu!LookAtDirectory, Mu!LookAtExpired, Mu!SweepAborts, Mu!SweepOrphan,
                  Mu!SweepRemoves, Mu!SweepDrops
    <2> QED BY <2>1, <1>1 DEF SoundInv, Backed, Sound
  <1> QED BY <1>2, <1>3

LEMMA SoundBegins == ASSUME Mu!Init PROVE SoundInv
  BY DEF Mu!Init, SoundInv, Backed, Sound, Completing

LEMMA SoundKeeps ==
    ASSUME UploadInv, Mu!KeysAndSessions, SoundInv, NoClobber, [Mu!Next]_Mu!vars
    PROVE  SoundInv'
  <1>1. CASE UNCHANGED Mu!vars
    BY <1>1 DEF SoundInv, Backed, Sound, Mu!vars
  <1>2. CASE Mu!Crash
    <2>1. \A s \in Sessions : job'[s] = "idle"
      BY <1>2 DEF Mu!Crash
    <2> QED BY <1>2, <2>1 DEF SoundInv, Backed, Sound, Completing, Mu!Crash
  <1>3. ASSUME NEW s \in Sessions, Mu!Complete(s) PROVE SoundInv'
    BY <1>3, LookingIsSound, AssembleIsSound, VerifyingIsSound, RecordingIsSound DEF Mu!Complete
  <1> QED BY <1>1, <1>2, <1>3, IssueIsSound, SweepIsSound DEF Mu!Next

(* For any number of sessions of one content under any keys, on a bucket     *)
(* that honours If-None-Match: the object that a file row's path names is in *)
(* the bucket and is the declared content, whatever other sessions, failing  *)
(* calls, crashes and the sweep do (upload_s3.rs record_and_finish,          *)
(* chunked_upload.rs s3_expired_session_ready).                              *)
THEOREM RowsLeadToObjects ==
    ASSUME Mu!KeysAndSessions, NoClobber
    PROVE  Mu!Spec => []Mu!ReferencedObjectExists
  <1>1. UploadInv /\ SoundInv => Mu!ReferencedObjectExists
    BY DEF UploadInv, InOrder, StepDone, SoundInv, Backed, Mu!ReferencedObjectExists
  <1> QED BY <1>1, UploadBegins, UploadKeeps, SoundBegins, SoundKeeps, PTL DEF Mu!Spec
=============================================================================
