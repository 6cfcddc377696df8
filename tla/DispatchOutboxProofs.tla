------------------------ MODULE DispatchOutboxProofs ------------------------
(***************************************************************************)
(* The delivery of committed events: the dispatch outbox for every set of  *)
(* events, users, nodes and tasks and every attempt budget, and then the   *)
(* routes of a cluster (ClusterRouting), from which its verdicts come, for *)
(* any number of processes, connections and routes.                        *)
(***************************************************************************)
EXTENDS DispatchOutbox, Sequences, FiniteSetTheorems, TLAPS

USE DEF rowVars, taskVars, sideVars

-----------------------------------------------------------------------------
(* Type correctness.                                                        *)

LEMMA InitTypeOK == Init => TypeOK
  BY OutboxAssumption DEF Init, TypeOK, ParentStates, RowStates, Resolutions

\* Claiming keeps attempts within the budget: only candidates are claimed.
LEMMA ClaimType ==
  ASSUME TypeOK, NEW S \in SUBSET Rows, \A r \in S : Candidate(r), ClaimRows(S)
  PROVE  /\ status' \in [Events -> ParentStates]
         /\ st' \in [Rows -> RowStates]
         /\ att' \in [Rows -> 0..MaxAttempts]
         /\ lease' \in [Rows -> {"none", "live", "expired"}]
         /\ tok' \in [Rows -> Nat]
         /\ due' \in [Rows -> BOOLEAN]
         /\ nextTok' \in Nat \ {0}
  <1> USE OutboxAssumption DEF TypeOK, ClaimRows
  <1>1. att' \in [Rows -> 0..MaxAttempts]
    BY DEF Candidate
  <1>2. tok' \in [Rows -> Nat]
    BY DEF FreshToken
  <1>3. nextTok' \in Nat \ {0}
    OBVIOUS
  <1>4. lease' \in [Rows -> {"none", "live", "expired"}]
    OBVIOUS
  <1> QED BY <1>1, <1>2, <1>3, <1>4

LEMMA TakeType ==
  ASSUME TypeOK, NEW t \in Tasks, NEW S \in SUBSET Rows,
         \A r \in S : Candidate(r), TakeClaims(t, S)
  PROVE  /\ phase' \in [Tasks -> {"idle", "resolve", "reconcile"}]
         /\ held' \in [Tasks -> SUBSET Rows]
         /\ ctok' \in [Tasks -> Nat]
         /\ catt' \in [Tasks -> [Rows -> 0..MaxAttempts]]
         /\ res' \in [Tasks -> [Rows -> Resolutions]]
  <1> USE OutboxAssumption DEF TypeOK, TakeClaims
  <1>1. [r \in Rows |-> IF r \in S THEN att[r] + 1 ELSE 0] \in [Rows -> 0..MaxAttempts]
    BY DEF Candidate
  <1>2. catt' \in [Tasks -> [Rows -> 0..MaxAttempts]]
    BY <1>1
  <1>3. [r \in Rows |-> "todo"] \in [Rows -> Resolutions]
    BY DEF Resolutions
  <1>4. res' \in [Tasks -> [Rows -> Resolutions]]
    BY <1>3
  <1> QED BY <1>2, <1>4

LEMMA ReleaseType ==
  ASSUME TypeOK, NEW t \in Tasks, Release(t)
  PROVE  /\ phase' \in [Tasks -> {"idle", "resolve", "reconcile"}]
         /\ held' \in [Tasks -> SUBSET Rows]
         /\ ctok' \in [Tasks -> Nat]
         /\ catt' \in [Tasks -> [Rows -> 0..MaxAttempts]]
         /\ res' \in [Tasks -> [Rows -> Resolutions]]
  <1> USE OutboxAssumption DEF TypeOK, Release
  <1>1. [r \in Rows |-> 0] \in [Rows -> 0..MaxAttempts]
    OBVIOUS
  <1>2. catt' \in [Tasks -> [Rows -> 0..MaxAttempts]]
    BY <1>1
  <1>3. [r \in Rows |-> "todo"] \in [Rows -> Resolutions]
    BY DEF Resolutions
  <1>4. res' \in [Tasks -> [Rows -> Resolutions]]
    BY <1>3
  <1> QED BY <1>2, <1>4

\* A batch of candidates consists of candidate rows.
LEMMA BatchOfCandidates ==
  ASSUME NEW C \in SUBSET Rows, \A r \in C : Candidate(r), NEW S \in Batches(C)
  PROVE  S \in SUBSET Rows /\ \A r \in S : Candidate(r)
  BY DEF Batches

LEMMA ResolveType ==
  ASSUME TypeOK, NEW t \in Tasks, NEW r \in Rows, NEW o \in Resolutions,
         Resolve(t, r, o)
  PROVE  res' \in [Tasks -> [Rows -> Resolutions]]
  <1>1. res[t] \in [Rows -> Resolutions]
    BY DEF TypeOK
  <1>2. [res[t] EXCEPT ![r] = o] \in [Rows -> Resolutions]
    BY <1>1
  <1> QED BY <1>2 DEF Resolve, TypeOK

LEMMA NextTypeOK == TypeOK /\ [Next]_vars => TypeOK'
  <1> SUFFICES ASSUME TypeOK, [Next]_vars PROVE TypeOK'
    OBVIOUS
  <1> USE OutboxAssumption
  <1>1. ASSUME NEW e \in Events, NEW n \in Nodes, Commit(e, n) PROVE TypeOK'
    BY <1>1 DEF Commit, TypeOK, ParentStates, RowStates
  <1>2. ASSUME NEW e \in Events, NEW n \in Nodes, DispatchEventNoPermit(n, e)
        PROVE TypeOK'
    BY <1>2 DEF DispatchEventNoPermit, TypeOK
  <1>3. ASSUME NEW t \in Tasks, ProcessOnce(t) PROVE TypeOK'
    <2>1. PICK S \in Batches({r \in Rows : Candidate(r)}) :
             ClaimRows(S) /\ TakeClaims(t, S)
      BY <1>3 DEF ProcessOnce
    <2>2. S \in SUBSET Rows /\ \A r \in S : Candidate(r)
      BY <2>1, BatchOfCandidates
    <2>3. UNCHANGED <<spawned, sideVars>>
      BY <1>3 DEF ProcessOnce
    <2> QED BY <2>1, <2>2, <2>3, ClaimType, TakeType DEF TypeOK
  <1>4. ASSUME NEW t \in Tasks, ClaimReplyLost(t) PROVE TypeOK'
    <2>1. PICK S \in Batches({r \in Rows : Candidate(r)}) : ClaimRows(S)
      BY <1>4 DEF ClaimReplyLost
    <2>2. S \in SUBSET Rows /\ \A r \in S : Candidate(r)
      BY <2>1, BatchOfCandidates
    <2>3. UNCHANGED <<spawned, taskVars, sideVars>>
      BY <1>4 DEF ClaimReplyLost
    <2> QED BY <2>1, <2>2, <2>3, ClaimType DEF TypeOK
  <1>5. ASSUME NEW t \in Tasks, NEW e \in Events, DispatchEvent(t, e) PROVE TypeOK'
    <2> DEFINE mine == {r \in Rows : r[1] = e /\ Candidate(r)}
    <2>1. spawned' \subseteq Nodes \X Events /\ UNCHANGED sideVars
      BY <1>5 DEF DispatchEvent, TypeOK
    <2>2. CASE \E S \in Batches(mine) : ClaimRows(S) /\ TakeClaims(t, S)
      <3>1. PICK S \in Batches(mine) : ClaimRows(S) /\ TakeClaims(t, S)
        BY <2>2
      <3>2. S \in SUBSET Rows /\ \A r \in S : Candidate(r)
        BY <3>1, BatchOfCandidates
      <3> QED BY <2>1, <3>1, <3>2, ClaimType, TakeType DEF TypeOK
    <2>3. CASE UNCHANGED <<rowVars, taskVars>>
      BY <2>1, <2>3 DEF TypeOK
    <2> QED BY <1>5, <2>2, <2>3 DEF DispatchEvent
  <1>6. ASSUME NEW t \in Tasks, NEW r \in Rows, RouteDelivered(t, r) PROVE TypeOK'
    <2>1. res' \in [Tasks -> [Rows -> Resolutions]]
      BY <1>6, ResolveType DEF RouteDelivered, Resolutions
    <2>2. delivered' \in [Rows -> Nat]
      BY <1>6 DEF RouteDelivered, TypeOK
    <2> QED BY <1>6, <2>1, <2>2 DEF RouteDelivered, TypeOK
  <1>7. ASSUME NEW t \in Tasks, NEW r \in Rows, RouteFailed(t, r) PROVE TypeOK'
    <2>1. res' \in [Tasks -> [Rows -> Resolutions]]
      BY <1>7, ResolveType DEF RouteFailed, Resolutions
    <2>2. delivered' \in [Rows -> Nat]
      <3>1. delivered' = delivered \/ delivered' = [delivered EXCEPT ![r] = @ + 1]
        BY <1>7 DEF RouteFailed
      <3> QED BY <3>1 DEF TypeOK
    <2> QED BY <1>7, <2>1, <2>2 DEF RouteFailed, TypeOK
  <1>8. ASSUME NEW t \in Tasks, NEW r \in Rows, RouteOffline(t, r) PROVE TypeOK'
    <2>1. res' \in [Tasks -> [Rows -> Resolutions]]
      BY <1>8, ResolveType DEF RouteOffline, Resolutions
    <2> QED BY <1>8, <2>1 DEF RouteOffline, TypeOK
  <1>9. ASSUME NEW t \in Tasks, NEW r \in Rows, RecordReceipt(t, r) PROVE TypeOK'
    <2>1. res' \in [Tasks -> [Rows -> Resolutions]]
      BY <1>9, ResolveType DEF RecordReceipt, Resolutions
    <2>2. receipt' \in [Events -> (Users \X Sessions) \cup {NoReceipt}]
      <3>1. r[1] \in Events /\ r[2] \in Users
        BY DEF Rows
      <3>2. ASSUME NEW s \in Sessions
            PROVE  ReceiptAfter(r[1], r[2], s)
                     \in [Events -> (Users \X Sessions) \cup {NoReceipt}]
        <4>1. <<r[2], s>> \in Users \X Sessions
          BY <3>1, <3>2
        <4> QED BY <3>1, <4>1 DEF ReceiptAfter, TypeOK
      <3> QED BY <1>9, <3>2 DEF RecordReceipt, TypeOK
    <2> QED BY <1>9, <2>1, <2>2 DEF RecordReceipt, TypeOK
  <1>10. ASSUME NEW t \in Tasks, NEW e \in Events, ResolveOfflineBatch(t, e)
         PROVE TypeOK'
    <2> DEFINE batch == {r \in held[t] : r[1] = e /\ res[t][r] = "candidate"}
               Put(o) == [r \in Rows |-> IF r \in batch THEN o ELSE res[t][r]]
    <2>3. \A o \in Resolutions : Put(o) \in [Rows -> Resolutions]
      BY DEF TypeOK
    <2>4. \E o \in Resolutions : res' = [res EXCEPT ![t] = Put(o)]
      BY <1>10 DEF ResolveOfflineBatch, Resolutions
    <2> HIDE DEF Put
    <2>1. res' \in [Tasks -> [Rows -> Resolutions]]
      BY <2>3, <2>4 DEF TypeOK
    <2>2. queued' \subseteq Rows
      BY <1>10 DEF ResolveOfflineBatch, TypeOK
    <2> QED BY <1>10, <2>1, <2>2 DEF ResolveOfflineBatch, TypeOK
  <1>11. ASSUME NEW t \in Tasks, Resolved(t), CompleteMany(t)
         PROVE  /\ st' \in [Rows -> RowStates]
                /\ due' \in [Rows -> BOOLEAN]
                /\ lease' \in [Rows -> {"none", "live", "expired"}]
                /\ UNCHANGED <<status, att, tok, nextTok>>
    <2>1. \A r \in Rows : r \in Owned(t) =>
             CompletionState(res[t][r], catt[t][r]) \in RowStates
      BY <1>11 DEF Resolved, Owned, CompletionState, RowStates, FinalResolutions, TypeOK
    <2> QED BY <1>11, <2>1 DEF CompleteMany, TypeOK
  <1>12. ASSUME NEW t \in Tasks, Complete(t) PROVE TypeOK'
    BY <1>11, <1>12 DEF Complete, TypeOK
  <1>13. ASSUME NEW t \in Tasks, CompleteFails(t) PROVE TypeOK'
    BY <1>11, <1>13, ReleaseType DEF CompleteFails, TypeOK
  <1>14. ASSUME NEW E, CloseParents(E) PROVE status' \in [Events -> ParentStates]
    BY <1>14 DEF CloseParents, ParentStatus, TypeOK, ParentStates
  <1>15. ASSUME NEW t \in Tasks, ReconcileEvents(t) PROVE TypeOK'
    BY <1>14, <1>15, ReleaseType DEF ReconcileEvents, TypeOK
  <1>16. ASSUME NEW t \in Tasks, ReconcileEventsFails(t) PROVE TypeOK'
    BY <1>16, ReleaseType DEF ReconcileEventsFails, TypeOK
  <1>17. ASSUME NEW t \in Tasks, ReconcileTerminalParents(t) PROVE TypeOK'
    BY <1>14, <1>17 DEF ReconcileTerminalParents, TypeOK
  <1>18. ASSUME NEW t \in Tasks, CleanupRetained(t) PROVE TypeOK'
    <2>1. PICK E \in Batches(Expired) :
         /\ status' = [e \in Events |-> IF e \in E THEN "deleted" ELSE status[e]]
         /\ st' = [r \in Rows |-> IF r[1] \in E THEN "absent" ELSE st[r]]
         /\ att' = [r \in Rows |-> IF r[1] \in E THEN 0 ELSE att[r]]
         /\ lease' = [r \in Rows |-> IF r[1] \in E THEN "none" ELSE lease[r]]
         /\ tok' = [r \in Rows |-> IF r[1] \in E THEN 0 ELSE tok[r]]
         /\ due' = [r \in Rows |-> IF r[1] \in E THEN TRUE ELSE due[r]]
      BY <1>18 DEF CleanupRetained
    <2>2. status' \in [Events -> ParentStates] /\ st' \in [Rows -> RowStates]
      BY <2>1 DEF TypeOK, ParentStates, RowStates
    <2>3. att' \in [Rows -> 0..MaxAttempts] /\ tok' \in [Rows -> Nat]
      BY <2>1 DEF TypeOK
    <2>4. /\ lease' \in [Rows -> {"none", "live", "expired"}]
          /\ due' \in [Rows -> BOOLEAN]
      BY <2>1 DEF TypeOK
    <2> QED BY <1>18, <2>2, <2>3, <2>4 DEF CleanupRetained, TypeOK
  <1>19. ASSUME NEW r \in Rows, LeaseExpires(r) PROVE TypeOK'
    BY <1>19 DEF LeaseExpires, TypeOK
  <1>20. ASSUME NEW r \in Rows, BackoffElapses(r) PROVE TypeOK'
    BY <1>20 DEF BackoffElapses, TypeOK
  <1>21. ASSUME NEW n \in Nodes, Crash(n) PROVE TypeOK'
    <2>1. [r \in Rows |-> 0] \in [Rows -> 0..MaxAttempts]
      OBVIOUS
    <2>2. [r \in Rows |-> "todo"] \in [Rows -> Resolutions]
      BY DEF Resolutions
    <2>3. catt' \in [Tasks -> [Rows -> 0..MaxAttempts]]
      BY <1>21, <2>1 DEF Crash, TypeOK
    <2>4. res' \in [Tasks -> [Rows -> Resolutions]]
      BY <1>21, <2>2 DEF Crash, TypeOK
    <2> QED BY <1>21, <2>3, <2>4 DEF Crash, TypeOK
  <1>22. CASE UNCHANGED vars
    BY <1>22 DEF vars, TypeOK
  <1> QED
    BY <1>1, <1>2, <1>3, <1>4, <1>5, <1>6, <1>7, <1>8, <1>9, <1>10, <1>12, <1>13,
       <1>15, <1>16, <1>17, <1>18, <1>19, <1>20, <1>21, <1>22 DEF Next, TaskStep

\* Every reachable state is well typed; in particular no recipient row is
\* ever claimed more often than MAX_ATTEMPTS (claim's `attempts < $1`).
THEOREM TypeCorrect == Spec => []TypeOK
  BY InitTypeOK, NextTypeOK, PTL DEF Spec

-----------------------------------------------------------------------------
(* Fencing.                                                                 *)

LEMMA InitToken == Init => TokenDiscipline
  BY DEF Init, TokenDiscipline

LEMMA NextToken == TypeOK /\ TokenDiscipline /\ [Next]_vars => TokenDiscipline'
  <1> SUFFICES ASSUME TypeOK, TokenDiscipline, [Next]_vars PROVE TokenDiscipline'
    OBVIOUS
  <1> USE OutboxAssumption
  <1>1. ASSUME UNCHANGED <<tok, nextTok, held, ctok, catt, att>> PROVE TokenDiscipline'
    BY <1>1 DEF TokenDiscipline
  <1>2. ASSUME NEW t \in Tasks, NEW S \in SUBSET Rows, S # {},
               ClaimRows(S), TakeClaims(t, S)
        PROVE  TokenDiscipline'
    <2>1. \A r \in Rows : tok'[r] < nextTok'
      BY <1>2 DEF ClaimRows, FreshToken, TokenDiscipline, TypeOK
    <2>2. \A t1 \in Tasks : held'[t1] # {} => 1 <= ctok'[t1] /\ ctok'[t1] < nextTok'
      BY <1>2 DEF ClaimRows, TakeClaims, TokenDiscipline, TypeOK
    <2>3. ASSUME NEW t1 \in Tasks, NEW r \in held'[t1], tok'[r] = ctok'[t1]
          PROVE  catt'[t1][r] = att'[r]
      <3>1. CASE t1 = t
        BY <1>2, <2>3, <3>1 DEF ClaimRows, TakeClaims, TypeOK
      <3>2. CASE t1 # t
        <4>1. held'[t1] = held[t1] /\ ctok'[t1] = ctok[t1] /\ catt'[t1] = catt[t1]
          BY <1>2, <3>2 DEF TakeClaims, TypeOK
        <4>2. ctok[t1] < nextTok /\ r \in Rows
          BY <2>3, <4>1 DEF TokenDiscipline, TypeOK
        <4>3. r \notin S
          BY <1>2, <2>3, <4>1, <4>2 DEF ClaimRows, FreshToken, TypeOK
        <4> QED BY <1>2, <2>3, <4>1, <4>2, <4>3 DEF ClaimRows, TokenDiscipline, TypeOK
      <3> QED BY <3>1, <3>2
    <2>4. ASSUME NEW t1 \in Tasks, NEW t2 \in Tasks, t1 # t2,
                 held'[t1] # {}, held'[t2] # {}
          PROVE  ctok'[t1] # ctok'[t2]
      <3>1. \A t3 \in Tasks : IF t3 = t THEN ctok'[t3] = nextTok
                               ELSE ctok'[t3] = ctok[t3] /\ held'[t3] = held[t3]
        BY <1>2 DEF TakeClaims, TypeOK
      <3>2. ASSUME NEW t3 \in Tasks, held[t3] # {} PROVE ctok[t3] # nextTok
        <4>1. ctok[t3] < nextTok /\ ctok[t3] \in Nat /\ nextTok \in Nat
          BY <3>2 DEF TokenDiscipline, TypeOK
        <4> QED BY <4>1
      <3> QED BY <2>4, <3>1, <3>2 DEF TokenDiscipline
    <2> QED BY <2>1, <2>2, <2>3, <2>4 DEF TokenDiscipline
  <1>3. ASSUME NEW S \in SUBSET Rows, ClaimRows(S), UNCHANGED taskVars
        PROVE  TokenDiscipline'
    <2>1. \A r \in Rows : tok'[r] < nextTok'
      BY <1>3 DEF ClaimRows, FreshToken, TokenDiscipline, TypeOK
    <2>2. ASSUME NEW t1 \in Tasks, NEW r \in held[t1], tok'[r] = ctok[t1]
          PROVE  catt[t1][r] = att'[r]
      <3>1. r \in Rows /\ ctok[t1] < nextTok
        BY <2>2 DEF TokenDiscipline, TypeOK
      <3>2. r \notin S
        BY <1>3, <2>2, <3>1 DEF ClaimRows, FreshToken, TypeOK
      <3> QED BY <1>3, <2>2, <3>1, <3>2 DEF ClaimRows, TokenDiscipline, TypeOK
    <2>3. \A t1 \in Tasks : held[t1] # {} => 1 <= ctok[t1] /\ ctok[t1] < nextTok'
      BY <1>3 DEF ClaimRows, TokenDiscipline, TypeOK
    <2> QED BY <1>3, <2>1, <2>2, <2>3 DEF TokenDiscipline
  <1>4. ASSUME NEW D \in SUBSET Tasks, UNCHANGED <<tok, nextTok, att>>,
               \A t \in Tasks : IF t \in D THEN held'[t] = {}
                                 ELSE /\ held'[t] = held[t]
                                      /\ ctok'[t] = ctok[t]
                                      /\ catt'[t] = catt[t]
        PROVE  TokenDiscipline'
    BY <1>4 DEF TokenDiscipline
  <1>5. ASSUME NEW t \in Tasks, Release(t), UNCHANGED <<tok, nextTok, att>>
        PROVE  TokenDiscipline'
    <2>1. \A t1 \in Tasks : IF t1 \in {t} THEN held'[t1] = {}
                                 ELSE /\ held'[t1] = held[t1]
                                      /\ ctok'[t1] = ctok[t1]
                                      /\ catt'[t1] = catt[t1]
      BY <1>5 DEF Release, TypeOK
    <2> QED BY <1>4, <1>5, <2>1
  <1>6. ASSUME NEW t \in Tasks, ProcessOnce(t) PROVE TokenDiscipline'
    BY <1>2, <1>6 DEF ProcessOnce, Batches
  <1>7. ASSUME NEW t \in Tasks, ClaimReplyLost(t) PROVE TokenDiscipline'
    BY <1>3, <1>7 DEF ClaimReplyLost, Batches
  <1>8. ASSUME NEW t \in Tasks, NEW e \in Events, DispatchEvent(t, e)
        PROVE  TokenDiscipline'
    <2>1. CASE \E S \in Batches({r \in Rows : r[1] = e /\ Candidate(r)}) :
                 ClaimRows(S) /\ TakeClaims(t, S)
      BY <1>2, <2>1 DEF Batches
    <2>2. CASE UNCHANGED <<rowVars, taskVars>>
      BY <1>1, <2>2
    <2> QED BY <1>8, <2>1, <2>2 DEF DispatchEvent
  <1>9. ASSUME NEW t \in Tasks, CompleteFails(t) PROVE TokenDiscipline'
    BY <1>5, <1>9 DEF CompleteFails, CompleteMany
  <1>10. ASSUME NEW t \in Tasks, ReconcileEvents(t) \/ ReconcileEventsFails(t)
         PROVE  TokenDiscipline'
    BY <1>5, <1>10 DEF ReconcileEvents, ReconcileEventsFails
  <1>11. ASSUME NEW t \in Tasks, CleanupRetained(t) PROVE TokenDiscipline'
    <2>1. PICK E \in Batches(Expired) :
            /\ att' = [r \in Rows |-> IF r[1] \in E THEN 0 ELSE att[r]]
            /\ tok' = [r \in Rows |-> IF r[1] \in E THEN 0 ELSE tok[r]]
      BY <1>11 DEF CleanupRetained
    <2>2. UNCHANGED <<nextTok, held, ctok, catt>>
      BY <1>11 DEF CleanupRetained
    <2>3. \A r \in Rows : tok'[r] < nextTok
      BY <2>1 DEF TokenDiscipline, TypeOK
    <2>4. ASSUME NEW t1 \in Tasks, NEW r \in held[t1], tok'[r] = ctok[t1]
          PROVE  catt[t1][r] = att'[r]
      <3>1. r \in Rows /\ 1 <= ctok[t1]
        BY <2>4 DEF TokenDiscipline, TypeOK
      <3>2. ~(r[1] \in E)
        BY <2>1, <2>4, <3>1
      <3> QED BY <2>1, <2>4, <3>1, <3>2 DEF TokenDiscipline
    <2> QED BY <2>2, <2>3, <2>4 DEF TokenDiscipline
  <1>12. ASSUME NEW n \in Nodes, Crash(n) PROVE TokenDiscipline'
    <2> DEFINE D == {t \in Tasks : NodeOf[t] = n}
    <2>1. \A t \in Tasks : IF t \in D THEN held'[t] = {}
                             ELSE /\ held'[t] = held[t]
                                  /\ ctok'[t] = ctok[t]
                                  /\ catt'[t] = catt[t]
      BY <1>12 DEF Crash
    <2>2. UNCHANGED <<tok, nextTok, att>>
      BY <1>12 DEF Crash
    <2> HIDE DEF D
    <2>3. D \in SUBSET Tasks
      BY DEF D
    <2> QED BY <1>4, <2>1, <2>2, <2>3
  <1>13. ASSUME NEW e \in Events, NEW n \in Nodes,
                Commit(e, n) \/ DispatchEventNoPermit(n, e)
         PROVE  TokenDiscipline'
    BY <1>1, <1>13 DEF Commit, DispatchEventNoPermit
  <1>14. ASSUME NEW t \in Tasks, NEW r \in Rows,
                RouteDelivered(t, r) \/ RouteFailed(t, r) \/ RouteOffline(t, r)
                  \/ RecordReceipt(t, r)
         PROVE  TokenDiscipline'
    BY <1>1, <1>14 DEF RouteDelivered, RouteFailed, RouteOffline, RecordReceipt
  <1>15. ASSUME NEW t \in Tasks, NEW e \in Events, ResolveOfflineBatch(t, e)
         PROVE  TokenDiscipline'
    BY <1>1, <1>15 DEF ResolveOfflineBatch
  <1>16. ASSUME NEW t \in Tasks, Complete(t) \/ ReconcileTerminalParents(t)
         PROVE  TokenDiscipline'
    BY <1>1, <1>16 DEF Complete, CompleteMany, ReconcileTerminalParents
  <1>17. ASSUME NEW r \in Rows, LeaseExpires(r) \/ BackoffElapses(r)
         PROVE  TokenDiscipline'
    BY <1>1, <1>17 DEF LeaseExpires, BackoffElapses
  <1>18. CASE UNCHANGED vars
    BY <1>1, <1>18 DEF vars
  <1> QED
    BY <1>6, <1>7, <1>8, <1>9, <1>10, <1>11, <1>12, <1>13, <1>14, <1>15, <1>16,
       <1>17, <1>18 DEF Next, TaskStep

LEMMA TokensFence == TypeOK /\ TokenDiscipline => ClaimFencing
  BY DEF TypeOK, TokenDiscipline, ClaimFencing

\* complete_many's `state = 0 AND lease_token = token` condition is sound: at
\* most one task ever satisfies it for a row, and that task's claim is the
\* latest one.  Rests on every claim drawing a token of its own.
THEOREM Fencing == Spec => []ClaimFencing
  <1>1. Init => TypeOK /\ TokenDiscipline
    BY InitTypeOK, InitToken
  <1>2. TypeOK /\ TokenDiscipline /\ [Next]_vars => (TypeOK /\ TokenDiscipline)'
    BY NextTypeOK, NextToken
  <1> QED BY <1>1, <1>2, TokensFence, PTL DEF Spec

-----------------------------------------------------------------------------
(* Aggregation of recipients in the parent row.                             *)

LEMMA InitParents == Init => ParentAggregates
  BY DEF Init, ParentAggregates, Rows

\* A completion only writes pending rows, never to "absent".
LEMMA CompletionWritesPending ==
  ASSUME TypeOK, NEW t \in Tasks, Resolved(t), CompleteMany(t)
  PROVE  \A r \in Rows : /\ st'[r] # st[r] => st[r] = "pending"
                         /\ st'[r] = "absent" => st[r] = "absent"
  BY DEF TypeOK, Resolved, CompleteMany, Owned, CompletionState, FinalResolutions

LEMMA NextParents == TypeOK /\ ParentAggregates /\ [Next]_vars => ParentAggregates'
  <1> SUFFICES ASSUME TypeOK, ParentAggregates, [Next]_vars PROVE ParentAggregates'
    OBVIOUS
  <1> USE OutboxAssumption
  <1>0. \A e \in Events, u \in Users : <<e, u>> \in Rows
    BY DEF Rows
  <1>1. ASSUME UNCHANGED <<status, st>> PROVE ParentAggregates'
    BY <1>1 DEF ParentAggregates
  <1>2. ASSUME NEW e \in Events, NEW n \in Nodes, Commit(e, n) PROVE ParentAggregates'
    <2>1. PICK R \in Snapshots(e) :
            st' = [r \in Rows |-> IF r[1] = e /\ r[2] \in R THEN "pending" ELSE st[r]]
      BY <1>2 DEF Commit
    <2>2. \A e2 \in Events \ {e} : /\ status'[e2] = status[e2]
                                   /\ \A u \in Users : st'[<<e2, u>>] = st[<<e2, u>>]
      BY <1>0, <1>2, <2>1 DEF Commit, TypeOK
    <2>3. status'[e] = "pending"
      BY <1>2 DEF Commit, TypeOK
    <2> QED BY <2>2, <2>3 DEF ParentAggregates
  <1>3. ASSUME NEW t \in Tasks, Resolved(t), CompleteMany(t) PROVE ParentAggregates'
    <2>1. /\ UNCHANGED status
          /\ \A r \in Rows : /\ st'[r] # st[r] => st[r] = "pending"
                             /\ st'[r] = "absent" => st[r] = "absent"
      BY <1>3, CompletionWritesPending DEF CompleteMany
    <2>2. ASSUME NEW e \in Events, NEW u \in Users, st[<<e, u>>] # "pending"
          PROVE  st'[<<e, u>>] = st[<<e, u>>]
      <3>1. <<e, u>> \in Rows
        BY <1>0
      <3> QED BY <2>1, <2>2, <3>1
    <2>3. ASSUME NEW e \in Events, NEW u \in Users, status[e] # "pending"
          PROVE  st[<<e, u>>] # "pending"
      <3>1. status[e] \in {"none", "dispatched", "dead", "deleted"}
        BY <2>3 DEF TypeOK, ParentStates
      <3> QED BY <3>1 DEF ParentAggregates
    <2>4. \A e \in Events : status[e] # "pending" =>
             \A u \in Users : st'[<<e, u>>] = st[<<e, u>>]
      BY <2>2, <2>3
    <2> QED BY <2>1, <2>4 DEF ParentAggregates
  <1>4. ASSUME NEW E, CloseParents(E), UNCHANGED st PROVE ParentAggregates'
    <2> SUFFICES ASSUME NEW e \in Events
                 PROVE  /\ status'[e] = "dispatched" =>
                             \A u \in Users : st[<<e, u>>] \in {"absent", "online", "offline"}
                        /\ status'[e] = "dead" =>
                             /\ \A u \in Users : st[<<e, u>>] # "pending"
                             /\ \E u \in Users : st[<<e, u>>] = "dead"
                        /\ status'[e] \in {"none", "deleted"} =>
                             \A u \in Users : st[<<e, u>>] = "absent"
      BY <1>4 DEF ParentAggregates
    <2>1. CASE e \in E /\ Settled(e)
      <3>1. status'[e] = ParentStatus(e)
        BY <1>4, <2>1 DEF CloseParents
      <3>2. \A u \in Users : st[<<e, u>>] \in RowStates \ {"pending"}
        BY <1>0, <2>1 DEF Settled, TypeOK
      <3> QED BY <3>1, <3>2 DEF ParentStatus, RowStates
    <2>2. CASE ~(e \in E /\ Settled(e))
      <3>1. status'[e] = status[e]
        BY <1>4, <2>2 DEF CloseParents
      <3> QED BY <3>1 DEF ParentAggregates
    <2> QED BY <2>1, <2>2
  <1>5. ASSUME NEW t \in Tasks, CleanupRetained(t) PROVE ParentAggregates'
    <2>1. PICK E \in Batches(Expired) :
            /\ status' = [e \in Events |-> IF e \in E THEN "deleted" ELSE status[e]]
            /\ st' = [r \in Rows |-> IF r[1] \in E THEN "absent" ELSE st[r]]
      BY <1>5 DEF CleanupRetained
    <2>2. \A e \in Events : IF e \in E
             THEN status'[e] = "deleted" /\ \A u \in Users : st'[<<e, u>>] = "absent"
             ELSE status'[e] = status[e] /\ \A u \in Users : st'[<<e, u>>] = st[<<e, u>>]
      BY <1>0, <2>1
    <2> QED BY <2>2 DEF ParentAggregates
  <1>6. ASSUME NEW t \in Tasks, ProcessOnce(t) \/ ClaimReplyLost(t) PROVE ParentAggregates'
    BY <1>1, <1>6 DEF ProcessOnce, ClaimReplyLost, ClaimRows
  <1>7. ASSUME NEW t \in Tasks, NEW e \in Events, DispatchEvent(t, e)
        PROVE  ParentAggregates'
    BY <1>1, <1>7 DEF DispatchEvent, ClaimRows
  <1>8. ASSUME NEW t \in Tasks, Complete(t) \/ CompleteFails(t) PROVE ParentAggregates'
    BY <1>1, <1>3, <1>8 DEF Complete, CompleteFails
  <1>9. ASSUME NEW t \in Tasks,
               ReconcileEvents(t) \/ ReconcileEventsFails(t) \/ ReconcileTerminalParents(t)
        PROVE  ParentAggregates'
    BY <1>1, <1>4, <1>9 DEF ReconcileEvents, ReconcileEventsFails, ReconcileTerminalParents
  <1>10. ASSUME NEW t \in Tasks, NEW r \in Rows,
                RouteDelivered(t, r) \/ RouteFailed(t, r) \/ RouteOffline(t, r)
                  \/ RecordReceipt(t, r)
         PROVE  ParentAggregates'
    BY <1>1, <1>10 DEF RouteDelivered, RouteFailed, RouteOffline, RecordReceipt
  <1>11. ASSUME NEW t \in Tasks, NEW e \in Events, ResolveOfflineBatch(t, e)
         PROVE  ParentAggregates'
    BY <1>1, <1>11 DEF ResolveOfflineBatch
  <1>12. ASSUME NEW e \in Events, NEW n \in Nodes, DispatchEventNoPermit(n, e)
         PROVE  ParentAggregates'
    BY <1>1, <1>12 DEF DispatchEventNoPermit
  <1>13. ASSUME NEW r \in Rows, LeaseExpires(r) \/ BackoffElapses(r)
         PROVE  ParentAggregates'
    BY <1>1, <1>13 DEF LeaseExpires, BackoffElapses
  <1>14. ASSUME NEW n \in Nodes, Crash(n) PROVE ParentAggregates'
    BY <1>1, <1>14 DEF Crash
  <1>15. CASE UNCHANGED vars
    BY <1>1, <1>15 DEF vars
  <1> QED
    BY <1>2, <1>5, <1>6, <1>7, <1>8, <1>9, <1>10, <1>11, <1>12, <1>13, <1>14, <1>15
       DEF Next, TaskStep

\* The parent row summarises its recipients however reconcile_events and the
\* sweep interleave with completions: it closes only when nothing is pending,
\* as dead exactly when a recipient died.
THEOREM ParentAggregation == Spec => []ParentAggregates
  <1>1. Init => TypeOK /\ ParentAggregates
    BY InitTypeOK, InitParents
  <1>2. TypeOK /\ ParentAggregates /\ [Next]_vars => (TypeOK /\ ParentAggregates)'
    BY NextTypeOK, NextParents
  <1> QED BY <1>1, <1>2, PTL DEF Spec
-----------------------------------------------------------------------------
(* The attempt ledger: pushes against claimed attempts.                     *)

\* Sets of attempt numbers are finite, and counting is monotone.
LEMMA AttemptCount ==
  ASSUME NEW m \in Nat, NEW T \in SUBSET (1 .. m), NEW S \in SUBSET T
  PROVE  /\ Cardinality(S) \in Nat /\ Cardinality(T) \in Nat
         /\ Cardinality(S) <= Cardinality(T)
         /\ Cardinality(T) <= m
         /\ \A x \in T \ S : Cardinality(S) + 1 <= Cardinality(T)
  <1>1. IsFiniteSet(1 .. m) /\ Cardinality(1 .. m) = m
    BY FS_Interval
  <1>2. IsFiniteSet(T) /\ Cardinality(T) \in Nat /\ Cardinality(T) <= m
    BY <1>1, FS_Subset, FS_CardinalityType
  <1>3. IsFiniteSet(S) /\ Cardinality(S) \in Nat /\ Cardinality(S) <= Cardinality(T)
    BY <1>2, FS_Subset, FS_CardinalityType
  <1>4. ASSUME NEW x \in T \ S PROVE Cardinality(S) + 1 <= Cardinality(T)
    <2>1. S \cup {x} \in SUBSET T
      BY <1>4
    <2>2. Cardinality(S \cup {x}) <= Cardinality(T)
      BY <1>2, <2>1, FS_Subset
    <2>3. Cardinality(S \cup {x}) = Cardinality(S) + 1
      BY <1>3, <1>4, FS_AddElement
    <2> QED BY <2>2, <2>3
  <1> QED BY <1>2, <1>3, <1>4

\* A row no step pushes keeps its account when no spent attempt is unspent.
LEMMA AccountKept ==
  ASSUME TypeOK, TypeOK', AttemptLedger, NEW r \in Rows,
         Spent(r) \subseteq Spent(r)', delivered'[r] = delivered[r]
  PROVE  delivered'[r] <= Cardinality(Spent(r)')
  <1>1. Used(r)' \in Nat
    BY OutboxAssumption DEF TypeOK, Used
  <1>2. Spent(r)' \in SUBSET (1 .. Used(r)')
    BY DEF Spent
  <1>3. /\ Cardinality(Spent(r)) \in Nat /\ Cardinality(Spent(r)') \in Nat
        /\ Cardinality(Spent(r)) <= Cardinality(Spent(r)')
    BY <1>1, <1>2, AttemptCount
  <1>4. delivered[r] <= Cardinality(Spent(r)) /\ delivered[r] \in Nat
    BY DEF AttemptLedger, TypeOK
  <1> QED BY <1>3, <1>4

LEMMA InitLedger == Init => AttemptLedger
  <1> SUFFICES ASSUME Init PROVE AttemptLedger
    OBVIOUS
  <1> USE OutboxAssumption
  <1>1. ASSUME NEW r \in Rows PROVE delivered[r] <= Cardinality(Spent(r))
    <2>1. Spent(r) \in SUBSET (1 .. MaxAttempts)
      BY DEF Init, Spent, Used
    <2>2. Cardinality(Spent(r)) \in Nat
      BY <2>1, AttemptCount
    <2> QED BY <2>2 DEF Init
  <1> QED BY <1>1 DEF Init, AttemptLedger

\* A step that claims nothing and pushes nothing: tasks keep their claims or
\* forget them, and no claim becomes unrouted again.
LEMMA QuietLedger ==
  ASSUME TypeOK, TypeOK', AttemptLedger, UNCHANGED <<att, delivered>>,
         \A r \in Rows : st'[r] = "absent" <=> st[r] = "absent",
         \A e \in Events : status'[e] = "none" => status[e] = "none",
         \A t \in Tasks : \/ held'[t] = {}
                          \/ /\ held'[t] = held[t] /\ catt'[t] = catt[t]
                             /\ \A r \in held[t] :
                                  res'[t][r] = "todo" => res[t][r] = "todo"
  PROVE  AttemptLedger'
  <1>1. \A r \in Rows : Used(r)' = Used(r)
    BY DEF Used
  <1>2. \A t \in Tasks : \A r \in held'[t] : r \in held[t] /\ catt'[t][r] = catt[t][r]
    OBVIOUS
  <1>3. \A t \in Tasks : held[t] \subseteq Rows
    BY DEF TypeOK
  <1>4. \A t \in Tasks : \A r \in held'[t] : catt'[t][r] \in 1 .. Used(r)'
    BY <1>1, <1>2, <1>3 DEF AttemptLedger
  <1>5. \A t, t2 \in Tasks : t # t2 =>
          \A r \in held'[t] \cap held'[t2] : catt'[t][r] # catt'[t2][r]
    BY <1>2 DEF AttemptLedger
  <1>6. ASSUME NEW r \in Rows PROVE delivered'[r] <= Cardinality(Spent(r)')
    <2>1. Unrouted(r)' \subseteq Unrouted(r)
      BY DEF Unrouted
    <2>2. Spent(r) \subseteq Spent(r)'
      BY <1>1, <2>1 DEF Spent
    <2> QED BY <2>2, AccountKept
  <1>7. \A r \in Rows : status'[r[1]] = "none" =>
          att'[r] = 0 /\ delivered'[r] = 0 /\ \A t \in Tasks : r \notin held'[t]
    <2>1. \A r \in Rows : r[1] \in Events
      BY DEF Rows
    <2> QED BY <1>2, <2>1 DEF AttemptLedger
  <1> QED BY <1>4, <1>5, <1>6, <1>7 DEF AttemptLedger

\* A claim uses one more attempt of each of its rows.
LEMMA ClaimUses ==
  ASSUME TypeOK, NEW S \in SUBSET Rows, \A r \in S : Candidate(r), ClaimRows(S)
  PROVE  \A r \in Rows : /\ Used(r) \in Nat
                         /\ r \in S => Used(r) = att[r] /\ Used(r)' = att[r] + 1
                         /\ r \notin S => Used(r)' = Used(r)
  BY OutboxAssumption DEF TypeOK, ClaimRows, Candidate, Used

\* A claim whose rows reach the task: the claims hold the newest attempt.
LEMMA TakenLedger ==
  ASSUME TypeOK, TypeOK', AttemptLedger, NEW t \in Tasks, NEW S \in SUBSET Rows,
         \A r \in S : Candidate(r), ClaimRows(S), TakeClaims(t, S), UNCHANGED delivered
  PROVE  AttemptLedger'
  <1>1. \A r \in Rows : /\ Used(r) \in Nat
                        /\ r \in S => Used(r) = att[r] /\ Used(r)' = att[r] + 1
                        /\ r \notin S => Used(r)' = Used(r)
    BY ClaimUses
  <1>2. held'[t] = S /\ \A r \in S : catt'[t][r] = att[r] + 1
    BY DEF TakeClaims, TypeOK
  <1>3. \A t2 \in Tasks \ {t} :
          held'[t2] = held[t2] /\ catt'[t2] = catt[t2] /\ res'[t2] = res[t2]
    BY DEF TakeClaims, TypeOK
  <1>4. \A t2 \in Tasks : \A r \in held[t2] : r \in Rows /\ catt[t2][r] \in 1 .. Used(r)
    BY DEF AttemptLedger, TypeOK
  <1>5. \A t2 \in Tasks : \A r \in held'[t2] : catt'[t2][r] \in 1 .. Used(r)'
    BY <1>1, <1>2, <1>3, <1>4
  <1>6. ASSUME NEW t1 \in Tasks, NEW t2 \in Tasks, t1 # t2,
               NEW r \in held'[t1] \cap held'[t2]
        PROVE  catt'[t1][r] # catt'[t2][r]
    <2>1. CASE t1 = t
      <3>1. catt'[t1][r] = att[r] + 1 /\ Used(r) = att[r] /\ catt'[t2][r] \in 1 .. Used(r)
        BY <1>1, <1>2, <1>3, <1>4, <1>6, <2>1
      <3> QED BY <3>1, <1>1, <1>2, <1>6, <2>1
    <2>2. CASE t2 = t
      <3>1. catt'[t2][r] = att[r] + 1 /\ Used(r) = att[r] /\ catt'[t1][r] \in 1 .. Used(r)
        BY <1>1, <1>2, <1>3, <1>4, <1>6, <2>2
      <3> QED BY <3>1, <1>1, <1>2, <1>6, <2>2
    <2>3. CASE t1 # t /\ t2 # t
      BY <1>3, <1>6, <2>3 DEF AttemptLedger
    <2> QED BY <2>1, <2>2, <2>3
  <1>7. ASSUME NEW r \in Rows PROVE delivered'[r] <= Cardinality(Spent(r)')
    <2>1. ASSUME NEW x \in Spent(r) PROVE x \in Spent(r)'
      <3>1. x \in 1 .. Used(r) /\ x \notin Unrouted(r)
        BY <2>1 DEF Spent
      <3>2. x \in 1 .. Used(r)'
        BY <1>1, <3>1
      <3>3. ASSUME NEW t2 \in Tasks, r \in held'[t2], res'[t2][r] = "todo",
                   x = catt'[t2][r]
            PROVE  FALSE
        <4>1. CASE t2 = t
          BY <1>1, <1>2, <3>1, <3>3, <4>1
        <4>2. CASE t2 # t
          BY <1>3, <3>1, <3>3, <4>2 DEF Unrouted
        <4> QED BY <4>1, <4>2
      <3> QED BY <3>2, <3>3 DEF Spent, Unrouted
    <2> QED BY <2>1, AccountKept
  <1>8. \A r \in Rows : status'[r[1]] = "none" =>
          att'[r] = 0 /\ delivered'[r] = 0 /\ \A t2 \in Tasks : r \notin held'[t2]
    <2>1. \A r \in S : status[r[1]] # "none"
      BY DEF Candidate
    <2> QED BY <1>2, <1>3, <2>1 DEF AttemptLedger, ClaimRows
  <1> QED BY <1>5, <1>6, <1>7, <1>8 DEF AttemptLedger

\* A claim whose reply is lost only uses up attempts.
LEMMA LostLedger ==
  ASSUME TypeOK, TypeOK', AttemptLedger, NEW S \in SUBSET Rows,
         \A r \in S : Candidate(r), ClaimRows(S), UNCHANGED <<taskVars, delivered>>
  PROVE  AttemptLedger'
  <1>1. \A r \in Rows : Used(r) \in Nat /\ Used(r)' \in Nat /\ Used(r) <= Used(r)'
    <2>1. \A r \in Rows : att[r] \in Nat
      BY OutboxAssumption DEF TypeOK
    <2> QED BY <2>1, ClaimUses
  <1>2. \A t \in Tasks : \A r \in held[t] : catt[t][r] \in 1 .. Used(r)'
    BY <1>1 DEF AttemptLedger, TypeOK
  <1>3. ASSUME NEW r \in Rows PROVE delivered'[r] <= Cardinality(Spent(r)')
    <2>1. Unrouted(r)' = Unrouted(r)
      BY DEF Unrouted
    <2>2. Spent(r) \subseteq Spent(r)'
      BY <1>1, <2>1 DEF Spent
    <2> QED BY <2>2, AccountKept
  <1>4. \A r \in Rows : status'[r[1]] = "none" =>
          att'[r] = 0 /\ delivered'[r] = 0 /\ \A t2 \in Tasks : r \notin held'[t2]
    <2>1. \A r \in S : status[r[1]] # "none"
      BY DEF Candidate
    <2> QED BY <2>1 DEF AttemptLedger, ClaimRows
  <1> QED BY <1>2, <1>3, <1>4 DEF AttemptLedger

\* A push turns the unrouted attempt of its claim, which no other task holds,
\* into a spent one.
LEMMA PushLedger ==
  ASSUME TypeOK, TypeOK', AttemptLedger, NEW t \in Tasks, NEW r \in Rows,
         Unresolved(t, r), NEW o \in Resolutions \ {"todo"}, Resolve(t, r, o),
         delivered' = [delivered EXCEPT ![r] = @ + 1],
         UNCHANGED <<rowVars, held, catt>>
  PROVE  AttemptLedger'
  <1>1. \A q \in Rows : Used(q)' = Used(q)
    BY DEF Used
  <1>2. r \in held[t] /\ res[t][r] = "todo"
    BY DEF Unresolved
  <1>3. /\ res'[t][r] # "todo"
        /\ \A t2 \in Tasks, q \in Rows : t2 # t \/ q # r => res'[t2][q] = res[t2][q]
    BY DEF Resolve, TypeOK
  <1>4. ASSUME NEW q \in Rows, q # r PROVE delivered'[q] <= Cardinality(Spent(q)')
    <2>1. Unrouted(q)' = Unrouted(q)
      BY <1>3, <1>4 DEF Unrouted
    <2>2. Spent(q) \subseteq Spent(q)'
      BY <1>1, <2>1 DEF Spent
    <2>3. delivered'[q] = delivered[q]
      BY <1>4 DEF TypeOK
    <2> QED BY <2>2, <2>3, AccountKept
  <1>5. delivered'[r] <= Cardinality(Spent(r)')
    <2> DEFINE x == catt[t][r]
    <2>1. x \in 1 .. Used(r) /\ x \in Unrouted(r)
      BY <1>2 DEF AttemptLedger, Unrouted
    <2>2. x \notin Unrouted(r)'
      <3> SUFFICES ASSUME NEW t2 \in Tasks, r \in held[t2], res'[t2][r] = "todo",
                          x = catt[t2][r]
                   PROVE  FALSE
        BY DEF Unrouted
      <3>1. t2 # t
        BY <1>3
      <3>2. r \in held[t] \cap held[t2]
        BY <1>2
      <3> QED BY <3>1, <3>2 DEF AttemptLedger
    <2>3. Unrouted(r)' \subseteq Unrouted(r)
      BY <1>3 DEF Unrouted
    <2> HIDE DEF x
    <2>4. Spent(r) \subseteq Spent(r)' /\ x \in Spent(r)' \ Spent(r)
      BY <1>1, <2>1, <2>2, <2>3 DEF Spent
    <2>5. Used(r)' \in Nat /\ Spent(r)' \in SUBSET (1 .. Used(r)')
      BY OutboxAssumption DEF Spent, Used, TypeOK
    <2>6. /\ Cardinality(Spent(r)) \in Nat /\ Cardinality(Spent(r)') \in Nat
          /\ Cardinality(Spent(r)) + 1 <= Cardinality(Spent(r)')
      BY <2>4, <2>5, AttemptCount
    <2>7. delivered[r] <= Cardinality(Spent(r)) /\ delivered[r] \in Nat
      BY DEF AttemptLedger, TypeOK
    <2>8. delivered'[r] = delivered[r] + 1
      BY DEF TypeOK
    <2> QED BY <2>6, <2>7, <2>8
  <1>6. \A t2 \in Tasks : \A q \in held'[t2] : catt'[t2][q] \in 1 .. Used(q)'
    BY <1>1 DEF AttemptLedger, TypeOK
  <1>7. \A q \in Rows : status'[q[1]] = "none" =>
          att'[q] = 0 /\ delivered'[q] = 0 /\ \A t2 \in Tasks : q \notin held'[t2]
    BY <1>2 DEF AttemptLedger, TypeOK
  <1> QED BY <1>4, <1>5, <1>6, <1>7 DEF AttemptLedger

\* A commit opens rows nobody claimed or was pushed yet.
LEMMA CommitLedger ==
  ASSUME TypeOK, TypeOK', AttemptLedger, NEW e \in Events, NEW n \in Nodes, Commit(e, n)
  PROVE  AttemptLedger'
  <1>0. \A r \in Rows : r[1] \in Events
    BY DEF Rows
  <1>1. status[e] = "none" /\ status'[e] = "pending"
    BY DEF Commit, TypeOK
  <1>2. \A e2 \in Events \ {e} : status'[e2] = status[e2]
    BY DEF Commit, TypeOK
  <1>3. \A r \in Rows : r[1] # e => st'[r] = st[r]
    BY DEF Commit
  <1>4. UNCHANGED <<att, held, catt, res, delivered>>
    BY DEF Commit
  <1>5. \A r \in Rows : r[1] = e =>
          att[r] = 0 /\ delivered[r] = 0 /\ \A t \in Tasks : r \notin held[t]
    BY <1>1 DEF AttemptLedger
  <1>6. \A r \in Rows : r[1] # e => Used(r)' = Used(r)
    BY <1>3, <1>4 DEF Used
  <1>7. \A t \in Tasks : \A r \in held'[t] : catt'[t][r] \in 1 .. Used(r)'
    <2>1. \A t \in Tasks : \A r \in held[t] : r \in Rows /\ r[1] # e
      BY <1>5 DEF TypeOK
    <2> QED BY <1>4, <1>6, <2>1 DEF AttemptLedger
  <1>8. ASSUME NEW r \in Rows PROVE delivered'[r] <= Cardinality(Spent(r)')
    <2>1. CASE r[1] = e
      <3>1. Used(r)' \in Nat /\ Spent(r)' \in SUBSET (1 .. Used(r)')
        BY OutboxAssumption DEF Spent, Used, TypeOK
      <3>2. Cardinality(Spent(r)') \in Nat
        BY <3>1, AttemptCount
      <3> QED BY <1>4, <1>5, <2>1, <3>2
    <2>2. CASE r[1] # e
      <3>1. Unrouted(r)' = Unrouted(r)
        BY <1>4 DEF Unrouted
      <3>2. Spent(r) \subseteq Spent(r)'
        BY <1>6, <2>2, <3>1 DEF Spent
      <3> QED BY <1>4, <3>2, AccountKept
    <2> QED BY <2>1, <2>2
  <1>9. \A r \in Rows : status'[r[1]] = "none" =>
          att'[r] = 0 /\ delivered'[r] = 0 /\ \A t2 \in Tasks : r \notin held'[t2]
    BY <1>0, <1>1, <1>2, <1>4 DEF AttemptLedger
  <1> QED BY <1>4, <1>7, <1>8, <1>9 DEF AttemptLedger

\* Removing a row keeps its account open up to the whole budget: claims on it
\* may still be in flight.
LEMMA CleanupLedger ==
  ASSUME TypeOK, TypeOK', AttemptLedger, NEW t \in Tasks, CleanupRetained(t)
  PROVE  AttemptLedger'
  <1>0. \A r \in Rows : r[1] \in Events
    BY DEF Rows
  <1>1. PICK E \in Batches(Expired) :
            /\ status' = [e \in Events |-> IF e \in E THEN "deleted" ELSE status[e]]
            /\ st' = [r \in Rows |-> IF r[1] \in E THEN "absent" ELSE st[r]]
            /\ att' = [r \in Rows |-> IF r[1] \in E THEN 0 ELSE att[r]]
    BY DEF CleanupRetained
  <1>2. UNCHANGED <<held, catt, res, delivered>>
    BY DEF CleanupRetained
  <1>3. \A r \in Rows : Used(r) \in Nat /\ Used(r)' \in Nat /\ Used(r) <= Used(r)'
    BY <1>1, OutboxAssumption DEF Used, TypeOK
  <1>4. \A t2 \in Tasks : \A r \in held'[t2] : catt'[t2][r] \in 1 .. Used(r)'
    <2>1. \A t2 \in Tasks : \A r \in held[t2] : r \in Rows
      BY DEF TypeOK
    <2> QED BY <1>2, <1>3, <2>1 DEF AttemptLedger
  <1>5. ASSUME NEW r \in Rows PROVE delivered'[r] <= Cardinality(Spent(r)')
    <2>1. Unrouted(r)' = Unrouted(r)
      BY <1>2 DEF Unrouted
    <2>2. Spent(r) \subseteq Spent(r)'
      BY <1>3, <2>1 DEF Spent
    <2> QED BY <1>2, <2>2, AccountKept
  <1>6. \A r \in Rows : status'[r[1]] = "none" =>
          att'[r] = 0 /\ delivered'[r] = 0 /\ \A t2 \in Tasks : r \notin held'[t2]
    BY <1>0, <1>1, <1>2 DEF AttemptLedger
  <1> QED BY <1>2, <1>4, <1>5, <1>6 DEF AttemptLedger

LEMMA NextLedger == TypeOK /\ TypeOK' /\ AttemptLedger /\ [Next]_vars => AttemptLedger'
  <1> SUFFICES ASSUME TypeOK, TypeOK', AttemptLedger, [Next]_vars PROVE AttemptLedger'
    OBVIOUS
  <1> DEFINE Keeps(t) == /\ held'[t] = held[t] /\ catt'[t] = catt[t]
                         /\ \A r \in held[t] :
                              res'[t][r] = "todo" => res[t][r] = "todo"
             RowsStay == /\ UNCHANGED <<att, delivered>>
                         /\ \A r \in Rows : st'[r] = "absent" <=> st[r] = "absent"
                         /\ \A e \in Events : status'[e] = "none" => status[e] = "none"
  <1>1. ASSUME RowsStay, \A t \in Tasks : held'[t] = {} \/ Keeps(t) PROVE AttemptLedger'
    BY <1>1, QuietLedger
  <1>2. ASSUME NEW t \in Tasks, Release(t) PROVE \A t2 \in Tasks : held'[t2] = {} \/ Keeps(t2)
    BY <1>2 DEF Release, TypeOK
  <1>3. ASSUME NEW t \in Tasks, NEW r \in Rows, NEW o \in Resolutions \ {"todo"},
               Resolve(t, r, o), UNCHANGED <<held, catt>>
        PROVE  \A t2 \in Tasks : Keeps(t2)
    BY <1>3 DEF Resolve, TypeOK
  <1>4. ASSUME NEW t \in Tasks, Resolved(t), CompleteMany(t), UNCHANGED delivered
        PROVE  RowsStay
    <2>1. \A r \in Rows : st'[r] = "absent" <=> st[r] = "absent"
      BY <1>4, CompletionWritesPending
    <2> QED BY <1>4, <2>1 DEF CompleteMany
  <1>5. ASSUME NEW E, CloseParents(E), UNCHANGED <<st, att, delivered>> PROVE RowsStay
    BY <1>5 DEF CloseParents, Settled, ParentStatus, TypeOK
  <1>6. ASSUME NEW e \in Events, NEW n \in Nodes, Commit(e, n) PROVE AttemptLedger'
    BY <1>6, CommitLedger
  <1>7. ASSUME NEW t \in Tasks, ProcessOnce(t) PROVE AttemptLedger'
    <2>1. PICK S \in Batches({r \in Rows : Candidate(r)}) :
             ClaimRows(S) /\ TakeClaims(t, S)
      BY <1>7 DEF ProcessOnce
    <2>2. S \in SUBSET Rows /\ \A r \in S : Candidate(r)
      BY <2>1, BatchOfCandidates
    <2>3. UNCHANGED delivered
      BY <1>7 DEF ProcessOnce
    <2> QED BY <2>1, <2>2, <2>3, TakenLedger
  <1>8. ASSUME NEW t \in Tasks, ClaimReplyLost(t) PROVE AttemptLedger'
    <2>1. PICK S \in Batches({r \in Rows : Candidate(r)}) : ClaimRows(S)
      BY <1>8 DEF ClaimReplyLost
    <2>2. S \in SUBSET Rows /\ \A r \in S : Candidate(r)
      BY <2>1, BatchOfCandidates
    <2>3. UNCHANGED <<taskVars, delivered>>
      BY <1>8 DEF ClaimReplyLost
    <2> QED BY <2>1, <2>2, <2>3, LostLedger
  <1>9. ASSUME NEW t \in Tasks, NEW e \in Events, DispatchEvent(t, e) PROVE AttemptLedger'
    <2> DEFINE mine == {r \in Rows : r[1] = e /\ Candidate(r)}
    <2>1. UNCHANGED delivered
      BY <1>9 DEF DispatchEvent
    <2>2. CASE \E S \in Batches(mine) : ClaimRows(S) /\ TakeClaims(t, S)
      <3>1. PICK S \in Batches(mine) : ClaimRows(S) /\ TakeClaims(t, S)
        BY <2>2
      <3>2. S \in SUBSET Rows /\ \A r \in S : Candidate(r)
        BY <3>1, BatchOfCandidates
      <3> QED BY <2>1, <3>1, <3>2, TakenLedger
    <2>3. CASE UNCHANGED <<rowVars, taskVars>>
      BY <1>1, <2>1, <2>3
    <2> QED BY <1>9, <2>2, <2>3 DEF DispatchEvent
  <1>10. ASSUME NEW t \in Tasks, NEW r \in Rows, RouteDelivered(t, r) PROVE AttemptLedger'
    <2>1. PICK o \in Resolutions \ {"todo"} : Resolve(t, r, o)
      BY <1>10 DEF RouteDelivered, Resolutions
    <2>2. /\ Unresolved(t, r) /\ UNCHANGED <<rowVars, held, catt>>
          /\ delivered' = [delivered EXCEPT ![r] = @ + 1]
      BY <1>10 DEF RouteDelivered
    <2> QED BY <2>1, <2>2, PushLedger
  <1>11. ASSUME NEW t \in Tasks, NEW r \in Rows, RouteFailed(t, r) PROVE AttemptLedger'
    <2>1. Resolve(t, r, "failed") /\ UNCHANGED <<rowVars, held, catt>> /\ Unresolved(t, r)
      BY <1>11 DEF RouteFailed
    <2>2. "failed" \in Resolutions \ {"todo"}
      BY DEF Resolutions
    <2>3. CASE UNCHANGED delivered
      BY <1>1, <1>3, <2>1, <2>2, <2>3
    <2>4. CASE delivered' = [delivered EXCEPT ![r] = @ + 1]
      BY <2>1, <2>2, <2>4, PushLedger
    <2> QED BY <1>11, <2>3, <2>4 DEF RouteFailed
  <1>12. ASSUME NEW t \in Tasks, NEW r \in Rows, RouteOffline(t, r) \/ RecordReceipt(t, r)
         PROVE  AttemptLedger'
    <2>1. \E o \in Resolutions \ {"todo"} : Resolve(t, r, o)
      BY <1>12 DEF RouteOffline, RecordReceipt, Resolutions
    <2>2. UNCHANGED <<rowVars, held, catt, delivered>>
      BY <1>12 DEF RouteOffline, RecordReceipt
    <2>3. \A t2 \in Tasks : Keeps(t2)
      BY <1>3, <2>1, <2>2
    <2> QED BY <1>1, <2>2, <2>3
  <1>13. ASSUME NEW t \in Tasks, NEW e \in Events, ResolveOfflineBatch(t, e)
         PROVE  AttemptLedger'
    <2>1. UNCHANGED <<rowVars, held, catt, delivered>>
      BY <1>13 DEF ResolveOfflineBatch
    <2>2. \A t2 \in Tasks : \A r \in held[t2] : res'[t2][r] = "todo" => res[t2][r] = "todo"
      BY <1>13 DEF ResolveOfflineBatch, TypeOK
    <2> QED BY <1>1, <2>1, <2>2
  <1>14. ASSUME NEW t \in Tasks, Complete(t) PROVE AttemptLedger'
    BY <1>1, <1>4, <1>14 DEF Complete
  <1>15. ASSUME NEW t \in Tasks, CompleteFails(t) PROVE AttemptLedger'
    <2>1. RowsStay
      BY <1>4, <1>15 DEF CompleteFails
    <2> QED BY <1>1, <1>2, <1>15, <2>1 DEF CompleteFails
  <1>16. ASSUME NEW t \in Tasks, ReconcileEvents(t) PROVE AttemptLedger'
    <2>1. RowsStay
      BY <1>5, <1>16 DEF ReconcileEvents
    <2> QED BY <1>1, <1>2, <1>16, <2>1 DEF ReconcileEvents
  <1>17. ASSUME NEW t \in Tasks, ReconcileEventsFails(t) PROVE AttemptLedger'
    BY <1>1, <1>2, <1>17 DEF ReconcileEventsFails
  <1>18. ASSUME NEW t \in Tasks, ReconcileTerminalParents(t) PROVE AttemptLedger'
    <2>1. RowsStay
      BY <1>5, <1>18 DEF ReconcileTerminalParents
    <2> QED BY <1>1, <1>18, <2>1 DEF ReconcileTerminalParents
  <1>19. ASSUME NEW t \in Tasks, CleanupRetained(t) PROVE AttemptLedger'
    BY <1>19, CleanupLedger
  <1>20. ASSUME NEW n \in Nodes, Crash(n) PROVE AttemptLedger'
    <2>1. \A t \in Tasks : held'[t] = {} \/ Keeps(t)
      BY <1>20 DEF Crash
    <2> QED BY <1>1, <1>20, <2>1 DEF Crash
  <1>21. ASSUME NEW r \in Rows, LeaseExpires(r) \/ BackoffElapses(r) PROVE AttemptLedger'
    BY <1>1, <1>21 DEF LeaseExpires, BackoffElapses
  <1>22. ASSUME NEW e \in Events, NEW n \in Nodes, DispatchEventNoPermit(n, e)
         PROVE  AttemptLedger'
    BY <1>1, <1>22 DEF DispatchEventNoPermit
  <1>23. CASE UNCHANGED vars
    BY <1>1, <1>23 DEF vars
  <1> QED
    BY <1>6, <1>7, <1>8, <1>9, <1>10, <1>11, <1>12, <1>13, <1>14, <1>15, <1>16, <1>17,
       <1>18, <1>19, <1>20, <1>21, <1>22, <1>23 DEF Next, TaskStep

-----------------------------------------------------------------------------
(* Recorded outcomes and what happened.                                     *)

\* Pushes and queued copies are never taken back.
LEMMA HistoryGrows ==
  TypeOK /\ [Next]_vars => /\ \A r \in Rows : delivered[r] <= delivered'[r]
                           /\ queued \subseteq queued'
  <1> SUFFICES ASSUME TypeOK, [Next]_vars
               PROVE  (\A r \in Rows : delivered[r] <= delivered'[r]) /\ queued \subseteq queued'
    OBVIOUS
  <1>1. ASSUME UNCHANGED <<delivered, queued>>
        PROVE  (\A r \in Rows : delivered[r] <= delivered'[r]) /\ queued \subseteq queued'
    BY <1>1 DEF TypeOK
  <1>2. ASSUME NEW r \in Rows, UNCHANGED queued,
               delivered' = delivered \/ delivered' = [delivered EXCEPT ![r] = @ + 1]
        PROVE  (\A q \in Rows : delivered[q] <= delivered'[q]) /\ queued \subseteq queued'
    BY <1>2 DEF TypeOK
  <1>3. ASSUME NEW t \in Tasks, NEW e \in Events, ResolveOfflineBatch(t, e)
        PROVE  (\A q \in Rows : delivered[q] <= delivered'[q]) /\ queued \subseteq queued'
    BY <1>3 DEF ResolveOfflineBatch, TypeOK
  <1>4. ASSUME NEW t \in Tasks, TaskStep(t)
        PROVE  (\A q \in Rows : delivered[q] <= delivered'[q]) /\ queued \subseteq queued'
    BY <1>1, <1>2, <1>3, <1>4
       DEF TaskStep, ProcessOnce, DispatchEvent, RouteDelivered, RouteFailed, RouteOffline,
           RecordReceipt, Complete, CompleteFails, ReconcileEvents, ReconcileEventsFails
  <1>5. CASE UNCHANGED vars
    BY <1>1, <1>5 DEF vars
  <1> QED
    BY <1>1, <1>4, <1>5 DEF Next, Commit, DispatchEventNoPermit, ClaimReplyLost,
       ReconcileTerminalParents, CleanupRetained, LeaseExpires, BackoffElapses, Crash

\* A resolution is backed however it came about in this step: kept, reset by a
\* new claim, or written by the step that pushed or queued.
LEMMA NextBacked == TypeOK /\ ResolutionBacked /\ [Next]_vars => ResolutionBacked'
  <1> SUFFICES ASSUME TypeOK, ResolutionBacked, [Next]_vars PROVE ResolutionBacked'
    OBVIOUS
  <1>0. /\ \A r \in Rows : delivered[r] <= delivered'[r]
        /\ queued \subseteq queued'
        /\ \A r \in Rows : delivered[r] \in Nat
        /\ \A t \in Tasks : held[t] \subseteq Rows
    BY HistoryGrows DEF TypeOK
  <1> DEFINE Backed(t, r) == /\ res'[t][r] \in {"online", "acked"} => delivered'[r] >= 1
                             /\ res'[t][r] = "offline" => r \in queued'
                             /\ res'[t][r] = "acked" => r[1] \in DirectEvents
  <1>1. ASSUME NEW t \in Tasks, NEW r \in held[t], res'[t][r] = res[t][r]
        PROVE  Backed(t, r)
    <2>1. /\ res[t][r] \in {"online", "acked"} => delivered[r] >= 1
          /\ res[t][r] = "offline" => r \in queued
          /\ res[t][r] = "acked" => r[1] \in DirectEvents
      BY DEF ResolutionBacked
    <2>2. delivered[r] <= delivered'[r] /\ delivered[r] \in Nat
      BY <1>0
    <2>3. delivered[r] >= 1 => delivered'[r] >= 1
      <3>1. delivered' = delivered \/ delivered' \in [Rows -> Nat]
        BY NextTypeOK DEF TypeOK
      <3> QED BY <2>2, <3>1, <1>0
    <2> QED BY <1>0, <1>1, <2>1, <2>3
  <1>2. ASSUME \A t \in Tasks : \/ held'[t] = {}
                                \/ held'[t] = held[t] /\ res'[t] = res[t]
                                \/ \A r \in held'[t] : res'[t][r] = "todo"
        PROVE  ResolutionBacked'
    <2> SUFFICES ASSUME NEW t \in Tasks, NEW r \in held'[t] PROVE Backed(t, r)
      BY DEF ResolutionBacked
    <2> QED BY <1>1, <1>2
  <1>3. ASSUME NEW t \in Tasks, NEW r \in Rows, NEW o \in Resolutions, Resolve(t, r, o),
               UNCHANGED held, Backed(t, r)
        PROVE  ResolutionBacked'
    <2> SUFFICES ASSUME NEW t2 \in Tasks, NEW q \in held'[t2] PROVE Backed(t2, q)
      BY DEF ResolutionBacked
    <2>1. CASE t2 = t /\ q = r
      BY <1>3, <2>1
    <2>2. CASE ~(t2 = t /\ q = r)
      <3>1. q \in held[t2] /\ q \in Rows /\ res'[t2][q] = res[t2][q]
        BY <1>0, <1>3, <2>2 DEF Resolve, TypeOK
      <3> QED BY <1>1, <3>1
    <2> QED BY <2>1, <2>2
  <1>4. ASSUME NEW t \in Tasks, NEW S, TakeClaims(t, S) PROVE ResolutionBacked'
    <2>1. \A t2 \in Tasks : \/ held'[t2] = held[t2] /\ res'[t2] = res[t2]
                            \/ \A r \in Rows : res'[t2][r] = "todo"
      BY <1>4 DEF TakeClaims, TypeOK
    <2>2. \A t2 \in Tasks : held'[t2] \subseteq Rows
      BY NextTypeOK DEF TypeOK
    <2> QED BY <1>2, <2>1, <2>2
  <1>5. ASSUME NEW t \in Tasks, Release(t) PROVE ResolutionBacked'
    BY <1>2, <1>5 DEF Release, TypeOK
  <1>6. ASSUME NEW t \in Tasks, NEW r \in Rows, RouteDelivered(t, r) PROVE ResolutionBacked'
    <2>1. delivered'[r] >= 1
      BY <1>6 DEF RouteDelivered, TypeOK
    <2>2. PICK o \in {"online", "acked"} :
            Resolve(t, r, o) /\ (o = "acked" => r[1] \in DirectEvents)
      BY <1>6 DEF RouteDelivered
    <2>3. res'[t][r] = o
      BY <2>2 DEF Resolve, TypeOK
    <2>4. Backed(t, r)
      BY <2>1, <2>2, <2>3
    <2>5. UNCHANGED held /\ o \in Resolutions
      BY <1>6 DEF RouteDelivered, Resolutions
    <2> QED BY <1>3, <2>2, <2>4, <2>5
  <1>7. ASSUME NEW t \in Tasks, NEW r \in Rows, RouteFailed(t, r) \/ RouteOffline(t, r)
        PROVE  ResolutionBacked'
    <2>1. PICK o \in {"failed", "candidate"} : Resolve(t, r, o) /\ UNCHANGED held
      BY <1>7 DEF RouteFailed, RouteOffline
    <2>2. res'[t][r] = o /\ o \in Resolutions
      BY <2>1 DEF Resolve, TypeOK, Resolutions
    <2> QED BY <1>3, <2>1, <2>2
  <1>8. ASSUME NEW t \in Tasks, NEW r \in Rows, RecordReceipt(t, r) PROVE ResolutionBacked'
    <2>1. PICK o \in {"online", "failed"} : Resolve(t, r, o)
      BY <1>8 DEF RecordReceipt
    <2>2. res'[t][r] = o /\ o \in Resolutions
      BY <2>1 DEF Resolve, TypeOK, Resolutions
    <2>3. r \in held[t] /\ res[t][r] = "acked" /\ UNCHANGED <<held, delivered>>
      BY <1>8 DEF RecordReceipt
    <2>4. delivered'[r] >= 1
      BY <2>3 DEF ResolutionBacked
    <2> QED BY <1>3, <2>1, <2>2, <2>3, <2>4
  <1>9. ASSUME NEW t \in Tasks, NEW e \in Events, ResolveOfflineBatch(t, e)
        PROVE  ResolutionBacked'
    <2> DEFINE batch == {r \in held[t] : r[1] = e /\ res[t][r] = "candidate"}
    <2>1. UNCHANGED held
      BY <1>9 DEF ResolveOfflineBatch
    <2>2. PICK o \in {"offline", "failed"} :
            /\ res' = [res EXCEPT ![t] = [r \in Rows |-> IF r \in batch THEN o ELSE res[t][r]]]
            /\ o = "offline" => batch \subseteq queued'
      BY <1>9 DEF ResolveOfflineBatch
    <2> SUFFICES ASSUME NEW t2 \in Tasks, NEW q \in held[t2] PROVE Backed(t2, q)
      BY <2>1 DEF ResolutionBacked
    <2>3. q \in Rows
      BY <1>0
    <2>4. CASE t2 = t /\ q \in batch
      BY <2>2, <2>3, <2>4 DEF TypeOK
    <2>5. CASE ~(t2 = t /\ q \in batch)
      <3>1. res'[t2][q] = res[t2][q]
        BY <2>2, <2>3, <2>5 DEF TypeOK
      <3> QED BY <1>1, <3>1
    <2> QED BY <2>4, <2>5
  <1>10. ASSUME NEW t \in Tasks, TaskStep(t) PROVE ResolutionBacked'
    BY <1>2, <1>4, <1>5, <1>6, <1>7, <1>8, <1>9, <1>10
       DEF TaskStep, ProcessOnce, DispatchEvent, Complete, CompleteFails, ReconcileEvents,
           ReconcileEventsFails
  <1>11. ASSUME NEW n \in Nodes, Crash(n) PROVE ResolutionBacked'
    BY <1>2, <1>11 DEF Crash
  <1>12. CASE UNCHANGED vars
    BY <1>2, <1>12 DEF vars
  <1> QED
    BY <1>2, <1>10, <1>11, <1>12 DEF Next, Commit, DispatchEventNoPermit, ClaimReplyLost,
       ReconcileTerminalParents, CleanupRetained, LeaseExpires, BackoffElapses

\* The state column tells what happened to the recipient.
VerdictsTrue ==
    \A r \in Rows : /\ st[r] = "online"  => delivered[r] >= 1
                    /\ st[r] = "offline" => r \in queued
                    /\ st[r] = "dead"    => att[r] = MaxAttempts

\* The receipt column names a peer that was pushed.
ReceiptsTrue ==
    \A e \in Events :
        receipt[e] # NoReceipt => /\ e \in DirectEvents
                                  /\ receipt[e][1] \in Users \ {SenderOf[e]}
                                  /\ delivered[<<e, receipt[e][1]>>] >= 1

LEMMA NextVerdicts ==
  TypeOK /\ TypeOK' /\ TokenDiscipline /\ ResolutionBacked /\ VerdictsTrue /\ [Next]_vars
    => VerdictsTrue'
  <1> SUFFICES ASSUME TypeOK, TypeOK', TokenDiscipline, ResolutionBacked, VerdictsTrue,
                      [Next]_vars
               PROVE  VerdictsTrue'
    OBVIOUS
  <1> USE OutboxAssumption
  <1>0. /\ \A r \in Rows : /\ delivered[r] <= delivered'[r]
                           /\ delivered[r] \in Nat /\ delivered'[r] \in Nat
        /\ queued \subseteq queued'
    BY HistoryGrows DEF TypeOK
  <1>1. ASSUME \A r \in Rows : \/ st'[r] \in {"absent", "pending"}
                               \/ st'[r] = st[r] /\ att'[r] = att[r]
        PROVE  VerdictsTrue'
    BY <1>0, <1>1 DEF VerdictsTrue
  <1>2. ASSUME NEW S \in SUBSET Rows, \A r \in S : Candidate(r), ClaimRows(S)
        PROVE  VerdictsTrue'
    BY <1>1, <1>2 DEF ClaimRows, Candidate, TypeOK
  <1>3. ASSUME NEW t \in Tasks, Resolved(t), CompleteMany(t) PROVE VerdictsTrue'
    <2> SUFFICES ASSUME NEW r \in Rows
                 PROVE  /\ st'[r] = "online"  => delivered'[r] >= 1
                        /\ st'[r] = "offline" => r \in queued'
                        /\ st'[r] = "dead"    => att'[r] = MaxAttempts
      BY DEF VerdictsTrue
    <2>1. CASE r \notin Owned(t)
      <3>1. st'[r] = st[r] /\ att'[r] = att[r]
        BY <1>3, <2>1 DEF CompleteMany
      <3> QED BY <1>0, <3>1 DEF VerdictsTrue
    <2>2. CASE r \in Owned(t)
      <3>1. r \in held[t] /\ tok[r] = ctok[t]
        BY <2>2 DEF Owned
      <3>2. catt[t][r] = att[r] /\ att[r] \in 0 .. MaxAttempts
        BY <3>1 DEF TokenDiscipline, TypeOK
      <3>3. /\ res[t][r] = "online" => delivered[r] >= 1
            /\ res[t][r] = "offline" => r \in queued
            /\ res[t][r] \in FinalResolutions
        BY <1>3, <3>1 DEF ResolutionBacked, Resolved
      <3>4. st'[r] = CompletionState(res[t][r], catt[t][r]) /\ att'[r] = att[r]
        BY <1>3, <2>2 DEF CompleteMany
      <3>5. CASE res[t][r] = "failed"
        BY <3>2, <3>4, <3>5 DEF CompletionState
      <3>6. CASE res[t][r] \in {"online", "offline"}
        <4>1. st'[r] = res[t][r]
          BY <3>4, <3>6 DEF CompletionState
        <4> QED BY <1>0, <3>3, <3>6, <4>1
      <3> QED BY <3>3, <3>5, <3>6 DEF FinalResolutions
    <2> QED BY <2>1, <2>2
  <1>4. ASSUME UNCHANGED <<st, att>> PROVE VerdictsTrue'
    BY <1>1, <1>4
  <1>5. ASSUME NEW e \in Events, NEW n \in Nodes, Commit(e, n) PROVE VerdictsTrue'
    BY <1>1, <1>5 DEF Commit
  <1>6. ASSUME NEW t \in Tasks, CleanupRetained(t) PROVE VerdictsTrue'
    BY <1>1, <1>6 DEF CleanupRetained
  <1>7. ASSUME NEW t \in Tasks, ProcessOnce(t) \/ ClaimReplyLost(t) PROVE VerdictsTrue'
    <2>1. PICK S \in Batches({r \in Rows : Candidate(r)}) : ClaimRows(S)
      BY <1>7 DEF ProcessOnce, ClaimReplyLost
    <2>2. S \in SUBSET Rows /\ \A r \in S : Candidate(r)
      BY <2>1, BatchOfCandidates
    <2> QED BY <1>2, <2>1, <2>2
  <1>8. ASSUME NEW t \in Tasks, NEW e \in Events, DispatchEvent(t, e) PROVE VerdictsTrue'
    <2>1. CASE \E S \in Batches({r \in Rows : r[1] = e /\ Candidate(r)}) : ClaimRows(S)
      <3>1. PICK S \in Batches({r \in Rows : r[1] = e /\ Candidate(r)}) : ClaimRows(S)
        BY <2>1
      <3>2. S \in SUBSET Rows /\ \A r \in S : Candidate(r)
        BY <3>1, BatchOfCandidates
      <3> QED BY <1>2, <3>1, <3>2
    <2>2. CASE UNCHANGED rowVars
      BY <1>4, <2>2
    <2> QED BY <1>8, <2>1, <2>2 DEF DispatchEvent
  <1>9. ASSUME NEW t \in Tasks, TaskStep(t) PROVE VerdictsTrue'
    BY <1>3, <1>4, <1>7, <1>8, <1>9
       DEF TaskStep, RouteDelivered, RouteFailed, RouteOffline, RecordReceipt,
           ResolveOfflineBatch, Complete, CompleteFails, ReconcileEvents, ReconcileEventsFails
  <1>10. CASE UNCHANGED vars
    BY <1>4, <1>10 DEF vars
  <1> QED
    BY <1>4, <1>5, <1>6, <1>7, <1>9, <1>10 DEF Next, DispatchEventNoPermit,
       ReconcileTerminalParents, LeaseExpires, BackoffElapses, Crash

\* Only RecordReceipt writes the receipt, for the peer whose push it follows.
LEMMA ReceiptSteps ==
  ASSUME [Next]_vars
  PROVE  \/ UNCHANGED receipt
         \/ \E t \in Tasks, r \in Rows : RecordReceipt(t, r)
  BY DEF Next, vars, TaskStep, ProcessOnce, DispatchEvent, RouteDelivered, RouteFailed,
         RouteOffline, ResolveOfflineBatch, Complete, CompleteFails, ReconcileEvents,
         ReconcileEventsFails, Commit, DispatchEventNoPermit, ClaimReplyLost,
         ReconcileTerminalParents, CleanupRetained, LeaseExpires, BackoffElapses, Crash

LEMMA NextReceipts ==
  TypeOK /\ TypeOK' /\ ResolutionBacked /\ ReceiptsTrue /\ [Next]_vars => ReceiptsTrue'
  <1> SUFFICES ASSUME TypeOK, TypeOK', ResolutionBacked, ReceiptsTrue, [Next]_vars
               PROVE  ReceiptsTrue'
    OBVIOUS
  <1> USE OutboxAssumption
  <1>0. /\ \A r \in Rows : /\ delivered[r] <= delivered'[r]
                           /\ delivered[r] \in Nat /\ delivered'[r] \in Nat
        /\ \A e \in Events, u \in Users : <<e, u>> \in Rows
    BY HistoryGrows DEF TypeOK, Rows
  <1>1. ASSUME NEW e \in Events, receipt'[e] = receipt[e], receipt[e] # NoReceipt
        PROVE  /\ e \in DirectEvents
               /\ receipt'[e][1] \in Users \ {SenderOf[e]}
               /\ delivered'[<<e, receipt'[e][1]>>] >= 1
    BY <1>0, <1>1 DEF ReceiptsTrue
  <1>2. CASE UNCHANGED receipt
    BY <1>1, <1>2 DEF ReceiptsTrue
  <1>3. ASSUME NEW t \in Tasks, NEW r \in Rows, RecordReceipt(t, r) PROVE ReceiptsTrue'
    <2>1. r \in held[t] /\ res[t][r] = "acked" /\ UNCHANGED delivered
      BY <1>3 DEF RecordReceipt
    <2>2. r[1] \in DirectEvents /\ delivered[r] >= 1
      BY <2>1 DEF ResolutionBacked
    <2>3. r[1] \in Events /\ r[2] \in Users /\ r = <<r[1], r[2]>>
      BY DEF Rows
    <2>4. CASE UNCHANGED receipt
      BY <1>1, <2>4 DEF ReceiptsTrue
    <2>5. ASSUME NEW s \in Sessions, receipt' = ReceiptAfter(r[1], r[2], s)
          PROVE  ReceiptsTrue'
      <3>1. CASE r[2] # SenderOf[r[1]] /\ receipt[r[1]] = NoReceipt
        <4>1. receipt' = [receipt EXCEPT ![r[1]] = <<r[2], s>>]
          BY <2>5, <3>1 DEF ReceiptAfter
        <4>2. receipt'[r[1]] = <<r[2], s>>
          BY <2>3, <4>1 DEF TypeOK
        <4>3. \A e \in Events \ {r[1]} : receipt'[e] = receipt[e]
          BY <2>3, <4>1 DEF TypeOK
        <4>4. /\ receipt'[r[1]][1] \in Users \ {SenderOf[r[1]]}
              /\ delivered'[<<r[1], receipt'[r[1]][1]>>] >= 1
          BY <2>1, <2>2, <2>3, <3>1, <4>2
        <4> QED BY <1>1, <2>2, <4>3, <4>4 DEF ReceiptsTrue
      <3>2. CASE ~(r[2] # SenderOf[r[1]] /\ receipt[r[1]] = NoReceipt)
        <4>1. UNCHANGED receipt
          BY <2>5, <3>2 DEF ReceiptAfter
        <4> QED BY <1>1, <4>1 DEF ReceiptsTrue
      <3> QED BY <3>1, <3>2
    <2> QED BY <1>3, <2>4, <2>5 DEF RecordReceipt
  <1> QED BY <1>2, <1>3, ReceiptSteps

\* The inductive invariant behind the recorded outcomes.
DeliveryInv ==
    /\ TypeOK /\ TokenDiscipline /\ ParentAggregates
    /\ ResolutionBacked /\ AttemptLedger
    /\ VerdictsTrue /\ ReceiptsTrue

LEMMA InitDelivery == Init => DeliveryInv
  <1>1. Init => ResolutionBacked
    BY DEF Init, ResolutionBacked
  <1>2. Init => VerdictsTrue /\ ReceiptsTrue
    BY DEF Init, VerdictsTrue, ReceiptsTrue
  <1> QED BY <1>1, <1>2, InitTypeOK, InitToken, InitParents, InitLedger DEF DeliveryInv

LEMMA NextDelivery == DeliveryInv /\ [Next]_vars => DeliveryInv'
  <1> SUFFICES ASSUME DeliveryInv, [Next]_vars PROVE DeliveryInv'
    OBVIOUS
  <1> USE DEF DeliveryInv
  <1>1. TypeOK'
    BY NextTypeOK
  <1>2. TokenDiscipline' /\ ParentAggregates'
    BY NextToken, NextParents
  <1>3. ResolutionBacked' /\ AttemptLedger'
    BY <1>1, NextBacked, NextLedger
  <1>4. VerdictsTrue' /\ ReceiptsTrue'
    BY <1>1, NextVerdicts, NextReceipts
  <1> QED BY <1>1, <1>2, <1>3, <1>4

LEMMA DeliveryAccounts == DeliveryInv => RecordsAccountForDelivery
  <1> SUFFICES ASSUME DeliveryInv PROVE RecordsAccountForDelivery
    OBVIOUS
  <1>1. ASSUME NEW r \in Rows
        PROVE  delivered[r] <= (IF st[r] = "absent" THEN MaxAttempts ELSE att[r])
    <2>1. Used(r) \in Nat /\ Spent(r) \in SUBSET (1 .. Used(r))
      BY OutboxAssumption DEF DeliveryInv, TypeOK, Used, Spent
    <2>2. Cardinality(Spent(r)) \in Nat /\ Cardinality(Spent(r)) <= Used(r)
      BY <2>1, AttemptCount
    <2>3. delivered[r] <= Cardinality(Spent(r)) /\ delivered[r] \in Nat
      BY DEF DeliveryInv, AttemptLedger, TypeOK
    <2>4. delivered[r] <= Used(r)
      BY <2>1, <2>2, <2>3
    <2> QED BY <2>4 DEF Used
  <1>2. /\ \A r \in Rows : /\ st[r] = "online"  => delivered[r] >= 1
                           /\ st[r] = "offline" => r \in queued
                           /\ st[r] = "dead"    => att[r] = MaxAttempts
        /\ \A e \in Events :
             receipt[e] # NoReceipt => /\ e \in DirectEvents
                                       /\ receipt[e][1] # SenderOf[e]
                                       /\ delivered[<<e, receipt[e][1]>>] >= 1
    BY DEF DeliveryInv, VerdictsTrue, ReceiptsTrue
  <1> QED BY <1>1, <1>2 DEF RecordsAccountForDelivery

\* The outbox tells the truth: a row the code settles as OnlineSent was
\* pushed, as OfflineQueued is in the queue, as Dead used up MAX_ATTEMPTS; no
\* recipient is pushed more often than claim incremented `attempts`, however
\* many overtaken tasks, lost replies and crashes there were; a delivered
\* receipt names the peer, after a push to it.  The argument is a ledger:
\* every claim that has not been routed holds an attempt number of its own.
THEOREM RecordsAccount == Spec => []RecordsAccountForDelivery
  BY InitDelivery, NextDelivery, DeliveryAccounts, PTL DEF Spec

-----------------------------------------------------------------------------
(* Finality.                                                                *)

SettledStep ==
    /\ \A r \in Rows : st[r] \in TerminalRow => st'[r] \in {st[r], "absent"}
    /\ \A r \in Rows : st[r] # "absent" /\ st'[r] = "absent" =>
         st[r] # "pending" /\ status[r[1]] \in {"dispatched", "dead"}
    /\ \A e \in Events : status[e] \in {"dispatched", "dead"} =>
         status'[e] \in {status[e], "deleted"}
    /\ \A e \in Events : receipt[e] # NoReceipt => receipt'[e] = receipt[e]

LEMMA NextSettled == TypeOK /\ ParentAggregates /\ [Next]_vars => SettledStep
  <1> SUFFICES ASSUME TypeOK, ParentAggregates, [Next]_vars PROVE SettledStep
    OBVIOUS
  <1>0. \A r \in Rows : r[1] \in Events /\ r[2] \in Users /\ r = <<r[1], r[2]>>
    BY DEF Rows
  <1>1. \A e \in Events : receipt[e] # NoReceipt => receipt'[e] = receipt[e]
    <2>1. ASSUME NEW t \in Tasks, NEW r \in Rows, RecordReceipt(t, r),
                 NEW e \in Events, receipt[e] # NoReceipt
          PROVE  receipt'[e] = receipt[e]
      BY <2>1 DEF RecordReceipt, ReceiptAfter, TypeOK
    <2> QED BY <2>1, ReceiptSteps
  <1>2. ASSUME \A r \in Rows : st'[r] # st[r] => st[r] = "pending" /\ st'[r] # "absent",
               UNCHANGED status
        PROVE  SettledStep
    BY <1>1, <1>2 DEF SettledStep, TerminalRow
  <1>3. ASSUME NEW E, CloseParents(E), UNCHANGED st PROVE SettledStep
    BY <1>1, <1>3 DEF SettledStep, CloseParents, Settled
  <1>4. ASSUME NEW e \in Events, NEW n \in Nodes, Commit(e, n) PROVE SettledStep
    <2>1. \A r \in Rows : r[1] = e => st[r] = "absent"
      BY <1>0, <1>4 DEF Commit, ParentAggregates
    <2>2. \A r \in Rows : st'[r] = st[r] \/ (r[1] = e /\ st'[r] = "pending")
      BY <1>4 DEF Commit
    <2>3. \A e2 \in Events : status[e2] \in {"dispatched", "dead"} => status'[e2] = status[e2]
      BY <1>4 DEF Commit, TypeOK
    <2> QED BY <1>1, <2>1, <2>2, <2>3 DEF SettledStep, TerminalRow
  <1>5. ASSUME NEW t \in Tasks, CleanupRetained(t) PROVE SettledStep
    <2>1. PICK E \in Batches(Expired) :
            /\ status' = [e \in Events |-> IF e \in E THEN "deleted" ELSE status[e]]
            /\ st' = [r \in Rows |-> IF r[1] \in E THEN "absent" ELSE st[r]]
      BY <1>5 DEF CleanupRetained
    <2>2. \A e \in E : status[e] \in {"dispatched", "dead"}
      BY <2>1 DEF Batches, Expired
    <2>3. \A r \in Rows : r[1] \in E => st[r] # "pending"
      BY <1>0, <2>2 DEF ParentAggregates
    <2>4. \A r \in Rows : /\ st'[r] \in {st[r], "absent"}
                          /\ st'[r] # st[r] => r[1] \in E
      BY <2>1
    <2>5. \A e \in Events : status'[e] \in {status[e], "deleted"}
      BY <2>1
    <2> QED BY <1>1, <2>2, <2>3, <2>4, <2>5 DEF SettledStep
  <1>6. ASSUME NEW t \in Tasks, Resolved(t), CompleteMany(t) PROVE SettledStep
    <2>1. UNCHANGED status
      BY <1>6 DEF CompleteMany
    <2> QED BY <1>2, <1>6, <2>1, CompletionWritesPending
  <1>7. ASSUME NEW t \in Tasks, TaskStep(t) PROVE SettledStep
    BY <1>2, <1>3, <1>6, <1>7
       DEF TaskStep, ProcessOnce, DispatchEvent, ClaimRows, RouteDelivered, RouteFailed,
           RouteOffline, RecordReceipt, ResolveOfflineBatch, Complete, CompleteFails,
           ReconcileEvents, ReconcileEventsFails
  <1>8. CASE UNCHANGED vars
    BY <1>2, <1>8 DEF vars
  <1> QED
    BY <1>2, <1>3, <1>4, <1>5, <1>7, <1>8 DEF Next, DispatchEventNoPermit, ClaimReplyLost,
       ClaimRows, ReconcileTerminalParents, LeaseExpires, BackoffElapses, Crash

\* A settled row is never reopened and never changes its verdict, rows only
\* disappear together with a settled parent, and the first ack wins:
\* concurrent and repeated dispatches never replace a recorded receipt.
SettledIsFinal ==
    [][/\ \A r \in Rows : st[r] \in TerminalRow => st'[r] \in {st[r], "absent"}
       /\ \A r \in Rows : st[r] # "absent" /\ st'[r] = "absent" =>
            st[r] # "pending" /\ status[r[1]] \in {"dispatched", "dead"}
       /\ \A e \in Events : status[e] \in {"dispatched", "dead"} =>
            status'[e] \in {status[e], "deleted"}
       /\ \A e \in Events : receipt[e] # NoReceipt => receipt'[e] = receipt[e]]_vars

\* complete_many's `state = 0` condition, reconcile_events' and the sweep's
\* `status = 0`, cleanup's choice of closed parents and the first-ack receipt
\* update together make every recorded verdict final.
THEOREM VerdictsAreFinal == Spec => SettledIsFinal
  <1>1. TypeOK /\ ParentAggregates /\ [Next]_vars => [SettledStep]_vars
    BY NextSettled
  <1> QED BY <1>1, TypeCorrect, ParentAggregation, PTL
          DEF Spec, SettledIsFinal, SettledStep

-----------------------------------------------------------------------------
(* The tasks implement the ledger.                                          *)

\* A task holds rows that were snapshot with their event.
HeldIsRow ==
    \A t \in Tasks : \A r \in held[t] : st[r] # "absent" \/ status[r[1]] = "deleted"

LEMMA NextHeld == TypeOK /\ HeldIsRow /\ [Next]_vars => HeldIsRow'
  <1> SUFFICES ASSUME TypeOK, HeldIsRow, [Next]_vars PROVE HeldIsRow'
    OBVIOUS
  <1>0. \A r \in Rows : r[1] \in Events
    BY DEF Rows
  <1>1. ASSUME \A r \in Rows : st[r] # "absent" \/ status[r[1]] = "deleted" =>
                                  st'[r] # "absent" \/ status'[r[1]] = "deleted",
               \A t \in Tasks : held'[t] \subseteq held[t]
        PROVE  HeldIsRow'
    BY <1>1 DEF HeldIsRow, TypeOK
  <1>2. ASSUME NEW t \in Tasks, NEW S \in SUBSET Rows, \A r \in S : Candidate(r),
               ClaimRows(S), TakeClaims(t, S)
        PROVE  HeldIsRow'
    BY <1>2 DEF HeldIsRow, TypeOK, ClaimRows, TakeClaims, Candidate
  <1>3. ASSUME NEW e \in Events, NEW n \in Nodes, Commit(e, n) PROVE HeldIsRow'
    <2>1. \A f \in Events : status[f] = "deleted" => status'[f] = "deleted"
      BY <1>3 DEF Commit, TypeOK
    <2>2. \A r \in Rows : st[r] # "absent" => st'[r] # "absent"
      BY <1>3 DEF Commit
    <2>3. UNCHANGED held
      BY <1>3 DEF Commit
    <2> QED BY <1>0, <1>1, <2>1, <2>2, <2>3
  <1>4. ASSUME NEW t \in Tasks, CleanupRetained(t) PROVE HeldIsRow'
    <2>1. PICK E \in Batches(Expired) :
            /\ status' = [e \in Events |-> IF e \in E THEN "deleted" ELSE status[e]]
            /\ st' = [r \in Rows |-> IF r[1] \in E THEN "absent" ELSE st[r]]
      BY <1>4 DEF CleanupRetained
    <2>2. UNCHANGED held
      BY <1>4 DEF CleanupRetained
    <2> QED BY <1>0, <1>1, <2>1, <2>2
  <1>5. ASSUME NEW E, CloseParents(E), UNCHANGED st, \A t \in Tasks : held'[t] \subseteq held[t]
        PROVE  HeldIsRow'
    BY <1>0, <1>1, <1>5 DEF CloseParents, Settled
  <1>6. ASSUME NEW t \in Tasks, Resolved(t), CompleteMany(t), \A q \in Tasks : held'[q] \subseteq held[q]
        PROVE  HeldIsRow'
    <2>1. \A r \in Rows : st[r] # "absent" => st'[r] # "absent"
      BY <1>6, CompletionWritesPending
    <2>2. UNCHANGED status
      BY <1>6 DEF CompleteMany
    <2> QED BY <1>1, <1>6, <2>1, <2>2
  <1>7. ASSUME NEW t \in Tasks, Release(t) PROVE \A q \in Tasks : held'[q] \subseteq held[q]
    BY <1>7 DEF Release, TypeOK
  <1>8. ASSUME UNCHANGED <<st, status>>, \A t \in Tasks : held'[t] \subseteq held[t] PROVE HeldIsRow'
    BY <1>1, <1>8
  <1>9. ASSUME NEW t \in Tasks, ProcessOnce(t) PROVE HeldIsRow'
    <2>1. PICK S \in Batches({r \in Rows : Candidate(r)}) : ClaimRows(S) /\ TakeClaims(t, S)
      BY <1>9 DEF ProcessOnce
    <2> QED BY <1>2, <2>1, BatchOfCandidates
  <1>10. ASSUME NEW t \in Tasks, NEW e \in Events, DispatchEvent(t, e) PROVE HeldIsRow'
    <2>1. ASSUME NEW S \in Batches({r \in Rows : r[1] = e /\ Candidate(r)}), ClaimRows(S), TakeClaims(t, S)
          PROVE  HeldIsRow'
      BY <1>2, <2>1, BatchOfCandidates
    <2> QED BY <1>8, <1>10, <2>1 DEF DispatchEvent
  <1>11. ASSUME NEW t \in Tasks, TaskStep(t) PROVE HeldIsRow'
    BY <1>5, <1>6, <1>7, <1>8, <1>9, <1>10, <1>11
       DEF TaskStep, RouteDelivered, RouteFailed, RouteOffline, RecordReceipt,
           ResolveOfflineBatch, Complete, CompleteFails, ReconcileEvents, ReconcileEventsFails
  <1>12. ASSUME NEW n \in Nodes, Crash(n) PROVE HeldIsRow'
    BY <1>8, <1>12 DEF Crash
  <1>13. CASE UNCHANGED vars
    BY <1>8, <1>13 DEF vars
  <1> QED
    BY <1>3, <1>4, <1>5, <1>8, <1>11, <1>12, <1>13 DEF Next, DispatchEventNoPermit, ClaimReplyLost,
       ClaimRows, ReconcileTerminalParents, LeaseExpires, BackoffElapses

LedgerInv == DeliveryInv /\ HeldIsRow

LEMMA LedgerBooks == Ledger!Rows = Rows /\ Ledger!vars = <<status, st, att, delivered, queued, receipt>>
  BY DEF Ledger!Rows, Ledger!vars, Rows

\* What a task holds has an attempt left to its name.
LEMMA HeldIsAllowed ==
  ASSUME LedgerInv, NEW t \in Tasks, NEW r \in held[t]
  PROVE  r \in Rows /\ Used(r) = Ledger!Allowance(r) /\ 0 < Used(r)
  <1>1. r \in Rows
    BY DEF LedgerInv, DeliveryInv, TypeOK
  <1>2. r[1] \in Events /\ r[2] \in Users /\ r = <<r[1], r[2]>>
    BY <1>1 DEF Rows
  <1>3. catt[t][r] \in 1 .. Used(r) /\ Used(r) \in Nat
    BY <1>1, OutboxAssumption DEF LedgerInv, DeliveryInv, AttemptLedger, TypeOK, Used
  <1>4. status[r[1]] = "deleted" => st[r] = "absent"
    BY <1>2 DEF LedgerInv, DeliveryInv, ParentAggregates
  <1>5. st[r] = "absent" => status[r[1]] = "deleted"
    BY DEF LedgerInv, HeldIsRow
  <1> QED BY <1>1, <1>3, <1>4, <1>5 DEF Used, Ledger!Allowance

\* A push to a recipient that a task holds.
LEMMA PushIsBooked ==
  ASSUME LedgerInv, DeliveryInv', NEW t \in Tasks, NEW r \in held[t],
         delivered' = [delivered EXCEPT ![r] = @ + 1], UNCHANGED <<rowVars, queued, receipt>>
  PROVE  Ledger!Push(r)
  <1>1. r \in Rows /\ Used(r) = Ledger!Allowance(r)
    BY HeldIsAllowed
  <1>2. delivered'[r] <= (IF st'[r] = "absent" THEN MaxAttempts ELSE att'[r])
    <2>1. RecordsAccountForDelivery'
      BY DeliveryAccounts, PTL
    <2> QED BY <1>1, <2>1 DEF RecordsAccountForDelivery
  <1>3. delivered'[r] = delivered[r] + 1 /\ delivered[r] \in Nat
    BY <1>1 DEF LedgerInv, DeliveryInv, TypeOK
  <1>4. Used(r) \in Nat /\ delivered[r] + 1 <= Used(r)
    BY <1>1, <1>2, <1>3, OutboxAssumption DEF Used, LedgerInv, DeliveryInv, TypeOK
  <1> QED BY <1>1, <1>3, <1>4 DEF Ledger!Push

\* A claim is an attempt.
LEMMA ClaimIsBooked ==
  ASSUME LedgerInv, NEW S \in SUBSET Rows, \A r \in S : Candidate(r), ClaimRows(S), UNCHANGED sideVars
  PROVE  Ledger!Attempt(S)
  BY LedgerBooks DEF ClaimRows, Candidate, Ledger!Attempt

\* A completion writes verdicts that were earned.
LEMMA CompletionIsBooked ==
  ASSUME LedgerInv, DeliveryInv', NEW t \in Tasks, Resolved(t), CompleteMany(t), UNCHANGED sideVars
  PROVE  Ledger!Settle
  <1>1. st' \in [Ledger!Rows -> Ledger!Verdicts]
    BY LedgerBooks DEF DeliveryInv, TypeOK, RowStates, Ledger!Verdicts, Ledger!Final
  <1>2. ASSUME NEW r \in Rows, st'[r] # st[r]
        PROVE  status[r[1]] = "pending" /\ st[r] = "pending" /\ Ledger!Earned(r, st'[r])
    <2>1. st[r] = "pending" /\ st'[r] # "absent"
      BY <1>2, CompletionWritesPending DEF LedgerInv, DeliveryInv
    <2>2. r[1] \in Events /\ r[2] \in Users /\ r = <<r[1], r[2]>>
      BY DEF Rows
    <2>3. status[r[1]] = "pending"
      <3>1. st[<<r[1], r[2]>>] = "pending" /\ status[r[1]] \in ParentStates
        BY <2>1, <2>2 DEF LedgerInv, DeliveryInv, TypeOK
      <3>2. ParentAggregates
        BY DEF LedgerInv, DeliveryInv
      <3> QED BY <2>2, <3>1, <3>2 DEF ParentAggregates, ParentStates
    <2>4. st'[r] \in {"online", "offline", "dead"}
      BY <1>2, <2>1 DEF DeliveryInv, TypeOK, RowStates
    <2>5. /\ st'[r] = "online"  => delivered'[r] >= 1
          /\ st'[r] = "offline" => r \in queued'
          /\ st'[r] = "dead"    => att'[r] = MaxAttempts
      BY DEF DeliveryInv, VerdictsTrue
    <2>6. UNCHANGED <<delivered, queued, att>> /\ delivered[r] \in Nat
      BY DEF CompleteMany, LedgerInv, DeliveryInv, TypeOK
    <2> QED BY <2>1, <2>3, <2>4, <2>5, <2>6 DEF Ledger!Earned
  <1>3. UNCHANGED <<status, att, delivered, queued, receipt>>
    BY DEF CompleteMany
  <1> QED BY <1>1, <1>2, <1>3, LedgerBooks DEF Ledger!Settle

\* Closing the settled ones among E.
LEMMA ClosingIsBooked ==
  ASSUME LedgerInv, NEW E, CloseParents(E), UNCHANGED <<st, att, delivered, queued, receipt>>
  PROVE  \E F \in SUBSET Events : Ledger!Close(F)
  <1> DEFINE F == {e \in Events : e \in E /\ Settled(e)}
  <1>1. \A e \in Events : ParentStatus(e) = Ledger!Outcome(e)
    BY DEF ParentStatus, Ledger!Outcome
  <1>2. status' = [e \in Events |-> IF e \in F THEN Ledger!Outcome(e) ELSE status[e]]
    BY <1>1 DEF CloseParents
  <1>3. \A e \in F : status[e] = "pending" /\ \A u \in Users : st[<<e, u>>] # "pending"
    BY DEF Settled
  <1>4. Ledger!Close(F)
    BY <1>2, <1>3 DEF Ledger!Close
  <1> QED BY <1>4

LEMMA StepIsBooked == LedgerInv /\ DeliveryInv' /\ [Next]_vars => [Ledger!Next]_Ledger!vars
  <1> SUFFICES ASSUME LedgerInv, DeliveryInv', [Next]_vars PROVE [Ledger!Next]_Ledger!vars
    OBVIOUS
  <1>1. ASSUME UNCHANGED <<status, st, att, delivered, queued, receipt>> PROVE [Ledger!Next]_Ledger!vars
    BY <1>1 DEF Ledger!vars
  <1>2. ASSUME NEW S \in SUBSET Rows, \A r \in S : Candidate(r), ClaimRows(S), UNCHANGED sideVars
        PROVE  Ledger!Next
    BY <1>2, ClaimIsBooked, LedgerBooks DEF Ledger!Next
  <1>3. ASSUME NEW t \in Tasks, Resolved(t), CompleteMany(t), UNCHANGED sideVars PROVE Ledger!Next
    BY <1>3, CompletionIsBooked DEF Ledger!Next
  <1>4. ASSUME NEW E, CloseParents(E), UNCHANGED <<st, att, delivered, queued, receipt>> PROVE Ledger!Next
    BY <1>4, ClosingIsBooked DEF Ledger!Next
  <1>5. ASSUME NEW t \in Tasks, NEW r \in Rows, RouteDelivered(t, r) \/ RouteFailed(t, r)
        PROVE  [Ledger!Next]_Ledger!vars
    <2>1. r \in held[t] /\ UNCHANGED <<rowVars, queued, receipt>>
      BY <1>5 DEF RouteDelivered, RouteFailed, Unresolved
    <2>2. CASE delivered' = [delivered EXCEPT ![r] = @ + 1]
      BY <2>1, <2>2, PushIsBooked, LedgerBooks DEF Ledger!Next
    <2>3. CASE UNCHANGED delivered
      BY <1>1, <2>1, <2>3
    <2> QED BY <1>5, <2>2, <2>3 DEF RouteDelivered, RouteFailed
  <1>6. ASSUME NEW t \in Tasks, NEW r \in Rows, RecordReceipt(t, r) PROVE [Ledger!Next]_Ledger!vars
    <2>1. r \in held[t] /\ res[t][r] = "acked" /\ UNCHANGED <<rowVars, delivered, queued>>
      BY <1>6 DEF RecordReceipt
    <2>2. r[1] \in DirectEvents /\ delivered[r] > 0
      BY <2>1 DEF LedgerInv, DeliveryInv, ResolutionBacked, TypeOK
    <2>3. r[1] \in Events /\ r[2] \in Users /\ r = <<r[1], r[2]>>
      BY DEF Rows
    <2>4. ASSUME NEW s \in Sessions, receipt' = ReceiptAfter(r[1], r[2], s), receipt' # receipt
          PROVE  Ledger!Acknowledge(r[1], r[2], s)
      BY <2>1, <2>2, <2>3, <2>4 DEF ReceiptAfter, Ledger!Acknowledge
    <2>5. CASE UNCHANGED receipt
      BY <1>1, <2>1, <2>5
    <2> QED BY <1>6, <2>3, <2>4, <2>5 DEF RecordReceipt, Ledger!Next
  <1>7. ASSUME NEW t \in Tasks, NEW e \in Events, ResolveOfflineBatch(t, e) PROVE [Ledger!Next]_Ledger!vars
    <2>1. PICK part \in SUBSET held[t] : queued' = queued \cup part
      BY <1>7 DEF ResolveOfflineBatch
    <2>2. part \in SUBSET Rows /\ \A r \in part : 0 < Ledger!Allowance(r)
      BY HeldIsAllowed
    <2>3. UNCHANGED <<status, st, att, delivered, receipt>>
      BY <1>7 DEF ResolveOfflineBatch
    <2>4. Ledger!Store(part)
      BY <2>1, <2>2, <2>3 DEF Ledger!Store
    <2> QED BY <2>2, <2>4, LedgerBooks DEF Ledger!Next
  <1>8. ASSUME NEW e \in Events, NEW n \in Nodes, Commit(e, n) PROVE Ledger!Next
    <2>1. PICK R \in Snapshots(e) :
            st' = [r \in Rows |-> IF r[1] = e /\ r[2] \in R THEN "pending" ELSE st[r]]
      BY <1>8 DEF Commit
    <2>2. R \in SUBSET Users /\ R # {}
      BY <2>1 DEF Snapshots
    <2>3. Ledger!Record(e, R)
      BY <1>8, <2>1, <2>2, LedgerBooks DEF Commit, Ledger!Record
    <2> QED BY <2>2, <2>3 DEF Ledger!Next
  <1>9. ASSUME NEW t \in Tasks, CleanupRetained(t) PROVE Ledger!Next
    <2>1. PICK E \in Batches(Expired) :
            /\ status' = [e \in Events |-> IF e \in E THEN "deleted" ELSE status[e]]
            /\ st' = [r \in Rows |-> IF r[1] \in E THEN "absent" ELSE st[r]]
            /\ att' = [r \in Rows |-> IF r[1] \in E THEN 0 ELSE att[r]]
      BY <1>9 DEF CleanupRetained
    <2>2. E \in SUBSET Events /\ \A e \in E : status[e] \in {"dispatched", "dead"}
      BY <2>1 DEF Batches, Expired
    <2>3. UNCHANGED <<delivered, queued, receipt>>
      BY <1>9 DEF CleanupRetained
    <2>4. Ledger!Remove(E)
      BY <2>1, <2>2, <2>3, LedgerBooks DEF Ledger!Remove
    <2> QED BY <2>2, <2>4 DEF Ledger!Next
  <1>10. ASSUME NEW t \in Tasks, ProcessOnce(t) \/ ClaimReplyLost(t) PROVE Ledger!Next
    <2>1. PICK S \in Batches({r \in Rows : Candidate(r)}) : ClaimRows(S)
      BY <1>10 DEF ProcessOnce, ClaimReplyLost
    <2>2. UNCHANGED sideVars
      BY <1>10 DEF ProcessOnce, ClaimReplyLost
    <2> QED BY <1>2, <2>1, <2>2, BatchOfCandidates
  <1>11. ASSUME NEW t \in Tasks, NEW e \in Events, DispatchEvent(t, e) PROVE [Ledger!Next]_Ledger!vars
    <2>1. ASSUME NEW S \in Batches({r \in Rows : r[1] = e /\ Candidate(r)}), ClaimRows(S)
          PROVE  Ledger!Next
      BY <1>2, <1>11, <2>1, BatchOfCandidates DEF DispatchEvent
    <2> QED BY <1>1, <1>11, <2>1 DEF DispatchEvent
  <1>12. ASSUME NEW t \in Tasks, TaskStep(t) PROVE [Ledger!Next]_Ledger!vars
    <2>1. ASSUME NEW r \in Rows, RouteOffline(t, r) PROVE [Ledger!Next]_Ledger!vars
      BY <1>1, <2>1 DEF RouteOffline
    <2>2. ASSUME Complete(t) \/ CompleteFails(t) PROVE [Ledger!Next]_Ledger!vars
      BY <1>1, <1>3, <2>2 DEF Complete, CompleteFails
    <2>3. ASSUME ReconcileEvents(t) \/ ReconcileEventsFails(t) PROVE [Ledger!Next]_Ledger!vars
      BY <1>1, <1>4, <2>3 DEF ReconcileEvents, ReconcileEventsFails
    <2> QED BY <1>5, <1>6, <1>7, <1>10, <1>11, <1>12, <2>1, <2>2, <2>3 DEF TaskStep
  <1>13. ASSUME NEW t \in Tasks, ReconcileTerminalParents(t) PROVE Ledger!Next
    BY <1>4, <1>13 DEF ReconcileTerminalParents
  <1>14. ASSUME UNCHANGED vars PROVE [Ledger!Next]_Ledger!vars
    BY <1>1, <1>14 DEF vars
  <1>15. ASSUME NEW r \in Rows, LeaseExpires(r) \/ BackoffElapses(r) PROVE [Ledger!Next]_Ledger!vars
    BY <1>1, <1>15 DEF LeaseExpires, BackoffElapses
  <1>16. ASSUME NEW n \in Nodes, Crash(n) \/ \E e \in Events : DispatchEventNoPermit(n, e)
         PROVE  [Ledger!Next]_Ledger!vars
    BY <1>1, <1>16 DEF Crash, DispatchEventNoPermit
  <1> QED BY <1>8, <1>9, <1>10, <1>12, <1>13, <1>14, <1>15, <1>16 DEF Next

\* The outbox of committed_timeline_delivery_service.rs, whatever its tasks,
\* nodes and lost replies do, is a ledger with one earned verdict per recipient:
\* claim is an attempt, complete_many writes verdicts that the pushes and the
\* queue account for, the reconciliations close, cleanup removes.
THEOREM OutboxImplementsLedger == Spec => ImplementsLedger
  <1>1. Init => LedgerInv /\ Ledger!Init
    <2>1. Init => HeldIsRow
      BY DEF Init, HeldIsRow
    <2>2. Init => Ledger!Init
      BY LedgerBooks DEF Init, Ledger!Init
    <2> QED BY <2>1, <2>2, InitDelivery DEF LedgerInv
  <1>2. LedgerInv /\ [Next]_vars => LedgerInv'
    BY NextDelivery, NextHeld DEF LedgerInv, DeliveryInv
  <1>3. LedgerInv /\ [Next]_vars => [Ledger!Next]_Ledger!vars
    BY NextDelivery, StepIsBooked DEF LedgerInv
  <1> QED BY <1>1, <1>2, <1>3, PTL DEF Spec, ImplementsLedger, Ledger!Spec

-----------------------------------------------------------------------------
(* The route that a task takes to a user's connections, for any number of    *)
(* processes, node names, connections and routes (ClusterRouting).           *)

CONSTANTS Processes, NameOf, Lines, HomeOf, Routes, OriginOf, MaxFaults
VARIABLES nodeLease, up, session, opening, closing, owners, renewing, queue, worker, responses,
          route, asks, granted, steady, faults
Cr == INSTANCE ClusterRouting WITH NodeOf <- NameOf, Sessions <- Lines, lease <- nodeLease

RouteSteps == {"new", "look up", "wait", "error", "sent", "retry", "offline", "dead"}
RouteRows == [step : RouteSteps, reached : BOOLEAN, failed : BOOLEAN]
Answers == [route : Routes, node : Cr!Names, reached : BOOLEAN, failed : BOOLEAN]
Serving(p) == worker[p].step \in {"send", "answer"}

RouteTypes ==
    /\ route \in [Routes -> RouteRows]
    /\ asks \in [Routes -> [Cr!Names -> {"none", "ask", "wait", "done"}]]
    /\ up = [p \in Processes |-> up[p]] /\ worker = [p \in Processes |-> worker[p]]
    /\ queue \in [Cr!Names -> Seq(Routes)] /\ responses \subseteq Answers
    /\ granted \subseteq owners

(* What a process is serving it serves as long as it is up. *)
ServersAreUp ==
    \A p \in Processes : Serving(p) =>
        /\ up[p] = "up" /\ worker[p].route \in Routes
        /\ worker[p].step = "answer" => worker[p].reached \in BOOLEAN /\ worker[p].failed \in BOOLEAN

Queued(n, r) == \E i \in 1 .. Len(queue[n]) : queue[n][i] = r

(* Nothing is under way for a route that has not looked up the owners yet. *)
Unasked ==
    \A r \in Routes : route[r].step \in {"new", "look up"} =>
        /\ \A n \in Cr!Names : ~ Queued(n, r)
        /\ \A p \in Processes : Serving(p) => worker[p].route # r
        /\ \A a \in responses : a.route # r

(* A connection that could be reached all the time has been tried, by its    *)
(* own process, or is going to be: its node is asked, whoever answers for    *)
(* the node has it, and no answer for the node comes to nothing.             *)
Heard(r) == route[r].reached \/ route[r].failed
TriedAtHome(r, s) == route[r].step # "new" /\ HomeOf[s] = OriginOf[r] => Heard(r)
NodeAsked(r, s) ==
    route[r].step \in {"wait", "offline"} /\ HomeOf[s] # OriginOf[r] =>
        /\ asks[r][Cr!Node(s)] # "none"
        /\ asks[r][Cr!Node(s)] = "done" => Heard(r)
AnswersCount(r, s) ==
    HomeOf[s] # OriginOf[r] =>
    \A a \in responses : a.route = r /\ a.node = Cr!Node(s) => a.reached \/ a.failed
WorkCounts(r, s) ==
    HomeOf[s] # OriginOf[r] =>
    \A p \in Processes : worker[p].step = "answer" /\ worker[p].route = r /\ NameOf[p] = Cr!Node(s) =>
        worker[p].reached \/ worker[p].failed
Tried(r, s) == TriedAtHome(r, s) /\ NodeAsked(r, s) /\ AnswersCount(r, s) /\ WorkCounts(r, s)
SteadyIsTried ==
    \A r \in Routes : \A s \in steady[r] :
        s \in Lines /\ Cr!Reachable(s, r) /\ Tried(r, s)

(* A route ends with "offline" when nobody was reached and nothing failed. *)
OfflineIsUnheard ==
    \A r \in Routes : route[r].step = "offline" =>
        ~ Heard(r) /\ \A n \in Cr!Names : asks[r][n] \in {"none", "done"}

RoutingInv ==
    RouteTypes /\ ServersAreUp /\ Unasked /\ SteadyIsTried /\ OfflineIsUnheard

LEMMA RoutingInit == ASSUME Cr!Init PROVE RoutingInv
  <1>1. RouteTypes
    BY DEF Cr!Init, RouteTypes, RouteRows, RouteSteps
  <1>2. ServersAreUp
    BY DEF Cr!Init, ServersAreUp, Serving, Cr!Idle
  <1>3. Unasked
    <2>1. ASSUME NEW n \in Cr!Names, NEW r PROVE ~ Queued(n, r)
      <3>1. Len(queue[n]) = 0
        BY DEF Cr!Init
      <3> QED BY <3>1 DEF Queued
    <2>2. responses = {} /\ \A p \in Processes : ~ Serving(p)
      BY DEF Cr!Init, Serving, Cr!Idle
    <2> QED BY <2>1, <2>2 DEF Unasked
  <1>4. SteadyIsTried /\ OfflineIsUnheard
    BY DEF Cr!Init, SteadyIsTried, OfflineIsUnheard
  <1> QED BY <1>1, <1>2, <1>3, <1>4 DEF RoutingInv

(* A connection that stays steady was so before, or the route had not begun. *)
LEMMA Remembered ==
    ASSUME RoutingInv, Cr!Remember, NEW r \in Routes, NEW s \in steady'[r]
    PROVE  /\ s \in Lines /\ Cr!Reachable(s, r)' /\ route'[r].step \in {"new", "look up", "wait", "offline"}
           /\ route[r].step = "new" \/ s \in steady[r]
  <1>1. steady'[r] = {x \in (IF route[r].step = "new" THEN Lines ELSE steady[r]) :
            Cr!Reachable(x, r)' /\ route'[r].step \in {"new", "look up", "wait", "offline"}}
    BY DEF Cr!Remember
  <1> QED BY <1>1 DEF RoutingInv, SteadyIsTried


LEMMA SteadyKeeps ==
    ASSUME RoutingInv, Cr!Remember,
           \A r \in Routes : \A s \in Lines :
               /\ Cr!Reachable(s, r)' /\ route'[r].step \in {"new", "look up", "wait", "offline"}
               /\ route[r].step = "new" \/ s \in steady[r]
               => Tried(r, s)'
    PROVE  SteadyIsTried'
  BY Remembered DEF SteadyIsTried

(* Nothing that was under way for a route that had not begun. *)
LEMMA NewIsTried ==
    ASSUME RoutingInv, NEW r \in Routes, NEW s \in Lines, route[r].step = "new"
    PROVE  AnswersCount(r, s) /\ WorkCounts(r, s) /\ TriedAtHome(r, s) /\ NodeAsked(r, s)
  BY DEF RoutingInv, Unasked, AnswersCount, WorkCounts, TriedAtHome, NodeAsked, Serving

LEMMA TriedBefore ==
    ASSUME RoutingInv, NEW r \in Routes, NEW s \in Lines, route[r].step = "new" \/ s \in steady[r]
    PROVE  Tried(r, s) /\ (route[r].step # "new" => Cr!Reachable(s, r))
  BY NewIsTried DEF RoutingInv, SteadyIsTried, Tried

(* Steps that move connections and leases only. *)
LEMMA OwnershipKeeps ==
    ASSUME RoutingInv, Cr!Remember, UNCHANGED <<route, asks, queue, worker, responses>>, granted' \subseteq owners',
           up' = [p \in Processes |-> up'[p]], \A p \in Processes : up[p] = "up" => up'[p] = "up"
    PROVE  RoutingInv'
  <1>0. \A n \in Cr!Names, r \in Routes : Queued(n, r)' <=> Queued(n, r)
    BY DEF Queued
  <1>1. RouteTypes' /\ ServersAreUp' /\ Unasked' /\ OfflineIsUnheard'
    BY <1>0 DEF RoutingInv, RouteTypes, ServersAreUp, Unasked, OfflineIsUnheard, Heard, Serving
  <1>2. \A r \in Routes : \A s \in Lines : Tried(r, s) => Tried(r, s)'
    BY DEF Tried, TriedAtHome, NodeAsked, AnswersCount, WorkCounts, Heard
  <1>3. SteadyIsTried'
    BY <1>2, TriedBefore, SteadyKeeps
  <1> QED BY <1>1, <1>3 DEF RoutingInv

(* A process that ends takes what it was serving with it, and its routes. *)
LEMMA DownKeeps ==
    ASSUME RoutingInv, Cr!Remember, NEW p \in Processes, Cr!Down(p)
    PROVE  RoutingInv'
  <1>1. /\ up' = [up EXCEPT ![p] = "down"] /\ worker' = [worker EXCEPT ![p] = Cr!Idle]
        /\ route' = [r \in Routes |-> IF OriginOf[r] = p THEN [route[r] EXCEPT !.step = "dead"] ELSE route[r]]
        /\ responses' \subseteq responses /\ UNCHANGED <<owners, granted, queue, asks>>
    BY DEF Cr!Down
  <1>2. /\ \A q \in Processes \ {p} : up'[q] = up[q] /\ worker'[q] = worker[q]
        /\ worker'[p] = Cr!Idle /\ Cr!Idle.step = "idle"
    BY <1>1 DEF RoutingInv, RouteTypes, Cr!Idle
  <1>3. \A r \in Routes : route[r] \in RouteRows /\ (route'[r] = route[r] \/ (route'[r].step = "dead" /\ route'[r] \in RouteRows))
    BY <1>1 DEF RoutingInv, RouteTypes, RouteRows, RouteSteps
  <1>4. RouteTypes'
    <2>1. route' \in [Routes -> RouteRows]
      BY <1>1, <1>3
    <2>2. up' = [q \in Processes |-> up'[q]] /\ worker' = [q \in Processes |-> worker'[q]]
      BY <1>1 DEF RoutingInv, RouteTypes
    <2> QED BY <1>1, <2>1, <2>2 DEF RoutingInv, RouteTypes
  <1>5. ServersAreUp'
    BY <1>2 DEF RoutingInv, ServersAreUp, Serving
  <1>6. Unasked'
    <2>1. \A n \in Cr!Names, r \in Routes : Queued(n, r)' <=> Queued(n, r)
      BY <1>1 DEF Queued
    <2>2. \A q \in Processes : Serving(q)' => Serving(q) /\ worker'[q] = worker[q]
      BY <1>2 DEF Serving
    <2>3. \A r \in Routes : route'[r].step \in {"new", "look up"} => route[r].step \in {"new", "look up"}
      BY <1>3
    <2> QED BY <1>1, <2>1, <2>2, <2>3 DEF RoutingInv, Unasked
  <1>7. OfflineIsUnheard'
    BY <1>1, <1>3 DEF RoutingInv, OfflineIsUnheard, Heard
  <1>8. ASSUME NEW r \in Routes, NEW s \in Lines, Tried(r, s), route'[r].step # "dead" PROVE Tried(r, s)'
    <2>1. route'[r] = route[r]
      BY <1>3, <1>8
    <2>2. TriedAtHome(r, s)' /\ NodeAsked(r, s)' /\ AnswersCount(r, s)'
      BY <1>1, <1>8, <2>1 DEF Tried, TriedAtHome, NodeAsked, AnswersCount, Heard
    <2>3. WorkCounts(r, s)'
      BY <1>2, <1>8 DEF Tried, WorkCounts
    <2> QED BY <2>2, <2>3 DEF Tried
  <1>9. SteadyIsTried'
    BY <1>8, TriedBefore, SteadyKeeps
  <1> QED BY <1>4, <1>5, <1>6, <1>7, <1>9 DEF RoutingInv


LEMMA StartKeeps ==
    ASSUME RoutingInv, Cr!Remember, NEW r \in Routes, Cr!Start(r)
    PROVE  RoutingInv'
  <1>1. PICK reached \in BOOLEAN, failed \in BOOLEAN :
            /\ Cr!Sent(OriginOf[r], reached, failed)
            /\ route' = [route EXCEPT ![r] = [step |-> "look up", reached |-> reached, failed |-> failed]]
    BY DEF Cr!Start
  <1>2. route[r].step = "new" /\ UNCHANGED <<up, session, owners, granted, queue, worker, responses, asks>>
    BY DEF Cr!Start, Cr!identity, Cr!ownership, Cr!bus
  <1>3. /\ route' \in [Routes -> RouteRows] /\ route'[r].step = "look up"
        /\ route'[r].reached = reached /\ route'[r].failed = failed
        /\ \A q \in Routes \ {r} : route'[q] = route[q]
    BY <1>1 DEF RoutingInv, RouteTypes, RouteRows, RouteSteps
  <1>4. \A n \in Cr!Names, q \in Routes : Queued(n, q)' <=> Queued(n, q)
    BY <1>2 DEF Queued
  <1>5. \A p \in Processes : Serving(p)' <=> Serving(p)
    BY <1>2 DEF Serving
  <1>6. RouteTypes' /\ ServersAreUp'
    BY <1>2, <1>3, <1>5 DEF RoutingInv, RouteTypes, ServersAreUp
  <1>7. Unasked'
    <2>1. \A q \in Routes : route'[q].step \in {"new", "look up"} => route[q].step \in {"new", "look up"}
      BY <1>2, <1>3
    <2> QED BY <1>2, <1>4, <1>5, <2>1 DEF RoutingInv, Unasked
  <1>8. OfflineIsUnheard'
    BY <1>2, <1>3 DEF RoutingInv, OfflineIsUnheard, Heard
  <1>9. ASSUME NEW s \in Lines, Cr!Reachable(s, r)' PROVE Tried(r, s)'
    <2>1. AnswersCount(r, s)' /\ WorkCounts(r, s)' /\ NodeAsked(r, s)'
      BY <1>2, <1>3, NewIsTried DEF AnswersCount, WorkCounts, NodeAsked
    <2>2. ASSUME HomeOf[s] = OriginOf[r] PROVE reached \/ failed
      <3>1. s \in Cr!Connected(OriginOf[r])
        BY <1>2, <1>9, <2>2 DEF Cr!Reachable, Cr!Connected
      <3> QED BY <1>1, <3>1 DEF Cr!Sent
    <2>3. TriedAtHome(r, s)'
      BY <1>3, <2>2 DEF TriedAtHome, Heard
    <2> QED BY <2>1, <2>3 DEF Tried
  <1>10. ASSUME NEW q \in Routes \ {r}, NEW s \in Lines, Tried(q, s) PROVE Tried(q, s)'
    BY <1>2, <1>3, <1>10 DEF Tried, TriedAtHome, NodeAsked, AnswersCount, WorkCounts, Heard
  <1>11. SteadyIsTried'
    BY <1>9, <1>10, TriedBefore, SteadyKeeps
  <1> QED BY <1>6, <1>7, <1>8, <1>11 DEF RoutingInv

(* Steps after the look-up: a route only goes on, and nothing is added for   *)
(* another route.                                                            *)
LEMMA WaitingKeeps ==
    ASSUME RoutingInv, Cr!Remember, NEW r \in Routes, route[r].step \in {"look up", "wait"},
           route' \in [Routes -> RouteRows], asks' \in [Routes -> [Cr!Names -> {"none", "ask", "wait", "done"}]],
           \A q \in Routes \ {r} : route'[q] = route[q] /\ asks'[q] = asks[q],
           route'[r].step \notin {"new", "look up"}, Heard(r) => Heard(r)',
           UNCHANGED <<up, owners, granted, worker>>, queue' \in [Cr!Names -> Seq(Routes)], responses' \subseteq responses,
           \A n \in Cr!Names, q \in Routes \ {r} : Queued(n, q)' => Queued(n, q),
           route'[r].step = "offline" => ~ Heard(r)' /\ \A n \in Cr!Names : asks'[r][n] \in {"none", "done"},
           \A s \in steady[r] : s \in Lines /\ Cr!Reachable(s, r)' => NodeAsked(r, s)'
    PROVE  RoutingInv'
  <1>1. \A p \in Processes : Serving(p)' <=> Serving(p)
    BY DEF Serving
  <1>2. RouteTypes' /\ ServersAreUp'
    BY <1>1 DEF RoutingInv, RouteTypes, ServersAreUp
  <1>3. Unasked'
    BY <1>1 DEF RoutingInv, Unasked
  <1>4. OfflineIsUnheard'
    BY DEF RoutingInv, OfflineIsUnheard, Heard
  <1>5. ASSUME NEW q \in Routes \ {r}, NEW s \in Lines, Tried(q, s) PROVE Tried(q, s)'
    BY <1>5 DEF Tried, TriedAtHome, NodeAsked, AnswersCount, WorkCounts, Heard
  <1>6. ASSUME NEW s \in Lines, s \in steady[r], Cr!Reachable(s, r)' PROVE Tried(r, s)'
    <2>1. Tried(r, s) /\ NodeAsked(r, s)'
      BY <1>6, TriedBefore
    <2>2. TriedAtHome(r, s)' /\ AnswersCount(r, s)' /\ WorkCounts(r, s)'
      BY <2>1 DEF Tried, TriedAtHome, AnswersCount, WorkCounts
    <2> QED BY <2>1, <2>2 DEF Tried
  <1>7. SteadyIsTried'
    BY <1>5, <1>6, TriedBefore, SteadyKeeps
  <1> QED BY <1>2, <1>3, <1>4, <1>7 DEF RoutingInv


(* Every node of an owner lease but the route's own is asked. *)
LEMMA LookUpKeeps ==
    ASSUME RoutingInv, Cr!Remember, Cr!ConnectionsOfProcesses, NEW r \in Routes, Cr!LookUp(r)
    PROVE  RoutingInv'
  <1>1. route[r].step = "look up" /\ UNCHANGED <<up, session, owners, granted, queue, worker, responses>>
    BY DEF Cr!LookUp, Cr!identity, Cr!ownership, Cr!bus
  <1>2. \A n \in Cr!Names, q \in Routes \ {r} : Queued(n, q)' => Queued(n, q)
    BY <1>1 DEF Queued
  <1>3. route[r] \in RouteRows /\ queue \in [Cr!Names -> Seq(Routes)]
    BY DEF RoutingInv, RouteTypes
  <1>f. PICK f : f = [n \in Cr!Names |-> IF n \in Cr!OwnerNodes(r) THEN "ask" ELSE "none"]
    OBVIOUS
  <1>g. PICK step \in {"wait", "error"} :
            /\ route' = [route EXCEPT ![r].step = step]
            /\ (step = "wait" /\ asks' = [asks EXCEPT ![r] = f]) \/ (step = "error" /\ asks' = asks)
    BY <1>f DEF Cr!LookUp
  <1>h. f \in [Cr!Names -> {"none", "ask", "wait", "done"}]
    BY <1>f
  <1>4. \A q \in Routes \ {r} : route'[q] = route[q] /\ asks'[q] = asks[q]
    BY <1>g DEF RoutingInv, RouteTypes
  <1>5. /\ route' \in [Routes -> RouteRows] /\ route'[r].step = step
        /\ route'[r].reached = route[r].reached /\ route'[r].failed = route[r].failed
    BY <1>3, <1>g DEF RoutingInv, RouteTypes, RouteRows, RouteSteps
  <1>6. asks' \in [Routes -> [Cr!Names -> {"none", "ask", "wait", "done"}]]
    BY <1>g, <1>h DEF RoutingInv, RouteTypes
  <1>7. ASSUME NEW s \in steady[r], s \in Lines, Cr!Reachable(s, r)' PROVE NodeAsked(r, s)'
    <2>1. CASE route'[r].step = "error"
      BY <2>1 DEF NodeAsked
    <2>2. CASE route'[r].step = "wait" /\ HomeOf[s] # OriginOf[r]
      <3>1. asks'[r] = f
        BY <1>5, <1>g, <2>2 DEF RoutingInv, RouteTypes
      <3>2. s \in owners /\ Cr!Node(s) # NameOf[OriginOf[r]]
        BY <1>1, <1>7, <2>2 DEF Cr!Reachable, RoutingInv, RouteTypes
      <3>3. Cr!Node(s) \in Cr!Names /\ Cr!Node(s) \in Cr!OwnerNodes(r)
        BY <1>7, <3>2 DEF Cr!Node, Cr!Names, Cr!OwnerNodes, Cr!ConnectionsOfProcesses
      <3>4. asks'[r][Cr!Node(s)] = "ask"
        BY <1>f, <3>1, <3>3
      <3> QED BY <3>4 DEF NodeAsked
    <2>3. CASE HomeOf[s] = OriginOf[r]
      BY <2>3 DEF NodeAsked
    <2> QED BY <1>5, <2>1, <2>2, <2>3
  <1>8. Heard(r) => Heard(r)'
    BY <1>5 DEF Heard
  <1> QED BY <1>1, <1>2, <1>3, <1>4, <1>5, <1>6, <1>7, <1>8, WaitingKeeps

LEMMA ConcludeKeeps ==
    ASSUME RoutingInv, Cr!Remember, NEW r \in Routes, Cr!Conclude(r)
    PROVE  RoutingInv'
  <1>1. /\ route[r].step = "wait" /\ \A n \in Cr!Names : asks[r][n] \in {"none", "done"}
        /\ UNCHANGED <<up, owners, granted, queue, worker, responses, asks>>
        /\ route' = [route EXCEPT ![r].step = Cr!Verdict(r)]
    BY DEF Cr!Conclude, Cr!identity, Cr!ownership, Cr!bus
  <1>2. \A n \in Cr!Names, q \in Routes \ {r} : Queued(n, q)' => Queued(n, q)
    BY <1>1 DEF Queued
  <1>3. route[r] \in RouteRows /\ queue \in [Cr!Names -> Seq(Routes)] /\ asks \in [Routes -> [Cr!Names -> {"none", "ask", "wait", "done"}]]
    BY DEF RoutingInv, RouteTypes
  <1>4. Cr!Verdict(r) \in {"sent", "retry", "offline"} /\ (Cr!Verdict(r) = "offline" => ~ Heard(r))
    BY <1>3 DEF Cr!Verdict, Heard, RouteRows
  <1>5. /\ route' \in [Routes -> RouteRows] /\ route'[r].step = Cr!Verdict(r)
        /\ route'[r].reached = route[r].reached /\ route'[r].failed = route[r].failed
        /\ \A q \in Routes \ {r} : route'[q] = route[q]
    BY <1>1, <1>3, <1>4 DEF RoutingInv, RouteTypes, RouteRows, RouteSteps
  <1>6. Heard(r)' <=> Heard(r)
    BY <1>5 DEF Heard
  <1>7. ASSUME NEW s \in steady[r], s \in Lines, Cr!Reachable(s, r)' PROVE NodeAsked(r, s)'
    <2>1. NodeAsked(r, s)
      BY <1>7, TriedBefore DEF Tried
    <2> QED BY <1>1, <1>6, <2>1 DEF NodeAsked
  <1> QED BY <1>1, <1>2, <1>3, <1>4, <1>5, <1>6, <1>7, WaitingKeeps

(* A node is done with: every steady connection of it has counted. *)
LEMMA OutcomeKeeps ==
    ASSUME RoutingInv, Cr!Remember, NEW r \in Routes, NEW n \in Cr!Names, NEW reached \in BOOLEAN, NEW failed \in BOOLEAN,
           route[r].step = "wait", Cr!Outcome(r, n, reached, failed),
           UNCHANGED <<up, owners, granted, queue, worker>>, responses' \subseteq responses,
           \A s \in steady[r] : s \in Lines /\ Cr!Node(s) = n /\ HomeOf[s] # OriginOf[r] => reached \/ failed
    PROVE  RoutingInv'
  <1>1. /\ asks' = [asks EXCEPT ![r][n] = "done"]
        /\ route' = [route EXCEPT ![r] = [step |-> route[r].step, reached |-> (route[r].reached \/ reached), failed |-> (route[r].failed \/ failed)]]
    BY DEF Cr!Outcome
  <1>2. \A m \in Cr!Names, q \in Routes \ {r} : Queued(m, q)' => Queued(m, q)
    BY DEF Queued
  <1>3. route \in [Routes -> RouteRows] /\ route[r] \in RouteRows /\ queue \in [Cr!Names -> Seq(Routes)]
        /\ asks \in [Routes -> [Cr!Names -> {"none", "ask", "wait", "done"}]]
    BY DEF RoutingInv, RouteTypes
  <1>4. /\ asks' \in [Routes -> [Cr!Names -> {"none", "ask", "wait", "done"}]]
        /\ asks'[r][n] = "done" /\ \A m \in Cr!Names \ {n} : asks'[r][m] = asks[r][m]
        /\ \A q \in Routes \ {r} : asks'[q] = asks[q]
    BY <1>1, <1>3
  <1>5. [step |-> route[r].step, reached |-> (route[r].reached \/ reached), failed |-> (route[r].failed \/ failed)] \in RouteRows
    BY <1>1, <1>3 DEF RouteRows
  <1>6. /\ route' \in [Routes -> RouteRows] /\ route'[r].step = "wait"
        /\ route'[r].reached = (route[r].reached \/ reached) /\ route'[r].failed = (route[r].failed \/ failed)
        /\ \A q \in Routes \ {r} : route'[q] = route[q]
    BY <1>1, <1>3, <1>5
  <1>7. Heard(r)' <=> Heard(r) \/ reached \/ failed
    BY <1>6 DEF Heard
  <1>8. ASSUME NEW s \in steady[r], s \in Lines, Cr!Reachable(s, r)' PROVE NodeAsked(r, s)'
    <2>1. NodeAsked(r, s)
      BY <1>8, TriedBefore DEF Tried
    <2>2. CASE Cr!Node(s) = n
      BY <1>4, <1>7, <1>8, <2>2 DEF NodeAsked
    <2>3. CASE Cr!Node(s) # n
      <3>1. asks'[r][Cr!Node(s)] = asks[r][Cr!Node(s)]
        BY <1>1, <1>3, <2>3
      <3> QED BY <1>6, <1>7, <2>1, <3>1 DEF NodeAsked
    <2> QED BY <2>2, <2>3
  <1> QED BY <1>2, <1>3, <1>4, <1>6, <1>7, <1>8, WaitingKeeps

LEMMA AskKeeps ==
    ASSUME RoutingInv, Cr!Remember, NEW r \in Routes, NEW n \in Cr!Names,
           Cr!Ask(r, n) \/ Cr!Receive(r, n) \/ Cr!GiveUp(r, n)
    PROVE  RoutingInv'
  <1>t. /\ route[r] \in RouteRows /\ queue \in [Cr!Names -> Seq(Routes)] /\ responses \subseteq Answers
        /\ asks \in [Routes -> [Cr!Names -> {"none", "ask", "wait", "done"}]]
    BY DEF RoutingInv, RouteTypes
  <1>w. route[r].step = "wait" /\ UNCHANGED <<up, owners, granted, worker>>
    BY DEF Cr!Ask, Cr!Receive, Cr!GiveUp, Cr!Waits, Cr!identity, Cr!ownership
  <1>1. ASSUME asks[r][n] = "ask", queue' = [queue EXCEPT ![n] = Append(@, r)], asks' = [asks EXCEPT ![r][n] = "wait"],
               UNCHANGED <<route, responses>>
        PROVE  RoutingInv'
    <2>1. queue'[n] = Append(queue[n], r) /\ queue[n] \in Seq(Routes) /\ \A m \in Cr!Names \ {n} : queue'[m] = queue[m]
      BY <1>1, <1>t
    <2>2. queue' \in [Cr!Names -> Seq(Routes)]
      BY <1>1, <1>t, <2>1
    <2>3. ASSUME NEW m \in Cr!Names, NEW q \in Routes \ {r}, Queued(m, q)' PROVE Queued(m, q)
      <3>1. PICK i \in 1 .. Len(queue'[m]) : queue'[m][i] = q
        BY <2>3 DEF Queued
      <3>2. CASE m = n
        <4>1. Len(queue'[m]) = Len(queue[m]) + 1 /\ queue'[m][Len(queue[m]) + 1] = r /\ Len(queue[m]) \in Nat
              /\ \A k \in 1 .. Len(queue[m]) : queue'[m][k] = queue[m][k]
          BY <2>1, <3>2
        <4>2. i \in 1 .. Len(queue[m])
          BY <2>3, <3>1, <4>1
        <4> QED BY <3>1, <4>1, <4>2 DEF Queued
      <3>3. CASE m # n
        <4>1. queue'[m] = queue[m]
          BY <2>1, <3>3
        <4> QED BY <3>1, <4>1 DEF Queued
      <3> QED BY <3>2, <3>3
    <2>4. /\ asks' \in [Routes -> [Cr!Names -> {"none", "ask", "wait", "done"}]] /\ asks'[r][n] = "wait"
          /\ \A m : m # n => asks'[r][m] = asks[r][m]
          /\ \A q \in Routes \ {r} : asks'[q] = asks[q]
      BY <1>1, <1>t
    <2>5. Heard(r)' <=> Heard(r)
      BY <1>1 DEF Heard
    <2>6. ASSUME NEW s \in steady[r], s \in Lines, Cr!Reachable(s, r)' PROVE NodeAsked(r, s)'
      <3>1. NodeAsked(r, s)
        BY <2>6, TriedBefore DEF Tried
      <3> QED BY <1>1, <1>w, <2>4, <2>5, <3>1 DEF NodeAsked
    <2>7. route \in [Routes -> RouteRows]
      BY DEF RoutingInv, RouteTypes
    <2> QED BY <1>1, <1>w, <2>2, <2>3, <2>4, <2>5, <2>6, <2>7, WaitingKeeps
  <1>2. ASSUME Cr!Outcome(r, n, FALSE, TRUE), queue' = queue, responses' \subseteq responses PROVE RoutingInv'
    BY <1>2, <1>w, OutcomeKeeps
  <1>3. ASSUME Cr!Receive(r, n) PROVE RoutingInv'
    <2>1. PICK a \in responses : a.route = r /\ a.node = n /\ Cr!Outcome(r, n, a.reached, a.failed) /\ responses' = responses \ {a}
      BY <1>3 DEF Cr!Receive
    <2>2. a.reached \in BOOLEAN /\ a.failed \in BOOLEAN /\ queue' = queue
      BY <1>3, <1>t, <2>1 DEF Answers, Cr!Receive
    <2>3. \A s \in steady[r] : s \in Lines /\ Cr!Node(s) = n /\ HomeOf[s] # OriginOf[r] => a.reached \/ a.failed
      BY <2>1 DEF RoutingInv, SteadyIsTried, Tried, AnswersCount
    <2> QED BY <1>w, <2>1, <2>2, <2>3, OutcomeKeeps
  <1>4. ASSUME Cr!Ask(r, n) PROVE RoutingInv'
    BY <1>1, <1>2, <1>4 DEF Cr!Ask
  <1>5. ASSUME Cr!GiveUp(r, n) PROVE RoutingInv'
    BY <1>2, <1>5 DEF Cr!GiveUp
  <1> QED BY <1>3, <1>4, <1>5


(* The worker of a process that is up takes a request that was queued. *)
LEMMA PopKeeps ==
    ASSUME RoutingInv, Cr!Remember, NEW p \in Processes, Cr!Pop(p)
    PROVE  RoutingInv'
  <1>1. PICK n \in Cr!Names : n = NameOf[p]
    BY DEF Cr!Names
  <1>2. /\ up[p] = "up" /\ queue[n] # <<>> /\ queue' = [queue EXCEPT ![n] = Tail(@)]
        /\ UNCHANGED <<up, owners, granted, responses, route, asks>>
        /\ worker' = [worker EXCEPT ![p] = [step |-> "send", route |-> Head(queue[n])]] \/ worker' = worker
    BY <1>1 DEF Cr!Pop, Cr!identity, Cr!ownership, Cr!routing
  <1>3. queue \in [Cr!Names -> Seq(Routes)] /\ queue[n] \in Seq(Routes) /\ worker = [q \in Processes |-> worker[q]]
    BY DEF RoutingInv, RouteTypes
  <1>4. PICK x \in Routes : x = Head(queue[n])
    BY <1>2, <1>3
  <1>5. PICK w : w = [step |-> "send", route |-> x]
    OBVIOUS
  <1>6. w.step = "send" /\ w.route = x /\ (worker' = [worker EXCEPT ![p] = w] \/ worker' = worker)
    BY <1>2, <1>4, <1>5
  <1>7. /\ worker' = [q \in Processes |-> worker'[q]]
        /\ \A q \in Processes : worker'[q] = worker[q] \/ (q = p /\ worker'[q] = w)
    BY <1>3, <1>6
  <1>8. /\ queue'[n] = Tail(queue[n]) /\ \A m \in Cr!Names \ {n} : queue'[m] = queue[m]
        /\ queue' \in [Cr!Names -> Seq(Routes)]
    BY <1>2, <1>3
  <1>9. Queued(n, x)
    <2>1. Len(queue[n]) \in Nat \ {0} /\ queue[n][1] = x
      BY <1>2, <1>3, <1>4
    <2>2. 1 \in 1 .. Len(queue[n])
      BY <2>1
    <2> QED BY <2>1, <2>2 DEF Queued
  <1>10. ASSUME NEW m \in Cr!Names, NEW q \in Routes, Queued(m, q)' PROVE Queued(m, q)
    <2>1. PICK i \in 1 .. Len(queue'[m]) : queue'[m][i] = q
      BY <1>10 DEF Queued
    <2>2. CASE m = n
      <3>1. Len(queue[m]) \in Nat /\ Len(queue'[m]) = Len(queue[m]) - 1 /\ queue'[m][i] = queue[m][i + 1]
        BY <1>2, <1>3, <1>8, <2>1, <2>2
      <3>2. i + 1 \in 1 .. Len(queue[m])
        BY <2>1, <3>1
      <3> QED BY <2>1, <3>1, <3>2 DEF Queued
    <2>3. CASE m # n
      <3>1. queue'[m] = queue[m]
        BY <1>8, <2>3
      <3> QED BY <2>1, <3>1 DEF Queued
    <2> QED BY <2>2, <2>3
  <1>11. RouteTypes'
    BY <1>2, <1>7, <1>8 DEF RoutingInv, RouteTypes
  <1>12. ServersAreUp'
    BY <1>2, <1>6, <1>7 DEF RoutingInv, ServersAreUp, Serving
  <1>13. Unasked'
    <2>1. \A q \in Processes : Serving(q)' => (Serving(q) /\ worker'[q].route = worker[q].route) \/ worker'[q].route = x
      BY <1>6, <1>7 DEF Serving
    <2> QED BY <1>2, <1>9, <1>10, <2>1 DEF RoutingInv, Unasked
  <1>14. OfflineIsUnheard'
    BY <1>2 DEF RoutingInv, OfflineIsUnheard, Heard
  <1>15. ASSUME NEW r \in Routes, NEW s \in Lines, Tried(r, s) PROVE Tried(r, s)'
    <2>1. TriedAtHome(r, s)' /\ NodeAsked(r, s)' /\ AnswersCount(r, s)'
      BY <1>2, <1>15 DEF Tried, TriedAtHome, NodeAsked, AnswersCount, Heard
    <2>2. WorkCounts(r, s)'
      BY <1>6, <1>7, <1>15 DEF Tried, WorkCounts
    <2> QED BY <2>1, <2>2 DEF Tried
  <1>16. SteadyIsTried'
    BY <1>15, TriedBefore, SteadyKeeps
  <1> QED BY <1>11, <1>12, <1>13, <1>14, <1>16 DEF RoutingInv

(* Of the processes of a steady connection's node only its own is up, so it  *)
(* is the one that sends, and to that connection too.                        *)
LEMMA DeliverKeeps ==
    ASSUME RoutingInv, Cr!Remember, NEW p \in Processes, Cr!Deliver(p)
    PROVE  RoutingInv'
  <1>1. PICK reached \in BOOLEAN, failed \in BOOLEAN :
            /\ Cr!Sent(p, reached, failed)
            /\ worker' = [worker EXCEPT ![p] =
                  [step |-> "answer", route |-> worker[p].route, reached |-> reached, failed |-> failed]]
    BY DEF Cr!Deliver
  <1>2. worker[p].step = "send" /\ UNCHANGED <<up, session, owners, granted, queue, responses, route, asks>>
    BY DEF Cr!Deliver, Cr!identity, Cr!ownership, Cr!routing
  <1>3. PICK x \in Routes : x = worker[p].route /\ up[p] = "up" /\ Serving(p)
    BY <1>2 DEF RoutingInv, ServersAreUp, Serving
  <1>4. PICK w : w = [step |-> "answer", route |-> x, reached |-> reached, failed |-> failed]
    OBVIOUS
  <1>5. /\ w.step = "answer" /\ w.route = x /\ w.reached = reached /\ w.failed = failed /\ worker'[p] = w
        /\ worker' = [q \in Processes |-> worker'[q]] /\ \A q \in Processes \ {p} : worker'[q] = worker[q]
    BY <1>1, <1>3, <1>4 DEF RoutingInv, RouteTypes
  <1>6. RouteTypes'
    BY <1>2, <1>5 DEF RoutingInv, RouteTypes
  <1>7. ServersAreUp'
    BY <1>2, <1>3, <1>5 DEF RoutingInv, ServersAreUp, Serving
  <1>8. Unasked'
    <2>1. \A q \in Processes : Serving(q)' => Serving(q) /\ worker'[q].route = worker[q].route
      BY <1>3, <1>5 DEF Serving
    <2>2. \A n \in Cr!Names, q \in Routes : Queued(n, q)' <=> Queued(n, q)
      BY <1>2 DEF Queued
    <2> QED BY <1>2, <2>1, <2>2 DEF RoutingInv, Unasked
  <1>9. OfflineIsUnheard'
    BY <1>2 DEF RoutingInv, OfflineIsUnheard, Heard
  <1>10. ASSUME NEW r \in Routes, NEW s \in Lines, Tried(r, s), Cr!Reachable(s, r)' PROVE Tried(r, s)'
    <2>1. TriedAtHome(r, s)' /\ NodeAsked(r, s)' /\ AnswersCount(r, s)'
      BY <1>2, <1>10 DEF Tried, TriedAtHome, NodeAsked, AnswersCount, Heard
    <2>2. ASSUME HomeOf[s] # OriginOf[r], NameOf[p] = Cr!Node(s) PROVE reached \/ failed
      <3>1. p = HomeOf[s] /\ session[s] = "live"
        BY <1>2, <1>3, <1>10, <2>2 DEF Cr!Reachable
      <3>2. s \in Cr!Connected(p)
        BY <3>1 DEF Cr!Connected
      <3> QED BY <1>1, <3>2 DEF Cr!Sent
    <2>3. WorkCounts(r, s)'
      BY <1>5, <1>10, <2>2 DEF Tried, WorkCounts
    <2> QED BY <2>1, <2>3 DEF Tried
  <1>11. SteadyIsTried'
    BY <1>10, TriedBefore, SteadyKeeps
  <1> QED BY <1>6, <1>7, <1>8, <1>9, <1>11 DEF RoutingInv

LEMMA AnswerKeeps ==
    ASSUME RoutingInv, Cr!Remember, NEW p \in Processes, Cr!Answer(p)
    PROVE  RoutingInv'
  <1>1. PICK n \in Cr!Names : n = NameOf[p]
    BY DEF Cr!Names
  <1>2. worker[p].step = "answer" /\ Serving(p) /\ worker[p].reached \in BOOLEAN /\ worker[p].failed \in BOOLEAN
    BY DEF Cr!Answer, Serving, RoutingInv, ServersAreUp
  <1>3. PICK x \in Routes, reached \in BOOLEAN, failed \in BOOLEAN :
            x = worker[p].route /\ reached = worker[p].reached /\ failed = worker[p].failed
    BY <1>2 DEF RoutingInv, ServersAreUp
  <1>4. PICK a : a = [route |-> x, node |-> n, reached |-> reached, failed |-> failed]
    OBVIOUS
  <1>5. a \in Answers /\ a.route = x /\ a.node = n /\ a.reached = reached /\ a.failed = failed
    BY <1>4 DEF Answers
  <1>6. /\ responses' \subseteq responses \cup {a} /\ (~ Cr!Waits(x, n) => responses' \subseteq responses)
        /\ worker' = [worker EXCEPT ![p] = Cr!Idle]
        /\ UNCHANGED <<up, session, owners, granted, queue, route, asks>>
    BY <1>1, <1>3, <1>4 DEF Cr!Answer, Cr!identity, Cr!ownership, Cr!routing
  <1>7. /\ worker'[p] = Cr!Idle /\ Cr!Idle.step = "idle"
        /\ worker' = [q \in Processes |-> worker'[q]] /\ \A q \in Processes \ {p} : worker'[q] = worker[q]
    BY <1>6 DEF RoutingInv, RouteTypes, Cr!Idle
  <1>8. RouteTypes'
    BY <1>5, <1>6, <1>7 DEF RoutingInv, RouteTypes
  <1>9. \A q \in Processes : Serving(q)' => Serving(q) /\ worker'[q] = worker[q]
    BY <1>7 DEF Serving
  <1>10. ServersAreUp'
    BY <1>6, <1>9 DEF RoutingInv, ServersAreUp
  <1>11. Unasked'
    <2>1. \A m \in Cr!Names, q \in Routes : Queued(m, q)' <=> Queued(m, q)
      BY <1>6 DEF Queued
    <2>2. Cr!Waits(x, n) => route[x].step \notin {"new", "look up"}
      BY DEF Cr!Waits
    <2> QED BY <1>5, <1>6, <1>9, <2>1, <2>2 DEF RoutingInv, Unasked
  <1>12. OfflineIsUnheard'
    BY <1>6 DEF RoutingInv, OfflineIsUnheard, Heard
  <1>13. ASSUME NEW r \in Routes, NEW s \in Lines, Tried(r, s) PROVE Tried(r, s)'
    <2>1. TriedAtHome(r, s)' /\ NodeAsked(r, s)'
      BY <1>6, <1>13 DEF Tried, TriedAtHome, NodeAsked, Heard
    <2>2. AnswersCount(r, s)'
      BY <1>1, <1>2, <1>3, <1>5, <1>6, <1>13 DEF Tried, AnswersCount, WorkCounts
    <2>3. WorkCounts(r, s)'
      BY <1>7, <1>13 DEF Tried, WorkCounts
    <2> QED BY <2>1, <2>2, <2>3 DEF Tried
  <1>14. SteadyIsTried'
    BY <1>13, TriedBefore, SteadyKeeps
  <1> QED BY <1>8, <1>10, <1>11, <1>12, <1>14 DEF RoutingInv

LEMMA RoutingNext == ASSUME RoutingInv, Cr!ConnectionsOfProcesses, Cr!Next PROVE RoutingInv'
  <1>r. Cr!Remember
    BY DEF Cr!Next
  <1>t. up = [p \in Processes |-> up[p]] /\ granted \subseteq owners
    BY DEF RoutingInv, RouteTypes
  <1>1. ASSUME NEW p \in Processes, Cr!Claim(p) \/ Cr!Crash(p) \/ Cr!Tick(p) \/ Cr!Pop(p) \/ Cr!Deliver(p) \/ Cr!Answer(p)
        PROVE  RoutingInv'
    <2>1. CASE Cr!Claim(p)
      <3>1. /\ up' = [up EXCEPT ![p] = "up"]
            /\ UNCHANGED <<route, asks, queue, worker, responses, owners, granted>>
        BY <2>1 DEF Cr!Claim, Cr!ownership, Cr!bus, Cr!routing
      <3> QED BY <1>r, <1>t, <3>1, OwnershipKeeps
    <2>2. CASE Cr!Down(p)
      BY <1>r, <2>2, DownKeeps
    <2>3. CASE Cr!Tick(p) /\ ~ Cr!Down(p)
      <3>1. UNCHANGED <<up, route, asks, queue, worker, responses, owners, granted>>
        BY <2>3 DEF Cr!Tick, Cr!identity, Cr!bus, Cr!routing
      <3> QED BY <1>r, <1>t, <3>1, OwnershipKeeps
    <2> QED BY <1>1, <1>r, <2>1, <2>2, <2>3, PopKeeps, DeliverKeeps, AnswerKeeps DEF Cr!Crash
  <1>2. ASSUME NEW x, \/ Cr!LeaseExpires(x) \/ (\E p \in Processes : Cr!Renew(p, x))
                      \/ Cr!Connect(x) \/ Cr!RegisterOwner(x) \/ Cr!Disconnect(x) \/ Cr!UnregisterOwner(x) \/ Cr!OwnerExpires(x)
        PROVE  RoutingInv'
    <2>1. UNCHANGED <<up, route, asks, queue, worker, responses>>
      BY <1>2 DEF Cr!LeaseExpires, Cr!Renew, Cr!Connect, Cr!RegisterOwner, Cr!Disconnect, Cr!UnregisterOwner,
                  Cr!OwnerExpires, Cr!identity, Cr!ownership, Cr!bus, Cr!routing
    <2>2. granted' \subseteq owners'
      BY <1>2, <1>t DEF Cr!LeaseExpires, Cr!Renew, Cr!Connect, Cr!RegisterOwner, Cr!Disconnect, Cr!UnregisterOwner,
                  Cr!OwnerExpires, Cr!Registered, Cr!Removed, Cr!ownership
    <2> QED BY <1>r, <1>t, <2>1, <2>2, OwnershipKeeps
  <1>3. ASSUME NEW r \in Routes, Cr!Start(r) \/ Cr!LookUp(r) \/ Cr!Conclude(r)
                                 \/ \E n \in Cr!Names : Cr!Ask(r, n) \/ Cr!Receive(r, n) \/ Cr!GiveUp(r, n)
        PROVE  RoutingInv'
    BY <1>3, <1>r, StartKeeps, LookUpKeeps, ConcludeKeeps, AskKeeps
  <1> QED BY <1>1, <1>2, <1>3 DEF Cr!Next

LEMMA RoutingStep == ASSUME Cr!ConnectionsOfProcesses PROVE RoutingInv /\ [Cr!Next]_(Cr!vars) => RoutingInv'
  <1>1. ASSUME RoutingInv, UNCHANGED Cr!vars PROVE RoutingInv'
    <2>1. UNCHANGED <<nodeLease, up, session, owners, granted, queue, worker, responses, route, asks, steady>>
      BY <1>1 DEF Cr!vars, Cr!identity, Cr!ownership, Cr!bus, Cr!routing
    <2>2. \A n \in Cr!Names, q \in Routes : Queued(n, q)' <=> Queued(n, q)
      BY <2>1 DEF Queued
    <2>3. RouteTypes' /\ ServersAreUp' /\ Unasked' /\ OfflineIsUnheard'
      BY <1>1, <2>1, <2>2 DEF RoutingInv, RouteTypes, ServersAreUp, Unasked, OfflineIsUnheard, Heard, Serving
    <2>4. \A r \in Routes : \A s \in Lines : Tried(r, s) => Tried(r, s)'
      BY <2>1 DEF Tried, TriedAtHome, NodeAsked, AnswersCount, WorkCounts, Heard
    <2>5. \A r \in Routes : \A s \in Lines : Cr!Reachable(s, r) => Cr!Reachable(s, r)'
      BY <2>1 DEF Cr!Reachable
    <2>6. SteadyIsTried'
      BY <1>1, <2>1, <2>4, <2>5 DEF RoutingInv, SteadyIsTried
    <2> QED BY <2>3, <2>6 DEF RoutingInv
  <1> QED BY <1>1, RoutingNext

(* In a cluster of any size, with processes that crash, lose their names and *)
(* are followed by others, owner leases that run out, requests and answers   *)
(* that are lost or late: the outbox is told "offline", after which it does  *)
(* not try again, only if no connection of the user could be reached all the *)
(* time since the route began (message_router.rs route_message_to_user,      *)
(* cross_node_dispatch.rs).                                                  *)
THEOREM OfflineVerdictsAreTrue == ASSUME Cr!ConnectionsOfProcesses PROVE Cr!Spec => []Cr!OfflineIsTrue
  <1>1. ASSUME RoutingInv PROVE Cr!OfflineIsTrue
    <2>1. ASSUME NEW r \in Routes, route[r].step = "offline", NEW s \in steady[r] PROVE FALSE
      <3>1. s \in Lines /\ Cr!Reachable(s, r) /\ TriedAtHome(r, s) /\ NodeAsked(r, s) /\ ~ Heard(r)
            /\ \A n \in Cr!Names : asks[r][n] \in {"none", "done"}
        BY <1>1, <2>1 DEF RoutingInv, SteadyIsTried, Tried, OfflineIsUnheard
      <3>2. Cr!Node(s) \in Cr!Names
        BY <3>1 DEF Cr!Node, Cr!Names, Cr!ConnectionsOfProcesses
      <3> QED BY <2>1, <3>1, <3>2 DEF TriedAtHome, NodeAsked
    <2> QED BY <2>1 DEF Cr!OfflineIsTrue
  <1>2. Cr!Init => RoutingInv
    BY RoutingInit
  <1> QED BY <1>1, <1>2, RoutingStep, PTL DEF Cr!Spec
=============================================================================
