--------------------------- MODULE DispatchOutbox ---------------------------
(***************************************************************************)
(* The dispatch outbox of committed timeline events: one durable parent    *)
(* row per event and one row per recipient of the membership snapshot.     *)
(* Every server node runs one outbox loop and a bounded number of          *)
(* immediate dispatches; all of them claim recipient rows under a lease,   *)
(* deliver, and write the result back fenced by the claim's lease token.   *)
(*                                                                         *)
(*   src/src/service/committed_timeline_delivery_service.rs                *)
(*   src/src/repository/message_repo.rs  (snapshot, delivery receipt)      *)
(*                                                                         *)
(* Wall-clock time is abstracted: a lease expires and a backoff elapses at *)
(* any moment, which covers slow tasks and clock skew between nodes.  The  *)
(* random 63-bit lease token is a fresh number.                            *)
(***************************************************************************)
EXTENDS Integers, FiniteSets

CONSTANTS
    Events,        \* commit-log ids
    Users,
    Nodes,         \* server processes
    LoopTasks,     \* the outbox loop of each node
    SlotTasks,     \* permits of each node's immediate_events semaphore
    NodeOf,        \* the node a task runs on
    SenderOf,      \* sender of an event
    DirectEvents,  \* events of direct channels, the others are group events
    MaxAttempts,   \* MAX_ATTEMPTS
    ChunkSize,     \* DEFAULT_CHUNK_SIZE
    Sessions,      \* connections that may acknowledge a push
    NoReceipt

Tasks == LoopTasks \cup SlotTasks
Rows  == Events \X Users

ASSUME OutboxAssumption ==
    /\ MaxAttempts \in Nat \ {0}
    /\ ChunkSize \in Nat \ {0}
    /\ LoopTasks \cap SlotTasks = {}
    /\ NodeOf \in [Tasks -> Nodes]
    /\ SenderOf \in [Events -> Users]
    /\ DirectEvents \subseteq Events
    /\ NoReceipt \notin Users \X Sessions

VARIABLES
    status,     \* parent row of an event
    st,         \* recipient row: state column, "absent" when there is no row
    att,        \* recipient row: attempts
    lease,      \* recipient row: lease_until against the clock
    tok,        \* recipient row: lease_token
    due,        \* recipient row: next_attempt_at has been reached
    nextTok,    \* source of fresh lease tokens
    spawned,    \* immediate dispatches spawned after a commit, not yet started
    phase,      \* what a task is doing
    held,       \* the claims a task is dispatching
    ctok,       \* the lease token of those claims
    catt,       \* the attempts value those claims returned
    res,        \* the resolution of each claim so far
    delivered,  \* pushes that reached a session of the user (history)
    queued,     \* rows written to the user's offline queue (history)
    receipt     \* the first delivered receipt of a direct message

rowVars  == <<status, st, att, lease, tok, due, nextTok>>
taskVars == <<phase, held, ctok, catt, res>>
sideVars == <<delivered, queued, receipt>>
vars == <<rowVars, spawned, taskVars, sideVars>>

ParentStates  == {"none", "pending", "dispatched", "dead", "deleted"}
RowStates     == {"absent", "pending", "online", "offline", "dead"}
TerminalRow   == {"online", "offline", "dead"}
Resolutions   == {"todo", "acked", "candidate", "online", "offline", "failed"}
FinalResolutions == {"online", "offline", "failed"}

TypeOK ==
    /\ status \in [Events -> ParentStates]
    /\ st \in [Rows -> RowStates]
    /\ att \in [Rows -> 0..MaxAttempts]
    /\ lease \in [Rows -> {"none", "live", "expired"}]
    /\ tok \in [Rows -> Nat]
    /\ due \in [Rows -> BOOLEAN]
    /\ nextTok \in Nat \ {0}
    /\ spawned \subseteq Nodes \X Events
    /\ phase \in [Tasks -> {"idle", "resolve", "reconcile"}]
    /\ held \in [Tasks -> SUBSET Rows]
    /\ ctok \in [Tasks -> Nat]
    /\ catt \in [Tasks -> [Rows -> 0..MaxAttempts]]
    /\ res \in [Tasks -> [Rows -> Resolutions]]
    /\ delivered \in [Rows -> Nat]
    /\ queued \subseteq Rows
    /\ receipt \in [Events -> (Users \X Sessions) \cup {NoReceipt}]

Init ==
    /\ status = [e \in Events |-> "none"]
    /\ st = [r \in Rows |-> "absent"]
    /\ att = [r \in Rows |-> 0]
    /\ lease = [r \in Rows |-> "none"]
    /\ tok = [r \in Rows |-> 0]
    /\ due = [r \in Rows |-> TRUE]
    /\ nextTok = 1
    /\ spawned = {}
    /\ phase = [t \in Tasks |-> "idle"]
    /\ held = [t \in Tasks |-> {}]
    /\ ctok = [t \in Tasks |-> 0]
    /\ catt = [t \in Tasks |-> [r \in Rows |-> 0]]
    /\ res = [t \in Tasks |-> [r \in Rows |-> "todo"]]
    /\ delivered = [r \in Rows |-> 0]
    /\ queued = {}
    /\ receipt = [e \in Events |-> NoReceipt]

-----------------------------------------------------------------------------
(* The commit transaction writes the parent row and the recipient snapshot; *)
(* the handler then spawns an immediate dispatch on its own node.           *)

\* Direct channel: both peers, the sender's own devices included.  Group:
\* the members that have not left.  An empty snapshot aborts the transaction.
Snapshots(e) ==
    IF e \in DirectEvents
    THEN {R \in SUBSET Users : SenderOf[e] \in R /\ Cardinality(R) = 2}
    ELSE (SUBSET Users) \ {{}}

Commit(e, n) ==
    /\ status[e] = "none"
    /\ \E R \in Snapshots(e) :
         st' = [r \in Rows |-> IF r[1] = e /\ r[2] \in R THEN "pending"
                                                        ELSE st[r]]
    /\ status' = [status EXCEPT ![e] = "pending"]
    /\ spawned' = spawned \cup {<<n, e>>}
    /\ UNCHANGED <<att, lease, tok, due, nextTok, taskVars, sideVars>>

-----------------------------------------------------------------------------
(* Claiming.                                                                *)

\* A row whose worker died stays with it.
CandidateNeverReclaimed(r) ==
    /\ st[r] = "pending" /\ att[r] < MaxAttempts
    /\ status[r[1]] = "pending" /\ due[r] /\ lease[r] = "none"

Candidate(r) ==
    /\ st[r] = "pending"
    /\ att[r] < MaxAttempts
    /\ status[r[1]] = "pending"
    /\ due[r]
    /\ lease[r] # "live"

\* FOR UPDATE SKIP LOCKED: rows another statement has locked at this moment
\* are passed over, so a claim may take any part of the candidates.
Batches(C) == {S \in SUBSET C : S # {} /\ Cardinality(S) <= ChunkSize}

\* A claim that keeps the token of the previous lease.
FreshTokenReused(r) == 1

FreshToken(r) == nextTok

ClaimRows(S) ==
    /\ lease' = [r \in Rows |-> IF r \in S THEN "live" ELSE lease[r]]
    /\ tok' = [r \in Rows |-> IF r \in S THEN FreshToken(r) ELSE tok[r]]
    /\ att' = [r \in Rows |-> IF r \in S THEN att[r] + 1 ELSE att[r]]
    /\ nextTok' = nextTok + 1
    /\ UNCHANGED <<status, st, due>>

\* The claimed rows reach the task.
TakeClaims(t, S) ==
    /\ phase' = [phase EXCEPT ![t] = "resolve"]
    /\ held' = [held EXCEPT ![t] = S]
    /\ ctok' = [ctok EXCEPT ![t] = nextTok]
    /\ catt' = [catt EXCEPT ![t] =
                   [r \in Rows |-> IF r \in S THEN att[r] + 1 ELSE 0]]
    /\ res' = [res EXCEPT ![t] = [r \in Rows |-> "todo"]]

\* The task forgets its claims: the dispatch returned.
Release(t) ==
    /\ phase' = [phase EXCEPT ![t] = "idle"]
    /\ held' = [held EXCEPT ![t] = {}]
    /\ ctok' = [ctok EXCEPT ![t] = 0]
    /\ catt' = [catt EXCEPT ![t] = [r \in Rows |-> 0]]
    /\ res' = [res EXCEPT ![t] = [r \in Rows |-> "todo"]]

\* process_once of the outbox loop.
ProcessOnce(t) ==
    /\ t \in LoopTasks /\ phase[t] = "idle"
    /\ \E S \in Batches({r \in Rows : Candidate(r)}) :
         ClaimRows(S) /\ TakeClaims(t, S)
    /\ UNCHANGED <<spawned, sideVars>>

\* The claim statement took effect but its reply was lost: the loop logs the
\* error, the rows stay leased to nobody.
ClaimReplyLost(t) ==
    /\ t \in LoopTasks /\ phase[t] = "idle"
    /\ \E S \in Batches({r \in Rows : Candidate(r)}) : ClaimRows(S)
    /\ UNCHANGED <<spawned, taskVars, sideVars>>

\* dispatch_event with a permit.  The rows may already be claimed by a loop,
\* then there is nothing to dispatch.
DispatchEvent(t, e) ==
    LET mine == {r \in Rows : r[1] = e /\ Candidate(r)} IN
    /\ t \in SlotTasks /\ phase[t] = "idle"
    /\ <<NodeOf[t], e>> \in spawned
    /\ spawned' = spawned \ {<<NodeOf[t], e>>}
    /\ \/ \E S \in Batches(mine) : ClaimRows(S) /\ TakeClaims(t, S)
       \/ UNCHANGED <<rowVars, taskVars>>
    /\ UNCHANGED sideVars

\* dispatch_event without a permit returns at once.
DispatchEventNoPermit(n, e) ==
    /\ <<n, e>> \in spawned
    /\ \A t \in SlotTasks : NodeOf[t] = n => phase[t] # "idle"
    /\ spawned' = spawned \ {<<n, e>>}
    /\ UNCHANGED <<rowVars, taskVars, sideVars>>

-----------------------------------------------------------------------------
(* Resolving the claims of a batch, all of them concurrently.               *)

Resolve(t, r, o) == res' = [res EXCEPT ![t] = [@ EXCEPT ![r] = o]]

Unresolved(t, r) == phase[t] = "resolve" /\ r \in held[t] /\ res[t][r] = "todo"

\* The push reached a session.  With an acknowledged session of a direct
\* message the receipt is recorded next, otherwise the claim is OnlineSent.
RouteDelivered(t, r) ==
    /\ Unresolved(t, r)
    /\ delivered' = [delivered EXCEPT ![r] = @ + 1]
    /\ \/ Resolve(t, r, "online")
       \/ r[1] \in DirectEvents /\ Resolve(t, r, "acked")
    /\ UNCHANGED <<rowVars, spawned, phase, held, ctok, catt, queued, receipt>>

\* Routing failed; the local sessions may have received the push before the
\* cross-node dispatch returned the error.
RouteFailed(t, r) ==
    /\ Unresolved(t, r)
    /\ \/ UNCHANGED delivered
       \/ delivered' = [delivered EXCEPT ![r] = @ + 1]
    /\ Resolve(t, r, "failed")
    /\ UNCHANGED <<rowVars, spawned, phase, held, ctok, catt, queued, receipt>>

\* No session anywhere.
RouteOffline(t, r) ==
    /\ Unresolved(t, r)
    /\ Resolve(t, r, "candidate")
    /\ UNCHANGED <<rowVars, spawned, phase, held, ctok, catt, sideVars>>

\* record_direct_delivery_receipt_first_ack: only the peer, first ack wins.
ReceiptAfter(e, u, s) ==
    IF u # SenderOf[e] /\ receipt[e] = NoReceipt
    THEN [receipt EXCEPT ![e] = <<u, s>>]
    ELSE receipt

\* The receipt write, which may fail after the push was delivered.
RecordReceipt(t, r) ==
    /\ phase[t] = "resolve" /\ r \in held[t] /\ res[t][r] = "acked"
    /\ \/ /\ \E s \in Sessions : receipt' = ReceiptAfter(r[1], r[2], s)
          /\ Resolve(t, r, "online")
       \/ UNCHANGED receipt /\ Resolve(t, r, "failed")
    /\ UNCHANGED <<rowVars, spawned, phase, held, ctok, catt, delivered, queued>>

\* The offline copies of one event, written by one Redis pipeline once every
\* claim of the batch has been routed.  A failed pipeline may have been
\* applied to some of the users.
ResolveOfflineBatch(t, e) ==
    LET batch == {r \in held[t] : r[1] = e /\ res[t][r] = "candidate"}
        Put(o) == [r \in Rows |-> IF r \in batch THEN o ELSE res[t][r]] IN
    /\ phase[t] = "resolve"
    /\ batch # {}
    /\ \A r \in held[t] : res[t][r] \notin {"todo", "acked"}
    /\ \/ queued' = queued \cup batch /\ res' = [res EXCEPT ![t] = Put("offline")]
       \/ /\ \E part \in SUBSET batch : queued' = queued \cup part
          /\ res' = [res EXCEPT ![t] = Put("failed")]
    /\ UNCHANGED <<rowVars, spawned, phase, held, ctok, catt, delivered, receipt>>

-----------------------------------------------------------------------------
(* Writing the batch back.                                                  *)

\* A failed claim is declared dead one attempt early.
CompletionStateEager(o, attempts) ==
    IF o = "failed"
    THEN IF attempts + 1 >= MaxAttempts THEN "dead" ELSE "pending"
    ELSE o

CompletionState(o, attempts) ==
    IF o = "failed"
    THEN IF attempts >= MaxAttempts THEN "dead" ELSE "pending"
    ELSE o

\* The write-back by primary key alone.
OwnedByKey(t) == {r \in held[t] : st[r] # "absent"}

\* The rows a write-back may still change: not settled, lease not taken over.
Owned(t) == {r \in held[t] : st[r] = "pending" /\ tok[r] = ctok[t]}

Resolved(t) == phase[t] = "resolve" /\ \A r \in held[t] : res[t][r] \in FinalResolutions

CompleteMany(t) ==
    LET new(r) == CompletionState(res[t][r], catt[t][r]) IN
    /\ st' = [r \in Rows |-> IF r \in Owned(t) THEN new(r) ELSE st[r]]
    /\ due' = [r \in Rows |-> IF r \in Owned(t) THEN new(r) # "pending"
                                               ELSE due[r]]
    /\ lease' = [r \in Rows |-> IF r \in Owned(t) THEN "none" ELSE lease[r]]
    /\ UNCHANGED <<status, att, tok, nextTok>>

Complete(t) ==
    /\ Resolved(t)
    /\ CompleteMany(t)
    /\ phase' = [phase EXCEPT ![t] = "reconcile"]
    /\ UNCHANGED <<spawned, held, ctok, catt, res, sideVars>>

\* The write-back statement fails, or takes effect and its reply is lost; the
\* dispatch returns the error before the parents are reconciled.
CompleteFails(t) ==
    /\ Resolved(t)
    /\ CompleteMany(t) \/ UNCHANGED rowVars
    /\ Release(t)
    /\ UNCHANGED <<spawned, sideVars>>

Settled(e) ==
    status[e] = "pending" /\ \A u \in Users : st[<<e, u>>] # "pending"

\* The parent forgets that a recipient died.
ParentStatusOptimistic(e) ==
    IF \E u \in Users : st[<<e, u>>] \in {"online", "offline"}
    THEN "dispatched" ELSE "dead"

ParentStatus(e) ==
    IF \E u \in Users : st[<<e, u>>] = "dead" THEN "dead" ELSE "dispatched"

CloseParents(E) ==
    status' = [e \in Events |-> IF e \in E /\ Settled(e) THEN ParentStatus(e)
                                                         ELSE status[e]]

ReconcileEvents(t) ==
    /\ phase[t] = "reconcile"
    /\ CloseParents({r[1] : r \in held[t]})
    /\ Release(t)
    /\ UNCHANGED <<st, att, lease, tok, due, nextTok, spawned, sideVars>>

ReconcileEventsFails(t) ==
    /\ phase[t] = "reconcile"
    /\ Release(t)
    /\ UNCHANGED <<rowVars, spawned, sideVars>>

-----------------------------------------------------------------------------
(* The sweeps of the outbox loop, between two batches of its own.           *)

\* The sweep is never run: only the batch that settles a row closes parents.
NoSweep(t) == FALSE /\ UNCHANGED vars

ReconcileTerminalParents(t) ==
    /\ t \in LoopTasks /\ phase[t] = "idle"
    /\ \E E \in Batches({e \in Events : Settled(e)}) : CloseParents(E)
    /\ UNCHANGED <<st, att, lease, tok, due, nextTok, spawned, taskVars, sideVars>>

\* Events old enough to be removed; their age is left open.
Expired == {e \in Events : status[e] \in {"dispatched", "dead"}}

\* Removing the parent cascades to its recipient rows.
CleanupRetained(t) ==
    /\ t \in LoopTasks /\ phase[t] = "idle"
    /\ \E E \in Batches(Expired) :
         /\ status' = [e \in Events |-> IF e \in E THEN "deleted" ELSE status[e]]
         /\ st' = [r \in Rows |-> IF r[1] \in E THEN "absent" ELSE st[r]]
         /\ att' = [r \in Rows |-> IF r[1] \in E THEN 0 ELSE att[r]]
         /\ lease' = [r \in Rows |-> IF r[1] \in E THEN "none" ELSE lease[r]]
         /\ tok' = [r \in Rows |-> IF r[1] \in E THEN 0 ELSE tok[r]]
         /\ due' = [r \in Rows |-> IF r[1] \in E THEN TRUE ELSE due[r]]
    /\ UNCHANGED <<nextTok, spawned, taskVars, sideVars>>

-----------------------------------------------------------------------------
(* Time and crashes.                                                        *)

LeaseExpires(r) ==
    /\ lease[r] = "live"
    /\ lease' = [lease EXCEPT ![r] = "expired"]
    /\ UNCHANGED <<status, st, att, tok, due, nextTok, spawned, taskVars, sideVars>>

BackoffElapses(r) ==
    /\ ~due[r]
    /\ due' = [due EXCEPT ![r] = TRUE]
    /\ UNCHANGED <<status, st, att, lease, tok, nextTok, spawned, taskVars, sideVars>>

\* The process dies with its tasks and its spawned dispatches; the database
\* keeps every committed row.
Crash(n) ==
    LET dead == {t \in Tasks : NodeOf[t] = n} IN
    /\ phase' = [t \in Tasks |-> IF t \in dead THEN "idle" ELSE phase[t]]
    /\ held' = [t \in Tasks |-> IF t \in dead THEN {} ELSE held[t]]
    /\ ctok' = [t \in Tasks |-> IF t \in dead THEN 0 ELSE ctok[t]]
    /\ catt' = [t \in Tasks |-> IF t \in dead THEN [r \in Rows |-> 0] ELSE catt[t]]
    /\ res' = [t \in Tasks |-> IF t \in dead THEN [r \in Rows |-> "todo"] ELSE res[t]]
    /\ spawned' = {s \in spawned : s[1] # n}
    /\ UNCHANGED <<rowVars, sideVars>>

-----------------------------------------------------------------------------
TaskStep(t) ==
    \/ ProcessOnce(t)
    \/ \E e \in Events : DispatchEvent(t, e)
    \/ \E r \in Rows : \/ RouteDelivered(t, r)
                       \/ RouteFailed(t, r)
                       \/ RouteOffline(t, r)
                       \/ RecordReceipt(t, r)
    \/ \E e \in Events : ResolveOfflineBatch(t, e)
    \/ Complete(t)
    \/ CompleteFails(t)
    \/ ReconcileEvents(t)
    \/ ReconcileEventsFails(t)

Next ==
    \/ \E e \in Events, n \in Nodes : \/ Commit(e, n)
                                      \/ DispatchEventNoPermit(n, e)
    \/ \E t \in Tasks : \/ TaskStep(t)
                        \/ ClaimReplyLost(t)
                        \/ ReconcileTerminalParents(t)
                        \/ CleanupRetained(t)
    \/ \E r \in Rows : LeaseExpires(r) \/ BackoffElapses(r)
    \/ \E n \in Nodes : Crash(n)

Spec == Init /\ [][Next]_vars

\* A task keeps running, the loop keeps sweeping, clocks advance.  Nothing is
\* assumed about commits, retention, lost replies or crashes.
Fairness ==
    /\ \A t \in Tasks : WF_vars(TaskStep(t)) /\ WF_vars(ReconcileTerminalParents(t))
    /\ \A r \in Rows : WF_vars(LeaseExpires(r)) /\ WF_vars(BackoffElapses(r))

FairSpec == Spec /\ Fairness

-----------------------------------------------------------------------------
(* Properties.                                                              *)

\* Fencing: a task whose lease token is still the row's token is the only one
\* with that token, and its claim is the row's latest attempt.  A worker that
\* was overtaken after its lease expired can therefore never write the row.
ClaimFencing ==
    \A t \in Tasks : \A r \in held[t] :
        (st[r] = "pending" /\ tok[r] = ctok[t]) =>
            /\ catt[t][r] = att[r]
            /\ \A t2 \in Tasks \ {t} : r \in held[t2] => ctok[t2] # ctok[t]

\* Why fencing holds: every claim has a token of its own, older than the next
\* one, and a row that still carries a claim's token was not claimed since.
TokenDiscipline ==
    /\ \A r \in Rows : tok[r] < nextTok
    /\ \A t \in Tasks : held[t] # {} => 1 <= ctok[t] /\ ctok[t] < nextTok
    /\ \A t \in Tasks : \A r \in held[t] : tok[r] = ctok[t] => catt[t][r] = att[r]
    /\ \A t, t2 \in Tasks : t # t2 /\ held[t] # {} /\ held[t2] # {} =>
                              ctok[t] # ctok[t2]

\* Why settled rows are true: a resolution a task holds in memory is already
\* backed by a delivered push or a queued copy before it is written back.
ResolutionBacked ==
    \A t \in Tasks : \A r \in held[t] :
        /\ res[t][r] \in {"online", "acked"} => delivered[r] >= 1
        /\ res[t][r] = "offline" => r \in queued
        /\ res[t][r] = "acked" => r[1] \in DirectEvents

\* Why deliveries are bounded: each claim that has not been routed yet holds
\* an attempt of its own, and every push used up another one.
Used(r) == IF st[r] = "absent" THEN MaxAttempts ELSE att[r]
Unrouted(r) == {catt[t][r] : t \in {t \in Tasks : r \in held[t] /\ res[t][r] = "todo"}}
Spent(r) == (1 .. Used(r)) \ Unrouted(r)

AttemptLedger ==
    /\ \A t \in Tasks : \A r \in held[t] : catt[t][r] \in 1 .. Used(r)
    /\ \A t, t2 \in Tasks : t # t2 =>
         \A r \in held[t] \cap held[t2] : catt[t][r] # catt[t2][r]
    /\ \A r \in Rows : delivered[r] <= Cardinality(Spent(r))
    /\ \A r \in Rows : status[r[1]] = "none" =>
         att[r] = 0 /\ delivered[r] = 0 /\ \A t \in Tasks : r \notin held[t]

\* The parent's status aggregates its recipients: it leaves "pending" only
\* with no recipient pending, is "dead" exactly when a recipient died, and is
\* removed only with all of its recipients.
ParentAggregates ==
    \A e \in Events :
        /\ status[e] = "dispatched" =>
             \A u \in Users : st[<<e, u>>] \in {"absent", "online", "offline"}
        /\ status[e] = "dead" =>
             /\ \A u \in Users : st[<<e, u>>] # "pending"
             /\ \E u \in Users : st[<<e, u>>] = "dead"
        /\ status[e] \in {"none", "deleted"} =>
             \A u \in Users : st[<<e, u>>] = "absent"

\* What is recorded accounts for what happened, whatever became of the tasks
\* that dispatched it: OnlineSent means a session received the push,
\* OfflineQueued that the offline queue has it, Dead that every attempt the
\* budget allows was used; overtaken tasks, lost replies and crashes
\* included, nobody is pushed more than once per claimed attempt; and a
\* delivered receipt names the peer of a direct message, never its sender,
\* and only after a push to that peer was delivered.
RecordsAccountForDelivery ==
    /\ \A r \in Rows :
          /\ st[r] = "online"  => delivered[r] >= 1
          /\ st[r] = "offline" => r \in queued
          /\ st[r] = "dead"    => att[r] = MaxAttempts
          /\ delivered[r] <= (IF st[r] = "absent" THEN MaxAttempts ELSE att[r])
    /\ \A e \in Events :
          receipt[e] # NoReceipt =>
              /\ e \in DirectEvents
              /\ receipt[e][1] # SenderOf[e]
              /\ delivered[<<e, receipt[e][1]>>] >= 1

\* What became of an event, as the ledger of its recipients sees it: what the
\* tasks hold, leases, tokens and backoffs are left out.
Ledger == INSTANCE DeliveryLedger WITH
    Budget <- MaxAttempts, parent <- status, verdict <- st, tries <- att,
    pushes <- delivered, stored <- queued

\* Racing, overtaken and crashed tasks implement the ledger: a claim is an
\* attempt within the budget, every verdict is earned before it is written and
\* never rewritten, no recipient is pushed more often than it was claimed, a
\* receipt stays, and an event is closed and removed with all its recipients.
ImplementsLedger == Ledger!Spec

\* Every pending recipient is settled or runs out of attempts: leases of dead
\* workers expire and the loop claims the row again.
PendingIsWorkedOff ==
    \A r \in Rows :
        st[r] = "pending" ~> (st[r] # "pending" \/ att[r] = MaxAttempts)

\* A parent whose recipients are all settled is closed, also when the batch
\* that settled the last one failed before reconciling.
SettledParentCloses ==
    \A e \in Events : Settled(e) ~> status[e] \in {"dispatched", "dead", "deleted"}

\* What the recovery test and the comment on CompletionFailed promise: a row
\* whose worker is gone is claimable again when its lease expires.
ExpiredLeaseIsReclaimable ==
    \A r \in Rows :
        (/\ st[r] = "pending" /\ lease[r] = "expired"
         /\ \A t \in Tasks : r \notin held[t])
        => att[r] < MaxAttempts
=============================================================================
