---------------------------- MODULE PushPipeline ----------------------------
(***************************************************************************)
(* From domain events to push notifications.  Handlers publish events on a *)
(* bounded broadcast bus (infra/event_bus.rs); the planner (push/          *)
(* planner.rs) handles them one by one: it turns a committed message or a  *)
(* friend request into a delayed push intent and cancels intents when the  *)
(* message was delivered, the user came online or the message was revoked. *)
(* The worker (push/worker.rs) waits for the end of the cancel window,     *)
(* looks at the intent's state once, sends to each device and puts what    *)
(* failed back into the queue for that device alone.                       *)
(***************************************************************************)
EXTENDS Naturals, Sequences, FiniteSets

CONSTANTS
    Notices,     \* what is notified: messages and friend requests
    Requests,    \* the notices that are friend requests
    Users,
    Devices,
    OwnerOf,     \* [Devices -> Users]
    ToOf,        \* [Notices -> SUBSET Users], the recipients
    ConvOf,      \* notice -> its conversation
    NoDevice,    \* the device of a user-level intent
    BusCap,      \* capacity of the event bus
    QueueCap,    \* capacity of the intent queue
    Permits,     \* PUSH_MAX_CONCURRENT
    RateMax,     \* pushes of one user in one window
    MaxRetry,
    MaxConnects, \* bound: how often users connect
    MaxFaults    \* bound: muted recipients, failing calls and timeouts

(* A broadcast channel holds at least one event. *)
DevicesAndBus ==
    /\ \A d \in Devices : OwnerOf[d] \in Users
    /\ \A n \in Notices : ToOf[n] \subseteq Users
    /\ NoDevice \notin Devices
    /\ BusCap \in Nat \ {0}

VARIABLES
    stored,    \* notices whose transaction has committed
    published, \* <<n, u>> whose committed event was published
    received,  \* <<n, u>> delivered over a connection
    met,       \* <<n, u>> such that u connected after n was stored
    revoked,   \* messages revoked in the database
    connects,  \* connections so far
    faults,    \* faults so far
    bus,       \* events the planner has not seen yet
    taken,     \* <<u, c>> for which the Redis dedup key exists
    rate,      \* user -> pushes counted in the current window
    status,    \* <<n, u>> -> state of its intent
    skipped,   \* <<n, u>> the planner dropped because of the dedup key
    outgoing,  \* intents the planner's handler still has to send
    queue,     \* the intent channel from planner to worker
    tasks,     \* the worker's running tasks
    backoff,   \* retries waiting for their delay
    tokens,    \* devices with a usable push token
    accepted,  \* <<kind, n, d>> for which a provider answered success
    late       \* <<n, d>> -> provider calls made when the intent was called off

world == <<stored, published, received, met, revoked, connects>>
planner == <<taken, rate, status, skipped, outgoing>>
worker == <<tasks, backoff, tokens, accepted, late>>
vars == <<world, bus, planner, queue, worker, faults>>

Messages == Notices \ Requests
Pairs == Notices \X Users
Init ==
    /\ stored = {} /\ published = {} /\ received = {} /\ met = {} /\ revoked = {}
    /\ connects = 0 /\ faults = 0
    /\ bus = <<>>
    /\ taken = {} /\ rate = [u \in Users |-> 0]
    /\ status = [p \in Pairs |-> "none"]
    /\ skipped = {}
    /\ outgoing = {} /\ queue = <<>> /\ tasks = {} /\ backoff = {}
    /\ tokens = Devices
    /\ accepted = {}
    /\ late = [p \in Notices \X Devices |-> 0]

Fault == faults < MaxFaults /\ faults' = faults + 1

-----------------------------------------------------------------------------
(* The handlers that publish. *)

(* A full broadcast channel overwrites its oldest event; the planner that   *)
(* has not read it is told that it lagged and goes on with the next.        *)
Publish(e) == bus' = Append(IF Len(bus) < BusCap THEN bus ELSE Tail(bus), e)

(* The transaction commits: the outbox may deliver before the handler gets  *)
(* to its committed event.                                                  *)
Store(n) ==
    /\ n \notin stored
    /\ stored' = stored \cup {n}
    /\ UNCHANGED <<published, received, met, revoked, connects, bus, planner, queue, worker, faults>>

PublishCommitted(n, u) ==
    /\ n \in stored /\ u \in ToOf[n] /\ <<n, u>> \notin published
    /\ published' = published \cup {<<n, u>>}
    /\ Publish([kind |-> "committed", notice |-> n, user |-> u])
    /\ UNCHANGED <<stored, received, met, revoked, connects, planner, queue, worker, faults>>

(* The outbox has reached a session of the user. *)
Deliver(n, u) ==
    /\ n \in stored \ Requests /\ u \in ToOf[n] /\ <<n, u>> \notin received
    /\ received' = received \cup {<<n, u>>}
    /\ Publish([kind |-> "delivered", notice |-> n, user |-> u])
    /\ UNCHANGED <<stored, published, met, revoked, connects, planner, queue, worker, faults>>

(* One revoke per message: a second one only repeats the silent push. *)
Revoke(n) ==
    /\ n \in stored \ (Requests \cup revoked)
    /\ revoked' = revoked \cup {n}
    /\ Publish([kind |-> "revoked", notice |-> n])
    /\ UNCHANGED <<stored, published, received, met, connects, planner, queue, worker, faults>>

(* A device of the user authenticates. *)
Connect(u) ==
    /\ connects < MaxConnects
    /\ connects' = connects + 1
    /\ met' = met \cup (stored \X {u})
    /\ Publish([kind |-> "online", user |-> u])
    /\ UNCHANGED <<stored, published, received, revoked, planner, queue, worker, faults>>

-----------------------------------------------------------------------------
(* The planner handles the next event once everything the previous one      *)
(* produced is in the queue.                                                *)

Item(kind, n, u) == [kind |-> kind, notice |-> n, user |-> u, device |-> NoDevice, retry |-> 0]

Handling(kind) ==
    /\ outgoing = {} /\ bus # <<>> /\ Head(bus).kind = kind
    /\ bus' = Tail(bus)
    /\ UNCHANGED <<world, queue, worker>>

(* mark_revoked and mark_cancelled change pending intents only. *)
Mark(P, s) == status' = [p \in Pairs |-> IF p \in P /\ status[p] = "pending" THEN s ELSE status[p]]

(* The recipient muted the conversation or everything, or the settings      *)
(* cannot be read.                                                          *)
PlanMuted ==
    /\ Handling("committed") /\ Fault
    /\ UNCHANGED planner

(* SET NX on the dedup key found it: the notice is not counted either. *)
PlanDuplicate ==
    /\ Handling("committed")
    /\ LET e == Head(bus) IN
       /\ e.notice \notin Requests
       /\ <<e.user, ConvOf[e.notice]>> \in taken
       /\ skipped' = skipped \cup {<<e.notice, e.user>>}
    /\ UNCHANGED <<taken, rate, status, outgoing, faults>>

(* register_intent, then send: the intent exists before the worker can see  *)
(* it.                                                                      *)
Plan(n, u) ==
    /\ status' = [status EXCEPT ![<<n, u>>] = "pending"]
    /\ outgoing' = {Item("notice", n, u)}

(* The dedup key is new and the user's counter within its limit; a Redis     *)
(* that fails lets the notice pass.                                         *)
KeyFree(e) ==
    /\ <<e.user, ConvOf[e.notice]>> \notin taken
    /\ taken' = taken \cup {<<e.user, ConvOf[e.notice]>>}

Counted(e) ==
    /\ rate[e.user] < RateMax
    /\ rate' = [rate EXCEPT ![e.user] = @ + 1]

Admitted(e) ==
    \/ KeyFree(e) /\ Counted(e) /\ UNCHANGED faults
    \/ Fault /\ (KeyFree(e) \/ UNCHANGED taken) /\ (Counted(e) \/ UNCHANGED rate)

PlanMessage ==
    /\ Handling("committed")
    /\ LET e == Head(bus) IN
       /\ e.notice \notin Requests
       /\ Admitted(e)
       /\ Plan(e.notice, e.user)
    /\ UNCHANGED skipped

(* Over the limit: the dedup key was taken all the same. *)
PlanOverLimit ==
    /\ Handling("committed")
    /\ LET e == Head(bus) IN
       /\ e.notice \notin Requests
       /\ rate[e.user] = RateMax
       /\ (KeyFree(e) /\ UNCHANGED faults) \/ (Fault /\ UNCHANGED taken)
    /\ UNCHANGED <<rate, status, skipped, outgoing>>

(* A friend request passes no admission. *)
PlanRequest ==
    /\ Handling("committed")
    /\ LET e == Head(bus) IN e.notice \in Requests /\ Plan(e.notice, e.user)
    /\ UNCHANGED <<taken, rate, skipped, faults>>

\* Mutant: mark_cancelled(user) instead.
CancelledByDeliveryAll(n, u) == Notices \X {u}
(* A delivered event cancels this message for this user. *)
CancelledByDelivery(n, u) == {<<n, u>>}

HandleDelivered ==
    /\ Handling("delivered")
    /\ Mark(CancelledByDelivery(Head(bus).notice, Head(bus).user), "cancelled")
    /\ UNCHANGED <<taken, rate, skipped, outgoing, faults>>

(* A user who connects has everything cancelled, friend requests too. *)
HandleOnline ==
    /\ Handling("online")
    /\ Mark(Notices \X {Head(bus).user}, "cancelled")
    /\ UNCHANGED <<taken, rate, skipped, outgoing, faults>>

(* Every user who ever had an intent for the message gets a silent push     *)
(* that removes the notification, whatever became of the intent.            *)
Notified(n) == {u \in Users : status[<<n, u>>] # "none"}

HandleRevoked ==
    /\ Handling("revoked")
    /\ LET n == Head(bus).notice IN
       /\ Mark({n} \X Users, "revoked")
       /\ outgoing' = {Item("revoke", n, u) : u \in Notified(n)}
    /\ UNCHANGED <<taken, rate, skipped, faults>>

(* The planner waits for room in the queue.  The users come in any order    *)
(* (the code sorts them by id).                                             *)
Send(i) ==
    /\ i \in outgoing /\ Len(queue) < QueueCap
    /\ queue' = Append(queue, i)
    /\ outgoing' = outgoing \ {i}
    /\ UNCHANGED <<world, bus, taken, rate, status, skipped, worker, faults>>

(* Both Redis keys live for one window. *)
DedupExpires(k) ==
    /\ k \in taken
    /\ taken' = taken \ {k}
    /\ UNCHANGED <<world, bus, rate, status, skipped, outgoing, queue, worker, faults>>

RateExpires(u) ==
    /\ rate[u] > 0
    /\ rate' = [rate EXCEPT ![u] = 0]
    /\ UNCHANGED <<world, bus, taken, status, skipped, outgoing, queue, worker, faults>>

-----------------------------------------------------------------------------
(* The worker: one task per intent, at most Permits of them. *)

Start ==
    /\ queue # <<>> /\ Cardinality(tasks) < Permits
    /\ tasks' = tasks \cup {[item |-> Head(queue), checked |-> FALSE, left |-> {}]}
    /\ queue' = Tail(queue)
    /\ UNCHANGED <<world, bus, planner, backoff, tokens, accepted, late, faults>>

CalledOff(i) == i.kind = "notice" /\ status[<<i.notice, i.user>>] \in {"revoked", "cancelled"}

\* Mutant: a retry is sent without another look at the intent.
StopsFirstOnly(i) == i.retry = 0 /\ CalledOff(i)
(* get_status: a silent push is not registered and always passes. *)
Stops(i) == CalledOff(i)

(* A user-level intent goes to all devices with a token, a retry to its own. *)
Targets(i) ==
    {d \in tokens : OwnerOf[d] = i.user /\ i.device \in {NoDevice, d}}

(* The window is over: the state is looked at once, then the devices are    *)
(* read; nothing to do, or a failing query, ends the task.                  *)
Check(t) ==
    /\ t \in tasks /\ ~t.checked
    /\ \/ /\ ~Stops(t.item) /\ Targets(t.item) # {}
          /\ tasks' = (tasks \ {t}) \cup {[t EXCEPT !.checked = TRUE, !.left = Targets(t.item)]}
          /\ UNCHANGED faults
       \/ /\ Stops(t.item) \/ Targets(t.item) = {}
          /\ tasks' = tasks \ {t}
          /\ UNCHANGED faults
       \/ tasks' = tasks \ {t} /\ Fault
    /\ UNCHANGED <<world, bus, planner, queue, backoff, tokens, accepted, late>>

(* A device of the task has been dealt with. *)
Done(t, d) ==
    tasks' = (tasks \ {t}) \cup
             (IF t.left = {d} THEN {} ELSE {[t EXCEPT !.left = @ \ {d}]})

Count(t, d) ==
    late' = IF CalledOff(t.item) THEN [late EXCEPT ![<<t.item.notice, d>>] = @ + 1] ELSE late

Sending(t, d) == t \in tasks /\ t.checked /\ d \in t.left /\ Done(t, d) /\ Count(t, d)

SendOk(t, d) ==
    /\ Sending(t, d)
    /\ accepted' = accepted \cup {<<t.item.kind, t.item.notice, d>>}
    /\ UNCHANGED <<world, bus, planner, queue, backoff, tokens, faults>>

\* Mutant: the retry goes to all devices of the user.
ForRetryWholeUser(i, d) == [i EXCEPT !.retry = @ + 1]
(* for_retry: the same intent, this device only. *)
ForRetry(i, d) == [i EXCEPT !.device = d, !.retry = @ + 1]

(* schedule_retry. *)
SendFails(t, d) ==
    /\ Sending(t, d) /\ Fault
    /\ backoff' = IF t.item.retry < MaxRetry THEN backoff \cup {ForRetry(t.item, d)} ELSE backoff
    /\ UNCHANGED <<world, bus, planner, queue, tokens, accepted>>

(* The provider says that the token is dead: it is removed and not retried. *)
TokenInvalid(t, d) ==
    /\ Sending(t, d) /\ Fault
    /\ tokens' = tokens \ {d}
    /\ UNCHANGED <<world, bus, planner, queue, backoff, accepted>>

(* The task's hard timeout drops the devices it has not got to. *)
Timeout(t) ==
    /\ t \in tasks /\ t.checked /\ Fault
    /\ tasks' = tasks \ {t}
    /\ UNCHANGED <<world, bus, planner, queue, backoff, tokens, accepted, late>>

(* try_send: a retry that finds the queue full is dropped. *)
RetryDue(i) ==
    /\ i \in backoff
    /\ backoff' = backoff \ {i}
    /\ queue' = IF Len(queue) < QueueCap THEN Append(queue, i) ELSE queue
    /\ UNCHANGED <<world, bus, planner, tasks, tokens, accepted, late, faults>>

-----------------------------------------------------------------------------
Handlers ==
    \/ \E n \in Notices : Store(n) \/ Revoke(n)
    \/ \E p \in Pairs : PublishCommitted(p[1], p[2]) \/ Deliver(p[1], p[2])
    \/ \E u \in Users : Connect(u)

Planner ==
    \/ PlanMuted \/ PlanDuplicate \/ PlanMessage \/ PlanOverLimit \/ PlanRequest
    \/ HandleDelivered \/ HandleOnline \/ HandleRevoked
    \/ \E i \in outgoing : Send(i)
    \/ \E k \in taken : DedupExpires(k)
    \/ \E u \in Users : RateExpires(u)

Worker ==
    \/ Start
    \/ \E t \in tasks :
        \/ Check(t) \/ Timeout(t)
        \/ \E d \in Devices : SendOk(t, d) \/ SendFails(t, d) \/ TokenInvalid(t, d)
    \/ \E i \in backoff : RetryDue(i)

Next == Handlers \/ Planner \/ Worker

Spec == Init /\ [][Next]_vars

-----------------------------------------------------------------------------
Waiting == outgoing \cup {queue[i] : i \in DOMAIN queue} \cup backoff
Running == {t.item : t \in tasks}

(* A device whose push a provider accepted is in nobody's way again: no     *)
(* task, queued intent or retry still has it as its target (the retry of a  *)
(* failed device must not send to the ones that succeeded, types.rs:183).   *)
AcceptedOnce ==
    \A a \in accepted :
        /\ \A t \in tasks : t.item.kind = a[1] /\ t.item.notice = a[2] => a[3] \notin t.left
        /\ \A i \in Waiting \cup Running :
             i.kind = a[1] /\ i.notice = a[2] /\ i.retry > 0 => i.device # a[3]
        /\ \A i \in Waiting \cup {t.item : t \in {t \in tasks : ~t.checked}} :
             i.kind = a[1] /\ i.notice = a[2] /\ i.retry = 0 => i.user # OwnerOf[a[3]]

(* A push is called off for good: once the intent is cancelled or revoked   *)
(* only a task that had already looked at its state can still send, once    *)
(* per device; no retry does.                                               *)
CalledOffStops == \A p \in DOMAIN late : late[p] <= 1

(* Only a user who has the message, or has connected since it was stored,   *)
(* loses the push for it: a delivery does not cancel the user's other       *)
(* pushes, nor other users' (intent_state.rs:187-191).                      *)
CancelledWasReached ==
    \A p \in Pairs : status[p] = "cancelled" => p \in received \cup met

(* The planner's reason for leaving a message out is that the conversation  *)
(* was pushed within the window (planner.rs:216-221): another message of it *)
(* is waiting to be pushed, is being sent, or was accepted.                 *)
SkippedWasPushed ==
    \A p \in skipped : \E q \in Pairs :
        /\ q # p /\ q[2] = p[2] /\ ConvOf[q[1]] = ConvOf[p[1]]
        /\ \/ status[q] = "pending"
           \/ \E t \in tasks : t.checked /\ t.item.notice = q[1] /\ t.item.user = q[2]
           \/ \E d \in Devices : OwnerOf[d] = q[2] /\ <<"notice", q[1], d>> \in accepted
=============================================================================
