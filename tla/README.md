# Verification of privchat

privchat is a chat server in Rust: clients keep a connection to a server node,
send messages and RPCs, and the server stores everything in PostgreSQL, keeps
short-lived state in Redis and pushes to other clients, to other nodes and to
push providers. This directory holds TLA+ models of the parts of it where
several actors meet in the database or in memory, the configurations under
which TLC checks them, and TLAPS proofs of the results that matter most.

`PROJECT.json` is the index: which definition models which lines (`map`), which
run checks which property, which deliberate mistake each property catches
(`mutants`), which hazards of the code the properties are about, where the
code and its own comments disagree (`findings`), and the theorems.

    tlc -workers 2 -config TimelineCommitMC.cfg TimelineCommitMC
    tlapm TimelineCommitProofs.tla

## 1. The system

| Part | Source (under `src/src/`) | State | Operations | Module |
|---|---|---|---|---|
| Timeline write path | `repository/message_repo.rs`, `handler/send_message_handler.rs`, `service/sync/sync_service.rs`, `service/message_service.rs` | `channel_pts`, commit log, dedup and registry tables, file bindings, channel head | send on the wire, `sync/submit`, server message, revoke or reaction event, dedup retention | `TimelineCommit`, abstractly `TimelineLog` |
| Dispatch outbox | `service/committed_timeline_delivery_service.rs`, `repository/message_repo.rs` | parent and recipient rows with attempts, lease and token; delivered receipts | snapshot, immediate dispatch, outbox loop, complete, reconcile, sweep, retention | `DispatchOutbox`, `DeliveryLedger` |
| Routing in a cluster | `infra/cross_node_dispatch.rs`, `infra/message_router.rs` | node leases, owner leases of connections, dispatch queues and answers in Redis | claim, renew, register, route, ask, answer, time out | `ClusterRouting` |
| Client sync | `service/sync/*.rs`, `rpc/sync/*` | Redis pts and commit cache, bounded post-commit queue | `get_difference`, `get_channel_pts`, cache writes and write-backs | `DifferenceSync` |
| Calls | `service/call_service.rs`, `rpc/call.rs` | call rows, participants with claims and leases, durable effects | invite, join, reject, cancel, leave, end, heartbeat, sweep, effect worker | `CallControl`, `CallBook` |
| Peer signalling | `service/call_service/peer.rs` | per-call journal, commands, revision | `peer_signal`, `peer_events`, sweep, clear | `PeerSignal` |
| Push | `infra/event_bus.rs`, `push/*.rs` | bus, intents, Redis dedup and rate keys, intent queue, tasks, retries | plan, cancel, revoke, check, send, retry | `PushPipeline` |
| Unread counters and read cursors | `service/sync/sync_service.rs` (batcher), `service/channel_service.rs`, `service/read_state_service.rs`, `service/unread_count_service.rs`, `service/message_service.rs` (revoke) | unread per member, Redis copy, read cursors in memory and database, pending increments | enqueue, flush, clear, discount, mark read, announce | `UnreadCount`, `ReadCursor` |
| Uploads to S3 | `http/routes/upload_s3.rs`, `rpc/file/request_chunked_upload_token.rs`, `service/chunked_upload.rs`, `service/file_service.rs` | multipart upload, object, anchor and session directory, file row | issue, sign parts, complete, abort, sweep | `MultipartUpload` |
| Uploads to disk, claims | `http/routes/upload.rs`, `service/upload_session.rs`, `service/chunked_upload.rs`, `service/file_service.rs`, `service/file_claim_service.rs` | session file, part files, temporary and published files, tombstone, file rows | upload whole, create, put chunk, complete, abort, claim, sweep | `LocalUpload` |
| Authentication and connections | `auth/*`, `handler/connect_message_handler.rs`, `infra/connection_manager.rs`, `server.rs` | session version per device, tokens, two indexes of sessions | login, refresh, kick, logout, connect, close, watchdog | `Connections` |
| Rooms | `handler/subscribe_message_handler.rs`, `infra/subscribe_manager.rs`, `http/routes/admin.rs`, `service/room_history_service.rs` | subscriptions, history in Redis | subscribe, unsubscribe, broadcast, replay, close | `RoomFeed` |
| Channels, groups, approvals | `service/channel_service.rs`, `service/approval_service.rs`, `rpc/group/*`, `http/routes/admin.rs` | group members, participants, loaded channel, owner, join requests | add, join, leave, remove, change role, transfer, approve, reject, load | `GroupMembers` |
| Friends, block lists, privacy | `service/friend_service.rs`, `service/blacklist_service.rs`, `service/privacy_service.rs`, `service/send_authorization.rs` | a row per direction, blocks | ask, accept, reject, recall, remove, block, judge a message | `Friendship` |
| QR login | `service/qr_login_service.rs`, `service/qr_login_publisher.rs` | scenes in Redis, bindings of browser connections | create, scan, confirm, reject, authorise, publish | `QrLogin` |
| Entity sync | `rpc/entity/sync_entities.rs`, page queries of the services | versioned rows | write, commit, page | `EntitySync` |
| The rest | offline queue, presence, security, identifiers, RPC and HTTP surface, profiles, file storage, caches, server assembly, stickers, notifications | see section 6 | | not modelled |

### How the parts interact

A send handler checks privileges, runs the write transaction and then does
three things: it writes the sync cache (or queues that write), spawns an
immediate dispatch of the outbox rows the transaction created, and publishes a
`MessageCommitted` event on the bus. The outbox, from this task or from its
loop, routes to sessions, records the delivered receipt, queues for offline
users, and publishes `MessageDelivered`, which cancels a push that the planner
has prepared. A client that missed something asks `sync/get_difference`, which
reads the cache in front of the commit log. Calls have a transaction of their
own; their effects (announce, post the summary to the timeline, clean up the
media room) are rows that a worker carries out later, the summary through the
write path under a permanent dedup key. Peer signalling runs under the call's row lock.

    handler --transaction--> PostgreSQL  (TimelineCommit)
       |                        |
       |                        +--> recipient rows --> outbox tasks --> sessions of all nodes (ClusterRouting), offline queue (DispatchOutbox)
       +--> Redis cache <-- get_difference (DifferenceSync)
       +--> event bus --> planner --> worker --> providers (PushPipeline)
    call RPC --> call row + effects --> effect worker --> timeline (CallControl); journal (PeerSignal)

The modules meet through facts, not shared variables: `DifferenceSync` takes
the log to be `1 .. dbPts`, which `TimelineCommit` establishes (`Gapless`,
`CommitsFeedReaders`);
`CallControl` posts a summary once because a permanent key is exactly-once
(`ExactlyOnce`, permanent keys); `DispatchOutbox` starts from the rows that a
commit snapshots; in `PushPipeline` a stored message may be delivered before
its committed event is published; `ReadCursor` leaves the clearing of counts to
`UnreadCount`; a file row that `LocalUpload` or `MultipartUpload` records is
what a message claims in `TimelineCommit`; the connections of `Connections` are
the sessions that `RoomFeed` and `QrLogin` bind to.

### What is hard here

- *Interleavings in the database.* Checks without locks before a transaction,
  rows that several handlers lock in some order, leases that expire under a
  living worker, a revoke or an acknowledgement of two sessions at once.
- *State kept twice.* Group membership in two tables and a loaded channel,
  sessions in two indexes, an upload in a directory, a bucket and a table.
- *Failure.* A commit whose reply is lost, a worker that dies between an
  effect and its completion flag, a Redis write of several that fails, a
  request dropped with its client while its blocking task goes on.
- *Order.* Cache writes of concurrent commits, domain events against the
  commit they belong to, signals of a superseded negotiation.
- *Limits.* A bounded queue or bus that drops, attempts that run out, a full journal, permits.

The list with line numbers is `hazards` in `PROJECT.json`.

## 2. The modules

All clocks are abstracted: a lease, a delay or a key expires at any moment.
That covers slow tasks, clock skew and every ratio of the time-outs; where an
order of expiry follows from equal lifetimes it is kept (`PeerSignal`).
Refusals that depend on authorisation, rate or input validation alone are
requests that do not happen.

**`TimelineCommit`** (with `TimelineLog`). A request is one execution of a
handler, and a client's retry is another request with the same key. `pc` is
the handler's place: the unlocked fast path (`FastPathHit`, `FastPathMiss`),
then one transaction in the order of its statements (`ClaimDedup`,
`AllocatePts`, `WriteRows` or `RefuseBinding`, `ClaimRegistry`), then
`Commit`. Writes of an open transaction are not in the database variables; the
rows it has locked follow from `pc` and `alloc`, and other transactions wait
for them, as PostgreSQL makes them. The four paths differ as in the code: the
wire and server paths claim the dedup table, `sync/submit` claims the registry
at the end, events claim nothing. `Fail` is any error or crash; `Commit` with a lost
reply leaves the rows and answers an error. `TimelineLog` is what readers rely
on: an append-only, densely numbered log per channel, and no second entry while
its claim is remembered.

**`DispatchOutbox`** (with `DeliveryLedger`). One parent row per event, one row per recipient
(`st`, `att`, `lease`, `tok`, `due`). Tasks are the outbox loop of a node
and the permits of its immediate dispatch; each claims rows with a fresh token,
routes them one by one, resolves the offline candidates as a batch, writes the
results back where token and state still match (`Complete`), and reconciles the
parents. Writes may fail, nodes may crash, leases and backoffs end at any
time. The outcome of routing is nondeterministic here; how it comes about is
`ClusterRouting`, whose verdicts (`sent`, `retry`, `offline`) are `RouteDelivered`, `RouteFailed` and `RouteOffline`.
`DeliveryLedger` is the outbox without tasks, leases and tokens: the recipients of an
event are recorded with it, each gets a budget of attempts and one verdict that has to be
earned (by a push, a stored copy or a used-up budget), an event is closed when its last
recipient is settled, and all of it is removed together. The mapping forgets the tasks.

**`ClusterRouting`.** A process claims its node's name, renews it at each tick or
ends; connections register an owner lease after they enter the index and give it
back when they leave. A route sends to its own connections, reads the owners,
queues a request for each other node and waits for answers, each call a step that may fail;
the worker of a node takes, sends and answers. Leases expire at any time.

**`DifferenceSync`.** One channel. Commits reach Redis by the handler's two
writes (`CachePts`, `CacheCommit`), by the queue that drops when full, and by
write-backs of readers; each may fail or be late. A client's
`get_difference` is a sequence of reads (cached pts, database pts, cached
range, database range) with the others in between.

**`CallControl`** (with `CallBook`). `call[c]` is the stored row with its participants. A
mutation locks the call row, expires what is due, applies itself and raises the
version, so it is one step (`Mutate`); an invite locks its users one by one in
ascending order (`LockUser`) and its busy check follows. The effect worker is a
sequence of steps around two commits (post the summary, note it), with failures
and crashes in between. `CallBook` is what participants see of all calls, a page each:
an invite takes free users in one step, and from then on a page only runs down
(nobody comes in, a device stays with its claim, an end is true and final), under a new
version whenever it shows. The mapping forgets locks, leases, deadlines and effects.

**`PeerSignal`.** Journal, commands and cursor of one call; signals and polls
are steps under the row lock. The journal's expiry, deletion in passing, the sweep and
the refusal of a cursor behind a gap are modelled, as is the client that starts again from 0.

**`PushPipeline`.** Handlers publish, the planner handles one event at a time
and waits for room in the intent queue, worker tasks look once at the intent's
state and then send device by device. Redis keys expire, Redis may fail (the
notice passes), providers may fail or declare a token dead. Device-level commits are not
modelled: nothing in the server publishes them.

**`ReadCursor`.** Requests of several devices mark a channel read: the cursor in
memory, the snapshot of the stored one, the upsert and the announcement are
steps of their own (`MarkReadPts`, `SnapshotCursor`, `StoreCursor`,
`Broadcast`). Any of them may fail, the channel may leave the memory, the server may restart.

**`UnreadCount`.** The batcher's queue, its pending map and its flush: a client's
message waits for room in the queue, a message of the server counts at once. Reads
clear the row and the cached count; a revoke is a check, a mark and a discount,
and several revokes may be under way for one message. A fault is a failed
statement, a lost reply or a restart.

**`QrLogin`.** Every operation on a scene is a read and a later write of the whole
scene (`ScanReads`, `ScanWrites` and so on), as in Redis. Events go
through the binding of the scene to its browser connection.

**`Connections`.** The two indexes have locks of their own, so registering,
closing and dropping a session are steps between which others come. Versions
and tokens follow `device_manager_db.rs`; every way to close (client, logout,
kick, refused RPC, failed delivery, watchdog, transport) is an action.

**`GroupMembers`.** Group rows, the participants mirror and the loaded channel are
written one after the other by each handler. Transactions of the group tables
hold the group's and the members' row locks until `Commit`; two that wait for each other are
resolved by `Deadlock`, as PostgreSQL does. `AddMember` takes any role, that of the
owner too, as `rpc/group/member/add.rs:91` does; a change of role reads the row
without a lock and writes it in a step of its own.

**`MultipartUpload`.** Session directory, bucket and database; `Complete` walks
through the steps of the handler up to the file row and the removal of
duplicates, each of which may fail or be the last before a crash. Whether the
bucket honours `If-None-Match` is the constant `NoClobber`; `UploadOverwriteMC` sets it to `FALSE`.

**`LocalUpload`.** A request holds its session's file lock and may be dropped at
every await; its blocking task is then in `late` and carried out at any time.
File contents are inodes (`store`, `bytes`), because publication is a hard link
and a session may open its temporary file again. Uploads in parts have their
directory, part files, assembly, tombstone, abort and sweep; claims share the file rows.
The system call that a dropped request was waiting for, an open or a write of a whole
file among them, happens later or not at all (`LateStep`).

**`Friendship`.** Both directions' rows and the block list. Transactions lock rows
and re-read them as READ COMMITTED does. A message is judged by four queries, each a step.

**`EntitySync`.** Versions are drawn when a statement writes a row and become
visible when its transaction commits, in any order; the client pulls pages. An item of
a page has rows whose versions count (`own`: the channel's and the user's row of it, the
read cursors of a group), rows that it only shows (`side`: the group's or the peer's row
in a channel item, a friend's profile) and rows that must be there for the user to see it
(`gate`: the membership that the filters on `left_at` ask for). `Remove` is a DELETE or
the setting of `left_at`. Transactions may write and remove any of these rows, which is
more than the code does: its membership changes also update the group's row
(`channel_service.rs:692-712`), so that a group that is joined again is sent by the next
page, while its read cursors are not (`read_state_service.rs:336-345`).

**`RoomFeed`.** A broadcast looks up its subscribers, appends to the history and sends;
a subscriber is added, then sent the history; requests of a session
overtake each other and the close of its connection. A frame that cannot be sent to a
live session is logged and skipped, in the broadcast and in the replay, and the session
stays subscribed (`Sends`).

`DispatchOutboxMC`, `TimelineCommitMC`, `DifferenceSyncMC` and `CallControlMC`
give the constants values; `RoutesMC` puts four clusters beside the competing calls. `ServicesMC` checks components that share no state
in one run: the initial state picks a scenario, only that component moves, and
the states of the others stay as they began. A property that two components have in
common (a request is decided once, a row leads to its bytes) has one name there.

## 3. Runs

| Run | What happens in it | What holds |
|---|---|---|
| `outbox_direct` | a direct message, two users, one loop task and one immediate task, two attempts, two sessions, crashes, failing writes | fencing, aggregation of the parent, rows and receipts that account for every delivery, implements `DeliveryLedger` (so settled rows and first receipts are final) |
| `outbox_live` | the loop alone with three attempts | every pending row is settled or uses up its attempts; a parent whose rows are settled closes |
| `outbox_stranded` | violation, see section 5 | |
| `timeline` | a wire message and its retry with a server message sent twice and a revoke; or `sync/submit` and its retry against wire messages with the same file | gapless, exactly once, agreeing answers, right head, one owner per file, implements `TimelineLog`, every request ends |
| `timeline_refusal_final` | violation | |
| `sync_difference` | three commits of both kinds, a cache of two, one queue slot, one fault | the cache is never ahead, a difference starts after the cursor and promises only what exists, a client that asks catches up |
| `sync_hole` | violation | |
| `calls_and_routes` | a group call and a direct call compete for three users; or routes in a cluster: a process that takes over another's name, a route tried again, a connection at home, two connections on one process, one fault | nobody in two calls, invites never wait in a circle, implements `CallBook` (so end reasons are true and versions tell every change); a user is taken for offline only when no connection could be reached |
| `call_live` | one call of two users with two devices, the worker, one crash, one removal | no effect is lost and no summary posted twice, implements `CallBook` (so claims are permanent), every call ends and its last version is announced |
| `services` | the scenarios below | |
| `push_skipped`, `upload_overwrites` | violations | |

About 0.9 million distinct states in `outbox_direct`, 0.28 in `outbox_live`, 2.3 in
`calls_and_routes` (1.2 of them the calls), 0.25 in `call_live`, 2.3 in `services`.

| Scenario of `services` | Instance | States | Properties |
|---|---|---|---|
| `peer` | two revisions, four signals, capacity three | 18 k | `NothingSilentlyDropped`, `OneOfferOneAnswer` |
| `messages`, `retry`, `request` | two notices of one conversation; one with a fault and a retry; one beside a friend request and a connect | 207, 23, 108 k | `AcceptedOnce`, `CalledOffStops`, `CancelledWasReached` |
| `readGroup`, `readDirect` | two requests of one reader, two messages; direct with a fault | 17, 19 k | `ReadsAreAnnounced` |
| `unread`, `revokes`, `revokeFails` | two members, two messages; queue of two and two faults; two revokes at a time; two revokes of one message and a fault | 38, 171, 4 k | `CountsAddUp` |
| `qr`, `qrAgain` | a code and two phones; two codes and one phone; two operations at a time | 35, 221 k | `SignInIsTheScanners` |
| `kicks`, `leaves` | two connections of a device; three session versions, or one and two other endings | 160, 234 k | `KickReaches`, `RoutesFollowConnections` |
| `group`, `approval` | three users, two handlers at a time; with a join request | 35, 133 k | `OwnersAreTheOwner`, `DecidedOnce` |
| `uploads` | two sessions of one content under one key or two, a fault or crash, the sweep | 314 k | `ReferencedObjectExists`, `BucketIsAccountedFor` |
| `whole`, `claims`, `parts` | two tokens and two bodies; two claims and an upload; an upload in parts | 97, 21, 167 k | `ReferencedObjectExists`, `OneFilePerToken` |
| `friends` | two users, two requests at a time | 64 k | `BarredCannotSend`, `DecidedOnce` |
| `entities`, `channels`, `groups`, `cursors` | three friends, one shown with a profile, in pages of two; two channels of two rows each, one shown with its group and dissolved; two groups joined, left and deleted; the cursors of a group that the user joins beside another cursor; pages of one | 26, 58, 55, 24 k | `NothingElseIsMissed` |
| `room`, `fullRoom` | a subscriber and a fault; two sessions for one place; two broadcasts, history of one | 52, 23 k | `NothingElseIsMissed`, `RoutesFollowConnections` |

*Why the bounds are enough to be interesting.* Two tasks are what fencing and
lost updates need, and two attempts let a claim be overtaken and retried; the
third attempt in `outbox_live` lets a row be retried after a crash and a failed
write. In the write path two executions per key are what a race between a
message and its retry needs, the other requests contend for the pts row, and
one shared file gives the lock orders a chance to deadlock.
With a cache of two and three commits the trim happens and a cached range may
start after the cursor. Three users are the smallest number for which two
invites overlap without being equal. A journal of three with four signals
overflows, expires partly and is polled behind a gap; two revisions make one
of them superseded. One bus slot fewer than the events in flight makes the bus
overwrite, and one permit and one queue slot make the planner wait and a retry
find the queue full. Two handlers or requests at a time are what the lost
updates, stale reads and lock orders of the other services need; the three
users of a group let an owner hand over to one and remove another. Two
contents of one token (`b1`, `b2`) let a retry replace what an earlier attempt left. Two phones
and two tokens let a scan be overwritten by another one.

`CHECK_DEADLOCK FALSE` is set where the system may come to rest: all requests
of the run are answered, all calls have ended, all signals of the bound are sent.

*Symmetry* is used for call ids in `calls_and_routes`, and for the pairs `a1`, `a2`
and `b1`, `b2` in `services`, which every scenario treats alike; no liveness property is checked under it, and the invariants and action properties are symmetric themselves.

### Fairness

- *Outbox*: weak fairness of each task's steps, of the terminal-parent sweep,
  and of the end of leases and backoffs. The loop is a tokio task that wakes
  every tick, and clocks advance. Crashes and failures have no fairness.
- *Write path*: weak fairness of every step a started request can take.
  PostgreSQL grants a released row lock to a waiter; when a request starts is the client's choice.
- *Sync*: weak fairness of the handlers' steps and of the expiry of the cached
  pts (ten seconds); strong fairness of "the client asks again", which is an
  assumption about a client that keeps asking. Cache writers have none: the client
  catches up even if no cache write ever comes.
- *Calls*: weak fairness of clocks, of the sweep (every process runs it), of an
  invite in progress and of the worker. Clients have none: a call ends because
  leases and ring deadlines end. Failures are bounded by `MaxCrashes`; a media
  server that is down for ever would hold up later effects.

## 4. Proofs

Each theorem holds for every value of the constants that satisfies the named
assumption of its module (types of the constants; bounds are naturals). A
component's own assumption is an `ASSUME`. A component that a proof module
takes with `INSTANCE` states its assumption as an operator, which is a
hypothesis of the theorem: `TwoUsers` (two users are friends or not),
`RequestsOfUsers` (join requests are of users), `SessionsOfDevices`,
`ItemsOfRows`, `ReadersAreMembers`, `LimitIsNumber`, `ConnectionsOfProcesses`,
`DevicesAndBus` (a device has an owner; the bus holds something),
`KeysAndSessions` (the mark for "no key" is not a key) and `TokensAndBodies`. `ServicesMC` and
`RoutesMC` assert each of them about the instances they run. The theorems on
these components state the component's property itself; the runs check it in
the component's scenarios, under the name in the table of section 3.

- **`TimelineCommitProofs`**. The property to start from, `Gapless`, is not
  inductive: that the allocated number is still the next one at commit time is
  a fact about locks. `LocksExclusive` says that at most one transaction holds
  a channel's pts row, a key or a file, and `LocksFresh` that what it has
  read under the lock is still so. With `RowsOfRequests` and `Dense`
  (`NumberInv`) they give `GaplessTimeline`; with `ClaimsRecorded`
  (`OnceInv`) `ExactlyOncePerKey`. `TablesNamed` and `AnswersNamed` carry
  `AnswersAgreeAlways`, `HeadInv` carries `HeadFollowsMessages`.
  `TimelineImplementsLog` shows that a commit is an `Append`, retention a
  `Forget` and everything else a stutter, under the mapping in `TimelineCommit`.
  `CommitsFeedReaders` is what `DifferenceSync` takes for granted of its writers: a step
  that moves a channel's pts adds the next number with its row. `HandlersNeverDeadlock`
  is the safety half of `EveryRequestEnds`: a request waits only for one that is further
  in the order dedup key, pts, file, registry, so that one in the furthest place waits for nobody.
  *Uploads to S3* (`MultipartUpload`) are proved here too. `UploadInv` says,
  session by session, what is already on disk, in the bucket and in the table
  at each step of the handler (`StepDone`) and of the sweep (`SweepDone`), and
  what leads to each thing (`Found`); a step of one session leaves the entries
  of the others alone (`LeftAlone`). `NothingLostInTheBucket` follows whether or not the
  bucket honours `If-None-Match`. `RowsLeadToObjects` needs it: then an
  object that a row names is never replaced (`SoundInv`). Run `upload_overwrites` is the counterexample without.
- **`DispatchOutboxProofs`**. `Fencing` follows from `TokenDiscipline`: every
  claim has a token of its own, below the next fresh one, and a row's token is
  that of its latest claim. `ParentAggregation` needs only the type invariant
  and that a completion writes pending rows. `RecordsAccount` rests on
  `VerdictsTrue` and `ReceiptsTrue`: what a task has noted for a row but not written
  has happened, and its claim was counted before. `VerdictsAreFinal` is the action property.
  `OutboxImplementsLedger` is the refinement, one ledger step per action: `DeliveryInv` says
  that a verdict a task writes is earned, and `HeldIsRow` that what a task holds is a row of
  the table or of a removed event; that claims may be overtaken and writes lost is a stutter.
  *Routes* (`ClusterRouting`): `SteadyIsTried` follows a connection that is reachable
  all the time, and for each route on its way says where the request, the work
  or the answer for that connection's node is, or that the route has heard of
  it (`Tried`); a verdict "offline" is left only when there is no such connection.
- **`DifferenceSyncProofs`**. `CacheNeverAhead`: everything a late writer still
  holds (`Pending`: handler, queue, write-back, an RPC's read value) is already
  committed, and commits are never undone. `DifferencesAreTrue` adds what each
  phase of an RPC has read (`Replies`); that a non-empty part of the log has a
  first entry is the least-number principle, from `WellFoundedInduction`.
  *Unread counts* (`CountInv`): a clear comes after the read that caused it
  (`ClearsAfterRead`), and for each member what is unread, batched and queued
  balances what the others wrote (`Balance`), with what lost replies left in the batch on
  one side and what revokes took out on the other. The latter is `Excess`: a unit for each
  message that is revoked or about to be and for each overlap, less one for each revoke that
  has not discounted yet. The counting lemmas go through
  bijections of the positions before and after an append or a removal.
- **`CallControlProofs`**. `BusyArbitration` needs `LocksHold` (an invite past
  its busy check owns its users' locks and they are in no call),
  `InvitesGood`, `WorkGood` and `CallsGood`. A mutation is a chain of
  updates; each is shown to be an `Evolves` step (version grows if
  something visible changes, claims and ends are kept), and `EvolvesTwice`
  composes them. `TruthfulEnds`, `VersionsTell` and `ClaimsArePermanent` follow.
  `OneSummaryPerCall`: every history effect, stored or in a worker's hands, is of an
  ended call, and ended calls stay ended (`EffectsTrue`, `WorkTrue`).
  `EffectsAreSettled` adds that nothing is lost (`OwedInv`). That a state effect may be
  completed although it is an old one rests on dates: a recorded effect is not later than its call
  (`Dated`), a worker has read the call at or after its effect's version (`DatedJob`), and
  nothing later than the call was announced (`ToldTrue`). A history effect is completed
  only when its summary is posted, since nothing is left to post only then (`NotedTrue`);
  and a transaction that changes version or state records both (`Covers`).
  `CallsImplementBook`: `RunsDown` is what a page may do however many steps apart, `Legible` what
  makes it consistent; an invite that commits holds the locks of all its users, so
  `LocksHold` makes its step the book's `Invite`.
  `InvitesNeverDeadlock`: an invite has locked only users below the one it waits for
  (`LocksInOrder`). If every invite waited, the one waiting for the highest
  user would wait for one that waits higher still; such an invite exists because users are
  finitely many (`LastUser`, the least-number principle on how many users are above).
- **`PeerSignalProofs`**. `Inv` relates the journal to the history of all
  signals: rows are numbered, the offer of a revision comes first, the
  `answered` flag is true once an answer exists, and the journal keeps every unexpired row
  (`Kept`). `Negotiation`, `TypeCorrect` (with the capacity, `Fits`) and
  `JournalGapsReported` follow.
  *Pushes* (`PushPipeline`): the push of a notice to a device is in exactly one of
  the event, the planner, the queue, a worker task, the retries and the
  accepted ones (`CarrierInv`), which gives `AcceptedStaysOnce`; a call made after
  the intent was called off was the carrier's last (`LateInv`); an intent is
  cancelled by a delivery or a connect that lies behind its event on the bus (`ReachedInv`).
- **`AccountProofs`**. *Login* (`LoginInv`): the token of a scan under way is
  nobody else's and that of a scanned scene is still unused, so the
  overwriting of scenes can only lose scans. *Friends* (`FriendlyInv`): an accept that has
  locked the request still finds it pending, and each of the four answers a
  message has received was true at some moment since it came. *Connections*: `KickInv` (a
  session of an ended login is `early`, or is where the kick will still
  look) and `RouteInv` (an authorised session that nobody ends is in both indexes).
  *Groups*: what a handler found under the group's lock is still so
  while it holds it (`StillTrue`), and two handlers in a transaction are not on one row
  (`Apart`); a role change that nothing overtook since its read is still of a user who is no
  owner (`RoleRead`). `OneOwner` and `OneDecision` follow.
- **`SyncProofs`**. *Pages* (`EntityInv`): up to the cursor, and up to the end of a
  page under way, the client has an item as it is, or the item changed behind the pages
  (`quiet`) since one last had it; when only a row beside it did, the rows that count are right.
  What is not listed has gone or was never shown (`GoneAreNotListed`).
  *Reads* (`ReadInv`): what the cursor has passed is announced or is in the hands of a
  request that will. *Rooms* (`RoomInv`): the history is the newest casts in order, and what a
  subscriber has not got is on its way in a replay or a broadcast, or was sent in vain.
- **`LocalUploadProofs`**. A dropped request leaves blocking tasks and a COMMIT behind, so
  no lock says who owns a file. Both halves of the invariant name an owner instead.
  `IdInv`: every file id drawn belongs to one token, and this accounts for session
  files, requests, late writes, rows and answers; a request works with the ids of its
  session unless the session file was set back. `FileInv`: every temporary file and open
  writer belongs to one token, and the body that a request past publication, a
  late COMMIT, a row or the registration refers to is at its path, or was `overwritten`.
  `TaskWell` says what a blocking task may still do, for the request that awaits it and
  for the one that was dropped; `IdsStep` and `FilesStep` reduce each action to what it
  changes; what a late open or write spoils was `overwritten` (`Spoils`). `TokensAreGoodOnce` leaves out tokens that were `reverted`, `RowsLeadToFiles` bodies
  that were `overwritten`, as the properties do (section 5).

Type correctness is proved for the write path, the outbox and the peer journal,
where the other proofs use it. The services' modules state no type invariant;
each proof carries the types it needs.

Only model-checked: the liveness properties (`PendingIsWorkedOff`,
`SettledParentCloses`, `EveryRequestEnds`, `CatchesUp`, `EveryCallEnds`), which
need fairness and are outside the prover's reach, and the five properties of
section 5, which the code violates. Every invariant, action property and refinement that
a passing run checks has a theorem, for the components of `services` and
`calls_and_routes` about the component's own property of that name. What one run no longer checks by itself
because a refinement contains it is still a theorem (`VerdictsAreFinal`, `TruthfulEnds`,
`VersionsTell`, `ClaimsArePermanent`). Writing the
proofs changed three models: two branches of `UnderWay` in `LocalUpload`
overlapped for the last step of a chunked upload (TLC took the first, which was
meant), `UnreadCount` kept discounts per message where their number is enough, and
`CallControl` had not said that the mark for "no call" is not a page of the book (`PageAssumption`).

## 5. Where the code and its comments disagree

1. `outbox_stranded`: a worker that dies during the last allowed attempt leaves
   a row that is pending, whose lease expires and which no claim takes, so
   the parent never closes.
2. `timeline_refusal_final`: a retried `sync/submit` with an attachment may be refused as
   if somebody else owned the file, because the binding is checked before the
   registry tells that the message exists.
3. `sync_hole`: a cached range that starts right after the cursor is served even
   though commits within it are missing; the client then moves its cursor past them.
4. `push_skipped`: the dedup key of a conversation is taken when a push is
   planned and kept when that push is cancelled; the next message is left out
   "because the conversation was pushed".

5. `upload_overwrites`: on a bucket that ignores `If-None-Match`, a second upload
   of one content replaces the published object and then deletes it as its own duplicate,
   although a file row leads to it.

The quoted lines are in `PROJECT.json`.

Smaller windows that the properties name as exceptions, so that they say exactly
what is still true:

- `ClusterRouting`: a process that has lost its name ends at its next tick, "to prevent
  split brain" (`cross_node_dispatch.rs:164`). Until then it takes requests from the
  queue of that name, and answers for connections that only its successor has: the user is taken for
  offline. `OfflineIsTrue` leaves out the time in which two processes are up under one name.
- `UnreadCount`: a reply lost after its statement took effect makes the
  batcher add again; counts may then be too high until the next read, by exactly what is in
  `readded`. Two revokes of one message that are both let in before either marks it both
  discount it, although the caller says that the discount "每条消息只会跑一次"
  (runs once per message, `message_service.rs:529-531`): `revoke_message` checks and updates without
  a lock. `overlaps` counts such revokes; `CountsAddUp` allows one message less for each of them and no more.
- `QrLogin`: a confirmation token may be used by two requests that both load the scene before
  either stores it, and a reject may be overwritten by a confirm. The browser is then still signed
  in as the user who scanned, which is all that `SignInIsTheScanners` says.
- `Connections`: a session that passed its check before a kick raised the
  version, and registers after it, stays (`early`).
- `GroupMembers`: `member_count` is recomputed from the statement's snapshot, so two
  transactions of different members can leave it one off (`channel_service.rs:692`);
  `OwnersAreTheOwner` excuses a user until the role and `owner_id` agree again (`excused`) in three cases.
  A message to a channel whose loaded members are gone, because they could not be read or have all left,
  enters its sender with the role of the mirror, and that may be the owner's, also for one who never owned the group,
  since `group/member/add` writes any role there (`add.rs:91`, `add.rs:98`). A membership transaction does not look at
  `owner_id` and may remove the owner, or enter the owner again as a member. And `set_member_role_admin` reads the role without
  a lock (`channel_service.rs:1436`) and updates it later (1466): a member who became the owner in between is demoted, although
  the comment at 1412-1414 rules that out (`overtaken`).
- `Friendship`: a removal whose snapshot lacks the row that an accept is inserting leaves that row accepted.
- `EntitySync`: what a client is not told until the item changes again or, for the first, ever (`quiet`).
  *gone*: rows are deleted without a tombstone (`dissolve_group_admin`, `channel_service.rs:743-776`) or
  filtered out after the user left (2464-2466). *back*: an item is visible again at a version behind the cursor, as the read
  cursors of a group are for a user who joins it (`read_state_service.rs:336-345`). *overtaken*: a transaction that
  drew a lower version commits after a page has shown a higher one. *beside*: the name and avatar in a
  channel item come from the group's or the peer's row, whose versions are not in `GREATEST` (2639-2647), although
  2709 calls the item self-contained; a client that keeps groups and users learns them from the other pages.
- `RoomFeed`: a session that subscribes between a broadcast's lookup and its append, and reads the
  history before the append, gets that broadcast neither live nor from the
  replay, although the comment at `subscribe_message_handler.rs:78-83` calls the order of registration and replay a no-loss choice; a frame whose sending fails on a live
  session is not sent again (`unsent`; `admin.rs:1065-1068`, `subscribe_message_handler.rs:126-136`);
  a request handled after the close of its connection leaves a subscription behind (`late`).
- `LocalUpload`: publication links the temporary file to its final path
  (`file_service.rs:250-251`), so that a request that opens the temporary file
  again before it is unlinked truncates the published object (`overwritten`);
  the blocking task of a dropped request outlives the session lock
  (`chunked_upload.rs:828-832`) and may do the same, open or write a whole file again (`file_service.rs:1007`), or write an older session file (`reverted`). Directories of
  whole-file sessions are not swept.
- `MultipartUpload`: a crash or double failure before the anchor is on disk, a
  sweep in the middle of a directory's creation (`loose`), and a client that gives up after publication (`orphans`).

## 6. Not modelled

Cryptography, serialisation, SQL text, S3 and HTTP are data or I/O without
state that two steps share. The SQL isolation level is the default (read
committed); a statement is atomic. The transport and the client are
external: they appear as nondeterministic outcomes.

- *Offline queue and worker.* A Redis list per user that the outbox fills. The worker
  filters it by an in-memory index of undelivered ids (`offline_worker.rs:452-458`)
  that no sender fills, so it pushes next to nothing, and delivery after a
  reconnect rests on `DifferenceSync`. `remove_message_by_id` reads and then replaces the list without
  a transaction (`offline_queue_service.rs:246`). `src/offline` is not reached from the server.
- *Presence and typing.* Best effort; what is published is read from the connection index at that moment.
- *Security and rate limits.* Each check is under one lock from its first read to its last
  write; its outcome, over real-valued time, only refuses or delays a request, and in
  every module a request may simply not happen.
- *Identifiers, node ownership.* Ids come from a library behind a mutex; the single-instance guard is one advisory lock.
- *Message reads, profiles, stickers, notifications, lists of channels, mutes, settings, pins.* Reads
  and single-row writes of one request.
- *RPC and HTTP surface, configuration, migrations, server assembly, caches, file back ends.*
  Decoding, validation, wiring and I/O.

The map covers about an eighth of the implementation's lines. Most of the rest is the
last two groups above, with tests inside the source files, DTOs, SQL text
and logging between the lines that change state; a model of them would restate assignments.

## 7. Plan

1. Proofs: lemmas that several proof modules repeat (an update of one entry of a
   function leaves the others alone, appending to a queue) could be stated once in a
   module of their own; an abstract specification of the peer journal (a prefix that
   grows) could be refined as `TimelineLog`, `DeliveryLedger` and `CallBook` are.
2. Models: presence, and the offline queue once a sender fills its index.
