---------------------------- MODULE ServicesMC ------------------------------
(***************************************************************************)
(* Components that share no state, checked in one run: each behaviour      *)
(* belongs to one scenario, which moves the variables of its component     *)
(* only.  The peer journal is PeerSignal, extended; the others are         *)
(* instantiated, some of them twice with different constants.              *)
(*                                                                         *)
(* a1 and a2 stand for whatever comes twice and is interchangeable: the    *)
(* command ids of peer signalling, a user's devices, the requests under    *)
(* way, the sessions of a device, the sessions of an upload; b1 and b2 for *)
(* a second such pair (scenes of a login, keys of a bucket, two users).    *)
(***************************************************************************)
EXTENDS PeerSignal, TLC

CONSTANTS a1, a2, b1, b2,      \* interchangeable
          n1, n2, u1, u2, u3, s1, NoDevice,
          Scenarios   \* those of this run

VARIABLES
    scenario,
    \* PushPipeline
    stored, published, received, met, revoked, connects, faults, bus, taken, rate,
    status, skipped, outgoing, queue, tasks, backoff, tokens, accepted, late,
    \* ReadCursor
    author, gone, memory, readCursor, marking, told, failed, problems,
    \* UnreadCount
    sender, removed, requests, pending, caching, unread, counts, seen, clearing, revoking,
    overlaps, readded, hitches,
    \* QrLogin
    redis, jobs, issued, holds, spent, granted, sceneSession, sessionScene, owner, due, pushed,
    \* Connections
    device, logins, ousted, sessionTokens, line, handler, early, bound, token,
    indexA, indexB, superseded, total, drops, forced, leaving, asked, extras,
    \* GroupMembers
    members, groupOwner, count, mirror, cache, loading, joinRequests, listed, job, verdicts, loadFailed, becoming, excused,
    \* MultipartUpload
    key, mpu, parts, object, anchor, dir, tomb, outdated, fileRows, registered, step, sweep,
    loose, orphans, mishaps,
    \* Friendship
    edge, blocks, work, friends, outcast, barred,
    \* EntitySync
    drawn, version, writing, since, copy, page, shown, quiet,
    \* LocalUpload
    session, pieces, temps, lapsed, closed, staging, store, bytes, overwritten, reverted, ids, files, content, posts, adrift,
    answers, hiccups,
    \* RoomFeed
    wire, calls, inbound, subscribed, replays, history, order, cast, targets, heard, unsent, missedBy, dropped,
    strays, upsets

-----------------------------------------------------------------------------
(* Push: two messages of one conversation; and a message beside a friend     *)
(* request, with a user who connects and a fault.                            *)

BothOfU1 == [d \in {a1, a2} |-> u1]
ToU1 == [n \in {n1, n2} |-> {u1}]
OneToU1 == [n \in {n1, n2} |-> IF n = n1 THEN {u1} ELSE {}]
OneConversation == [n \in {n1, n2} |-> 1]

PushMessages == INSTANCE PushPipeline WITH
    Notices <- {n1, n2}, Requests <- {}, MaxConnects <- 0,
    Users <- {u1}, Devices <- {a1, a2}, OwnerOf <- BothOfU1, ToOf <- ToU1,
    ConvOf <- OneConversation, BusCap <- 2, QueueCap <- 1, Permits <- 1, RateMax <- 1,
    MaxRetry <- 1, MaxFaults <- 0

PushRetry == INSTANCE PushPipeline WITH
    Notices <- {n1, n2}, Requests <- {}, MaxConnects <- 0,
    Users <- {u1}, Devices <- {a1, a2}, OwnerOf <- BothOfU1, ToOf <- OneToU1,
    ConvOf <- OneConversation, BusCap <- 2, QueueCap <- 1, Permits <- 1, RateMax <- 1,
    MaxRetry <- 1, MaxFaults <- 1

PushRequest == INSTANCE PushPipeline WITH
    Notices <- {n1, n2}, Requests <- {n2}, MaxConnects <- 1,
    Users <- {u1}, Devices <- {a1}, OwnerOf <- BothOfU1, ToOf <- ToU1,
    ConvOf <- OneConversation, BusCap <- 2, QueueCap <- 1, Permits <- 1, RateMax <- 1,
    MaxRetry <- 1, MaxFaults <- 1

ASSUME PushAssumption ==
    PushMessages!DevicesAndBus /\ PushRetry!DevicesAndBus /\ PushRequest!DevicesAndBus

pushVars == <<stored, published, received, met, revoked, connects, faults, bus, taken, rate,
              status, skipped, outgoing, queue, tasks, backoff, tokens, accepted, late>>

-----------------------------------------------------------------------------
(* Read cursors: a group of three of whom one reads, and a direct channel     *)
(* with a fault.                                                             *)

ReadGroup == INSTANCE ReadCursor WITH
    Members <- {u1, u2, u3}, Readers <- {u1}, Direct <- FALSE, Marks <- {a1, a2},
    MaxPts <- 2, MaxFaults <- 0, cursor <- readCursor

ReadDirect == INSTANCE ReadCursor WITH
    Members <- {u1, u2}, Readers <- {u1}, Direct <- TRUE, Marks <- {a1, a2},
    MaxPts <- 2, MaxFaults <- 1, cursor <- readCursor

ASSUME ReadAssumption == ReadGroup!ReadersAreMembers /\ ReadDirect!ReadersAreMembers

(* Unread counts of two members: two faults, or two revokes at a time; and   *)
(* of one message that is revoked while something fails.                     *)
Unread == INSTANCE UnreadCount WITH
    Members <- {a1, a2}, Revokes <- {}, QueueCap <- 2, MaxPts <- 2, MaxFaults <- 2,
    author <- sender, gone <- removed, redis <- counts, cursor <- seen, problems <- hitches

RevokeFails == INSTANCE UnreadCount WITH
    Members <- {a1, a2}, Revokes <- {b1, b2}, QueueCap <- 1, MaxPts <- 1, MaxFaults <- 1,
    author <- sender, gone <- removed, redis <- counts, cursor <- seen, problems <- hitches

Revoking == INSTANCE UnreadCount WITH
    Members <- {a1, a2}, Revokes <- {b1, b2}, QueueCap <- 1, MaxPts <- 2, MaxFaults <- 0,
    author <- sender, gone <- removed, redis <- counts, cursor <- seen, problems <- hitches

readVars == <<author, gone, memory, readCursor, marking, told, failed, problems>>
countVars == <<sender, removed, requests, pending, caching, unread, counts, seen, clearing, revoking,
               overlaps, readded, hitches>>

-----------------------------------------------------------------------------
(* A browser, two phones of one user and two operations at a time; and a     *)
(* browser that asks for a second code.                                      *)

OneUser == [p \in {n1, n2} |-> u1]

Qr == INSTANCE QrLogin WITH
    Scenes <- {b1}, Sessions <- {s1}, Phones <- {n1, n2}, UserOf <- OneUser,
    Jobs <- {a1, a2}, MaxScans <- 2, tokens <- issued

QrAgain == INSTANCE QrLogin WITH
    Scenes <- {b1, b2}, Sessions <- {s1}, Phones <- {n1}, UserOf <- OneUser,
    Jobs <- {a1, a2}, MaxScans <- 2, tokens <- issued

qrVars == <<redis, jobs, issued, holds, spent, granted, sceneSession, sessionScene, owner, due, pushed>>

(* A device with two connections: three versions of its session, or one and  *)
(* two of the events that MaxExtras bounds.                                  *)
OneDevice == [s \in {a1, a2} |-> n1]

Kicks == INSTANCE Connections WITH
    Devices <- {n1}, Sessions <- {a1, a2}, DeviceOf <- OneDevice, MaxVersion <- 3, MaxExtras <- 0,
    tokens <- sessionTokens

Leaves == INSTANCE Connections WITH
    Devices <- {n1}, Sessions <- {a1, a2}, DeviceOf <- OneDevice, MaxVersion <- 1, MaxExtras <- 2,
    tokens <- sessionTokens

ASSUME ConnectionAssumption == Kicks!SessionsOfDevices /\ Leaves!SessionsOfDevices

connectionVars == <<device, logins, ousted, sessionTokens, line, handler, early, bound, token,
                    indexA, indexB, superseded, total, drops, forced, leaving, asked, extras>>

-----------------------------------------------------------------------------
(* A group of three and two requests to the server at a time; and a group of *)
(* two whom a third asks to join.                                            *)

Direct == {"add", "join", "leave", "remove", "addAdmin", "removeAdmin", "role", "transfer", "send"}
NoApplicant == [q \in {} |-> u1]
U3Applies == [q \in {n1} |-> u3]

Group == INSTANCE GroupMembers WITH
    Users <- {u1, b1, b2}, Creator <- u1, Joined <- {b1, b2}, Handlers <- {a1, a2},
    Requests <- {}, Applicant <- NoApplicant, Kinds <- Direct,
    rows <- members, owner <- groupOwner, asked <- joinRequests, told <- verdicts, failed <- loadFailed, overtaken <- becoming

Approval == INSTANCE GroupMembers WITH
    Users <- {u1, u2, u3}, Creator <- u1, Joined <- {u2}, Handlers <- {a1, a2},
    Requests <- {n1}, Applicant <- U3Applies,
    Kinds <- {"add", "join", "remove", "approve"},
    rows <- members, owner <- groupOwner, asked <- joinRequests, told <- verdicts, failed <- loadFailed, overtaken <- becoming

ASSUME GroupAssumption == Group!RequestsOfUsers /\ Approval!RequestsOfUsers

groupVars == <<members, groupOwner, count, mirror, cache, loading, joinRequests, listed, job,
               verdicts, loadFailed, becoming, excused>>

-----------------------------------------------------------------------------
(* Two uploads of one content, under one key or two, with a fault.           *)

Uploads == INSTANCE MultipartUpload WITH
    Sessions <- {a1, a2}, Keys <- {b1, b2}, NoClobber <- TRUE, MaxFaults <- 1,
    expired <- outdated, rows <- fileRows, job <- step

ASSUME UploadAssumption == Uploads!KeysAndSessions

uploadVars == <<key, mpu, parts, object, anchor, dir, tomb, outdated, fileRows, registered, step,
                sweep, loose, orphans, mishaps>>

(* Two uploads of one content to local disk; two claims beside one upload;   *)
(* and an upload in parts; two requests at a time, and one fault or two.     *)
Whole == INSTANCE LocalUpload WITH
    Tokens <- {a1, a2}, Chunked <- {}, Claims <- {}, Bodies <- {b1, b2}, Requests <- {n1, n2}, MaxIds <- 3, MaxFiles <- 7,
    MaxFaults <- 1, parts <- pieces, expired <- lapsed,
    rows <- files, registered <- content, job <- posts, late <- adrift, faults <- hiccups

Claiming == INSTANCE LocalUpload WITH
    Tokens <- {s1}, Chunked <- {}, Claims <- {a1, a2}, Bodies <- {n1}, Requests <- {b1, b2}, MaxIds <- 4, MaxFiles <- 6,
    MaxFaults <- 2, parts <- pieces, expired <- lapsed,
    rows <- files, registered <- content, job <- posts, late <- adrift, faults <- hiccups

InParts == INSTANCE LocalUpload WITH
    Tokens <- {s1}, Chunked <- {s1}, Claims <- {}, Bodies <- {b1, b2}, Requests <- {a1, a2}, MaxIds <- 1, MaxFiles <- 7,
    MaxFaults <- 2, parts <- pieces, expired <- lapsed,
    rows <- files, registered <- content, job <- posts, late <- adrift, faults <- hiccups

ASSUME LocalAssumption == Whole!TokensAndBodies /\ Claiming!TokensAndBodies /\ InParts!TokensAndBodies

localVars == <<session, pieces, temps, lapsed, closed, staging, store, bytes, overwritten, reverted, ids, files, content, posts,
               adrift, answers, hiccups>>

(* Two users and two requests at a time. *)
Friends == INSTANCE Friendship WITH Users <- {b1, b2}, Handlers <- {a1, a2}

ASSUME FriendsAssumption == Friends!TwoUsers

friendVars == <<edge, blocks, work, friends, outcast, barred>>

(* Pages of three friends, one of them shown with a profile, that may end    *)
(* early; of two channels with the user's rows of them, one shown with the   *)
(* row of its group, which is dissolved; of two groups that the user joins   *)
(* and leaves; and of the read cursors of a group that the user joins.       *)
Item(own, side, gate) == [own |-> own, side |-> side, gate |-> gate]

Entities == INSTANCE EntitySync WITH
    Items <- {Item({b1}, {}, {}), Item({b2}, {}, {}), Item({s1}, {u1}, {})},
    Txs <- {a1, a2}, Removable <- {}, Limit <- 2, Truncates <- TRUE, MaxVersion <- 4

Channels == INSTANCE EntitySync WITH
    Items <- {Item({n1, n2}, {s1}, {n1, n2}), Item({u1, u2}, {}, {u1, u2})},
    Txs <- {a1, a2}, Removable <- {n1}, Limit <- 1, Truncates <- FALSE, MaxVersion <- 4

Groups == INSTANCE EntitySync WITH
    Items <- {Item({n1}, {}, {n2}), Item({u1}, {}, {u2})},
    Txs <- {a1, a2}, Removable <- {n1, n2}, Limit <- 1, Truncates <- FALSE, MaxVersion <- 4

Cursors == INSTANCE EntitySync WITH
    Items <- {Item({n1, n2}, {}, {s1}), Item({u1}, {}, {})},
    Txs <- {a1, a2}, Removable <- {}, Limit <- 1, Truncates <- FALSE, MaxVersion <- 4

ASSUME EntityAssumption ==
    Entities!ItemsOfRows /\ Channels!ItemsOfRows /\ Groups!ItemsOfRows /\ Cursors!ItemsOfRows

entityVars == <<drawn, version, writing, since, copy, page, shown, quiet>>

(* A room with one subscriber and a fault; and one that is full with one of  *)
(* two.                                                                      *)
Room == INSTANCE RoomFeed WITH
    Sessions <- {s1}, Casts <- {b1, b2}, Limit <- 1, MaxSubscribers <- 1, MaxRequests <- 2, MaxFaults <- 1,
    line <- wire, requests <- calls, handlers <- inbound, got <- heard, overtaken <- missedBy, late <- strays,
    mishaps <- upsets

FullRoom == INSTANCE RoomFeed WITH
    Sessions <- {a1, a2}, Casts <- {b1, b2}, Limit <- 1, MaxSubscribers <- 1, MaxRequests <- 1, MaxFaults <- 0,
    line <- wire, requests <- calls, handlers <- inbound, got <- heard, overtaken <- missedBy, late <- strays,
    mishaps <- upsets

ASSUME RoomAssumption == Room!LimitIsNumber /\ FullRoom!LimitIsNumber

roomVars == <<wire, calls, inbound, subscribed, replays, history, order, cast, targets, heard, unsent, missedBy,
              dropped, strays, upsets>>

-----------------------------------------------------------------------------

ServicesInit ==
    /\ scenario \in Scenarios
    /\ Init /\ PushMessages!Init /\ Unread!Init /\ Kicks!Init /\ Uploads!Init /\ Friends!Init
    /\ IF scenario = "qr" THEN Qr!Init ELSE QrAgain!Init
    /\ IF scenario = "readDirect" THEN ReadDirect!Init ELSE ReadGroup!Init
    /\ IF scenario = "approval" THEN Approval!Init ELSE Group!Init
    /\ IF scenario = "channels" THEN Channels!Init ELSE IF scenario = "groups" THEN Groups!Init
       ELSE IF scenario = "cursors" THEN Cursors!Init ELSE Entities!Init
    /\ IF scenario = "claims" THEN Claiming!Init ELSE IF scenario = "parts" THEN InParts!Init ELSE Whole!Init
    /\ IF scenario = "fullRoom" THEN FullRoom!Init ELSE Room!Init

(* The components that a step of one of them leaves alone. *)
OnlyPeer ==
    UNCHANGED <<pushVars, readVars, countVars, qrVars, connectionVars, groupVars, uploadVars,
                friendVars, entityVars, localVars, roomVars>>
OnlyPush ==
    UNCHANGED <<vars, readVars, countVars, qrVars, connectionVars, groupVars, uploadVars,
                friendVars, entityVars, localVars, roomVars>>
OnlyRead ==
    UNCHANGED <<vars, pushVars, countVars, qrVars, connectionVars, groupVars, uploadVars,
                friendVars, entityVars, localVars, roomVars>>
OnlyCount ==
    UNCHANGED <<vars, pushVars, readVars, qrVars, connectionVars, groupVars, uploadVars,
                friendVars, entityVars, localVars, roomVars>>
OnlyQr ==
    UNCHANGED <<vars, pushVars, readVars, countVars, connectionVars, groupVars, uploadVars,
                friendVars, entityVars, localVars, roomVars>>
OnlyConnections ==
    UNCHANGED <<vars, pushVars, readVars, countVars, qrVars, groupVars, uploadVars,
                friendVars, entityVars, localVars, roomVars>>
OnlyGroup ==
    UNCHANGED <<vars, pushVars, readVars, countVars, qrVars, connectionVars, uploadVars,
                friendVars, entityVars, localVars, roomVars>>
OnlyUploads ==
    UNCHANGED <<vars, pushVars, readVars, countVars, qrVars, connectionVars, groupVars,
                friendVars, entityVars, localVars, roomVars>>
OnlyFriends ==
    UNCHANGED <<vars, pushVars, readVars, countVars, qrVars, connectionVars, groupVars,
                uploadVars, entityVars, localVars, roomVars>>
OnlyEntities ==
    UNCHANGED <<vars, pushVars, readVars, countVars, qrVars, connectionVars, groupVars,
                uploadVars, friendVars, localVars, roomVars>>
OnlyLocal ==
    UNCHANGED <<vars, pushVars, readVars, countVars, qrVars, connectionVars, groupVars,
                uploadVars, friendVars, entityVars, roomVars>>
OnlyRoom ==
    UNCHANGED <<vars, pushVars, readVars, countVars, qrVars, connectionVars, groupVars,
                uploadVars, friendVars, entityVars, localVars>>

ServicesNext ==
    /\ UNCHANGED scenario
    /\ \/ scenario = "peer" /\ Next /\ OnlyPeer
       \/ scenario = "messages" /\ PushMessages!Next /\ OnlyPush
       \/ scenario = "retry" /\ PushRetry!Next /\ OnlyPush
       \/ scenario = "request" /\ PushRequest!Next /\ OnlyPush
       \/ scenario = "readGroup" /\ ReadGroup!Next /\ OnlyRead
       \/ scenario = "readDirect" /\ ReadDirect!Next /\ OnlyRead
       \/ scenario = "unread" /\ Unread!Next /\ OnlyCount
       \/ scenario = "revokes" /\ Revoking!Next /\ OnlyCount
       \/ scenario = "revokeFails" /\ RevokeFails!Next /\ OnlyCount
       \/ scenario = "qr" /\ Qr!Next /\ OnlyQr
       \/ scenario = "qrAgain" /\ QrAgain!Next /\ OnlyQr
       \/ scenario = "kicks" /\ Kicks!Next /\ OnlyConnections
       \/ scenario = "leaves" /\ Leaves!Next /\ OnlyConnections
       \/ scenario = "group" /\ Group!Next /\ OnlyGroup
       \/ scenario = "approval" /\ Approval!Next /\ OnlyGroup
       \/ scenario = "uploads" /\ Uploads!Next /\ OnlyUploads
       \/ scenario = "friends" /\ Friends!Next /\ OnlyFriends
       \/ scenario = "entities" /\ Entities!Next /\ OnlyEntities
       \/ scenario = "channels" /\ Channels!Next /\ OnlyEntities
       \/ scenario = "groups" /\ Groups!Next /\ OnlyEntities
       \/ scenario = "cursors" /\ Cursors!Next /\ OnlyEntities
       \/ scenario = "whole" /\ Whole!Next /\ OnlyLocal
       \/ scenario = "claims" /\ Claiming!Next /\ OnlyLocal
       \/ scenario = "parts" /\ InParts!Next /\ OnlyLocal
       \/ scenario = "room" /\ Room!Next /\ OnlyRoom
       \/ scenario = "fullRoom" /\ FullRoom!Next /\ OnlyRoom

ServicesSpec ==
    ServicesInit /\ [][ServicesNext]_<<scenario, vars, pushVars, readVars, countVars, qrVars,
                                      connectionVars, groupVars, uploadVars, friendVars, entityVars, localVars, roomVars>>

Interchangeable == Permutations({a1, a2}) \cup Permutations({b1, b2})

-----------------------------------------------------------------------------
(* The properties of the instantiated components.                            *)

Pushing == scenario \in {"messages", "retry", "request"}

(* No task, queued intent or retry still targets a device whose push a       *)
(* provider has accepted (worker.rs schedule_retry).                         *)
AcceptedOnce == Pushing => PushMessages!AcceptedOnce

(* Once an intent is cancelled or revoked at most one more call per device   *)
(* is made, by a task that had already looked at the intent (worker.rs       *)
(* process_intent).                                                          *)
CalledOffStops == Pushing => PushMessages!CalledOffStops

(* Only a user who has the message or connected since it was stored loses    *)
(* the push for it (intent_state.rs).                                        *)
CancelledWasReached == Pushing => PushMessages!CancelledWasReached

(* A message left out as a duplicate has another one of its conversation     *)
(* whose push was not called off (planner.rs admission_allowed).             *)
SkippedWasPushed == Pushing => PushMessages!SkippedWasPushed

(* The authors of what a reader has read are told, although each request     *)
(* announces only the range it believes it advanced over                     *)
(* (read_state_service.rs broadcast_read_cursor).                            *)
ReadsAreAnnounced ==
    /\ scenario = "readDirect" => ReadDirect!ReadsAreAnnounced
    /\ scenario = "readGroup" => ReadGroup!ReadsAreAnnounced

(* Unread counts exceed the messages only by what a lost reply repeats, and  *)
(* miss no more than revokes took out, twice only for two at a time          *)
(* (sync_service.rs merge_unread_increment, message_service.rs               *)
(* revoke_message_core).                                                     *)
CountsAddUp ==
    /\ scenario = "unread" => Unread!CountsAddUp
    /\ scenario = "revokes" => Revoking!CountsAddUp
    /\ scenario = "revokeFails" => RevokeFails!CountsAddUp

(* A browser is signed in only as the phone that scanned its code            *)
(* (qr_login_service.rs ensure_scanned_with_token, qr_login_publisher.rs).   *)
SignInIsTheScanners ==
    /\ scenario = "qr" => Qr!SignInIsTheScanners
    /\ scenario = "qrAgain" => QrAgain!SignInIsTheScanners

Connecting == scenario \in {"kicks", "leaves"}

(* What is routed follows the connections: an authorized connection that     *)
(* nobody has decided to end gets its device's messages                      *)
(* (connection_manager.rs unregister_connection), and one that has closed    *)
(* keeps a subscription only if a request of its own was handled later       *)
(* (server.rs on_disconnected).                                              *)
RoutesFollowConnections ==
    /\ Connecting => Kicks!RoutesFollowConnections
    /\ scenario = "room" => Room!RoutesFollowConnections
    /\ scenario = "fullRoom" => FullRoom!RoutesFollowConnections

(* A kick leaves no routed session of an earlier login but one that was      *)
(* being authorized (device_manager_db.rs verify_device_session).            *)
KickReaches == Connecting => Kicks!KickReaches

(* The group's owner, and nobody else, has the role of owner                 *)
(* (channel_service.rs transfer_group_owner, set_member_role_admin).         *)
OwnersAreTheOwner ==
    /\ scenario = "group" => Group!OwnersAreTheOwner
    /\ scenario = "approval" => Approval!OwnersAreTheOwner

(* A request is decided once: a join request has one verdict                 *)
(* (approve_join_request_in_tx, reject_request), and a friendship is         *)
(* announced once (friend_service.rs accept_friend_request_with_source).     *)
DecidedOnce ==
    /\ scenario = "approval" => Approval!DecidedOnce
    /\ scenario = "friends" => Friends!DecidedOnce

(* A file row leads to its bytes (upload_s3.rs record_and_finish,            *)
(* chunked_upload.rs s3_expired_session_ready, file_service.rs               *)
(* publish_and_record).                                                      *)
ReferencedObjectExists ==
    /\ scenario = "uploads" => Uploads!ReferencedObjectExists
    /\ scenario = "whole" => Whole!ReferencedObjectExists
    /\ scenario = "claims" => Claiming!ReferencedObjectExists
    /\ scenario = "parts" => InParts!ReferencedObjectExists

(* A token is good for one file, however often it is used (upload.rs         *)
(* upload_file and complete_upload, file_upload_repo.rs create_reference).   *)
OneFilePerToken ==
    /\ scenario = "whole" => Whole!OneFilePerToken
    /\ scenario = "claims" => Claiming!OneFilePerToken
    /\ scenario = "parts" => InParts!OneFilePerToken

(* Nothing is left in the bucket that nobody can find again                  *)
(* (request_chunked_upload_token.rs, chunked_upload.rs sweep_s3_anchors).    *)
BucketIsAccountedFor == scenario = "uploads" => Uploads!BucketIsAccountedFor

(* Whom the recipient blocks, or ended the friendship with, does not get a   *)
(* message through (send_authorization.rs authorize_send_to_channel,         *)
(* friend_service.rs remove_friend).                                         *)
BarredCannotSend == scenario = "friends" => Friends!BarredCannotSend

(* Readers lose nothing but what is named: clients of entity pages what      *)
(* changed behind the pages (channel_service.rs next_version_from_page,      *)
(* friend_service.rs sync_entities_page), subscribers of a room what was     *)
(* being broadcast when they came or could not be sent (admin.rs             *)
(* room_broadcast).                                                          *)
NothingElseIsMissed ==
    /\ scenario = "entities" => Entities!OnlyQuietChangesAreMissed
    /\ scenario = "channels" => Channels!OnlyQuietChangesAreMissed
    /\ scenario = "groups" => Groups!OnlyQuietChangesAreMissed
    /\ scenario = "cursors" => Cursors!OnlyQuietChangesAreMissed
    /\ scenario = "room" => Room!OnlyOvertakenIsMissed
    /\ scenario = "fullRoom" => FullRoom!OnlyOvertakenIsMissed
=============================================================================
