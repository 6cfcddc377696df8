--------------------------- MODULE TimelineCommit ---------------------------
(***************************************************************************)
(* The authoritative write path of privchat: every message, revoke and     *)
(* reaction becomes one row of the commit log, in one PostgreSQL           *)
(* transaction that also claims the idempotency key, allocates the         *)
(* channel's next pts, binds the attachment, advances the channel's head   *)
(* and snapshots the recipients (message_repo.rs).                         *)
(*                                                                         *)
(* A request is one execution of a handler; a client's retry is another    *)
(* request with the same key.  Handlers run concurrently and meet in the   *)
(* database: a row written by an unfinished transaction is locked, a       *)
(* statement that needs it waits, and an INSERT ... ON CONFLICT waits for  *)
(* the transaction that holds the same key.  Writes of an unfinished       *)
(* transaction are not in the variables: what it holds follows from pc and *)
(* alloc, and Commit applies it.                                           *)
(***************************************************************************)
EXTENDS Naturals, FiniteSets

CONSTANTS
    Reqs,          \* executions of a handler; also the message ids they generate
    Channels,
    Keys,          \* (sender, device, local_message_id), or a server dedup key
    Files,         \* uploaded files
    None,          \* no key, no file, no row
    PathOf,        \* which handler runs the request
    ChanOf,        \* the channel it writes to
    KeyOf,         \* its idempotency key, None for local_message_id = 0
    FileOf,        \* the file it attaches
    Foreign,       \* requests whose file was uploaded by somebody else
    PermanentKeys  \* server keys that retention keeps ('call-summary:%')

(* The handlers: a message on the wire, a sync/submit, a message the server  *)
(* sends, and a revoke or reaction event.                                    *)
Paths == {"wire", "submit", "server", "event"}

(* Answers that are not a message. *)
Codes == {"conflict", "error"}

ASSUME CommitAssumption ==
    /\ PathOf \in [Reqs -> Paths]
    /\ ChanOf \in [Reqs -> Channels]
    /\ KeyOf \in [Reqs -> Keys \cup {None}]
    /\ FileOf \in [Reqs -> Files \cup {None}]
    /\ Foreign \subseteq Reqs
    /\ PermanentKeys \subseteq Keys
    /\ None \notin Reqs \cup Keys \cup Files
    /\ Reqs \cap Codes = {} /\ None \notin Codes
    /\ \A r \in Reqs : PathOf[r] = "event" => KeyOf[r] = None /\ FileOf[r] = None

VARIABLES
    currentPts,    \* privchat_channel_pts.current_pts
    commitLog,     \* privchat_commit_log: <<channel, pts, request>>
    dedup,         \* privchat_message_dedup: key -> message, or None
    registry,      \* privchat_client_msg_registry: key -> message, or None
    boundTo,       \* privchat_file_uploads.business_id: file -> message, or None
    head,          \* privchat_channels.server_latest_message_pts, 0 when NULL
    pc,            \* where each handler is
    alloc,         \* the pts its transaction holds
    answer,        \* what it answered: a message, a code, or None
    refused,       \* requests refused while binding their file
    swept          \* keys that retention has removed at least once

dbVars == <<currentPts, commitLog, dedup, registry, boundTo, head>>
vars == <<dbVars, pc, alloc, answer, refused, swept>>

PCs == {"idle", "checked", "claimed", "numbered", "written", "registered",
        "duplicate", "done"}

Init ==
    /\ currentPts = [c \in Channels |-> 0]
    /\ commitLog = {}
    /\ dedup = [k \in Keys |-> None]
    /\ registry = [k \in Keys |-> None]
    /\ boundTo = [f \in Files |-> None]
    /\ head = [c \in Channels |-> 0]
    /\ pc = [r \in Reqs |-> "idle"]
    /\ alloc = [r \in Reqs |-> 0]
    /\ answer = [r \in Reqs |-> None]
    /\ refused = {}
    /\ swept = {}

-----------------------------------------------------------------------------
(* Which table carries the request's key: the two are mutually exclusive.    *)

UsesDedup(r) == PathOf[r] \in {"wire", "server"} /\ KeyOf[r] # None
UsesRegistry(r) == PathOf[r] = "submit" /\ KeyOf[r] # None

(* Rows locked by unfinished transactions. *)
HoldsDedup(r) == UsesDedup(r) /\ pc[r] \in {"claimed", "numbered", "written", "registered"}
HoldsPts(r) == pc[r] \in {"numbered", "written", "registered"}
HoldsFileEarly(r) == FileOf[r] # None /\ pc[r] \in {"numbered", "written", "registered"}
HoldsFile(r) == FileOf[r] # None /\ pc[r] \in {"written", "registered"}
HoldsRegistry(r) == UsesRegistry(r) /\ pc[r] = "registered"

DedupFreeUnlocked(r) == TRUE
DedupFree(r) == \A s \in Reqs \ {r} : HoldsDedup(s) => KeyOf[s] # KeyOf[r]
PtsFreeUnlocked(r) == TRUE
PtsFree(r) == \A s \in Reqs \ {r} : HoldsPts(s) => ChanOf[s] # ChanOf[r]
FileFree(r) == \A s \in Reqs \ {r} : HoldsFile(s) => FileOf[s] # FileOf[r]
RegistryFree(r) == \A s \in Reqs \ {r} : HoldsRegistry(s) => KeyOf[s] # KeyOf[r]

Goto(r, label) == pc' = [pc EXCEPT ![r] = label]

(* The handler returns; its transaction, if any, is over and its locks gone. *)
Return(r, a) ==
    /\ Goto(r, "done")
    /\ answer' = [answer EXCEPT ![r] = a]
    /\ alloc' = [alloc EXCEPT ![r] = 0]

-----------------------------------------------------------------------------
(* Before the transaction: the wire handler looks its key up in the dedup   *)
(* table and sync/submit in the registry, both outside any lock; a hit is   *)
(* answered with the message found.                                         *)
Known(r) ==
    IF PathOf[r] = "wire" /\ KeyOf[r] # None THEN dedup[KeyOf[r]]
    ELSE IF PathOf[r] = "submit" /\ KeyOf[r] # None THEN registry[KeyOf[r]]
    ELSE None

FastPathHit(r) ==
    /\ pc[r] = "idle"
    /\ Known(r) # None
    /\ Return(r, Known(r))
    /\ UNCHANGED <<dbVars, refused, swept>>

FastPathMiss(r) ==
    /\ pc[r] = "idle"
    /\ Known(r) = None
    /\ Goto(r, "checked")
    /\ UNCHANGED <<dbVars, alloc, answer, refused, swept>>

(* The transaction claims its dedup key first.  A key claimed by an          *)
(* unfinished transaction makes the INSERT wait for its outcome.             *)
ClaimDedup(r) ==
    /\ pc[r] = "checked"
    /\ IF UsesDedup(r)
          THEN /\ DedupFree(r)
               /\ Goto(r, IF dedup[KeyOf[r]] = None THEN "claimed" ELSE "duplicate")
          ELSE Goto(r, "claimed")
    /\ UNCHANGED <<dbVars, alloc, answer, refused, swept>>

(* The pts upsert: it locks the channel's row until the transaction ends.    *)
NextPts(r) == currentPts[ChanOf[r]] + 1

AllocatePts(r) ==
    /\ pc[r] = "claimed"
    /\ PtsFree(r)
    /\ alloc' = [alloc EXCEPT ![r] = NextPts(r)]
    /\ Goto(r, "numbered")
    /\ UNCHANGED <<dbVars, answer, refused, swept>>

(* The attachment must be the sender's own and not point at another message. *)
BindableOwnOnly(r) == r \notin Foreign
Bindable(r) == r \notin Foreign /\ boundTo[FileOf[r]] \in {None, r}

(* Message row, file binding, media references, head, commit row, recipient  *)
(* snapshot.  The binding UPDATE waits for a transaction that binds the same *)
(* file; the channel row that head and snapshot lock is already covered by   *)
(* the pts row.                                                              *)
WriteRows(r) ==
    /\ pc[r] = "numbered"
    /\ FileOf[r] # None => FileFree(r) /\ Bindable(r)
    /\ Goto(r, "written")
    /\ UNCHANGED <<dbVars, alloc, answer, refused, swept>>

(* No row was updated: the transaction is dropped.  The wire handler answers *)
(* with the error's own code, a conflict the client does not retry; sync/    *)
(* submit wraps the error and answers an internal error; a server send       *)
(* returns the error to its caller.                                          *)
RefusalCode(r) == IF PathOf[r] = "wire" THEN "conflict" ELSE "error"

RefuseBinding(r) ==
    /\ pc[r] = "numbered"
    /\ FileOf[r] # None /\ FileFree(r) /\ ~Bindable(r)
    /\ Return(r, RefusalCode(r))
    /\ refused' = refused \cup {r}
    /\ UNCHANGED <<dbVars, swept>>

(* sync/submit claims its registry row last; a conflict rolls back.          *)
ClaimRegistry(r) ==
    /\ pc[r] = "written"
    /\ IF UsesRegistry(r)
          THEN /\ RegistryFree(r)
               /\ Goto(r, IF registry[KeyOf[r]] = None THEN "registered" ELSE "duplicate")
          ELSE Goto(r, "registered")
    /\ alloc' = IF pc'[r] = "duplicate" THEN [alloc EXCEPT ![r] = 0] ELSE alloc
    /\ UNCHANGED <<dbVars, answer, refused, swept>>

(* The message head follows messages only, and only forward. *)
AdvanceHeadByAny(r) ==
    IF alloc[r] > head[ChanOf[r]] THEN [head EXCEPT ![ChanOf[r]] = alloc[r]] ELSE head
AdvanceHead(r) ==
    IF PathOf[r] # "event" /\ alloc[r] > head[ChanOf[r]]
    THEN [head EXCEPT ![ChanOf[r]] = alloc[r]] ELSE head

Put(table, uses, r) == IF uses THEN [table EXCEPT ![KeyOf[r]] = r] ELSE table

(* What a commit makes durable, all at once. *)
Persist(r) ==
    /\ currentPts' = [currentPts EXCEPT ![ChanOf[r]] = alloc[r]]
    /\ commitLog' = commitLog \cup {<<ChanOf[r], alloc[r], r>>}
    /\ dedup' = Put(dedup, UsesDedup(r), r)
    /\ registry' = Put(registry, UsesRegistry(r), r)
    /\ boundTo' = IF FileOf[r] # None THEN [boundTo EXCEPT ![FileOf[r]] = r] ELSE boundTo
    /\ head' = AdvanceHead(r)

(* The commit succeeds and the handler answers with its own message; or the  *)
(* database commits but the reply, or the process, is lost.                  *)
Commit(r, a) ==
    /\ pc[r] = "registered"
    /\ Persist(r)
    /\ Return(r, a)
    /\ UNCHANGED <<refused, swept>>

(* A conflicting handler reads the message of the other one and answers with *)
(* it, or with an error when retention has removed the key in between.       *)
ExistingOwn(r) == r
Existing(r) == IF UsesDedup(r) THEN dedup[KeyOf[r]] ELSE registry[KeyOf[r]]

AnswerDuplicate(r) ==
    /\ pc[r] = "duplicate"
    /\ Return(r, IF Existing(r) # None THEN Existing(r) ELSE "error")
    /\ UNCHANGED <<dbVars, refused, swept>>

(* A statement fails, the connection drops or the process dies: the          *)
(* transaction is rolled back.                                               *)
Fail(r) ==
    /\ pc[r] \notin {"idle", "done"}
    /\ Return(r, "error")
    /\ UNCHANGED <<dbVars, refused, swept>>

(* The hourly retention of dedup keys deletes old ones.                      *)
SweepableAll == {k \in Keys : dedup[k] # None}
Sweepable == {k \in Keys \ PermanentKeys : dedup[k] # None}

DedupRetention ==
    \E K \in SUBSET Sweepable :
        /\ K # {}
        /\ dedup' = [k \in Keys |-> IF k \in K THEN None ELSE dedup[k]]
        /\ swept' = swept \cup K
        /\ UNCHANGED <<currentPts, commitLog, registry, boundTo, head,
                       pc, alloc, answer, refused>>

Step(r) ==
    \/ FastPathHit(r) \/ FastPathMiss(r) \/ ClaimDedup(r) \/ AllocatePts(r)
    \/ WriteRows(r) \/ RefuseBinding(r) \/ ClaimRegistry(r)
    \/ Commit(r, r) \/ AnswerDuplicate(r)

Next ==
    \/ \E r \in Reqs : Step(r) \/ Commit(r, "error") \/ Fail(r)
    \/ DedupRetention

Spec == Init /\ [][Next]_vars

(* A handler that has begun runs on; the database grants a lock once it is   *)
(* free.  Nothing makes a client send.                                       *)
Fairness == \A r \in Reqs : WF_vars(pc[r] # "idle" /\ Step(r))

FairSpec == Spec /\ Fairness

-----------------------------------------------------------------------------
(* Properties.                                                               *)

(* Every variable keeps its type. *)
TypeOK ==
    /\ currentPts \in [Channels -> Nat]
    /\ commitLog \subseteq Channels \X Nat \X Reqs
    /\ dedup \in [Keys -> Reqs \cup {None}]
    /\ registry \in [Keys -> Reqs \cup {None}]
    /\ boundTo \in [Files -> Reqs \cup {None}]
    /\ head \in [Channels -> Nat]
    /\ pc \in [Reqs -> PCs]
    /\ alloc \in [Reqs -> Nat]
    /\ answer \in [Reqs -> Reqs \cup Codes \cup {None}]
    /\ refused \subseteq Reqs
    /\ swept \subseteq Keys

InLog(r) == \E row \in commitLog : row[3] = r

(* A channel's commit log is numbered 1, 2, ..., current_pts with one row    *)
(* per number, however transactions overlap, fail or lose their replies: a   *)
(* client that counts pts misses nothing.                                    *)
Gapless ==
    \A c \in Channels :
        /\ {row[2] : row \in {x \in commitLog : x[1] = c}} = 1 .. currentPts[c]
        /\ \A x, y \in commitLog : x[1] = c /\ y[1] = c /\ x[2] = y[2] => x = y

SameClaim(r, s) ==
    /\ KeyOf[r] = KeyOf[s]
    /\ \/ UsesDedup(r) /\ UsesDedup(s) /\ KeyOf[r] \notin swept \ PermanentKeys
       \/ UsesRegistry(r) /\ UsesRegistry(s)

(* Two executions with the same key on the same path put at most one         *)
(* message in the log, as long as retention has not dropped the key (it      *)
(* never drops a permanent one); both may have passed the unlocked check.    *)
ExactlyOnce ==
    \A x, y \in commitLog : SameClaim(x[3], y[3]) => x = y

(* An answer that names a message names a committed one, and all answers to  *)
(* one key name the same message: a client that retries after losing a reply *)
(* is told about the message it already sent.                                *)
AnswersAgree ==
    \A r \in Reqs : answer[r] \in Reqs =>
        /\ InLog(answer[r])
        /\ KeyOf[answer[r]] = KeyOf[r]
        /\ \A s \in Reqs : answer[s] \in Reqs /\ SameClaim(r, s) => answer[s] = answer[r]

(* An attachment belongs to exactly one message: the file points at a        *)
(* committed message that carries it, every committed message with a file is *)
(* the one its file points at, and nobody attached somebody else's file.     *)
FileHasOneOwner ==
    /\ \A f \in Files : boundTo[f] # None => InLog(boundTo[f]) /\ FileOf[boundTo[f]] = f
    /\ \A r \in Reqs : InLog(r) /\ FileOf[r] # None => boundTo[FileOf[r]] = r /\ r \notin Foreign

(* The head of a channel is its latest message's pts: it never lags behind   *)
(* (the client would believe it has caught up), and events do not move it.   *)
HeadIsLatestMessage ==
    \A c \in Channels :
        LET messages == {x \in commitLog : x[1] = c /\ PathOf[x[3]] # "event"} IN
        /\ \A x \in messages : x[2] <= head[c]
        /\ head[c] # 0 => \E x \in messages : x[2] = head[c]

(* The commit log is append-only and a channel's pts never goes back. *)
LogAppendOnly ==
    [][/\ commitLog \subseteq commitLog'
       /\ \A c \in Channels : currentPts[c] <= currentPts'[c]]_vars

(* Every handler that starts ends: the order in which a transaction takes    *)
(* its row locks (key, pts, file, registry) never makes two wait for each    *)
(* other.                                                                    *)
EveryRequestEnds == \A r \in Reqs : pc[r] = "checked" ~> pc[r] = "done"

(* The timeline as an abstract log. *)
ClaimOf == [r \in Reqs |->
    IF UsesDedup(r) THEN {<<"dedup", KeyOf[r]>>}
    ELSE IF UsesRegistry(r) THEN {<<"registry", KeyOf[r]>>} ELSE {}]
TakenClaims ==
    {<<"dedup", k>> : k \in {j \in Keys : dedup[j] # None}}
    \cup {<<"registry", k>> : k \in {j \in Keys : registry[j] # None}}
Entries == [c \in Channels |-> {<<row[2], row[3]>> : row \in {x \in commitLog : x[1] = c}}]

Log == INSTANCE TimelineLog WITH
    Requests <- Reqs, ChannelIds <- Channels,
    Claims <- {"dedup", "registry"} \X Keys,
    ChannelFor <- ChanOf, ClaimFor <- ClaimOf,
    length <- currentPts, entry <- Entries, taken <- TakenClaims

(* The transactions implement the abstract log: each commit appends one      *)
(* entry at the next number under a fresh claim, retention forgets claims,   *)
(* and no other step is visible.                                             *)
ImplementsLog == Log!Spec

(* What a comment claims and the code does not do.                           *)

(* "file missing, foreign or taken by another message: however often it is   *)
(* retried the result is the same" -- so no refused request carries a key    *)
(* whose message is in the log.                                              *)
RefusalIsFinal ==
    \A r \in refused, s \in Reqs : SameClaim(r, s) => ~InLog(s)
=============================================================================
