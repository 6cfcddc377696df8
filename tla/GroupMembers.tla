---------------------------- MODULE GroupMembers ----------------------------
(***************************************************************************)
(* The members of one group (channel_service.rs, approval_service.rs,      *)
(* rpc/group, the administrator's routes).  Membership is kept three       *)
(* times: privchat_group_members (the truth, with the derived              *)
(* member_count and owner_id of the group's row),                          *)
(* privchat_channel_participants (a mirror, from which a channel is        *)
(* loaded) and the loaded channel itself.  A handler writes them one after *)
(* the other, so the steps of two handlers interleave; within a            *)
(* transaction the row locks and statement snapshots of READ COMMITTED     *)
(* decide what it sees.                                                    *)
(***************************************************************************)
EXTENDS Naturals, FiniteSets

CONSTANTS
    Users, Creator, Joined,   \* Joined: the members the group was created with
    Handlers,                 \* requests to the server, each handled once
    Requests, Applicant,      \* join requests and who asks
    Kinds                     \* the requests that come

VARIABLES
    rows, owner, count,       \* privchat_group_members, privchat_groups
    mirror,                   \* privchat_channel_participants: rows are never marked as left
    cache, loading,           \* the loaded channel's members; a load under way
    asked, listed,            \* privchat_group_join_requests, ApprovalService's copy
    job,                      \* where each handler is
    told,                     \* the decisions on each request that handlers have reported
    failed,                   \* a load could not read the mirror
    overtaken,                \* handlers whose user was given the role of owner meanwhile
    excused                   \* users whose role was written past the owner_id of the group

vars == <<rows, owner, count, mirror, cache, loading, asked, listed, job, told, failed, overtaken, excused>>

(* Requests are told from no request, and are users'. *)
RequestsOfUsers == "none" \notin Requests /\ Applicant \in [Requests -> Users]

Roles == {"Owner", "Admin", "Member"}
Absent == [u \in Users |-> "none"]
NotLoaded == [u \in {} |-> "none"]
Idle == [step |-> "idle"]
Done == [step |-> "done"]
Loaded == cache # NotLoaded

Init ==
    /\ rows = [u \in Users |-> IF u = Creator THEN "Owner" ELSE IF u \in Joined THEN "Member" ELSE "none"]
    /\ owner = Creator
    /\ count = Cardinality(Joined \cup {Creator})
    /\ mirror = rows /\ cache = rows /\ loading = NotLoaded
    /\ asked = [q \in Requests |-> "none"] /\ listed = asked
    /\ job = [h \in Handlers |-> Idle]
    /\ told = [q \in Requests |-> {}]
    /\ failed = FALSE /\ overtaken = {} /\ excused = {}

Goes(h, step) == job' = [job EXCEPT ![h].step = step]
Ends(h) == job' = [job EXCEPT ![h] = Done]
At(h, step) == job[h].step = step
UnderWay(h) == job[h].step \notin {"idle", "done"}

(* What the handler does once its membership transaction is committed. *)
AfterCommit(kind) ==
    CASE kind = "add" -> "role"
      [] kind = "addAdmin" -> "join"
      [] kind = "approve" -> "admit"
      [] OTHER -> "done"

Comes(h, kind, u, role, step) ==
    /\ At(h, "idle") /\ kind \in Kinds
    /\ job' = [job EXCEPT ![h] = [kind |-> kind, user |-> u, role |-> role, by |-> u,
                                  request |-> "none", count |-> 0, step |-> step]]

-----------------------------------------------------------------------------
(* What comes in.  A handler that reads the channel loads it first, so the   *)
(* reading handlers wait until it is loaded.                                 *)

(* rpc group/member/add: the mirror, then the channel and the truth (as a    *)
(* member), then the role in the loaded channel.  Any role may be asked for, *)
(* that of the owner too.                                                    *)
AddMember(h, u, role) ==
    /\ Comes(h, "add", u, role, "join")
    /\ mirror' = [mirror EXCEPT ![u] = role]
    /\ UNCHANGED <<rows, owner, count, cache, loading, asked, listed, told, failed, overtaken, excused>>

(* rpc group/qrcode/join of a group that needs no approval and is not full. *)
JoinByCode(h, u) ==
    /\ Loaded /\ cache[u] = "none"
    /\ Comes(h, "join", u, "Member", "join")
    /\ UNCHANGED <<rows, owner, count, mirror, cache, loading, asked, listed, told, failed, overtaken, excused>>

(* A message to a channel that is loaded with no members: its sender is      *)
(* entered again with the role of the mirror.                                *)
SendRejoins(h, u) ==
    /\ Loaded /\ cache = Absent /\ mirror[u] # "none"
    /\ Comes(h, "join", u, mirror[u], "join")
    /\ UNCHANGED <<rows, owner, count, mirror, cache, loading, asked, listed, told, failed, overtaken, excused>>

(* rpc group/member/leave, and group/member/remove by an owner or admin. *)
Leave(h, u) ==
    /\ Loaded /\ cache[u] \notin {"none", "Owner"}
    /\ Comes(h, "leave", u, "none", "leave")
    /\ UNCHANGED <<rows, owner, count, mirror, cache, loading, asked, listed, told, failed, overtaken, excused>>

(* remove_member_admin knows the truth only. *)
RemoveMemberAdmin(h, u) ==
    /\ Comes(h, "remove", u, "none", "write")
    /\ UNCHANGED <<rows, owner, count, mirror, cache, loading, asked, listed, told, failed, overtaken, excused>>

AddMemberAdmin(h, u) ==
    /\ rows[u] = "none"
    /\ Comes(h, "addAdmin", u, "Member", "write")
    /\ UNCHANGED <<rows, owner, count, mirror, cache, loading, asked, listed, told, failed, overtaken, excused>>

RoleUnchecked(h, u, role) ==
    /\ rows[u] # "none"
    /\ Comes(h, "role", u, role, "setRole")
    /\ UNCHANGED <<rows, owner, count, mirror, cache, loading, asked, listed, told, failed, overtaken, excused>>

(* set_member_role_admin reads the role without a lock. *)
SetMemberRoleAdmin(h, u, role) ==
    /\ rows[u] \notin {"none", "Owner"}
    /\ Comes(h, "role", u, role, "setRole")
    /\ UNCHANGED <<rows, owner, count, mirror, cache, loading, asked, listed, told, failed, overtaken, excused>>

TransferGroupOwner(h, by, u) ==
    /\ by # u /\ At(h, "idle") /\ "transfer" \in Kinds
    /\ job' = [job EXCEPT ![h] = [kind |-> "transfer", user |-> u, role |-> "Owner", by |-> by,
                                  request |-> "none", count |-> 0, step |-> "lock"]]
    /\ UNCHANGED <<rows, owner, count, mirror, cache, loading, asked, listed, told, failed, overtaken, excused>>

-----------------------------------------------------------------------------
(* join_channel and leave_channel: the loaded channel, then a transaction.   *)

(* join_channel does nothing when the channel is not loaded or has the user. *)
JoinChannel(h) ==
    /\ At(h, "join")
    /\ LET j == job[h]
           to == IF j.kind \in {"add", "addAdmin"} THEN "Member" ELSE j.role
       IN  IF Loaded /\ cache[j.user] = "none"
           THEN /\ cache' = [cache EXCEPT ![j.user] = to]
                /\ job' = [job EXCEPT ![h].step = "write",
                                      ![h].kind = IF j.kind = "add" THEN "add" ELSE "join"]
           ELSE /\ UNCHANGED cache
                /\ Goes(h, IF j.kind = "add" THEN "role" ELSE "done")
    /\ UNCHANGED <<rows, owner, count, mirror, loading, asked, listed, told, failed, overtaken, excused>>

LeaveChannel(h) ==
    /\ At(h, "leave")
    /\ IF Loaded /\ cache[job[h].user] \notin {"none", "Owner"}
       THEN cache' = [cache EXCEPT ![job[h].user] = "none"] /\ Goes(h, "write")
       ELSE Ends(h) /\ UNCHANGED cache
    /\ UNCHANGED <<rows, owner, count, mirror, loading, asked, listed, told, failed, overtaken, excused>>

-----------------------------------------------------------------------------
(* A membership transaction: the member's row, the count, the commit.        *)

InTx(h) == job[h].step \in {"count", "commit"}
RowLocked(u) == \E h \in Handlers : InTx(h) /\ job[h].user = u
RequestLocked(q) == \E h \in Handlers : InTx(h) /\ job[h].request = q
GroupLocked == \E h \in Handlers : At(h, "swap")

(* The role that the transaction of h gives its user. *)
RoleWritten(h) == IF job[h].kind \in {"leave", "remove"} THEN "none"
                  ELSE IF job[h].kind = "join" THEN job[h].role ELSE "Member"
RowsOf(h) == [rows EXCEPT ![job[h].user] = RoleWritten(h)]
Active(r) == {u \in Users : r[u] # "none"}

(* History: who is at work on the user of h; and the users of whom the role  *)
(* does not follow owner_id once u has got this one.                         *)
Meanwhile(h) == {g \in Handlers \ {h} : UnderWay(g) /\ job[g].user = job[h].user}
Excused(u, role) == IF role = "Owner" <=> u = owner THEN excused \ {u} ELSE excused \cup {u}

OpenInDbAnyway(q) == TRUE

(* The join request is still open: the condition of the update. *)
OpenInDb(q) == asked[q] = "pending"

(* upsert_one_member_in_tx, mark_one_member_left_in_tx; an approval first    *)
(* moves its request from pending.                                           *)
WriteRow(h) ==
    /\ At(h, "write") /\ ~RowLocked(job[h].user)
    /\ job[h].request # "none" => ~RequestLocked(job[h].request)
    /\ Goes(h, CASE job[h].request # "none" /\ ~OpenInDb(job[h].request) -> "lost"
                 [] RoleWritten(h) = "none" /\ rows[job[h].user] = "none" -> "done"
                 [] OTHER -> "count")
    /\ UNCHANGED <<rows, owner, count, mirror, cache, loading, asked, listed, told, failed, overtaken, excused>>

(* recompute_group_member_count_in_tx: the count is of the snapshot that its *)
(* statement starts with.                                                    *)
CountRows(h) ==
    /\ At(h, "count")
    /\ job' = [job EXCEPT ![h].count = Cardinality(Active(RowsOf(h))), ![h].step = "commit"]
    /\ UNCHANGED <<rows, owner, count, mirror, cache, loading, asked, listed, told, failed, overtaken, excused>>

(* The statement gets the lock on the group's row and the transaction is     *)
(* committed.                                                                *)
Commit(h) ==
    /\ At(h, "commit") /\ ~GroupLocked
    /\ rows' = RowsOf(h)
    /\ count' = job[h].count
    /\ asked' = IF job[h].request = "none" THEN asked ELSE [asked EXCEPT ![job[h].request] = "approved"]
    /\ Goes(h, AfterCommit(job[h].kind))
    /\ overtaken' = IF RoleWritten(h) = "Owner" THEN overtaken \cup Meanwhile(h) ELSE overtaken
    /\ excused' = Excused(job[h].user, RoleWritten(h))
    /\ UNCHANGED <<owner, mirror, cache, loading, listed, told, failed>>

-----------------------------------------------------------------------------
(* Roles.                                                                    *)

SetRole(h) ==
    /\ At(h, "setRole") /\ ~RowLocked(job[h].user)
    /\ rows' = IF rows[job[h].user] = "none" THEN rows ELSE [rows EXCEPT ![job[h].user] = job[h].role]
    /\ excused' = IF h \in overtaken /\ rows[job[h].user] # "none" THEN Excused(job[h].user, job[h].role) ELSE excused
    /\ Goes(h, "role")
    /\ UNCHANGED <<owner, count, mirror, cache, loading, asked, listed, told, failed, overtaken>>

(* set_member_role of the loaded channel, which never changes an owner. *)
CacheWith(u, role) ==
    IF Loaded /\ cache[u] \notin {"none", "Owner"} THEN [cache EXCEPT ![u] = role] ELSE cache

CacheRole(h) ==
    /\ At(h, "role")
    /\ cache' = IF job[h].role = "Member" /\ job[h].kind = "add" THEN cache
                ELSE CacheWith(job[h].user, job[h].role)
    /\ Ends(h)
    /\ UNCHANGED <<rows, owner, count, mirror, loading, asked, listed, told, failed, overtaken, excused>>

(* FOR UPDATE on the group's row, then the check of the owner. *)
LockGroupUnlocked(h) ==
    /\ At(h, "lock")
    /\ IF owner = job[h].by THEN Goes(h, "swap") ELSE Ends(h)
    /\ UNCHANGED <<rows, owner, count, mirror, cache, loading, asked, listed, told, failed, overtaken, excused>>

LockGroup(h) ==
    /\ At(h, "lock") /\ ~GroupLocked
    /\ IF owner = job[h].by THEN Goes(h, "swap") ELSE Ends(h)
    /\ UNCHANGED <<rows, owner, count, mirror, cache, loading, asked, listed, told, failed, overtaken, excused>>

Swapped(by, u) ==
    [v \in Users |-> CASE v = u -> "Owner"
                       [] v = by /\ rows[v] # "none" -> "Member"
                       [] OTHER -> rows[v]]

SwapOwner(h) ==
    /\ At(h, "swap") /\ ~RowLocked(job[h].user) /\ ~RowLocked(job[h].by)
    /\ IF rows[job[h].user] = "none"
       THEN Ends(h) /\ UNCHANGED <<rows, owner, overtaken, excused>>
       ELSE /\ rows' = Swapped(job[h].by, job[h].user)
            /\ owner' = job[h].user
            /\ overtaken' = overtaken \cup Meanwhile(h)
            /\ excused' = excused \ {job[h].user, job[h].by}
            /\ Goes(h, "demote")
    /\ UNCHANGED <<count, mirror, cache, loading, asked, listed, told, failed>>

(* A transfer that waits for a member's row and a membership transaction     *)
(* that waits for the group's row: the database ends one of them.            *)
Deadlock(h, g) ==
    /\ At(h, "swap") /\ At(g, "commit") /\ job[g].user \in {job[h].user, job[h].by}
    /\ \E victim \in {h, g} : Ends(victim)
    /\ UNCHANGED <<rows, owner, count, mirror, cache, loading, asked, listed, told, failed, overtaken, excused>>

Demote(h) ==
    /\ At(h, "demote")
    /\ cache' = CacheWith(job[h].by, "Member")
    /\ Goes(h, "role")
    /\ UNCHANGED <<rows, owner, count, mirror, loading, asked, listed, told, failed, overtaken, excused>>

-----------------------------------------------------------------------------
(* Approvals.                                                                *)

(* create_join_request: one pending request of a user, by the copy and by    *)
(* the unique index.                                                         *)
AskToJoin(q) ==
    /\ Loaded /\ cache[Applicant[q]] = "none"
    /\ asked[q] = "none"
    /\ \A p \in Requests : Applicant[p] = Applicant[q] => "pending" \notin {asked[p], listed[p]}
    /\ asked' = [asked EXCEPT ![q] = "pending"]
    /\ UNCHANGED <<rows, owner, count, mirror, cache, loading, listed, job, told, failed, overtaken, excused>>

ListRequest(q) ==
    /\ asked[q] = "pending" /\ listed[q] = "none"
    /\ listed' = [listed EXCEPT ![q] = "pending"]
    /\ UNCHANGED <<rows, owner, count, mirror, cache, loading, asked, job, told, failed, overtaken, excused>>

(* The operator is an owner or admin of the loaded channel. *)
Operators == {u \in Users : Loaded /\ cache[u] \in {"Owner", "Admin"}}

Approve(h, q) ==
    /\ Operators # {} /\ listed[q] # "none"
    /\ At(h, "idle") /\ "approve" \in Kinds
    /\ job' = [job EXCEPT ![h] = [kind |-> "approve", user |-> Applicant[q], role |-> "Member",
                                  by |-> Applicant[q], request |-> q, count |-> 0, step |-> "write"]]
    /\ UNCHANGED <<rows, owner, count, mirror, cache, loading, asked, listed, told, failed, overtaken, excused>>

Admit(h) ==
    /\ At(h, "admit")
    /\ cache' = IF Loaded /\ cache[job[h].user] = "none" THEN [cache EXCEPT ![job[h].user] = "Member"] ELSE cache
    /\ Goes(h, "won")
    /\ UNCHANGED <<rows, owner, count, mirror, loading, asked, listed, told, failed, overtaken, excused>>

(* reload_request, then the answer. *)
Reload(h) ==
    /\ job[h].step \in {"won", "lost"}
    /\ LET q == job[h].request
       IN  /\ listed' = [listed EXCEPT ![q] = asked[q]]
           /\ told' = IF At(h, "lost") THEN told ELSE [told EXCEPT ![q] = @ \cup {<<h, "approved">>}]
    /\ Ends(h)
    /\ UNCHANGED <<rows, owner, count, mirror, cache, loading, asked, failed, overtaken, excused>>

(* reject_request holds the lock of the copy throughout. *)
Reject(h, q) ==
    /\ Operators # {} /\ listed[q] # "none"
    /\ At(h, "idle") /\ "approve" \in Kinds /\ ~RequestLocked(q)
    /\ LET to == IF OpenInDb(q) THEN "rejected" ELSE asked[q]
       IN  /\ asked' = [asked EXCEPT ![q] = to]
           /\ listed' = [listed EXCEPT ![q] = to]
    /\ told' = IF OpenInDb(q) THEN [told EXCEPT ![q] = @ \cup {<<h, "rejected">>}] ELSE told
    /\ Ends(h)
    /\ UNCHANGED <<rows, owner, count, mirror, cache, loading, failed, overtaken, excused>>

-----------------------------------------------------------------------------
(* The loaded channel.                                                       *)

(* get_channel_opt: the members are those of the mirror, with the roles of   *)
(* the truth where it has them.                                              *)
StartLoad ==
    /\ ~Loaded /\ loading = NotLoaded
    /\ loading' = [u \in Users |-> IF mirror[u] = "none" \/ rows[u] = "none" THEN mirror[u] ELSE rows[u]]
    /\ UNCHANGED <<rows, owner, count, mirror, cache, asked, listed, job, told, failed, overtaken, excused>>

(* A mirror that cannot be read counts as empty. *)
LoadFails ==
    /\ ~Loaded /\ loading = NotLoaded /\ ~failed
    /\ loading' = Absent
    /\ failed' = TRUE
    /\ UNCHANGED <<rows, owner, count, mirror, cache, asked, listed, job, told, overtaken, excused>>

StoreLoaded ==
    /\ loading # NotLoaded
    /\ cache' = loading
    /\ loading' = NotLoaded
    /\ UNCHANGED <<rows, owner, count, mirror, asked, listed, job, told, failed, overtaken, excused>>

Evict ==
    /\ Loaded
    /\ cache' = NotLoaded
    /\ UNCHANGED <<rows, owner, count, mirror, loading, asked, listed, job, told, failed, overtaken, excused>>

(* The server stops, with what it was doing, and starts: load_pending. *)
Restart ==
    /\ cache' = NotLoaded /\ loading' = NotLoaded
    /\ job' = [h \in Handlers |-> IF At(h, "idle") THEN Idle ELSE Done]
    /\ listed' = [q \in Requests |-> IF asked[q] = "pending" THEN "pending" ELSE "none"]
    /\ UNCHANGED <<rows, owner, count, mirror, asked, told, failed, overtaken, excused>>

Next ==
    \/ \E h \in Handlers, u \in Users :
        \/ \E role \in Roles : AddMember(h, u, role)
        \/ JoinByCode(h, u) \/ SendRejoins(h, u) \/ Leave(h, u)
        \/ RemoveMemberAdmin(h, u) \/ AddMemberAdmin(h, u) \/ \E role \in {"Admin", "Member"} : SetMemberRoleAdmin(h, u, role)
        \/ \E by \in Users : TransferGroupOwner(h, by, u)
    \/ \E h \in Handlers :
        \/ JoinChannel(h) \/ LeaveChannel(h) \/ WriteRow(h) \/ CountRows(h) \/ Commit(h)
        \/ SetRole(h) \/ CacheRole(h) \/ LockGroup(h) \/ SwapOwner(h) \/ Demote(h)
        \/ Admit(h) \/ Reload(h)
        \/ \E g \in Handlers : Deadlock(h, g)
        \/ \E q \in Requests : Approve(h, q) \/ Reject(h, q)
    \/ \E q \in Requests : AskToJoin(q) \/ ListRequest(q)
    \/ StartLoad \/ LoadFails \/ StoreLoaded \/ Evict \/ Restart

Spec == Init /\ [][Next]_vars

-----------------------------------------------------------------------------

(* Whatever transfers, role changes, joins and leaves run at the same time,  *)
(* the group's owner_id and nobody else has the role of owner in             *)
(* privchat_group_members: two transfers by one owner never both succeed,    *)
(* and a role change takes the role from no owner (channel_service.rs        *)
(* transfer_group_owner, set_member_role_admin).  Excused are a user to whom *)
(* a membership transaction gave the role that the mirror has of him, which  *)
(* is whatever group/member/add asked for (send_message_handler.rs); an      *)
(* owner whom a membership transaction, which never looks at owner_id,       *)
(* removed or entered again as a member; and one who got the role between    *)
(* the read and the write of a role change.                                  *)
OwnersAreTheOwner == \A u \in Users \ excused : rows[u] = "Owner" <=> u = owner

(* At most one handler is told that it decided a join request, the request   *)
(* says what that handler was told, and an approved applicant is never one   *)
(* whose request was also reported as rejected (approve_join_request_in_tx,  *)
(* reject_request).                                                          *)
DecidedOnce ==
    \A q \in Requests : Cardinality(told[q]) <= 1 /\ \A t \in told[q] : asked[q] = t[2]
=============================================================================
