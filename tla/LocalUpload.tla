---------------------------- MODULE LocalUpload -----------------------------
(***************************************************************************)
(* Uploads to local storage, whole (http/routes/upload.rs upload_file,     *)
(* upload_session.rs) or in parts (put_chunk, complete_upload,             *)
(* chunked_upload.rs), their publication (FileService::publish_and_record) *)
(* and the claim of a content that is stored already                       *)
(* (file_claim_service.rs).  All tokens are for one content.  A client may *)
(* seal it anew for every attempt, and the path of an object is the digest *)
(* of the sealed body, so a body is its own path.                          *)
(*                                                                         *)
(* A token can be used again and again: retries are told apart from new    *)
(* uploads by what is on disk, the reserved file id and the id of a        *)
(* finished upload.  Whether a whole upload's session file says Idle or    *)
(* WholeReceiving makes no difference to who holds the file lock next, so  *)
(* only these two are kept.  A request may be dropped at any await when    *)
(* its client goes away, and its locks with it; a blocking task or a       *)
(* COMMIT under way is carried out nevertheless.  A part file is created   *)
(* and written in one step: nothing reads one that is not renamed yet.     *)
(***************************************************************************)
EXTENDS Naturals

CONSTANTS
    Tokens,       \* upload tokens, one session each
    Chunked,      \* those among them whose upload comes in parts
    Claims,       \* claim tokens
    Bodies,       \* sealed forms of the content
    Requests,     \* requests under way
    MaxIds,       \* bound: file ids drawn
    MaxFiles,     \* bound: files on disk at a time
    MaxFaults     \* bound: failed calls, dropped requests, crashes

VARIABLES
    session,      \* of each token: the reserved and the final id, on disk
    parts,        \* the parts of each chunked session
    temps,        \* part files under their temporary names
    expired,      \* chunked sessions past their time
    closed,       \* chunked sessions whose directory is gone
    staging,      \* the file at each session's temporary path
    store,        \* the file at each final path
    bytes,        \* what is in each file
    ids,          \* file ids drawn so far
    rows,         \* privchat_file_uploads
    registered,   \* the content's path in privchat_attachment_objects
    job,          \* what each request does next
    late,         \* what goes on after its request was dropped
    answers,      \* file ids that clients were told
    overwritten,  \* final paths whose file was opened for writing again, or before a late task had done
    reverted,     \* tokens whose session file an older request wrote last
    faults

folder == <<parts, temps, expired, closed>>
disk == <<session, folder, staging, store, bytes, overwritten, reverted>>
database == <<ids, rows, registered>>
vars == <<disk, database, job, late, answers, faults>>

None == "none"
Files == 1 .. MaxFiles
FileIds == 1 .. MaxIds
NoRow == [path |-> None, of |-> None]
Idle == [next |-> "idle", of |-> None, id |-> 0, body |-> None, file |-> 0, span |-> {}]

(* Tokens, claims and contents are told apart from the marks for none. *)
TokensAndBodies ==
    /\ MaxIds \in Nat /\ MaxFiles \in Nat /\ MaxFaults \in Nat
    /\ Chunked \subseteq Tokens /\ Tokens \cap Claims = {}
    /\ None \notin Tokens \cup Claims
    /\ Bodies \cap {None, "part", "mixed"} = {}

Init ==
    /\ session = [t \in Tokens |-> [reserved |-> 0, file |-> 0]]
    /\ parts = [t \in Chunked |-> {}]
    /\ temps = {} /\ expired = {} /\ closed = {}
    /\ staging = [t \in Tokens |-> 0]
    /\ store = [b \in Bodies |-> 0]
    /\ bytes = [f \in Files |-> None]
    /\ ids = 0
    /\ rows = [i \in FileIds |-> NoRow]
    /\ registered = None
    /\ job = [r \in Requests |-> Idle]
    /\ late = {} /\ answers = {} /\ overwritten = {} /\ reverted = {} /\ faults = 0

Fault == faults < MaxFaults /\ faults' = faults + 1
Goto(r, step) == job' = [job EXCEPT ![r].next = step]
Quit(r) == job' = [job EXCEPT ![r] = Idle]
Answer(t, i) == answers' = answers \cup {<<t, i>>}

(* The next value of the sequence of file ids. *)
Draw == ids < MaxIds /\ ids' = ids + 1

Unlinked(t) == [staging EXCEPT ![t] = 0]

-----------------------------------------------------------------------------
(* The session: tombstone, file lock, reserved id.                           *)

Locked(t) == \E r \in Requests : job[r].of = t

(* The tombstone answers before the lock is tried and before the body is     *)
(* read; a session that is locked refuses.                                   *)
Start(r, t) ==
    /\ job[r] = Idle /\ t \notin Chunked
    /\ IF session[t].file # 0
       THEN <<t, session[t].file>> \notin answers /\ Answer(t, session[t].file) /\ UNCHANGED job
       ELSE /\ ~Locked(t)
            /\ job' = [job EXCEPT ![r] = [Idle EXCEPT !.next = "reserve", !.of = t]]
            /\ UNCHANGED answers
    /\ UNCHANGED <<disk, database, late, faults>>

ReserveAgain(r) ==
    /\ job[r].next = "reserve"
    /\ Draw
    /\ session' = [session EXCEPT ![job[r].of].reserved = ids + 1]
    /\ job' = [job EXCEPT ![r].next = "open", ![r].id = ids + 1]
    /\ UNCHANGED <<folder, staging, store, bytes, overwritten, reverted, rows, registered, late, answers, faults>>

(* The id is reserved on disk before a byte is read, and reused.             *)
Reserve(r) ==
    LET t == job[r].of
    IN  /\ job[r].next = "reserve"
        /\ \/ /\ session[t].reserved = 0
              /\ Draw
              /\ \/ /\ session' = [session EXCEPT ![t].reserved = ids + 1]
                    /\ job' = [job EXCEPT ![r].next = "open", ![r].id = ids + 1]
                    /\ UNCHANGED faults
                 \/ Fault /\ Quit(r) /\ UNCHANGED session
              /\ UNCHANGED answers
           \/ /\ session[t].reserved # 0
              /\ rows[session[t].reserved] = NoRow
              /\ job' = [job EXCEPT ![r].next = "open", ![r].id = session[t].reserved]
              /\ UNCHANGED <<session, ids, answers, faults>>
           \/ /\ session[t].reserved # 0
              /\ rows[session[t].reserved] # NoRow
              /\ Answer(t, session[t].reserved) /\ Quit(r)
              /\ \/ session' = [session EXCEPT ![t].file = session[t].reserved] /\ UNCHANGED faults
                 \/ Fault /\ UNCHANGED session      \* the tombstone is written next time
              /\ UNCHANGED ids
        /\ UNCHANGED <<folder, staging, store, bytes, overwritten, reverted, rows, registered, late>>

-----------------------------------------------------------------------------
(* The body.                                                                 *)

(* Files that no path and no open writer has. *)
Unused ==
    Files \ ({staging[t] : t \in Tokens} \cup {store[b] : b \in Bodies} \cup {job[r].file : r \in Requests}
             \cup {w.file : w \in {x \in late : x.next \in {"fill", "body"}}})

Target(t) == IF staging[t] = 0 THEN CHOOSE g \in Unused : TRUE ELSE staging[t]

(* Bytes go to a file under whatever names it has. *)
Overwrite(f, left) ==
    /\ bytes' = [bytes EXCEPT ![f] = left]
    /\ overwritten' = overwritten \cup {b \in Bodies : store[b] = f}

(* A session's temporary path is opened for writing: the file that is there  *)
(* is truncated.                                                             *)
Opened(t, left) ==
    /\ staging[t] = 0 => Unused # {}
    /\ staging' = [staging EXCEPT ![t] = Target(t)]
    /\ Overwrite(Target(t), left)

Truncate(t) == Opened(t, "part")

(* begin_streaming_upload. *)
Open(r) ==
    /\ job[r].next = "open"
    /\ Truncate(job[r].of)
    /\ job' = [job EXCEPT ![r].next = "body", ![r].file = Target(job[r].of)]
    /\ UNCHANGED <<folder, session, store, reverted, database, late, answers, faults>>

(* commit_streaming_upload reads the temporary path again: a file that is no *)
(* longer there cannot be verified.                                          *)
Verified(r) == staging[job[r].of] = job[r].file

(* receive_streaming.  A body that ends early or is not the content is       *)
(* deleted at its temporary path.                                            *)
Body(r) ==
    LET t == job[r].of
        f == job[r].file
    IN  /\ job[r].next = "body"
        /\ \/ \E b \in Bodies :
                /\ bytes' = [bytes EXCEPT ![f] = b]
                /\ IF Verified(r)
                   THEN job' = [job EXCEPT ![r].next = "converge", ![r].body = b, ![r].file = 0]
                   ELSE Quit(r)
                /\ UNCHANGED staging
           \/ staging' = Unlinked(t) /\ Quit(r) /\ UNCHANGED bytes
        /\ UNCHANGED <<folder, session, store, overwritten, reverted, database, late, answers, faults>>

-----------------------------------------------------------------------------
(* Chunked sessions.  The content has two units of the grid; a part is one   *)
(* of them or both, cut from a sealed body.                                  *)

Units == {1, 2}
Serves(t) == session[t].reserved # 0 /\ t \notin expired \cup closed

(* The id is reserved in the manifest before the token is handed out.        *)
CreateSession(t) ==
    /\ session[t].reserved = 0 /\ t \in Chunked
    /\ Draw
    /\ session' = [session EXCEPT ![t].reserved = ids + 1]
    /\ UNCHANGED <<folder, staging, store, bytes, overwritten, reverted, rows, registered, job, late, answers, faults>>

(* A request opens the session, takes its lock and looks for the tombstone.  *)
PutChunk(r, t) ==
    /\ job[r] = Idle /\ Serves(t) /\ ~Locked(t) /\ session[t].file = 0
    /\ \E q \in SUBSET Units \ {{}}, b \in Bodies :
         job' = [job EXCEPT ![r] = [Idle EXCEPT !.next = "part", !.of = t, !.span = q, !.body = b]]
    /\ UNCHANGED <<disk, database, late, answers, faults>>

CompleteUpload(r, t) ==
    /\ job[r] = Idle /\ Serves(t) /\ ~Locked(t)
    /\ IF session[t].file # 0
       THEN <<t, session[t].file>> \notin answers /\ Answer(t, session[t].file) /\ UNCHANGED job
       ELSE /\ job' = [job EXCEPT ![r] = [Idle EXCEPT !.next = "lookup", !.of = t, !.id = session[t].reserved]]
            /\ UNCHANGED answers
    /\ UNCHANGED <<disk, database, late, faults>>

AbortUpload(r, t) ==
    /\ job[r] = Idle /\ Serves(t) /\ ~Locked(t) /\ session[t].file = 0
    /\ job' = [job EXCEPT ![r] = [Idle EXCEPT !.next = "discard", !.of = t]]
    /\ UNCHANGED <<disk, database, late, answers, faults>>

(* A row of the reserved id is from an upload that did not get to its        *)
(* tombstone.                                                                *)
Lookup(r) ==
    /\ job[r].next = "lookup"
    /\ Goto(r, IF rows[job[r].id] = NoRow THEN "assemble" ELSE "retomb")
    /\ UNCHANGED <<disk, database, late, answers, faults>>

(* The blocking tasks: what each does to the disk, and what follows it.      *)

Clashes(w) == \E p \in parts[w.of] : p.span \cap w.span # {}
Named(w) == {x \in temps : x.of = w.of /\ x.span = w.span}
Covered(t) ==
    /\ UNION {p.span : p \in parts[t]} = Units
    /\ \A p, q \in parts[t] : p = q \/ p.span \cap q.span = {}
Listed(w) == {p \in parts[w.of] : p.span \in w.span}
Content(ps) == IF \E b \in Bodies : \A p \in ps : p.body = b
               THEN CHOOSE b \in Bodies : \A p \in ps : p.body = b ELSE "mixed"

Then(w, step) == [w EXCEPT !.next = step]

After(w) ==
    CASE w.next = "part" -> Then(w, IF Clashes(w) THEN "done" ELSE "create")
      [] w.next = "create" -> Then(w, IF Named(w) # {} \/ w.of \in closed THEN "done" ELSE "rename")
      [] w.next = "assemble" ->
           IF Covered(w.of)
           THEN [Then(w, "fill") EXCEPT !.file = Target(w.of), !.span = {p.span : p \in parts[w.of]}]
           ELSE Then(w, "done")
      [] w.next = "fill" -> Then(w, IF {p.span : p \in Listed(w)} = w.span THEN "verify" ELSE "done")
      [] OTHER -> Then(w, "done")

(* write_part: a part that overlaps another is refused, then the bytes go to *)
(* a file that must not exist.  When it does, it is removed all the same.    *)
WritePart(w) ==
    /\ \/ w.next = "part" /\ UNCHANGED <<parts, temps>>
       \/ /\ w.next = "create"
          /\ temps' = IF Named(w) # {} THEN temps \ Named(w)
                      ELSE IF w.of \in closed THEN temps
                      ELSE temps \cup {[of |-> w.of, span |-> w.span, body |-> w.body]}
          /\ UNCHANGED parts
       \/ /\ w.next = "rename"
          /\ parts' = IF Named(w) = {} THEN parts
                      ELSE [parts EXCEPT ![w.of] = {p \in parts[w.of] : p.span # w.span}
                                                   \cup {[span |-> x.span, body |-> x.body] : x \in Named(w)}]
          /\ temps' = temps \ Named(w)
    /\ UNCHANGED <<session, expired, closed, staging, bytes, overwritten>>

(* assemble: the parts that the directory lists are copied to one file.      *)
Assemble(w) ==
    /\ \/ /\ w.next = "assemble"
          /\ IF Covered(w.of) THEN Truncate(w.of) ELSE UNCHANGED <<staging, bytes, overwritten>>
       \/ /\ w.next = "fill"
          /\ IF After(w).next = "verify"
             THEN /\ bytes' = [bytes EXCEPT ![w.file] = Content(Listed(w))]
                  /\ overwritten' = overwritten \cup {b \in Bodies : store[b] = w.file /\ b # bytes'[w.file]}
                  /\ UNCHANGED staging
             ELSE staging' = Unlinked(w.of) /\ UNCHANGED <<bytes, overwritten>>
    /\ UNCHANGED <<session, folder>>

(* drop_payload, after the tombstone. *)
DropPayload(w) ==
    /\ w.next = "clean"
    /\ parts' = [parts EXCEPT ![w.of] = {}] /\ temps' = {x \in temps : x.of # w.of}
    /\ staging' = Unlinked(w.of)
    /\ UNCHANGED <<session, expired, closed, bytes, overwritten>>

(* The directory is removed with the tombstone; so does the sweep.           *)
Removed(t) ==
    /\ closed' = closed \cup {t} /\ expired' = expired \ {t}
    /\ parts' = [parts EXCEPT ![t] = {}] /\ temps' = {x \in temps : x.of # t}
    /\ session' = [session EXCEPT ![t].file = 0] /\ staging' = Unlinked(t)

Discard(w) == w.next = "discard" /\ Removed(w.of) /\ UNCHANGED <<bytes, overwritten>>

(* write_completed of a request that was dropped. *)
Mark(w) ==
    /\ w.next = "mark"
    /\ session' = IF w.of \in closed THEN session ELSE [session EXCEPT ![w.of].file = w.id]
    /\ UNCHANGED <<folder, staging, bytes, overwritten>>

Tasks == {"part", "create", "rename", "assemble", "fill", "clean", "discard", "mark"}
Task(w) == WritePart(w) \/ Assemble(w) \/ DropPayload(w) \/ Discard(w) \/ Mark(w)

(* A request waits for its task; a failed write removes its temporary file,  *)
(* a failed removal leaves some of the directory.                            *)
RunTask(r) ==
    LET w == job[r]
        n == After(w)
    IN  /\ w.of \in Chunked
        /\ \/ /\ Task(w)
              /\ job' = [job EXCEPT ![r] = IF n.next = "done" THEN Idle ELSE n]
              /\ IF w.next = "clean" THEN Answer(w.of, w.id) ELSE UNCHANGED answers
              /\ UNCHANGED faults
           \/ /\ w.next = "rename" /\ Fault /\ Quit(r)
              /\ temps' = temps \ Named(w)
              /\ UNCHANGED <<session, parts, expired, closed, staging, bytes, overwritten, answers>>
           \/ /\ w.next = "discard" /\ Fault /\ Quit(r)
              /\ \E left \in SUBSET parts[w.of] : parts' = [parts EXCEPT ![w.of] = left]
              /\ staging' \in {staging, Unlinked(w.of)} /\ expired' \in {expired, expired \cup {w.of}}
              /\ UNCHANGED <<session, temps, closed, bytes, overwritten, answers>>
        /\ UNCHANGED <<store, reverted, database, late>>

(* verify_staged_object: what was assembled is the content.                  *)
Verify(r) ==
    LET f == staging[job[r].of]
    IN  /\ job[r].next = "verify"
        /\ IF f # 0 /\ bytes[f] \in Bodies
           THEN job' = [job EXCEPT ![r].next = "converge", ![r].body = bytes[f], ![r].file = 0, ![r].span = {}]
           ELSE Quit(r)
        /\ UNCHANGED <<disk, database, late, answers, faults>>

Expire(t) ==
    /\ Serves(t) /\ expired' = expired \cup {t}
    /\ UNCHANGED <<session, parts, temps, closed, staging, store, bytes, overwritten, reverted, database,
                   job, late, answers, faults>>

(* sweep_expired passes by a session whose lock is held.                     *)
Sweep(t) ==
    /\ t \in expired /\ ~Locked(t)
    /\ Removed(t)
    /\ UNCHANGED <<store, bytes, overwritten, reverted, database, job, late, answers, faults>>

-----------------------------------------------------------------------------
(* publish_and_record: one transaction around the publication.               *)

(* The advisory lock on the content's digest. *)
ContentLocked ==
    \/ \E r \in Requests : job[r].next \in {"link", "unlink", "check", "commit"}
    \/ \E w \in late : w.next = "commit"

ConvergeOwnPath(r) ==
    /\ job[r].next = "converge" /\ ~ContentLocked
    /\ IF registered # None
       THEN staging' = Unlinked(job[r].of) /\ Goto(r, "commit")
       ELSE Goto(r, "link") /\ UNCHANGED staging
    /\ UNCHANGED <<folder, session, store, bytes, overwritten, reverted, database, late, answers, faults>>

(* converge_upload: a registered content is used, and the body is deleted.   *)
(* The wait for the lock is limited.                                         *)
Converge(r) ==
    /\ job[r].next = "converge"
    /\ \/ /\ ~ContentLocked
          /\ IF registered # None
             THEN /\ staging' = Unlinked(job[r].of)
                  /\ job' = [job EXCEPT ![r].next = "commit", ![r].body = registered]
             ELSE Goto(r, "link") /\ UNCHANGED staging
       \/ ContentLocked /\ Quit(r) /\ UNCHANGED staging
    /\ UNCHANGED <<folder, session, store, bytes, overwritten, reverted, database, late, answers, faults>>

(* hard_link never replaces what is at the final path.  The session's file   *)
(* may have been written by a late task since it was verified.               *)
Links(w) ==
    /\ staging[w.of] # 0 /\ store[w.body] = 0
    /\ store' = [store EXCEPT ![w.body] = staging[w.of]]
    /\ overwritten' = IF (w.of \in Chunked /\ bytes[staging[w.of]] # w.body) \/ bytes[staging[w.of]] = "mixed"
                      THEN overwritten \cup {w.body} ELSE overwritten

Link(r) ==
    /\ job[r].next = "link"
    /\ \/ Links(job[r]) /\ Goto(r, "unlink") /\ UNCHANGED faults
       \/ Links(job[r]) /\ Fault /\ Quit(r)          \* fsync of the directory fails
       \/ staging[job[r].of] = 0 /\ Quit(r) /\ UNCHANGED <<store, overwritten, faults>>
       \/ staging[job[r].of] # 0 /\ store[job[r].body] # 0 /\ Goto(r, "check") /\ UNCHANGED <<store, overwritten, faults>>
    /\ UNCHANGED <<folder, session, staging, bytes, reverted, database, late, answers>>

Unlink(r) ==
    /\ job[r].next = "unlink"
    /\ Goto(r, "commit")
    /\ \/ staging' = Unlinked(job[r].of) /\ UNCHANGED faults
       \/ Fault /\ UNCHANGED staging                 \* its failure is ignored
    /\ UNCHANGED <<folder, session, store, bytes, overwritten, reverted, database, late, answers>>

(* verify_published: an object that is there already is used if it is the    *)
(* same, and never overwritten.                                              *)
Check(r) ==
    /\ job[r].next = "check"
    /\ IF bytes[store[job[r].body]] = job[r].body
       THEN Goto(r, "commit") /\ staging' = Unlinked(job[r].of)
       ELSE Quit(r) /\ UNCHANGED staging
    /\ UNCHANGED <<folder, session, store, bytes, overwritten, reverted, database, late, answers, faults>>

(* The row of the reserved id, unless it is there, and the content.          *)
Commits(w) ==
    /\ rows' = IF rows[w.id] = NoRow
               THEN [rows EXCEPT ![w.id] = [path |-> w.body, of |-> w.of]] ELSE rows
    /\ registered' = IF registered = None THEN w.body ELSE registered

Commit(r) ==
    /\ job[r].next = "commit"
    /\ \/ Commits(job[r]) /\ Goto(r, "tomb") /\ UNCHANGED faults
       \/ Commits(job[r]) /\ Fault /\ Quit(r)        \* its reply is lost
       \/ Fault /\ Quit(r) /\ UNCHANGED <<rows, registered>>
    /\ UNCHANGED <<disk, ids, late, answers>>

(* ModeGuard::complete and write_completed; the upload succeeds without its  *)
(* tombstone too.  A chunked session is emptied only after it.               *)
Tombstone(r) ==
    LET t == job[r].of
    IN  /\ job[r].next = "tomb"
        /\ \/ /\ session' = [session EXCEPT ![t].file = job[r].id]
              /\ t \notin closed
              /\ IF t \in Chunked
                 THEN Goto(r, "clean") /\ UNCHANGED answers
                 ELSE Answer(t, job[r].id) /\ Quit(r)
              /\ UNCHANGED faults
           \/ (IF t \in closed THEN UNCHANGED faults ELSE Fault) /\ Answer(t, job[r].id) /\ Quit(r) /\ UNCHANGED session
        /\ UNCHANGED <<folder, staging, store, bytes, overwritten, reverted, database, late>>

(* The tombstone that was missing; without it the request fails.             *)
Retomb(r) ==
    LET t == job[r].of
    IN  /\ job[r].next = "retomb"
        /\ \/ t \notin closed /\ session' = [session EXCEPT ![t].file = job[r].id] /\ Goto(r, "clean") /\ UNCHANGED faults
           \/ (IF t \in closed THEN UNCHANGED faults ELSE Fault) /\ Quit(r) /\ UNCHANGED session
        /\ UNCHANGED <<folder, staging, store, bytes, overwritten, reverted, database, late, answers>>

-----------------------------------------------------------------------------
(* file/claim_existing.                                                      *)

Claimed(c) == {i \in FileIds : rows[i].of = c}

(* Claim tokens are signed for a content that is registered.  An earlier     *)
(* claim with the token is looked up first.                                  *)
StartClaim(r, c) ==
    /\ job[r] = Idle /\ registered # None
    /\ IF Claimed(c) # {}
       THEN /\ \E i \in Claimed(c) : <<c, i>> \notin answers /\ Answer(c, i)
            /\ UNCHANGED job
       ELSE /\ job' = [job EXCEPT ![r] = [Idle EXCEPT !.next = "claim", !.of = c]]
            /\ UNCHANGED answers
    /\ UNCHANGED <<disk, database, late, faults>>

CreateReferenceAgain(r) ==
    /\ job[r].next = "claim" /\ Quit(r)
    /\ Draw
    /\ rows' = [rows EXCEPT ![ids + 1] = [path |-> registered, of |-> job[r].of]]
    /\ Answer(job[r].of, ids + 1)
    /\ UNCHANGED <<disk, registered, late, faults>>

(* create_reference: the unique index on the user and the token's digest     *)
(* turns the second claim of two away, and both read the row that is there.  *)
CreateReference(r) ==
    LET c == job[r].of
    IN  /\ job[r].next = "claim" /\ Quit(r)
        /\ Draw
        /\ \/ /\ rows' = IF Claimed(c) = {}
                         THEN [rows EXCEPT ![ids + 1] = [path |-> registered, of |-> c]] ELSE rows
              /\ \/ (\E i \in FileIds : rows'[i].of = c /\ Answer(c, i)) /\ UNCHANGED faults
                 \/ Fault /\ UNCHANGED answers
           \/ Fault /\ UNCHANGED <<rows, answers>>
        /\ UNCHANGED <<disk, registered, late>>

-----------------------------------------------------------------------------
(* Failure.                                                                  *)

(* What goes on when the client of a request goes away: its locks are        *)
(* released and its transaction is rolled back, but not the system call or   *)
(* the COMMIT that is under way, nor the write of a session file: the        *)
(* writer's open and the write of a piece of the body run on the blocking    *)
(* pool like the rest.                                                       *)
StateWrite(t, value) == [next |-> "state", of |-> t, was |-> session[t], now |-> value]

UnderWay(r) ==
    LET t == job[r].of
    IN  CASE job[r].next \in {"open", "body", "link", "unlink", "commit"} \cup Tasks -> {job[r]}
          [] job[r].next \in {"tomb", "retomb"} /\ t \in Chunked -> {Then(job[r], "mark")}
          [] job[r].next = "reserve" /\ session[t].reserved = 0 ->
                 {StateWrite(t, [session[t] EXCEPT !.reserved = ids + 1])}
          [] job[r].next = "reserve" /\ session[t].reserved # 0 /\ rows[session[t].reserved] # NoRow ->
                 {StateWrite(t, [session[t] EXCEPT !.file = session[t].reserved])}
          [] job[r].next = "tomb" /\ t \notin Chunked -> {StateWrite(t, [session[t] EXCEPT !.file = job[r].id])}
          [] OTHER -> {}

Drop(r) ==
    /\ job[r].next \notin {"idle", "claim"}
    /\ Fault /\ Quit(r)
    /\ late' = late \cup UnderWay(r)
    /\ IF job[r].next = "reserve" /\ session[job[r].of].reserved = 0 THEN Draw ELSE UNCHANGED ids
    /\ UNCHANGED <<disk, rows, registered, answers>>

(* A task that was to write the session file read it before.                 *)
WriteState(w) ==
    /\ session' = [session EXCEPT ![w.of] = w.now]
    /\ reverted' = IF session[w.of] = w.was THEN reverted ELSE reverted \cup {w.of}

(* The rest of a dropped request.  A COMMIT may have been sent or not, and   *)
(* ModeGuard's own write of the session file may come after the task's.      *)
LateStep(w) ==
    \/ /\ \/ w.next = "open" /\ Opened(w.of, "mixed")
          \/ w.next = "body" /\ Overwrite(w.file, "mixed") /\ UNCHANGED staging
       /\ late' = late \ {w}
       /\ UNCHANGED <<folder, session, reverted, store, rows, registered>>
    \/ /\ w.next = "link" /\ Links(w)
       /\ late' = (late \ {w}) \cup {[w EXCEPT !.next = "unlink"]}
       /\ UNCHANGED <<folder, bytes, session, reverted, staging, rows, registered>>
    \/ /\ w.next = "unlink"
       /\ staging' = Unlinked(w.of) /\ late' = late \ {w}
       /\ UNCHANGED <<folder, bytes, overwritten, session, reverted, store, rows, registered>>
    \/ /\ w.next = "commit" /\ Commits(w) /\ late' = late \ {w}
       /\ UNCHANGED <<folder, bytes, overwritten, session, reverted, staging, store>>
    \/ /\ w.next = "state" /\ WriteState(w) /\ late' = late \ {w}
       /\ UNCHANGED <<folder, bytes, overwritten, staging, store, rows, registered>>
    \/ /\ \/ w.next \in {"open", "body", "commit", "state"}
          \/ w.next = "link" /\ (staging[w.of] = 0 \/ store[w.body] # 0)
       /\ late' = late \ {w}
       /\ UNCHANGED <<disk, rows, registered>>
    \/ /\ w.next \in Tasks /\ Task(w)
       /\ late' = (late \ {w}) \cup (IF After(w).next \in {"done", "verify"} THEN {} ELSE {After(w)})
       /\ UNCHANGED <<store, reverted, rows, registered>>

Late ==
    /\ \E w \in late : LateStep(w)
    /\ UNCHANGED <<ids, job, answers, faults>>

Crash ==
    /\ Fault
    /\ job # [r \in Requests |-> Idle] \/ late # {}
    /\ job' = [r \in Requests |-> Idle] /\ late' = {}
    /\ UNCHANGED <<disk, database, answers>>

Chunks(r) ==
    \/ \E t \in Chunked : PutChunk(r, t) \/ CompleteUpload(r, t) \/ AbortUpload(r, t)
    \/ Lookup(r) \/ RunTask(r) \/ Verify(r) \/ Retomb(r)
Publish(r) == Converge(r) \/ Link(r) \/ Unlink(r) \/ Check(r) \/ Commit(r) \/ Tombstone(r)

Next ==
    \/ \E r \in Requests :
         \/ \E t \in Tokens : Start(r, t)
         \/ \E c \in Claims : StartClaim(r, c)
         \/ Reserve(r) \/ Open(r) \/ Body(r) \/ Publish(r) \/ Chunks(r) \/ CreateReference(r) \/ Drop(r)
    \/ \E t \in Chunked : CreateSession(t) \/ Expire(t) \/ Sweep(t)
    \/ Late
    \/ Crash

Spec == Init /\ [][Next]_vars

-----------------------------------------------------------------------------

(* A token is good for one file, however often it is used: it never has two  *)
(* rows, every answer names its row, and nobody else's (upload_file's        *)
(* reserved id, create_reference's unique index).  The exception is a        *)
(* session file that a dropped request's task wrote after a later request.   *)
OneFilePerToken ==
    /\ \A i, j \in FileIds :
         rows[i] # NoRow /\ rows[i].of = rows[j].of /\ rows[i].of \notin reverted => i = j
    /\ \A a \in answers : rows[a[2]].of = a[1]

(* A file row leads to the bytes it stands for, published before the row and *)
(* never replaced (publish_and_record), except where a session opened its    *)
(* temporary file again while that was also the published object, or where a *)
(* system call of a dropped request wrote to it.                             *)
ReferencedObjectExists ==
    \A i \in FileIds :
        rows[i] # NoRow /\ rows[i].path \notin overwritten =>
            store[rows[i].path] # 0 /\ bytes[store[rows[i].path]] = rows[i].path
=============================================================================
