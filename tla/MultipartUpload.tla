-------------------------- MODULE MultipartUpload ---------------------------
(***************************************************************************)
(* Resumable upload of one content straight to an S3 bucket                *)
(* (request_chunked_upload_token.rs, upload_s3.rs, chunked_upload.rs,      *)
(* FileService::record_s3_published).  Several sessions upload the same    *)
(* content; the final key is computed from the content and the file's      *)
(* extension, so sessions may share it.  A session's files on disk, the    *)
(* bucket and the database are three stores; every call can fail, the      *)
(* server can crash between any two steps, and the daily sweep runs beside *)
(* the requests.                                                           *)
(*                                                                         *)
(* A request that works on a session holds the session's file lock, so a   *)
(* session has one request at a time; s3_status reads only and is left     *)
(* out.  HEAD followed by a delete conditional on the ETag that HEAD saw   *)
(* deletes exactly when the object is still the same, so the pair is one   *)
(* step.                                                                   *)
(***************************************************************************)
EXTENDS Naturals, FiniteSets

CONSTANTS
    Sessions,     \* upload sessions, all of the same content
    Keys,         \* final keys of the content, one per extension
    NoClobber,    \* the bucket honours If-None-Match of CompleteMultipartUpload
    MaxFaults     \* bound: failed calls and crashes

VARIABLES
    key,          \* the final key of each session
    mpu,          \* the multipart upload of each session in the bucket
    parts,        \* what the client has put into it
    object,       \* the object at each key
    anchor,       \* sessions with a recovery anchor on disk
    dir,          \* the session directory: none, half made, with a manifest
    tomb,         \* sessions with a completed.json
    expired,      \* sessions whose token has run out
    rows,         \* the path each session's file row refers to
    registered,   \* the path of the content in privchat_attachment_objects
    job,          \* what the request of each session does next
    sweep,        \* what the sweep does next
    loose,        \* multipart uploads of which the server lost track
    orphans,      \* sessions given up after their object was published
    mishaps

bucket == <<mpu, parts, object>>
disk == <<anchor, dir, tomb>>
database == <<rows, registered>>
history == <<loose, orphans>>
vars == <<key, bucket, disk, expired, database, job, sweep, history, mishaps>>

None == "none"

(* Names, not the strings that stand for something missing. *)
KeysAndSessions == None \notin Keys \cup Sessions

NoObject == [by |-> None, good |-> FALSE]
NoSweep == [next |-> "idle", of |-> None]

Init ==
    /\ key = [s \in Sessions |-> None]
    /\ mpu = [s \in Sessions |-> "none"]
    /\ parts = [s \in Sessions |-> "unsigned"]
    /\ object = [k \in Keys |-> NoObject]
    /\ anchor = {} /\ tomb = {} /\ expired = {}
    /\ dir = [s \in Sessions |-> "none"]
    /\ rows = [s \in Sessions |-> None]
    /\ registered = None
    /\ job = [s \in Sessions |-> "idle"]
    /\ sweep = NoSweep
    /\ loose = {} /\ orphans = {} /\ mishaps = 0

Fault == mishaps < MaxFaults /\ mishaps' = mishaps + 1
Goto(s, step) == job' = [job EXCEPT ![s] = step]
End(s) == Goto(s, "idle")
Closed(s) == [mpu EXCEPT ![s] = "closed"]

RemoveDir(s) == dir' = [dir EXCEPT ![s] = "none"] /\ tomb' = tomb \ {s}

Held(s) == object[key[s]]
Own(s) == Held(s).by = s
Free(s) == Held(s) = NoObject

-----------------------------------------------------------------------------
(* file/request_chunked_upload_token: the multipart upload, the anchor, the  *)
(* directory with its manifest, and the anchor again.                        *)

(* generate_file_path: the digest of the content and the extension.          *)
FinalKey(s) == \E k \in Keys : key' = [key EXCEPT ![s] = k]

Create(s) ==
    /\ mpu[s] = "none" /\ job[s] = "idle"
    /\ FinalKey(s)
    /\ mpu' = [mpu EXCEPT ![s] = "open"]
    /\ \/ Goto(s, "anchor") /\ UNCHANGED <<loose, mishaps>>
       \/ Fault /\ loose' = loose \cup {s} /\ UNCHANGED job     \* the answer is lost
    /\ UNCHANGED <<parts, object, disk, expired, database, sweep, orphans>>

(* An anchor that cannot be written calls the upload off; when that fails    *)
(* too, only the log knows of it.                                            *)
WriteAnchor(s) ==
    /\ job[s] = "anchor"
    /\ \/ Goto(s, "mkdir") /\ anchor' = anchor \cup {s} /\ UNCHANGED <<mpu, loose, mishaps>>
       \/ Fault /\ End(s) /\ mpu' = Closed(s) /\ UNCHANGED <<anchor, loose>>
       \/ Fault /\ End(s) /\ loose' = loose \cup {s} /\ UNCHANGED <<mpu, anchor>>
    /\ UNCHANGED <<key, parts, object, dir, tomb, expired, database, sweep, orphans>>

MakeDirectory(s) ==
    /\ job[s] = "mkdir"
    /\ \/ Goto(s, "manifest") /\ dir' = [dir EXCEPT ![s] = "half"] /\ UNCHANGED mishaps
       \/ Fault /\ Goto(s, "undo") /\ UNCHANGED dir
    /\ UNCHANGED <<key, bucket, anchor, tomb, expired, database, sweep, history>>

(* The sweep may have taken the directory away: then there is nothing to     *)
(* write the manifest into.                                                  *)
WriteManifest(s) ==
    /\ job[s] = "manifest"
    /\ \/ dir[s] = "half" /\ Goto(s, "unanchor") /\ dir' = [dir EXCEPT ![s] = "ready"] /\ UNCHANGED mishaps
       \/ dir[s] = "none" /\ Goto(s, "undo") /\ UNCHANGED <<dir, mishaps>>
       \/ Fault /\ Goto(s, "undo") /\ UNCHANGED dir
    /\ UNCHANGED <<key, bucket, anchor, tomb, expired, database, sweep, history>>

UndoForgets(s) ==
    /\ job[s] = "undo" /\ End(s)
    /\ \/ mpu' = Closed(s) /\ anchor' = anchor \ {s} /\ UNCHANGED mishaps
       \/ Fault /\ anchor' = anchor \ {s} /\ UNCHANGED mpu
    /\ UNCHANGED <<key, parts, object, dir, tomb, expired, database, sweep, history>>

(* The anchor stays when the multipart upload could not be aborted.          *)
Undo(s) ==
    /\ job[s] = "undo" /\ End(s)
    /\ \/ mpu' = Closed(s) /\ anchor' = anchor \ {s} /\ UNCHANGED mishaps
       \/ Fault /\ UNCHANGED <<mpu, anchor>>
    /\ UNCHANGED <<key, parts, object, dir, tomb, expired, database, sweep, history>>

RemoveAnchor(s) ==
    /\ job[s] = "unanchor" /\ End(s)
    /\ anchor' = anchor \ {s}
    /\ loose' = IF dir[s] = "ready" \/ mpu[s] = "closed" THEN loose ELSE loose \cup {s}
    /\ UNCHANGED <<key, bucket, dir, tomb, expired, database, sweep, orphans, mishaps>>

-----------------------------------------------------------------------------
(* The client: part URLs, the parts, and the end of the token's life.        *)

(* ChunkedSession::open, and the file lock, which the sweep takes for an     *)
(* expired session only.                                                     *)
SweepLocks(s) == sweep.of = s /\ sweep.next \in {"settle", "resolve", "remove"}
Usable(s) == dir[s] = "ready" /\ s \notin expired /\ job[s] = "idle" /\ ~SweepLocks(s)

PartUrls(s) ==
    /\ Usable(s) /\ s \notin tomb
    /\ parts[s] = "unsigned"
    /\ parts' = [parts EXCEPT ![s] = "signed"]
    /\ UNCHANGED <<key, mpu, object, disk, expired, database, job, sweep, history, mishaps>>

(* A signed URL works as long as the multipart upload is open.  What the     *)
(* client sends is or is not the content that its token declares.            *)
UploadParts(s) ==
    /\ mpu[s] = "open" /\ parts[s] # "unsigned"
    /\ \E what \in {"good", "bad"} : parts[s] # what /\ parts' = [parts EXCEPT ![s] = what]
    /\ UNCHANGED <<key, mpu, object, disk, expired, database, job, sweep, history, mishaps>>

Expire(s) ==
    /\ dir[s] = "ready" /\ s \notin expired
    /\ expired' = expired \cup {s}
    /\ UNCHANGED <<key, bucket, disk, database, job, sweep, history, mishaps>>

-----------------------------------------------------------------------------
(* files/complete.                                                           *)

(* The tombstone, then the row of the reserved file id, answer at once; what *)
(* remains to be done starts with a HEAD of the final key.                   *)
CompleteStarts(s) ==
    /\ Usable(s)
    /\ s \notin tomb
    /\ IF rows[s] # None THEN Goto(s, "tomb") ELSE Goto(s, "head")
    /\ UNCHANGED <<key, bucket, disk, expired, database, sweep, history, mishaps>>

(* must_abort and then the step that needs the multipart upload closed.      *)
AbortThen(s, step) ==
    \/ mpu' = Closed(s) /\ Goto(s, step) /\ UNCHANGED mishaps
    \/ Fault /\ End(s) /\ UNCHANGED mpu

(* recover_from_existing_object, up to its verification: an object of        *)
(* another session stays where it is.                                        *)
FoundObject(s) ==
    \/ ~Own(s) /\ AbortThen(s, "idle")
    \/ Own(s) /\ Goto(s, "recheck") /\ UNCHANGED <<mpu, mishaps>>

HeadFinalKey(s) ==
    /\ job[s] = "head"
    /\ \/ Free(s) /\ Goto(s, "list") /\ UNCHANGED <<mpu, mishaps>>
       \/ ~Free(s) /\ FoundObject(s)
       \/ Fault /\ End(s) /\ UNCHANGED mpu
    /\ UNCHANGED <<key, parts, object, disk, expired, database, sweep, history>>

(* NoSuchUpload asks the final key once more.                                *)
UploadIsGone(s) ==
    \/ Free(s) /\ End(s) /\ UNCHANGED <<mpu, mishaps>>
    \/ ~Free(s) /\ FoundObject(s)

ListParts(s) ==
    /\ job[s] = "list"
    /\ \/ mpu[s] = "closed" /\ UploadIsGone(s)
       \/ mpu[s] = "open" /\ parts[s] \in {"unsigned", "signed"} /\ End(s) /\ UNCHANGED <<mpu, mishaps>>
       \/ mpu[s] = "open" /\ parts[s] \in {"good", "bad"} /\ Goto(s, "assemble") /\ UNCHANGED <<mpu, mishaps>>
       \/ Fault /\ End(s) /\ UNCHANGED mpu
    /\ UNCHANGED <<key, parts, object, disk, expired, database, sweep, history>>

(* CompleteMultipartUpload takes effect, whether or not its answer arrives.  *)
Assembled(s) ==
    /\ mpu[s] = "open"
    /\ NoClobber => Free(s)
    /\ mpu' = Closed(s)
    /\ object' = [object EXCEPT ![key[s]] = [by |-> s, good |-> parts[s] = "good"]]

Assemble(s) ==
    /\ job[s] = "assemble"
    /\ \/ Assembled(s) /\ Goto(s, "verify") /\ UNCHANGED mishaps
       \/ Assembled(s) /\ Fault /\ End(s)
       \/ mpu[s] = "closed" /\ UploadIsGone(s) /\ UNCHANGED object
       \/ mpu[s] = "open" /\ NoClobber /\ ~Free(s) /\ Goto(s, "refused") /\ UNCHANGED <<mpu, object, mishaps>>
       \/ Fault /\ End(s) /\ UNCHANGED <<mpu, object>>
    /\ UNCHANGED <<key, parts, disk, expired, database, sweep, history>>

(* verify_precondition_failed: the object that was there first is reused     *)
(* when it is this session's and right, and is never deleted.                *)
PreconditionFailed(s) ==
    /\ job[s] = "refused"
    /\ \/ Free(s) /\ End(s) /\ UNCHANGED <<mpu, mishaps>>
       \/ ~Free(s) /\ AbortThen(s, IF Own(s) /\ Held(s).good THEN "record" ELSE "idle")
       \/ Fault /\ End(s) /\ UNCHANGED mpu
    /\ UNCHANGED <<key, parts, object, disk, expired, database, sweep, history>>

(* verify_final_object reads whatever is at the key.  Bytes that are not the *)
(* content are deleted if the object is still this session's.                *)
VerifyFinalObject(s) ==
    /\ job[s] \in {"verify", "recheck"}
    /\ \/ Free(s) /\ End(s) /\ UNCHANGED <<mpu, object, mishaps>>
       \/ Held(s).good /\ job[s] = "verify" /\ Goto(s, "record") /\ UNCHANGED <<mpu, object, mishaps>>
       \/ Held(s).good /\ job[s] = "recheck" /\ AbortThen(s, "record") /\ UNCHANGED object
       \/ /\ ~Free(s) /\ ~Held(s).good /\ Own(s)
          /\ object' = [object EXCEPT ![key[s]] = NoObject]
          /\ End(s) /\ UNCHANGED <<mpu, mishaps>>
       \/ ~Free(s) /\ ~Held(s).good /\ ~Own(s) /\ AbortThen(s, "idle") /\ UNCHANGED object
       \/ Fault /\ End(s) /\ UNCHANGED <<mpu, object>>
    /\ UNCHANGED <<key, parts, disk, expired, database, sweep, history>>

(* converge_upload: the content is registered under this session's key       *)
(* unless it is registered already.                                          *)
Registers(s) == registered = None /\ registered' = key[s]

(* record_s3_published: the content and the row go in in one transaction.    *)
(* The commit may succeed without the request learning it.                   *)
Record(s) ==
    /\ job[s] = "record"
    /\ \/ /\ Registers(s)
          /\ rows' = [rows EXCEPT ![s] = key[s]]
          /\ \/ Goto(s, "tomb") /\ UNCHANGED mishaps
             \/ Fault /\ End(s)
       \/ registered # None /\ Goto(s, "duplicate") /\ UNCHANGED <<database, mishaps>>
       \/ Fault /\ End(s) /\ UNCHANGED database
    /\ UNCHANGED <<key, bucket, disk, expired, sweep, history>>

(* Whether the object at the final key is the redundant one of a session     *)
(* whose content is registered already: it carries the session's id.         *)
Redundant(s) == Own(s)

DeleteDuplicate(s) ==
    /\ job[s] = "duplicate"
    /\ \/ /\ Redundant(s)
          /\ object' = [object EXCEPT ![key[s]] = NoObject]
          /\ \/ Goto(s, "reuse") /\ UNCHANGED mishaps
             \/ Fault /\ End(s)
       \/ ~Redundant(s) /\ End(s) /\ UNCHANGED <<object, mishaps>>
       \/ Fault /\ End(s) /\ UNCHANGED object
    /\ UNCHANGED <<key, mpu, parts, disk, expired, database, sweep, history>>

RecordReference(s) ==
    /\ job[s] = "reuse"
    /\ \/ rows' = [rows EXCEPT ![s] = registered] /\ Goto(s, "tomb") /\ UNCHANGED mishaps
       \/ Fault /\ End(s) /\ UNCHANGED rows
    /\ UNCHANGED <<key, bucket, disk, expired, registered, sweep, history>>

WriteTombstone(s) ==
    /\ job[s] = "tomb" /\ End(s)
    /\ \/ dir[s] = "ready" /\ tomb' = tomb \cup {s} /\ UNCHANGED mishaps
       \/ dir[s] = "none" /\ UNCHANGED <<tomb, mishaps>>
       \/ Fault /\ UNCHANGED tomb
    /\ UNCHANGED <<key, bucket, anchor, dir, expired, database, sweep, history>>

-----------------------------------------------------------------------------
(* files/abort: the multipart upload first, then the directory.              *)

GiveUp(s) ==
    /\ Usable(s) /\ s \notin tomb
    /\ AbortThen(s, "discard")
    /\ UNCHANGED <<key, parts, object, disk, expired, database, sweep, history>>

Discard(s) ==
    /\ job[s] = "discard" /\ End(s)
    /\ RemoveDir(s)
    /\ orphans' = IF Own(s) /\ rows[s] = None THEN orphans \cup {s} ELSE orphans
    /\ UNCHANGED <<key, bucket, anchor, expired, database, sweep, loose, mishaps>>

-----------------------------------------------------------------------------
(* The sweep.                                                                *)

Sweeping(step, s) == sweep' = [next |-> step, of |-> s]
SweepOn == sweep' = NoSweep

(* A manifest that can be read has taken over from the anchor.               *)
LookAtAnchor(s) ==
    /\ sweep = NoSweep /\ s \in anchor
    /\ IF dir[s] = "ready"
       THEN anchor' = anchor \ {s} /\ UNCHANGED sweep
       ELSE Sweeping("abort", s) /\ UNCHANGED anchor
    /\ UNCHANGED <<key, bucket, dir, tomb, expired, database, job, history, mishaps>>

(* sweep_expired reads the manifest of every directory and removes the ones  *)
(* that have none; the removal is a later step.                              *)
LookAtDirectory(s) ==
    /\ sweep = NoSweep /\ dir[s] = "half"
    /\ Sweeping("drop", s)
    /\ UNCHANGED <<key, bucket, disk, expired, database, job, history, mishaps>>

(* sweep_expired_s3 takes the lock of an expired session.                    *)
LookAtExpired(s) ==
    /\ sweep = NoSweep /\ dir[s] = "ready" /\ s \in expired
    /\ job[s] \in {"idle", "unanchor"}
    /\ Sweeping(IF s \in tomb THEN "remove" ELSE "settle", s)
    /\ UNCHANGED <<key, bucket, disk, expired, database, job, history, mishaps>>

(* abort_until_confirmed.                                                    *)
SweepAborts ==
    LET s == sweep.of
    IN  /\ sweep.next \in {"abort", "settle"}
        /\ \/ /\ mpu' = Closed(s)
              /\ Sweeping(IF sweep.next = "abort" THEN "orphan" ELSE "resolve", s)
              /\ UNCHANGED mishaps
           \/ Fault /\ SweepOn /\ UNCHANGED mpu
        /\ UNCHANGED <<key, parts, object, disk, expired, database, job, history>>

(* Without a manifest nothing proves that the object is not referred to.     *)
SweepOrphan ==
    LET s == sweep.of
    IN  /\ sweep.next = "orphan"
        /\ SweepOn
        /\ \/ Free(s) /\ anchor' = anchor \ {s} /\ RemoveDir(s) /\ UNCHANGED mishaps
           \/ ~Free(s) /\ UNCHANGED <<disk, mishaps>>
           \/ Fault /\ UNCHANGED disk
        /\ UNCHANGED <<key, bucket, expired, database, job, history>>

(* The row of the reserved file id refers to the object at the final key.    *)
RowRefers(s) == rows[s] = key[s]

(* s3_expired_session_ready after the abort: an object of this session that  *)
(* no row refers to is deleted, and the directory goes last.                 *)
SweepResolves ==
    LET s == sweep.of
    IN  /\ sweep.next = "resolve"
        /\ \/ /\ Free(s) \/ (Own(s) /\ RowRefers(s))
              /\ Sweeping("remove", s) /\ UNCHANGED <<object, mishaps>>
           \/ /\ Own(s) /\ ~RowRefers(s)
              /\ object' = [object EXCEPT ![key[s]] = NoObject]
              /\ Sweeping("remove", s) /\ UNCHANGED mishaps
           \/ ~Free(s) /\ ~Own(s) /\ SweepOn /\ UNCHANGED <<object, mishaps>>
           \/ Fault /\ SweepOn /\ UNCHANGED object
        /\ UNCHANGED <<key, mpu, parts, disk, expired, database, job, history>>

SweepRemoves ==
    LET s == sweep.of
    IN  /\ sweep.next = "remove"
        /\ SweepOn
        /\ RemoveDir(s)
        /\ anchor' = anchor \ {s}
        /\ UNCHANGED <<key, bucket, expired, database, job, history, mishaps>>

(* The directory that had no manifest when it was looked at goes, with what  *)
(* has been written into it since, unless a request holds its lock.          *)
SweepDrops ==
    LET s == sweep.of
    IN  /\ sweep.next = "drop"
        /\ SweepOn
        /\ \/ /\ job[s] \in {"idle", "manifest", "unanchor", "undo"}
              /\ RemoveDir(s)
              /\ loose' = IF mpu[s] = "open" /\ s \notin anchor THEN loose \cup {s} ELSE loose
              /\ orphans' = IF Own(s) /\ rows[s] = None THEN orphans \cup {s} ELSE orphans
           \/ /\ job[s] \notin {"idle", "manifest", "unanchor", "undo"}
              /\ UNCHANGED <<dir, tomb, history>>
        /\ UNCHANGED <<key, bucket, anchor, expired, database, job, mishaps>>

(* The file locks go with the process.                                       *)
Crash ==
    /\ Fault
    /\ \E s \in Sessions : job[s] # "idle"
    /\ loose' = loose \cup {s \in Sessions : job[s] = "anchor"}
    /\ job' = [s \in Sessions |-> "idle"] /\ SweepOn
    /\ UNCHANGED <<key, bucket, disk, expired, database, orphans>>

Issue(s) ==
    \/ Create(s) \/ WriteAnchor(s) \/ MakeDirectory(s) \/ WriteManifest(s) \/ Undo(s) \/ RemoveAnchor(s)

Complete(s) ==
    \/ CompleteStarts(s) \/ HeadFinalKey(s) \/ ListParts(s) \/ Assemble(s) \/ PreconditionFailed(s)
    \/ VerifyFinalObject(s) \/ Record(s) \/ DeleteDuplicate(s) \/ RecordReference(s) \/ WriteTombstone(s)

Sweep ==
    \/ \E s \in Sessions : LookAtAnchor(s) \/ LookAtDirectory(s) \/ LookAtExpired(s)
    \/ SweepAborts \/ SweepOrphan \/ SweepResolves \/ SweepRemoves \/ SweepDrops

Next ==
    \/ \E s \in Sessions :
         Issue(s) \/ PartUrls(s) \/ UploadParts(s) \/ Expire(s) \/ Complete(s) \/ GiveUp(s) \/ Discard(s)
    \/ Sweep
    \/ Crash

Spec == Init /\ [][Next]_vars

-----------------------------------------------------------------------------

(* A file row leads to the bytes it stands for: the object that a row's path *)
(* names is in the bucket and is the declared content, whatever requests of  *)
(* other sessions with the same content, the sweep and crashes do.           *)
(* record_and_finish and the sweep delete only what no row refers to.        *)
ReferencedObjectExists ==
    \A s \in Sessions : rows[s] # None => object[rows[s]].good

(* Nothing is left in the bucket that nobody can find again: an open         *)
(* multipart upload has its anchor, its manifest or the request that is      *)
(* creating it, and an object has a row or the session that may still record *)
(* or delete it.  The exceptions are the windows the code leaves open: a     *)
(* crash or a double failure before the anchor is on disk, the sweep taking  *)
(* a directory in the middle of its creation, and a client that gives up     *)
(* after its object was published.                                           *)
BucketIsAccountedFor ==
    /\ \A s \in Sessions :
         mpu[s] = "open" => s \in anchor \/ dir[s] = "ready" \/ job[s] = "anchor" \/ s \in loose
    /\ \A k \in Keys :
         object[k] # NoObject => \/ registered = k
                                \/ dir[object[k].by] = "ready"
                                \/ object[k].by \in anchor \cup orphans
=============================================================================
