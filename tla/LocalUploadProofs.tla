-------------------------- MODULE LocalUploadProofs --------------------------
(***************************************************************************)
(* Uploads to local storage and claims (LocalUpload), for any number of    *)
(* tokens, bodies and requests under way and any number of faults: one     *)
(* file per token, and a file behind every row.                            *)
(***************************************************************************)
EXTENDS LocalUpload, TLAPS

(* What a request may be. *)
Owners == Tokens \cup Claims \cup {None}
SessionFiles == [reserved : 0 .. MaxIds, file : 0 .. MaxIds]
WholeSteps == {"reserve", "open", "body"}
ChunkSteps == {"part", "create", "rename", "assemble", "fill", "verify", "clean", "discard", "lookup", "retomb", "mark"}
PublishSteps == {"converge", "link", "unlink", "check", "commit", "tomb"}
PartSteps == {"part", "create", "rename"}
NamedSteps == (PublishSteps \ {"tomb"}) \cup PartSteps
IdSteps == {"open", "body", "lookup", "assemble", "fill", "verify", "retomb", "clean", "mark"} \cup PublishSteps
Spans == (SUBSET Units) \cup SUBSET SUBSET Units

(* A request, and a write of a session file that its request left behind. *)
PostSteps == {"idle", "claim"} \cup WholeSteps \cup ChunkSteps \cup PublishSteps
Posts == [next : PostSteps, of : Owners,
          id : 0 .. MaxIds, body : Bodies \cup {None}, file : Files \cup {0}, span : Spans]
StateWrites == [next : {"state"}, of : Tokens, was : SessionFiles, now : SessionFiles]

Shaped(w) ==
    /\ w.next = "idle" => w = Idle
    /\ w.next \in WholeSteps => w.of \in Tokens \ Chunked
    /\ w.next \in ChunkSteps => w.of \in Chunked
    /\ w.next \in PublishSteps => w.of \in Tokens
    /\ w.next = "claim" => w.of \in Claims /\ w.id = 0
    /\ w.next \in NamedSteps => w.body \in Bodies
    /\ w.next \in PartSteps => w.span \in SUBSET Units
    /\ w.next \in {"body", "fill"} => w.file \in Files
    /\ w.next \in IdSteps => w.id # 0

LeftOver(w) == w \in StateWrites \/ (w \in Posts /\ Shaped(w) /\ w.next \in {"open", "body", "link", "unlink", "commit"} \cup Tasks)

DiskTypes ==
    /\ session \in [Tokens -> SessionFiles] /\ staging \in [Tokens -> Files \cup {0}]
    /\ store \in [Bodies -> Files \cup {0}] /\ bytes \in [Files -> Bodies \cup {None, "part", "mixed"}]
    /\ parts \in [Chunked -> SUBSET [span : SUBSET Units, body : Bodies]]
    /\ temps \subseteq [of : Chunked, span : SUBSET Units, body : Bodies]

RowTypes ==
    /\ ids \in 0 .. MaxIds /\ registered \in Bodies \cup {None}
    /\ rows \in [FileIds -> [path : Bodies \cup {None}, of : Owners]]

(* A session has one request at a time. *)
JobsGood ==
    /\ job \in [Requests -> Posts] /\ \A r \in Requests : Shaped(job[r])
    /\ \A r, q \in Requests : r # q /\ job[r].of \in Tokens => job[q].of # job[r].of
LatesGood == \A w \in late : LeftOver(w)

LocalTypes == DiskTypes /\ RowTypes /\ JobsGood /\ LatesGood

-----------------------------------------------------------------------------
(* Who has a file id.  The operators take the state as arguments: S is       *)
(* session, R rows, V reverted, n the number of ids drawn.                   *)

Owned(own, n, i, t) == i = 0 \/ (i \in 1 .. n /\ own[i] = t)
Recorded(R, i) == i # 0 => R[i] # NoRow

SessionUse(own, n, S, R, t) ==
    Owned(own, n, S[t].reserved, t) /\ Owned(own, n, S[t].file, t) /\ Recorded(R, S[t].file)

(* An id that a request works with is its session's, unless the session file *)
(* went back to an older one.                                                *)
PostUse(own, n, S, R, V, w) ==
    /\ Owned(own, n, w.id, w.of)
    /\ w.id # 0 => S[w.of].reserved # 0 /\ (w.of \notin V => w.id = S[w.of].reserved)
    /\ w.next \in {"tomb", "retomb", "clean", "mark"} => R[w.id] # NoRow

StateUse(own, n, R, w) ==
    /\ Owned(own, n, w.now.reserved, w.of) /\ Owned(own, n, w.now.file, w.of)
    /\ w.now.reserved # 0 /\ (w.was.reserved # 0 => w.now.reserved = w.was.reserved)
    /\ Recorded(R, w.now.file)

LateUse(own, n, S, R, V, w) ==
    IF w \in StateWrites THEN StateUse(own, n, R, w) ELSE PostUse(own, n, S, R, V, w)

RowUse(own, n, S, R, V, i) ==
    R[i] # NoRow =>
        /\ R[i].of \in Tokens \cup Claims /\ i <= n /\ own[i] = R[i].of
        /\ R[i].of \in Tokens \ V => i = S[R[i].of].reserved

AnswerUse(R, a) == a \in (Tokens \cup Claims) \X FileIds /\ R[a[2]].of = a[1]

ClaimedOnce(R) == \A i, j \in FileIds : R[i].of \in Claims /\ R[i].of = R[j].of => i = j

IdsOwned(own, n) ==
    /\ \A t \in Tokens : SessionUse(own, n, session, rows, t)
    /\ \A r \in Requests : PostUse(own, n, session, rows, reverted, job[r])
    /\ \A w \in late : LateUse(own, n, session, rows, reverted, w)
    /\ \A i \in FileIds : RowUse(own, n, session, rows, reverted, i)
    /\ ClaimedOnce(rows)
    /\ \A a \in answers : AnswerUse(rows, a)

IdInv == \E own \in [FileIds -> Owners] : IdsOwned(own, ids)

-----------------------------------------------------------------------------
(* What the files hold: a body that something refers to is at its path.      *)

Good(O, P, B, b) == b \in O \/ (P[b] # 0 /\ B[P[b]] = b)

StagedUse(who, G, t) == G[t] = 0 \/ who[G[t]] = t
PostFile(who, w) == w.file = 0 \/ who[w.file] = w.of
LateFile(who, w) == w \in Posts /\ w.next \in {"fill", "body"} => who[w.file] = w.of

PostBytes(O, P, B, G, c, w) ==
    /\ w.next = "body" => B[w.file] \in {"part", "mixed"}
    /\ w.next \in {"converge", "link"} /\ w.of \notin Chunked => G[w.of] = 0 \/ B[G[w.of]] \in {w.body, "mixed"}
    /\ w.next \in {"unlink", "commit"} => Good(O, P, B, w.body)
    /\ w.next = "check" => P[w.body] # 0
    /\ w.next = "claim" => c # None

LateBytes(O, P, B, w) == w.next = "commit" => Good(O, P, B, w.body)

RowBytes(O, P, B, R, i) == R[i] # NoRow => R[i].path \in Bodies /\ Good(O, P, B, R[i].path)

FilesHeld(who) ==
    /\ \A t \in Tokens : StagedUse(who, staging, t)
    /\ \A r \in Requests : PostFile(who, job[r]) /\ PostBytes(overwritten, store, bytes, staging, registered, job[r])
    /\ \A w \in late : LateFile(who, w) /\ LateBytes(overwritten, store, bytes, w)
    /\ \A i \in FileIds : RowBytes(overwritten, store, bytes, rows, i)
    /\ registered # None => Good(overwritten, store, bytes, registered)

FileInv == \E who \in [Files -> Tokens \cup {None}] : FilesHeld(who)

LocalInv == LocalTypes /\ IdInv /\ FileInv

LEMMA FilesAreNumbers == TokensAndBodies => 0 \notin Files /\ 0 \notin FileIds /\ Files \subseteq Nat /\ FileIds \subseteq 0 .. MaxIds
  BY DEF TokensAndBodies, Files, FileIds

LEMMA IdlePost == TokensAndBodies => Idle \in Posts /\ Shaped(Idle) /\ Idle.of = None /\ Idle.id = 0 /\ Idle.file = 0 /\ Idle.next = "idle"
  BY DEF TokensAndBodies, Idle, Posts, PostSteps, Shaped, Owners, Spans, WholeSteps, ChunkSteps, PublishSteps, NamedSteps, PartSteps, IdSteps

LEMMA IdleUse ==
    ASSUME NEW own, NEW n, NEW S, NEW R, NEW V, NEW who, NEW O, NEW P, NEW B, NEW G, NEW c
    PROVE  PostUse(own, n, S, R, V, Idle) /\ PostFile(who, Idle) /\ PostBytes(O, P, B, G, c, Idle)
  BY DEF Idle, PostUse, PostFile, PostBytes, Owned

(* A request takes a step: v is what it does next. *)
LEMMA PostStep ==
    ASSUME JobsGood, NEW r \in Requests, NEW v \in Posts, Shaped(v), job' = [job EXCEPT ![r] = v],
           v.of = job[r].of \/ v.of \notin Tokens \/ ~Locked(v.of)
    PROVE  JobsGood' /\ job'[r] = v /\ \A q \in Requests : q # r => job'[q] = job[q]
  <1>1. job'[r] = v /\ \A q \in Requests : q # r => job'[q] = job[q]
    BY DEF JobsGood
  <1>2. job' \in [Requests -> Posts] /\ \A q \in Requests : Shaped(job'[q])
    BY <1>1 DEF JobsGood
  <1>3. \A p, q \in Requests : p # q /\ job'[p].of \in Tokens => job'[q].of # job'[p].of
    BY <1>1 DEF JobsGood, Locked
  <1>4. \A q \in Requests : Shaped(job[q])' <=> Shaped(job'[q])
    BY DEF Shaped
  <1> QED BY <1>1, <1>2, <1>3, <1>4 DEF JobsGood

(* A request with an id is a session's. *)
LEMMA IdOfToken ==
    ASSUME TokensAndBodies, NEW w \in Posts, Shaped(w), w.id # 0
    PROVE  w.of \in Tokens \/ w.next \in {"idle"}
  BY DEF TokensAndBodies, Shaped, Posts, PostSteps, WholeSteps, ChunkSteps, PublishSteps

(* A step in which an owner of the ids accounts for all that changes. *)
LEMMA IdsStep ==
    ASSUME TokensAndBodies, LocalTypes, NEW own, NEW n, IdsOwned(own, n), reverted \subseteq reverted',
           \A t \in Tokens :
              /\ SessionUse(own, n, session', rows', t)
              /\ \/ session'[t].reserved = session[t].reserved \/ session[t].reserved = 0
                 \/ t \in reverted' /\ session'[t].reserved # 0,
           \A i \in FileIds :
              rows'[i] = rows[i] \/ (rows[i] = NoRow /\ RowUse(own, n, session', rows', reverted', i)),
           ClaimedOnce(rows'),
           \A r \in Requests : job'[r] = job[r] \/ PostUse(own, n, session', rows', reverted', job'[r]),
           \A w \in late' : w \in late \/ LateUse(own, n, session', rows', reverted', w),
           \A a \in answers' : a \in answers \/ AnswerUse(rows', a)
    PROVE  IdsOwned(own, n)'
  <1>0. \A i \in FileIds : rows[i] # NoRow => rows'[i] = rows[i]
    OBVIOUS
  <1>1. ASSUME NEW w, w \in Posts, Shaped(w), PostUse(own, n, session, rows, reverted, w)
        PROVE  PostUse(own, n, session', rows', reverted', w)
    <2>1. w.id \in FileIds \cup {0}
      BY <1>1 DEF TokensAndBodies, Posts, FileIds
    <2>2. w.id # 0 => w.of \in Tokens
      BY <1>1, IdOfToken, IdlePost DEF Shaped
    <2>3. w.next \in {"tomb", "retomb", "clean", "mark"} => w.id # 0
      BY <1>1 DEF Shaped, IdSteps, PublishSteps
    <2>4. w.id # 0 => session'[w.of].reserved # 0 /\ (w.of \notin reverted' => w.id = session'[w.of].reserved)
      BY <1>1, <2>2 DEF PostUse
    <2> QED BY <1>0, <1>1, <2>1, <2>3, <2>4 DEF PostUse
  <1>2. ASSUME NEW w, w \in StateWrites, StateUse(own, n, rows, w)
        PROVE  StateUse(own, n, rows', w)
    <2>1. w.now.file \in FileIds \cup {0}
      BY <1>2 DEF TokensAndBodies, StateWrites, SessionFiles, FileIds
    <2> QED BY <1>0, <1>2, <2>1 DEF StateUse, Recorded
  <1>3. \A w \in late : LateUse(own, n, session', rows', reverted', w)
    <2> SUFFICES ASSUME NEW w \in late PROVE LateUse(own, n, session', rows', reverted', w)
      OBVIOUS
    <2>1. LateUse(own, n, session, rows, reverted, w) /\ LeftOver(w)
      BY DEF IdsOwned, LocalTypes, LatesGood
    <2> QED BY <1>1, <1>2, <2>1 DEF LateUse, LeftOver
  <1>4. \A i \in FileIds : RowUse(own, n, session', rows', reverted', i)
    <2> SUFFICES ASSUME NEW i \in FileIds, rows'[i] = rows[i] PROVE RowUse(own, n, session', rows', reverted', i)
      OBVIOUS
    <2>1. RowUse(own, n, session, rows, reverted, i)
      BY DEF IdsOwned
    <2>2. i # 0
      BY FilesAreNumbers
    <2> QED BY <2>1, <2>2 DEF RowUse
  <1>5. \A r \in Requests : PostUse(own, n, session', rows', reverted', job'[r])
    <2> SUFFICES ASSUME NEW r \in Requests, job'[r] = job[r] PROVE PostUse(own, n, session', rows', reverted', job[r])
      OBVIOUS
    <2>1. job[r] \in Posts /\ Shaped(job[r]) /\ PostUse(own, n, session, rows, reverted, job[r])
      BY DEF IdsOwned, LocalTypes, JobsGood
    <2> QED BY <1>1, <2>1
  <1>6. \A a \in answers' : AnswerUse(rows', a)
    <2> SUFFICES ASSUME NEW a \in answers PROVE AnswerUse(rows', a)
      OBVIOUS
    <2>1. AnswerUse(rows, a)
      BY DEF IdsOwned
    <2>2. rows[a[2]] # NoRow
      BY <2>1 DEF AnswerUse, NoRow, TokensAndBodies
    <2> QED BY <1>0, <2>1, <2>2 DEF AnswerUse
  <1> QED BY <1>3, <1>4, <1>5, <1>6 DEF IdsOwned

(* The next id is nobody's yet; let it be t's. *)
LEMMA IdsGrow ==
    ASSUME TokensAndBodies, LocalTypes, NEW own \in [FileIds -> Owners], IdsOwned(own, ids), Draw, NEW t \in Owners
    PROVE  \E more \in [FileIds -> Owners] :
              IdsOwned(more, ids + 1) /\ more[ids + 1] = t /\ ids + 1 \in FileIds
  <1>1. ids \in Nat /\ ids + 1 \in FileIds /\ MaxIds \in Nat
    BY DEF Draw, LocalTypes, RowTypes, TokensAndBodies, FileIds
  <1> DEFINE more == [own EXCEPT ![ids + 1] = t]
  <1>2. more \in [FileIds -> Owners] /\ more[ids + 1] = t /\ \A i \in FileIds : i # ids + 1 => more[i] = own[i]
    BY <1>1
  <1>3. \A i \in 1 .. ids : more[i] = own[i]
    BY <1>1, <1>2 DEF FileIds
  <1> HIDE DEF more
  <1>4. \A i, u : Owned(own, ids, i, u) => Owned(more, ids + 1, i, u)
    BY <1>1, <1>3 DEF Owned
  <1>5. \A u \in Tokens : SessionUse(more, ids + 1, session, rows, u)
    BY <1>4 DEF IdsOwned, SessionUse
  <1>6. \A r \in Requests : PostUse(more, ids + 1, session, rows, reverted, job[r])
    BY <1>4 DEF IdsOwned, PostUse
  <1>7. \A w \in late : LateUse(more, ids + 1, session, rows, reverted, w)
    BY <1>4 DEF IdsOwned, LateUse, PostUse, StateUse
  <1>8. \A i \in FileIds : RowUse(more, ids + 1, session, rows, reverted, i)
    <2> SUFFICES ASSUME NEW i \in FileIds PROVE RowUse(more, ids + 1, session, rows, reverted, i)
      OBVIOUS
    <2>1. RowUse(own, ids, session, rows, reverted, i) /\ i \in Nat
      BY <1>1 DEF IdsOwned, FileIds
    <2> QED BY <1>1, <1>2, <2>1 DEF RowUse
  <1>9. IdsOwned(more, ids + 1)
    BY <1>5, <1>6, <1>7, <1>8 DEF IdsOwned
  <1> QED BY <1>1, <1>2, <1>9

(* The file at t's temporary path is left alone, or spoilt by a late task. *)
Spoils(t) ==
    /\ \A f \in Files : bytes'[f] \in {bytes[f], "mixed"}
    /\ staging'[t] \in {0, staging[t]} \/ (staging'[t] \in Files /\ bytes'[staging'[t]] = "mixed")

LEMMA NothingSpoilt ==
    ASSUME NEW t, UNCHANGED bytes, staging'[t] \in {0, staging[t]}
    PROVE  Spoils(t)
  BY DEF Spoils

(* A step that touches only the files of the session t. *)
LEMMA FilesStep ==
    ASSUME TokensAndBodies, LocalTypes, NEW who, FilesHeld(who), NEW t \in Tokens,
           \A u \in Tokens : u # t => staging'[u] = staging[u],
           StagedUse(who, staging', t),
           \A f \in Files : who[f] # t => bytes'[f] = bytes[f],
           \A b \in Bodies : Good(overwritten, store, bytes, b) => Good(overwritten', store', bytes', b),
           \A b \in Bodies : store[b] # 0 => store'[b] # 0,
           \A r \in Requests :
              \/ /\ job'[r] = job[r]
                 /\ job[r].of # t \/ t \in Chunked \/ Spoils(t)
              \/ PostFile(who, job'[r]) /\ PostBytes(overwritten', store', bytes', staging', registered', job'[r]),
           \A w \in late' : w \in late \/ (LateFile(who, w) /\ LateBytes(overwritten', store', bytes', w)),
           \A i \in FileIds : rows'[i] = rows[i] \/ RowBytes(overwritten', store', bytes', rows', i),
           registered' = registered \/ (registered = None /\ registered' # None /\ Good(overwritten', store', bytes', registered'))
    PROVE  FilesHeld(who)'
  <1>1. \A u \in Tokens : StagedUse(who, staging', u)
    BY DEF FilesHeld, StagedUse
  <1>2. \A i \in FileIds : RowBytes(overwritten', store', bytes', rows', i)
    BY DEF FilesHeld, RowBytes
  <1>3. registered' # None => Good(overwritten', store', bytes', registered')
    BY DEF FilesHeld, LocalTypes, RowTypes
  <1>4. \A w \in late' : LateFile(who, w) /\ LateBytes(overwritten', store', bytes', w)
    <2> SUFFICES ASSUME NEW w \in late PROVE LateFile(who, w) /\ LateBytes(overwritten', store', bytes', w)
      OBVIOUS
    <2>1. LateFile(who, w) /\ LateBytes(overwritten, store, bytes, w) /\ LeftOver(w)
      BY DEF FilesHeld, LocalTypes, LatesGood
    <2>2. w.next = "commit" => w.body \in Bodies
      BY <2>1 DEF LeftOver, Shaped, NamedSteps, PublishSteps, StateWrites
    <2> QED BY <2>1, <2>2 DEF LateBytes
  <1>5. ASSUME NEW r \in Requests
        PROVE  PostFile(who, job'[r]) /\ PostBytes(overwritten', store', bytes', staging', registered', job'[r])
    <2> SUFFICES ASSUME job'[r] = job[r],
                        job[r].of # t \/ t \in Chunked \/ Spoils(t)
                 PROVE  PostFile(who, job[r]) /\ PostBytes(overwritten', store', bytes', staging', registered', job[r])
      OBVIOUS
    <2> DEFINE w == job[r]
    <2>1. w \in Posts /\ Shaped(w) /\ PostFile(who, w) /\ PostBytes(overwritten, store, bytes, staging, registered, w)
      BY DEF FilesHeld, LocalTypes, JobsGood
    <2>2. \A u \in Tokens : staging[u] = 0 \/ (staging[u] \in Files /\ who[staging[u]] = u)
      BY DEF FilesHeld, StagedUse, LocalTypes, DiskTypes
    <2> HIDE DEF w
    <2>3. w.next = "body" => bytes'[w.file] \in {"part", "mixed"}
      <3> SUFFICES ASSUME w.next = "body" PROVE bytes'[w.file] \in {"part", "mixed"}
        OBVIOUS
      <3>1. w.file \in Files /\ w.of \in Tokens \ Chunked /\ bytes[w.file] \in {"part", "mixed"} /\ w.file # 0
        BY <2>1, FilesAreNumbers DEF Shaped, WholeSteps, PostBytes
      <3> QED BY <2>1, <3>1 DEF PostFile, Spoils, w
    <2>4. w.next \in {"converge", "link"} /\ w.of \notin Chunked =>
             staging'[w.of] = 0 \/ bytes'[staging'[w.of]] \in {w.body, "mixed"}
      <3> SUFFICES ASSUME w.next \in {"converge", "link"}, w.of \notin Chunked
                   PROVE  staging'[w.of] = 0 \/ bytes'[staging'[w.of]] \in {w.body, "mixed"}
        OBVIOUS
      <3>1. w.of \in Tokens /\ (staging[w.of] = 0 \/ bytes[staging[w.of]] \in {w.body, "mixed"})
        BY <2>1 DEF Shaped, PublishSteps, PostBytes
      <3> QED BY <2>2, <3>1 DEF Spoils, w
    <2>5. w.next \in {"unlink", "commit"} => Good(overwritten', store', bytes', w.body)
      BY <2>1 DEF Shaped, NamedSteps, PublishSteps, PostBytes
    <2>6. w.next = "check" => store'[w.body] # 0
      BY <2>1 DEF Shaped, NamedSteps, PublishSteps, PostBytes
    <2>7. w.next = "claim" => registered' # None
      BY <2>1 DEF PostBytes
    <2> QED BY <2>1, <2>3, <2>4, <2>5, <2>6, <2>7 DEF PostBytes, w
  <1> QED BY <1>1, <1>2, <1>3, <1>4, <1>5 DEF FilesHeld

(* A step that touches no file. *)
LEMMA FilesQuiet ==
    ASSUME NEW who, FilesHeld(who), UNCHANGED <<staging, bytes, store, overwritten>>,
           \A r \in Requests : job'[r] = job[r]
              \/ (PostFile(who, job'[r]) /\ PostBytes(overwritten, store, bytes, staging, registered', job'[r])),
           \A w \in late' : w \in late \/ (LateFile(who, w) /\ LateBytes(overwritten, store, bytes, w)),
           \A i \in FileIds : rows'[i] = rows[i] \/ RowBytes(overwritten, store, bytes, rows', i),
           registered' = registered \/ (registered = None /\ registered' # None /\ Good(overwritten, store, bytes, registered'))
    PROVE  FilesHeld(who)'
  <1>1. \A r \in Requests : PostFile(who, job'[r]) /\ PostBytes(overwritten, store, bytes, staging, registered', job'[r])
    BY DEF FilesHeld, PostBytes
  <1> QED BY <1>1 DEF FilesHeld, RowBytes

(* A file that nothing has is nobody's; let it be t's. *)
LEMMA FilesTake ==
    ASSUME TokensAndBodies, LocalTypes, NEW who \in [Files -> Tokens \cup {None}], FilesHeld(who), NEW t \in Tokens,
           NEW f \in Unused
    PROVE  \E holder \in [Files -> Tokens \cup {None}] : FilesHeld(holder) /\ holder[f] = t
  <1>1. f \in Files /\ \A u \in Tokens : staging[u] # f
    BY DEF Unused
  <1>2. (\A r \in Requests : job[r].file # f) /\ \A w \in late : w.next \in {"fill", "body"} => w.file # f
    BY DEF Unused
  <1> DEFINE holder == [who EXCEPT ![f] = t]
  <1>3. holder \in [Files -> Tokens \cup {None}] /\ holder[f] = t /\ \A g \in Files : g # f => holder[g] = who[g]
    BY <1>1
  <1> HIDE DEF holder
  <1>4. \A u \in Tokens : StagedUse(holder, staging, u)
    BY <1>1, <1>3 DEF FilesHeld, StagedUse, LocalTypes, DiskTypes
  <1>5. \A r \in Requests : PostFile(holder, job[r])
    <2> SUFFICES ASSUME NEW r \in Requests PROVE PostFile(holder, job[r])
      OBVIOUS
    <2>1. job[r].file \in Files \cup {0} /\ PostFile(who, job[r])
      BY DEF FilesHeld, LocalTypes, JobsGood, Posts
    <2> QED BY <1>2, <1>3, <2>1 DEF PostFile
  <1>6. \A w \in late : LateFile(holder, w)
    <2> SUFFICES ASSUME NEW w \in late, w \in Posts, w.next \in {"fill", "body"} PROVE holder[w.file] = w.of
      BY DEF LateFile
    <2>1. LeftOver(w) /\ LateFile(who, w)
      BY DEF FilesHeld, LocalTypes, LatesGood
    <2>2. w.file \in Files
      BY <2>1 DEF LeftOver, Shaped, StateWrites
    <2> QED BY <1>2, <1>3, <2>1, <2>2 DEF LateFile
  <1> QED BY <1>3, <1>4, <1>5, <1>6 DEF FilesHeld

(* A request takes a step and leaves disk and database alone. *)
LEMMA PostMoves ==
    ASSUME TokensAndBodies, LocalInv, NEW r \in Requests, NEW v \in Posts, Shaped(v), job' = [job EXCEPT ![r] = v],
           v.of = job[r].of \/ v.of \notin Tokens \/ ~Locked(v.of),
           UNCHANGED <<session, staging, store, bytes, overwritten, reverted, parts, temps, ids, rows, registered, late>>,
           \A own \in [FileIds -> Owners] : IdsOwned(own, ids) => PostUse(own, ids, session, rows, reverted, v),
           \A who \in [Files -> Tokens \cup {None}] :
              FilesHeld(who) => PostFile(who, v) /\ PostBytes(overwritten, store, bytes, staging, registered, v),
           \A a \in answers' : a \in answers \/ AnswerUse(rows, a)
    PROVE  LocalInv'
  <1>1. LocalTypes
    BY DEF LocalInv
  <1>2. JobsGood' /\ job'[r] = v /\ \A q \in Requests : q # r => job'[q] = job[q]
    BY <1>1, PostStep DEF LocalTypes
  <1>3. LocalTypes'
    BY <1>1, <1>2 DEF LocalTypes, DiskTypes, RowTypes, LatesGood
  <1>4. IdInv'
    <2>1. PICK own \in [FileIds -> Owners] : IdsOwned(own, ids)
      BY DEF LocalInv, IdInv
    <2>2. PostUse(own, ids, session, rows, reverted, v)
      BY <2>1
    <2>3. /\ \A t \in Tokens : SessionUse(own, ids, session, rows, t)
          /\ ClaimedOnce(rows)
      BY <2>1 DEF IdsOwned
    <2>4. IdsOwned(own, ids)'
      BY <1>1, <1>2, <2>1, <2>2, <2>3, IdsStep
    <2> QED BY <2>4 DEF IdInv
  <1>5. FileInv'
    <2>1. PICK who \in [Files -> Tokens \cup {None}] : FilesHeld(who)
      BY DEF LocalInv, FileInv
    <2>2. FilesHeld(who)'
      BY <1>2, <2>1, FilesQuiet
    <2> QED BY <2>2 DEF FileInv
  <1> QED BY <1>3, <1>4, <1>5 DEF LocalInv

(* A step that changes no request: only answers. *)
LEMMA OnlyAnswers ==
    ASSUME TokensAndBodies, LocalInv,
           UNCHANGED <<job, session, staging, store, bytes, overwritten, reverted, parts, temps, ids, rows, registered, late>>,
           \A a \in answers' : a \in answers \/ AnswerUse(rows, a)
    PROVE  LocalInv'
  <1>1. LocalTypes'
    BY DEF LocalInv, LocalTypes, DiskTypes, RowTypes, LatesGood, JobsGood
  <1>2. IdInv'
    <2>1. PICK own \in [FileIds -> Owners] : IdsOwned(own, ids)
      BY DEF LocalInv, IdInv
    <2>2. IdsOwned(own, ids)'
      BY <2>1 DEF IdsOwned
    <2> QED BY <2>2 DEF IdInv
  <1>3. FileInv'
    <2>1. PICK who \in [Files -> Tokens \cup {None}] : FilesHeld(who)
      BY DEF LocalInv, FileInv
    <2>2. FilesHeld(who)'
      BY <2>1, FilesQuiet
    <2> QED BY <2>2 DEF FileInv
  <1> QED BY <1>1, <1>2, <1>3 DEF LocalInv

(* A request with these fields; the provers need to be told what the update  *)
(* of several fields at once makes of it.                                    *)
Post(k, t, i, b, f, q) == [next |-> k, of |-> t, id |-> i, body |-> b, file |-> f, span |-> q]

-----------------------------------------------------------------------------

(* What a request is after the change of some of its fields. *)
LEMMA PostOf ==
    ASSUME TokensAndBodies, NEW k \in PostSteps, NEW t \in Owners, NEW i \in 0 .. MaxIds, NEW b \in Bodies \cup {None},
           NEW f \in Files \cup {0}, NEW q \in Spans
    PROVE  Post(k, t, i, b, f, q) \in Posts
  BY DEF Posts, PostSteps, Post

LEMMA PostFields ==
    ASSUME NEW k, NEW t, NEW i, NEW b, NEW f, NEW q, NEW v, v = Post(k, t, i, b, f, q)
    PROVE  v.next = k /\ v.of = t /\ v.id = i /\ v.body = b /\ v.file = f /\ v.span = q
  BY DEF Post

LEMMA PostParts ==
    ASSUME NEW w \in Posts
    PROVE  /\ w = Post(w.next, w.of, w.id, w.body, w.file, w.span)
           /\ w.next \in PostSteps /\ w.of \in Owners /\ w.id \in 0 .. MaxIds /\ w.body \in Bodies \cup {None}
           /\ w.file \in Files \cup {0} /\ w.span \in Spans
  BY DEF Posts, PostSteps, Post

(* What a new request may be. *)
Fresh(k, t, i, b) ==
    \/ k = "reserve" /\ t \in Tokens \ Chunked /\ i = 0
    \/ k = "discard" /\ t \in Chunked /\ i = 0
    \/ k = "lookup" /\ t \in Chunked /\ i # 0 /\ i = session[t].reserved
    \/ k = "part" /\ t \in Chunked /\ b \in Bodies /\ i = 0
    \/ k = "claim" /\ t \in Claims /\ i = 0

LEMMA FreshPost ==
    ASSUME TokensAndBodies, LocalInv, NEW r \in Requests, NEW k, NEW t, NEW i \in 0 .. MaxIds,
           NEW b \in Bodies \cup {None}, NEW q \in SUBSET Units,
           job' = [job EXCEPT ![r] = Post(k, t, i, b, 0, q)], Fresh(k, t, i, b),
           t \in Claims \/ ~Locked(t), t \in Claims => registered # None,
           UNCHANGED <<session, staging, store, bytes, overwritten, reverted, parts, temps, ids, rows, registered, late,
                       answers>>
    PROVE  LocalInv'
  <1> DEFINE v == Post(k, t, i, b, 0, q)
  <1>0. v.next = k /\ v.of = t /\ v.id = i /\ v.body = b /\ v.file = 0 /\ v.span = q
    BY PostFields
  <1>1. v \in Posts
    BY PostOf DEF Fresh, PostSteps, WholeSteps, ChunkSteps, Owners, Spans, TokensAndBodies
  <1>2. Shaped(v)
    BY <1>0 DEF Fresh, Shaped, WholeSteps, ChunkSteps, PublishSteps, NamedSteps, PartSteps, IdSteps, TokensAndBodies
  <1>3. v.of \notin Tokens \/ ~Locked(v.of)
    BY <1>0 DEF Fresh, TokensAndBodies
  <1>4. \A own \in [FileIds -> Owners] : IdsOwned(own, ids) => PostUse(own, ids, session, rows, reverted, v)
    BY <1>0 DEF IdsOwned, SessionUse, PostUse, Owned, Fresh, TokensAndBodies
  <1>5. \A who \in [Files -> Tokens \cup {None}] : PostFile(who, v) /\ PostBytes(overwritten, store, bytes, staging, registered, v)
    BY <1>0 DEF Fresh, PostFile, PostBytes, TokensAndBodies
  <1> HIDE DEF v
  <1> QED BY <1>1, <1>2, <1>3, <1>4, <1>5, PostMoves DEF v

(* The id of a tombstone leads to a row of its session. *)
LEMMA TombAnswer ==
    ASSUME TokensAndBodies, LocalInv, NEW t \in Tokens, session[t].file # 0
    PROVE  AnswerUse(rows, <<t, session[t].file>>)
  <1>1. PICK own \in [FileIds -> Owners] : IdsOwned(own, ids)
    BY DEF LocalInv, IdInv
  <1>2. session[t].file \in FileIds
    BY DEF LocalInv, LocalTypes, DiskTypes, SessionFiles, FileIds, TokensAndBodies
  <1>3. own[session[t].file] = t /\ rows[session[t].file] # NoRow
    BY <1>1 DEF IdsOwned, SessionUse, Owned, Recorded
  <1>4. rows[session[t].file].of = t
    BY <1>1, <1>2, <1>3 DEF IdsOwned, RowUse
  <1> QED BY <1>2, <1>4 DEF AnswerUse

LEMMA StartKeeps ==
    ASSUME TokensAndBodies, LocalInv, NEW r \in Requests, NEW t \in Tokens, Start(r, t)
    PROVE  LocalInv'
  <1>1. CASE session[t].file # 0
    BY <1>1, TombAnswer, OnlyAnswers DEF Start, Answer, disk, database, folder
  <1>2. CASE session[t].file = 0
    <2>1. [Idle EXCEPT !.next = "reserve", !.of = t] =
             Post("reserve", t, 0, None, 0, {})
      <3> DEFINE c1 == [Idle EXCEPT !.next = "reserve"]
      <3>1. c1 = Post("reserve", None, 0, None, 0, {})
        BY DEF Idle, Post
      <3> HIDE DEF c1
      <3>2. [c1 EXCEPT !.of = t] = Post("reserve", t, 0, None, 0, {})
        BY <3>1 DEF Post
      <3> QED BY <3>2 DEF c1
    <2> QED BY <1>2, <2>1, FreshPost DEF Start, Fresh, disk, database, folder, TokensAndBodies
  <1> QED BY <1>1, <1>2

LEMMA PartPost ==
    ASSUME NEW t, NEW q, NEW b
    PROVE  [Idle EXCEPT !.next = "part", !.of = t, !.span = q, !.body = b] = Post("part", t, 0, b, 0, q)
  <1> DEFINE c1 == [Idle EXCEPT !.next = "part"]
  <1>1. c1 = Post("part", None, 0, None, 0, {})
    BY DEF Idle, Post
  <1> HIDE DEF c1
  <1> DEFINE c2 == [c1 EXCEPT !.of = t]
  <1>2. c2 = Post("part", t, 0, None, 0, {})
    BY <1>1 DEF Post
  <1> HIDE DEF c2
  <1> DEFINE c3 == [c2 EXCEPT !.span = q]
  <1>3. c3 = Post("part", t, 0, None, 0, q)
    BY <1>2 DEF Post
  <1> HIDE DEF c3
  <1>4. [c3 EXCEPT !.body = b] = Post("part", t, 0, b, 0, q)
    BY <1>3 DEF Post
  <1> QED BY <1>4 DEF c1, c2, c3

LEMMA PutChunkKeeps ==
    ASSUME TokensAndBodies, LocalInv, NEW r \in Requests, NEW t \in Chunked, PutChunk(r, t)
    PROVE  LocalInv'
  <1>1. PICK q \in SUBSET Units \ {{}}, b \in Bodies :
          job' = [job EXCEPT ![r] = [Idle EXCEPT !.next = "part", !.of = t, !.span = q, !.body = b]]
    BY DEF PutChunk
  <1>2. [Idle EXCEPT !.next = "part", !.of = t, !.span = q, !.body = b] = Post("part", t, 0, b, 0, q)
    BY PartPost, Zenon
  <1>3. job' = [job EXCEPT ![r] = Post("part", t, 0, b, 0, q)]
    BY <1>1, <1>2
  <1>4. UNCHANGED <<session, staging, store, bytes, overwritten, reverted, parts, temps, ids, rows, registered, late, answers>>
    BY DEF PutChunk, disk, database, folder
  <1>5. q \in SUBSET Units /\ 0 \in 0 .. MaxIds /\ ~Locked(t) /\ Fresh("part", t, 0, b) /\ t \notin Claims
    BY DEF PutChunk, TokensAndBodies, Fresh
  <1> QED BY <1>3, <1>4, <1>5, FreshPost

LEMMA CompleteKeeps ==
    ASSUME TokensAndBodies, LocalInv, NEW r \in Requests, NEW t \in Chunked, CompleteUpload(r, t)
    PROVE  LocalInv'
  <1>1. CASE session[t].file # 0
    BY <1>1, TombAnswer, OnlyAnswers DEF CompleteUpload, Answer, disk, database, folder, TokensAndBodies
  <1>2. CASE session[t].file = 0
    <2>1. [Idle EXCEPT !.next = "lookup", !.of = t, !.id = session[t].reserved] =
             Post("lookup", t, session[t].reserved, None, 0, {})
      
      <3> DEFINE c1 == [Idle EXCEPT !.next = "lookup"]
      <3>1. c1 = Post("lookup", None, 0, None, 0, {})
        BY DEF Idle, Post
      <3> HIDE DEF c1
      <3> DEFINE c2 == [c1 EXCEPT !.of = t]
      <3>2. c2 = Post("lookup", t, 0, None, 0, {})
        BY <3>1 DEF Post
      <3> HIDE DEF c2
      <3>3. [c2 EXCEPT !.id = session[t].reserved] = Post("lookup", t, session[t].reserved, None, 0, {})
        BY <3>2 DEF Post
      <3> QED BY <3>3 DEF c1, c2
    <2>2. session[t].reserved \in 0 .. MaxIds /\ session[t].reserved # 0 /\ t \in Tokens
      BY DEF LocalInv, LocalTypes, DiskTypes, SessionFiles, CompleteUpload, Serves, TokensAndBodies
    <2> QED BY <1>2, <2>1, <2>2, FreshPost DEF CompleteUpload, Fresh, disk, database, folder, TokensAndBodies
  <1> QED BY <1>1, <1>2

LEMMA AbortKeeps ==
    ASSUME TokensAndBodies, LocalInv, NEW r \in Requests, NEW t \in Chunked, AbortUpload(r, t)
    PROVE  LocalInv'
  <1>1. [Idle EXCEPT !.next = "discard", !.of = t] =
           Post("discard", t, 0, None, 0, {})
    <2> DEFINE c1 == [Idle EXCEPT !.next = "discard"]
    <2>1. c1 = Post("discard", None, 0, None, 0, {})
      BY DEF Idle, Post
    <2> HIDE DEF c1
    <2>2. [c1 EXCEPT !.of = t] = Post("discard", t, 0, None, 0, {})
      BY <2>1 DEF Post
    <2> QED BY <2>2 DEF c1
  <1>2. job' = [job EXCEPT ![r] = Post("discard", t, 0, None, 0, {})]
    BY <1>1 DEF AbortUpload
  <1>3. UNCHANGED <<session, staging, store, bytes, overwritten, reverted, parts, temps, ids, rows, registered, late, answers>>
    BY DEF AbortUpload, disk, database, folder
  <1>4. {} \in SUBSET Units /\ 0 \in 0 .. MaxIds /\ ~Locked(t) /\ Fresh("discard", t, 0, None) /\ t \notin Claims
    BY DEF AbortUpload, TokensAndBodies, Fresh
  <1> QED BY <1>2, <1>3, <1>4, FreshPost

LEMMA StartClaimKeeps ==
    ASSUME TokensAndBodies, LocalInv, NEW r \in Requests, NEW c \in Claims, StartClaim(r, c)
    PROVE  LocalInv'
  <1>1. CASE Claimed(c) # {}
    <2>1. PICK i \in Claimed(c) : Answer(c, i)
      BY <1>1 DEF StartClaim
    <2>2. AnswerUse(rows, <<c, i>>)
      BY <2>1 DEF AnswerUse, Claimed
    <2> QED BY <1>1, <2>1, <2>2, OnlyAnswers DEF StartClaim, Answer, disk, database, folder
  <1>2. CASE Claimed(c) = {}
    <2>1. [Idle EXCEPT !.next = "claim", !.of = c] =
             Post("claim", c, 0, None, 0, {})
      <3> DEFINE c1 == [Idle EXCEPT !.next = "claim"]
      <3>1. c1 = Post("claim", None, 0, None, 0, {})
        BY DEF Idle, Post
      <3> HIDE DEF c1
      <3>2. [c1 EXCEPT !.of = c] = Post("claim", c, 0, None, 0, {})
        BY <3>1 DEF Post
      <3> QED BY <3>2 DEF c1
    <2> QED BY <1>2, <2>1, FreshPost DEF StartClaim, Fresh, disk, database, folder, TokensAndBodies
  <1> QED BY <1>1, <1>2

(* The request is over. *)
LEMMA QuitKeeps ==
    ASSUME TokensAndBodies, LocalInv, NEW r \in Requests, Quit(r),
           UNCHANGED <<session, staging, store, bytes, overwritten, reverted, parts, temps, ids, rows, registered, late>>,
           \A a \in answers' : a \in answers \/ AnswerUse(rows, a)
    PROVE  LocalInv'
  BY IdlePost, IdleUse, PostMoves DEF Quit, TokensAndBodies

(* A request goes on with the same id, body and file. *)
LEMMA GotoPost ==
    ASSUME TokensAndBodies, LocalInv, NEW r \in Requests, NEW k \in PostSteps,
           Shaped([job[r] EXCEPT !.next = k])
    PROVE  LET v == [job[r] EXCEPT !.next = k]
           IN  /\ v \in Posts /\ v.next = k /\ v.of = job[r].of /\ v.id = job[r].id /\ v.body = job[r].body
               /\ v.file = job[r].file /\ v.span = job[r].span
               /\ Goto(r, k) => job' = [job EXCEPT ![r] = v]
  <1>1. job[r] \in Posts /\ job \in [Requests -> Posts]
    BY DEF LocalInv, LocalTypes, JobsGood
  <1> QED BY <1>1 DEF Goto, Posts, PostSteps

LEMMA LookupKeeps ==
    ASSUME TokensAndBodies, LocalInv, NEW r \in Requests, Lookup(r)
    PROVE  LocalInv'
  <1> DEFINE k == IF rows[job[r].id] = NoRow THEN "assemble" ELSE "retomb"
             v == [job[r] EXCEPT !.next = k]
  <1>1. job[r] \in Posts /\ Shaped(job[r]) /\ job[r].next = "lookup"
    BY DEF LocalInv, LocalTypes, JobsGood, Lookup
  <1>2. k \in PostSteps /\ k \in {"assemble", "retomb"}
    BY DEF PostSteps, ChunkSteps
  <1>3. v.next = k /\ v.of = job[r].of /\ v.id = job[r].id /\ v.file = job[r].file
    BY <1>1 DEF Posts
  <1>4. Shaped(v)
    BY <1>1, <1>2, <1>3 DEF Shaped, WholeSteps, ChunkSteps, PublishSteps, NamedSteps, PartSteps, IdSteps
  <1>5. v \in Posts /\ job' = [job EXCEPT ![r] = v]
    BY <1>2, <1>4, GotoPost DEF Lookup
  <1>6. \A own \in [FileIds -> Owners] : IdsOwned(own, ids) => PostUse(own, ids, session, rows, reverted, v)
    BY <1>2, <1>3 DEF IdsOwned, PostUse
  <1>7. \A who \in [Files -> Tokens \cup {None}] :
           FilesHeld(who) => PostFile(who, v) /\ PostBytes(overwritten, store, bytes, staging, registered, v)
    BY <1>2, <1>3 DEF FilesHeld, PostFile, PostBytes
  <1>8. UNCHANGED <<session, staging, store, bytes, overwritten, reverted, parts, temps, ids, rows, registered, late, answers>>
    BY DEF Lookup, disk, database, folder
  <1> HIDE DEF v, k
  <1> QED BY <1>3, <1>4, <1>5, <1>6, <1>7, <1>8, PostMoves

LEMMA VerifyKeeps ==
    ASSUME TokensAndBodies, LocalInv, NEW r \in Requests, Verify(r)
    PROVE  LocalInv'
  <1> DEFINE f == staging[job[r].of]
             v == [job[r] EXCEPT !.next = "converge", !.body = bytes[f], !.file = 0, !.span = {}]
  <1>1. job[r] \in Posts /\ Shaped(job[r]) /\ job[r].next = "verify" /\ job \in [Requests -> Posts]
    BY DEF LocalInv, LocalTypes, JobsGood, Verify
  <1>2. UNCHANGED <<session, staging, store, bytes, overwritten, reverted, parts, temps, ids, rows, registered, late, answers>>
    BY DEF Verify, disk, database, folder
  <1>3. CASE f # 0 /\ bytes[f] \in Bodies
    <2>1. job' = [job EXCEPT ![r] = v]
      BY <1>1, <1>3 DEF Verify, Posts
    <2>2. /\ v.next = "converge" /\ v.of = job[r].of /\ v.id = job[r].id /\ v.body = bytes[f] /\ v.file = 0
          /\ v.span = {} /\ v = Post("converge", job[r].of, job[r].id, bytes[f], 0, {})
      <3>1. v = Post("converge", job[r].of, job[r].id, bytes[f], 0, {})
        <4> DEFINE c1 == [job[r] EXCEPT !.next = "converge"]
        <4>1. c1 = Post("converge", job[r].of, job[r].id, job[r].body, job[r].file, job[r].span)
          BY <1>1 DEF Posts, Post
        <4> HIDE DEF c1
        <4> DEFINE c2 == [c1 EXCEPT !.body = bytes[f]]
        <4>2. c2 = Post("converge", job[r].of, job[r].id, bytes[f], job[r].file, job[r].span)
          BY <4>1 DEF Post
        <4> HIDE DEF c2
        <4> DEFINE c3 == [c2 EXCEPT !.file = 0]
        <4>3. c3 = Post("converge", job[r].of, job[r].id, bytes[f], 0, job[r].span)
          BY <4>2 DEF Post
        <4> HIDE DEF c3
        <4>4. [c3 EXCEPT !.span = {}] = Post("converge", job[r].of, job[r].id, bytes[f], 0, {})
          BY <4>3 DEF Post
        <4> QED BY <4>4 DEF c1, c2, c3
      <3> HIDE DEF v
      <3> QED BY <3>1, PostFields
    <2>3. v \in Posts
      <3>1. job[r].of \in Owners /\ job[r].id \in 0 .. MaxIds
        BY <1>1, PostParts
      <3>2. "converge" \in PostSteps /\ {} \in Spans
        BY DEF PostSteps, PublishSteps, Spans
      <3> HIDE DEF v
      <3> QED BY <1>3, <2>2, <3>1, <3>2, PostOf
    <2>4. Shaped(v) /\ job[r].of \in Chunked
      BY <1>1, <1>3, <2>2 DEF Shaped, WholeSteps, ChunkSteps, PublishSteps, NamedSteps, PartSteps, IdSteps, TokensAndBodies
    <2>5. \A own \in [FileIds -> Owners] : IdsOwned(own, ids) => PostUse(own, ids, session, rows, reverted, v)
      BY <2>2 DEF IdsOwned, PostUse
    <2>6. \A who \in [Files -> Tokens \cup {None}] : PostFile(who, v) /\ PostBytes(overwritten, store, bytes, staging, registered, v)
      BY <2>2, <2>4 DEF PostFile, PostBytes
    <2> HIDE DEF v
    <2> QED BY <1>2, <2>1, <2>2, <2>3, <2>4, <2>5, <2>6, PostMoves
  <1>4. CASE ~(f # 0 /\ bytes[f] \in Bodies)
    BY <1>2, <1>4, QuitKeeps DEF Verify
  <1> QED BY <1>3, <1>4

LEMMA ExpireKeeps ==
    ASSUME TokensAndBodies, LocalInv, NEW t \in Chunked, Expire(t)
    PROVE  LocalInv'
  BY OnlyAnswers DEF Expire, database

LEMMA Posted ==
    ASSUME LocalInv, NEW r \in Requests
    PROVE  /\ LocalTypes /\ JobsGood /\ job \in [Requests -> Posts] /\ job[r] \in Posts /\ Shaped(job[r])
           /\ \A q \in Requests : q # r /\ job[r].of \in Tokens => job[q].of # job[r].of
  BY DEF LocalInv, LocalTypes, JobsGood

(* The request is over, or it goes on with the same id, body and file. *)
LEMMA Quits ==
    ASSUME TokensAndBodies, LocalInv, NEW r \in Requests, Quit(r)
    PROVE  JobsGood' /\ job'[r] = Idle /\ \A q \in Requests : q # r => job'[q] = job[q]
  <1>1. Idle.of \notin Tokens
    BY IdlePost DEF TokensAndBodies
  <1> QED BY <1>1, Posted, IdlePost, PostStep DEF Quit

LEMMA GoesOn ==
    ASSUME TokensAndBodies, LocalInv, NEW r \in Requests, NEW k, Goto(r, k),
           \/ job[r].next \in PublishSteps \ {"tomb"} /\ k \in PublishSteps
           \/ job[r].next \in {"tomb", "retomb"} /\ k = "clean" /\ job[r].of \in Chunked
    PROVE  /\ JobsGood' /\ job'[r] \in Posts /\ Shaped(job'[r]) /\ \A q \in Requests : q # r => job'[q] = job[q]
           /\ job'[r].next = k /\ job'[r].of = job[r].of /\ job'[r].id = job[r].id /\ job'[r].body = job[r].body
           /\ job'[r].file = job[r].file
  <1> DEFINE v == [job[r] EXCEPT !.next = k]
  <1>1. job[r] \in Posts /\ Shaped(job[r])
    BY Posted
  <1>2. k \in PostSteps
    BY DEF PostSteps, PublishSteps, ChunkSteps
  <1>3. v.next = k /\ v.of = job[r].of /\ v.id = job[r].id /\ v.file = job[r].file /\ v.body = job[r].body
    BY <1>1 DEF Posts
  <1>4. Shaped(v)
    <2> HIDE DEF v
    <2>1. CASE job[r].next \in PublishSteps \ {"tomb"} /\ k \in PublishSteps
      <3>1. job[r].of \in Tokens /\ job[r].body \in Bodies /\ job[r].id # 0
        BY <1>1, <2>1 DEF Shaped, PublishSteps, NamedSteps, IdSteps
      <3> QED BY <1>3, <2>1, <3>1 DEF Shaped, WholeSteps, ChunkSteps, PublishSteps, PartSteps, IdSteps
    <2>2. CASE job[r].next \in {"tomb", "retomb"} /\ k = "clean" /\ job[r].of \in Chunked
      <3>1. job[r].id # 0
        BY <1>1, <2>2 DEF Shaped, PublishSteps, IdSteps
      <3> QED BY <1>3, <2>2, <3>1 DEF Shaped, WholeSteps, ChunkSteps, PublishSteps, PartSteps, IdSteps, NamedSteps
    <2> QED BY <2>1, <2>2
  <1>5. v \in Posts /\ job' = [job EXCEPT ![r] = v]
    BY <1>2, <1>4, GotoPost
  <1> HIDE DEF v
  <1> QED BY <1>3, <1>4, <1>5, Posted, PostStep

(* Session files, rows and the count of ids stay as they are. *)
LEMMA IdsSame ==
    ASSUME TokensAndBodies, LocalInv, UNCHANGED <<session, rows, reverted, ids>>,
           \A own \in [FileIds -> Owners] : IdsOwned(own, ids) =>
              /\ \A r \in Requests : job'[r] = job[r] \/ PostUse(own, ids, session, rows, reverted, job'[r])
              /\ \A w \in late' : w \in late \/ LateUse(own, ids, session, rows, reverted, w),
           \A a \in answers' : a \in answers \/ AnswerUse(rows, a)
    PROVE  IdInv'
  <1>1. PICK own \in [FileIds -> Owners] : IdsOwned(own, ids)
    BY DEF LocalInv, IdInv
  <1>2. (\A t \in Tokens : SessionUse(own, ids, session, rows, t)) /\ ClaimedOnce(rows) /\ LocalTypes
    BY <1>1 DEF IdsOwned, LocalInv
  <1>3. /\ \A r \in Requests : job'[r] = job[r] \/ PostUse(own, ids, session, rows, reverted, job'[r])
        /\ \A w \in late' : w \in late \/ LateUse(own, ids, session, rows, reverted, w)
    BY <1>1
  <1>4. IdsOwned(own, ids)'
    BY <1>1, <1>2, <1>3, IdsStep
  <1> QED BY <1>4 DEF IdInv

(* A request that keeps its token and its id. *)
LEMMA SameUse ==
    ASSUME NEW own, IdsOwned(own, ids), NEW r \in Requests, NEW v, v.of = job[r].of, v.id = job[r].id,
           v.next \notin {"tomb", "retomb", "clean", "mark"} \/ job[r].next \in {"tomb", "retomb", "clean", "mark"}
    PROVE  PostUse(own, ids, session, rows, reverted, v)
  BY DEF IdsOwned, PostUse

(* A step of a request of the session t in the files of t. *)
LEMMA FilesOf ==
    ASSUME TokensAndBodies, LocalInv, NEW who, FilesHeld(who), NEW r \in Requests, NEW t \in Tokens, job[r].of = t,
           \A q \in Requests : q # r => job'[q] = job[q],
           \A u \in Tokens : u # t => staging'[u] = staging[u],
           StagedUse(who, staging', t),
           \A f \in Files : who[f] # t => bytes'[f] = bytes[f],
           \A b \in Bodies : Good(overwritten, store, bytes, b) => Good(overwritten', store', bytes', b),
           \A b \in Bodies : store[b] # 0 => store'[b] # 0,
           PostFile(who, job'[r]), PostBytes(overwritten', store', bytes', staging', registered', job'[r]),
           UNCHANGED <<late, rows, registered>>
    PROVE  FilesHeld(who)'
  <1>1. \A q \in Requests : q # r => job[q].of # t
    BY Posted
  <1>2. LocalTypes
    BY DEF LocalInv
  <1> QED BY <1>1, <1>2, FilesStep

LEMMA UnlinkedStaging ==
    ASSUME LocalInv, NEW who, FilesHeld(who), NEW t \in Tokens, staging' = Unlinked(t)
    PROVE  /\ staging' \in [Tokens -> Files \cup {0}] /\ staging'[t] = 0
           /\ \A u \in Tokens : u # t => staging'[u] = staging[u]
           /\ StagedUse(who, staging', t)
  BY DEF LocalInv, LocalTypes, DiskTypes, Unlinked, StagedUse

LEMMA ConvergeKeeps ==
    ASSUME TokensAndBodies, LocalInv, NEW r \in Requests, Converge(r)
    PROVE  LocalInv'
  <1>1. job[r] \in Posts /\ Shaped(job[r]) /\ job[r].next = "converge" /\ job \in [Requests -> Posts] /\ LocalTypes
    BY Posted DEF Converge
  <1>2. UNCHANGED <<session, store, bytes, overwritten, reverted, parts, temps, ids, rows, registered, late, answers>>
    BY DEF Converge, disk, database, folder
  <1>3. job[r].of \in Tokens /\ job[r].id # 0 /\ job[r].body \in Bodies
    BY <1>1 DEF Shaped, PublishSteps, NamedSteps, IdSteps
  <1>4. PICK who \in [Files -> Tokens \cup {None}] : FilesHeld(who)
    BY DEF LocalInv, FileInv
  <1>5. CASE registered # None /\ ~ContentLocked
    <2> DEFINE v == [job[r] EXCEPT !.next = "commit", !.body = registered]
    <2>1. job' = [job EXCEPT ![r] = v] /\ staging' = Unlinked(job[r].of)
      BY <1>1, <1>5 DEF Converge, Posts
    <2>2. v = Post("commit", job[r].of, job[r].id, registered, job[r].file, job[r].span)
      <3> DEFINE c1 == [job[r] EXCEPT !.next = "commit"]
      <3>1. c1 = Post("commit", job[r].of, job[r].id, job[r].body, job[r].file, job[r].span)
        BY <1>1 DEF Posts, Post
      <3> HIDE DEF c1
      <3>2. [c1 EXCEPT !.body = registered] = Post("commit", job[r].of, job[r].id, registered, job[r].file, job[r].span)
        BY <3>1 DEF Post
      <3> QED BY <3>2 DEF c1
    <2> HIDE DEF v
    <2>3. v.next = "commit" /\ v.of = job[r].of /\ v.id = job[r].id /\ v.body = registered /\ v.file = job[r].file
      BY <2>2, PostFields
    <2>4. registered \in Bodies
      BY <1>1, <1>5 DEF LocalTypes, RowTypes
    <2>5. v \in Posts
      <3>1. /\ job[r].of \in Owners /\ job[r].id \in 0 .. MaxIds /\ job[r].file \in Files \cup {0}
            /\ job[r].span \in Spans
        BY <1>1, PostParts
      <3>2. "commit" \in PostSteps
        BY DEF PostSteps, PublishSteps
      <3> QED BY <2>2, <2>4, <3>1, <3>2, PostOf
    <2>6. Shaped(v)
      BY <1>3, <2>3, <2>4 DEF Shaped, WholeSteps, ChunkSteps, PublishSteps, PartSteps, IdSteps
    <2>7. JobsGood' /\ job'[r] = v /\ \A q \in Requests : q # r => job'[q] = job[q]
      BY <2>1, <2>3, <2>5, <2>6, Posted, PostStep
    <2>8. /\ staging' \in [Tokens -> Files \cup {0}] /\ staging'[job[r].of] = 0
          /\ \A u \in Tokens : u # job[r].of => staging'[u] = staging[u]
          /\ StagedUse(who, staging', job[r].of)
      BY <1>3, <1>4, <2>1, UnlinkedStaging
    <2>9. LocalTypes'
      BY <1>1, <1>2, <2>7, <2>8 DEF LocalTypes, DiskTypes, RowTypes, LatesGood
    <2>10. IdInv'
      BY <1>2, <2>3, <2>7, IdsSame, SameUse
    <2>11. PostFile(who, v) /\ PostBytes(overwritten', store', bytes', staging', registered', v)
      BY <1>2, <1>4, <1>5, <2>3 DEF FilesHeld, PostFile, PostBytes
    <2>12. FilesHeld(who)'
      BY <1>2, <1>3, <1>4, <2>7, <2>8, <2>11, FilesOf
    <2> QED BY <2>9, <2>10, <2>12 DEF LocalInv, FileInv
  <1>6. CASE registered = None /\ ~ContentLocked
    <2>1. Goto(r, "link") /\ UNCHANGED staging
      BY <1>6 DEF Converge
    <2>2. /\ JobsGood' /\ job'[r] \in Posts /\ Shaped(job'[r]) /\ \A q \in Requests : q # r => job'[q] = job[q]
          /\ job'[r].next = "link" /\ job'[r].of = job[r].of /\ job'[r].id = job[r].id /\ job'[r].body = job[r].body
          /\ job'[r].file = job[r].file
      BY <1>1, <2>1, GoesOn DEF PublishSteps
    <2>3. LocalTypes'
      BY <1>1, <1>2, <2>1, <2>2 DEF LocalTypes, DiskTypes, RowTypes, LatesGood
    <2>4. IdInv'
      BY <1>2, <2>2, IdsSame, SameUse
    <2>5. PostFile(who, job'[r]) /\ PostBytes(overwritten, store, bytes, staging, registered', job'[r])
      BY <1>1, <1>4, <2>2 DEF FilesHeld, PostFile, PostBytes
    <2>6. FilesHeld(who)'
      BY <1>2, <1>4, <2>1, <2>2, <2>5, FilesQuiet
    <2> QED BY <2>3, <2>4, <2>6 DEF LocalInv, FileInv
  <1>7. CASE ContentLocked
    BY <1>2, <1>7, QuitKeeps DEF Converge
  <1> QED BY <1>5, <1>6, <1>7

(* What a link at the final path does to the bodies there. *)
LEMMA LinksGood ==
    ASSUME TokensAndBodies, LocalInv, NEW w, w.of \in Tokens, w.body \in Bodies, Links(w), UNCHANGED bytes
    PROVE  /\ store' \in [Bodies -> Files \cup {0}]
           /\ \A b \in Bodies : Good(overwritten, store, bytes, b) => Good(overwritten', store', bytes', b)
           /\ \A b \in Bodies : store[b] # 0 => store'[b] # 0
           /\ w.of \in Chunked \/ bytes[staging[w.of]] \in {w.body, "mixed"} => Good(overwritten', store', bytes', w.body)
  <1>1. staging[w.of] \in Files /\ staging[w.of] # 0
    BY DEF Links, LocalInv, LocalTypes, DiskTypes
  <1>2. store \in [Bodies -> Files \cup {0}] /\ store' = [store EXCEPT ![w.body] = staging[w.of]] /\ store[w.body] = 0
    BY DEF Links, LocalInv, LocalTypes, DiskTypes
  <1>3. /\ overwritten \subseteq overwritten'
        /\ (w.of \in Chunked /\ bytes[staging[w.of]] # w.body) \/ bytes[staging[w.of]] = "mixed" => w.body \in overwritten'
    BY DEF Links
  <1> QED BY <1>1, <1>2, <1>3 DEF Good

LEMMA LinkKeeps ==
    ASSUME TokensAndBodies, LocalInv, NEW r \in Requests, Link(r)
    PROVE  LocalInv'
  <1>1. job[r] \in Posts /\ Shaped(job[r]) /\ job[r].next = "link" /\ LocalTypes
    BY Posted DEF Link
  <1>2. UNCHANGED <<session, staging, bytes, reverted, parts, temps, ids, rows, registered, late, answers>>
    BY DEF Link, database, folder
  <1>3. job[r].of \in Tokens /\ job[r].id # 0 /\ job[r].body \in Bodies
    BY <1>1 DEF Shaped, PublishSteps, NamedSteps, IdSteps
  <1>4. PICK who \in [Files -> Tokens \cup {None}] : FilesHeld(who)
    BY DEF LocalInv, FileInv
  <1>5. StagedUse(who, staging', job[r].of) /\ PostFile(who, job[r]) /\ PostBytes(overwritten, store, bytes, staging, registered, job[r])
    BY <1>2, <1>3, <1>4 DEF FilesHeld
  <1>6. CASE Links(job[r])
    <2>1. /\ store' \in [Bodies -> Files \cup {0}]
          /\ \A b \in Bodies : Good(overwritten, store, bytes, b) => Good(overwritten', store', bytes', b)
          /\ \A b \in Bodies : store[b] # 0 => store'[b] # 0
          /\ job[r].of \in Chunked \/ bytes[staging[job[r].of]] \in {job[r].body, "mixed"} => Good(overwritten', store', bytes', job[r].body)
      BY <1>2, <1>3, <1>6, LinksGood
    <2>2. Good(overwritten', store', bytes', job[r].body)
      BY <1>1, <1>5, <1>6, <2>1 DEF PostBytes, Links
    <2>3. CASE Goto(r, "unlink")
      <3>1. /\ JobsGood' /\ job'[r] \in Posts /\ Shaped(job'[r]) /\ \A q \in Requests : q # r => job'[q] = job[q]
            /\ job'[r].next = "unlink" /\ job'[r].of = job[r].of /\ job'[r].id = job[r].id /\ job'[r].body = job[r].body
            /\ job'[r].file = job[r].file
        BY <1>1, <2>3, GoesOn DEF PublishSteps
      <3>2. LocalTypes'
        BY <1>1, <1>2, <2>1, <3>1 DEF LocalTypes, DiskTypes, RowTypes, LatesGood
      <3>3. IdInv'
        BY <1>2, <3>1, IdsSame, SameUse
      <3>4. PostFile(who, job'[r]) /\ PostBytes(overwritten', store', bytes', staging', registered', job'[r])
        BY <1>5, <2>2, <3>1 DEF PostFile, PostBytes
      <3>5. FilesHeld(who)'
        BY <1>2, <1>3, <1>4, <1>5, <2>1, <3>1, <3>4, FilesOf
      <3> QED BY <3>2, <3>3, <3>5 DEF LocalInv, FileInv
    <2>4. CASE Quit(r)
      <3>1. JobsGood' /\ job'[r] = Idle /\ \A q \in Requests : q # r => job'[q] = job[q]
        BY <2>4, Quits
      <3>2. LocalTypes'
        BY <1>1, <1>2, <2>1, <3>1 DEF LocalTypes, DiskTypes, RowTypes, LatesGood
      <3>3. IdInv'
        BY <1>2, <3>1, IdsSame, IdleUse
      <3>4. FilesHeld(who)'
        BY <1>2, <1>3, <1>4, <1>5, <2>1, <3>1, IdleUse, FilesOf
      <3> QED BY <3>2, <3>3, <3>4 DEF LocalInv, FileInv
    <2> QED BY <1>3, <1>6, <2>3, <2>4 DEF Link, Links
  <1>7. CASE staging[job[r].of] = 0
    BY <1>2, <1>7, QuitKeeps DEF Link, Links
  <1>8. CASE staging[job[r].of] # 0 /\ store[job[r].body] # 0
    <2>1. Goto(r, "check") /\ UNCHANGED <<store, overwritten>>
      BY <1>8 DEF Link, Links
    <2>2. /\ JobsGood' /\ job'[r] \in Posts /\ Shaped(job'[r]) /\ \A q \in Requests : q # r => job'[q] = job[q]
          /\ job'[r].next = "check" /\ job'[r].of = job[r].of /\ job'[r].id = job[r].id /\ job'[r].body = job[r].body
          /\ job'[r].file = job[r].file
      BY <1>1, <2>1, GoesOn DEF PublishSteps
    <2>3. LocalTypes'
      BY <1>1, <1>2, <2>1, <2>2 DEF LocalTypes, DiskTypes, RowTypes, LatesGood
    <2>4. IdInv'
      BY <1>2, <2>2, IdsSame, SameUse
    <2>5. PostFile(who, job'[r]) /\ PostBytes(overwritten, store, bytes, staging, registered', job'[r])
      BY <1>5, <1>8, <2>2 DEF PostFile, PostBytes
    <2>6. FilesHeld(who)'
      BY <1>2, <1>4, <2>1, <2>2, <2>5, FilesQuiet
    <2> QED BY <2>3, <2>4, <2>6 DEF LocalInv, FileInv
  <1> QED BY <1>6, <1>7, <1>8 DEF Link

LEMMA UnlinkKeeps ==
    ASSUME TokensAndBodies, LocalInv, NEW r \in Requests, Unlink(r) \/ (Check(r) /\ ~Quit(r))
    PROVE  LocalInv'
  <1>1. job[r] \in Posts /\ Shaped(job[r]) /\ job[r].next \in {"unlink", "check"} /\ LocalTypes
    BY Posted DEF Unlink, Check
  <1>2. UNCHANGED <<session, store, bytes, overwritten, reverted, parts, temps, ids, rows, registered, late, answers>>
    BY DEF Unlink, Check, database, folder
  <1>3. job[r].of \in Tokens /\ job[r].id # 0 /\ job[r].body \in Bodies
    BY <1>1 DEF Shaped, PublishSteps, NamedSteps, IdSteps
  <1>4. PICK who \in [Files -> Tokens \cup {None}] : FilesHeld(who)
    BY DEF LocalInv, FileInv
  <1>5. PostFile(who, job[r]) /\ PostBytes(overwritten, store, bytes, staging, registered, job[r]) /\ StagedUse(who, staging, job[r].of)
    BY <1>3, <1>4 DEF FilesHeld
  <1>6. Goto(r, "commit") /\ staging' \in {staging, Unlinked(job[r].of)}
    BY DEF Unlink, Check
  <1>7. Good(overwritten, store, bytes, job[r].body)
    BY <1>1, <1>5 DEF PostBytes, Unlink, Check, Good
  <1>8. /\ JobsGood' /\ job'[r] \in Posts /\ Shaped(job'[r]) /\ \A q \in Requests : q # r => job'[q] = job[q]
        /\ job'[r].next = "commit" /\ job'[r].of = job[r].of /\ job'[r].id = job[r].id /\ job'[r].body = job[r].body
        /\ job'[r].file = job[r].file
    BY <1>1, <1>6, GoesOn DEF PublishSteps
  <1>9. /\ staging' \in [Tokens -> Files \cup {0}]
        /\ \A u \in Tokens : u # job[r].of => staging'[u] = staging[u]
        /\ StagedUse(who, staging', job[r].of)
    BY <1>1, <1>3, <1>4, <1>5, <1>6, UnlinkedStaging DEF LocalTypes, DiskTypes
  <1>10. LocalTypes'
    BY <1>1, <1>2, <1>8, <1>9 DEF LocalTypes, DiskTypes, RowTypes, LatesGood
  <1>11. IdInv'
    BY <1>2, <1>8, IdsSame, SameUse
  <1>12. PostFile(who, job'[r]) /\ PostBytes(overwritten', store', bytes', staging', registered', job'[r])
    BY <1>2, <1>5, <1>7, <1>8 DEF PostFile, PostBytes
  <1>13. FilesHeld(who)'
    BY <1>2, <1>3, <1>4, <1>8, <1>9, <1>12, FilesOf
  <1> QED BY <1>10, <1>11, <1>13 DEF LocalInv, FileInv

LEMMA CheckKeeps ==
    ASSUME TokensAndBodies, LocalInv, NEW r \in Requests, Check(r)
    PROVE  LocalInv'
  <1>1. CASE Quit(r) /\ UNCHANGED staging
    BY <1>1, QuitKeeps DEF Check, database, folder
  <1>2. CASE ~(Quit(r) /\ UNCHANGED staging)
    <2>1. Goto(r, "commit")
      BY <1>2 DEF Check
    <2>2. ~Quit(r)
      <3>1. job'[r].next = "commit"
        BY <2>1, Posted, GoesOn DEF Check, PublishSteps
      <3> QED BY <3>1, Quits, IdlePost
    <2> QED BY <2>2, UnlinkKeeps
  <1> QED BY <1>1, <1>2

(* The row of a session's id is the session's. *)
LEMMA RowOfPost ==
    ASSUME TokensAndBodies, LocalInv, NEW w \in Posts, w.of \in Tokens, w.id # 0,
           NEW own, IdsOwned(own, ids), PostUse(own, ids, session, rows, reverted, w), rows[w.id] # NoRow
    PROVE  rows[w.id].of = w.of /\ AnswerUse(rows, <<w.of, w.id>>)
  <1>1. w.id \in FileIds /\ own[w.id] = w.of
    BY DEF Posts, FileIds, TokensAndBodies, PostUse, Owned
  <1>2. rows[w.id].of = w.of
    BY <1>1 DEF IdsOwned, RowUse
  <1> QED BY <1>1, <1>2 DEF AnswerUse

(* What a COMMIT writes, for a request or for one that was dropped. *)
LEMMA CommitsWell ==
    ASSUME TokensAndBodies, LocalInv, NEW w \in Posts, w.of \in Tokens, w.body \in Bodies, w.id # 0, Commits(w),
           UNCHANGED <<session, reverted, store, bytes, overwritten>>,
           NEW own, IdsOwned(own, ids), PostUse(own, ids, session, rows, reverted, w),
           Good(overwritten, store, bytes, w.body)
    PROVE  /\ rows' \in [FileIds -> [path : Bodies \cup {None}, of : Owners]] /\ registered' \in Bodies \cup {None}
           /\ \A u \in Tokens : SessionUse(own, ids, session', rows', u)
           /\ \A i \in FileIds :
                 rows'[i] = rows[i] \/ (rows[i] = NoRow /\ RowUse(own, ids, session', rows', reverted', i))
           /\ ClaimedOnce(rows')
           /\ \A i \in FileIds : rows'[i] = rows[i] \/ RowBytes(overwritten', store', bytes', rows', i)
           /\ registered' = registered \/ (registered = None /\ registered' # None /\ Good(overwritten', store', bytes', registered'))
           /\ rows'[w.id] # NoRow
  <1> DEFINE new == [path |-> w.body, of |-> w.of]
  <1>1. w.id \in FileIds /\ own[w.id] = w.of /\ w.id <= ids
    BY DEF Posts, FileIds, TokensAndBodies, PostUse, Owned
  <1>2. new # NoRow /\ new.of = w.of /\ new.path = w.body /\ new \in [path : Bodies \cup {None}, of : Owners]
    BY DEF NoRow, TokensAndBodies, Owners
  <1>3. rows \in [FileIds -> [path : Bodies \cup {None}, of : Owners]] /\ registered \in Bodies \cup {None}
    BY DEF LocalInv, LocalTypes, RowTypes
  <1>4. /\ rows' \in [FileIds -> [path : Bodies \cup {None}, of : Owners]]
        /\ \A i \in FileIds : rows'[i] = rows[i] \/ (i = w.id /\ rows[i] = NoRow /\ rows'[i] = new)
        /\ rows'[w.id] # NoRow
    <2> HIDE DEF new
    <2>1. CASE rows[w.id] = NoRow
      <3>1. rows' = [rows EXCEPT ![w.id] = new]
        BY <2>1 DEF Commits, new
      <3> QED BY <1>1, <1>2, <1>3, <2>1, <3>1
    <2>2. CASE rows[w.id] # NoRow
      BY <1>3, <2>2 DEF Commits
    <2> QED BY <2>1, <2>2
  <1> HIDE DEF new
  <1>5. \A i \in FileIds : rows[i] # NoRow => rows'[i] # NoRow
    BY <1>4
  <1>6. \A u \in Tokens : SessionUse(own, ids, session', rows', u)
    <2> SUFFICES ASSUME NEW u \in Tokens PROVE SessionUse(own, ids, session', rows', u)
      OBVIOUS
    <2>1. SessionUse(own, ids, session, rows, u)
      BY DEF IdsOwned
    <2>2. session[u].file = 0 \/ session[u].file \in FileIds
      BY DEF LocalInv, LocalTypes, DiskTypes, SessionFiles, FileIds, TokensAndBodies
    <2> QED BY <1>5, <2>1, <2>2 DEF SessionUse, Recorded
  <1>7. \A i \in FileIds : rows'[i] = rows[i] \/ (rows[i] = NoRow /\ RowUse(own, ids, session', rows', reverted', i))
    BY <1>1, <1>2, <1>4 DEF RowUse, PostUse
  <1>8. ClaimedOnce(rows')
    <2>1. \A i \in FileIds : rows'[i].of \in Claims => rows'[i] = rows[i]
      BY <1>2, <1>4 DEF TokensAndBodies
    <2>2. ClaimedOnce(rows)
      BY DEF IdsOwned
    <2> QED BY <2>1, <2>2 DEF ClaimedOnce
  <1>9. \A i \in FileIds : rows'[i] = rows[i] \/ RowBytes(overwritten', store', bytes', rows', i)
    BY <1>2, <1>4 DEF RowBytes
  <1>10. w.body # None
    BY DEF TokensAndBodies
  <1>11. registered' \in Bodies \cup {None} /\ (registered' = registered \/ (registered = None /\ registered' = w.body))
    BY <1>3 DEF Commits
  <1> QED BY <1>4, <1>6, <1>7, <1>8, <1>9, <1>10, <1>11

LEMMA CommitKeeps ==
    ASSUME TokensAndBodies, LocalInv, NEW r \in Requests, Commit(r)
    PROVE  LocalInv'
  <1>1. job[r] \in Posts /\ Shaped(job[r]) /\ job[r].next = "commit" /\ LocalTypes
    BY Posted DEF Commit
  <1>2. UNCHANGED <<session, staging, store, bytes, overwritten, reverted, parts, temps, ids, late, answers>>
    BY DEF Commit, disk, folder
  <1>3. job[r].of \in Tokens /\ job[r].id # 0 /\ job[r].body \in Bodies
    BY <1>1 DEF Shaped, PublishSteps, NamedSteps, IdSteps
  <1>4. PICK who \in [Files -> Tokens \cup {None}] : FilesHeld(who)
    BY DEF LocalInv, FileInv
  <1>5. PostFile(who, job[r]) /\ PostBytes(overwritten, store, bytes, staging, registered, job[r])
    BY <1>4 DEF FilesHeld
  <1>6. PICK own \in [FileIds -> Owners] : IdsOwned(own, ids)
    BY DEF LocalInv, IdInv
  <1>7. PostUse(own, ids, session, rows, reverted, job[r])
    BY <1>6 DEF IdsOwned
  <1>8. CASE Commits(job[r])
    <2>1. Good(overwritten, store, bytes, job[r].body)
      BY <1>1, <1>5 DEF PostBytes
    <2>2. /\ rows' \in [FileIds -> [path : Bodies \cup {None}, of : Owners]] /\ registered' \in Bodies \cup {None}
          /\ \A u \in Tokens : SessionUse(own, ids, session', rows', u)
          /\ \A i \in FileIds :
                rows'[i] = rows[i] \/ (rows[i] = NoRow /\ RowUse(own, ids, session', rows', reverted', i))
          /\ ClaimedOnce(rows')
          /\ \A i \in FileIds : rows'[i] = rows[i] \/ RowBytes(overwritten', store', bytes', rows', i)
          /\ registered' = registered \/ (registered = None /\ registered' # None /\ Good(overwritten', store', bytes', registered'))
          /\ rows'[job[r].id] # NoRow
      BY <1>1, <1>2, <1>3, <1>6, <1>7, <1>8, <2>1, CommitsWell
    <2>3. /\ JobsGood' /\ \A q \in Requests : q # r => job'[q] = job[q]
          /\ PostUse(own, ids, session', rows', reverted', job'[r])
          /\ PostFile(who, job'[r]) /\ PostBytes(overwritten, store, bytes, staging, registered', job'[r])
      <3>1. CASE Goto(r, "tomb")
        <4>1. /\ JobsGood' /\ \A q \in Requests : q # r => job'[q] = job[q]
              /\ job'[r].next = "tomb" /\ job'[r].of = job[r].of /\ job'[r].id = job[r].id /\ job'[r].file = job[r].file
          BY <1>1, <3>1, GoesOn DEF PublishSteps
        <4>2. PostUse(own, ids, session', rows', reverted', job'[r])
          BY <1>2, <1>7, <2>2, <4>1 DEF PostUse
        <4> QED BY <1>5, <4>1, <4>2 DEF PostFile, PostBytes
      <3>2. CASE Quit(r)
        BY <3>2, Quits, IdleUse
      <3> QED BY <1>8, <3>1, <3>2 DEF Commit
    <2>4. LocalTypes'
      BY <1>1, <1>2, <2>2, <2>3 DEF LocalTypes, DiskTypes, RowTypes, LatesGood
    <2>5. IdsOwned(own, ids)'
      BY <1>1, <1>2, <1>6, <2>2, <2>3, IdsStep
    <2>6. FilesHeld(who)'
      BY <1>2, <1>4, <2>2, <2>3, FilesQuiet
    <2> QED BY <1>2, <2>4, <2>5, <2>6 DEF LocalInv, FileInv, IdInv
  <1>9. CASE Quit(r) /\ UNCHANGED <<rows, registered>>
    BY <1>2, <1>9, QuitKeeps
  <1> QED BY <1>8, <1>9 DEF Commit

(* A tombstone with an id whose row is there. *)
LEMMA TombWell ==
    ASSUME TokensAndBodies, LocalInv, NEW w \in Posts, w.of \in Tokens, w.id # 0, rows[w.id] # NoRow,
           NEW own, IdsOwned(own, ids), PostUse(own, ids, session, rows, reverted, w),
           session' = [session EXCEPT ![w.of].file = w.id]
    PROVE  /\ session' \in [Tokens -> SessionFiles]
           /\ \A u \in Tokens : SessionUse(own, ids, session', rows, u) /\ session'[u].reserved = session[u].reserved
  <1>1. session \in [Tokens -> SessionFiles] /\ w.id \in 0 .. MaxIds
    BY DEF LocalInv, LocalTypes, DiskTypes, Posts
  <1>2. /\ session' \in [Tokens -> SessionFiles] /\ session'[w.of].file = w.id
        /\ \A u \in Tokens : session'[u].reserved = session[u].reserved /\ (u # w.of => session'[u].file = session[u].file)
    BY <1>1 DEF SessionFiles
  <1>3. \A u \in Tokens : SessionUse(own, ids, session, rows, u)
    BY DEF IdsOwned
  <1> QED BY <1>2, <1>3 DEF SessionUse, PostUse, Recorded

LEMMA TombKeeps ==
    ASSUME TokensAndBodies, LocalInv, NEW r \in Requests, Tombstone(r) \/ Retomb(r)
    PROVE  LocalInv'
  <1>1. job[r] \in Posts /\ Shaped(job[r]) /\ job[r].next \in {"tomb", "retomb"} /\ LocalTypes
    BY Posted DEF Tombstone, Retomb
  <1>2. UNCHANGED <<staging, store, bytes, overwritten, reverted, parts, temps, ids, rows, registered, late>>
    BY DEF Tombstone, Retomb, database, folder
  <1>3. job[r].of \in Tokens /\ job[r].id # 0
    BY <1>1 DEF Shaped, PublishSteps, NamedSteps, IdSteps, ChunkSteps, TokensAndBodies
  <1>4. PICK who \in [Files -> Tokens \cup {None}] : FilesHeld(who)
    BY DEF LocalInv, FileInv
  <1>5. PostFile(who, job[r])
    BY <1>4 DEF FilesHeld
  <1>6. PICK own \in [FileIds -> Owners] : IdsOwned(own, ids)
    BY DEF LocalInv, IdInv
  <1>7. PostUse(own, ids, session, rows, reverted, job[r]) /\ rows[job[r].id] # NoRow
    BY <1>1, <1>6 DEF IdsOwned, PostUse
  <1>8. AnswerUse(rows, <<job[r].of, job[r].id>>)
    BY <1>1, <1>3, <1>6, <1>7, RowOfPost
  <1>9. \A a \in answers' : a \in answers \/ AnswerUse(rows, a)
    BY <1>8 DEF Tombstone, Retomb, Answer
  <1>10. CASE session' = [session EXCEPT ![job[r].of].file = job[r].id]
    <2>1. /\ session' \in [Tokens -> SessionFiles]
          /\ \A u \in Tokens : SessionUse(own, ids, session', rows, u) /\ session'[u].reserved = session[u].reserved
      BY <1>1, <1>3, <1>6, <1>7, <1>10, TombWell
    <2>2. (Goto(r, "clean") /\ job[r].of \in Chunked) \/ Quit(r)
      BY <1>1 DEF Tombstone, Retomb, Shaped, ChunkSteps
    <2>3. /\ JobsGood' /\ \A q \in Requests : q # r => job'[q] = job[q]
          /\ PostUse(own, ids, session', rows', reverted', job'[r])
          /\ PostFile(who, job'[r]) /\ PostBytes(overwritten, store, bytes, staging, registered', job'[r])
      <3>1. CASE Goto(r, "clean") /\ job[r].of \in Chunked
        <4>1. /\ JobsGood' /\ \A q \in Requests : q # r => job'[q] = job[q]
              /\ job'[r].next = "clean" /\ job'[r].of = job[r].of /\ job'[r].id = job[r].id /\ job'[r].file = job[r].file
          BY <1>1, <3>1, GoesOn
        <4>2. PostUse(own, ids, session', rows', reverted', job'[r])
          BY <1>2, <1>3, <1>7, <2>1, <4>1 DEF PostUse
        <4> QED BY <1>5, <4>1, <4>2 DEF PostFile, PostBytes
      <3>2. CASE Quit(r)
        BY <3>2, Quits, IdleUse
      <3> QED BY <2>2, <3>1, <3>2
    <2>4. LocalTypes'
      BY <1>1, <1>2, <2>1, <2>3 DEF LocalTypes, DiskTypes, RowTypes, LatesGood
    <2>5. ClaimedOnce(rows)
      BY <1>6 DEF IdsOwned
    <2>6. IdsOwned(own, ids)'
      BY <1>1, <1>2, <1>6, <1>9, <2>1, <2>3, <2>5, IdsStep
    <2>7. FilesHeld(who)'
      BY <1>2, <1>4, <2>3, FilesQuiet
    <2> QED BY <1>2, <2>4, <2>6, <2>7 DEF LocalInv, FileInv, IdInv
  <1>11. CASE Quit(r) /\ UNCHANGED session
    BY <1>2, <1>9, <1>11, QuitKeeps
  <1> QED BY <1>10, <1>11 DEF Tombstone, Retomb

(* The next id is reserved in the session file. *)
LEMMA Reserves ==
    ASSUME TokensAndBodies, LocalInv, Draw, NEW t \in Tokens, session[t].reserved = 0,
           session' = [session EXCEPT ![t].reserved = ids + 1],
           NEW own, IdsOwned(own, ids + 1), own[ids + 1] = t
    PROVE  /\ session' \in [Tokens -> SessionFiles] /\ session'[t].reserved = ids + 1
           /\ \A u \in Tokens : /\ SessionUse(own, ids + 1, session', rows, u)
                                /\ session'[u].reserved = session[u].reserved \/ session[u].reserved = 0
  <1>1. session \in [Tokens -> SessionFiles] /\ ids \in Nat /\ ids + 1 \in 0 .. MaxIds /\ ids + 1 \in 1 .. (ids + 1)
    BY DEF LocalInv, LocalTypes, DiskTypes, RowTypes, Draw, TokensAndBodies
  <1>2. /\ session' \in [Tokens -> SessionFiles] /\ session'[t].reserved = ids + 1
        /\ \A u \in Tokens : session'[u].file = session[u].file /\ (u # t => session'[u].reserved = session[u].reserved)
    BY <1>1 DEF SessionFiles
  <1>3. \A u \in Tokens : SessionUse(own, ids + 1, session, rows, u)
    BY DEF IdsOwned
  <1> QED BY <1>1, <1>2, <1>3 DEF SessionUse, Owned

LEMMA DrawnTypes ==
    ASSUME TokensAndBodies, LocalInv, Draw
    PROVE  ids' = ids + 1 /\ ids' \in 0 .. MaxIds /\ ids \in Nat /\ ids + 1 \in FileIds
  BY DEF LocalInv, LocalTypes, RowTypes, Draw, TokensAndBodies, FileIds

LEMMA CreateSessionKeeps ==
    ASSUME TokensAndBodies, LocalInv, NEW t \in Chunked, CreateSession(t)
    PROVE  LocalInv'
  <1>1. LocalTypes /\ t \in Tokens /\ Draw
    BY DEF LocalInv, TokensAndBodies, CreateSession
  <1>2. UNCHANGED <<staging, store, bytes, overwritten, reverted, parts, temps, rows, registered, job, late, answers>>
    BY DEF CreateSession, folder
  <1>3. PICK own \in [FileIds -> Owners] : IdsOwned(own, ids)
    BY DEF LocalInv, IdInv
  <1>4. PICK more \in [FileIds -> Owners] : IdsOwned(more, ids + 1) /\ more[ids + 1] = t
    BY <1>1, <1>3, IdsGrow DEF Owners
  <1>5. /\ session' \in [Tokens -> SessionFiles] /\ session'[t].reserved = ids + 1
        /\ \A u \in Tokens : /\ SessionUse(more, ids + 1, session', rows, u)
                             /\ session'[u].reserved = session[u].reserved \/ session[u].reserved = 0
    BY <1>1, <1>4, Reserves DEF CreateSession
  <1>6. ids' = ids + 1 /\ ids' \in 0 .. MaxIds
    BY <1>1, DrawnTypes
  <1>7. LocalTypes'
    BY <1>1, <1>2, <1>5, <1>6 DEF LocalTypes, DiskTypes, RowTypes, LatesGood, JobsGood
  <1>8. PICK n : n = ids + 1
    OBVIOUS
  <1>9. ClaimedOnce(rows)
    BY <1>4 DEF IdsOwned
  <1>10. IdsOwned(more, n)'
    BY <1>1, <1>2, <1>4, <1>5, <1>8, <1>9, IdsStep
  <1>11. IdInv'
    BY <1>6, <1>8, <1>10 DEF IdInv
  <1>12. PICK who \in [Files -> Tokens \cup {None}] : FilesHeld(who)
    BY DEF LocalInv, FileInv
  <1>13. FilesHeld(who)'
    BY <1>2, <1>12, FilesQuiet
  <1> QED BY <1>7, <1>11, <1>13 DEF LocalInv, FileInv

(* The request goes on to open the file, with its id. *)
LEMMA OpensWith ==
    ASSUME TokensAndBodies, LocalInv, NEW r \in Requests, job[r].next = "reserve", NEW i \in 0 .. MaxIds, i # 0,
           job' = [job EXCEPT ![r].next = "open", ![r].id = i]
    PROVE  /\ JobsGood' /\ \A q \in Requests : q # r => job'[q] = job[q]
           /\ job'[r] \in Posts /\ Shaped(job'[r])
           /\ job' = [job EXCEPT ![r] = job'[r]]
           /\ job'[r].next = "open" /\ job'[r].of = job[r].of /\ job'[r].id = i /\ job'[r].file = job[r].file
  <1> DEFINE v == [job[r] EXCEPT !.next = "open", !.id = i]
  <1>1. job[r] \in Posts /\ Shaped(job[r]) /\ job \in [Requests -> Posts]
    BY Posted
  <1>2. job' = [job EXCEPT ![r] = v]
    BY <1>1 DEF Posts
  <1>3. v = Post("open", job[r].of, i, job[r].body, job[r].file, job[r].span)
    <2> DEFINE c1 == [job[r] EXCEPT !.next = "open"]
    <2>1. c1 = Post("open", job[r].of, job[r].id, job[r].body, job[r].file, job[r].span)
      BY <1>1 DEF Posts, Post
    <2> HIDE DEF c1
    <2>2. [c1 EXCEPT !.id = i] = Post("open", job[r].of, i, job[r].body, job[r].file, job[r].span)
      BY <2>1 DEF Post
    <2> QED BY <2>2 DEF c1
  <1> HIDE DEF v
  <1>4. v.next = "open" /\ v.of = job[r].of /\ v.id = i /\ v.body = job[r].body /\ v.file = job[r].file
    BY <1>3, PostFields
  <1>5. v \in Posts
    <2>1. /\ job[r].of \in Owners /\ job[r].body \in Bodies \cup {None} /\ job[r].file \in Files \cup {0}
          /\ job[r].span \in Spans
      BY <1>1, PostParts
    <2>2. "open" \in PostSteps
      BY DEF PostSteps, WholeSteps
    <2> QED BY <1>3, <2>1, <2>2, PostOf
  <1>6. Shaped(v)
    BY <1>1, <1>4 DEF Shaped, WholeSteps, ChunkSteps, PublishSteps, NamedSteps, PartSteps, IdSteps
  <1>7. JobsGood' /\ job'[r] = v /\ \A q \in Requests : q # r => job'[q] = job[q]
    BY <1>2, <1>4, <1>5, <1>6, Posted, PostStep
  <1> QED BY <1>2, <1>4, <1>5, <1>6, <1>7

LEMMA ReserveKeeps ==
    ASSUME TokensAndBodies, LocalInv, NEW r \in Requests, Reserve(r)
    PROVE  LocalInv'
  <1> DEFINE t == job[r].of
  <1>1. job[r] \in Posts /\ Shaped(job[r]) /\ job[r].next = "reserve" /\ LocalTypes
    BY Posted DEF Reserve
  <1>2. UNCHANGED <<staging, store, bytes, overwritten, reverted, parts, temps, rows, registered, late>>
    BY DEF Reserve, folder
  <1>3. t \in Tokens /\ session \in [Tokens -> SessionFiles] /\ t \in Owners
    BY <1>1 DEF Shaped, WholeSteps, LocalTypes, DiskTypes, Owners
  <1>4. PICK who \in [Files -> Tokens \cup {None}] : FilesHeld(who)
    BY DEF LocalInv, FileInv
  <1>5. PostFile(who, job[r])
    BY <1>4 DEF FilesHeld
  <1>6. PICK own \in [FileIds -> Owners] : IdsOwned(own, ids)
    BY DEF LocalInv, IdInv
  <1>7. ClaimedOnce(rows) /\ (\A u \in Tokens : SessionUse(own, ids, session, rows, u))
    BY <1>6 DEF IdsOwned
  <1> HIDE DEF t
  <1>8. CASE session[t].reserved = 0
    <2>1. Draw /\ UNCHANGED answers
      BY <1>8 DEF Reserve, t
    <2>2. PICK more \in [FileIds -> Owners] : IdsOwned(more, ids + 1) /\ more[ids + 1] = t
      BY <1>1, <1>3, <1>6, <2>1, IdsGrow
    <2>3. ids' = ids + 1 /\ ids' \in 0 .. MaxIds /\ ids \in Nat /\ ids + 1 \in FileIds
      BY <2>1, DrawnTypes
    <2>4. PICK n : n = ids + 1
      OBVIOUS
    <2>5. /\ session' \in [Tokens -> SessionFiles]
          /\ \A u \in Tokens : /\ SessionUse(more, n, session', rows, u)
                               /\ session'[u].reserved = session[u].reserved \/ session[u].reserved = 0
          /\ JobsGood' /\ \A q \in Requests : q # r => job'[q] = job[q]
          /\ PostUse(more, n, session', rows', reverted', job'[r])
          /\ PostFile(who, job'[r]) /\ PostBytes(overwritten, store, bytes, staging, registered', job'[r])
      <3>1. CASE session' = [session EXCEPT ![t].reserved = ids + 1]
                 /\ job' = [job EXCEPT ![r].next = "open", ![r].id = ids + 1]
        <4>1. /\ session' \in [Tokens -> SessionFiles] /\ session'[t].reserved = ids + 1
              /\ \A u \in Tokens : /\ SessionUse(more, ids + 1, session', rows, u)
                                   /\ session'[u].reserved = session[u].reserved \/ session[u].reserved = 0
          BY <1>3, <1>8, <2>1, <2>2, <3>1, Reserves
        <4>2. ids + 1 \in 0 .. MaxIds /\ ids + 1 # 0 /\ ids + 1 \in 1 .. (ids + 1)
          BY <2>3
        <4>3. /\ JobsGood' /\ \A q \in Requests : q # r => job'[q] = job[q]
              /\ job'[r].next = "open" /\ job'[r].of = t /\ job'[r].id = ids + 1 /\ job'[r].file = job[r].file
          BY <1>1, <3>1, <4>2, OpensWith DEF t
        <4>4. PostUse(more, n, session', rows', reverted', job'[r])
          BY <2>2, <2>4, <4>1, <4>2, <4>3 DEF PostUse, Owned
        <4>5. PostFile(who, job'[r]) /\ PostBytes(overwritten, store, bytes, staging, registered', job'[r])
          BY <1>5, <4>3 DEF PostFile, PostBytes, t
        <4> QED BY <2>4, <4>1, <4>3, <4>4, <4>5
      <3>2. CASE Quit(r) /\ UNCHANGED session
        <4>1. \A u \in Tokens : SessionUse(more, n, session', rows, u)
          BY <2>2, <2>4, <3>2 DEF IdsOwned
        <4> QED BY <1>3, <3>2, <4>1, Quits, IdleUse
      <3> QED BY <1>8, <3>1, <3>2 DEF Reserve, t
    <2>6. LocalTypes'
      BY <1>1, <1>2, <2>3, <2>5 DEF LocalTypes, DiskTypes, RowTypes, LatesGood
    <2>7. IdsOwned(more, n)'
      BY <1>1, <1>2, <1>7, <2>1, <2>2, <2>4, <2>5, IdsStep
    <2>8. IdInv'
      BY <2>3, <2>4, <2>7 DEF IdInv
    <2>9. FilesHeld(who)'
      BY <1>2, <1>4, <2>5, FilesQuiet
    <2> QED BY <2>6, <2>8, <2>9 DEF LocalInv, FileInv
  <1>9. CASE session[t].reserved # 0
    <2> DEFINE i == session[t].reserved
    <2>1. i \in 0 .. MaxIds /\ i # 0 /\ i \in FileIds /\ UNCHANGED ids
      BY <1>3, <1>9 DEF Reserve, t, SessionFiles, FileIds, TokensAndBodies
    <2>2. i \in 1 .. ids /\ own[i] = t
      BY <1>3, <1>7, <2>1 DEF SessionUse, Owned
    <2> HIDE DEF i
    <2>3. CASE rows[i] = NoRow
      <3>1. job' = [job EXCEPT ![r].next = "open", ![r].id = i] /\ UNCHANGED <<session, answers>>
        BY <1>9, <2>3 DEF Reserve, t, i
      <3>2. /\ JobsGood' /\ \A q \in Requests : q # r => job'[q] = job[q]
            /\ job'[r].next = "open" /\ job'[r].of = t /\ job'[r].id = i /\ job'[r].file = job[r].file
        BY <1>1, <2>1, <3>1, OpensWith DEF t
      <3>3. LocalTypes'
        BY <1>1, <1>2, <2>1, <3>1, <3>2 DEF LocalTypes, DiskTypes, RowTypes, LatesGood
      <3>4. PostUse(own, ids, session', rows', reverted', job'[r])
        BY <1>3, <2>2, <3>1, <3>2 DEF PostUse, Owned, i
      <3>5. IdsOwned(own, ids)'
        BY <1>1, <1>2, <1>6, <1>7, <2>1, <3>1, <3>2, <3>4, IdsStep
      <3>6. PostFile(who, job'[r]) /\ PostBytes(overwritten, store, bytes, staging, registered', job'[r])
        BY <1>5, <3>2 DEF PostFile, PostBytes, t
      <3>7. FilesHeld(who)'
        BY <1>2, <1>4, <3>2, <3>6, FilesQuiet
      <3> QED BY <2>1, <3>3, <3>5, <3>7 DEF LocalInv, FileInv, IdInv
    <2>4. CASE rows[i] # NoRow
      <3>1. Answer(t, i) /\ Quit(r)
        BY <1>9, <2>4 DEF Reserve, t, i
      <3>2. session' = [session EXCEPT ![t].file = i] \/ UNCHANGED session
        BY <1>9, <2>4 DEF Reserve, t, i
      <3>3. rows[i].of = t
        BY <1>6, <2>1, <2>2, <2>4 DEF IdsOwned, RowUse
      <3>4. AnswerUse(rows, <<t, i>>)
        BY <1>3, <2>1, <3>3 DEF AnswerUse
      <3>5. /\ session' \in [Tokens -> SessionFiles]
            /\ \A u \in Tokens : session'[u].reserved = session[u].reserved
            /\ \A u \in Tokens : session'[u].file = session[u].file \/ (u = t /\ session'[u].file = i)
        BY <1>3, <2>1, <3>2 DEF SessionFiles
      <3>6. \A u \in Tokens : SessionUse(own, ids, session', rows, u)
        BY <1>7, <2>2, <2>4, <3>5 DEF SessionUse, Owned, Recorded
      <3>7. JobsGood' /\ job'[r] = Idle /\ \A q \in Requests : q # r => job'[q] = job[q]
        BY <3>1, Quits
      <3>8. LocalTypes'
        BY <1>1, <1>2, <2>1, <3>5, <3>7 DEF LocalTypes, DiskTypes, RowTypes, LatesGood
      <3>9. \A a \in answers' : a \in answers \/ AnswerUse(rows, a)
        BY <3>1, <3>4 DEF Answer
      <3>10. IdsOwned(own, ids)'
        BY <1>1, <1>2, <1>6, <1>7, <2>1, <3>5, <3>6, <3>7, <3>9, IdleUse, IdsStep
      <3>11. FilesHeld(who)'
        BY <1>2, <1>4, <3>7, IdleUse, FilesQuiet
      <3> QED BY <2>1, <3>8, <3>10, <3>11 DEF LocalInv, FileInv, IdInv
    <2> QED BY <2>3, <2>4
  <1> QED BY <1>8, <1>9

(* The temporary path of t is opened: the file there, or one that nothing has, is t's. *)
LEMMA OpenedWell ==
    ASSUME TokensAndBodies, LocalInv, NEW t \in Tokens, NEW left \in {"part", "mixed"}, Opened(t, left), UNCHANGED store
    PROVE  /\ Target(t) \in Files /\ staging' \in [Tokens -> Files \cup {0}] /\ staging'[t] = Target(t)
           /\ bytes' \in [Files -> Bodies \cup {None, "part", "mixed"}] /\ bytes'[Target(t)] = left
           /\ \A f \in Files : f # Target(t) => bytes'[f] = bytes[f]
           /\ \A u \in Tokens : u # t => staging'[u] = staging[u]
           /\ \A b \in Bodies : Good(overwritten, store, bytes, b) => Good(overwritten', store', bytes', b)
           /\ \E who \in [Files -> Tokens \cup {None}] :
                 /\ FilesHeld(who) /\ who[Target(t)] = t /\ StagedUse(who, staging', t)
                 /\ \A f \in Files : who[f] # t => bytes'[f] = bytes[f]
  <1> DEFINE g == Target(t)
  <1>1. PICK old \in [Files -> Tokens \cup {None}] : FilesHeld(old)
    BY DEF LocalInv, FileInv
  <1>2. /\ staging \in [Tokens -> Files \cup {0}] /\ bytes \in [Files -> Bodies \cup {None, "part", "mixed"}]
        /\ store \in [Bodies -> Files \cup {0}] /\ LocalTypes
    BY DEF LocalInv, LocalTypes, DiskTypes
  <1>3. g \in Files /\ \E who \in [Files -> Tokens \cup {None}] : FilesHeld(who) /\ who[g] = t
    <2>1. CASE staging[t] = 0
      <3>1. g \in Unused
        BY <2>1 DEF Opened, Target
      <3>2. g \in Files
        BY <3>1 DEF Unused
      <3> HIDE DEF g
      <3> QED BY <1>1, <1>2, <3>1, <3>2, FilesTake
    <2>2. CASE staging[t] # 0
      <3>1. g = staging[t] /\ g \in Files
        BY <1>2, <2>2 DEF Target
      <3>2. old[g] = t
        BY <1>1, <2>2, <3>1 DEF FilesHeld, StagedUse
      <3> QED BY <1>1, <3>1, <3>2
    <2> QED BY <2>1, <2>2
  <1>4. /\ staging' = [staging EXCEPT ![t] = g] /\ bytes' = [bytes EXCEPT ![g] = left]
        /\ overwritten' = overwritten \cup {b \in Bodies : store[b] = g}
    BY DEF Opened, Overwrite
  <1> HIDE DEF g
  <1>5. \A b \in Bodies : Good(overwritten, store, bytes, b) => Good(overwritten', store', bytes', b)
    BY <1>2, <1>3, <1>4 DEF Good
  <1>6. /\ staging' \in [Tokens -> Files \cup {0}] /\ staging'[t] = g
        /\ bytes' \in [Files -> Bodies \cup {None, "part", "mixed"}] /\ bytes'[g] = left
        /\ \A u \in Tokens : u # t => staging'[u] = staging[u]
        /\ \A f \in Files : f # g => bytes'[f] = bytes[f]
    BY <1>2, <1>3, <1>4
  <1>7. PICK who \in [Files -> Tokens \cup {None}] : FilesHeld(who) /\ who[g] = t
    BY <1>3
  <1>8. StagedUse(who, staging', t) /\ \A f \in Files : who[f] # t => bytes'[f] = bytes[f]
    BY <1>6, <1>7 DEF StagedUse
  <1> QED BY <1>3, <1>5, <1>6, <1>7, <1>8 DEF g

LEMMA TruncateWell ==
    ASSUME TokensAndBodies, LocalInv, NEW t \in Tokens, Truncate(t), UNCHANGED store
    PROVE  /\ Target(t) \in Files /\ staging' \in [Tokens -> Files \cup {0}]
           /\ bytes' \in [Files -> Bodies \cup {None, "part", "mixed"}] /\ bytes'[Target(t)] = "part"
           /\ \A u \in Tokens : u # t => staging'[u] = staging[u]
           /\ \A b \in Bodies : Good(overwritten, store, bytes, b) => Good(overwritten', store', bytes', b)
           /\ \E who \in [Files -> Tokens \cup {None}] :
                 /\ FilesHeld(who) /\ who[Target(t)] = t /\ StagedUse(who, staging', t)
                 /\ \A f \in Files : who[f] # t => bytes'[f] = bytes[f]
  <1>1. Opened(t, "part")
    BY DEF Truncate
  <1> QED BY <1>1, OpenedWell

LEMMA OpenKeeps ==
    ASSUME TokensAndBodies, LocalInv, NEW r \in Requests, Open(r)
    PROVE  LocalInv'
  <1> DEFINE t == job[r].of
             g == Target(t)
             v == [job[r] EXCEPT !.next = "body", !.file = g]
  <1>1. job[r] \in Posts /\ Shaped(job[r]) /\ job[r].next = "open" /\ LocalTypes /\ job \in [Requests -> Posts]
    BY Posted DEF Open
  <1>2. UNCHANGED <<session, store, reverted, parts, temps, ids, rows, registered, late, answers>>
    BY DEF Open, folder, database
  <1>3. t \in Tokens \ Chunked /\ job[r].id # 0
    BY <1>1 DEF Shaped, WholeSteps, IdSteps
  <1>4. Truncate(t)
    BY DEF Open
  <1>5. /\ g \in Files /\ staging' \in [Tokens -> Files \cup {0}]
        /\ bytes' \in [Files -> Bodies \cup {None, "part", "mixed"}] /\ bytes'[g] = "part"
        /\ \A u \in Tokens : u # t => staging'[u] = staging[u]
        /\ \A b \in Bodies : Good(overwritten, store, bytes, b) => Good(overwritten', store', bytes', b)
        /\ \E who \in [Files -> Tokens \cup {None}] :
              /\ FilesHeld(who) /\ who[g] = t /\ StagedUse(who, staging', t)
              /\ \A f \in Files : who[f] # t => bytes'[f] = bytes[f]
    <2> HIDE DEF t
    <2> QED BY <1>2, <1>3, <1>4, TruncateWell
  <1> HIDE DEF g
  <1>6. job' = [job EXCEPT ![r] = v]
    BY <1>1 DEF Open, Posts, g
  <1>7. v = Post("body", job[r].of, job[r].id, job[r].body, g, job[r].span)
    <2> DEFINE c1 == [job[r] EXCEPT !.next = "body"]
    <2>1. c1 = Post("body", job[r].of, job[r].id, job[r].body, job[r].file, job[r].span)
      BY <1>1 DEF Posts, Post
    <2> HIDE DEF c1
    <2>2. [c1 EXCEPT !.file = g] = Post("body", job[r].of, job[r].id, job[r].body, g, job[r].span)
      BY <2>1 DEF Post
    <2> QED BY <2>2 DEF c1
  <1> HIDE DEF v
  <1>8. v.next = "body" /\ v.of = job[r].of /\ v.id = job[r].id /\ v.body = job[r].body /\ v.file = g
    BY <1>7, PostFields
  <1>9. v \in Posts
    <2>1. /\ job[r].of \in Owners /\ job[r].id \in 0 .. MaxIds /\ job[r].body \in Bodies \cup {None}
          /\ job[r].span \in Spans
      BY <1>1, PostParts
    <2>2. "body" \in PostSteps /\ g \in Files \cup {0}
      BY <1>5 DEF PostSteps, WholeSteps
    <2> QED BY <1>7, <2>1, <2>2, PostOf
  <1>10. Shaped(v)
    BY <1>3, <1>5, <1>8 DEF Shaped, WholeSteps, ChunkSteps, PublishSteps, NamedSteps, PartSteps, IdSteps
  <1>11. JobsGood' /\ job'[r] = v /\ \A q \in Requests : q # r => job'[q] = job[q]
    BY <1>6, <1>8, <1>9, <1>10, Posted, PostStep
  <1>12. LocalTypes'
    BY <1>1, <1>2, <1>5, <1>11 DEF LocalTypes, DiskTypes, RowTypes, LatesGood
  <1>13. IdInv'
    BY <1>2, <1>8, <1>11, IdsSame, SameUse
  <1>14. PICK who \in [Files -> Tokens \cup {None}] :
              /\ FilesHeld(who) /\ who[g] = t /\ StagedUse(who, staging', t)
              /\ \A f \in Files : who[f] # t => bytes'[f] = bytes[f]
    BY <1>5
  <1>15. PostFile(who, v) /\ PostBytes(overwritten', store', bytes', staging', registered', v)
    BY <1>5, <1>8, <1>14 DEF PostFile, PostBytes
  <1>16. FilesHeld(who)'
    BY <1>2, <1>3, <1>5, <1>11, <1>14, <1>15, FilesOf
  <1> QED BY <1>12, <1>13, <1>16 DEF LocalInv, FileInv

LEMMA BodyKeeps ==
    ASSUME TokensAndBodies, LocalInv, NEW r \in Requests, Body(r)
    PROVE  LocalInv'
  <1> DEFINE t == job[r].of
             g == job[r].file
  <1>1. job[r] \in Posts /\ Shaped(job[r]) /\ job[r].next = "body" /\ LocalTypes /\ job \in [Requests -> Posts]
    BY Posted DEF Body
  <1>2. UNCHANGED <<session, store, overwritten, reverted, parts, temps, ids, rows, registered, late, answers>>
    BY DEF Body, folder, database
  <1>3. t \in Tokens /\ t \notin Chunked /\ job[r].id # 0 /\ g \in Files /\ g # 0
    BY <1>1, FilesAreNumbers DEF Shaped, WholeSteps, IdSteps
  <1>4. PICK who \in [Files -> Tokens \cup {None}] : FilesHeld(who)
    BY DEF LocalInv, FileInv
  <1>5. who[g] = t /\ bytes[g] \in {"part", "mixed"} /\ StagedUse(who, staging, t)
    BY <1>1, <1>3, <1>4 DEF FilesHeld, PostFile, PostBytes
  <1>6. /\ bytes \in [Files -> Bodies \cup {None, "part", "mixed"}] /\ store \in [Bodies -> Files \cup {0}]
        /\ staging \in [Tokens -> Files \cup {0}]
    BY <1>1 DEF LocalTypes, DiskTypes
  <1>7. ASSUME NEW b \in Bodies, bytes' = [bytes EXCEPT ![g] = b], UNCHANGED staging,
               IF Verified(r) THEN job' = [job EXCEPT ![r].next = "converge", ![r].body = b, ![r].file = 0] ELSE Quit(r)
        PROVE  LocalInv'
    <2>1. /\ bytes' \in [Files -> Bodies \cup {None, "part", "mixed"}] /\ bytes'[g] = b
          /\ \A f \in Files : f # g => bytes'[f] = bytes[f]
      BY <1>3, <1>6, <1>7
    <2>2. \A f \in Files : who[f] # t => bytes'[f] = bytes[f]
      BY <1>5, <2>1
    <2>3. \A c \in Bodies : Good(overwritten, store, bytes, c) => Good(overwritten', store', bytes', c)
      <3>1. "part" \notin Bodies /\ "mixed" \notin Bodies
        BY DEF TokensAndBodies
      <3> QED BY <1>2, <1>5, <1>6, <2>1, <3>1 DEF Good
    <2>4. CASE Verified(r)
      <3> DEFINE v == [job[r] EXCEPT !.next = "converge", !.body = b, !.file = 0]
      <3>1. job' = [job EXCEPT ![r] = v]
        BY <1>1, <1>7, <2>4 DEF Posts
      <3>2. v = Post("converge", job[r].of, job[r].id, b, 0, job[r].span)
        <4> DEFINE c1 == [job[r] EXCEPT !.next = "converge"]
        <4>1. c1 = Post("converge", job[r].of, job[r].id, job[r].body, job[r].file, job[r].span)
          BY <1>1 DEF Posts, Post
        <4> HIDE DEF c1
        <4> DEFINE c2 == [c1 EXCEPT !.body = b]
        <4>2. c2 = Post("converge", job[r].of, job[r].id, b, job[r].file, job[r].span)
          BY <4>1 DEF Post
        <4> HIDE DEF c2
        <4>3. [c2 EXCEPT !.file = 0] = Post("converge", job[r].of, job[r].id, b, 0, job[r].span)
          BY <4>2 DEF Post
        <4> QED BY <4>3 DEF c1, c2
      <3> HIDE DEF v
      <3>3. v.next = "converge" /\ v.of = job[r].of /\ v.id = job[r].id /\ v.body = b /\ v.file = 0
        BY <3>2, PostFields
      <3>4. v \in Posts
        <4>1. job[r].of \in Owners /\ job[r].id \in 0 .. MaxIds /\ job[r].span \in Spans
          BY <1>1, PostParts
        <4>2. "converge" \in PostSteps
          BY DEF PostSteps, PublishSteps
        <4> QED BY <3>2, <4>1, <4>2, PostOf
      <3>5. Shaped(v)
        BY <1>3, <3>3 DEF Shaped, WholeSteps, ChunkSteps, PublishSteps, PartSteps, IdSteps
      <3>6. JobsGood' /\ job'[r] = v /\ \A q \in Requests : q # r => job'[q] = job[q]
        BY <3>1, <3>3, <3>4, <3>5, Posted, PostStep
      <3>7. LocalTypes'
        BY <1>1, <1>2, <1>7, <2>1, <3>6 DEF LocalTypes, DiskTypes, RowTypes, LatesGood
      <3>8. IdInv'
        BY <1>2, <3>3, <3>6, IdsSame, SameUse
      <3>9. PostFile(who, v) /\ PostBytes(overwritten', store', bytes', staging', registered', v)
        BY <1>7, <2>1, <2>4, <3>3 DEF PostFile, PostBytes, Verified
      <3>10. FilesHeld(who)'
        BY <1>2, <1>3, <1>4, <1>5, <1>7, <2>2, <2>3, <3>6, <3>9, FilesOf
      <3> QED BY <3>7, <3>8, <3>10 DEF LocalInv, FileInv
    <2>5. CASE ~Verified(r)
      <3>1. JobsGood' /\ job'[r] = Idle /\ \A q \in Requests : q # r => job'[q] = job[q]
        BY <1>7, <2>5, Quits
      <3>2. LocalTypes'
        BY <1>1, <1>2, <1>7, <2>1, <3>1 DEF LocalTypes, DiskTypes, RowTypes, LatesGood
      <3>3. IdInv'
        BY <1>2, <3>1, IdsSame, IdleUse
      <3>4. FilesHeld(who)'
        BY <1>2, <1>3, <1>4, <1>5, <1>7, <2>2, <2>3, <3>1, IdleUse, FilesOf
      <3> QED BY <3>2, <3>3, <3>4 DEF LocalInv, FileInv
    <2> QED BY <2>4, <2>5
  <1>8. ASSUME staging' = Unlinked(t), Quit(r), UNCHANGED bytes
        PROVE  LocalInv'
    <2>1. JobsGood' /\ job'[r] = Idle /\ \A q \in Requests : q # r => job'[q] = job[q]
      BY <1>8, Quits
    <2>2. /\ staging' \in [Tokens -> Files \cup {0}]
          /\ \A u \in Tokens : u # t => staging'[u] = staging[u]
          /\ StagedUse(who, staging', t)
      BY <1>3, <1>4, <1>8, UnlinkedStaging
    <2>3. LocalTypes'
      BY <1>1, <1>2, <1>8, <2>1, <2>2 DEF LocalTypes, DiskTypes, RowTypes, LatesGood
    <2>4. IdInv'
      BY <1>2, <2>1, IdsSame, IdleUse
    <2>5. FilesHeld(who)'
      BY <1>2, <1>3, <1>4, <1>8, <2>1, <2>2, IdleUse, FilesOf
    <2> QED BY <2>3, <2>4, <2>5 DEF LocalInv, FileInv
  <1> QED BY <1>7, <1>8 DEF Body

(* What a step in the directory of the session t leaves: nothing of another *)
(* session changes, and no body that something refers to is lost.           *)
SessionsDone(own) ==
    \A u \in Tokens : SessionUse(own, ids, session', rows, u) /\ session'[u].reserved = session[u].reserved

FilesDone(who, t) ==
    /\ \A u \in Tokens : u # t => staging'[u] = staging[u]
    /\ StagedUse(who, staging', t)
    /\ \A f \in Files : who[f] # t => bytes'[f] = bytes[f]
    /\ \A b \in Bodies : Good(overwritten, store, bytes, b) => Good(overwritten', store', bytes', b)

LEMMA SessionsStay ==
    ASSUME NEW own, IdsOwned(own, ids), UNCHANGED session
    PROVE  SessionsDone(own)
  BY DEF IdsOwned, SessionsDone

LEMMA FilesStay ==
    ASSUME LocalInv, NEW who, FilesHeld(who), NEW t \in Tokens, UNCHANGED <<bytes, overwritten, store>>,
           staging' \in {staging, Unlinked(t)}
    PROVE  FilesDone(who, t) /\ staging' \in [Tokens -> Files \cup {0}]
  <1>1. CASE staging' = staging
    BY <1>1 DEF FilesHeld, FilesDone, LocalInv, LocalTypes, DiskTypes
  <1>2. CASE staging' = Unlinked(t)
    BY <1>2, UnlinkedStaging DEF FilesDone
  <1> QED BY <1>1, <1>2

LEMMA RemovedWell ==
    ASSUME TokensAndBodies, LocalInv, NEW t \in Chunked, Removed(t), UNCHANGED <<bytes, overwritten, store>>,
           NEW own, IdsOwned(own, ids), NEW who, FilesHeld(who)
    PROVE  DiskTypes' /\ SessionsDone(own) /\ FilesDone(who, t)
  <1>1. DiskTypes /\ t \in Tokens
    BY DEF LocalInv, LocalTypes, TokensAndBodies
  <1>2. /\ session' \in [Tokens -> SessionFiles]
        /\ \A u \in Tokens : session'[u].reserved = session[u].reserved /\ session'[u].file \in {0, session[u].file}
    <2>1. session' = [session EXCEPT ![t].file = 0] /\ session \in [Tokens -> SessionFiles] /\ 0 \in 0 .. MaxIds
      BY <1>1 DEF Removed, DiskTypes, TokensAndBodies
    <2> QED BY <1>1, <2>1 DEF SessionFiles
  <1>3. SessionsDone(own)
    BY <1>2 DEF SessionsDone, IdsOwned, SessionUse, Owned, Recorded
  <1>4. FilesDone(who, t) /\ staging' \in [Tokens -> Files \cup {0}]
    BY <1>1, FilesStay DEF Removed
  <1>5. /\ parts' \in [Chunked -> SUBSET [span : SUBSET Units, body : Bodies]]
        /\ temps' \subseteq [of : Chunked, span : SUBSET Units, body : Bodies]
    BY <1>1 DEF Removed, DiskTypes
  <1> QED BY <1>1, <1>2, <1>3, <1>4, <1>5 DEF DiskTypes

LEMMA MarkWell ==
    ASSUME TokensAndBodies, LocalInv, NEW w \in Posts, Shaped(w), Mark(w), UNCHANGED store,
           NEW own, IdsOwned(own, ids), PostUse(own, ids, session, rows, reverted, w), NEW who, FilesHeld(who)
    PROVE  DiskTypes' /\ SessionsDone(own) /\ FilesDone(who, w.of)
  <1>1. w.of \in Tokens /\ w.id # 0 /\ rows[w.id] # NoRow
    BY DEF Mark, Shaped, ChunkSteps, IdSteps, PostUse, TokensAndBodies
  <1>2. session' \in [Tokens -> SessionFiles] /\ SessionsDone(own)
    <2>1. CASE w.of \in closed
      BY <2>1, SessionsStay DEF Mark, LocalInv, LocalTypes, DiskTypes
    <2>2. CASE w.of \notin closed
      BY <1>1, <2>2, TombWell DEF Mark, SessionsDone
    <2> QED BY <2>1, <2>2
  <1>3. UNCHANGED <<staging, bytes, overwritten, parts, temps>>
    BY DEF Mark, folder
  <1>4. FilesDone(who, w.of)
    BY <1>1, <1>3, FilesStay
  <1> QED BY <1>2, <1>3, <1>4 DEF DiskTypes, LocalInv, LocalTypes

LEMMA WritePartWell ==
    ASSUME TokensAndBodies, LocalInv, NEW w \in Posts, Shaped(w), WritePart(w), UNCHANGED store,
           NEW own, IdsOwned(own, ids), NEW who, FilesHeld(who)
    PROVE  DiskTypes' /\ SessionsDone(own) /\ FilesDone(who, w.of)
  <1>1. w.of \in Chunked /\ w.of \in Tokens /\ w.body \in Bodies /\ w.span \in SUBSET Units
    BY DEF WritePart, Shaped, ChunkSteps, PartSteps, NamedSteps, TokensAndBodies
  <1>2. UNCHANGED <<session, staging, bytes, overwritten>> /\ DiskTypes
    BY DEF WritePart, LocalInv, LocalTypes
  <1>3. SessionsDone(own) /\ FilesDone(who, w.of)
    BY <1>1, <1>2, SessionsStay, FilesStay
  <1>4. Named(w) \subseteq temps
    BY DEF Named
  <1>5. temps' \subseteq [of : Chunked, span : SUBSET Units, body : Bodies]
    <2>1. [of |-> w.of, span |-> w.span, body |-> w.body] \in [of : Chunked, span : SUBSET Units, body : Bodies]
      BY <1>1
    <2>2. temps' \subseteq temps \cup {[of |-> w.of, span |-> w.span, body |-> w.body]}
      BY DEF WritePart
    <2> QED BY <1>2, <2>1, <2>2 DEF DiskTypes
  <1>6. parts' \in [Chunked -> SUBSET [span : SUBSET Units, body : Bodies]]
    <2> DEFINE new == {p \in parts[w.of] : p.span # w.span} \cup {[span |-> x.span, body |-> x.body] : x \in Named(w)}
    <2>1. new \subseteq [span : SUBSET Units, body : Bodies]
      BY <1>1, <1>2, <1>4 DEF DiskTypes
    <2>2. UNCHANGED parts \/ parts' = [parts EXCEPT ![w.of] = new]
      BY DEF WritePart
    <2> HIDE DEF new
    <2> QED BY <1>1, <1>2, <2>1, <2>2 DEF DiskTypes
  <1> QED BY <1>2, <1>3, <1>5, <1>6 DEF DiskTypes

LEMMA DropPayloadWell ==
    ASSUME TokensAndBodies, LocalInv, NEW w \in Posts, Shaped(w), DropPayload(w), UNCHANGED store,
           NEW own, IdsOwned(own, ids), NEW who, FilesHeld(who)
    PROVE  DiskTypes' /\ SessionsDone(own) /\ FilesDone(who, w.of)
  <1>1. w.of \in Chunked /\ w.of \in Tokens /\ DiskTypes
    BY DEF DropPayload, Shaped, ChunkSteps, TokensAndBodies, LocalInv, LocalTypes
  <1>2. FilesDone(who, w.of) /\ staging' \in [Tokens -> Files \cup {0}]
    BY <1>1, FilesStay DEF DropPayload
  <1>3. SessionsDone(own)
    BY SessionsStay DEF DropPayload
  <1>4. /\ parts' \in [Chunked -> SUBSET [span : SUBSET Units, body : Bodies]]
        /\ temps' \subseteq [of : Chunked, span : SUBSET Units, body : Bodies]
    BY <1>1 DEF DropPayload, DiskTypes
  <1> QED BY <1>1, <1>2, <1>3, <1>4 DEF DiskTypes, DropPayload

LEMMA FillWell ==
    ASSUME TokensAndBodies, LocalInv, NEW w \in Posts, Shaped(w), Assemble(w), w.next = "fill", UNCHANGED store,
           NEW own, IdsOwned(own, ids), NEW who, FilesHeld(who), who[w.file] = w.of
    PROVE  DiskTypes' /\ SessionsDone(own) /\ FilesDone(who, w.of)
  <1>1. w.of \in Chunked /\ w.of \in Tokens /\ w.file \in Files /\ DiskTypes
    BY DEF Shaped, ChunkSteps, TokensAndBodies, LocalInv, LocalTypes
  <1>2. SessionsDone(own) /\ UNCHANGED <<session, parts, temps>>
    BY SessionsStay DEF Assemble, folder
  <1>3. CASE After(w).next = "verify"
    <2> DEFINE c == Content(Listed(w))
    <2>1. c \in Bodies \cup {None, "part", "mixed"}
      BY DEF Content
    <2> HIDE DEF c
    <2>2. /\ bytes' = [bytes EXCEPT ![w.file] = c] /\ UNCHANGED staging
          /\ overwritten' = overwritten \cup {b \in Bodies : store[b] = w.file /\ b # bytes'[w.file]}
      BY <1>3 DEF Assemble, c
    <2>3. /\ bytes' \in [Files -> Bodies \cup {None, "part", "mixed"}]
          /\ \A f \in Files : f # w.file => bytes'[f] = bytes[f]
      BY <1>1, <2>1, <2>2 DEF DiskTypes
    <2>4. \A b \in Bodies : Good(overwritten, store, bytes, b) => Good(overwritten', store', bytes', b)
      BY <1>1, <2>2, <2>3 DEF Good, DiskTypes
    <2>5. FilesDone(who, w.of)
      BY <1>1, <2>2, <2>3, <2>4 DEF FilesDone, FilesHeld
    <2> QED BY <1>1, <1>2, <2>2, <2>3, <2>5 DEF DiskTypes
  <1>4. CASE After(w).next # "verify"
    <2>1. staging' = Unlinked(w.of) /\ UNCHANGED <<bytes, overwritten>>
      BY <1>4 DEF Assemble
    <2>2. FilesDone(who, w.of) /\ staging' \in [Tokens -> Files \cup {0}]
      BY <1>1, <2>1, FilesStay
    <2> QED BY <1>1, <1>2, <2>1, <2>2 DEF DiskTypes
  <1> QED BY <1>3, <1>4

LEMMA AssembleWell ==
    ASSUME TokensAndBodies, LocalInv, NEW w \in Posts, Shaped(w), Assemble(w), w.next = "assemble", UNCHANGED store,
           NEW own, IdsOwned(own, ids)
    PROVE  /\ DiskTypes' /\ SessionsDone(own)
           /\ \E who \in [Files -> Tokens \cup {None}] :
                 /\ FilesHeld(who) /\ FilesDone(who, w.of)
                 /\ Covered(w.of) => Target(w.of) \in Files /\ who[Target(w.of)] = w.of
  <1>1. w.of \in Chunked /\ w.of \in Tokens /\ DiskTypes
    BY DEF Shaped, ChunkSteps, TokensAndBodies, LocalInv, LocalTypes
  <1>2. SessionsDone(own) /\ UNCHANGED <<session, parts, temps>>
    BY SessionsStay DEF Assemble, folder
  <1>3. CASE Covered(w.of)
    <2>1. Truncate(w.of)
      BY <1>3 DEF Assemble
    <2>2. /\ Target(w.of) \in Files /\ staging' \in [Tokens -> Files \cup {0}]
          /\ bytes' \in [Files -> Bodies \cup {None, "part", "mixed"}] /\ bytes'[Target(w.of)] = "part"
          /\ \A u \in Tokens : u # w.of => staging'[u] = staging[u]
          /\ \A b \in Bodies : Good(overwritten, store, bytes, b) => Good(overwritten', store', bytes', b)
          /\ \E who \in [Files -> Tokens \cup {None}] :
                /\ FilesHeld(who) /\ who[Target(w.of)] = w.of /\ StagedUse(who, staging', w.of)
                /\ \A f \in Files : who[f] # w.of => bytes'[f] = bytes[f]
      BY <1>1, <2>1, TruncateWell
    <2>3. PICK who \in [Files -> Tokens \cup {None}] :
                /\ FilesHeld(who) /\ who[Target(w.of)] = w.of /\ StagedUse(who, staging', w.of)
                /\ \A f \in Files : who[f] # w.of => bytes'[f] = bytes[f]
      BY <2>2
    <2>4. FilesDone(who, w.of)
      BY <2>2, <2>3 DEF FilesDone
    <2>5. DiskTypes'
      BY <1>1, <1>2, <2>2 DEF DiskTypes
    <2> QED BY <1>2, <2>2, <2>3, <2>4, <2>5
  <1>4. CASE ~Covered(w.of)
    <2>1. UNCHANGED <<staging, bytes, overwritten>>
      BY <1>4 DEF Assemble
    <2>2. PICK who \in [Files -> Tokens \cup {None}] : FilesHeld(who)
      BY DEF LocalInv, FileInv
    <2>3. FilesDone(who, w.of)
      BY <1>1, <2>1, <2>2, FilesStay
    <2>4. DiskTypes'
      BY <1>1, <1>2, <2>1 DEF DiskTypes
    <2> QED BY <1>2, <1>4, <2>2, <2>3, <2>4
  <1> QED BY <1>3, <1>4

LEMMA TaskWell ==
    ASSUME TokensAndBodies, LocalInv, NEW w \in Posts, Shaped(w), Task(w), UNCHANGED store,
           NEW own, IdsOwned(own, ids), PostUse(own, ids, session, rows, reverted, w),
           \A who : FilesHeld(who) /\ w.next = "fill" => who[w.file] = w.of
    PROVE  /\ DiskTypes' /\ SessionsDone(own)
           /\ \E who \in [Files -> Tokens \cup {None}] :
                 /\ FilesHeld(who) /\ FilesDone(who, w.of)
                 /\ w.next = "assemble" /\ Covered(w.of) => Target(w.of) \in Files /\ who[Target(w.of)] = w.of
  <1>1. PICK who \in [Files -> Tokens \cup {None}] : FilesHeld(who)
    BY DEF LocalInv, FileInv
  <1>2. CASE w.next = "assemble" /\ Assemble(w)
    BY <1>2, AssembleWell
  <1>3. CASE w.next = "fill" /\ Assemble(w)
    BY <1>1, <1>3, FillWell
  <1>4. CASE WritePart(w) /\ w.next # "assemble"
    BY <1>1, <1>4, WritePartWell
  <1>5. CASE DropPayload(w) /\ w.next # "assemble"
    BY <1>1, <1>5, DropPayloadWell
  <1>6. CASE Discard(w) /\ w.next # "assemble"
    <2>1. w.of \in Chunked /\ Removed(w.of) /\ UNCHANGED <<bytes, overwritten>>
      BY <1>6 DEF Discard, Shaped, ChunkSteps
    <2> QED BY <1>1, <1>6, <2>1, RemovedWell
  <1>7. CASE Mark(w) /\ w.next # "assemble"
    BY <1>1, <1>7, MarkWell
  <1>8. \/ w.next \in {"assemble", "fill"} /\ Assemble(w)
        \/ w.next # "assemble" /\ (WritePart(w) \/ DropPayload(w) \/ Discard(w) \/ Mark(w))
    BY DEF Task, WritePart, Assemble, DropPayload, Discard, Mark
  <1> QED BY <1>2, <1>3, <1>4, <1>5, <1>6, <1>7, <1>8

LEMMA ThenFields ==
    ASSUME NEW w \in Posts, NEW k
    PROVE  LET v == Then(w, k)
           IN  /\ v.next = k /\ v.of = w.of /\ v.id = w.id /\ v.body = w.body /\ v.file = w.file /\ v.span = w.span
               /\ k \in PostSteps => v \in Posts
  BY DEF Then, Posts, PostSteps

LEMMA FillPost ==
    ASSUME NEW w \in Posts, NEW g, NEW q
    PROVE  [Then(w, "fill") EXCEPT !.file = g, !.span = q] = Post("fill", w.of, w.id, w.body, g, q)
  <1> DEFINE c1 == [w EXCEPT !.next = "fill"]
  <1>1. c1 = Post("fill", w.of, w.id, w.body, w.file, w.span)
    BY DEF Posts, Post
  <1> HIDE DEF c1
  <1> DEFINE c2 == [c1 EXCEPT !.file = g]
  <1>2. c2 = Post("fill", w.of, w.id, w.body, g, w.span)
    BY <1>1 DEF Post
  <1> HIDE DEF c2
  <1>3. [c2 EXCEPT !.span = q] = Post("fill", w.of, w.id, w.body, g, q)
    BY <1>2 DEF Post
  <1> QED BY <1>3 DEF c1, c2, Then

(* What follows a task. *)
LEMMA AfterWell ==
    ASSUME TokensAndBodies, LocalInv, NEW w \in Posts, Shaped(w), w.next \in Tasks, After(w).next # "done",
           w.next = "assemble" /\ Covered(w.of) => Target(w.of) \in Files
    PROVE  /\ After(w) \in Posts /\ Shaped(After(w)) /\ After(w).of = w.of /\ After(w).id = w.id
           /\ After(w).next \in {"create", "rename", "fill", "verify"}
           /\ After(w).next \in {"create", "rename", "verify"} => After(w).file = w.file
           /\ After(w).next = "fill" => w.next = "assemble" /\ Covered(w.of) /\ After(w).file = Target(w.of)
  <1>1. w.of \in Chunked
    BY DEF Tasks, Shaped, ChunkSteps
  <1>2. CASE w.next = "assemble"
    <2> DEFINE g == Target(w.of)
               q == {p.span : p \in parts[w.of]}
    <2>1. Covered(w.of)
      <3>1. ~Covered(w.of) => After(w) = Then(w, "done")
        BY <1>2 DEF After
      <3> QED BY <3>1, ThenFields
    <2>2. After(w) = [Then(w, "fill") EXCEPT !.file = g, !.span = q]
      BY <1>2, <2>1 DEF After
    <2>3. After(w) = Post("fill", w.of, w.id, w.body, g, q)
      BY <2>2, FillPost
    <2>4. q \in Spans
      BY <1>1 DEF LocalInv, LocalTypes, DiskTypes, Spans
    <2>5. g \in Files
      BY <1>2, <2>1
    <2> HIDE DEF g, q
    <2>6. After(w).next = "fill" /\ After(w).of = w.of /\ After(w).id = w.id /\ After(w).file = g
      BY <2>3, PostFields
    <2>7. After(w) \in Posts
      <3>1. w.of \in Owners /\ w.id \in 0 .. MaxIds /\ w.body \in Bodies \cup {None}
        BY PostParts
      <3>2. "fill" \in PostSteps
        BY DEF PostSteps, ChunkSteps
      <3> QED BY <2>3, <2>4, <2>5, <3>1, <3>2, PostOf
    <2>8. Shaped(After(w))
      BY <1>1, <1>2, <2>5, <2>6 DEF Shaped, WholeSteps, ChunkSteps, PublishSteps, NamedSteps, PartSteps, IdSteps
    <2> QED BY <1>2, <2>1, <2>6, <2>7, <2>8 DEF g
  <1>3. CASE w.next # "assemble"
    <2>1. \E k \in {"create", "rename", "verify"} :
             /\ After(w) = Then(w, k) /\ (k \in {"create", "rename"} => w.next \in {"part", "create"})
             /\ (k = "verify" => w.next = "fill")
      <3>1. \E k \in {"create", "rename", "verify", "done"} :
             /\ After(w) = Then(w, k) /\ (k \in {"create", "rename"} => w.next \in {"part", "create"})
             /\ (k = "verify" => w.next = "fill")
        <4>1. CASE w.next = "part"
          BY <4>1 DEF After
        <4>2. CASE w.next = "create"
          BY <4>2 DEF After
        <4>3. CASE w.next = "fill"
          BY <4>3 DEF After
        <4>4. CASE w.next \notin {"part", "create", "fill"}
          BY <1>3, <4>4 DEF After
        <4> QED BY <4>1, <4>2, <4>3, <4>4
      <3> QED BY <3>1, ThenFields
    <2>2. PICK k \in {"create", "rename", "verify"} :
             /\ After(w) = Then(w, k) /\ (k \in {"create", "rename"} => w.next \in {"part", "create"})
             /\ (k = "verify" => w.next = "fill")
      BY <2>1
    <2> DEFINE v == Then(w, k)
    <2>3. /\ v.next = k /\ v.of = w.of /\ v.id = w.id /\ v.body = w.body /\ v.file = w.file /\ v.span = w.span
          /\ v \in Posts
      BY ThenFields DEF PostSteps, ChunkSteps
    <2> HIDE DEF v
    <2>4. Shaped(v)
      <3>1. CASE k \in {"create", "rename"}
        <4>1. w.body \in Bodies /\ w.span \in SUBSET Units
          BY <2>2, <3>1 DEF Shaped, NamedSteps, PartSteps
        <4> QED BY <1>1, <2>3, <3>1, <4>1 DEF Shaped, WholeSteps, ChunkSteps, PublishSteps, IdSteps
      <3>2. CASE k = "verify"
        <4>1. w.id # 0
          BY <2>2, <3>2 DEF Shaped, IdSteps
        <4> QED BY <1>1, <2>3, <3>2, <4>1 DEF Shaped, WholeSteps, ChunkSteps, PublishSteps, NamedSteps, PartSteps, IdSteps
      <3> QED BY <3>1, <3>2
    <2> QED BY <2>2, <2>3, <2>4 DEF v
  <1> QED BY <1>2, <1>3

LEMMA TaskSteps ==
    ASSUME NEW w, Task(w)
    PROVE  w.next \in Tasks
  BY DEF Task, WritePart, Assemble, DropPayload, Discard, Mark, Tasks

(* The steps of a request in its session's directory. *)
LEMMA DirectoryStep ==
    ASSUME TokensAndBodies, LocalInv, NEW r \in Requests, NEW t \in Chunked, job[r].of = t,
           UNCHANGED <<store, reverted, ids, rows, registered, late>>, DiskTypes', JobsGood',
           \A q \in Requests : q # r => job'[q] = job[q],
           \A a \in answers' : a \in answers \/ AnswerUse(rows, a),
           NEW own \in [FileIds -> Owners], IdsOwned(own, ids), SessionsDone(own), 
           PostUse(own, ids, session, rows, reverted, job'[r]),
           NEW who \in [Files -> Tokens \cup {None}], FilesHeld(who), FilesDone(who, t), PostFile(who, job'[r]),
           job'[r].next \in {"idle", "create", "rename", "fill", "verify"},
           job'[r].id # 0 => job'[r].of \in Tokens
    PROVE  LocalInv'
  <1>1. LocalTypes /\ t \in Tokens
    BY DEF LocalInv, TokensAndBodies
  <1>2. LocalTypes'
    BY <1>1 DEF LocalTypes, RowTypes, LatesGood
  <1>3. \A u \in Tokens : SessionUse(own, ids, session', rows', u) /\ session'[u].reserved = session[u].reserved
    BY DEF SessionsDone
  <1>4. PostUse(own, ids, session', rows', reverted', job'[r])
    BY <1>3 DEF PostUse
  <1>5. ClaimedOnce(rows)
    BY DEF IdsOwned
  <1>6. IdsOwned(own, ids)'
    BY <1>1, <1>3, <1>4, <1>5, IdsStep
  <1>7. PostBytes(overwritten', store', bytes', staging', registered', job'[r])
    BY DEF PostBytes
  <1>8. FilesHeld(who)'
    BY <1>1, <1>7, FilesOf DEF FilesDone
  <1> QED BY <1>2, <1>6, <1>8 DEF LocalInv, IdInv, FileInv

LEMMA RunTaskKeeps ==
    ASSUME TokensAndBodies, LocalInv, NEW r \in Requests, RunTask(r)
    PROVE  LocalInv'
  <1> DEFINE w == job[r]
             n == After(w)
  <1>1. w \in Posts /\ Shaped(w) /\ w.of \in Chunked /\ w.of \in Tokens /\ LocalTypes
    BY Posted DEF RunTask, TokensAndBodies
  <1>2. UNCHANGED <<store, reverted, ids, rows, registered, late>>
    BY DEF RunTask, database
  <1>3. PICK own \in [FileIds -> Owners] : IdsOwned(own, ids)
    BY DEF LocalInv, IdInv
  <1>4. PostUse(own, ids, session, rows, reverted, w)
    BY <1>3 DEF IdsOwned
  <1>5. \A who : FilesHeld(who) => PostFile(who, w)
    BY DEF FilesHeld
  <1> HIDE DEF w, n
  <1>6. ASSUME Task(w), job' = [job EXCEPT ![r] = IF n.next = "done" THEN Idle ELSE n],
               IF w.next = "clean" THEN Answer(w.of, w.id) ELSE UNCHANGED answers
        PROVE  LocalInv'
    <2>1. \A who : FilesHeld(who) /\ w.next = "fill" => who[w.file] = w.of
      <3>1. w.next = "fill" => w.file # 0
        BY <1>1, FilesAreNumbers DEF Shaped
      <3> QED BY <1>5, <3>1 DEF PostFile
    <2>2. /\ DiskTypes' /\ SessionsDone(own)
          /\ \E who \in [Files -> Tokens \cup {None}] :
                /\ FilesHeld(who) /\ FilesDone(who, w.of)
                /\ w.next = "assemble" /\ Covered(w.of) => Target(w.of) \in Files /\ who[Target(w.of)] = w.of
      BY <1>1, <1>2, <1>3, <1>4, <1>6, <2>1, TaskWell
    <2>3. PICK who \in [Files -> Tokens \cup {None}] :
                /\ FilesHeld(who) /\ FilesDone(who, w.of)
                /\ w.next = "assemble" /\ Covered(w.of) => Target(w.of) \in Files /\ who[Target(w.of)] = w.of
      BY <2>2
    <2>4. w.next \in Tasks
      BY <1>6, TaskSteps
    <2>5. \A a \in answers' : a \in answers \/ AnswerUse(rows, a)
      <3>1. w.next = "clean" => w.id # 0 /\ rows[w.id] # NoRow
        BY <1>1, <1>4 DEF Shaped, IdSteps, PostUse
      <3>2. w.next = "clean" => AnswerUse(rows, <<w.of, w.id>>)
        BY <1>1, <1>3, <1>4, <3>1, RowOfPost
      <3> QED BY <1>6, <3>2 DEF Answer
    <2>6. CASE n.next = "done"
      <3>1. Quit(r)
        BY <1>6, <2>6 DEF Quit
      <3>2. JobsGood' /\ job'[r] = Idle /\ \A q \in Requests : q # r => job'[q] = job[q]
        BY <3>1, Quits
      <3>3. PostUse(own, ids, session, rows, reverted, job'[r]) /\ PostFile(who, job'[r])
            /\ job'[r].next = "idle" /\ job'[r].id = 0
        BY <3>2, IdleUse, IdlePost
      <3> QED BY <1>1, <1>2, <1>3, <2>2, <2>3, <2>5, <3>2, <3>3, DirectoryStep DEF w
    <2>7. CASE n.next # "done"
      <3>1. /\ n \in Posts /\ Shaped(n) /\ n.of = w.of /\ n.id = w.id
            /\ n.next \in {"create", "rename", "fill", "verify"}
            /\ n.next \in {"create", "rename", "verify"} => n.file = w.file
            /\ n.next = "fill" => w.next = "assemble" /\ Covered(w.of) /\ n.file = Target(w.of)
        BY <1>1, <2>3, <2>4, <2>7, AfterWell DEF n
      <3>2. JobsGood' /\ job'[r] = n /\ \A q \in Requests : q # r => job'[q] = job[q]
        BY <1>6, <2>7, <3>1, Posted, PostStep DEF w
      <3>3. PostUse(own, ids, session, rows, reverted, n)
        BY <1>4, <3>1 DEF PostUse
      <3>4. PostFile(who, n)
        BY <1>5, <2>3, <3>1 DEF PostFile
      <3> QED BY <1>1, <1>2, <1>3, <2>2, <2>3, <2>5, <3>1, <3>2, <3>3, <3>4, DirectoryStep DEF w
    <2> QED BY <2>6, <2>7
  <1>7. ASSUME Quit(r), UNCHANGED <<session, bytes, overwritten, answers>>, staging' \in {staging, Unlinked(w.of)},
               \/ temps' = temps \ Named(w) /\ UNCHANGED parts
               \/ UNCHANGED temps /\ \E left \in SUBSET parts[w.of] : parts' = [parts EXCEPT ![w.of] = left]
        PROVE  LocalInv'
    <2>1. PICK who \in [Files -> Tokens \cup {None}] : FilesHeld(who)
      BY DEF LocalInv, FileInv
    <2>2. FilesDone(who, w.of) /\ staging' \in [Tokens -> Files \cup {0}]
      BY <1>1, <1>2, <1>7, <2>1, FilesStay
    <2>3. SessionsDone(own)
      BY <1>3, <1>7, SessionsStay
    <2>4. temps' \subseteq temps
      BY <1>7
    <2>5. parts' \in [Chunked -> SUBSET [span : SUBSET Units, body : Bodies]]
      BY <1>1, <1>7 DEF LocalTypes, DiskTypes
    <2>6. DiskTypes'
      BY <1>1, <1>2, <1>7, <2>2, <2>4, <2>5 DEF LocalTypes, DiskTypes
    <2>7. JobsGood' /\ job'[r] = Idle /\ \A q \in Requests : q # r => job'[q] = job[q]
      BY <1>7, Quits
    <2>8. PostUse(own, ids, session, rows, reverted, job'[r]) /\ PostFile(who, job'[r])
          /\ job'[r].next = "idle" /\ job'[r].id = 0
      BY <2>7, IdleUse, IdlePost
    <2> QED BY <1>1, <1>2, <1>3, <1>7, <2>1, <2>2, <2>3, <2>6, <2>7, <2>8, DirectoryStep DEF w
  <1> QED BY <1>6, <1>7 DEF RunTask, w, n

LEMMA SweepKeeps ==
    ASSUME TokensAndBodies, LocalInv, NEW t \in Chunked, Sweep(t)
    PROVE  LocalInv'
  <1>1. LocalTypes /\ t \in Tokens
    BY DEF LocalInv, TokensAndBodies
  <1>2. Removed(t) /\ UNCHANGED <<store, bytes, overwritten, reverted, ids, rows, registered, job, late, answers>>
    BY DEF Sweep, database
  <1>3. PICK own \in [FileIds -> Owners] : IdsOwned(own, ids)
    BY DEF LocalInv, IdInv
  <1>4. PICK who \in [Files -> Tokens \cup {None}] : FilesHeld(who)
    BY DEF LocalInv, FileInv
  <1>5. DiskTypes' /\ SessionsDone(own) /\ FilesDone(who, t)
    BY <1>2, <1>3, <1>4, RemovedWell
  <1>6. LocalTypes'
    BY <1>1, <1>2, <1>5 DEF LocalTypes, RowTypes, LatesGood, JobsGood
  <1>7. \A u \in Tokens : SessionUse(own, ids, session', rows', u) /\ session'[u].reserved = session[u].reserved
    BY <1>2, <1>5 DEF SessionsDone
  <1>8. ClaimedOnce(rows)
    BY <1>3 DEF IdsOwned
  <1>9. IdsOwned(own, ids)'
    BY <1>1, <1>2, <1>3, <1>7, <1>8, IdsStep
  <1>10. FilesHeld(who)'
    BY <1>1, <1>2, <1>4, <1>5, FilesStep DEF FilesDone
  <1> QED BY <1>2, <1>6, <1>9, <1>10 DEF LocalInv, IdInv, FileInv

LEMMA CreateReferenceKeeps ==
    ASSUME TokensAndBodies, LocalInv, NEW r \in Requests, CreateReference(r)
    PROVE  LocalInv'
  <1> DEFINE c == job[r].of
             new == [path |-> registered, of |-> c]
  <1>1. job[r] \in Posts /\ Shaped(job[r]) /\ job[r].next = "claim" /\ LocalTypes /\ Quit(r) /\ Draw
    BY Posted DEF CreateReference
  <1>2. UNCHANGED <<session, staging, store, bytes, overwritten, reverted, parts, temps, registered, late>>
    BY DEF CreateReference, disk, folder
  <1>3. c \in Claims /\ c \in Owners /\ c \notin Tokens /\ c # None
    BY <1>1 DEF Shaped, Owners, TokensAndBodies
  <1>4. PICK who \in [Files -> Tokens \cup {None}] : FilesHeld(who)
    BY DEF LocalInv, FileInv
  <1>5. registered \in Bodies /\ Good(overwritten, store, bytes, registered)
    BY <1>1, <1>4 DEF FilesHeld, PostBytes, LocalTypes, RowTypes
  <1>6. PICK own \in [FileIds -> Owners] : IdsOwned(own, ids)
    BY DEF LocalInv, IdInv
  <1>7. PICK more \in [FileIds -> Owners] : IdsOwned(more, ids + 1) /\ more[ids + 1] = c
    BY <1>1, <1>3, <1>6, IdsGrow
  <1>8. ids' = ids + 1 /\ ids' \in 0 .. MaxIds /\ ids \in Nat /\ ids + 1 \in FileIds
    BY <1>1, DrawnTypes
  <1>9. PICK n : n = ids + 1
    OBVIOUS
  <1>10. rows[n] = NoRow /\ rows \in [FileIds -> [path : Bodies \cup {None}, of : Owners]]
    <2>1. ~(ids + 1 <= ids)
      BY <1>8
    <2> QED BY <1>1, <1>6, <1>8, <1>9, <2>1 DEF IdsOwned, RowUse, LocalTypes, RowTypes
  <1>11. JobsGood' /\ job'[r] = Idle /\ \A q \in Requests : q # r => job'[q] = job[q]
    BY <1>1, Quits
  <1>12. new \in [path : Bodies \cup {None}, of : Owners] /\ new.of = c /\ new.path = registered
    BY <1>3, <1>5
  <1>13. rows' = rows \/ (Claimed(c) = {} /\ rows' = [rows EXCEPT ![n] = new])
    BY <1>9 DEF CreateReference
  <1> HIDE DEF c, new
  <1>14. /\ rows' \in [FileIds -> [path : Bodies \cup {None}, of : Owners]]
         /\ \A i \in FileIds : i # n => rows'[i] = rows[i]
         /\ rows'[n] = rows[n] \/ (Claimed(c) = {} /\ rows'[n] = new)
    BY <1>8, <1>9, <1>10, <1>12, <1>13
  <1>15. \A i \in FileIds : rows'[i] = rows[i] \/ (rows[i] = NoRow /\ RowUse(more, n, session', rows', reverted', i))
    <2>1. n <= n /\ n \in FileIds
      BY <1>8, <1>9
    <2> QED BY <1>3, <1>7, <1>9, <1>10, <1>12, <1>14, <2>1 DEF RowUse
  <1>16. ClaimedOnce(rows')
    <2>1. ClaimedOnce(rows)
      BY <1>6 DEF IdsOwned
    <2>2. CASE rows'[n] = rows[n]
      BY <1>14, <2>1, <2>2 DEF ClaimedOnce
    <2>3. CASE Claimed(c) = {} /\ rows'[n] = new
      <3>1. \A i \in FileIds : rows[i].of # c
        BY <2>3 DEF Claimed
      <3> QED BY <1>12, <1>14, <2>1, <2>3, <3>1 DEF ClaimedOnce
    <2> QED BY <1>14, <2>2, <2>3
  <1>17. \A a \in answers' : a \in answers \/ AnswerUse(rows', a)
    <2> SUFFICES ASSUME NEW i \in FileIds, rows'[i].of = c, Answer(c, i)
                 PROVE  \A a \in answers' : a \in answers \/ AnswerUse(rows', a)
      BY DEF CreateReference, c
    <2> QED BY <1>3 DEF Answer, AnswerUse
  <1>18. \A u \in Tokens : SessionUse(more, n, session', rows', u)
    <2> SUFFICES ASSUME NEW u \in Tokens PROVE SessionUse(more, n, session', rows', u)
      OBVIOUS
    <2>1. SessionUse(more, n, session, rows, u)
      BY <1>7, <1>9 DEF IdsOwned
    <2>2. session[u].file = 0 \/ session[u].file \in FileIds
      BY DEF LocalInv, LocalTypes, DiskTypes, SessionFiles, FileIds, TokensAndBodies
    <2> QED BY <1>2, <1>10, <1>14, <2>1, <2>2 DEF SessionUse, Recorded
  <1>19. LocalTypes'
    BY <1>1, <1>2, <1>8, <1>11, <1>14 DEF LocalTypes, DiskTypes, RowTypes, LatesGood
  <1>20. IdsOwned(more, n)'
    BY <1>1, <1>2, <1>7, <1>9, <1>11, <1>15, <1>16, <1>17, <1>18, IdleUse, IdsStep
  <1>21. IdInv'
    BY <1>8, <1>9, <1>20 DEF IdInv
  <1>22. \A i \in FileIds : rows'[i] = rows[i] \/ RowBytes(overwritten, store, bytes, rows', i)
    BY <1>5, <1>12, <1>14 DEF RowBytes
  <1>23. FilesHeld(who)'
    BY <1>2, <1>4, <1>11, <1>22, IdleUse, FilesQuiet
  <1> QED BY <1>19, <1>21, <1>23 DEF LocalInv, FileInv

LEMMA CrashKeeps ==
    ASSUME TokensAndBodies, LocalInv, Crash
    PROVE  LocalInv'
  <1>1. /\ UNCHANGED <<session, staging, store, bytes, overwritten, reverted, parts, temps, ids, rows, registered, answers>>
        /\ late' = {} /\ \A r \in Requests : job'[r] = Idle
    BY DEF Crash, disk, database, folder
  <1>2. JobsGood'
    <2>1. job' \in [Requests -> Posts] /\ Shaped(Idle) /\ Idle.of \notin Tokens
      BY IdlePost DEF Crash, TokensAndBodies
    <2>2. \A r \in Requests : Shaped(job[r])'
      BY <1>1, <2>1 DEF Shaped
    <2> QED BY <1>1, <2>1, <2>2 DEF JobsGood
  <1>3. LocalTypes'
    BY <1>1, <1>2 DEF LocalInv, LocalTypes, DiskTypes, RowTypes, LatesGood
  <1>4. IdInv'
    BY <1>1, IdleUse, IdsSame
  <1>5. PICK who \in [Files -> Tokens \cup {None}] : FilesHeld(who)
    BY DEF LocalInv, FileInv
  <1>6. FilesHeld(who)'
    BY <1>1, <1>5, IdleUse, FilesQuiet
  <1> QED BY <1>3, <1>4, <1>6 DEF LocalInv, FileInv

(* A session file that is written late. *)
LEMMA StateWriteWell ==
    ASSUME TokensAndBodies, LocalInv, NEW t \in Tokens, NEW now \in SessionFiles
    PROVE  /\ StateWrite(t, now) \in StateWrites /\ StateWrite(t, now).next = "state"
           /\ StateWrite(t, now).of = t /\ StateWrite(t, now).now = now /\ StateWrite(t, now).was = session[t]
  BY DEF StateWrite, StateWrites, LocalInv, LocalTypes, DiskTypes

LEMMA StateIsNoPost == \A w \in StateWrites : w \notin Posts /\ w.next = "state"
  BY DEF StateWrites, Posts, WholeSteps, ChunkSteps, PublishSteps

LEMMA DropKeeps ==
    ASSUME TokensAndBodies, LocalInv, NEW r \in Requests, Drop(r)
    PROVE  LocalInv'
  <1> DEFINE t == job[r].of
  <1>1. job[r] \in Posts /\ Shaped(job[r]) /\ LocalTypes /\ Quit(r) /\ late' = late \cup UnderWay(r)
    BY Posted DEF Drop
  <1>2. UNCHANGED <<session, staging, store, bytes, overwritten, reverted, parts, temps, rows, registered, answers>>
    BY DEF Drop, disk, folder
  <1>3. JobsGood' /\ job'[r] = Idle /\ \A q \in Requests : q # r => job'[q] = job[q]
    BY <1>1, Quits
  <1>4. PICK own \in [FileIds -> Owners] : IdsOwned(own, ids)
    BY DEF LocalInv, IdInv
  <1>5. ClaimedOnce(rows) /\ (\A u \in Tokens : SessionUse(own, ids, session, rows, u))
        /\ PostUse(own, ids, session, rows, reverted, job[r])
    BY <1>4 DEF IdsOwned
  <1>6. PICK who \in [Files -> Tokens \cup {None}] : FilesHeld(who)
    BY DEF LocalInv, FileInv
  <1>7. PostFile(who, job[r]) /\ PostBytes(overwritten, store, bytes, staging, registered, job[r])
    BY <1>6 DEF FilesHeld
  <1>8. session \in [Tokens -> SessionFiles] /\ ids \in 0 .. MaxIds /\ rows \in [FileIds -> [path : Bodies \cup {None}, of : Owners]]
    BY <1>1 DEF LocalTypes, DiskTypes, RowTypes
  <1>9. job[r].next = "reserve" \/ (job[r].next = "tomb" /\ t \notin Chunked) => t \in Tokens /\ t \in Owners
    BY <1>1 DEF Shaped, WholeSteps, PublishSteps, Owners
  <1>10. CASE job[r].next = "reserve" /\ session[t].reserved = 0
    <2> DEFINE now == [session[t] EXCEPT !.reserved = ids + 1]
               w == StateWrite(t, now)
    <2>1. Draw /\ UnderWay(r) = {w}
      BY <1>10 DEF Drop, UnderWay, Tasks
    <2>2. PICK more \in [FileIds -> Owners] : IdsOwned(more, ids + 1) /\ more[ids + 1] = t
      BY <1>1, <1>4, <1>9, <1>10, <2>1, IdsGrow
    <2>3. ids' = ids + 1 /\ ids' \in 0 .. MaxIds /\ ids \in Nat /\ ids + 1 \in 1 .. (ids + 1) /\ ids + 1 # 0
      BY <2>1, DrawnTypes
    <2>4. PICK n : n = ids + 1
      OBVIOUS
    <2>5. now \in SessionFiles /\ now.reserved = ids + 1 /\ now.file = session[t].file
      BY <1>8, <1>9, <1>10, <2>3 DEF SessionFiles
    <2> HIDE DEF now
    <2>6. w \in StateWrites /\ w.next = "state" /\ w.of = t /\ w.now = now /\ w.was = session[t]
      BY <1>9, <1>10, <2>5, StateWriteWell
    <2> HIDE DEF w
    <2>7. SessionUse(more, n, session, rows, t) /\ \A u \in Tokens : SessionUse(more, n, session, rows, u)
      BY <1>9, <1>10, <2>2, <2>4 DEF IdsOwned
    <2>8. LateUse(more, n, session', rows', reverted', w)
      BY <1>2, <1>10, <2>2, <2>3, <2>4, <2>5, <2>6, <2>7 DEF LateUse, StateUse, Owned, SessionUse
    <2>9. LatesGood'
      <3>1. \A x \in late' : x \in late \/ x \in StateWrites
        BY <1>1, <2>1, <2>6
      <3> QED BY <1>1, <3>1 DEF LatesGood, LeftOver, LocalTypes
    <2>10. LocalTypes'
      BY <1>1, <1>2, <1>3, <2>3, <2>9 DEF LocalTypes, DiskTypes, RowTypes
    <2>11. IdsOwned(more, n)'
      BY <1>1, <1>2, <1>3, <1>5, <2>1, <2>2, <2>4, <2>7, <2>8, IdleUse, IdsStep
    <2>12. IdInv'
      BY <2>3, <2>4, <2>11 DEF IdInv
    <2>13. LateFile(who, w) /\ LateBytes(overwritten, store, bytes, w)
      BY <2>6, StateIsNoPost DEF LateFile, LateBytes
    <2>14. FilesHeld(who)'
      BY <1>1, <1>2, <1>3, <1>6, <2>1, <2>13, IdleUse, FilesQuiet
    <2> QED BY <2>10, <2>12, <2>14 DEF LocalInv, FileInv
  <1>11. CASE ~(job[r].next = "reserve" /\ session[t].reserved = 0)
    <2>1. UNCHANGED ids
      BY <1>11 DEF Drop
    <2>2. ASSUME NEW w \in UnderWay(r)
          PROVE  /\ LeftOver(w) /\ LateUse(own, ids, session, rows, reverted, w)
                 /\ LateFile(who, w) /\ LateBytes(overwritten, store, bytes, w)
      <3>1. CASE job[r].next \in {"open", "body", "link", "unlink", "commit"} \cup Tasks
        <4>1. w = job[r]
          BY <2>2, <3>1 DEF UnderWay, Tasks
        <4>2. w.next \in {"fill", "body"} => w.file # 0
          BY <1>1, <4>1, FilesAreNumbers DEF Shaped
        <4>3. w \notin StateWrites
          BY <1>1, <4>1, StateIsNoPost
        <4> QED BY <1>1, <1>5, <1>7, <3>1, <4>1, <4>2, <4>3 DEF LeftOver, LateUse, LateFile, LateBytes, PostFile, PostBytes
      <3>2. CASE job[r].next \in {"tomb", "retomb"} /\ t \in Chunked
        <4>1. w = Then(job[r], "mark")
          BY <2>2, <3>2 DEF UnderWay, Tasks
        <4>2. w.next = "mark" /\ w.of = t /\ w.id = job[r].id /\ w \in Posts
          BY <1>1, <4>1, ThenFields DEF PostSteps, ChunkSteps
        <4>3. Shaped(w)
          <5>1. job[r].id # 0
            BY <1>1, <3>2 DEF Shaped, IdSteps, PublishSteps
          <5> QED BY <3>2, <4>2, <5>1 DEF Shaped, WholeSteps, ChunkSteps, PublishSteps, NamedSteps, PartSteps, IdSteps
        <4>4. w \notin StateWrites
          BY <4>2, StateIsNoPost
        <4>5. PostUse(own, ids, session, rows, reverted, w)
          BY <1>5, <3>2, <4>2 DEF PostUse
        <4> QED BY <4>2, <4>3, <4>4, <4>5 DEF LeftOver, LateUse, LateFile, LateBytes, Tasks
      <3>3. CASE \/ job[r].next = "reserve" /\ session[t].reserved # 0 /\ rows[session[t].reserved] # NoRow
                 \/ job[r].next = "tomb" /\ t \notin Chunked
        <4> DEFINE i == IF job[r].next = "reserve" THEN session[t].reserved ELSE job[r].id
                   now == [session[t] EXCEPT !.file = i]
        <4>1. w = StateWrite(t, now)
          BY <2>2, <3>3 DEF UnderWay, Tasks
        <4>2. t \in Tokens
          BY <1>9, <3>3
        <4>3. i \in 0 .. MaxIds /\ i # 0 /\ Owned(own, ids, i, t) /\ rows[i] # NoRow
          <5>1. CASE job[r].next = "reserve"
            BY <1>5, <1>8, <3>3, <4>2, <5>1 DEF SessionFiles, SessionUse
          <5>2. CASE job[r].next = "tomb"
            BY <1>1, <1>5, <5>2 DEF Posts, PostUse, Shaped, IdSteps, PublishSteps
          <5> QED BY <3>3, <5>1, <5>2
        <4>4. session[t].reserved # 0
          <5>1. CASE job[r].next = "reserve"
            BY <3>3, <5>1
          <5>2. CASE job[r].next = "tomb"
            BY <1>1, <1>5, <5>2 DEF PostUse, Shaped, IdSteps, PublishSteps
          <5> QED BY <3>3, <5>1, <5>2
        <4> HIDE DEF i
        <4>5. now \in SessionFiles /\ now.reserved = session[t].reserved /\ now.file = i
          BY <1>8, <4>2, <4>3 DEF SessionFiles
        <4> HIDE DEF now
        <4>6. w \in StateWrites /\ w.next = "state" /\ w.of = t /\ w.now = now /\ w.was = session[t]
          BY <4>1, <4>2, <4>5, StateWriteWell
        <4>7. StateUse(own, ids, rows, w)
          BY <1>5, <4>2, <4>3, <4>4, <4>5, <4>6 DEF StateUse, SessionUse, Recorded
        <4> QED BY <4>6, <4>7, StateIsNoPost DEF LeftOver, LateUse, LateFile, LateBytes
      <3>4. CASE ~(\/ job[r].next \in {"open", "body", "link", "unlink", "commit"} \cup Tasks
                   \/ job[r].next \in {"tomb", "retomb"} /\ t \in Chunked
                   \/ job[r].next = "reserve" /\ session[t].reserved # 0 /\ rows[session[t].reserved] # NoRow
                   \/ job[r].next = "tomb" /\ t \notin Chunked)
        <4>1. UnderWay(r) = {}
          BY <1>11, <3>4 DEF UnderWay
        <4> QED BY <2>2, <4>1
      <3> QED BY <3>1, <3>2, <3>3, <3>4
    <2>3. LatesGood'
      <3>1. \A x \in late' : LeftOver(x)
        BY <1>1, <2>2 DEF LatesGood, LocalTypes
      <3> QED BY <3>1 DEF LatesGood, LeftOver, Shaped
    <2>4. LocalTypes'
      BY <1>1, <1>2, <1>3, <2>1, <2>3 DEF LocalTypes, DiskTypes, RowTypes
    <2>5. \A x \in late' : x \in late \/ LateUse(own, ids, session, rows, reverted, x)
      BY <1>1, <2>2
    <2>6. IdsOwned(own, ids)'
      BY <1>1, <1>2, <1>3, <1>4, <1>5, <2>1, <2>5, IdleUse, IdsStep
    <2>7. \A x \in late' : x \in late \/ (LateFile(who, x) /\ LateBytes(overwritten, store, bytes, x))
      BY <1>1, <2>2
    <2>8. FilesHeld(who)'
      BY <1>2, <1>3, <1>6, <2>7, IdleUse, FilesQuiet
    <2> QED BY <2>1, <2>4, <2>6, <2>8 DEF LocalInv, IdInv, FileInv
  <1> QED BY <1>10, <1>11

(* A late step, in three parts. *)
LEMMA LateLeaves ==
    ASSUME LocalInv, \A v \in late' : v \in late \/ LeftOver(v), UNCHANGED job, DiskTypes', RowTypes'
    PROVE  LocalTypes'
  <1>1. \A v \in late' : LeftOver(v)
    BY DEF LocalInv, LatesGood, LocalTypes
  <1>2. LatesGood'
    BY <1>1 DEF LatesGood, LeftOver, Shaped
  <1> QED BY <1>2 DEF LocalInv, LocalTypes, JobsGood

LEMMA LateIds ==
    ASSUME TokensAndBodies, LocalInv, UNCHANGED <<ids, job, answers>>,
           NEW own \in [FileIds -> Owners], IdsOwned(own, ids), reverted \subseteq reverted',
           \A u \in Tokens :
              /\ SessionUse(own, ids, session', rows', u)
              /\ \/ session'[u].reserved = session[u].reserved \/ session[u].reserved = 0
                 \/ u \in reverted' /\ session'[u].reserved # 0,
           \A i \in FileIds :
              rows'[i] = rows[i] \/ (rows[i] = NoRow /\ RowUse(own, ids, session', rows', reverted', i)),
           ClaimedOnce(rows'),
           \A v \in late' : v \in late \/ LateUse(own, ids, session', rows', reverted', v)
    PROVE  IdInv'
  <1>1. IdsOwned(own, ids)'
    BY IdsStep DEF LocalInv
  <1> QED BY <1>1 DEF IdInv

LEMMA LateFiles ==
    ASSUME TokensAndBodies, LocalInv, NEW t \in Tokens, UNCHANGED job,
           NEW who \in [Files -> Tokens \cup {None}], FilesHeld(who), FilesDone(who, t),
           t \in Chunked \/ Spoils(t),
           \A b \in Bodies : store[b] # 0 => store'[b] # 0,
           \A v \in late' : v \in late \/ (LateFile(who, v) /\ LateBytes(overwritten', store', bytes', v)),
           \A i \in FileIds : rows'[i] = rows[i] \/ RowBytes(overwritten', store', bytes', rows', i),
           registered' = registered \/ (registered = None /\ registered' # None /\ Good(overwritten', store', bytes', registered'))
    PROVE  FileInv'
  <1>1. FilesHeld(who)'
    BY FilesStep DEF FilesDone, LocalInv
  <1> QED BY <1>1 DEF FileInv

LEMMA LateTypes ==
    ASSUME TokensAndBodies, LocalInv, NEW w \in late
    PROVE  /\ w.next # "state" => w \in Posts /\ Shaped(w) /\ w \notin StateWrites /\ w.of \in Tokens
           /\ w.next = "state" => w \in StateWrites
           /\ w.next \in {"link", "unlink", "commit"} => w.body \in Bodies /\ w.id # 0
           /\ w.next \in Tasks => w.of \in Chunked
           /\ w.next = "body" => w.file \in Files
  <1>1. LeftOver(w)
    BY DEF LocalInv, LocalTypes, LatesGood
  <1>2. CASE w \in StateWrites
    BY <1>2, StateIsNoPost DEF Tasks
  <1>3. CASE w \in Posts /\ Shaped(w) /\ w.next \in {"open", "body", "link", "unlink", "commit"} \cup Tasks
    <2>1. w.next # "state" /\ w \notin StateWrites
      BY <1>3, StateIsNoPost DEF Tasks
    <2>2. w.next \in Tasks => w.of \in Chunked
      BY <1>3 DEF Shaped, Tasks, ChunkSteps
    <2>3. w.next \in {"link", "unlink", "commit"} => w.body \in Bodies /\ w.id # 0 /\ w.of \in Tokens
      BY <1>3 DEF Shaped, PublishSteps, NamedSteps, IdSteps
    <2>4. (w.next \in {"open", "body"} => w.of \in Tokens) /\ (w.next = "body" => w.file \in Files)
      BY <1>3 DEF Shaped, WholeSteps
    <2> QED BY <1>3, <2>1, <2>2, <2>3, <2>4 DEF TokensAndBodies
  <1> QED BY <1>1, <1>2, <1>3 DEF LeftOver

LEMMA LateKeeps ==
    ASSUME TokensAndBodies, LocalInv, NEW w \in late, LateStep(w), UNCHANGED <<ids, job, answers>>
    PROVE  LocalInv'
  <1>1. /\ w.next # "state" => w \in Posts /\ Shaped(w) /\ w \notin StateWrites /\ w.of \in Tokens
        /\ w.next = "state" => w \in StateWrites
        /\ w.next \in {"link", "unlink", "commit"} => w.body \in Bodies /\ w.id # 0
        /\ w.next \in Tasks => w.of \in Chunked
        /\ w.next = "body" => w.file \in Files
    BY LateTypes
  <1>2. w.of \in Tokens /\ LocalTypes
    BY <1>1 DEF StateWrites, LocalInv
  <1>3. PICK own \in [FileIds -> Owners] : IdsOwned(own, ids)
    BY DEF LocalInv, IdInv
  <1>4. /\ LateUse(own, ids, session, rows, reverted, w) /\ ClaimedOnce(rows)
        /\ \A u \in Tokens : SessionUse(own, ids, session, rows, u)
    BY <1>3 DEF IdsOwned
  <1>5. PICK who \in [Files -> Tokens \cup {None}] : FilesHeld(who)
    BY DEF LocalInv, FileInv
  <1>6. \A any : FilesHeld(any) => LateFile(any, w) /\ LateBytes(overwritten, store, bytes, w)
    BY DEF FilesHeld
  <1>7. CASE w.next = "link" /\ Links(w) /\ late' = (late \ {w}) \cup {[w EXCEPT !.next = "unlink"]}
             /\ UNCHANGED <<folder, bytes, session, reverted, staging, rows, registered>>
    <2> DEFINE v == [w EXCEPT !.next = "unlink"]
    <2>1. UNCHANGED <<parts, temps, bytes, session, reverted, staging, rows, registered>>
      BY <1>7 DEF folder
    <2>2. v.next = "unlink" /\ v.of = w.of /\ v.id = w.id /\ v.body = w.body /\ v \in Posts
      BY <1>1, <1>7, ThenFields DEF Then, PostSteps, PublishSteps
    <2> HIDE DEF v
    <2>3. Shaped(v) /\ v \notin StateWrites
      <3>1. v \notin StateWrites
        BY <2>2, StateIsNoPost
      <3> QED BY <1>1, <1>7, <2>2, <3>1 DEF Shaped, WholeSteps, ChunkSteps, PublishSteps, PartSteps, IdSteps
    <2>4. /\ store' \in [Bodies -> Files \cup {0}]
          /\ \A b \in Bodies : Good(overwritten, store, bytes, b) => Good(overwritten', store', bytes', b)
          /\ \A b \in Bodies : store[b] # 0 => store'[b] # 0
      BY <1>1, <1>2, <1>7, <2>1, LinksGood
    <2>5. DiskTypes' /\ RowTypes'
      BY <1>2, <2>1, <2>4 DEF LocalTypes, DiskTypes, RowTypes
    <2>6. FilesDone(who, w.of)
      BY <1>2, <1>5, <2>1, <2>4 DEF FilesDone, FilesHeld
    <2>7. LateUse(own, ids, session', rows', reverted', v)
      BY <1>1, <1>4, <1>7, <2>1, <2>2, <2>3 DEF LateUse, PostUse
    <2>8. LeftOver(v) /\ LateFile(who, v) /\ LateBytes(overwritten', store', bytes', v)
      BY <2>2, <2>3 DEF LeftOver, LateFile, LateBytes
    <2>9. \A x \in late' : x \in late \/ x = v
      BY <1>7 DEF v
    <2>10. LocalTypes'
      BY <2>5, <2>8, <2>9, LateLeaves
    <2>11. IdInv'
      BY <1>3, <1>4, <2>1, <2>7, <2>9, LateIds
    <2>12. FileInv'
      BY <1>2, <1>5, <2>1, <2>4, <2>6, <2>8, <2>9, LateFiles, NothingSpoilt
    <2> QED BY <2>10, <2>11, <2>12 DEF LocalInv
  <1>8. CASE w.next = "unlink" /\ staging' = Unlinked(w.of) /\ late' = late \ {w}
             /\ UNCHANGED <<folder, bytes, overwritten, session, reverted, store, rows, registered>>
    <2>1. UNCHANGED <<parts, temps, bytes, overwritten, session, reverted, store, rows, registered>>
      BY <1>8 DEF folder
    <2>2. FilesDone(who, w.of) /\ staging' \in [Tokens -> Files \cup {0}] /\ staging'[w.of] = 0
      BY <1>2, <1>5, <1>8, <2>1, FilesStay, UnlinkedStaging
    <2>3. DiskTypes' /\ RowTypes'
      BY <1>2, <2>1, <2>2 DEF LocalTypes, DiskTypes, RowTypes
    <2>4. late' \subseteq late
      BY <1>8
    <2>5. LocalTypes'
      BY <2>3, <2>4, LateLeaves
    <2>6. IdInv'
      BY <1>3, <1>4, <2>1, <2>4, LateIds
    <2>7. FileInv'
      BY <1>2, <1>5, <2>1, <2>2, <2>4, LateFiles, NothingSpoilt
    <2> QED BY <2>5, <2>6, <2>7 DEF LocalInv
  <1>9. CASE w.next = "commit" /\ Commits(w) /\ late' = late \ {w}
             /\ UNCHANGED <<folder, bytes, overwritten, session, reverted, staging, store>>
    <2>1. UNCHANGED <<parts, temps, bytes, overwritten, session, reverted, staging, store>>
      BY <1>9 DEF folder
    <2>2. PostUse(own, ids, session, rows, reverted, w) /\ Good(overwritten, store, bytes, w.body)
      BY <1>1, <1>4, <1>5, <1>6, <1>9 DEF LateUse, LateBytes
    <2>3. /\ rows' \in [FileIds -> [path : Bodies \cup {None}, of : Owners]] /\ registered' \in Bodies \cup {None}
          /\ \A u \in Tokens : SessionUse(own, ids, session', rows', u)
          /\ \A i \in FileIds :
                rows'[i] = rows[i] \/ (rows[i] = NoRow /\ RowUse(own, ids, session', rows', reverted', i))
          /\ ClaimedOnce(rows')
          /\ \A i \in FileIds : rows'[i] = rows[i] \/ RowBytes(overwritten', store', bytes', rows', i)
          /\ registered' = registered \/ (registered = None /\ registered' # None /\ Good(overwritten', store', bytes', registered'))
          /\ rows'[w.id] # NoRow
      BY <1>1, <1>2, <1>3, <1>9, <2>1, <2>2, CommitsWell
    <2>4. DiskTypes' /\ RowTypes'
      BY <1>2, <2>1, <2>3 DEF LocalTypes, DiskTypes, RowTypes
    <2>5. FilesDone(who, w.of)
      BY <1>2, <1>5, <2>1, FilesStay
    <2>6. late' \subseteq late
      BY <1>9
    <2>7. LocalTypes'
      BY <2>4, <2>6, LateLeaves
    <2>8. IdInv'
      BY <1>3, <2>1, <2>3, <2>6, LateIds
    <2>9. FileInv'
      BY <1>2, <1>5, <2>1, <2>3, <2>5, <2>6, LateFiles, NothingSpoilt
    <2> QED BY <2>7, <2>8, <2>9 DEF LocalInv
  <1>10. CASE w.next = "state" /\ WriteState(w) /\ late' = late \ {w}
             /\ UNCHANGED <<folder, bytes, overwritten, staging, store, rows, registered>>
    <2>1. UNCHANGED <<parts, temps, bytes, overwritten, staging, store, rows, registered>>
      BY <1>10 DEF folder
    <2>2. w \in StateWrites /\ StateUse(own, ids, rows, w) /\ w.now \in SessionFiles
      BY <1>1, <1>4, <1>10 DEF LateUse, StateWrites
    <2>3. /\ session' \in [Tokens -> SessionFiles] /\ session'[w.of] = w.now
          /\ \A u \in Tokens : u # w.of => session'[u] = session[u]
      BY <1>2, <1>10, <2>2 DEF WriteState, LocalTypes, DiskTypes
    <2>4. reverted \subseteq reverted' /\ (session[w.of] # w.was => w.of \in reverted')
      BY <1>10 DEF WriteState
    <2>5. \A u \in Tokens :
              /\ SessionUse(own, ids, session', rows', u)
              /\ \/ session'[u].reserved = session[u].reserved \/ session[u].reserved = 0
                 \/ u \in reverted' /\ session'[u].reserved # 0
      BY <1>4, <2>1, <2>2, <2>3, <2>4 DEF SessionUse, StateUse
    <2>6. DiskTypes' /\ RowTypes'
      BY <1>2, <2>1, <2>3 DEF LocalTypes, DiskTypes, RowTypes
    <2>7. FilesDone(who, w.of)
      BY <1>2, <1>5, <2>1, FilesStay
    <2>8. late' \subseteq late
      BY <1>10
    <2>9. LocalTypes'
      BY <2>6, <2>8, LateLeaves
    <2>10. IdInv'
      BY <1>3, <1>4, <2>1, <2>4, <2>5, <2>8, LateIds
    <2>11. FileInv'
      BY <1>2, <1>5, <2>1, <2>7, <2>8, LateFiles, NothingSpoilt
    <2> QED BY <2>9, <2>10, <2>11 DEF LocalInv
  <1>11. CASE late' = late \ {w} /\ UNCHANGED <<disk, rows, registered>>
    <2>1. UNCHANGED <<session, parts, temps, bytes, overwritten, staging, store, reverted, rows, registered>>
      BY <1>11 DEF folder, disk
    <2>2. DiskTypes' /\ RowTypes'
      BY <1>2, <2>1 DEF LocalTypes, DiskTypes, RowTypes
    <2>3. FilesDone(who, w.of)
      BY <1>2, <1>5, <2>1, FilesStay
    <2>4. late' \subseteq late
      BY <1>11
    <2>5. LocalTypes'
      BY <2>2, <2>4, LateLeaves
    <2>6. IdInv'
      BY <1>3, <1>4, <2>1, <2>4, LateIds
    <2>7. FileInv'
      BY <1>2, <1>5, <2>1, <2>3, <2>4, LateFiles, NothingSpoilt
    <2> QED BY <2>5, <2>6, <2>7 DEF LocalInv
  <1>12. CASE w.next \in Tasks /\ Task(w) /\ UNCHANGED <<store, reverted, rows, registered>>
              /\ late' = (late \ {w}) \cup (IF After(w).next \in {"done", "verify"} THEN {} ELSE {After(w)})
    <2>1. w \in Posts /\ Shaped(w) /\ w \notin StateWrites /\ w.of \in Chunked
      BY <1>1, <1>12 DEF Tasks
    <2>2. PostUse(own, ids, session, rows, reverted, w)
      BY <1>4, <2>1 DEF LateUse
    <2>3. \A any : FilesHeld(any) /\ w.next = "fill" => any[w.file] = w.of
      BY <1>6, <2>1 DEF LateFile
    <2>4. /\ DiskTypes' /\ SessionsDone(own)
          /\ \E any \in [Files -> Tokens \cup {None}] :
                /\ FilesHeld(any) /\ FilesDone(any, w.of)
                /\ w.next = "assemble" /\ Covered(w.of) => Target(w.of) \in Files /\ any[Target(w.of)] = w.of
      BY <1>3, <1>12, <2>1, <2>2, <2>3, TaskWell
    <2>5. PICK holder \in [Files -> Tokens \cup {None}] :
                /\ FilesHeld(holder) /\ FilesDone(holder, w.of)
                /\ w.next = "assemble" /\ Covered(w.of) => Target(w.of) \in Files /\ holder[Target(w.of)] = w.of
      BY <2>4
    <2>6. \A u \in Tokens : SessionUse(own, ids, session', rows', u) /\ session'[u].reserved = session[u].reserved
      BY <1>12, <2>4 DEF SessionsDone
    <2>7. RowTypes' /\ reverted \subseteq reverted' /\ ClaimedOnce(rows')
      BY <1>2, <1>4, <1>12 DEF LocalTypes, RowTypes
    <2>8. CASE After(w).next \in {"done", "verify"}
      <3>1. late' \subseteq late
        BY <1>12, <2>8
      <3>2. LocalTypes'
        BY <2>4, <2>7, <3>1, LateLeaves
      <3>3. IdInv'
        BY <1>3, <1>12, <2>6, <2>7, <3>1, LateIds
      <3>4. FileInv'
        BY <1>2, <1>12, <2>1, <2>5, <3>1, LateFiles, NothingSpoilt
      <3> QED BY <3>2, <3>3, <3>4 DEF LocalInv
    <2>9. CASE After(w).next \notin {"done", "verify"}
      <3> DEFINE v == After(w)
      <3>1. /\ v \in Posts /\ Shaped(v) /\ v.of = w.of /\ v.id = w.id
            /\ v.next \in {"create", "rename", "fill", "verify"}
            /\ v.next = "fill" => w.next = "assemble" /\ Covered(w.of) /\ v.file = Target(w.of)
        BY <1>12, <2>1, <2>5, <2>9, AfterWell
      <3>2. \A x \in late' : x \in late \/ x = v
        BY <1>12, <2>9
      <3>3. v.next \in {"create", "rename", "fill"}
        BY <2>9, <3>1
      <3> HIDE DEF v
      <3>4. LeftOver(v) /\ v \notin StateWrites
        BY <3>1, <3>3, StateIsNoPost DEF LeftOver, Tasks
      <3>5. LateUse(own, ids, session', rows', reverted', v)
        BY <1>2, <1>12, <2>2, <2>6, <3>1, <3>3, <3>4 DEF LateUse, PostUse
      <3>6. LateFile(holder, v) /\ LateBytes(overwritten', store', bytes', v)
        BY <2>5, <3>1, <3>3 DEF LateFile, LateBytes
      <3>7. LocalTypes'
        BY <2>4, <2>7, <3>2, <3>4, LateLeaves
      <3>8. IdInv'
        BY <1>3, <1>12, <2>6, <2>7, <3>2, <3>5, LateIds
      <3>9. FileInv'
        BY <1>2, <1>12, <2>1, <2>5, <3>2, <3>6, LateFiles, NothingSpoilt
      <3> QED BY <3>7, <3>8, <3>9 DEF LocalInv
    <2> QED BY <2>8, <2>9
  <1>13. CASE /\ \/ w.next = "open" /\ Opened(w.of, "mixed")
                 \/ w.next = "body" /\ Overwrite(w.file, "mixed") /\ UNCHANGED staging
              /\ late' = late \ {w}
              /\ UNCHANGED <<folder, session, reverted, store, rows, registered>>
    <2>1. UNCHANGED <<parts, temps, session, reverted, store, rows, registered>> /\ late' \subseteq late
      BY <1>13 DEF folder
    <2>2. /\ staging' \in [Tokens -> Files \cup {0}] /\ bytes' \in [Files -> Bodies \cup {None, "part", "mixed"}]
          /\ Spoils(w.of)
          /\ \E any \in [Files -> Tokens \cup {None}] : FilesHeld(any) /\ FilesDone(any, w.of)
      <3>1. CASE w.next = "open" /\ Opened(w.of, "mixed")
        <4>1. PICK t \in Tokens : t = w.of
          BY <1>2
        <4>2. /\ Target(t) \in Files /\ staging' \in [Tokens -> Files \cup {0}] /\ staging'[t] = Target(t)
              /\ bytes' \in [Files -> Bodies \cup {None, "part", "mixed"}] /\ bytes'[Target(t)] = "mixed"
              /\ \A f \in Files : f # Target(t) => bytes'[f] = bytes[f]
              /\ \A u \in Tokens : u # t => staging'[u] = staging[u]
              /\ \A b \in Bodies : Good(overwritten, store, bytes, b) => Good(overwritten', store', bytes', b)
              /\ \E any \in [Files -> Tokens \cup {None}] :
                    /\ FilesHeld(any) /\ any[Target(t)] = t /\ StagedUse(any, staging', t)
                    /\ \A f \in Files : any[f] # t => bytes'[f] = bytes[f]
          BY <2>1, <3>1, <4>1, OpenedWell
        <4>3. Spoils(t)
          BY <4>2 DEF Spoils
        <4> QED BY <4>1, <4>2, <4>3 DEF FilesDone
      <3>2. CASE w.next = "body" /\ Overwrite(w.file, "mixed") /\ UNCHANGED staging
        <4>1. w.file \in Files /\ who[w.file] = w.of
          BY <1>1, <1>5, <1>6, <3>2 DEF LateFile
        <4>2. /\ bytes' = [bytes EXCEPT ![w.file] = "mixed"]
              /\ overwritten' = overwritten \cup {b \in Bodies : store[b] = w.file}
          BY <3>2 DEF Overwrite
        <4>3. /\ bytes \in [Files -> Bodies \cup {None, "part", "mixed"}] /\ staging \in [Tokens -> Files \cup {0}]
              /\ store \in [Bodies -> Files \cup {0}]
          BY <1>2 DEF LocalTypes, DiskTypes
        <4>4. \A b \in Bodies : Good(overwritten, store, bytes, b) => Good(overwritten', store', bytes', b)
          BY <2>1, <4>1, <4>2, <4>3 DEF Good
        <4>5. FilesDone(who, w.of)
          BY <1>2, <1>5, <3>2, <4>1, <4>2, <4>3, <4>4 DEF FilesDone, FilesHeld
        <4>6. Spoils(w.of)
          BY <1>2, <3>2, <4>1, <4>2, <4>3 DEF Spoils
        <4> QED BY <1>5, <3>2, <4>1, <4>2, <4>3, <4>5, <4>6
      <3> QED BY <1>13, <3>1, <3>2
    <2>3. DiskTypes' /\ RowTypes'
      BY <1>2, <2>1, <2>2 DEF LocalTypes, DiskTypes, RowTypes
    <2>4. PICK holder \in [Files -> Tokens \cup {None}] : FilesHeld(holder) /\ FilesDone(holder, w.of)
      BY <2>2
    <2>5. LocalTypes'
      BY <2>1, <2>3, LateLeaves
    <2>6. IdInv'
      BY <1>3, <1>4, <2>1, LateIds
    <2>7. FileInv'
      BY <1>2, <2>1, <2>2, <2>4, LateFiles
    <2> QED BY <2>5, <2>6, <2>7 DEF LocalInv
  <1> QED BY <1>7, <1>8, <1>9, <1>10, <1>11, <1>12, <1>13 DEF LateStep

-----------------------------------------------------------------------------

LEMMA LocalStart ==
    ASSUME TokensAndBodies
    PROVE  Init => LocalInv
  <1> HAVE Init
  <1>1. \A r \in Requests : job[r] = Idle
    BY DEF Init
  <1>2. JobsGood
    <2>1. job \in [Requests -> Posts] /\ Shaped(Idle) /\ Idle.of \notin Tokens
      BY IdlePost DEF Init, TokensAndBodies
    <2> QED BY <1>1, <2>1 DEF JobsGood
  <1>3. DiskTypes
    BY DEF Init, DiskTypes, SessionFiles, TokensAndBodies
  <1>4. RowTypes
    BY DEF Init, RowTypes, NoRow, Owners, TokensAndBodies
  <1>5. LocalTypes
    BY <1>2, <1>3, <1>4 DEF LocalTypes, LatesGood, Init
  <1>6. IdInv
    <2> DEFINE own == [i \in FileIds |-> None]
    <2>1. own \in [FileIds -> Owners]
      BY DEF Owners
    <2> HIDE DEF own
    <2>2. \A t \in Tokens : SessionUse(own, ids, session, rows, t)
      BY DEF Init, SessionUse, Owned, Recorded
    <2>3. \A i \in FileIds : rows[i] = NoRow /\ rows[i].of = None
      BY DEF Init, NoRow
    <2>4. ClaimedOnce(rows) /\ \A i \in FileIds : RowUse(own, ids, session, rows, reverted, i)
      BY <2>3 DEF ClaimedOnce, RowUse, TokensAndBodies
    <2>5. late = {} /\ answers = {}
      BY DEF Init
    <2>6. IdsOwned(own, ids)
      BY <1>1, <2>2, <2>4, <2>5, IdleUse DEF IdsOwned
    <2> QED BY <2>1, <2>6 DEF IdInv
  <1>7. FileInv
    <2> DEFINE who == [f \in Files |-> None]
    <2>1. who \in [Files -> Tokens \cup {None}]
      OBVIOUS
    <2> HIDE DEF who
    <2>2. /\ \A t \in Tokens : StagedUse(who, staging, t)
          /\ \A i \in FileIds : RowBytes(overwritten, store, bytes, rows, i)
          /\ late = {} /\ registered = None
      BY DEF Init, StagedUse, RowBytes
    <2>3. FilesHeld(who)
      BY <1>1, <2>2, IdleUse DEF FilesHeld
    <2> QED BY <2>1, <2>3 DEF FileInv
  <1> QED BY <1>5, <1>6, <1>7 DEF LocalInv

LEMMA LocalNext ==
    ASSUME TokensAndBodies
    PROVE  LocalInv /\ [Next]_vars => LocalInv'
  <1> HAVE LocalInv /\ [Next]_vars
  <1>1. ASSUME NEW r \in Requests, NEW t \in Tokens, Start(r, t) PROVE LocalInv'
    BY <1>1, StartKeeps
  <1>2. ASSUME NEW r \in Requests, NEW c \in Claims, StartClaim(r, c) PROVE LocalInv'
    BY <1>2, StartClaimKeeps
  <1>3. ASSUME NEW r \in Requests, Reserve(r) \/ Open(r) \/ Body(r) \/ CreateReference(r) \/ Drop(r) PROVE LocalInv'
    BY <1>3, ReserveKeeps, OpenKeeps, BodyKeeps, CreateReferenceKeeps, DropKeeps
  <1>4. ASSUME NEW r \in Requests, Publish(r) PROVE LocalInv'
    BY <1>4, ConvergeKeeps, LinkKeeps, UnlinkKeeps, CheckKeeps, CommitKeeps, TombKeeps DEF Publish
  <1>5. ASSUME NEW r \in Requests, Chunks(r) PROVE LocalInv'
    BY <1>5, PutChunkKeeps, CompleteKeeps, AbortKeeps, LookupKeeps, RunTaskKeeps, VerifyKeeps, TombKeeps DEF Chunks
  <1>6. ASSUME NEW t \in Chunked, CreateSession(t) \/ Expire(t) \/ Sweep(t) PROVE LocalInv'
    BY <1>6, CreateSessionKeeps, ExpireKeeps, SweepKeeps
  <1>7. CASE Late
    BY <1>7, LateKeeps DEF Late
  <1>8. CASE Crash
    BY <1>8, CrashKeeps
  <1>9. CASE UNCHANGED vars
    BY <1>9, OnlyAnswers DEF vars, disk, database, folder
  <1> QED BY <1>1, <1>2, <1>3, <1>4, <1>5, <1>6, <1>7, <1>8, <1>9 DEF Next

LEMMA OneFile ==
    ASSUME TokensAndBodies
    PROVE  LocalInv => OneFilePerToken
  <1> HAVE LocalInv
  <1>1. PICK own \in [FileIds -> Owners] : IdsOwned(own, ids)
    BY DEF LocalInv, IdInv
  <1>2. ASSUME NEW i \in FileIds, NEW j \in FileIds, rows[i] # NoRow, rows[i].of = rows[j].of, rows[i].of \notin reverted
        PROVE  i = j
    <2>1. rows[i].of \in Tokens \cup Claims
      BY <1>1, <1>2 DEF IdsOwned, RowUse
    <2>2. rows[j] # NoRow
      BY <1>2, <2>1 DEF NoRow, TokensAndBodies
    <2>3. CASE rows[i].of \in Tokens
      BY <1>1, <1>2, <2>2, <2>3 DEF IdsOwned, RowUse
    <2>4. CASE rows[i].of \in Claims
      BY <1>1, <1>2, <2>4 DEF IdsOwned, ClaimedOnce
    <2> QED BY <2>1, <2>3, <2>4
  <1>3. \A a \in answers : rows[a[2]].of = a[1]
    BY <1>1 DEF IdsOwned, AnswerUse
  <1> QED BY <1>2, <1>3 DEF OneFilePerToken

LEMMA ObjectThere == LocalInv => ReferencedObjectExists
  BY DEF LocalInv, FileInv, FilesHeld, RowBytes, Good, ReferencedObjectExists

(* However often an upload token or a claim token is used, by requests that  *)
(* are dropped, fail or crash at any point, it leads to one file row, and    *)
(* every client that is told an id is told that of its token's row, unless a *)
(* late write put an older session file back (upload_file, complete_upload,  *)
(* create_reference).                                                        *)
THEOREM TokensAreGoodOnce ==
    ASSUME TokensAndBodies
    PROVE  Spec => []OneFilePerToken
  <1> QED BY LocalStart, LocalNext, OneFile, PTL DEF Spec

(* A file row leads to the bytes it stands for, at their path, whatever      *)
(* dropped requests, failed calls and crashes leave behind, unless the path  *)
(* is one whose file was opened for writing again (publish_and_record).      *)
THEOREM RowsLeadToFiles ==
    ASSUME TokensAndBodies
    PROVE  Spec => []ReferencedObjectExists
  <1> QED BY LocalStart, LocalNext, ObjectThere, PTL DEF Spec
=============================================================================
