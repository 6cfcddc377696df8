------------------------------ MODULE QrLogin -------------------------------
(***************************************************************************)
(* Login of a browser by a code that a signed-in phone scans and confirms  *)
(* (qr_login_service.rs, qr_login_publisher.rs).  A scene lives in Redis;  *)
(* every operation reads it, decides, and writes the whole scene back, and *)
(* nothing keeps two operations on one scene apart.  Events go to the      *)
(* connection that created the scene, as long as it is bound to it.        *)
(*                                                                         *)
(* What the phones send (codes, tokens, their own ids) reaches the server  *)
(* through the application, which acts for the user that signed in.        *)
(***************************************************************************)
EXTENDS Naturals, FiniteSets

CONSTANTS
    Scenes,       \* scene ids
    Sessions,     \* connections of browsers that are not signed in
    Phones,       \* phones, each a user and a device
    UserOf,       \* the user of each phone
    Jobs,         \* operations under way at a time
    MaxScans      \* bound: confirm tokens issued in a run

VARIABLES
    redis,        \* the scenes in Redis
    jobs,         \* operations between their read and their write
    tokens,       \* confirm tokens issued so far
    holds,        \* the tokens each phone was given
    spent,        \* tokens that a finished confirm or reject has used
    granted,      \* what the application was told to sign in
    sceneSession, \* the publisher's scene_to_session
    sessionScene, \* the publisher's session_to_scene
    owner,        \* the connection that created each scene
    due,          \* events that spawned tasks are about to push
    pushed        \* the events each connection was sent

scenes == <<redis, jobs, tokens, holds, spent, granted>>
binding == <<sceneSession, sessionScene, owner>>
vars == <<scenes, binding, due, pushed>>

NoOne == "none"
Absent == [state |-> "absent", scanner |-> NoOne, token |-> 0, consumed |-> FALSE]
Created == [Absent EXCEPT !.state = "created"]

Init ==
    /\ redis = [x \in Scenes |-> Absent]
    /\ jobs = {} /\ tokens = 0 /\ spent = {} /\ granted = {}
    /\ holds = [p \in Phones |-> {}]
    /\ sceneSession = [x \in Scenes |-> NoOne]
    /\ sessionScene = [s \in Sessions |-> NoOne]
    /\ owner = [x \in Scenes |-> NoOne]
    /\ due = {} /\ pushed = {}

-----------------------------------------------------------------------------
(* qr_login/create_scene, and the end of the browser's connection.           *)

(* A connection has one scene: the one it had before loses its binding.  The *)
(* two maps are written one after the other, taken as one step here.         *)
Bind(x, s) ==
    LET old == sessionScene[s]
    IN  /\ sceneSession' = [y \in Scenes |-> IF y = x THEN s ELSE IF y = old THEN NoOne ELSE sceneSession[y]]
        /\ sessionScene' = [sessionScene EXCEPT ![s] = x]

CreateScene(x, s) ==
    /\ owner[x] = NoOne
    /\ redis' = [redis EXCEPT ![x] = Created]
    /\ owner' = [owner EXCEPT ![x] = s]
    /\ Bind(x, s)
    /\ UNCHANGED <<jobs, tokens, holds, spent, granted, due, pushed>>

(* The application may create a scene itself, bound to no connection. *)
CreateUnbound(x) ==
    /\ owner[x] = NoOne
    /\ redis' = [redis EXCEPT ![x] = Created]
    /\ owner' = [owner EXCEPT ![x] = "application"]
    /\ UNCHANGED <<jobs, tokens, holds, spent, granted, sceneSession, sessionScene, due, pushed>>

UnbindBySession(s) ==
    /\ sessionScene[s] # NoOne
    /\ sceneSession' = [sceneSession EXCEPT ![sessionScene[s]] = NoOne]
    /\ sessionScene' = [sessionScene EXCEPT ![s] = NoOne]
    /\ UNCHANGED <<scenes, owner, due, pushed>>

(* An event for the browser; the last one of a scene ends the binding. *)
PushEvent(x, event, terminal) ==
    LET s == sceneSession[x]
    IN  IF s = NoOne
        THEN UNCHANGED <<sceneSession, sessionScene, pushed>>
        ELSE /\ pushed' = pushed \cup {[scene |-> x, event |-> event, to |-> s]}
             /\ sceneSession' = IF terminal THEN [sceneSession EXCEPT ![x] = NoOne] ELSE sceneSession
             /\ sessionScene' = IF terminal THEN [sessionScene EXCEPT ![s] = NoOne] ELSE sessionScene

(* Scan and reject leave the push to a task of its own. *)
SpawnPush(x, event) == due' = due \cup {[scene |-> x, event |-> event]}

PublishNow(d) ==
    /\ d \in due
    /\ due' = due \ {d}
    /\ PushEvent(d.scene, d.event, d.event = "rejected")
    /\ UNCHANGED <<scenes, owner>>

-----------------------------------------------------------------------------
(* Scan, confirm and reject: read, decide, write.                            *)

Free(j) == j \notin {k.id : k \in jobs}
Working(j, op) == {k \in jobs : k.id = j /\ k.op = op}

(* A code is scanned while the scene is fresh; a confirm token is issued. *)
ScanReads(j, x, p) ==
    /\ Free(j) /\ tokens < MaxScans
    /\ redis[x].state = "created"
    /\ tokens' = tokens + 1
    /\ jobs' = jobs \cup {[id |-> j, op |-> "scan", scene |-> x, phone |-> p, token |-> tokens + 1, late |-> FALSE]}
    /\ UNCHANGED <<redis, holds, spent, granted, binding, due, pushed>>

Scanned(p, token) == [state |-> "scanned", scanner |-> p, token |-> token, consumed |-> FALSE]

ScanWrites(j) ==
    \E k \in Working(j, "scan") :
        /\ redis' = [redis EXCEPT ![k.scene] = Scanned(k.phone, k.token)]
        /\ holds' = [holds EXCEPT ![k.phone] = @ \cup {k.token}]
        /\ jobs' = jobs \ {k}
        /\ SpawnPush(k.scene, "scanned")
        /\ UNCHANGED <<tokens, spent, granted, binding, pushed>>

TokenValid(c, p, token) == c.state = "scanned" /\ c.token = token /\ ~c.consumed

MayConfirmAnyDevice(c, p, token) ==
    TokenValid(c, p, token) /\ UserOf[c.scanner] = UserOf[p]

(* ensure_scanned_with_token: the scene is scanned, by this user and this    *)
(* device, and its token is the one shown and not used.                      *)
MayConfirm(c, p, token) == TokenValid(c, p, token) /\ c.scanner = p

(* A reject does not look at the device. *)
MayReject(c, p, token) == TokenValid(c, p, token) /\ UserOf[c.scanner] = UserOf[p]

(* A phone shows a token that a phone of its user was given. *)
Knows(p, token) == \E q \in Phones : UserOf[q] = UserOf[p] /\ token \in holds[q]

ConfirmReads(j, x, p, token) ==
    /\ Free(j) /\ Knows(p, token)
    /\ MayConfirm(redis[x], p, token)
    /\ jobs' = jobs \cup {[id |-> j, op |-> "confirm", scene |-> x, phone |-> p, token |-> token, late |-> token \in spent]}
    /\ UNCHANGED <<redis, tokens, holds, spent, granted, binding, due, pushed>>

Authorized(p, token) == [state |-> "authorized", scanner |-> p, token |-> token, consumed |-> TRUE]

(* The application learns whom to sign in. *)
ConfirmWrites(j) ==
    \E k \in Working(j, "confirm") :
        /\ redis' = [redis EXCEPT ![k.scene] = Authorized(k.phone, k.token)]
        /\ spent' = spent \cup {k.token}
        /\ granted' = granted \cup {[scene |-> k.scene, phone |-> k.phone, token |-> k.token, late |-> k.late]}
        /\ jobs' = jobs \ {k}
        /\ UNCHANGED <<tokens, holds, binding, due, pushed>>

RejectReads(j, x, p, token) ==
    /\ Free(j) /\ Knows(p, token)
    /\ MayReject(redis[x], p, token)
    /\ jobs' = jobs \cup {[id |-> j, op |-> "reject", scene |-> x, phone |-> redis[x].scanner, token |-> token, late |-> token \in spent]}
    /\ UNCHANGED <<redis, tokens, holds, spent, granted, binding, due, pushed>>

Rejected(p, token) == [state |-> "rejected", scanner |-> p, token |-> token, consumed |-> TRUE]

RejectWrites(j) ==
    \E k \in Working(j, "reject") :
        /\ redis' = [redis EXCEPT ![k.scene] = Rejected(k.phone, k.token)]
        /\ spent' = spent \cup {k.token}
        /\ jobs' = jobs \ {k}
        /\ SpawnPush(k.scene, "rejected")
        /\ UNCHANGED <<tokens, holds, granted, binding, pushed>>

-----------------------------------------------------------------------------
(* Once the application has signed the browser in it has the result pushed;  *)
(* the scene is written as authorised, whatever it was, unless it is gone.    *)
PushAuthorizedReads(j, x) ==
    /\ Free(j)
    /\ \E g \in granted : g.scene = x
    /\ jobs' = jobs \cup {[id |-> j, op |-> "push", scene |-> x, phone |-> redis[x].scanner, token |-> redis[x].token, late |-> FALSE]}
    /\ UNCHANGED <<redis, tokens, holds, spent, granted, binding, due, pushed>>

PushAuthorizedWrites(j) ==
    \E k \in Working(j, "push") :
        /\ redis' = IF k.phone = NoOne THEN redis ELSE [redis EXCEPT ![k.scene] = Authorized(k.phone, k.token)]
        /\ jobs' = jobs \ {k}
        /\ PushEvent(k.scene, "authorized", TRUE)
        /\ UNCHANGED <<tokens, holds, spent, granted, owner, due>>

(* The scene's time is over: it reads as expired, and is not in Redis. *)
Expire(x) ==
    /\ redis[x].state # "absent"
    /\ redis' = [redis EXCEPT ![x] = Absent]
    /\ UNCHANGED <<jobs, tokens, holds, spent, granted, binding, due, pushed>>

Next ==
    \/ \E x \in Scenes, s \in Sessions : CreateScene(x, s)
    \/ \E s \in Sessions : UnbindBySession(s)
    \/ \E j \in Jobs, x \in Scenes :
          \/ \E p \in Phones :
                \/ ScanReads(j, x, p)
                \/ \E token \in 1 .. MaxScans : ConfirmReads(j, x, p, token) \/ RejectReads(j, x, p, token)
          \/ PushAuthorizedReads(j, x)
    \/ \E j \in Jobs : ScanWrites(j) \/ ConfirmWrites(j) \/ RejectWrites(j) \/ PushAuthorizedWrites(j)
    \/ \E x \in Scenes : CreateUnbound(x) \/ Expire(x)
    \/ \E d \in due : PublishNow(d)

Spec == Init /\ [][Next]_vars

-----------------------------------------------------------------------------
(* Although scenes are written back without a lock, a browser is signed in   *)
(* only as the phone that scanned its code and was given the token for it,   *)
(* and never with a token that a finished confirm or reject had used before  *)
(* (qr_login_service.rs ensure_scanned_with_token); and it hears of no scene *)
(* but its own (qr_login_publisher.rs).                                      *)
SignInIsTheScanners ==
    /\ \A g \in granted : g.token \in holds[g.phone] /\ ~g.late
    /\ \A e \in pushed : e.to = owner[e.scene]
=============================================================================
