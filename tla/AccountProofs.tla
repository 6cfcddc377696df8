--------------------------- MODULE AccountProofs ----------------------------
(***************************************************************************)
(* What a user's account rests on, for any number of users, phones,        *)
(* scenes, devices and requests under way: logins by code (QrLogin),       *)
(* friendships (Friendship), connections (Connections) and the membership  *)
(* of a group (GroupMembers). They share no state; each has its own        *)
(* invariant.                                                              *)
(***************************************************************************)
EXTENDS Naturals, FiniteSets, FiniteSetTheorems, TLAPS

CONSTANTS Scenes, Sessions, Phones, UserOf, Jobs, MaxScans
VARIABLES redis, jobs, tokens, holds, spent, granted, sceneSession, sessionScene, owner, due, pushed
Qr == INSTANCE QrLogin

CONSTANTS Users, Handlers
VARIABLES edge, blocks, work, friends, outcast, barred
Fr == INSTANCE Friendship

-----------------------------------------------------------------------------
(* Logins by code.                                                           *)

Scanned(x) == redis[x].state = "scanned"
Asks(k) == k.op \in {"confirm", "reject"}

(* Tokens are numbered as they are issued. *)
Numbered ==
    /\ tokens \in Nat /\ spent \subseteq 0 .. tokens
    /\ redis = [x \in Scenes |-> redis[x]] /\ \A x \in Scenes : redis[x].token \in 0 .. tokens
    /\ holds = [p \in Phones |-> holds[p]]
    /\ \A k \in jobs : k.scene \in Scenes /\ k.token \in 0 .. tokens

(* The token of a scan under way is new: nobody but the scan has it. *)
ScanIsFresh ==
    \A k \in jobs : k.op = "scan" =>
        /\ k.phone \in Phones /\ k.token \notin spent
        /\ \A x \in Scenes : Scanned(x) => redis[x].token # k.token
        /\ \A l \in jobs : (l.op = "scan" \/ Asks(l)) /\ l.token = k.token => l = k

(* The token of a scanned scene is not used yet, the phone that scanned has  *)
(* it, and requests that show it are about that scene.                       *)
ScannedIsOpen ==
    \A x \in Scenes : Scanned(x) =>
        /\ redis[x].scanner \in Phones /\ redis[x].token \in holds[redis[x].scanner]
        /\ redis[x].token \notin spent
        /\ \A y \in Scenes : Scanned(y) /\ redis[y].token = redis[x].token => y = x
        /\ \A k \in jobs : Asks(k) /\ k.token = redis[x].token => k.scene = x

(* A confirm that has passed its check comes from the phone that scanned. *)
ConfirmIsTheScanners ==
    \A k \in jobs : k.op = "confirm" => k.phone \in Phones /\ k.token \in holds[k.phone] /\ ~k.late
GrantIsTheScanners ==
    \A g \in granted : g.phone \in Phones /\ g.token \in holds[g.phone] /\ ~g.late

(* A scene is bound to the connection that created it, or to none. *)
BoundToOwner ==
    /\ sceneSession = [x \in Scenes |-> sceneSession[x]] /\ owner = [x \in Scenes |-> owner[x]]
    /\ \A x \in Scenes : sceneSession[x] # Qr!NoOne => sceneSession[x] = owner[x]
    /\ \A d \in due : d.scene \in Scenes
PushedToOwner ==
    \A e \in pushed : e.scene \in Scenes /\ e.to # Qr!NoOne /\ e.to = owner[e.scene]

LoginInv ==
    /\ Numbered /\ ScanIsFresh /\ ScannedIsOpen /\ ConfirmIsTheScanners /\ GrantIsTheScanners
    /\ BoundToOwner /\ PushedToOwner

LEMMA LoginInit == Qr!Init => LoginInv
  BY DEF Qr!Init, Qr!Absent, Qr!NoOne, LoginInv, Numbered, ScanIsFresh, ScannedIsOpen, Scanned,
         ConfirmIsTheScanners, GrantIsTheScanners, BoundToOwner, PushedToOwner

(* Every event goes to the connection that a scene is bound to. *)
LEMMA PushEventKeeps ==
    ASSUME BoundToOwner, PushedToOwner, NEW x \in Scenes, NEW event, NEW terminal \in BOOLEAN,
           Qr!PushEvent(x, event, terminal), UNCHANGED owner, due' \subseteq due
    PROVE  BoundToOwner' /\ PushedToOwner'
  <1>1. CASE sceneSession[x] = Qr!NoOne
    <2>1. UNCHANGED <<sceneSession, sessionScene, pushed>>
      BY <1>1 DEF Qr!PushEvent
    <2> QED BY <2>1 DEF BoundToOwner, PushedToOwner
  <1>2. CASE sceneSession[x] # Qr!NoOne
    <2>1. /\ pushed' = pushed \cup {[scene |-> x, event |-> event, to |-> sceneSession[x]]}
          /\ sceneSession' = IF terminal THEN [sceneSession EXCEPT ![x] = Qr!NoOne] ELSE sceneSession
      BY <1>2 DEF Qr!PushEvent
    <2>2. BoundToOwner'
      BY <2>1 DEF BoundToOwner
    <2>3. PushedToOwner'
      BY <1>2, <2>1 DEF BoundToOwner, PushedToOwner
    <2> QED BY <2>2, <2>3
  <1> QED BY <1>1, <1>2

(* Who hears of a scene: the first half of the invariant. *)
LEMMA BindingNext ==
    ASSUME LoginInv, Qr!Next
    PROVE  BoundToOwner' /\ PushedToOwner'
  <1> USE DEF LoginInv
  <1>1. ASSUME NEW x \in Scenes, NEW s \in Sessions, Qr!CreateScene(x, s)
        PROVE  BoundToOwner' /\ PushedToOwner'
    BY <1>1 DEF Qr!CreateScene, Qr!Bind, BoundToOwner, PushedToOwner
  <1>2. ASSUME NEW x \in Scenes, Qr!CreateUnbound(x)
        PROVE  BoundToOwner' /\ PushedToOwner'
    BY <1>2 DEF Qr!CreateUnbound, BoundToOwner, PushedToOwner
  <1>3. ASSUME NEW s \in Sessions, Qr!UnbindBySession(s)
        PROVE  BoundToOwner' /\ PushedToOwner'
    BY <1>3 DEF Qr!UnbindBySession, BoundToOwner, PushedToOwner
  <1>4. ASSUME NEW d \in due, Qr!PublishNow(d)
        PROVE  BoundToOwner' /\ PushedToOwner'
    <2>1. d.scene \in Scenes /\ due' \subseteq due /\ UNCHANGED owner
      BY <1>4 DEF Qr!PublishNow, BoundToOwner
    <2> QED BY <1>4, <2>1, PushEventKeeps DEF Qr!PublishNow
  <1>5. ASSUME NEW j \in Jobs, Qr!PushAuthorizedWrites(j)
        PROVE  BoundToOwner' /\ PushedToOwner'
    <2>1. PICK k \in jobs : Qr!PushEvent(k.scene, "authorized", TRUE) /\ UNCHANGED <<owner, due>>
      BY <1>5 DEF Qr!PushAuthorizedWrites, Qr!Working
    <2> QED BY <2>1, PushEventKeeps DEF Numbered
  <1>6. ASSUME NEW j \in Jobs, Qr!ScanWrites(j) \/ Qr!RejectWrites(j)
        PROVE  BoundToOwner' /\ PushedToOwner'
    <2>1. PICK k, event : k \in jobs /\ due' = due \cup {[scene |-> k.scene, event |-> event]}
      BY <1>6 DEF Qr!ScanWrites, Qr!RejectWrites, Qr!Working, Qr!SpawnPush
    <2>2. UNCHANGED <<sceneSession, owner, pushed>>
      BY <1>6 DEF Qr!ScanWrites, Qr!RejectWrites, Qr!binding
    <2> QED BY <2>1, <2>2 DEF BoundToOwner, PushedToOwner, Numbered
  <1>7. ASSUME UNCHANGED <<sceneSession, owner, due, pushed>>
        PROVE  BoundToOwner' /\ PushedToOwner'
    BY <1>7 DEF BoundToOwner, PushedToOwner
  <1>8. ASSUME NEW j \in Jobs, NEW x \in Scenes,
               \/ \E p \in Phones :
                    \/ Qr!ScanReads(j, x, p)
                    \/ \E token \in 1 .. MaxScans :
                          Qr!ConfirmReads(j, x, p, token) \/ Qr!RejectReads(j, x, p, token)
               \/ Qr!PushAuthorizedReads(j, x) \/ Qr!ConfirmWrites(j) \/ Qr!Expire(x)
        PROVE  BoundToOwner' /\ PushedToOwner'
    BY <1>7, <1>8 DEF Qr!ScanReads, Qr!ConfirmReads, Qr!RejectReads, Qr!PushAuthorizedReads,
                      Qr!ConfirmWrites, Qr!Expire, Qr!binding
  <1>9. ASSUME NEW j \in Jobs, Qr!ConfirmWrites(j) PROVE BoundToOwner' /\ PushedToOwner'
    BY <1>7, <1>9 DEF Qr!ConfirmWrites, Qr!binding
  <1>10. ASSUME NEW x \in Scenes, Qr!Expire(x) PROVE BoundToOwner' /\ PushedToOwner'
    BY <1>7, <1>10 DEF Qr!Expire, Qr!binding
  <1> QED BY <1>1, <1>2, <1>3, <1>4, <1>5, <1>6, <1>8, <1>9, <1>10 DEF Qr!Next

ScenesInv == Numbered /\ ScanIsFresh /\ ScannedIsOpen /\ ConfirmIsTheScanners /\ GrantIsTheScanners

(* A scene that is, or ends up, in a state other than scanned. *)
LEMMA SceneSettles ==
    ASSUME ScenesInv, NEW x \in Scenes, NEW c, c.state # "scanned", c.token \in 0 .. tokens,
           redis' = [redis EXCEPT ![x] = c], jobs' \subseteq jobs,
           UNCHANGED <<tokens, holds, spent, granted>>
    PROVE  ScenesInv'
  BY DEF ScenesInv, Numbered, ScanIsFresh, ScannedIsOpen, Scanned, Asks, ConfirmIsTheScanners, GrantIsTheScanners

(* A token is used: its scene is settled with it. *)
LEMMA TokenSpent ==
    ASSUME ScenesInv, NEW k \in jobs, Asks(k), NEW c, c.state # "scanned", c.token = k.token,
           redis' = [redis EXCEPT ![k.scene] = c], jobs' = jobs \ {k}, spent' = spent \cup {k.token},
           \A g \in granted' : g \in granted \/ (g.phone \in Phones /\ g.token \in holds[g.phone] /\ ~g.late),
           UNCHANGED <<tokens, holds>>
    PROVE  ScenesInv'
  <1>1. Numbered'
    BY DEF ScenesInv, Numbered
  <1>2. ScanIsFresh'
    BY DEF ScenesInv, Numbered, ScanIsFresh, Scanned, Asks
  <1>3. ScannedIsOpen'
    BY DEF ScenesInv, Numbered, ScannedIsOpen, Scanned, Asks
  <1>4. ConfirmIsTheScanners' /\ GrantIsTheScanners'
    BY DEF ScenesInv, ConfirmIsTheScanners, GrantIsTheScanners
  <1> QED BY <1>1, <1>2, <1>3, <1>4 DEF ScenesInv

LEMMA ScenesNext ==
    ASSUME ScenesInv, Qr!Next
    PROVE  ScenesInv'
  <1>0. ASSUME NEW x \in Scenes, NEW c \in {Qr!Created, Qr!Absent}, redis' = [redis EXCEPT ![x] = c],
               UNCHANGED <<jobs, tokens, holds, spent, granted>>
        PROVE  ScenesInv'
    <2>1. c.state # "scanned" /\ c.token = 0
      BY DEF Qr!Created, Qr!Absent
    <2>2. c.token \in 0 .. tokens
      BY <2>1 DEF ScenesInv, Numbered
    <2> QED BY <1>0, <2>1, <2>2, SceneSettles
  <1>1. ASSUME NEW x \in Scenes, NEW s \in Sessions, Qr!CreateScene(x, s) PROVE ScenesInv'
    BY <1>0, <1>1 DEF Qr!CreateScene
  <1>2. ASSUME NEW x \in Scenes, Qr!CreateUnbound(x) \/ Qr!Expire(x) PROVE ScenesInv'
    BY <1>0, <1>2 DEF Qr!CreateUnbound, Qr!Expire
  <1>3. ASSUME UNCHANGED Qr!scenes PROVE ScenesInv'
    BY <1>3 DEF Qr!scenes, ScenesInv, Numbered, ScanIsFresh, ScannedIsOpen, Scanned, Asks,
                ConfirmIsTheScanners, GrantIsTheScanners
  <1>4. ASSUME NEW s \in Sessions, Qr!UnbindBySession(s) PROVE ScenesInv'
    BY <1>3, <1>4 DEF Qr!UnbindBySession
  <1>5. ASSUME NEW d \in due, Qr!PublishNow(d) PROVE ScenesInv'
    BY <1>3, <1>5 DEF Qr!PublishNow
  <1>6. ASSUME NEW j \in Jobs, NEW x \in Scenes, NEW p \in Phones, Qr!ScanReads(j, x, p) PROVE ScenesInv'
    <2>1. PICK k : /\ k = [id |-> j, op |-> "scan", scene |-> x, phone |-> p, token |-> tokens + 1, late |-> FALSE]
                   /\ jobs' = jobs \cup {k} /\ tokens' = tokens + 1
                   /\ UNCHANGED <<redis, holds, spent, granted>>
      BY <1>6 DEF Qr!ScanReads
    <2>2. k.op = "scan" /\ k.scene = x /\ k.phone = p /\ k.token = tokens + 1
      BY <2>1
    <2>3. Numbered'
      BY <2>1, <2>2 DEF ScenesInv, Numbered
    <2>4. ScanIsFresh'
      <3>1. /\ tokens + 1 \notin spent
            /\ \A y \in Scenes : redis[y].token # tokens + 1
            /\ \A l \in jobs : l.token # tokens + 1
        BY DEF ScenesInv, Numbered
      <3> SUFFICES ASSUME NEW l \in jobs', l.op = "scan"
                   PROVE  /\ l.phone \in Phones /\ l.token \notin spent
                          /\ \A y \in Scenes : Scanned(y) => redis[y].token # l.token
                          /\ \A m \in jobs' : (m.op = "scan" \/ Asks(m)) /\ m.token = l.token => m = l
        BY <2>1 DEF ScanIsFresh, Scanned, Asks
      <3>2. CASE l = k
        BY <2>1, <2>2, <3>1, <3>2
      <3>3. CASE l # k
        BY <2>1, <2>2, <3>1, <3>3 DEF ScenesInv, ScanIsFresh
      <3> QED BY <3>2, <3>3
    <2>5. ScannedIsOpen' /\ ConfirmIsTheScanners' /\ GrantIsTheScanners'
      BY <2>1, <2>2 DEF ScenesInv, Numbered, ScannedIsOpen, Scanned, Asks, ConfirmIsTheScanners, GrantIsTheScanners
    <2> QED BY <2>3, <2>4, <2>5 DEF ScenesInv
  <1>7. ASSUME NEW j \in Jobs, Qr!ScanWrites(j) PROVE ScenesInv'
    <2>1. PICK k \in jobs : /\ k.op = "scan"
                            /\ redis' = [redis EXCEPT ![k.scene] = Qr!Scanned(k.phone, k.token)]
                            /\ holds' = [holds EXCEPT ![k.phone] = @ \cup {k.token}]
                            /\ jobs' = jobs \ {k}
                            /\ UNCHANGED <<tokens, spent, granted>>
      BY <1>7 DEF Qr!ScanWrites, Qr!Working
    <2>c. PICK c : c = Qr!Scanned(k.phone, k.token)
      OBVIOUS
    <2>2. /\ redis' = [redis EXCEPT ![k.scene] = c]
          /\ c.state = "scanned" /\ c.scanner = k.phone /\ c.token = k.token
      BY <2>1, <2>c DEF Qr!Scanned
    <2>3. Numbered'
      BY <2>1, <2>2 DEF ScenesInv, Numbered, ScanIsFresh
    <2>4. ScanIsFresh'
      BY <2>1, <2>2 DEF ScenesInv, Numbered, ScanIsFresh, Scanned, Asks
    <2>5. ScannedIsOpen'
      <3>1. /\ k.scene \in Scenes /\ redis'[k.scene] = c
            /\ \A y \in Scenes \ {k.scene} : redis'[y] = redis[y]
        BY <2>1, <2>2 DEF ScenesInv, Numbered
      <3>2. /\ k.phone \in Phones /\ k.token \in holds'[k.phone] /\ k.token \notin spent
            /\ \A y \in Scenes : Scanned(y) => redis[y].token # k.token
            /\ \A l \in jobs \ {k} : Asks(l) => l.token # k.token
        BY <2>1 DEF ScenesInv, Numbered, ScanIsFresh
      <3>3. \A q \in Phones : holds[q] \subseteq holds'[q]
        BY <2>1 DEF ScenesInv, Numbered
      <3> QED BY <2>1, <2>2, <3>1, <3>2, <3>3 DEF ScenesInv, ScannedIsOpen, Scanned, Asks
    <2>6. ConfirmIsTheScanners' /\ GrantIsTheScanners'
      BY <2>1 DEF ScenesInv, Numbered, ConfirmIsTheScanners, GrantIsTheScanners
    <2> QED BY <2>3, <2>4, <2>5, <2>6 DEF ScenesInv
  <1>8. ASSUME NEW j \in Jobs, NEW x \in Scenes, NEW p \in Phones, NEW token \in 1 .. MaxScans,
               Qr!ConfirmReads(j, x, p, token) \/ Qr!RejectReads(j, x, p, token)
        PROVE  ScenesInv'
    <2>1. PICK op, q, late : /\ op \in {"confirm", "reject"} /\ (op = "confirm" => q = redis[x].scanner /\ late = (token \in spent))
                       /\ jobs' = jobs \cup {[id |-> j, op |-> op, scene |-> x, phone |-> q, token |-> token, late |-> late]}
      BY <1>8 DEF Qr!ConfirmReads, Qr!RejectReads, Qr!MayConfirm
    <2>2. PICK k : /\ k = [id |-> j, op |-> op, scene |-> x, phone |-> q, token |-> token, late |-> late]
                   /\ jobs' = jobs \cup {k}
      BY <2>1
    <2>3. k.op = op /\ k.scene = x /\ k.phone = q /\ k.token = token /\ k.late = late
      BY <2>2
    <2>4. Scanned(x) /\ redis[x].token = token /\ UNCHANGED <<redis, tokens, holds, spent, granted>>
      BY <1>8 DEF Qr!ConfirmReads, Qr!RejectReads, Qr!MayConfirm, Qr!MayReject, Qr!TokenValid, Scanned
    <2>5. token \notin spent /\ redis[x].scanner \in Phones /\ token \in holds[redis[x].scanner]
      BY <2>4 DEF ScenesInv, ScannedIsOpen
    <2>6. Numbered'
      BY <2>2, <2>3, <2>4 DEF ScenesInv, Numbered
    <2>7. ScanIsFresh'
      BY <2>1, <2>2, <2>3, <2>4 DEF ScenesInv, ScanIsFresh, Scanned, Asks
    <2>8. ScannedIsOpen'
      BY <2>2, <2>3, <2>4 DEF ScenesInv, ScannedIsOpen, Scanned, Asks
    <2>9. ConfirmIsTheScanners'
      BY <2>1, <2>2, <2>3, <2>4, <2>5 DEF ScenesInv, ConfirmIsTheScanners
    <2>10. GrantIsTheScanners'
      BY <2>4 DEF ScenesInv, GrantIsTheScanners
    <2> QED BY <2>6, <2>7, <2>8, <2>9, <2>10 DEF ScenesInv
  <1>9. ASSUME NEW j \in Jobs, Qr!ConfirmWrites(j) PROVE ScenesInv'
    <2>1. PICK k \in jobs :
             /\ k.op = "confirm"
             /\ redis' = [redis EXCEPT ![k.scene] = Qr!Authorized(k.phone, k.token)]
             /\ spent' = spent \cup {k.token}
             /\ granted' = granted \cup {[scene |-> k.scene, phone |-> k.phone, token |-> k.token, late |-> k.late]}
             /\ jobs' = jobs \ {k}
             /\ UNCHANGED <<tokens, holds>>
      BY <1>9 DEF Qr!ConfirmWrites, Qr!Working
    <2>2. k.phone \in Phones /\ k.token \in holds[k.phone] /\ ~k.late
      BY <2>1 DEF ScenesInv, ConfirmIsTheScanners
    <2>3. \A g \in granted' : g \in granted \/ (g.phone \in Phones /\ g.token \in holds[g.phone] /\ ~g.late)
      BY <2>1, <2>2
    <2>4. PICK c : c = Qr!Authorized(k.phone, k.token)
      OBVIOUS
    <2>5. c.state # "scanned" /\ c.token = k.token /\ Asks(k) /\ redis' = [redis EXCEPT ![k.scene] = c]
      BY <2>1, <2>4 DEF Asks, Qr!Authorized
    <2> QED BY <2>1, <2>3, <2>5, TokenSpent
  <1>10. ASSUME NEW j \in Jobs, Qr!RejectWrites(j) PROVE ScenesInv'
    <2>1. PICK k \in jobs :
             /\ k.op = "reject"
             /\ redis' = [redis EXCEPT ![k.scene] = Qr!Rejected(k.phone, k.token)]
             /\ spent' = spent \cup {k.token}
             /\ jobs' = jobs \ {k}
             /\ UNCHANGED <<tokens, holds, granted>>
      BY <1>10 DEF Qr!RejectWrites, Qr!Working
    <2>2. PICK c : c = Qr!Rejected(k.phone, k.token)
      OBVIOUS
    <2>3. c.state # "scanned" /\ c.token = k.token /\ Asks(k) /\ redis' = [redis EXCEPT ![k.scene] = c]
      BY <2>1, <2>2 DEF Asks, Qr!Rejected
    <2> QED BY <2>1, <2>3, TokenSpent
  <1>11. ASSUME NEW j \in Jobs, NEW x \in Scenes, Qr!PushAuthorizedReads(j, x) PROVE ScenesInv'
    <2>1. PICK k : /\ k.op = "push" /\ k.scene = x /\ k.token = redis[x].token
                   /\ jobs' = jobs \cup {k}
                   /\ UNCHANGED <<redis, tokens, holds, spent, granted>>
      BY <1>11 DEF Qr!PushAuthorizedReads
    <2> QED BY <2>1 DEF ScenesInv, Numbered, ScanIsFresh, ScannedIsOpen, Scanned, Asks,
                        ConfirmIsTheScanners, GrantIsTheScanners
  <1>12. ASSUME NEW j \in Jobs, Qr!PushAuthorizedWrites(j) PROVE ScenesInv'
    <2>1. PICK k, c :
             /\ k \in jobs /\ c = Qr!Authorized(k.phone, k.token)
             /\ redis' = IF k.phone = Qr!NoOne THEN redis ELSE [redis EXCEPT ![k.scene] = c]
             /\ jobs' = jobs \ {k}
             /\ UNCHANGED <<tokens, holds, spent, granted>>
      BY <1>12 DEF Qr!PushAuthorizedWrites, Qr!Working
    <2>2. CASE k.phone = Qr!NoOne
      BY <2>1, <2>2 DEF ScenesInv, Numbered, ScanIsFresh, ScannedIsOpen, Scanned, Asks,
                        ConfirmIsTheScanners, GrantIsTheScanners
    <2>3. CASE k.phone # Qr!NoOne
      <3>1. c.state # "scanned" /\ c.token = k.token
        BY <2>1 DEF Qr!Authorized
      <3>2. k.scene \in Scenes /\ c.token \in 0 .. tokens /\ jobs' \subseteq jobs
        BY <2>1, <3>1 DEF ScenesInv, Numbered
      <3>3. redis' = [redis EXCEPT ![k.scene] = c]
        BY <2>1, <2>3
      <3> QED BY <2>1, <3>1, <3>2, <3>3, SceneSettles
    <2> QED BY <2>2, <2>3
  <1> QED BY <1>1, <1>2, <1>4, <1>5, <1>6, <1>7, <1>8, <1>9, <1>10, <1>11, <1>12 DEF Qr!Next

(* However scans, confirms, rejects and the application's pushes on a scene  *)
(* interleave between their reads and their writes, a browser is signed in   *)
(* only as the phone that scanned and with an unused token, and hears of its *)
(* own scenes only (qr_login_service.rs, qr_login_publisher.rs).             *)
THEOREM SignInsAreTheScanners == Qr!Spec => []Qr!SignInIsTheScanners
  <1>1. LoginInv => Qr!SignInIsTheScanners
    BY DEF LoginInv, GrantIsTheScanners, PushedToOwner, Qr!SignInIsTheScanners
  <1>2. LoginInv /\ [Qr!Next]_(Qr!vars) => LoginInv'
    <2> SUFFICES ASSUME LoginInv, [Qr!Next]_(Qr!vars) PROVE LoginInv'
      OBVIOUS
    <2>1. CASE Qr!Next
      BY <2>1, BindingNext, ScenesNext DEF LoginInv, ScenesInv
    <2>2. CASE UNCHANGED Qr!vars
      BY <2>2 DEF Qr!vars, Qr!scenes, Qr!binding, LoginInv, Numbered, ScanIsFresh, ScannedIsOpen,
                  Scanned, Asks, ConfirmIsTheScanners, GrantIsTheScanners, BoundToOwner, PushedToOwner
    <2> QED BY <2>1, <2>2
  <1> QED BY <1>1, <1>2, LoginInit, PTL DEF Qr!Spec

-----------------------------------------------------------------------------
(* Friendships.                                                              *)

Statuses == {"none", "pending", "accepted", "rejected", "recalled", "removed"}
Steps == {"idle", "check", "write", "reciprocal", "announce", "rows",
          "blocks", "friends", "removed", "privacy", "passed"}
Tasks == [kind : {"none", "apply", "accept", "remove", "admin", "send"}, pair : Fr!Pairs \cup {<<>>},
          step : Steps, rows : SUBSET Fr!Pairs, held : SUBSET Fr!Pairs, fresh : BOOLEAN]

Asked(w) == w.kind = "accept" /\ w.step = "reciprocal"
Sweeps(w) == w.kind \in {"remove", "admin"} /\ w.step = "rows"

(* What a handler has in hand at each step: locks only within its            *)
(* transaction, the whole friendship where the rows of both sides are meant, *)
(* and an announcement only of a new friendship.                             *)
TaskGood(w) ==
    /\ w \in Tasks
    /\ w.kind # "none" => w.pair \in Fr!Pairs
    /\ w.step = "rows" => Sweeps(w)
    /\ w.held # {} => Asked(w) \/ Sweeps(w)
    /\ Asked(w) => w.held = {Fr!Reverse(w.pair)}
    /\ Sweeps(w) /\ (w.kind = "admin" \/ w.fresh) => w.rows = Fr!Pairs
    /\ w.kind = "accept" /\ w.step = "announce" => w.fresh

(* An accept's request stays pending as long as its row is locked. *)
StillAsked(w) == Asked(w) => edge[Fr!Reverse(w.pair)] = "pending"

Tables ==
    /\ edge \in [Fr!Pairs -> Statuses] /\ friends \in BOOLEAN
    /\ work = [h \in Handlers |-> work[h]]
    /\ \A h \in Handlers : TaskGood(work[h]) /\ StillAsked(work[h])
    /\ \A h, g \in Handlers : h # g => work[h].held \cap work[g].held = {}

(* Friends have two accepted rows. *)
FriendsAccepted == friends => \A p \in Fr!Pairs : edge[p] = "accepted"

(* Who ended the friendship has a removed row, and nobody is a friend. *)
OutcastRemoved ==
    \A p \in outcast : p \in Fr!Pairs /\ edge[p] = "removed" /\ \A q \in Fr!Pairs : edge[q] # "accepted"

FriendInv == Tables /\ FriendsAccepted /\ OutcastRemoved

LEMMA PairFacts ==
    /\ \A p \in Fr!Pairs : Fr!Reverse(p) \in Fr!Pairs /\ Fr!Reverse(p) # p /\ Fr!Reverse(Fr!Reverse(p)) = p
    /\ Fr!TwoUsers => \A p, q \in Fr!Pairs : q = p \/ q = Fr!Reverse(p)
  <1>1. \A p \in Fr!Pairs : Fr!Reverse(p) \in Fr!Pairs /\ Fr!Reverse(p) # p /\ Fr!Reverse(Fr!Reverse(p)) = p
    BY DEF Fr!Pairs, Fr!Reverse
  <1>2. ASSUME Fr!TwoUsers, NEW p \in Fr!Pairs, NEW q \in Fr!Pairs PROVE q = p \/ q = Fr!Reverse(p)
    BY <1>2 DEF Fr!TwoUsers, Fr!Pairs, Fr!Reverse
  <1> QED BY <1>1, <1>2

LEMMA IdleGood == TaskGood(Fr!Idle) /\ StillAsked(Fr!Idle) /\ Fr!Idle.held = {} /\ Fr!Idle.kind = "none"
  <1>1. Fr!Idle.held = {} /\ Fr!Idle.kind = "none" /\ Fr!Idle.step = "idle" /\ Fr!Idle \in Tasks
    BY DEF Fr!Idle, Tasks, Steps
  <1> QED BY <1>1 DEF TaskGood, StillAsked, Asked, Sweeps

LEMMA FriendInit == Fr!Init => FriendInv
  <1> SUFFICES ASSUME Fr!Init PROVE FriendInv
    OBVIOUS
  <1>1. Tables
    BY IdleGood DEF Fr!Init, Tables, Statuses
  <1>2. FriendsAccepted /\ OutcastRemoved
    BY DEF Fr!Init, FriendsAccepted, OutcastRemoved
  <1> QED BY <1>1, <1>2 DEF FriendInv

(* A handler goes on to w, and rows that nobody else has locked may change.  *)
LEMMA TaskMoves ==
    ASSUME Tables, NEW h \in Handlers, NEW w, work' = [work EXCEPT ![h] = w],
           TaskGood(w), StillAsked(w)',
           \A p \in w.held : p \in work[h].held \/ Fr!Free(h, p),
           edge' \in [Fr!Pairs -> Statuses], friends' \in BOOLEAN,
           \A p \in Fr!Pairs : edge'[p] # edge[p] => p \in work[h].held \/ Fr!Free(h, p)
    PROVE  Tables'
  <1>1. work' = [g \in Handlers |-> work'[g]] /\ work'[h] = w /\ \A g \in Handlers \ {h} : work'[g] = work[g]
    BY DEF Tables
  <1>2. ASSUME NEW g \in Handlers PROVE (TaskGood(work[g]) /\ StillAsked(work[g]))'
    <2>1. CASE g = h
      BY <1>1, <2>1 DEF TaskGood, StillAsked
    <2>2. CASE g # h
      <3>1. work'[g] = work[g] /\ TaskGood(work[g]) /\ StillAsked(work[g])
        BY <1>1, <2>2 DEF Tables
      <3>2. ASSUME Asked(work[g]) PROVE edge'[Fr!Reverse(work[g].pair)] = "pending"
        <4>1. Fr!Reverse(work[g].pair) \in work[g].held
          BY <3>1, <3>2 DEF TaskGood
        <4>2. Fr!Reverse(work[g].pair) \in Fr!Pairs
          BY <3>1, <4>1 DEF TaskGood, Tasks
        <4>3. edge'[Fr!Reverse(work[g].pair)] = edge[Fr!Reverse(work[g].pair)]
          BY <2>2, <4>1, <4>2 DEF Tables, Fr!Free
        <4> QED BY <3>1, <3>2, <4>3 DEF StillAsked
      <3> QED BY <3>1, <3>2 DEF TaskGood, StillAsked, Asked, Sweeps
    <2> QED BY <2>1, <2>2
  <1>3. ASSUME NEW f \in Handlers, NEW g \in Handlers, f # g PROVE work'[f].held \cap work'[g].held = {}
    <2>1. CASE f # h /\ g # h
      BY <1>1, <1>3, <2>1 DEF Tables
    <2>2. CASE f = h
      BY <1>1, <1>3, <2>2 DEF Tables, Fr!Free
    <2>3. CASE g = h
      BY <1>1, <1>3, <2>3 DEF Tables, Fr!Free
    <2> QED BY <2>1, <2>2, <2>3
  <1> QED BY <1>1, <1>2, <1>3 DEF Tables

(* A handler that goes on without touching the tables. *)
LEMMA QuietMoves ==
    ASSUME FriendInv, NEW h \in Handlers, NEW w, work' = [work EXCEPT ![h] = w],
           TaskGood(w), StillAsked(w), \A p \in w.held : p \in work[h].held \/ Fr!Free(h, p),
           UNCHANGED <<edge, friends, outcast>>
    PROVE  FriendInv'
  <1>1. StillAsked(w)'
    BY DEF StillAsked
  <1>2. Tables'
    BY <1>1, TaskMoves DEF FriendInv, Tables
  <1> QED BY <1>2 DEF FriendInv, FriendsAccepted, OutcastRemoved

(* A handler that leaves the tables for its next step, or comes in. *)
LEMMA GoesKeeps ==
    ASSUME FriendInv, NEW h \in Handlers, NEW step \in Steps, Fr!Goes(h, step),
           work[h].held = {}, step \notin {"reciprocal", "rows", "announce"},
           UNCHANGED <<edge, friends, outcast>>
    PROVE  FriendInv'
  <1>1. PICK w : w = [work[h] EXCEPT !.step = step]
    OBVIOUS
  <1>2. work' = [work EXCEPT ![h] = w]
    BY <1>1 DEF Fr!Goes
  <1>3. work[h] \in Tasks /\ TaskGood(work[h])
    BY DEF FriendInv, Tables, TaskGood
  <1>4. w \in Tasks /\ w.step = step /\ w.kind = work[h].kind /\ w.pair = work[h].pair /\ w.held = {}
    BY <1>1, <1>3 DEF Tasks
  <1>5. TaskGood(w) /\ StillAsked(w)
    BY <1>3, <1>4 DEF TaskGood, StillAsked, Asked, Sweeps
  <1> QED BY <1>2, <1>4, <1>5, QuietMoves

LEMMA EndsKeeps ==
    ASSUME FriendInv, NEW h \in Handlers, Fr!Ends(h), UNCHANGED <<edge, friends, outcast>>
    PROVE  FriendInv'
  BY IdleGood, QuietMoves DEF Fr!Ends

LEMMA ComesKeeps ==
    ASSUME FriendInv, NEW h \in Handlers, NEW w \in Tasks, work' = [work EXCEPT ![h] = w],
           w.pair \in Fr!Pairs, w.held = {}, w.step = "rows" => Sweeps(w),
           Sweeps(w) /\ (w.kind = "admin" \/ w.fresh) => w.rows = Fr!Pairs,
           w.kind = "accept" => w.step \notin {"reciprocal", "announce"},
           UNCHANGED <<edge, friends, outcast>>
    PROVE  FriendInv'
  <1>1. TaskGood(w) /\ StillAsked(w)
    BY DEF TaskGood, StillAsked, Asked
  <1> QED BY <1>1, QuietMoves

(* Requests that come in. *)
LEMMA RequestsCome ==
    ASSUME FriendInv, NEW h \in Handlers, NEW p \in Fr!Pairs, Fr!TwoUsers,
           \/ Fr!Apply(h, p) \/ Fr!Accept(h, p) \/ Fr!SendMessage(h, p)
           \/ Fr!RemoveFriend(h, p) \/ Fr!CreateFriendshipAdmin(h, p)
    PROVE  FriendInv'
  <1>p. Fr!Reverse(p) \in Fr!Pairs /\ \A q \in Fr!Pairs : q = p \/ q = Fr!Reverse(p)
    BY PairFacts
  <1>i. Fr!Idle \in Tasks /\ Fr!Idle.held = {}
    BY IdleGood DEF TaskGood
  <1>1. ASSUME NEW kind \in {"apply", "accept", "admin", "send"}, NEW step \in Steps, NEW rows \in SUBSET Fr!Pairs,
               Fr!Comes(h, kind, p, step, rows)
        PROVE  \E w \in Tasks : /\ work' = [work EXCEPT ![h] = w]
                                /\ w.kind = kind /\ w.pair = p /\ w.step = step /\ w.rows = rows /\ w.held = {}
    <2>1. PICK w : w = [Fr!Idle EXCEPT !.kind = kind, !.pair = p, !.step = step, !.rows = rows]
      OBVIOUS
    <2>2. w \in Tasks /\ w.kind = kind /\ w.pair = p /\ w.step = step /\ w.rows = rows /\ w.held = {}
      BY <1>i, <2>1 DEF Tasks
    <2>3. work' = [work EXCEPT ![h] = w]
      BY <1>1, <2>1 DEF Fr!Comes
    <2> QED BY <2>2, <2>3
  <1>2. CASE Fr!Apply(h, p) \/ Fr!Accept(h, p) \/ Fr!SendMessage(h, p)
    <2>1. PICK kind \in {"apply", "accept", "send"}, step \in {"check", "blocks"} :
             Fr!Comes(h, kind, p, step, {}) /\ UNCHANGED <<edge, friends, outcast>>
      BY <1>2 DEF Fr!Apply, Fr!Accept, Fr!SendMessage
    <2>2. PICK w : w = [Fr!Idle EXCEPT !.kind = kind, !.pair = p, !.step = step, !.rows = {}]
      OBVIOUS
    <2>3. w \in Tasks /\ w.kind = kind /\ w.pair = p /\ w.step = step /\ w.rows = {} /\ w.held = {}
      BY <1>i, <2>1, <2>2 DEF Tasks, Steps
    <2>4. work' = [work EXCEPT ![h] = w]
      BY <2>1, <2>2 DEF Fr!Comes
    <2> QED BY <2>1, <2>3, <2>4, ComesKeeps DEF Sweeps
  <1>3. CASE Fr!CreateFriendshipAdmin(h, p)
    <2>1. {p, Fr!Reverse(p)} = Fr!Pairs
      BY <1>p
    <2>2. PICK w \in Tasks : /\ work' = [work EXCEPT ![h] = w]
                             /\ w.kind = "admin" /\ w.pair = p /\ w.step = "rows" /\ w.rows = Fr!Pairs
                             /\ w.held = {}
      BY <1>1, <1>3, <2>1 DEF Fr!CreateFriendshipAdmin, Steps
    <2> QED BY <1>3, <2>2, ComesKeeps DEF Fr!CreateFriendshipAdmin, Sweeps
  <1>4. CASE Fr!RemoveFriend(h, p)
    <2>1. PICK fresh \in BOOLEAN : fresh = \A q \in Fr!Pairs : edge[q] # "none"
      OBVIOUS
    <2>2. PICK rows : rows = Fr!RowsRemoved(p)
      OBVIOUS
    <2>3. rows \subseteq Fr!Pairs /\ (fresh => rows = Fr!Pairs)
      BY <1>p, <2>1, <2>2 DEF Fr!RowsRemoved
    <2>4. PICK w : w = [Fr!Idle EXCEPT !.kind = "remove", !.pair = p, !.step = "rows", !.rows = rows,
                                       !.fresh = fresh]
      OBVIOUS
    <2>5. work' = [work EXCEPT ![h] = w] /\ UNCHANGED <<edge, friends, outcast>>
      BY <1>4, <2>1, <2>2, <2>4 DEF Fr!RemoveFriend
    <2>6. /\ w \in Tasks /\ w.kind = "remove" /\ w.pair = p /\ w.step = "rows" /\ w.rows = rows
          /\ w.held = {} /\ w.fresh = fresh
      BY <1>i, <2>3, <2>4 DEF Tasks, Steps
    <2> QED BY <2>3, <2>5, <2>6, ComesKeeps DEF Sweeps
  <1> QED BY <1>2, <1>3, <1>4

(* Locks are taken when nobody has them. *)
LEMMA LocksKeep ==
    ASSUME FriendInv, NEW h \in Handlers,
           Fr!LockRequest(h) \/ \E p \in Fr!Pairs : Fr!LockRow(h, p)
    PROVE  FriendInv'
  <1>t. TaskGood(work[h]) /\ work[h] \in Tasks
    BY DEF FriendInv, Tables, TaskGood
  <1>1. CASE Fr!LockRequest(h)
    <2>1. PICK asked : asked = Fr!Reverse(work[h].pair)
      OBVIOUS
    <2>2. Fr!At(h, "accept", "write") /\ Fr!Free(h, asked) /\ UNCHANGED <<edge, friends, outcast>>
      BY <1>1, <2>1 DEF Fr!LockRequest
    <2>3. asked \in Fr!Pairs
      BY <1>t, <2>1, <2>2, PairFacts DEF TaskGood, Fr!At
    <2>4. CASE edge[asked] = "pending"
      <3>1. PICK w : w = [work[h] EXCEPT !.step = "reciprocal", !.held = {asked}]
        OBVIOUS
      <3>2. work' = [work EXCEPT ![h] = w]
        BY <1>1, <2>1, <2>4, <3>1 DEF Fr!LockRequest, FriendInv, Tables
      <3>3. /\ w \in Tasks /\ w.step = "reciprocal" /\ w.kind = "accept" /\ w.pair = work[h].pair
            /\ w.held = {asked}
        BY <1>t, <2>2, <2>3, <3>1 DEF Tasks, Steps, Fr!At
      <3>4. TaskGood(w) /\ StillAsked(w)
        BY <1>t, <2>1, <2>2, <2>4, <3>3 DEF TaskGood, StillAsked, Asked, Sweeps, Fr!At
      <3> QED BY <2>2, <3>2, <3>3, <3>4, QuietMoves
    <2>5. CASE edge[asked] # "pending"
      BY <1>1, <2>1, <2>2, <2>5, EndsKeeps DEF Fr!LockRequest
    <2> QED BY <2>4, <2>5
  <1>2. ASSUME NEW p \in Fr!Pairs, Fr!LockRow(h, p) PROVE FriendInv'
    <2>1. PICK w : w = [work[h] EXCEPT !.held = @ \cup {p}]
      OBVIOUS
    <2>2. /\ work' = [work EXCEPT ![h] = w] /\ Fr!Free(h, p) /\ work[h].step = "rows"
          /\ p \in work[h].rows /\ UNCHANGED <<edge, friends, outcast>>
      BY <1>2, <2>1 DEF Fr!LockRow
    <2>3. /\ w \in Tasks /\ w.step = work[h].step /\ w.kind = work[h].kind /\ w.pair = work[h].pair
          /\ w.rows = work[h].rows /\ w.fresh = work[h].fresh /\ w.held = work[h].held \cup {p}
      BY <1>t, <2>1 DEF Tasks
    <2>4. Sweeps(work[h])
      BY <1>t, <2>2 DEF TaskGood
    <2>5. TaskGood(w) /\ StillAsked(w)
      BY <1>t, <2>3, <2>4 DEF TaskGood, StillAsked, Asked, Sweeps
    <2> QED BY <2>2, <2>3, <2>5, QuietMoves
  <1> QED BY <1>1, <1>2

(* The rows of a pair change: SaveRequest, RejectRequest, RecallRequest. *)
LEMMA RowsKeep ==
    ASSUME FriendInv, NEW p \in Fr!Pairs,
           \/ Fr!RejectRequest(p) \/ Fr!RecallRequest(p)
           \/ \E h \in Handlers : Fr!SaveRequest(h) /\ p = work[h].pair
    PROVE  FriendInv'
  <1>1. CASE \E h \in Handlers : Fr!SaveRequest(h) /\ p = work[h].pair
    <2>1. PICK h \in Handlers : Fr!SaveRequest(h) /\ p = work[h].pair
      BY <1>1
    <2>2. /\ Fr!Free(h, p) /\ work' = [work EXCEPT ![h] = Fr!Idle] /\ friends' = friends
          /\ edge' = [edge EXCEPT ![p] = Fr!Requested(@)] /\ outcast' = outcast \ {p}
      BY <2>1 DEF Fr!SaveRequest, Fr!Ends
    <2>3. edge' \in [Fr!Pairs -> Statuses] /\ \A q \in Fr!Pairs \ {p} : edge'[q] = edge[q]
      BY <2>2 DEF FriendInv, Tables, Statuses, Fr!Requested
    <2>4. edge'[p] = Fr!Requested(edge[p])
      BY <2>2 DEF FriendInv, Tables
    <2>5. StillAsked(Fr!Idle)'
      BY IdleGood DEF StillAsked, Asked
    <2>6. \A q \in Fr!Pairs : edge'[q] # edge[q] => Fr!Free(h, q)
      BY <2>2, <2>3
    <2>7. Tables'
      BY <2>2, <2>3, <2>5, <2>6, IdleGood, TaskMoves DEF FriendInv, Tables
    <2>8. FriendsAccepted'
      BY <2>2, <2>3, <2>4 DEF FriendInv, FriendsAccepted, Fr!Requested
    <2>9. OutcastRemoved'
      BY <2>2, <2>3, <2>4 DEF FriendInv, OutcastRemoved, Fr!Requested
    <2> QED BY <2>7, <2>8, <2>9 DEF FriendInv
  <1>2. CASE Fr!RejectRequest(p) \/ Fr!RecallRequest(p)
    <2>1. PICK r \in Fr!Pairs, status \in {"rejected", "recalled"} :
             /\ edge[r] = "pending" /\ \A h \in Handlers : r \notin work[h].held
             /\ edge' = [edge EXCEPT ![r] = status]
             /\ UNCHANGED <<work, friends, outcast>>
      BY <1>2, PairFacts DEF Fr!RejectRequest, Fr!RecallRequest
    <2>2. /\ edge' \in [Fr!Pairs -> Statuses] /\ edge'[r] = status
          /\ \A q \in Fr!Pairs \ {r} : edge'[q] = edge[q]
      BY <2>1 DEF FriendInv, Tables, Statuses
    <2>3. ASSUME NEW h \in Handlers PROVE (TaskGood(work[h]) /\ StillAsked(work[h]))'
      <3>1. TaskGood(work[h]) /\ StillAsked(work[h]) /\ work'[h] = work[h]
        BY <2>1 DEF FriendInv, Tables
      <3>2. ASSUME Asked(work[h]) PROVE edge'[Fr!Reverse(work[h].pair)] = "pending"
        <4>1. /\ Fr!Reverse(work[h].pair) \in work[h].held
              /\ Fr!Reverse(work[h].pair) \in Fr!Pairs
          BY <3>1, <3>2 DEF TaskGood, Tasks
        <4> QED BY <2>1, <2>2, <3>1, <3>2, <4>1 DEF StillAsked
      <3> QED BY <3>1, <3>2 DEF TaskGood, StillAsked, Asked, Sweeps
    <2>4. Tables'
      BY <2>1, <2>2, <2>3 DEF FriendInv, Tables
    <2>5. FriendsAccepted' /\ OutcastRemoved'
      BY <2>1, <2>2 DEF FriendInv, FriendsAccepted, OutcastRemoved
    <2> QED BY <2>4, <2>5 DEF FriendInv
  <1> QED BY <1>1, <1>2

(* The commits of an accept, a removal and the administrator's friendship.   *)
LEMMA CommitsKeep ==
    ASSUME FriendInv, Fr!TwoUsers, NEW h \in Handlers,
           Fr!CommitAccept(h) \/ Fr!CommitRemove(h) \/ Fr!CommitAdmin(h)
    PROVE  FriendInv'
  <1>t. TaskGood(work[h]) /\ work[h] \in Tasks /\ StillAsked(work[h])
    BY DEF FriendInv, Tables, TaskGood
  <1>a. ASSUME edge' = [p \in Fr!Pairs |-> "accepted"], outcast' = {}, friends' = TRUE
        PROVE  /\ edge' \in [Fr!Pairs -> Statuses] /\ friends' \in BOOLEAN
               /\ FriendsAccepted' /\ OutcastRemoved'
    BY <1>a DEF Statuses, FriendsAccepted, OutcastRemoved
  <1>i. StillAsked(Fr!Idle)' /\ TaskGood(Fr!Idle) /\ Fr!Idle.held = {}
    BY IdleGood DEF StillAsked, Asked
  <1>1. CASE Fr!CommitAccept(h)
    <2>1. PICK w : w = [work[h] EXCEPT !.step = "announce", !.held = {}, !.fresh = ~friends]
      OBVIOUS
    <2>2. /\ Fr!At(h, "accept", "reciprocal") /\ Fr!Free(h, work[h].pair)
          /\ edge' = [p \in Fr!Pairs |-> "accepted"] /\ outcast' = {} /\ friends' = TRUE
      BY <1>1 DEF Fr!CommitAccept
    <2>3. work' = [work EXCEPT ![h] = w]
      BY <1>1, <2>1 DEF Fr!CommitAccept, FriendInv, Tables
    <2>4. /\ work[h].pair \in Fr!Pairs /\ Asked(work[h])
          /\ work[h].held = {Fr!Reverse(work[h].pair)}
          /\ edge[Fr!Reverse(work[h].pair)] = "pending"
      BY <1>t, <2>2 DEF TaskGood, StillAsked, Asked, Fr!At
    <2>5. friends = FALSE
      BY <2>4, PairFacts DEF FriendInv, FriendsAccepted, Tables
    <2>6. /\ w \in Tasks /\ w.kind = "accept" /\ w.step = "announce" /\ w.held = {} /\ w.fresh
          /\ w.pair = work[h].pair
      BY <1>t, <2>1, <2>2, <2>5 DEF Tasks, Steps, Fr!At
    <2>7. TaskGood(w) /\ StillAsked(w)'
      BY <2>4, <2>6 DEF TaskGood, StillAsked, Asked, Sweeps
    <2>8. \A p \in Fr!Pairs : p \in work[h].held \/ Fr!Free(h, p)
      BY <2>2, <2>4, PairFacts
    <2>9. Tables'
      BY <1>a, <2>2, <2>3, <2>6, <2>7, <2>8, TaskMoves DEF FriendInv
    <2> QED BY <1>a, <2>2, <2>9 DEF FriendInv
  <1>2. CASE Fr!CommitAdmin(h)
    <2>1. /\ Sweeps(work[h]) /\ work[h].kind = "admin" /\ work[h].held = work[h].rows
          /\ edge' = [p \in Fr!Pairs |-> "accepted"] /\ outcast' = {} /\ friends' = TRUE
          /\ work' = [work EXCEPT ![h] = Fr!Idle]
      BY <1>2 DEF Fr!CommitAdmin, Fr!Ends, Fr!At, Sweeps
    <2>2. work[h].held = Fr!Pairs
      BY <1>t, <2>1 DEF TaskGood
    <2>3. Tables'
      BY <1>a, <1>i, <2>1, <2>2, TaskMoves DEF FriendInv
    <2> QED BY <1>a, <2>1, <2>3 DEF FriendInv
  <1>3. CASE Fr!CommitRemove(h)
    <2>1. /\ Sweeps(work[h]) /\ work[h].kind = "remove" /\ work[h].held = work[h].rows
          /\ edge' = [p \in Fr!Pairs |-> IF p \in work[h].rows THEN "removed" ELSE edge[p]]
          /\ outcast' = IF friends /\ work[h].fresh THEN outcast \cup {work[h].pair} ELSE outcast
          /\ friends' = (friends /\ work[h].rows = {})
          /\ work' = [work EXCEPT ![h] = Fr!Idle]
      BY <1>3 DEF Fr!CommitRemove, Fr!Ends, Fr!At, Sweeps
    <2>2. /\ edge' \in [Fr!Pairs -> Statuses] /\ friends' \in BOOLEAN
          /\ \A p \in Fr!Pairs : edge'[p] # edge[p] => p \in work[h].held
      BY <2>1 DEF FriendInv, Tables, Statuses
    <2>3. Tables'
      BY <1>i, <2>1, <2>2, TaskMoves DEF FriendInv
    <2>4. FriendsAccepted'
      BY <2>1 DEF FriendInv, FriendsAccepted
    <2>5. OutcastRemoved'
      <3>1. CASE friends /\ work[h].fresh
        <4>1. work[h].rows = Fr!Pairs /\ work[h].pair \in Fr!Pairs
          BY <1>t, <2>1, <3>1 DEF TaskGood, Sweeps
        <4>2. \A p \in Fr!Pairs : edge'[p] = "removed"
          BY <2>1, <4>1
        <4> QED BY <2>1, <4>1, <4>2 DEF FriendInv, OutcastRemoved
      <3>2. CASE ~(friends /\ work[h].fresh)
        BY <2>1, <3>2 DEF FriendInv, OutcastRemoved
      <3> QED BY <3>1, <3>2
    <2> QED BY <2>3, <2>4, <2>5 DEF FriendInv
  <1> QED BY <1>1, <1>2, <1>3

LEMMA FriendNext == ASSUME FriendInv, Fr!TwoUsers, Fr!Next PROVE FriendInv'
  <1>e. ASSUME NEW h \in Handlers, Fr!Ends(h), UNCHANGED <<edge, friends, outcast>> PROVE FriendInv'
    BY <1>e, EndsKeeps
  <1>h. ASSUME NEW h \in Handlers, ~Asked(work[h]), ~Sweeps(work[h]) PROVE work[h].held = {}
    BY <1>h DEF FriendInv, Tables, TaskGood
  <1>1. ASSUME NEW h \in Handlers, NEW p \in Fr!Pairs,
               \/ Fr!Apply(h, p) \/ Fr!Accept(h, p) \/ Fr!SendMessage(h, p)
               \/ Fr!RemoveFriend(h, p) \/ Fr!CreateFriendshipAdmin(h, p)
        PROVE  FriendInv'
    BY <1>1, RequestsCome
  <1>2. ASSUME NEW h \in Handlers, NEW p \in Fr!Pairs, Fr!LockRow(h, p) PROVE FriendInv'
    BY <1>2, LocksKeep
  <1>3. ASSUME NEW h \in Handlers, Fr!LockRequest(h) PROVE FriendInv'
    BY <1>3, LocksKeep
  <1>4. ASSUME NEW h \in Handlers, Fr!AlreadyFriends(h) \/ Fr!Announce(h) \/ Fr!Deliver(h) \/ Fr!Fails(h)
        PROVE  FriendInv'
    BY <1>4, <1>e DEF Fr!AlreadyFriends, Fr!Announce, Fr!Deliver, Fr!Fails
  <1>5. ASSUME NEW h \in Handlers,
               \/ Fr!NotYetFriends(h) \/ Fr!CheckMutualBlock(h) \/ Fr!CheckFriends(h)
               \/ Fr!CheckRemoved(h) \/ Fr!CheckPrivacy(h)
        PROVE  FriendInv'
    <2>1. \/ Fr!Ends(h)
          \/ \E step \in {"write", "friends", "passed", "removed", "privacy"} : Fr!Goes(h, step)
      BY <1>5 DEF Fr!NotYetFriends, Fr!CheckMutualBlock, Fr!CheckFriends, Fr!CheckRemoved, Fr!CheckPrivacy
    <2>2. UNCHANGED <<edge, friends, outcast>> /\ ~Asked(work[h]) /\ ~Sweeps(work[h])
      BY <1>5 DEF Fr!NotYetFriends, Fr!CheckMutualBlock, Fr!CheckFriends, Fr!CheckRemoved,
                  Fr!CheckPrivacy, Fr!At, Asked, Sweeps
    <2> QED BY <1>e, <1>h, <2>1, <2>2, GoesKeeps DEF Steps
  <1>6. ASSUME NEW h \in Handlers, Fr!SaveRequest(h) PROVE FriendInv'
    <2>1. work[h].pair \in Fr!Pairs
      BY <1>6 DEF FriendInv, Tables, TaskGood, Fr!SaveRequest, Fr!At
    <2> QED BY <1>6, <2>1, RowsKeep
  <1>7. ASSUME NEW h \in Handlers, Fr!CommitAccept(h) \/ Fr!CommitRemove(h) \/ Fr!CommitAdmin(h)
        PROVE  FriendInv'
    BY <1>7, CommitsKeep
  <1>8. ASSUME NEW p \in Fr!Pairs, Fr!RejectRequest(p) \/ Fr!RecallRequest(p) PROVE FriendInv'
    BY <1>8, RowsKeep
  <1>9. ASSUME UNCHANGED <<edge, work, friends, outcast>> PROVE FriendInv'
    BY <1>9 DEF FriendInv, Tables, TaskGood, StillAsked, Asked, Sweeps, FriendsAccepted, OutcastRemoved
  <1>10. ASSUME NEW p \in Fr!Pairs, Fr!AddToBlacklist(p) \/ Fr!RemoveFromBlacklist(p) PROVE FriendInv'
    BY <1>9, <1>10 DEF Fr!AddToBlacklist, Fr!RemoveFromBlacklist
  <1> QED BY <1>1, <1>2, <1>3, <1>4, <1>5, <1>6, <1>7, <1>8, <1>10 DEF Fr!Next

(* What the recipient of a message has upheld since it came: a message that  *)
(* passed the look at the block lists was not barred by a block throughout,  *)
(* and one that passed those at the friendship not by its end.               *)
Barring(why) == IF why = "blocked" THEN blocks ELSE outcast

BarredTrue ==
    \A m \in barred : /\ m \in Handlers \X {"blocked", "parted"} /\ work[m[1]].kind = "send"
                      /\ Fr!Reverse(work[m[1]].pair) \in Barring(m[2])
Judged ==
    \A h \in Handlers : work[h].kind = "send" =>
        /\ work[h].step \in {"friends", "removed", "privacy", "passed"} => <<h, "blocked">> \notin barred
        /\ work[h].step \in {"privacy", "passed"} => <<h, "parted">> \notin barred

(* How a message goes on: it comes, stays where it is, or passes a check.    *)
Passes(h) ==
    \/ work'[h] = work[h]
    \/ work'[h].kind # "send"
    \/ work'[h].step = "blocks"
    \/ /\ work[h].kind = "send" /\ work'[h].pair = work[h].pair /\ work[h] # Fr!Idle
       /\ UNCHANGED <<blocks, outcast>>
       /\ \/ /\ work[h].step = "blocks" /\ work'[h].step = "friends"
             /\ Fr!Reverse(work[h].pair) \notin blocks
          \/ work[h].step = "friends" /\ work'[h].step = "removed"
          \/ work[h].step = "friends" /\ work'[h].step = "passed" /\ Fr!IsFriend
          \/ work[h].step = "removed" /\ work'[h].step = "privacy" /\ ~Fr!IsRemoved
          \/ work[h].step = "privacy" /\ work'[h].step = "passed"

LEMMA MovesOne ==
    ASSUME FriendInv, NEW h \in Handlers, NEW w, work' = [work EXCEPT ![h] = w]
    PROVE  work'[h] = w /\ \A g \in Handlers \ {h} : work'[g] = work[g]
  BY DEF FriendInv, Tables

LEMMA MessagesPass == ASSUME FriendInv, Fr!Next PROVE \A h \in Handlers : Passes(h)
  <1>1. ASSUME UNCHANGED work PROVE \A h \in Handlers : Passes(h)
    BY <1>1 DEF Passes
  <1>2. ASSUME NEW h \in Handlers, NEW w, work' = [work EXCEPT ![h] = w],
               w.kind # "send" \/ w.step = "blocks"
        PROVE  \A g \in Handlers : Passes(g)
    BY <1>2, MovesOne DEF Passes
  <1>3. ASSUME NEW h \in Handlers, Fr!Ends(h) PROVE \A g \in Handlers : Passes(g)
    BY <1>2, <1>3, IdleGood DEF Fr!Ends
  <1>i. Fr!Idle \in Tasks /\ Fr!Idle.kind = "none"
    BY IdleGood DEF TaskGood
  <1>4. ASSUME NEW h \in Handlers, NEW kind, NEW p, NEW step, NEW rows, Fr!Comes(h, kind, p, step, rows),
               kind # "send" \/ step = "blocks"
        PROVE  \A g \in Handlers : Passes(g)
    <2>1. PICK w : w = [Fr!Idle EXCEPT !.kind = kind, !.pair = p, !.step = step, !.rows = rows]
      OBVIOUS
    <2>2. w.kind = kind /\ w.step = step
      BY <1>i, <2>1 DEF Tasks
    <2>3. work' = [work EXCEPT ![h] = w]
      BY <1>4, <2>1 DEF Fr!Comes
    <2> QED BY <1>2, <1>4, <2>2, <2>3
  <1>5. ASSUME NEW h \in Handlers, NEW w, work' = [work EXCEPT ![h] = w], work[h].kind # "send",
               w.kind = work[h].kind
        PROVE  \A g \in Handlers : Passes(g)
    BY <1>2, <1>5
  <1>t. ASSUME NEW h \in Handlers PROVE work[h] \in Tasks
    BY DEF FriendInv, Tables, TaskGood
  <1>6. ASSUME NEW h \in Handlers, NEW p \in Fr!Pairs,
               Fr!Apply(h, p) \/ Fr!Accept(h, p) \/ Fr!SendMessage(h, p) \/ Fr!CreateFriendshipAdmin(h, p)
        PROVE  \A g \in Handlers : Passes(g)
    <2>1. PICK kind, step, rows : Fr!Comes(h, kind, p, step, rows) /\ (kind # "send" \/ step = "blocks")
      BY <1>6 DEF Fr!Apply, Fr!Accept, Fr!SendMessage, Fr!CreateFriendshipAdmin
    <2> QED BY <1>4, <2>1
  <1>7. ASSUME NEW h \in Handlers, NEW p \in Fr!Pairs, Fr!RemoveFriend(h, p)
        PROVE  \A g \in Handlers : Passes(g)
    <2>1. PICK rows, fresh :
             work' = [work EXCEPT ![h] = [Fr!Idle EXCEPT !.kind = "remove", !.pair = p, !.step = "rows",
                                                         !.rows = rows, !.fresh = fresh]]
      BY <1>7 DEF Fr!RemoveFriend
    <2>2. PICK w : w = [Fr!Idle EXCEPT !.kind = "remove", !.pair = p, !.step = "rows",
                                       !.rows = rows, !.fresh = fresh]
      OBVIOUS
    <2>3. w.kind = "remove"
      BY <1>i, <2>2 DEF Tasks
    <2> QED BY <1>2, <2>1, <2>2, <2>3
  <1>8. ASSUME NEW h \in Handlers, NEW p \in Fr!Pairs, Fr!LockRow(h, p)
        PROVE  \A g \in Handlers : Passes(g)
    <2>1. PICK w : w = [work[h] EXCEPT !.held = @ \cup {p}]
      OBVIOUS
    <2>2. work' = [work EXCEPT ![h] = w] /\ w.kind = work[h].kind /\ work[h].kind # "send"
      BY <1>8, <1>t, <2>1 DEF Fr!LockRow, Tasks, FriendInv, Tables, TaskGood, Sweeps
    <2> QED BY <1>5, <2>2
  <1>9. ASSUME NEW h \in Handlers, Fr!LockRequest(h) \/ Fr!CommitAccept(h)
        PROVE  \A g \in Handlers : Passes(g)
    <2>1. Fr!Ends(h) \/ \E w : work' = [work EXCEPT ![h] = w] /\ w.kind = work[h].kind
      <3>1. CASE Fr!LockRequest(h)
        <4>1. PICK w : w = [work[h] EXCEPT !.step = "reciprocal", !.held = {Fr!Reverse(work[h].pair)}]
          OBVIOUS
        <4>2. w.kind = work[h].kind
          BY <1>t, <4>1 DEF Tasks
        <4>3. Fr!Ends(h) \/ work' = [work EXCEPT ![h] = w]
          BY <3>1, <4>1 DEF Fr!LockRequest, FriendInv, Tables
        <4> QED BY <4>2, <4>3
      <3>2. CASE Fr!CommitAccept(h)
        <4>1. PICK w : w = [work[h] EXCEPT !.step = "announce", !.held = {}, !.fresh = ~friends]
          OBVIOUS
        <4>2. w.kind = work[h].kind
          BY <1>t, <4>1 DEF Tasks
        <4>3. work' = [work EXCEPT ![h] = w]
          BY <3>2, <4>1 DEF Fr!CommitAccept, FriendInv, Tables
        <4> QED BY <4>2, <4>3
      <3> QED BY <1>9, <3>1, <3>2
    <2>2. work[h].kind = "accept"
      BY <1>9 DEF Fr!LockRequest, Fr!CommitAccept, Fr!At
    <2> QED BY <1>3, <1>5, <2>1, <2>2
  <1>10. ASSUME NEW h \in Handlers,
                \/ Fr!AlreadyFriends(h) \/ Fr!SaveRequest(h) \/ Fr!Announce(h) \/ Fr!CommitRemove(h)
                \/ Fr!CommitAdmin(h) \/ Fr!Deliver(h) \/ Fr!Fails(h)
         PROVE  \A g \in Handlers : Passes(g)
    BY <1>3, <1>10 DEF Fr!AlreadyFriends, Fr!SaveRequest, Fr!Announce, Fr!CommitRemove, Fr!CommitAdmin,
                       Fr!Deliver, Fr!Fails
  <1>11. ASSUME NEW h \in Handlers, NEW step, Fr!Goes(h, step)
         PROVE  /\ work'[h].step = step /\ work'[h].kind = work[h].kind /\ work'[h].pair = work[h].pair
                /\ \A g \in Handlers \ {h} : work'[g] = work[g]
    <2>1. PICK w : w = [work[h] EXCEPT !.step = step]
      OBVIOUS
    <2>2. w.step = step /\ w.kind = work[h].kind /\ w.pair = work[h].pair
      BY <1>t, <2>1 DEF Tasks
    <2> QED BY <1>11, <2>1, <2>2, MovesOne DEF Fr!Goes
  <1>12. ASSUME NEW h \in Handlers, Fr!NotYetFriends(h) PROVE \A g \in Handlers : Passes(g)
    BY <1>11, <1>12 DEF Fr!NotYetFriends, Fr!At, Passes
  <1>13. ASSUME NEW h \in Handlers,
                \/ Fr!CheckMutualBlock(h) \/ Fr!CheckFriends(h) \/ Fr!CheckRemoved(h) \/ Fr!CheckPrivacy(h)
         PROVE  \A g \in Handlers : Passes(g)
    <2>1. work[h].kind = "send" /\ work[h] # Fr!Idle /\ UNCHANGED <<blocks, outcast>>
      BY <1>13, <1>i DEF Fr!CheckMutualBlock, Fr!CheckFriends, Fr!CheckRemoved, Fr!CheckPrivacy, Fr!At
    <2>2. CASE Fr!CheckMutualBlock(h)
      BY <1>3, <1>11, <2>1, <2>2 DEF Fr!CheckMutualBlock, Fr!At, Passes
    <2>3. CASE Fr!CheckFriends(h)
      BY <1>11, <2>1, <2>3 DEF Fr!CheckFriends, Fr!At, Passes
    <2>4. CASE Fr!CheckRemoved(h)
      BY <1>3, <1>11, <2>1, <2>4 DEF Fr!CheckRemoved, Fr!At, Passes
    <2>5. CASE Fr!CheckPrivacy(h)
      BY <1>3, <1>11, <2>1, <2>5 DEF Fr!CheckPrivacy, Fr!At, Passes
    <2> QED BY <1>13, <2>2, <2>3, <2>4, <2>5
  <1>14. ASSUME NEW p \in Fr!Pairs, \/ Fr!RejectRequest(p) \/ Fr!RecallRequest(p)
                                    \/ Fr!AddToBlacklist(p) \/ Fr!RemoveFromBlacklist(p)
         PROVE  \A g \in Handlers : Passes(g)
    BY <1>1, <1>14 DEF Fr!RejectRequest, Fr!RecallRequest, Fr!AddToBlacklist, Fr!RemoveFromBlacklist
  <1> QED BY <1>6, <1>7, <1>8, <1>9, <1>10, <1>12, <1>13, <1>14 DEF Fr!Next

LEMMA BarredNext ==
    ASSUME FriendInv, BarredTrue, Judged, Fr!Next
    PROVE  BarredTrue' /\ Judged'
  <1>1. /\ DOMAIN Fr!Bars = {"blocked", "parted"}
        /\ \A why \in {"blocked", "parted"} : Fr!Bars'[why] = Barring(why)'
    BY DEF Fr!Bars, Barring
  <1>2. \A m \in barred' : /\ m \in Handlers \X {"blocked", "parted"}
                           /\ work'[m[1]].kind = "send"
                           /\ Fr!Reverse(work'[m[1]].pair) \in Barring(m[2])'
                           /\ work[m[1]] = Fr!Idle \/ m \in barred
    BY <1>1 DEF Fr!Next, Fr!Remember
  <1>3. BarredTrue'
    BY <1>2 DEF BarredTrue
  <1>4. Judged'
    <2> SUFFICES ASSUME NEW h \in Handlers, work'[h].kind = "send"
                 PROVE  /\ work'[h].step \in {"friends", "removed", "privacy", "passed"} => <<h, "blocked">> \notin barred'
                        /\ work'[h].step \in {"privacy", "passed"} => <<h, "parted">> \notin barred'
      BY DEF Judged
    <2>1. Fr!Idle.kind = "none" /\ Passes(h)
      BY IdleGood, MessagesPass
    <2>2. ASSUME NEW why \in {"blocked", "parted"}, <<h, why>> \in barred', work[h] # Fr!Idle
          PROVE  <<h, why>> \in barred /\ work[h].kind = "send" /\ Fr!Reverse(work[h].pair) \in Barring(why)
      BY <1>2, <2>2 DEF BarredTrue
    <2>3. CASE work'[h] = work[h]
      BY <2>1, <2>2, <2>3 DEF Judged
    <2>4. CASE work'[h].step = "blocks"
      BY <2>4
    <2>5. CASE work'[h] # work[h] /\ work'[h].step # "blocks"
      <3>1. /\ work[h].kind = "send" /\ work[h] # Fr!Idle
            /\ \/ /\ work[h].step = "blocks" /\ work'[h].step = "friends"
                  /\ Fr!Reverse(work[h].pair) \notin blocks
               \/ work[h].step = "friends" /\ work'[h].step = "removed"
               \/ work[h].step = "friends" /\ work'[h].step = "passed" /\ Fr!IsFriend
               \/ work[h].step = "removed" /\ work'[h].step = "privacy" /\ ~Fr!IsRemoved
               \/ work[h].step = "privacy" /\ work'[h].step = "passed"
        BY <2>1, <2>5 DEF Passes
      <3>2. <<h, "blocked">> \in barred' => <<h, "blocked">> \in barred /\ Fr!Reverse(work[h].pair) \in blocks
        BY <2>2, <3>1 DEF Barring
      <3>3. <<h, "parted">> \in barred' => <<h, "parted">> \in barred /\ Fr!Reverse(work[h].pair) \in outcast
        BY <2>2, <3>1 DEF Barring
      <3>4. \A p \in outcast : ~Fr!IsFriend /\ Fr!IsRemoved
        BY DEF FriendInv, OutcastRemoved, Fr!IsFriend, Fr!IsRemoved
      <3> QED BY <3>1, <3>2, <3>3, <3>4 DEF Judged
    <2> QED BY <2>3, <2>4, <2>5
  <1> QED BY <1>3, <1>4

FriendlyInv == FriendInv /\ BarredTrue /\ Judged

LEMMA FriendlyInit == Fr!Init => FriendlyInv
  BY FriendInit, IdleGood DEF Fr!Init, FriendlyInv, BarredTrue, Judged

LEMMA FriendlyNext == ASSUME Fr!TwoUsers PROVE FriendlyInv /\ [Fr!Next]_(Fr!vars) => FriendlyInv'
  <1> SUFFICES ASSUME FriendlyInv, [Fr!Next]_(Fr!vars) PROVE FriendlyInv'
    OBVIOUS
  <1>1. CASE Fr!Next
    BY <1>1, FriendNext, BarredNext DEF FriendlyInv
  <1>2. CASE UNCHANGED Fr!vars
    BY <1>2 DEF Fr!vars, FriendlyInv, FriendInv, Tables, TaskGood, StillAsked, Asked, Sweeps,
                FriendsAccepted, OutcastRemoved, BarredTrue, Barring, Judged
  <1> QED BY <1>1, <1>2

(* The recipient's block or the end of the friendship, upheld since before a *)
(* message came, stops it, however requests, removals and the four queries   *)
(* of the check interleave (send_authorization.rs, friend_service.rs).       *)
THEOREM BarredStaysOut == ASSUME Fr!TwoUsers PROVE Fr!Spec => []Fr!BarredCannotSend
  <1>1. FriendlyInv => Fr!BarredCannotSend
    <2> SUFFICES ASSUME FriendlyInv, NEW h \in Handlers, Fr!At(h, "send", "passed"), NEW m \in barred
                 PROVE  m[1] # h
      BY DEF Fr!BarredCannotSend
    <2>1. m \in Handlers \X {"blocked", "parted"}
      BY DEF FriendlyInv, BarredTrue
    <2>2. <<h, "blocked">> # m /\ <<h, "parted">> # m
      BY DEF FriendlyInv, Judged, Fr!At
    <2> QED BY <2>1, <2>2
  <1> QED BY <1>1, FriendlyInit, FriendlyNext, PTL DEF Fr!Spec

(* Of two accepts of a friendship, or an accept and the administrator, only  *)
(* the one that made the two friends announces it                            *)
(* (friend_service.rs accept_friend_request_with_source).                    *)
THEOREM FriendedOnce == ASSUME Fr!TwoUsers PROVE Fr!Spec => []Fr!DecidedOnce
  <1>1. FriendlyInv => Fr!DecidedOnce
    BY DEF FriendlyInv, FriendInv, Tables, TaskGood, Fr!DecidedOnce, Fr!At
  <1> QED BY <1>1, FriendlyInit, FriendlyNext, PTL DEF Fr!Spec


-----------------------------------------------------------------------------
(* Devices and their connections.                                            *)

CONSTANTS Devices, DeviceOf, MaxVersion, MaxExtras
VARIABLES device, logins, ousted, access, line, handler, early, bound, token,
          indexA, indexB, superseded, total, drops, forced, leaving, asked, extras
Cn == INSTANCE Connections WITH tokens <- access

DeviceRows == [version : Nat, state : {"absent", "active", "kicked"}]
AccessTokens == [device : Devices, version : Nat, login : Nat]
Drops == [device : Devices, session : Sessions \cup {Cn!NoSession}, step : {"list", "find", "mark", "remove"}]
Leavings == [session : Sessions, by : {"delivery", "transport", "client", "logout"}, counted : BOOLEAN,
             step : {"removeB", "cleanA", "bump"}]

RowTypes ==
    /\ device \in [Devices -> DeviceRows] /\ logins \in [Devices -> Nat] /\ ousted \in [Devices -> Nat]
    /\ access \subseteq AccessTokens
    /\ token = [s \in Sessions |-> token[s]] /\ \A s \in Sessions : token[s].login \in Nat

IndexTypes ==
    /\ line = [s \in Sessions |-> line[s]] /\ handler = [s \in Sessions |-> handler[s]]
    /\ indexA \in [Devices -> Sessions \cup {Cn!NoSession}] /\ indexB = [s \in Sessions |-> indexB[s]]
    /\ drops \subseteq Drops /\ leaving \subseteq Leavings /\ \A j \in forced : j.session \in Sessions

(* A token with the version of the device's row is of the latest login, and  *)
(* a kick has ended none later than that.                                    *)
TokensFollowLogins ==
    /\ \A d \in Devices : ousted[d] <= logins[d]
    /\ \A t \in access : /\ t.version <= device[t.device].version
                         /\ t.version = device[t.device].version => t.login = logins[t.device]

Old(s) == token[s].login < ousted[DeviceOf[s]]

(* A session of a login that was kicked is in A only while the disconnect of *)
(* its device is still to look A up or has found it there, or because it was *)
(* being authorized.                                                         *)
OldWasEarly == \A s \in Sessions : Old(s) /\ handler[s] # "idle" => s \in early
OldIsFound ==
    \A s \in Sessions :
        Old(s) /\ indexA[DeviceOf[s]] = s =>
            s \in early \/ \E j \in drops : j.device = DeviceOf[s] /\ (j.step \in {"list", "find"} \/ j.session = s)

KickInv == RowTypes /\ IndexTypes /\ TokensFollowLogins /\ OldWasEarly /\ OldIsFound

(* Whatever takes a session out of an index was decided before. *)
EndsWereAsked ==
    /\ superseded \subseteq asked
    /\ \A j \in drops : j.step \in {"mark", "remove"} => j.session \in asked
    /\ \A j \in leaving : j.session \in asked \/ line[j.session] = "down"
LiveIsIndexed ==
    \A s \in bound \cap Sessions :
        line[s] = "up" /\ s \notin asked =>
            indexB[s] = "authenticated" /\ (handler[s] = "idle" => indexA[DeviceOf[s]] = s)

(* Nothing is authorized before its connection opens. *)
Opened == \A s \in Sessions : s \in bound \/ handler[s] # "idle" => line[s] # "new"

RouteInv == IndexTypes /\ bound \subseteq Sessions /\ Opened /\ EndsWereAsked /\ LiveIsIndexed

LEMMA LoginKeeps ==
    ASSUME KickInv, NEW d \in Devices, Cn!Login(d)
    PROVE  KickInv'
  <1>1. /\ device' = [device EXCEPT ![d] = Cn!Register(@)] /\ logins' = [logins EXCEPT ![d] = @ + 1]
        /\ access' = access \cup {[device |-> d, version |-> device'[d].version, login |-> logins'[d]]}
        /\ UNCHANGED <<ousted, line, handler, early, token, indexA, indexB, drops, forced, leaving>>
    BY DEF Cn!Login, Cn!Token, Cn!index, Cn!ending
  <1>2. PICK n \in Nat, l \in Nat : n = device[d].version /\ l = logins[d]
    BY DEF KickInv, RowTypes, DeviceRows
  <1>3. /\ device' \in [Devices -> DeviceRows] /\ device'[d].version = n + 1
        /\ \A e \in Devices \ {d} : device'[e] = device[e]
        /\ logins' \in [Devices -> Nat] /\ logins'[d] = l + 1
        /\ \A e \in Devices \ {d} : logins'[e] = logins[e]
    BY <1>1, <1>2 DEF KickInv, RowTypes, DeviceRows, Cn!Register
  <1>4. PICK t : t = [device |-> d, version |-> n + 1, login |-> l + 1]
    OBVIOUS
  <1>5. access' = access \cup {t} /\ t \in AccessTokens /\ t.device = d /\ t.version = n + 1 /\ t.login = l + 1
    BY <1>1, <1>3, <1>4 DEF AccessTokens
  <1>6. RowTypes' /\ IndexTypes'
    BY <1>1, <1>3, <1>5 DEF KickInv, RowTypes, IndexTypes
  <1>7. TokensFollowLogins'
    <2>1. \A e \in Devices : ousted[e] <= logins'[e]
      BY <1>2, <1>3 DEF KickInv, RowTypes, TokensFollowLogins
    <2>2. ASSUME NEW a \in access
          PROVE  /\ a.version <= device'[a.device].version
                 /\ a.version = device'[a.device].version => a.login = logins'[a.device]
      <3>1. a.device \in Devices /\ a.version \in Nat /\ a.version <= device[a.device].version
        BY <2>2 DEF KickInv, RowTypes, AccessTokens, TokensFollowLogins
      <3> QED BY <1>2, <1>3, <2>2, <3>1 DEF KickInv, TokensFollowLogins
    <2> QED BY <1>1, <1>3, <1>5, <2>1, <2>2 DEF TokensFollowLogins
  <1>8. OldWasEarly' /\ OldIsFound'
    BY <1>1 DEF KickInv, OldWasEarly, OldIsFound, Old
  <1> QED BY <1>6, <1>7, <1>8 DEF KickInv


(* Rows move on, and with "kicked" every session of a device that is hit is  *)
(* either still to be found or was being authorized.                         *)
LEMMA EndedKeeps ==
    ASSUME KickInv, Cn!SessionsOfDevices, NEW ds \in SUBSET Devices, NEW state \in {"active", "kicked"},
           Cn!Ended(ds, state), UNCHANGED <<access, line, handler, token, indexA, indexB, forced, leaving>>,
           drops' \subseteq Drops, drops \subseteq drops',
           state = "kicked" => \A d \in ds : \E j \in drops' : j.device = d /\ j.step \in {"list", "find"}
    PROVE  KickInv'
  <1>1. PICK hit : hit = {d \in ds : device[d].state = "active"}
    OBVIOUS
  <1>2. /\ device' = [d \in Devices |-> IF d \in hit THEN [version |-> device[d].version + 1, state |-> state] ELSE device[d]]
        /\ logins' = [d \in Devices |-> IF d \in hit THEN logins[d] + 1 ELSE logins[d]]
        /\ ousted' = IF state = "active" THEN ousted
                     ELSE [d \in Devices |-> IF d \in hit THEN logins[d] + 1 ELSE ousted[d]]
        /\ early' = IF state = "active" THEN early
                    ELSE {s \in early : DeviceOf[s] \notin hit}
                         \cup {s \in Sessions : DeviceOf[s] \in hit /\ handler[s] # "idle"}
    BY <1>1 DEF Cn!Ended
  <1>3. \A d \in Devices : device[d] \in DeviceRows /\ device[d].version \in Nat /\ logins[d] \in Nat /\ ousted[d] \in Nat
    BY DEF KickInv, RowTypes, DeviceRows
  <1>4. \A d \in Devices : /\ device'[d] \in DeviceRows
                           /\ device'[d].version = IF d \in hit THEN device[d].version + 1 ELSE device[d].version
    BY <1>2, <1>3 DEF DeviceRows
  <1>5. RowTypes' /\ IndexTypes'
    <2>1. device' \in [Devices -> DeviceRows]
      BY <1>2, <1>4
    <2>2. logins' \in [Devices -> Nat] /\ ousted' \in [Devices -> Nat]
      BY <1>2, <1>3 DEF KickInv, RowTypes
    <2> QED BY <2>1, <2>2 DEF KickInv, RowTypes, IndexTypes
  <1>6. TokensFollowLogins'
    <2>1. \A d \in Devices : ousted'[d] <= logins'[d]
      BY <1>2, <1>3 DEF KickInv, TokensFollowLogins
    <2>2. ASSUME NEW a \in access
          PROVE  /\ a.version <= device'[a.device].version
                 /\ a.version = device'[a.device].version => a.login = logins'[a.device]
      <3>1. a.device \in Devices /\ a.version \in Nat /\ a.version <= device[a.device].version
        BY <2>2 DEF KickInv, RowTypes, AccessTokens, TokensFollowLogins
      <3> QED BY <1>2, <1>3, <1>4, <2>2, <3>1 DEF KickInv, TokensFollowLogins
    <2> QED BY <2>1, <2>2 DEF TokensFollowLogins
  <1>7. ASSUME state = "active" PROVE OldWasEarly' /\ OldIsFound'
    BY <1>2, <1>7 DEF KickInv, OldWasEarly, OldIsFound, Old
  <1>8. ASSUME state = "kicked" PROVE OldWasEarly' /\ OldIsFound'
    <2>1. ASSUME NEW s \in Sessions, DeviceOf[s] \notin hit
          PROVE  (Old(s)' <=> Old(s)) /\ (s \in early => s \in early')
      BY <1>2, <1>8, <2>1 DEF Cn!SessionsOfDevices, Old
    <2>2. ASSUME NEW s \in Sessions, DeviceOf[s] \in hit
          PROVE  /\ handler[s] # "idle" => s \in early'
                 /\ \E j \in drops' : j.device = DeviceOf[s] /\ j.step \in {"list", "find"}
      BY <1>1, <1>2, <1>8, <2>2
    <2>3. OldWasEarly'
      BY <2>1, <2>2 DEF KickInv, OldWasEarly
    <2>4. OldIsFound'
      BY <2>1, <2>2 DEF KickInv, OldIsFound
    <2> QED BY <2>3, <2>4
  <1> QED BY <1>5, <1>6, <1>7, <1>8 DEF KickInv

LEMMA KicksKeep ==
    ASSUME KickInv, Cn!SessionsOfDevices,
           \/ \E d \in Devices : Cn!KickDevice(d)
           \/ \E ds \in {{}} \cup {{d} : d \in Devices} : Cn!KickAllBut(ds)
           \/ Cn!BumpUserSessions
    PROVE  KickInv'
  <1>t. drops \subseteq Drops
    BY DEF KickInv, IndexTypes
  <1>1. ASSUME NEW d \in Devices, Cn!KickDevice(d) PROVE KickInv'
    <2>1. PICK ds \in SUBSET Devices : ds = {d}
      OBVIOUS
    <2>2. PICK j : j = [device |-> d, session |-> Cn!NoSession, step |-> "find"]
      OBVIOUS
    <2>3. j \in Drops /\ j.device = d /\ j.step = "find" /\ drops' = drops \cup {j}
      BY <1>1, <2>2 DEF Drops, Cn!KickDevice, Cn!Drop
    <2>4. Cn!Ended(ds, "kicked") /\ UNCHANGED <<access, line, handler, token, indexA, indexB, forced, leaving>>
      BY <1>1, <2>1 DEF Cn!KickDevice, Cn!index
    <2>5. drops' \subseteq Drops /\ \A e \in ds : \E k \in drops' : k.device = e /\ k.step \in {"list", "find"}
      BY <1>t, <2>1, <2>3
    <2> QED BY <2>3, <2>4, <2>5, EndedKeeps
  <1>2. ASSUME NEW but \in {{}} \cup {{d} : d \in Devices}, Cn!KickAllBut(but) PROVE KickInv'
    <2>1. PICK ds \in SUBSET Devices : ds = Devices \ but
      OBVIOUS
    <2>2. drops' = drops \cup {[device |-> d, session |-> Cn!NoSession, step |-> "list"] : d \in ds}
      BY <1>2, <2>1 DEF Cn!KickAllBut
    <2>3. \A d \in ds : [device |-> d, session |-> Cn!NoSession, step |-> "list"] \in Drops
      BY DEF Drops
    <2>4. Cn!Ended(ds, "kicked") /\ UNCHANGED <<access, line, handler, token, indexA, indexB, forced, leaving>>
      BY <1>2, <2>1 DEF Cn!KickAllBut, Cn!index
    <2>5. ASSUME NEW e \in ds PROVE \E k \in drops' : k.device = e /\ k.step \in {"list", "find"}
      <3>1. PICK k : k = [device |-> e, session |-> Cn!NoSession, step |-> "list"]
        OBVIOUS
      <3>2. k \in drops' /\ k.device = e /\ k.step = "list"
        BY <2>2, <2>5, <3>1
      <3> QED BY <3>2
    <2>6. drops' \subseteq Drops
      BY <1>t, <2>2, <2>3
    <2> QED BY <2>2, <2>4, <2>5, <2>6, EndedKeeps
  <1>3. CASE Cn!BumpUserSessions
    <2>1. PICK ds \in SUBSET Devices : ds = Devices
      OBVIOUS
    <2>2. /\ Cn!Ended(ds, "active") /\ drops' = drops
          /\ UNCHANGED <<access, line, handler, token, indexA, indexB, forced, leaving>>
      BY <1>3, <2>1 DEF Cn!BumpUserSessions, Cn!index, Cn!ending
    <2> QED BY <1>t, <2>2, EndedKeeps
  <1> QED BY <1>1, <1>2, <1>3


(* The types of the indexes and of the calls under way. *)
LEMMA IndexNext == ASSUME IndexTypes, Cn!SessionsOfDevices, Cn!Next PROVE IndexTypes'
  <1> USE DEF IndexTypes
  <1>d. Cn!NoSession \notin Sessions /\ DeviceOf \in [Sessions -> Devices]
    BY DEF Cn!SessionsOfDevices
  <1>1. ASSUME NEW d \in Devices, Cn!Login(d) \/ Cn!KickDevice(d) PROVE IndexTypes'
    <2>1. CASE Cn!Login(d)
      BY <2>1 DEF Cn!Login, Cn!index, Cn!ending
    <2>2. CASE Cn!KickDevice(d)
      <3>1. Cn!Drop(d) \in Drops
        BY DEF Cn!Drop, Drops
      <3> QED BY <2>2, <3>1 DEF Cn!KickDevice, Cn!index
    <2> QED BY <1>1, <2>1, <2>2
  <1>2. ASSUME NEW but \in {{}} \cup {{d} : d \in Devices}, Cn!KickAllBut(but) PROVE IndexTypes'
    <2>1. \A d \in Devices : [device |-> d, session |-> Cn!NoSession, step |-> "list"] \in Drops
      BY DEF Drops
    <2> QED BY <1>2, <2>1 DEF Cn!KickAllBut, Cn!index
  <1>3. ASSUME Cn!BumpUserSessions PROVE IndexTypes'
    BY <1>3 DEF Cn!BumpUserSessions, Cn!index, Cn!ending
  <1>4. ASSUME NEW t \in access, Cn!Refresh(t) PROVE IndexTypes'
    BY <1>4 DEF Cn!Refresh, Cn!index, Cn!ending
  <1>5. ASSUME NEW s \in Sessions,
               \/ Cn!Open(s) \/ (\E t \in access : Cn!Verify(s, t)) \/ Cn!AuthenticateB(s) \/ Cn!AuthenticateA(s)
               \/ Cn!RpcRefused(s) \/ Cn!DeliveryFails(s) \/ Cn!Watchdog(s) \/ Cn!TransportCloses(s)
               \/ \E by \in {"client", "logout"} : Cn!ClientLeaves(s, by)
        PROVE  IndexTypes'
    <2>1. ASSUME Cn!Open(s) PROVE IndexTypes'
      BY <2>1 DEF Cn!Open, Cn!ending
    <2>2. ASSUME NEW t \in access, Cn!Verify(s, t) PROVE IndexTypes'
      BY <2>2 DEF Cn!Verify, Cn!index
    <2>3. ASSUME Cn!AuthenticateB(s) PROVE IndexTypes'
      BY <2>3 DEF Cn!AuthenticateB, Cn!ending
    <2>4. ASSUME Cn!AuthenticateA(s) PROVE IndexTypes'
      BY <1>d, <2>4 DEF Cn!AuthenticateA
    <2>5. ASSUME Cn!RpcRefused(s) \/ Cn!DeliveryFails(s) PROVE IndexTypes'
      <3>1. \A j \in forced' : j.session \in Sessions
        BY <2>5 DEF Cn!RpcRefused, Cn!DeliveryFails
      <3> QED BY <2>5, <3>1 DEF Cn!RpcRefused, Cn!DeliveryFails, Cn!index
    <2>6. ASSUME Cn!Watchdog(s) PROVE IndexTypes'
      BY <2>6 DEF Cn!Watchdog
    <2>7. ASSUME Cn!TransportCloses(s) PROVE IndexTypes'
      <3>1. Cn!Leave(s, "transport") \in Leavings
        BY DEF Cn!Leave, Leavings
      <3> QED BY <2>7, <3>1 DEF Cn!TransportCloses, Cn!index
    <2>8. ASSUME NEW by \in {"client", "logout"}, Cn!ClientLeaves(s, by) PROVE IndexTypes'
      <3>1. Cn!Leave(s, by) \in Leavings
        BY DEF Cn!Leave, Leavings
      <3> QED BY <2>8, <3>1 DEF Cn!ClientLeaves, Cn!index
    <2> QED BY <1>5, <2>1, <2>2, <2>3, <2>4, <2>5, <2>6, <2>7, <2>8
  <1>6. ASSUME NEW j \in drops, Cn!DropListed(j) \/ Cn!DropFind(j) \/ Cn!DropMark(j) \/ Cn!DropRemove(j)
        PROVE  IndexTypes'
    <2>d. j \in Drops /\ j.device \in Devices /\ indexA[j.device] \in Sessions \cup {Cn!NoSession}
      BY DEF Drops
    <2>1. ASSUME Cn!DropListed(j) PROVE IndexTypes'
      <3>1. Cn!Drop(j.device) \in Drops
        BY <2>d DEF Cn!Drop, Drops
      <3> QED BY <2>1, <3>1 DEF Cn!DropListed, Cn!index
    <2>2. ASSUME Cn!DropFind(j) PROVE IndexTypes'
      <3>1. [j EXCEPT !.session = indexA[j.device], !.step = "mark"] \in Drops
        BY <2>d DEF Drops
      <3> QED BY <2>2, <3>1 DEF Cn!DropFind, Cn!index
    <2>3. ASSUME Cn!DropMark(j) PROVE IndexTypes'
      <3>1. [j EXCEPT !.step = "remove"] \in Drops
        BY <2>d DEF Drops
      <3> QED BY <2>3, <3>1 DEF Cn!DropMark, Cn!Closing
    <2>4. ASSUME Cn!DropRemove(j) PROVE IndexTypes'
      BY <2>4, <2>d DEF Cn!DropRemove, Cn!OutOfA
    <2> QED BY <1>6, <2>1, <2>2, <2>3, <2>4
  <1>7. ASSUME NEW j \in forced, Cn!ForceClose(j) PROVE IndexTypes'
    <2>1. Cn!Leave(j.session, "delivery") \in Leavings
      BY DEF Cn!Leave, Leavings
    <2> QED BY <1>7, <2>1 DEF Cn!ForceClose, Cn!Closing
  <1>8. ASSUME NEW j \in leaving, Cn!RemoveB(j) \/ Cn!CleanA(j) \/ Cn!LogoutBumps(j) PROVE IndexTypes'
    <2>d. j \in Leavings /\ j.session \in Sessions
      BY DEF Leavings
    <2>1. ASSUME Cn!RemoveB(j) PROVE IndexTypes'
      <3>1. [j EXCEPT !.step = "cleanA", !.counted = indexB[j.session] = "authenticated"] \in Leavings
        BY <2>d DEF Leavings
      <3> QED BY <2>1, <3>1 DEF Cn!RemoveB
    <2>2. ASSUME Cn!CleanA(j) PROVE IndexTypes'
      <3>1. [j EXCEPT !.step = "bump"] \in Leavings
        BY <2>d DEF Leavings
      <3> QED BY <1>d, <2>2, <2>d, <3>1 DEF Cn!CleanA, Cn!OutOfA
    <2>3. ASSUME Cn!LogoutBumps(j) PROVE IndexTypes'
      BY <2>3 DEF Cn!LogoutBumps, Cn!index
    <2> QED BY <1>8, <2>1, <2>2, <2>3
  <1> QED BY <1>1, <1>2, <1>3, <1>4, <1>5, <1>6, <1>7, <1>8 DEF Cn!Next


(* No step but a kick makes a session's login an old one; what only empties  *)
(* A, or moves on an authorization that is under way, keeps the invariant.   *)
LEMMA QuietKeeps ==
    ASSUME KickInv, Cn!SessionsOfDevices, IndexTypes', UNCHANGED <<device, logins, ousted, access, token, early, drops>>,
           \A s \in Sessions : handler'[s] = "idle" \/ handler[s] # "idle",
           \A d \in Devices : indexA'[d] \in {indexA[d], Cn!NoSession}
    PROVE  KickInv'
  <1>1. RowTypes' /\ TokensFollowLogins'
    BY DEF KickInv, RowTypes, TokensFollowLogins
  <1>2. \A s \in Sessions : (Old(s)' <=> Old(s)) /\ DeviceOf[s] \in Devices /\ s # Cn!NoSession
    BY DEF Old, Cn!SessionsOfDevices
  <1>3. OldWasEarly'
    BY <1>2 DEF KickInv, OldWasEarly
  <1>4. OldIsFound'
    BY <1>2 DEF KickInv, OldIsFound
  <1> QED BY <1>1, <1>3, <1>4 DEF KickInv

(* A token that is accepted is of a login no kick has ended. *)
LEMMA ValidIsCurrent ==
    ASSUME KickInv, NEW t \in access, Cn!Valid(t)
    PROVE  t.version = device[t.device].version /\ t.login = logins[t.device] /\ ousted[t.device] <= t.login
  <1>1. t.device \in Devices /\ t.version \in Nat /\ t.version <= device[t.device].version
    BY DEF KickInv, RowTypes, AccessTokens, TokensFollowLogins
  <1>2. device[t.device].version \in Nat
    BY <1>1 DEF KickInv, RowTypes, DeviceRows
  <1>3. t.version = device[t.device].version
    BY <1>1, <1>2 DEF Cn!Valid
  <1> QED BY <1>1, <1>3 DEF KickInv, TokensFollowLogins

LEMMA RefreshKeeps ==
    ASSUME KickInv, NEW t \in access, Cn!Refresh(t), IndexTypes'
    PROVE  KickInv'
  <1>1. Cn!Valid(t) /\ UNCHANGED <<device, logins, ousted, handler, early, token, indexA, drops>>
        /\ access' = access \cup {[t EXCEPT !.version = device[t.device].version]}
    BY DEF Cn!Refresh, Cn!index, Cn!ending
  <1>2. [t EXCEPT !.version = device[t.device].version] = t
    BY <1>1, ValidIsCurrent DEF KickInv, RowTypes, AccessTokens
  <1>3. access' = access
    BY <1>1, <1>2
  <1> QED BY <1>1, <1>3 DEF KickInv, RowTypes, TokensFollowLogins, OldWasEarly, OldIsFound, Old

LEMMA VerifyKeeps ==
    ASSUME KickInv, Cn!SessionsOfDevices, NEW s \in Sessions, NEW t \in access, Cn!Verify(s, t), IndexTypes'
    PROVE  KickInv'
  <1>1. /\ Cn!Valid(t) /\ t.device = DeviceOf[s]
        /\ UNCHANGED <<device, logins, ousted, access, indexA, drops>>
        /\ handler' = [handler EXCEPT ![s] = "verified"] /\ token' = [token EXCEPT ![s] = t] /\ early' = early \ {s}
    BY DEF Cn!Verify, Cn!rows, Cn!index
  <1>2. t.login \in Nat /\ DeviceOf[s] \in Devices
    BY DEF KickInv, RowTypes, AccessTokens, Cn!SessionsOfDevices
  <1>3. token'[s] = t /\ \A r \in Sessions \ {s} : token'[r] = token[r] /\ handler'[r] = handler[r] /\ (r \in early => r \in early')
    BY <1>1 DEF KickInv, RowTypes, IndexTypes
  <1>4. ~ Old(s)'
    <2>1. ousted[DeviceOf[s]] <= t.login /\ ousted[DeviceOf[s]] \in Nat
      BY <1>1, <1>2, ValidIsCurrent DEF KickInv, RowTypes
    <2> QED BY <1>1, <1>2, <1>3, <2>1 DEF Old
  <1>5. \A r \in Sessions \ {s} : Old(r)' <=> Old(r)
    BY <1>1, <1>3 DEF Old
  <1>6. RowTypes' /\ TokensFollowLogins'
    BY <1>1, <1>2, <1>3 DEF KickInv, RowTypes, TokensFollowLogins
  <1>7. OldWasEarly'
    BY <1>3, <1>4, <1>5 DEF KickInv, OldWasEarly
  <1>8. OldIsFound'
    BY <1>1, <1>3, <1>4, <1>5 DEF KickInv, OldIsFound
  <1> QED BY <1>6, <1>7, <1>8 DEF KickInv

LEMMA AuthenticateKeeps ==
    ASSUME KickInv, Cn!SessionsOfDevices, NEW s \in Sessions, Cn!AuthenticateA(s), IndexTypes'
    PROVE  KickInv'
  <1>1. /\ handler[s] = "switching" /\ UNCHANGED <<device, logins, ousted, access, token, early, drops>>
        /\ handler' = [handler EXCEPT ![s] = "idle"] /\ indexA' = [indexA EXCEPT ![DeviceOf[s]] = s]
    BY DEF Cn!AuthenticateA, Cn!rows
  <1>2. RowTypes' /\ TokensFollowLogins'
    BY <1>1 DEF KickInv, RowTypes, TokensFollowLogins
  <1>3. \A r \in Sessions : (Old(r)' <=> Old(r)) /\ DeviceOf[r] \in Devices
    BY <1>1 DEF Old, Cn!SessionsOfDevices
  <1>4. Old(s) => s \in early
    BY <1>1 DEF KickInv, OldWasEarly
  <1>5. handler'[s] = "idle" /\ \A r \in Sessions \ {s} : handler'[r] = handler[r]
    BY <1>1 DEF KickInv, IndexTypes
  <1>6. \A r \in Sessions \ {s} : indexA'[DeviceOf[r]] = r => indexA[DeviceOf[r]] = r
    BY <1>1, <1>3 DEF KickInv, IndexTypes
  <1>7. OldWasEarly'
    BY <1>1, <1>3, <1>5 DEF KickInv, OldWasEarly
  <1>8. OldIsFound'
    BY <1>1, <1>3, <1>4, <1>6 DEF KickInv, OldIsFound
  <1> QED BY <1>2, <1>7, <1>8 DEF KickInv

(* A disconnect that looks A up goes on with the session it finds, and one   *)
(* that ends has taken that session out of A.                                *)
LEMMA DropsKeep ==
    ASSUME KickInv, Cn!SessionsOfDevices, NEW j \in drops, IndexTypes',
           Cn!DropListed(j) \/ Cn!DropFind(j) \/ Cn!DropMark(j) \/ Cn!DropRemove(j)
    PROVE  KickInv'
  <1>1. UNCHANGED <<device, logins, ousted, access, token, early, handler>> /\ drops \ {j} \subseteq drops'
    BY DEF Cn!DropListed, Cn!DropFind, Cn!DropMark, Cn!DropRemove, Cn!rows
  <1>2. RowTypes' /\ TokensFollowLogins' /\ OldWasEarly'
    BY <1>1 DEF KickInv, RowTypes, TokensFollowLogins, OldWasEarly, Old
  <1>3. j \in Drops /\ j.device \in Devices /\ indexA \in [Devices -> Sessions \cup {Cn!NoSession}]
    BY DEF KickInv, IndexTypes, Drops
  <1>4. ASSUME NEW s \in Sessions, indexA'[DeviceOf[s]] = s, j.device = DeviceOf[s], j.step \in {"list", "find"} \/ j.session = s
        PROVE  \E k \in drops' : k.device = DeviceOf[s] /\ (k.step \in {"list", "find"} \/ k.session = s)
    <2>d. s # Cn!NoSession /\ DeviceOf[s] \in Devices
      BY DEF Cn!SessionsOfDevices
    <2>1. CASE Cn!DropListed(j)
      <3>1. indexA' = indexA /\ drops' = (drops \ {j}) \cup {Cn!Drop(j.device)}
        BY <1>4, <2>1, <2>d DEF Cn!DropListed, Cn!index
      <3>2. PICK k : k = Cn!Drop(j.device)
        OBVIOUS
      <3>3. k.device = j.device /\ k.step = "find" /\ k \in drops'
        BY <3>1, <3>2 DEF Cn!Drop
      <3> QED BY <1>4, <3>3
    <2>2. CASE Cn!DropFind(j)
      <3>1. PICK k : k = [j EXCEPT !.session = indexA[j.device], !.step = "mark"]
        OBVIOUS
      <3>2. indexA' = indexA /\ k \in drops'
        BY <1>4, <2>2, <2>d, <3>1 DEF Cn!DropFind, Cn!index
      <3>3. k.device = j.device /\ k.session = s
        BY <1>3, <1>4, <3>1, <3>2 DEF Drops
      <3> QED BY <1>4, <3>2, <3>3
    <2>3. CASE Cn!DropMark(j)
      <3>1. PICK k : k = [j EXCEPT !.step = "remove"]
        OBVIOUS
      <3>2. k.device = j.device /\ k.session = j.session /\ k \in drops' /\ j.step = "mark"
        BY <1>3, <2>3, <3>1 DEF Cn!DropMark, Drops
      <3> QED BY <1>4, <3>2
    <2>4. CASE Cn!DropRemove(j)
      <3>1. indexA'[j.device] # j.session /\ j.step = "remove"
        BY <1>3, <1>4, <2>4, <2>d DEF Cn!DropRemove, Cn!OutOfA
      <3> QED BY <1>4, <3>1
    <2> QED BY <2>1, <2>2, <2>3, <2>4
  <1>5. \A s \in Sessions : indexA'[DeviceOf[s]] = s => indexA[DeviceOf[s]] = s
    <2>1. \A s \in Sessions : s # Cn!NoSession /\ DeviceOf[s] \in Devices
      BY DEF Cn!SessionsOfDevices
    <2>2. indexA' = indexA \/ indexA' = Cn!OutOfA(j.device, j.session)
      BY DEF Cn!DropListed, Cn!DropFind, Cn!DropMark, Cn!DropRemove, Cn!index
    <2> QED BY <1>3, <2>1, <2>2 DEF Cn!OutOfA
  <1>6. OldIsFound'
    <2>1. ASSUME NEW s \in Sessions, Old(s)', indexA'[DeviceOf[s]] = s, s \notin early'
          PROVE  \E k \in drops' : k.device = DeviceOf[s] /\ (k.step \in {"list", "find"} \/ k.session = s)
      <3>1. Old(s) /\ indexA[DeviceOf[s]] = s /\ s \notin early
        BY <1>1, <1>5, <2>1 DEF Old
      <3>2. PICK k \in drops : k.device = DeviceOf[s] /\ (k.step \in {"list", "find"} \/ k.session = s)
        BY <3>1 DEF KickInv, OldIsFound
      <3>3. CASE k = j
        BY <1>4, <2>1, <3>2, <3>3
      <3>4. CASE k # j
        BY <1>1, <3>2, <3>4
      <3> QED BY <3>3, <3>4
    <2> QED BY <2>1 DEF OldIsFound
  <1> QED BY <1>2, <1>6 DEF KickInv


LEMMA LogoutKeeps ==
    ASSUME KickInv, Cn!SessionsOfDevices, NEW j \in leaving, Cn!LogoutBumps(j), IndexTypes'
    PROVE  KickInv'
  <1>1. PICK d \in Devices : d = DeviceOf[j.session]
    BY DEF KickInv, IndexTypes, Leavings, Cn!SessionsOfDevices
  <1>2. /\ device' = [device EXCEPT ![d].version = @ + 1] /\ logins' = [logins EXCEPT ![d] = @ + 1]
        /\ UNCHANGED <<ousted, access, token, early, handler, indexA, drops>>
    BY <1>1 DEF Cn!LogoutBumps, Cn!index
  <1>3. device[d] \in DeviceRows /\ device[d].version \in Nat /\ logins[d] \in Nat
    BY DEF KickInv, RowTypes, DeviceRows
  <1>4. /\ device' \in [Devices -> DeviceRows] /\ device'[d].version = device[d].version + 1
        /\ \A e \in Devices \ {d} : device'[e] = device[e]
        /\ logins' \in [Devices -> Nat] /\ logins'[d] = logins[d] + 1
        /\ \A e \in Devices \ {d} : logins'[e] = logins[e]
    BY <1>2, <1>3 DEF KickInv, RowTypes, DeviceRows
  <1>5. TokensFollowLogins'
    <2>1. \A e \in Devices : ousted[e] <= logins'[e]
      BY <1>3, <1>4 DEF KickInv, RowTypes, TokensFollowLogins
    <2>2. ASSUME NEW a \in access
          PROVE  /\ a.version <= device'[a.device].version
                 /\ a.version = device'[a.device].version => a.login = logins'[a.device]
      <3>1. a.device \in Devices /\ a.version \in Nat /\ a.version <= device[a.device].version
        BY <2>2 DEF KickInv, RowTypes, AccessTokens, TokensFollowLogins
      <3> QED BY <1>3, <1>4, <2>2, <3>1 DEF KickInv, TokensFollowLogins
    <2> QED BY <1>2, <2>1, <2>2 DEF TokensFollowLogins
  <1>6. RowTypes' /\ OldWasEarly' /\ OldIsFound'
    BY <1>2, <1>4 DEF KickInv, RowTypes, OldWasEarly, OldIsFound, Old
  <1> QED BY <1>5, <1>6 DEF KickInv

LEMMA KickInit == ASSUME Cn!SessionsOfDevices, Cn!Init PROVE KickInv
  <1>1. RowTypes
    BY DEF Cn!Init, RowTypes, DeviceRows, Cn!NoToken
  <1>2. IndexTypes /\ TokensFollowLogins
    BY DEF Cn!Init, IndexTypes, TokensFollowLogins
  <1>3. \A s \in Sessions : handler[s] = "idle" /\ indexA[DeviceOf[s]] # s
    BY DEF Cn!Init, Cn!SessionsOfDevices
  <1> QED BY <1>1, <1>2, <1>3 DEF KickInv, OldWasEarly, OldIsFound

LEMMA KickNext == ASSUME Cn!SessionsOfDevices, KickInv, Cn!Next PROVE KickInv'
  <1>t. IndexTypes'
    BY IndexNext DEF KickInv
  <1>a. indexA \in [Devices -> Sessions \cup {Cn!NoSession}]
    BY DEF KickInv, IndexTypes
  <1>1. ASSUME NEW d \in Devices, Cn!Login(d) PROVE KickInv'
    BY <1>1, LoginKeeps
  <1>2. ASSUME \/ \E d \in Devices : Cn!KickDevice(d)
               \/ \E ds \in {{}} \cup {{d} : d \in Devices} : Cn!KickAllBut(ds)
               \/ Cn!BumpUserSessions
        PROVE  KickInv'
    BY <1>2, KicksKeep
  <1>3. ASSUME NEW t \in access, Cn!Refresh(t) PROVE KickInv'
    BY <1>3, <1>t, RefreshKeeps
  <1>4. ASSUME NEW s \in Sessions, NEW t \in access, Cn!Verify(s, t) PROVE KickInv'
    BY <1>4, <1>t, VerifyKeeps
  <1>5. ASSUME NEW s \in Sessions, Cn!AuthenticateA(s) PROVE KickInv'
    BY <1>5, <1>t, AuthenticateKeeps
  <1>6. ASSUME NEW s \in Sessions,
               \/ Cn!Open(s) \/ Cn!AuthenticateB(s) \/ Cn!RpcRefused(s) \/ Cn!DeliveryFails(s) \/ Cn!Watchdog(s)
               \/ Cn!TransportCloses(s) \/ \E by \in {"client", "logout"} : Cn!ClientLeaves(s, by)
        PROVE  KickInv'
    <2>1. UNCHANGED <<device, logins, ousted, access, token, early, drops, indexA>>
      BY <1>6 DEF Cn!Open, Cn!AuthenticateB, Cn!RpcRefused, Cn!DeliveryFails, Cn!Watchdog, Cn!TransportCloses,
                  Cn!ClientLeaves, Cn!rows, Cn!index, Cn!ending
    <2>2. \A r \in Sessions : handler'[r] = "idle" \/ handler[r] # "idle"
      <3>1. handler' = handler \/ Cn!AuthenticateB(s)
        BY <1>6 DEF Cn!Open, Cn!RpcRefused, Cn!DeliveryFails, Cn!Watchdog, Cn!TransportCloses, Cn!ClientLeaves
      <3> QED BY <3>1 DEF Cn!AuthenticateB, KickInv, IndexTypes
    <2> QED BY <1>t, <2>1, <2>2, QuietKeeps
  <1>7. ASSUME NEW j \in drops, Cn!DropListed(j) \/ Cn!DropFind(j) \/ Cn!DropMark(j) \/ Cn!DropRemove(j) PROVE KickInv'
    BY <1>7, <1>t, DropsKeep
  <1>8. ASSUME NEW j, (j \in forced /\ Cn!ForceClose(j)) \/ (j \in leaving /\ (Cn!RemoveB(j) \/ Cn!CleanA(j))) PROVE KickInv'
    <2>1. UNCHANGED <<device, logins, ousted, access, token, early, drops, handler>>
      BY <1>8 DEF Cn!ForceClose, Cn!RemoveB, Cn!CleanA, Cn!rows
    <2>2. indexA' = indexA \/ indexA' = Cn!OutOfA(DeviceOf[j.session], j.session)
      BY <1>8 DEF Cn!ForceClose, Cn!RemoveB, Cn!CleanA
    <2>3. \A d \in Devices : indexA'[d] \in {indexA[d], Cn!NoSession}
      BY <1>a, <2>2 DEF Cn!OutOfA
    <2> QED BY <1>t, <2>1, <2>3, QuietKeeps
  <1>9. ASSUME NEW j \in leaving, Cn!LogoutBumps(j) PROVE KickInv'
    BY <1>9, <1>t, LogoutKeeps
  <1> QED BY <1>1, <1>2, <1>3, <1>4, <1>5, <1>6, <1>7, <1>8, <1>9 DEF Cn!Next

LEMMA KickStep == ASSUME Cn!SessionsOfDevices PROVE KickInv /\ [Cn!Next]_(Cn!vars) => KickInv'
  <1>1. ASSUME KickInv, UNCHANGED Cn!vars PROVE KickInv'
    BY <1>1 DEF KickInv, RowTypes, IndexTypes, TokensFollowLogins, OldWasEarly, OldIsFound, Old,
                Cn!vars, Cn!rows, Cn!index, Cn!ending
  <1> QED BY <1>1, KickNext

(* However many devices and connections there are, and however logins,       *)
(* refreshes, kicks, authorizations and disconnects interleave: when no      *)
(* disconnect of the device is under way any more, a session that messages   *)
(* are routed to belongs to a login that no kick has ended, or was between   *)
(* its check and its registration when the device was kicked                 *)
(* (device_manager_db.rs kick_device, connection_manager.rs                  *)
(* disconnect_device).                                                       *)
THEOREM KicksReach == ASSUME Cn!SessionsOfDevices PROVE Cn!Spec => []Cn!KickReaches
  <1>1. KickInv => Cn!KickReaches
    BY DEF KickInv, OldIsFound, Old, Cn!KickReaches, Cn!Routed
  <1>2. Cn!Init => KickInv
    BY KickInit
  <1> QED BY <1>1, <1>2, KickStep, PTL DEF Cn!Spec

LEMMA RouteInit == ASSUME Cn!SessionsOfDevices, Cn!Init PROVE RouteInv
  BY DEF Cn!Init, RouteInv, IndexTypes, Opened, EndsWereAsked, LiveIsIndexed

LEMMA OpenedNext == ASSUME RouteInv, Cn!Next PROVE Opened' /\ bound' \subseteq Sessions /\ \A s \in Sessions : line[s] = "down" => line'[s] = "down"
  <1>1. CASE UNCHANGED <<line, handler>> /\ bound' \subseteq bound
    BY <1>1 DEF RouteInv, Opened
  <1>2. ASSUME NEW s \in Sessions,
               Cn!Open(s) \/ (\E t \in access : Cn!Verify(s, t)) \/ Cn!AuthenticateB(s) \/ Cn!AuthenticateA(s) \/ Cn!TransportCloses(s)
        PROVE  Opened' /\ bound' \subseteq Sessions /\ \A r \in Sessions : line[r] = "down" => line'[r] = "down"
    <2>1. line = [r \in Sessions |-> line[r]] /\ handler = [r \in Sessions |-> handler[r]] /\ bound \subseteq Sessions /\ Opened
      BY DEF RouteInv, IndexTypes
    <2>2. CASE Cn!Open(s)
      BY <2>1, <2>2 DEF Cn!Open, Opened
    <2>3. CASE \E t \in access : Cn!Verify(s, t)
      BY <2>1, <2>3 DEF Cn!Verify, Opened
    <2>4. CASE Cn!AuthenticateB(s)
      BY <2>1, <2>4 DEF Cn!AuthenticateB, Opened
    <2>5. CASE Cn!AuthenticateA(s)
      BY <2>1, <2>5 DEF Cn!AuthenticateA, Opened
    <2>6. CASE Cn!TransportCloses(s)
      BY <2>1, <2>6 DEF Cn!TransportCloses, Opened
    <2> QED BY <1>2, <2>2, <2>3, <2>4, <2>5, <2>6
  <1>3. ASSUME NEW d \in Devices, Cn!Login(d) \/ Cn!KickDevice(d) PROVE UNCHANGED <<line, handler>> /\ bound' \subseteq bound
    BY <1>3 DEF Cn!Login, Cn!KickDevice
  <1>4. ASSUME NEW ds, Cn!KickAllBut(ds) PROVE UNCHANGED <<line, handler>> /\ bound' \subseteq bound
    BY <1>4 DEF Cn!KickAllBut
  <1>5. ASSUME NEW t, Cn!BumpUserSessions \/ Cn!Refresh(t) PROVE UNCHANGED <<line, handler>> /\ bound' \subseteq bound
    BY <1>5 DEF Cn!BumpUserSessions, Cn!Refresh
  <1>6. ASSUME NEW s \in Sessions, Cn!RpcRefused(s) \/ Cn!DeliveryFails(s) \/ Cn!Watchdog(s)
                                   \/ \E by \in {"client", "logout"} : Cn!ClientLeaves(s, by)
        PROVE  UNCHANGED <<line, handler>> /\ bound' \subseteq bound
    BY <1>6 DEF Cn!RpcRefused, Cn!DeliveryFails, Cn!Watchdog, Cn!ClientLeaves
  <1>7. ASSUME NEW j, \/ Cn!DropListed(j) \/ Cn!DropFind(j) \/ Cn!DropMark(j) \/ Cn!DropRemove(j)
                      \/ Cn!ForceClose(j) \/ Cn!RemoveB(j) \/ Cn!CleanA(j) \/ Cn!LogoutBumps(j)
        PROVE  UNCHANGED <<line, handler>> /\ bound' \subseteq bound
    BY <1>7 DEF Cn!DropListed, Cn!DropFind, Cn!DropMark, Cn!DropRemove, Cn!ForceClose, Cn!RemoveB, Cn!CleanA, Cn!LogoutBumps
  <1> QED BY <1>1, <1>2, <1>3, <1>4, <1>5, <1>6, <1>7 DEF Cn!Next

(* Most steps only add to what has been decided, and leave the sessions that *)
(* are not decided upon as they were.                                        *)
LEMMA UnaskedKeeps ==
    ASSUME RouteInv, Cn!Next, Cn!SessionsOfDevices, asked \subseteq asked', bound' \subseteq bound, superseded' \subseteq asked',
           \A j \in drops' : j.step \in {"mark", "remove"} => j.session \in asked',
           \A j \in leaving' : j.session \in asked' \/ line'[j.session] = "down",
           \A s \in bound' : line'[s] = "up" /\ s \notin asked' =>
               /\ line[s] = "up" /\ indexB'[s] = indexB[s]
               /\ handler'[s] = "idle" => handler[s] = "idle" /\ (indexA[DeviceOf[s]] = s => indexA'[DeviceOf[s]] = s)
    PROVE  RouteInv'
  <1>1. IndexTypes' /\ bound' \subseteq Sessions /\ Opened' /\ EndsWereAsked'
    BY IndexNext, OpenedNext DEF RouteInv, EndsWereAsked
  <1>2. LiveIsIndexed'
    BY DEF RouteInv, LiveIsIndexed
  <1> QED BY <1>1, <1>2 DEF RouteInv

LEMMA AuthorizingKeeps ==
    ASSUME RouteInv, Cn!Next, Cn!SessionsOfDevices, NEW s \in Sessions,
           Cn!Open(s) \/ Cn!AuthenticateB(s) \/ Cn!AuthenticateA(s)
    PROVE  RouteInv'
  <1>1. IndexTypes' /\ bound' \subseteq Sessions /\ Opened' /\ \A r \in Sessions : line[r] = "down" => line'[r] = "down"
    BY IndexNext, OpenedNext DEF RouteInv
  <1>2. /\ line = [r \in Sessions |-> line[r]] /\ handler = [r \in Sessions |-> handler[r]]
        /\ indexA \in [Devices -> Sessions \cup {Cn!NoSession}] /\ indexB = [r \in Sessions |-> indexB[r]]
        /\ \A r \in Sessions : DeviceOf[r] \in Devices
    BY DEF RouteInv, IndexTypes, Cn!SessionsOfDevices
  <1>3. EndsWereAsked'
    <2>1. superseded' \subseteq asked' /\ asked \subseteq asked' /\ drops' = drops /\ leaving' = leaving
      BY DEF Cn!Open, Cn!AuthenticateB, Cn!AuthenticateA, Cn!ending, RouteInv, EndsWereAsked
    <2>2. \A j \in leaving : j.session \in Sessions
      BY DEF RouteInv, IndexTypes, Leavings
    <2> QED BY <1>1, <2>1, <2>2 DEF RouteInv, EndsWereAsked
  <1>4. LiveIsIndexed'
    <2>1. CASE Cn!Open(s)
      <3>1. s \notin bound
        BY <2>1 DEF Cn!Open, RouteInv, Opened
      <3>2. UNCHANGED <<bound, asked, handler, indexA>> /\ \A r \in Sessions \ {s} : line'[r] = line[r] /\ indexB'[r] = indexB[r]
        BY <1>2, <2>1 DEF Cn!Open, Cn!ending
      <3> QED BY <3>1, <3>2 DEF RouteInv, LiveIsIndexed
    <2>2. CASE Cn!AuthenticateB(s)
      <3>1. /\ UNCHANGED <<asked, indexA, line>> /\ bound' = bound \cup {s} /\ indexB'[s] = "authenticated" /\ handler'[s] # "idle"
            /\ \A r \in Sessions \ {s} : handler'[r] = handler[r] /\ indexB'[r] = indexB[r]
        BY <1>2, <2>2 DEF Cn!AuthenticateB, Cn!ending
      <3> QED BY <3>1 DEF RouteInv, LiveIsIndexed
    <2>3. CASE Cn!AuthenticateA(s)
      <3>1. PICK d, old : d \in Devices /\ d = DeviceOf[s] /\ old = indexA[d]
        BY <1>2
      <3>2. /\ UNCHANGED <<bound, line>> /\ indexA' = [indexA EXCEPT ![d] = s] /\ asked \subseteq asked'
            /\ old \notin {Cn!NoSession, s} => old \in asked'
            /\ old = s => indexB' = indexB
            /\ \A r \in Sessions \ {old} : indexB'[r] = indexB[r]
            /\ \A r \in Sessions \ {s} : handler'[r] = handler[r]
        BY <1>2, <2>3, <3>1 DEF Cn!AuthenticateA
      <3>3. ASSUME NEW r \in bound' \cap Sessions, line'[r] = "up", r \notin asked'
            PROVE  indexB'[r] = "authenticated" /\ (handler'[r] = "idle" => indexA'[DeviceOf[r]] = r)
        <4>1. indexB[r] = "authenticated" /\ (handler[r] = "idle" => indexA[DeviceOf[r]] = r)
          BY <3>2, <3>3 DEF RouteInv, LiveIsIndexed
        <4>2. r # Cn!NoSession /\ DeviceOf[r] \in Devices
          BY DEF Cn!SessionsOfDevices
        <4>3. CASE r = s
          BY <1>2, <3>1, <3>2, <3>3, <4>1, <4>2, <4>3
        <4>4. CASE r # s
          <5>1. r # old
            BY <3>2, <3>3, <4>2, <4>4
          <5> QED BY <1>2, <3>1, <3>2, <3>3, <4>1, <4>2, <4>4, <5>1
        <4> QED BY <4>3, <4>4
      <3> QED BY <3>3 DEF LiveIsIndexed
    <2> QED BY <2>1, <2>2, <2>3
  <1> QED BY <1>1, <1>3, <1>4 DEF RouteInv


LEMMA RouteNext == ASSUME Cn!SessionsOfDevices, RouteInv, Cn!Next PROVE RouteInv'
  <1>t. /\ line = [r \in Sessions |-> line[r]] /\ handler = [r \in Sessions |-> handler[r]]
        /\ indexA \in [Devices -> Sessions \cup {Cn!NoSession}] /\ indexB = [r \in Sessions |-> indexB[r]]
        /\ \A r \in Sessions : DeviceOf[r] \in Devices /\ r # Cn!NoSession
        /\ bound \subseteq Sessions /\ \A j \in forced : j.session \in Sessions
        /\ \A j \in drops : j \in Drops
        /\ \A j \in leaving : j \in Leavings /\ j.session \in Sessions
    BY DEF RouteInv, IndexTypes, Cn!SessionsOfDevices, Leavings
  <1>e. /\ superseded \subseteq asked
        /\ \A j \in drops : j.step \in {"mark", "remove"} => j.session \in asked
        /\ \A j \in leaving : j.session \in asked \/ line[j.session] = "down"
    BY DEF RouteInv, EndsWereAsked
  <1>1. ASSUME UNCHANGED <<line, handler, bound, indexA, indexB, superseded, leaving>>, asked \subseteq asked',
               \A j \in drops' \ drops : j.step \in {"mark", "remove"} => j.session \in asked'
        PROVE  RouteInv'
    BY <1>1, <1>e, UnaskedKeeps
  <1>2. ASSUME NEW d \in Devices, Cn!Login(d) \/ Cn!KickDevice(d) PROVE RouteInv'
    <2>1. UNCHANGED <<line, handler, bound, indexA, indexB, superseded, leaving, asked>> /\ drops' \subseteq drops \cup {Cn!Drop(d)}
      BY <1>2 DEF Cn!Login, Cn!KickDevice, Cn!index, Cn!ending
    <2>2. Cn!Drop(d).step = "find"
      BY DEF Cn!Drop
    <2> QED BY <1>1, <2>1, <2>2
  <1>3. ASSUME NEW but \in {{}} \cup {{d} : d \in Devices}, Cn!KickAllBut(but) PROVE RouteInv'
    <2>1. /\ UNCHANGED <<line, handler, bound, indexA, indexB, superseded, leaving, asked>>
          /\ drops' = drops \cup {[device |-> d, session |-> Cn!NoSession, step |-> "list"] : d \in Devices \ but}
      BY <1>3 DEF Cn!KickAllBut, Cn!index
    <2>2. \A j \in drops' \ drops : j.step = "list"
      BY <2>1
    <2> QED BY <1>1, <2>1, <2>2
  <1>4. ASSUME NEW t, Cn!BumpUserSessions \/ Cn!Refresh(t) PROVE RouteInv'
    BY <1>1, <1>4 DEF Cn!BumpUserSessions, Cn!Refresh, Cn!index, Cn!ending
  <1>5. ASSUME NEW s \in Sessions, Cn!Open(s) \/ Cn!AuthenticateB(s) \/ Cn!AuthenticateA(s) PROVE RouteInv'
    BY <1>5, AuthorizingKeeps
  <1>6. ASSUME NEW s \in Sessions, NEW t \in access, Cn!Verify(s, t) PROVE RouteInv'
    <2>1. /\ UNCHANGED <<line, bound, indexA, indexB, superseded, leaving, drops, asked>>
          /\ handler' = [handler EXCEPT ![s] = "verified"]
      BY <1>6 DEF Cn!Verify, Cn!index
    <2>2. \A r \in Sessions : handler'[r] = "idle" => handler[r] = "idle"
      BY <1>t, <2>1
    <2> QED BY <1>t, <1>e, <2>1, <2>2, UnaskedKeeps
  <1>7. ASSUME NEW s \in Sessions, Cn!RpcRefused(s) \/ Cn!DeliveryFails(s) PROVE RouteInv'
    BY <1>1, <1>7 DEF Cn!RpcRefused, Cn!DeliveryFails, Cn!index
  <1>8. ASSUME NEW s \in Sessions, Cn!Watchdog(s) PROVE RouteInv'
    <2>1. /\ UNCHANGED <<line, handler, bound, indexA, superseded, leaving, drops>> /\ asked' = asked \cup {s}
          /\ \A r \in Sessions \ {s} : indexB'[r] = indexB[r]
      BY <1>t, <1>8 DEF Cn!Watchdog
    <2> QED BY <1>t, <1>e, <2>1, UnaskedKeeps
  <1>9. ASSUME NEW s \in Sessions, Cn!TransportCloses(s) PROVE RouteInv'
    <2>1. /\ UNCHANGED <<handler, indexA, indexB, superseded, drops, asked>> /\ bound' \subseteq bound
          /\ leaving' = leaving \cup {Cn!Leave(s, "transport")} /\ Cn!Leave(s, "transport").session = s
          /\ line'[s] = "down" /\ \A r \in Sessions \ {s} : line'[r] = line[r]
      BY <1>t, <1>9 DEF Cn!TransportCloses, Cn!index, Cn!Leave
    <2>2. \A j \in leaving' : j.session \in asked' \/ line'[j.session] = "down"
      BY <1>t, <1>e, <2>1
    <2>3. \A r \in bound' : line'[r] = "up" => line[r] = "up"
      BY <1>t, <2>1
    <2> QED BY <1>e, <2>1, <2>2, <2>3, UnaskedKeeps
  <1>10. ASSUME NEW s \in Sessions, NEW by \in {"client", "logout"}, Cn!ClientLeaves(s, by) PROVE RouteInv'
    <2>1. /\ UNCHANGED <<line, handler, bound, indexA, indexB, superseded, drops>> /\ asked' = asked \cup {s}
          /\ leaving' = leaving \cup {Cn!Leave(s, by)} /\ Cn!Leave(s, by).session = s
      BY <1>10 DEF Cn!ClientLeaves, Cn!index, Cn!Leave
    <2>2. \A j \in leaving' : j.session \in asked' \/ line'[j.session] = "down"
      BY <1>e, <2>1
    <2> QED BY <1>e, <2>1, <2>2, UnaskedKeeps
  <1>11. ASSUME NEW j \in drops, Cn!DropListed(j) \/ Cn!DropFind(j) PROVE RouteInv'
    <2>1. CASE Cn!DropListed(j)
      <3>1. /\ UNCHANGED <<line, handler, bound, indexA, indexB, superseded, leaving, asked>>
            /\ drops' \subseteq drops \cup {Cn!Drop(j.device)} /\ Cn!Drop(j.device).step = "find"
        BY <2>1 DEF Cn!DropListed, Cn!index, Cn!Drop
      <3> QED BY <1>1, <3>1
    <2>2. CASE Cn!DropFind(j)
      <3>1. PICK k : k = [j EXCEPT !.session = indexA[j.device], !.step = "mark"]
        OBVIOUS
      <3>2. k.session = indexA[j.device]
        BY <1>t, <3>1 DEF Drops
      <3>3. /\ UNCHANGED <<line, handler, bound, indexA, indexB, superseded, leaving>>
            /\ asked' = asked \cup ({indexA[j.device]} \ {Cn!NoSession})
            /\ drops' \subseteq drops \cup {k} /\ (indexA[j.device] = Cn!NoSession => drops' \subseteq drops)
        BY <2>2, <3>1 DEF Cn!DropFind, Cn!index
      <3>4. \A i \in drops' \ drops : i.session \in asked'
        BY <3>2, <3>3
      <3> QED BY <1>1, <3>3, <3>4
    <2> QED BY <1>11, <2>1, <2>2
  <1>12. ASSUME NEW j \in drops, Cn!DropMark(j) PROVE RouteInv'
    <2>1. PICK k : k = [j EXCEPT !.step = "remove"]
      OBVIOUS
    <2>2. k.session = j.session /\ j.session \in asked
      BY <1>t, <1>e, <1>12, <2>1 DEF Drops, Cn!DropMark
    <2>3. /\ UNCHANGED <<line, handler, bound, indexA, superseded, leaving, asked>> /\ drops' \subseteq drops \cup {k}
          /\ \A r \in Sessions \ {j.session} : indexB'[r] = indexB[r]
      BY <1>t, <1>12, <2>1 DEF Cn!DropMark, Cn!Closing
    <2> QED BY <1>t, <1>e, <2>2, <2>3, UnaskedKeeps
  <1>13. ASSUME NEW j \in drops, Cn!DropRemove(j) PROVE RouteInv'
    <2>1. /\ UNCHANGED <<line, handler, bound, indexB, superseded, leaving, asked>> /\ drops' \subseteq drops
          /\ j.session \in asked /\ indexA' = Cn!OutOfA(j.device, j.session)
      BY <1>e, <1>13 DEF Cn!DropRemove
    <2>2. \A r \in Sessions \ {j.session} : indexA[DeviceOf[r]] = r => indexA'[DeviceOf[r]] = r
      BY <1>t, <2>1 DEF Cn!OutOfA
    <2> QED BY <1>t, <1>e, <2>1, <2>2, UnaskedKeeps
  <1>14. ASSUME NEW j \in forced, Cn!ForceClose(j) PROVE RouteInv'
    <2>1. /\ UNCHANGED <<line, handler, bound, indexA, superseded, drops>> /\ asked' = asked \cup {j.session}
          /\ leaving' \subseteq leaving \cup {Cn!Leave(j.session, "delivery")} /\ Cn!Leave(j.session, "delivery").session = j.session
          /\ \A r \in Sessions \ {j.session} : indexB'[r] = indexB[r]
      BY <1>t, <1>14 DEF Cn!ForceClose, Cn!Closing, Cn!Leave
    <2>2. \A i \in leaving' : i.session \in asked' \/ line'[i.session] = "down"
      BY <1>e, <2>1
    <2> QED BY <1>t, <1>e, <2>1, <2>2, UnaskedKeeps
  <1>15. ASSUME NEW j \in leaving, Cn!RemoveB(j) \/ Cn!CleanA(j) \/ Cn!LogoutBumps(j) PROVE RouteInv'
    <2>1. /\ UNCHANGED <<line, handler, superseded, drops, asked>> /\ bound' \subseteq bound
          /\ j.session \in Sessions /\ (j.session \in asked \/ line[j.session] = "down")
      BY <1>t, <1>e, <1>15 DEF Cn!RemoveB, Cn!CleanA, Cn!LogoutBumps, Cn!index
    <2>2. \A i \in leaving' : i \in leaving \/ i.session = j.session
      <3>1. PICK k, l : /\ k = [j EXCEPT !.step = "cleanA", !.counted = indexB[j.session] = "authenticated"]
                        /\ l = [j EXCEPT !.step = "bump"]
        OBVIOUS
      <3>2. k.session = j.session /\ l.session = j.session
        BY <1>t, <3>1 DEF Leavings
      <3>3. leaving' \subseteq leaving \cup {k, l}
        BY <1>15, <3>1 DEF Cn!RemoveB, Cn!CleanA, Cn!LogoutBumps
      <3> QED BY <3>2, <3>3
    <2>3. \A r \in Sessions \ {j.session} : indexB'[r] = indexB[r] /\ (indexA[DeviceOf[r]] = r => indexA'[DeviceOf[r]] = r)
      <3>1. CASE Cn!RemoveB(j)
        BY <1>t, <3>1 DEF Cn!RemoveB
      <3>2. CASE Cn!CleanA(j)
        BY <1>t, <2>1, <3>2 DEF Cn!CleanA, Cn!OutOfA
      <3>3. CASE Cn!LogoutBumps(j)
        BY <3>3 DEF Cn!LogoutBumps, Cn!index
      <3> QED BY <1>15, <3>1, <3>2, <3>3
    <2>4. \A i \in leaving' : i.session \in asked' \/ line'[i.session] = "down"
      BY <1>e, <2>1, <2>2
    <2> QED BY <1>t, <1>e, <2>1, <2>3, <2>4, UnaskedKeeps
  <1> QED BY <1>2, <1>3, <1>4, <1>5, <1>6, <1>7, <1>8, <1>9, <1>10, <1>11, <1>12, <1>13, <1>14, <1>15 DEF Cn!Next

LEMMA RouteStep == ASSUME Cn!SessionsOfDevices PROVE RouteInv /\ [Cn!Next]_(Cn!vars) => RouteInv'
  <1>1. ASSUME RouteInv, UNCHANGED Cn!vars PROVE RouteInv'
    BY <1>1 DEF RouteInv, IndexTypes, Opened, EndsWereAsked, LiveIsIndexed, Cn!vars, Cn!rows, Cn!index, Cn!ending
  <1> QED BY <1>1, RouteNext

(* However many connections a device opens one after the other, and whatever *)
(* disconnects and late unregistrations are under way: a connection that has *)
(* been authorized, is up, and that neither side has decided to end, is the  *)
(* one its device's messages go to (connection_manager.rs                    *)
(* register_connection, unregister_connection, disconnect_device).           *)
THEOREM LiveIsRouted == ASSUME Cn!SessionsOfDevices PROVE Cn!Spec => []Cn!RoutesFollowConnections
  <1>1. RouteInv => Cn!RoutesFollowConnections
    BY DEF RouteInv, EndsWereAsked, LiveIsIndexed, Cn!RoutesFollowConnections, Cn!Routed
  <1>2. Cn!Init => RouteInv
    BY RouteInit
  <1> QED BY <1>1, <1>2, RouteStep, PTL DEF Cn!Spec

-----------------------------------------------------------------------------
(* The members of a group, and who decides on join requests.                 *)

CONSTANTS Creator, Joined, Requests, Applicant, Kinds
VARIABLES rows, ownerId, count, mirror, cache, loading, joins, listed, job, told, failed,
          overtaken, excused
Gm == INSTANCE GroupMembers WITH owner <- ownerId, asked <- joins

(* What a handler's job may be.                                              *)

RolesOrNone == {"Owner", "Admin", "Member", "none"}
Works == {"add", "join", "leave", "remove", "addAdmin", "role", "transfer", "approve"}
InTransaction == {"count", "commit"}
Winning == {"admit", "won"}
GroupSteps == {"write", "join", "leave", "setRole", "lock", "role", "count", "commit", "swap", "demote",
          "admit", "won", "lost", "done"}
Counts == {0} \cup {Gm!Cardinality(S) : S \in SUBSET Users}
GroupJobs == [kind : Works, user : Users, role : RolesOrNone, by : Users,
         request : Requests \cup {"none"}, count : Counts, step : GroupSteps]

(* Which steps a kind of job goes through. *)
Proper(j) ==
    /\ j.kind = "transfer" => j.step \in {"lock", "swap", "demote", "role", "done"}
    /\ j.step \in {"lock", "swap", "demote"} => j.kind = "transfer" /\ j.by # j.user
    /\ (j.kind = "approve") <=> (j.request # "none")
    /\ j.kind = "approve" => j.step \in {"write", "done", "lost"} \cup InTransaction \cup Winning
    /\ j.step \in {"lost"} \cup Winning => j.kind = "approve"
    /\ j.kind = "transfer" => j.role = "Owner"
    /\ j.step = "setRole" => j.role \in {"Admin", "Member"}

JobGood(j) == j \in {Gm!Idle, Gm!Done} \/ (j \in GroupJobs /\ Proper(j))

(* What a job has found out and still holds: the owner is still the one that *)
(* was checked under the lock, a request written on is open, and one that    *)
(* was won has not been reported yet.                                        *)
StillTrue(j) ==
    j \in GroupJobs =>
        /\ j.step = "swap" => j.by = ownerId
        /\ j.step \in InTransaction /\ j.request # "none" => joins[j.request] = "pending"
        /\ j.step \in Winning => joins[j.request] = "approved" /\ told[j.request] = {}

(* Two handlers neither hold the group's row, nor a request, nor have won    *)
(* one, at the same time.                                                    *)
Apart(i, j) ==
    /\ ~(i.step = "swap" /\ j.step = "swap")
    /\ i.step \in InTransaction /\ j.step \in InTransaction => i.request = "none" \/ i.request # j.request
    /\ i.step \in Winning /\ j.step \in Winning => i.request # j.request

GroupTables ==
    /\ rows \in [Users -> RolesOrNone] /\ mirror \in [Users -> RolesOrNone]
    /\ joins \in [Requests -> {"none", "pending", "approved", "rejected"}]
    /\ told = [q \in Requests |-> told[q]]
    /\ job = [h \in Handlers |-> job[h]]

JobsGood == \A h \in Handlers : JobGood(job[h])
JobsTrue == \A h \in Handlers : StillTrue(job[h])
JobsApart == \A g, h \in Handlers : g # h => Apart(job[g], job[h])

(* A role change that nothing overtook is still of a user who is no owner. *)
RoleRead == \A h \in Handlers : job[h].step = "setRole" /\ h \notin overtaken => rows[job[h].user] # "Owner"

(* An open request was reported to nobody, another to at most one. *)
Reported(q) ==
    \/ told[q] = {}
    \/ joins[q] \in {"approved", "rejected"} /\ \E h \in Handlers : told[q] = {<<h, joins[q]>>}

GroupInv ==
    /\ GroupTables /\ JobsGood /\ JobsTrue /\ JobsApart /\ RoleRead
    /\ Gm!OwnersAreTheOwner
    /\ \A q \in Requests : Reported(q)

LEMMA FixedJobs ==
    /\ JobGood(Gm!Idle) /\ JobGood(Gm!Done)
    /\ Gm!Idle.step = "idle" /\ Gm!Done.step = "done"
    /\ Gm!Idle \notin GroupJobs /\ Gm!Done \notin GroupJobs
  <1>1. Gm!Idle.step = "idle" /\ Gm!Done.step = "done"
    BY DEF Gm!Idle, Gm!Done
  <1>2. "kind" \notin DOMAIN Gm!Idle /\ "kind" \notin DOMAIN Gm!Done
    BY DEF Gm!Idle, Gm!Done
  <1>3. \A j \in GroupJobs : "kind" \in DOMAIN j
    BY DEF GroupJobs
  <1> QED BY <1>1, <1>2, <1>3 DEF JobGood

(* One handler moves and the others' findings stay true. *)
LEMMA Moves ==
    ASSUME GroupInv, NEW h \in Handlers, NEW w, job' = [job EXCEPT ![h] = w], JobGood(w), StillTrue(w)',
           \A g \in Handlers \ {h} : \A j \in GroupJobs : j = job[g] => StillTrue(j)',
           \A g \in Handlers \ {h} : Apart(w, job[g])
    PROVE  /\ JobsGood' /\ JobsTrue' /\ JobsApart'
           /\ (job = [g \in Handlers |-> job[g]])'
  <1>1. job' = [g \in Handlers |-> IF g = h THEN w ELSE job[g]]
    BY DEF GroupInv, GroupTables
  <1>2. JobsGood'
    BY <1>1 DEF GroupInv, JobsGood, JobGood, GroupJobs, Proper, GroupSteps, Works, Counts, RolesOrNone, Gm!Idle, Gm!Done
  <1>3. JobsTrue'
    <2> SUFFICES ASSUME NEW g \in Handlers PROVE StillTrue(job[g])'
      BY DEF JobsTrue
    <2>1. CASE g = h
      BY <1>1, <2>1 DEF StillTrue
    <2>2. CASE g # h
      <3>1. PICK j : j = job[g]
        OBVIOUS
      <3>2. job'[g] = j
        BY <1>1, <2>2, <3>1
      <3>3. CASE j \in GroupJobs
        BY <2>2, <3>1, <3>2, <3>3 DEF StillTrue
      <3>4. CASE j \notin GroupJobs
        BY <3>2, <3>4 DEF StillTrue, GroupJobs, Counts
      <3> QED BY <3>3, <3>4
    <2> QED BY <2>1, <2>2
  <1>4. JobsApart'
    BY <1>1 DEF GroupInv, JobsApart, Apart
  <1>5. (job = [g \in Handlers |-> job[g]])'
    BY <1>1
  <1> QED BY <1>2, <1>3, <1>4, <1>5

(* Where the role of owner was given, it overtook the others at work. *)
LEMMA RoleReadMoves ==
    ASSUME GroupInv, NEW h \in Handlers, NEW w, job' = [job EXCEPT ![h] = w],
           w.step = "setRole" => rows'[w.user] # "Owner",
           \A g \in Handlers \ {h} : job[g].step = "setRole" /\ g \notin overtaken' =>
               g \notin overtaken /\ (rows'[job[g].user] = "Owner" => rows[job[g].user] = "Owner")
    PROVE  RoleRead'
  <1>1. job' = [g \in Handlers |-> IF g = h THEN w ELSE job[g]]
    BY DEF GroupInv, GroupTables
  <1> QED BY <1>1 DEF GroupInv, RoleRead

(* A job that is neither in a transaction nor has won anything. *)
Loose(w) == w.step \notin {"swap"} \cup InTransaction \cup Winning

LEMMA LooseIsApart ==
    ASSUME NEW w, NEW j, Loose(w)
    PROVE  Apart(w, j)
  BY DEF Loose, Apart

(* Nothing that a job rests on changes. *)
LEMMA GroupQuiet ==
    ASSUME GroupInv, NEW h \in Handlers, NEW w, job' = [job EXCEPT ![h] = w], JobGood(w), StillTrue(w)',
           \A g \in Handlers \ {h} : Apart(w, job[g]),
           w.step = "setRole" => rows[w.user] # "Owner",
           UNCHANGED <<rows, ownerId, joins, told, overtaken, excused>>,
           mirror' \in [Users -> RolesOrNone]
    PROVE  GroupInv'
  <1>1. \A g \in Handlers \ {h} : \A j \in GroupJobs : j = job[g] => StillTrue(j)'
    BY DEF GroupInv, JobsTrue, StillTrue
  <1>2. JobsGood' /\ JobsTrue' /\ JobsApart' /\ (job = [g \in Handlers |-> job[g]])'
    BY <1>1, Moves
  <1>3. GroupTables'
    BY <1>2 DEF GroupInv, GroupTables
  <1>4. Gm!OwnersAreTheOwner'
    BY DEF GroupInv, Gm!OwnersAreTheOwner
  <1>5. \A q \in Requests : Reported(q)'
    BY DEF GroupInv, Reported
  <1>6. RoleRead'
    BY RoleReadMoves
  <1> QED BY <1>2, <1>3, <1>4, <1>5, <1>6 DEF GroupInv

LEMMA GroupEnds ==
    ASSUME GroupInv, NEW h \in Handlers, Gm!Ends(h), UNCHANGED <<rows, ownerId, joins, told, overtaken, excused, mirror>>
    PROVE  GroupInv'
  <1>1. Loose(Gm!Done) /\ JobGood(Gm!Done) /\ StillTrue(Gm!Done)' /\ Gm!Done.step # "setRole"
    BY FixedJobs DEF Loose, StillTrue, InTransaction, Winning, GroupJobs, Counts
  <1> QED BY <1>1, LooseIsApart, GroupQuiet DEF Gm!Ends, GroupInv, GroupTables


-----------------------------------------------------------------------------
(* Requests that come in.                                                    *)

LEMMA GroupComes ==
    ASSUME GroupInv, NEW h \in Handlers, NEW u \in Users, NEW role \in RolesOrNone,
           NEW kind \in Works \ {"transfer", "approve"},
           NEW step \in {"join", "leave", "write", "setRole"},
           Gm!Comes(h, kind, u, role, step), UNCHANGED <<rows, ownerId, joins, told, overtaken, excused>>,
           step = "setRole" => rows[u] # "Owner" /\ role \in {"Admin", "Member"}, mirror' \in [Users -> RolesOrNone]
    PROVE  GroupInv'
  <1>1. PICK w : w = [kind |-> kind, user |-> u, role |-> role, by |-> u,
                      request |-> "none", count |-> 0, step |-> step]
    OBVIOUS
  <1>2. w \in GroupJobs /\ w.kind = kind /\ w.role = role /\ w.step = step /\ w.request = "none" /\ w.user = u
    BY <1>1 DEF GroupJobs, Counts, GroupSteps
  <1>3. JobGood(w) /\ StillTrue(w)' /\ Loose(w)
    BY <1>2 DEF JobGood, Proper, StillTrue, Loose, InTransaction, Winning
  <1> QED BY <1>1, <1>2, <1>3, LooseIsApart, GroupQuiet DEF Gm!Comes

LEMMA JoinRequestsCome ==
    ASSUME GroupInv, NEW h \in Handlers, NEW u \in Users,
           \/ \E role \in Gm!Roles : Gm!AddMember(h, u, role)
           \/ Gm!JoinByCode(h, u) \/ Gm!SendRejoins(h, u) \/ Gm!Leave(h, u)
           \/ Gm!RemoveMemberAdmin(h, u) \/ Gm!AddMemberAdmin(h, u)
           \/ \E role \in {"Admin", "Member"} : Gm!SetMemberRoleAdmin(h, u, role)
    PROVE  GroupInv'
  <1>t. mirror \in [Users -> RolesOrNone]
    BY DEF GroupInv, GroupTables
  <1>1. ASSUME NEW role \in Gm!Roles, Gm!AddMember(h, u, role) PROVE GroupInv'
    <2>1. mirror' \in [Users -> RolesOrNone] /\ role \in RolesOrNone
      BY <1>t, <1>1 DEF Gm!AddMember, RolesOrNone, Gm!Roles
    <2> QED BY <1>1, <2>1, GroupComes DEF Gm!AddMember, Works
  <1>2. CASE Gm!JoinByCode(h, u)
    BY <1>t, <1>2, GroupComes DEF Gm!JoinByCode, RolesOrNone, Works
  <1>3. CASE Gm!SendRejoins(h, u)
    <2>1. PICK role \in RolesOrNone : role = mirror[u]
      BY <1>t
    <2> QED BY <1>t, <1>3, <2>1, GroupComes DEF Gm!SendRejoins, Works
  <1>4. CASE Gm!Leave(h, u)
    BY <1>t, <1>4, GroupComes DEF Gm!Leave, RolesOrNone, Works
  <1>5. CASE Gm!RemoveMemberAdmin(h, u)
    BY <1>t, <1>5, GroupComes DEF Gm!RemoveMemberAdmin, RolesOrNone, Works
  <1>6. CASE Gm!AddMemberAdmin(h, u)
    BY <1>t, <1>6, GroupComes DEF Gm!AddMemberAdmin, RolesOrNone, Works
  <1>7. ASSUME NEW role \in {"Admin", "Member"}, Gm!SetMemberRoleAdmin(h, u, role) PROVE GroupInv'
    BY <1>t, <1>7, GroupComes DEF Gm!SetMemberRoleAdmin, RolesOrNone, Works
  <1> QED BY <1>1, <1>2, <1>3, <1>4, <1>5, <1>6, <1>7

LEMMA TransferComes ==
    ASSUME GroupInv, NEW h \in Handlers, NEW by \in Users, NEW u \in Users, Gm!TransferGroupOwner(h, by, u)
    PROVE  GroupInv'
  <1>1. PICK w : w = [kind |-> "transfer", user |-> u, role |-> "Owner", by |-> by,
                      request |-> "none", count |-> 0, step |-> "lock"]
    OBVIOUS
  <1>2. /\ w \in GroupJobs /\ w.kind = "transfer" /\ w.role = "Owner" /\ w.step = "lock" /\ w.request = "none"
        /\ w.by = by /\ w.user = u /\ by # u
    BY <1>1 DEF GroupJobs, Counts, GroupSteps, Works, RolesOrNone, Gm!TransferGroupOwner
  <1>3. JobGood(w) /\ StillTrue(w)' /\ Loose(w)
    BY <1>2 DEF JobGood, Proper, StillTrue, Loose, InTransaction, Winning
  <1> QED BY <1>1, <1>2, <1>3, LooseIsApart, GroupQuiet DEF Gm!TransferGroupOwner, GroupInv, GroupTables

LEMMA ApproveComes ==
    ASSUME GroupInv, Gm!RequestsOfUsers, NEW h \in Handlers, NEW q \in Requests, Gm!Approve(h, q)
    PROVE  GroupInv'
  <1>1. PICK w : w = [kind |-> "approve", user |-> Applicant[q], role |-> "Member",
                      by |-> Applicant[q], request |-> q, count |-> 0, step |-> "write"]
    OBVIOUS
  <1>2. /\ w \in GroupJobs /\ w.kind = "approve" /\ w.role = "Member" /\ w.step = "write" /\ w.request = q
        /\ q # "none"
    BY <1>1 DEF GroupJobs, Counts, GroupSteps, Works, RolesOrNone, Gm!RequestsOfUsers
  <1>3. JobGood(w) /\ StillTrue(w)' /\ Loose(w)
    BY <1>2 DEF JobGood, Proper, StillTrue, Loose, InTransaction, Winning
  <1> QED BY <1>1, <1>2, <1>3, LooseIsApart, GroupQuiet DEF Gm!Approve, GroupInv, GroupTables

-----------------------------------------------------------------------------
(* A job goes on.                                                            *)

(* A handler with a step that is neither idle nor of a fixed job has a       *)
(* proper job.                                                               *)
LEMMA JobAt ==
    ASSUME GroupInv, NEW h \in Handlers, job[h].step \notin {"idle", "done"}
    PROVE  job[h] \in GroupJobs /\ Proper(job[h]) /\ StillTrue(job[h])
  BY FixedJobs DEF GroupInv, JobsGood, JobsTrue, JobGood

(* The next step of a job, the rest of which stays. *)
LEMMA StepOf ==
    ASSUME GroupInv, NEW h \in Handlers, NEW step \in GroupSteps, job[h].step \notin {"idle", "done"}, Gm!Goes(h, step)
    PROVE  \E w \in GroupJobs : /\ job' = [job EXCEPT ![h] = w]
                           /\ w.step = step /\ w.kind = job[h].kind /\ w.user = job[h].user
                           /\ w.role = job[h].role /\ w.by = job[h].by /\ w.request = job[h].request
  <1>1. PICK w : w = [job[h] EXCEPT !.step = step]
    OBVIOUS
  <1>2. /\ w \in GroupJobs /\ w.step = step /\ w.kind = job[h].kind /\ w.user = job[h].user
        /\ w.role = job[h].role /\ w.by = job[h].by /\ w.request = job[h].request
    BY <1>1, JobAt DEF GroupJobs
  <1>3. job' = [job EXCEPT ![h] = w]
    BY <1>1 DEF Gm!Goes
  <1> QED BY <1>2, <1>3

(* A step to where nothing is held and nothing won. *)
LEMMA StepsLoose ==
    ASSUME GroupInv, NEW h \in Handlers, NEW step \in GroupSteps, job[h].step \notin {"idle", "done"}, Gm!Goes(h, step),
           step \notin {"swap", "setRole"} \cup InTransaction \cup Winning,
           step = "lost" => job[h].kind = "approve",
           step \in {"lock", "demote"} => job[h].step \in {"lock", "swap", "demote"},
           job[h].kind = "transfer" => step \in {"demote", "role", "done"},
           job[h].kind = "approve" => step \in {"done", "lost"},
           UNCHANGED <<rows, ownerId, joins, told, overtaken, excused, mirror>>
    PROVE  GroupInv'
  <1>1. PICK w \in GroupJobs : /\ job' = [job EXCEPT ![h] = w]
                          /\ w.step = step /\ w.kind = job[h].kind /\ w.user = job[h].user
                          /\ w.role = job[h].role /\ w.by = job[h].by /\ w.request = job[h].request
    BY StepOf
  <1>2. JobGood(w) /\ StillTrue(w)' /\ Loose(w)
    BY <1>1, JobAt DEF JobGood, Proper, StillTrue, Loose, InTransaction, Winning
  <1> QED BY <1>1, <1>2, LooseIsApart, GroupQuiet DEF GroupInv, GroupTables


LEMMA ChannelSteps ==
    ASSUME GroupInv, NEW h \in Handlers, Gm!JoinChannel(h) \/ Gm!LeaveChannel(h) \/ Gm!CacheRole(h) \/ Gm!Demote(h)
    PROVE  GroupInv'
  <1>1. CASE Gm!JoinChannel(h)
    <2>1. /\ job[h].step = "join" /\ UNCHANGED <<rows, ownerId, joins, told, overtaken, excused, mirror>>
          /\ job[h] \in GroupJobs /\ Proper(job[h]) /\ StillTrue(job[h])
      BY <1>1, JobAt DEF Gm!JoinChannel, Gm!At
    <2>2. job[h].kind \notin {"transfer", "approve"}
      BY <2>1 DEF Proper, InTransaction, Winning
    <2>3. CASE Gm!Goes(h, "role") \/ Gm!Goes(h, "done")
      BY <2>1, <2>2, <2>3, StepsLoose DEF GroupSteps, InTransaction, Winning
    <2>4. CASE job' = [job EXCEPT ![h].step = "write", ![h].kind = IF job[h].kind = "add" THEN "add" ELSE "join"]
      <3>1. PICK kind \in {"add", "join"} : kind = IF job[h].kind = "add" THEN "add" ELSE "join"
        OBVIOUS
      <3>2. PICK w : w = [job[h] EXCEPT !.step = "write", !.kind = kind]
        OBVIOUS
      <3>3. w \in GroupJobs /\ w.step = "write" /\ w.kind = kind /\ w.role = job[h].role /\ w.request = job[h].request
        BY <2>1, <3>2 DEF GroupJobs, Works, GroupSteps
      <3>4. job' = [job EXCEPT ![h] = w]
        BY <2>4, <3>1, <3>2 DEF GroupInv, GroupTables
      <3>5. JobGood(w) /\ StillTrue(w)' /\ Loose(w)
        BY <2>1, <2>2, <3>3 DEF JobGood, Proper, StillTrue, Loose, InTransaction, Winning
      <3> QED BY <2>1, <3>3, <3>4, <3>5, LooseIsApart, GroupQuiet DEF GroupInv, GroupTables
    <2> QED BY <1>1, <2>3, <2>4 DEF Gm!JoinChannel
  <1>2. CASE Gm!LeaveChannel(h)
    <2>1. /\ job[h].step = "leave" /\ UNCHANGED <<rows, ownerId, joins, told, overtaken, excused, mirror>>
          /\ Proper(job[h])
      BY <1>2, JobAt DEF Gm!LeaveChannel, Gm!At
    <2>2. CASE Gm!Goes(h, "write")
      BY <2>1, <2>2, StepsLoose DEF GroupSteps, InTransaction, Winning, Proper
    <2>3. CASE Gm!Ends(h)
      BY <2>1, <2>3, GroupEnds
    <2> QED BY <1>2, <2>2, <2>3 DEF Gm!LeaveChannel
  <1>3. CASE Gm!CacheRole(h)
    BY <1>3, GroupEnds DEF Gm!CacheRole
  <1>4. CASE Gm!Demote(h)
    <2>1. /\ job[h].step = "demote" /\ UNCHANGED <<rows, ownerId, joins, told, overtaken, excused, mirror>>
          /\ Proper(job[h]) /\ Gm!Goes(h, "role")
      BY <1>4, JobAt DEF Gm!Demote, Gm!At
    <2> QED BY <2>1, StepsLoose DEF GroupSteps, InTransaction, Winning, Proper
  <1> QED BY <1>1, <1>2, <1>3, <1>4

(* The transaction begins, with the request only if it is open and nobody    *)
(* else works on it.                                                         *)
LEMMA WriteRowKeeps ==
    ASSUME GroupInv, NEW h \in Handlers, Gm!WriteRow(h)
    PROVE  GroupInv'
  <1>1. /\ job[h].step = "write" /\ UNCHANGED <<rows, ownerId, joins, told, overtaken, excused, mirror>>
        /\ job[h] \in GroupJobs /\ Proper(job[h]) /\ StillTrue(job[h])
    BY JobAt DEF Gm!WriteRow, Gm!At
  <1>2. job[h].kind # "transfer"
    BY <1>1 DEF Proper
  <1>3. CASE job[h].request # "none" /\ ~Gm!OpenInDb(job[h].request)
    <2>1. job[h].kind = "approve" /\ Gm!RoleWritten(h) = "Member"
      BY <1>1, <1>3 DEF Proper, Gm!RoleWritten
    <2>2. Gm!Goes(h, "lost")
      BY <1>3, <2>1 DEF Gm!WriteRow
    <2> QED BY <1>1, <2>1, <2>2, StepsLoose DEF GroupSteps, InTransaction, Winning
  <1>4. CASE Gm!Goes(h, "done")
    BY <1>1, <1>4, StepsLoose DEF GroupSteps, InTransaction, Winning
  <1>5. CASE ~(job[h].request # "none" /\ ~Gm!OpenInDb(job[h].request)) /\ Gm!Goes(h, "count")
    <2>1. PICK w \in GroupJobs : /\ job' = [job EXCEPT ![h] = w]
                            /\ w.step = "count" /\ w.kind = job[h].kind /\ w.user = job[h].user
                            /\ w.role = job[h].role /\ w.by = job[h].by /\ w.request = job[h].request
      BY <1>1, <1>5, StepOf DEF GroupSteps
    <2>2. JobGood(w) /\ StillTrue(w)'
      BY <1>1, <1>2, <1>5, <2>1 DEF JobGood, Proper, StillTrue, InTransaction, Winning, Gm!OpenInDb
    <2>3. \A g \in Handlers \ {h} : Apart(w, job[g])
      BY <2>1 DEF Apart, Gm!WriteRow, Gm!RequestLocked, Gm!InTx, InTransaction, Winning
    <2> QED BY <1>1, <2>1, <2>2, <2>3, GroupQuiet DEF GroupInv, GroupTables
  <1> QED BY <1>3, <1>4, <1>5 DEF Gm!WriteRow

LEMMA CountRowsKeeps ==
    ASSUME GroupInv, NEW h \in Handlers, Gm!CountRows(h)
    PROVE  GroupInv'
  <1>1. /\ job[h].step = "count" /\ UNCHANGED <<rows, ownerId, joins, told, overtaken, excused, mirror>>
        /\ job[h] \in GroupJobs /\ Proper(job[h]) /\ StillTrue(job[h])
    BY JobAt DEF Gm!CountRows, Gm!At
  <1>2. PICK n \in Counts : n = Gm!Cardinality(Gm!Active(Gm!RowsOf(h)))
    BY DEF Counts, Gm!Active
  <1>3. PICK w : w = [job[h] EXCEPT !.count = n, !.step = "commit"]
    OBVIOUS
  <1>4. job' = [job EXCEPT ![h] = w]
    BY <1>2, <1>3 DEF Gm!CountRows, GroupInv, GroupTables
  <1>5. /\ w \in GroupJobs /\ w.step = "commit" /\ w.kind = job[h].kind /\ w.user = job[h].user
        /\ w.role = job[h].role /\ w.by = job[h].by /\ w.request = job[h].request
    BY <1>1, <1>2, <1>3 DEF GroupJobs, GroupSteps
  <1>6. JobGood(w) /\ StillTrue(w)'
    BY <1>1, <1>5 DEF JobGood, Proper, StillTrue, InTransaction, Winning
  <1>7. \A g \in Handlers \ {h} : Apart(w, job[g])
    BY <1>1, <1>5 DEF GroupInv, JobsApart, Apart, InTransaction, Winning
  <1> QED BY <1>1, <1>4, <1>5, <1>6, <1>7, GroupQuiet DEF GroupInv, GroupTables

LEMMA LockGroupKeeps ==
    ASSUME GroupInv, NEW h \in Handlers, Gm!LockGroup(h)
    PROVE  GroupInv'
  <1>1. /\ job[h].step = "lock" /\ UNCHANGED <<rows, ownerId, joins, told, overtaken, excused, mirror>>
        /\ job[h] \in GroupJobs /\ Proper(job[h]) /\ StillTrue(job[h])
    BY JobAt DEF Gm!LockGroup, Gm!At
  <1>2. CASE Gm!Ends(h)
    BY <1>1, <1>2, GroupEnds
  <1>3. CASE ownerId = job[h].by /\ Gm!Goes(h, "swap")
    <2>1. PICK w \in GroupJobs : /\ job' = [job EXCEPT ![h] = w]
                            /\ w.step = "swap" /\ w.kind = job[h].kind /\ w.user = job[h].user
                            /\ w.role = job[h].role /\ w.by = job[h].by /\ w.request = job[h].request
      BY <1>1, <1>3, StepOf DEF GroupSteps
    <2>2. JobGood(w) /\ StillTrue(w)'
      BY <1>1, <1>3, <2>1 DEF JobGood, Proper, StillTrue, InTransaction, Winning
    <2>3. \A g \in Handlers \ {h} : Apart(w, job[g])
      BY <2>1 DEF Apart, Gm!LockGroup, Gm!GroupLocked, Gm!At, InTransaction, Winning
    <2> QED BY <1>1, <2>1, <2>2, <2>3, GroupQuiet DEF GroupInv, GroupTables
  <1> QED BY <1>2, <1>3 DEF Gm!LockGroup

LEMMA AdmitKeeps ==
    ASSUME GroupInv, NEW h \in Handlers, Gm!Admit(h)
    PROVE  GroupInv'
  <1>1. /\ job[h].step = "admit" /\ UNCHANGED <<rows, ownerId, joins, told, overtaken, excused, mirror>>
        /\ job[h] \in GroupJobs /\ Proper(job[h]) /\ StillTrue(job[h]) /\ Gm!Goes(h, "won")
    BY JobAt DEF Gm!Admit, Gm!At
  <1>2. PICK w \in GroupJobs : /\ job' = [job EXCEPT ![h] = w]
                          /\ w.step = "won" /\ w.kind = job[h].kind /\ w.user = job[h].user
                          /\ w.role = job[h].role /\ w.by = job[h].by /\ w.request = job[h].request
    BY <1>1, StepOf DEF GroupSteps
  <1>3. JobGood(w) /\ StillTrue(w)'
    BY <1>1, <1>2 DEF JobGood, Proper, StillTrue, InTransaction, Winning
  <1>4. \A g \in Handlers \ {h} : Apart(w, job[g])
    BY <1>1, <1>2 DEF GroupInv, JobsApart, Apart, InTransaction, Winning
  <1> QED BY <1>1, <1>2, <1>3, <1>4, GroupQuiet DEF GroupInv, GroupTables

LEMMA DeadlockKeeps ==
    ASSUME GroupInv, NEW h \in Handlers, NEW g \in Handlers, Gm!Deadlock(h, g)
    PROVE  GroupInv'
  BY GroupEnds DEF Gm!Deadlock


-----------------------------------------------------------------------------
(* Steps that change what jobs rest on.                                      *)

(* A transaction writes its user's role only, and excuses the user where     *)
(* that is not what owner_id says.                                           *)
LEMMA CommitKeeps ==
    ASSUME GroupInv, Gm!RequestsOfUsers, NEW h \in Handlers, Gm!Commit(h)
    PROVE  GroupInv'
  <1>1. /\ job[h].step = "commit" /\ UNCHANGED <<ownerId, told, mirror>>
        /\ job[h] \in GroupJobs /\ Proper(job[h]) /\ StillTrue(job[h])
    BY JobAt DEF Gm!Commit, Gm!At
  <1>2. PICK q \in Requests \cup {"none"} : q = job[h].request
    BY <1>1 DEF GroupJobs
  <1>3. job[h].kind # "transfer" /\ (job[h].kind = "approve" <=> q # "none")
    BY <1>1, <1>2 DEF Proper, InTransaction
  <1>4. PICK step \in {"role", "join", "admit", "done"} : step = Gm!AfterCommit(job[h].kind)
    BY DEF Gm!AfterCommit
  <1>5. /\ step = "admit" <=> job[h].kind = "approve"
    BY <1>4 DEF Gm!AfterCommit
  <1>6. PICK w \in GroupJobs : /\ job' = [job EXCEPT ![h] = w]
                          /\ w.step = step /\ w.kind = job[h].kind /\ w.user = job[h].user
                          /\ w.role = job[h].role /\ w.by = job[h].by /\ w.request = job[h].request
    BY <1>1, <1>4, StepOf DEF GroupSteps, Gm!Commit
  <1>7. /\ joins' \in [Requests -> {"none", "pending", "approved", "rejected"}]
        /\ \A p \in Requests \ {q} : joins'[p] = joins[p]
        /\ q # "none" => joins[q] = "pending" /\ joins'[q] = "approved" /\ told[q] = {}
    BY <1>1, <1>2 DEF Gm!Commit, GroupInv, GroupTables, StillTrue, InTransaction, Reported, Gm!RequestsOfUsers
  <1>8. JobGood(w) /\ StillTrue(w)'
    BY <1>1, <1>2, <1>3, <1>5, <1>6, <1>7 DEF JobGood, Proper, StillTrue, InTransaction, Winning
  <1>9. \A g \in Handlers \ {h} : \A j \in GroupJobs : j = job[g] => StillTrue(j)'
    <2> SUFFICES ASSUME NEW g \in Handlers \ {h}, NEW j \in GroupJobs, j = job[g] PROVE StillTrue(j)'
      OBVIOUS
    <2>1. StillTrue(j) /\ Proper(j) /\ Apart(job[h], j)
      BY FixedJobs DEF GroupInv, JobsTrue, JobsGood, JobGood, JobsApart
    <2>2. j.request \in Requests \cup {"none"}
      BY DEF GroupJobs
    <2>3. j.step \in InTransaction /\ j.request # "none" => j.request # q
      BY <1>1, <1>2, <2>1 DEF Apart, InTransaction
    <2>4. j.step \in Winning => j.request # "none" /\ j.request # q
      BY <1>7, <2>1 DEF Proper, StillTrue
    <2> QED BY <1>1, <1>7, <2>1, <2>2, <2>3, <2>4 DEF StillTrue
  <1>10. \A g \in Handlers \ {h} : Apart(w, job[g])
    <2> SUFFICES ASSUME NEW g \in Handlers \ {h}, w.step \in Winning, job[g].step \in Winning
                 PROVE  w.request # job[g].request
      BY <1>6 DEF Apart, InTransaction
    <2>1. job[g] \in GroupJobs /\ Proper(job[g]) /\ StillTrue(job[g])
      BY JobAt DEF Winning
    <2> QED BY <1>2, <1>3, <1>5, <1>6, <1>7, <2>1 DEF StillTrue, Winning
  <1>11. JobsGood' /\ JobsTrue' /\ JobsApart' /\ (job = [g \in Handlers |-> job[g]])'
    BY <1>6, <1>8, <1>9, <1>10, Moves
  <1>12. PICK u \in Users, role \in RolesOrNone : u = job[h].user /\ role = Gm!RoleWritten(h)
    BY <1>1 DEF GroupJobs, RolesOrNone, Gm!RoleWritten
  <1>13. rows' = [rows EXCEPT ![u] = role] /\ rows' \in [Users -> RolesOrNone] /\ GroupTables'
    BY <1>1, <1>7, <1>11, <1>12 DEF Gm!Commit, Gm!RowsOf, GroupInv, GroupTables
  <1>14. Gm!OwnersAreTheOwner'
    <2>1. excused' = IF role = "Owner" <=> u = ownerId THEN excused \ {u} ELSE excused \cup {u}
      BY <1>12 DEF Gm!Commit, Gm!Excused
    <2>2. \A v \in Users \ excused : rows[v] = "Owner" <=> v = ownerId
      BY DEF GroupInv, Gm!OwnersAreTheOwner
    <2>3. ASSUME NEW v \in Users \ excused' PROVE rows'[v] = "Owner" <=> v = ownerId'
      <3>1. CASE v = u
        BY <1>1, <1>13, <2>1, <3>1 DEF GroupInv, GroupTables
      <3>2. CASE v # u
        BY <1>1, <1>13, <2>1, <2>2, <3>2 DEF GroupInv, GroupTables
      <3> QED BY <3>1, <3>2
    <2> QED BY <2>3 DEF Gm!OwnersAreTheOwner
  <1>16. RoleRead'
    <2>1. w.step # "setRole"
      BY <1>6
    <2>2. ASSUME NEW g \in Handlers \ {h}, job[g].step = "setRole", g \notin overtaken'
          PROVE  g \notin overtaken /\ (rows'[job[g].user] = "Owner" => rows[job[g].user] = "Owner")
      <3>1. overtaken' = IF role = "Owner" THEN overtaken \cup Gm!Meanwhile(h) ELSE overtaken
        BY <1>12 DEF Gm!Commit
      <3>2. job[g].user = u => g \in Gm!Meanwhile(h)
        BY <1>12, <2>2 DEF Gm!Meanwhile, Gm!UnderWay
      <3> QED BY <1>13, <2>2, <3>1, <3>2 DEF GroupInv, GroupTables
    <2> QED BY <1>6, <2>1, <2>2, RoleReadMoves
  <1>15. \A p \in Requests : Reported(p)'
    BY <1>1, <1>7 DEF GroupInv, Reported, Gm!RequestsOfUsers
  <1> QED BY <1>11, <1>13, <1>14, <1>15, <1>16 DEF GroupInv

LEMMA SetRoleKeeps ==
    ASSUME GroupInv, NEW h \in Handlers, Gm!SetRole(h)
    PROVE  GroupInv'
  <1>1. /\ job[h].step = "setRole" /\ UNCHANGED <<ownerId, joins, told, overtaken, mirror>>
        /\ job[h] \in GroupJobs /\ Proper(job[h]) /\ StillTrue(job[h]) /\ Gm!Goes(h, "role")
    BY JobAt DEF Gm!SetRole, Gm!At
  <1>2. PICK w \in GroupJobs : /\ job' = [job EXCEPT ![h] = w]
                          /\ w.step = "role" /\ w.kind = job[h].kind /\ w.user = job[h].user
                          /\ w.role = job[h].role /\ w.by = job[h].by /\ w.request = job[h].request
    BY <1>1, StepOf DEF GroupSteps
  <1>3. JobGood(w) /\ StillTrue(w)' /\ Loose(w)
    BY <1>1, <1>2 DEF JobGood, Proper, StillTrue, Loose, InTransaction, Winning
  <1>4. \A g \in Handlers \ {h} : \A j \in GroupJobs : j = job[g] => StillTrue(j)'
    BY <1>1 DEF GroupInv, JobsTrue, StillTrue
  <1>5. JobsGood' /\ JobsTrue' /\ JobsApart' /\ (job = [g \in Handlers |-> job[g]])'
    BY <1>2, <1>3, <1>4, LooseIsApart, Moves
  <1>6. PICK u \in Users, role \in {"Admin", "Member"} : u = job[h].user /\ role = job[h].role
    BY <1>1 DEF GroupJobs, Proper
  <1>7. /\ rows' = IF rows[u] = "none" THEN rows ELSE [rows EXCEPT ![u] = role]
        /\ excused' = IF h \in overtaken /\ rows[u] # "none" THEN Gm!Excused(u, role) ELSE excused
    BY <1>6 DEF Gm!SetRole
  <1>9. rows' \in [Users -> RolesOrNone] /\ \A v \in Users : rows'[v] = "Owner" => rows[v] = "Owner"
    BY <1>6, <1>7 DEF GroupInv, GroupTables, RolesOrNone
  <1>10. GroupTables'
    BY <1>1, <1>5, <1>9 DEF GroupInv, GroupTables
  <1>11. RoleRead'
    BY <1>1, <1>2, <1>9, RoleReadMoves, JobAt DEF GroupJobs
  <1>12. Gm!OwnersAreTheOwner'
    <2>1. h \notin overtaken => rows[u] # "Owner"
      BY <1>1, <1>6 DEF GroupInv, RoleRead
    <2>2. \A v \in Users \ excused : rows[v] = "Owner" <=> v = ownerId
      BY DEF GroupInv, Gm!OwnersAreTheOwner
    <2>3. ASSUME NEW v \in Users \ excused' PROVE rows'[v] = "Owner" <=> v = ownerId'
      <3>1. CASE v = u
        BY <1>1, <1>6, <1>7, <2>1, <2>2, <3>1 DEF GroupInv, GroupTables, Gm!Excused
      <3>2. CASE v # u
        BY <1>1, <1>7, <2>2, <3>2 DEF GroupInv, GroupTables, Gm!Excused
      <3> QED BY <3>1, <3>2
    <2> QED BY <2>3 DEF Gm!OwnersAreTheOwner
  <1>8. \A p \in Requests : Reported(p)'
    BY <1>1 DEF GroupInv, Reported
  <1> QED BY <1>5, <1>8, <1>10, <1>11, <1>12 DEF GroupInv

(* The one handler with the group's row makes its user the owner in place of *)
(* the one that it checked.                                                  *)
LEMMA SwapOwnerKeeps ==
    ASSUME GroupInv, NEW h \in Handlers, Gm!SwapOwner(h)
    PROVE  GroupInv'
  <1>1. /\ job[h].step = "swap" /\ UNCHANGED <<joins, told, mirror>>
        /\ job[h] \in GroupJobs /\ Proper(job[h]) /\ StillTrue(job[h])
    BY JobAt DEF Gm!SwapOwner, Gm!At
  <1>2. CASE Gm!Ends(h) /\ UNCHANGED <<rows, ownerId, overtaken, excused>>
    BY <1>1, <1>2, GroupEnds
  <1>3. CASE /\ rows' = Gm!Swapped(job[h].by, job[h].user)
             /\ ownerId' = job[h].user
             /\ overtaken' = overtaken \cup Gm!Meanwhile(h)
             /\ excused' = excused \ {job[h].user, job[h].by}
             /\ Gm!Goes(h, "demote")
    <2>1. PICK w \in GroupJobs : /\ job' = [job EXCEPT ![h] = w]
                            /\ w.step = "demote" /\ w.kind = job[h].kind /\ w.user = job[h].user
                            /\ w.role = job[h].role /\ w.by = job[h].by /\ w.request = job[h].request
      BY <1>1, <1>3, StepOf DEF GroupSteps
    <2>2. JobGood(w) /\ StillTrue(w)' /\ Loose(w)
      BY <1>1, <2>1 DEF JobGood, Proper, StillTrue, Loose, InTransaction, Winning
    <2>3. \A g \in Handlers \ {h} : \A j \in GroupJobs : j = job[g] => StillTrue(j)'
      BY <1>1 DEF GroupInv, JobsTrue, JobsApart, Apart, StillTrue
    <2>4. JobsGood' /\ JobsTrue' /\ JobsApart' /\ (job = [g \in Handlers |-> job[g]])'
      BY <2>1, <2>2, <2>3, LooseIsApart, Moves
    <2>5. rows' \in [Users -> RolesOrNone]
      BY <1>3 DEF Gm!Swapped, GroupInv, GroupTables, RolesOrNone
    <2>6. ownerId = job[h].by /\ job[h].user \in Users /\ job[h].by # job[h].user
      BY <1>1 DEF StillTrue, GroupJobs, Proper
    <2>7. Gm!OwnersAreTheOwner'
      <3>1. \A v \in Users \ excused : rows[v] = "Owner" <=> v = ownerId
        BY DEF GroupInv, Gm!OwnersAreTheOwner
      <3>2. ASSUME NEW v \in Users \ excused' PROVE rows'[v] = "Owner" <=> v = ownerId'
        BY <1>3, <2>6, <3>1 DEF Gm!Swapped
      <3> QED BY <3>2 DEF Gm!OwnersAreTheOwner
    <2>9. RoleRead'
      <3>1. ASSUME NEW g \in Handlers \ {h}, job[g].step = "setRole", g \notin overtaken'
            PROVE  g \notin overtaken /\ (rows'[job[g].user] = "Owner" => rows[job[g].user] = "Owner")
        <4>1. job[g].user \in Users
          BY <3>1, JobAt DEF GroupJobs
        <4>2. job[g].user # job[h].user
          BY <1>3, <3>1 DEF Gm!Meanwhile, Gm!UnderWay
        <4> QED BY <1>3, <3>1, <4>1, <4>2 DEF Gm!Swapped
      <3> QED BY <2>1, <3>1, RoleReadMoves
    <2>8. GroupTables' /\ \A p \in Requests : Reported(p)'
      BY <1>1, <2>4, <2>5 DEF GroupInv, GroupTables, Reported
    <2> QED BY <2>4, <2>7, <2>8, <2>9 DEF GroupInv
  <1> QED BY <1>2, <1>3 DEF Gm!SwapOwner


(* The winner of a request reports it, the first and the last to do so. *)
LEMMA ReloadKeeps ==
    ASSUME GroupInv, NEW h \in Handlers, Gm!Reload(h)
    PROVE  GroupInv'
  <1>1. /\ job[h].step \in {"won", "lost"} /\ UNCHANGED <<rows, ownerId, joins, overtaken, excused, mirror>>
        /\ job[h] \in GroupJobs /\ Proper(job[h]) /\ StillTrue(job[h]) /\ Gm!Ends(h)
    BY JobAt DEF Gm!Reload
  <1>2. CASE told' = told
    BY <1>1, <1>2, GroupEnds
  <1>3. CASE job[h].step = "won"
    <2>1. PICK q \in Requests : q = job[h].request
      BY <1>1, <1>3 DEF GroupJobs, Proper, Winning
    <2>2. told' = [told EXCEPT ![q] = @ \cup {<<h, "approved">>}]
      BY <1>3, <2>1 DEF Gm!Reload, Gm!At
    <2>3. joins[q] = "approved" /\ told[q] = {}
      BY <1>1, <1>3, <2>1 DEF StillTrue, Winning
    <2>4. /\ told' = [p \in Requests |-> told'[p]] /\ told'[q] = {<<h, "approved">>}
          /\ \A p \in Requests \ {q} : told'[p] = told[p]
      BY <2>2, <2>3 DEF GroupInv, GroupTables
    <2>5. \A g \in Handlers \ {h} : \A j \in GroupJobs : j = job[g] => StillTrue(j)'
      <3> SUFFICES ASSUME NEW g \in Handlers \ {h}, NEW j \in GroupJobs, j = job[g] PROVE StillTrue(j)'
        OBVIOUS
      <3>1. StillTrue(j) /\ Proper(j) /\ Apart(job[h], j)
        BY FixedJobs DEF GroupInv, JobsTrue, JobsGood, JobGood, JobsApart
      <3>2. j.step \in Winning => j.request \in Requests \ {q}
        BY <1>3, <2>1, <3>1 DEF Proper, Apart, Winning, GroupJobs
      <3> QED BY <1>1, <2>4, <3>1, <3>2 DEF StillTrue
    <2>6. Loose(Gm!Done) /\ JobGood(Gm!Done) /\ StillTrue(Gm!Done)'
      BY FixedJobs DEF Loose, StillTrue, InTransaction, Winning, GroupJobs, Counts
    <2>7. JobsGood' /\ JobsTrue' /\ JobsApart' /\ (job = [g \in Handlers |-> job[g]])'
      BY <1>1, <2>5, <2>6, LooseIsApart, Moves DEF Gm!Ends
    <2>8. GroupTables' /\ Gm!OwnersAreTheOwner'
      BY <1>1, <2>4, <2>7 DEF GroupInv, GroupTables, Gm!OwnersAreTheOwner
    <2>9. \A p \in Requests : Reported(p)'
      BY <1>1, <2>3, <2>4 DEF GroupInv, Reported
    <2>10. RoleRead'
      BY <1>1, FixedJobs, RoleReadMoves DEF Gm!Ends
    <2> QED BY <2>7, <2>8, <2>9, <2>10 DEF GroupInv
  <1> QED BY <1>1, <1>2, <1>3 DEF Gm!Reload, Gm!At

LEMMA RejectKeeps ==
    ASSUME GroupInv, NEW h \in Handlers, NEW q \in Requests, Gm!Reject(h, q)
    PROVE  GroupInv'
  <1>1. Gm!Ends(h) /\ ~Gm!RequestLocked(q) /\ UNCHANGED <<rows, ownerId, overtaken, excused, mirror>>
    BY DEF Gm!Reject
  <1>2. CASE ~Gm!OpenInDb(q)
    <2>1. joins' = joins /\ told' = told
      BY <1>2 DEF Gm!Reject, GroupInv, GroupTables
    <2> QED BY <1>1, <2>1, GroupEnds
  <1>3. CASE Gm!OpenInDb(q)
    <2>1. /\ joins' = [joins EXCEPT ![q] = "rejected"]
          /\ told' = [told EXCEPT ![q] = @ \cup {<<h, "rejected">>}]
      BY <1>3 DEF Gm!Reject
    <2>2. joins[q] = "pending" /\ told[q] = {}
      BY <1>3 DEF Gm!OpenInDb, GroupInv, Reported
    <2>3. /\ told' = [p \in Requests |-> told'[p]] /\ told'[q] = {<<h, "rejected">>}
          /\ \A p \in Requests \ {q} : told'[p] = told[p] /\ joins'[p] = joins[p]
          /\ joins'[q] = "rejected" /\ joins' \in [Requests -> {"none", "pending", "approved", "rejected"}]
      BY <2>1, <2>2 DEF GroupInv, GroupTables
    <2>4. \A g \in Handlers \ {h} : \A j \in GroupJobs : j = job[g] => StillTrue(j)'
      <3> SUFFICES ASSUME NEW g \in Handlers \ {h}, NEW j \in GroupJobs, j = job[g] PROVE StillTrue(j)'
        OBVIOUS
      <3>1. StillTrue(j) /\ Proper(j) /\ j.request \in Requests \cup {"none"}
        BY FixedJobs DEF GroupInv, JobsTrue, JobsGood, JobGood, GroupJobs
      <3>2. j.step \in InTransaction => j.request # q
        BY <1>1 DEF Gm!RequestLocked, Gm!InTx, InTransaction
      <3>3. j.step \in Winning => j.request \in Requests \ {q}
        BY <2>2, <3>1 DEF Proper, StillTrue, Winning
      <3> QED BY <1>1, <2>3, <3>1, <3>2, <3>3 DEF StillTrue
    <2>5. Loose(Gm!Done) /\ JobGood(Gm!Done) /\ StillTrue(Gm!Done)'
      BY FixedJobs DEF Loose, StillTrue, InTransaction, Winning, GroupJobs, Counts
    <2>6. JobsGood' /\ JobsTrue' /\ JobsApart' /\ (job = [g \in Handlers |-> job[g]])'
      BY <1>1, <2>4, <2>5, LooseIsApart, Moves DEF Gm!Ends
    <2>7. GroupTables' /\ Gm!OwnersAreTheOwner'
      BY <1>1, <2>3, <2>6 DEF GroupInv, GroupTables, Gm!OwnersAreTheOwner
    <2>8. \A p \in Requests : Reported(p)'
      BY <2>3 DEF GroupInv, Reported
    <2>10. RoleRead'
      BY <1>1, FixedJobs, RoleReadMoves DEF Gm!Ends
    <2> QED BY <2>6, <2>7, <2>8, <2>10 DEF GroupInv
  <1> QED BY <1>2, <1>3

LEMMA AskToJoinKeeps ==
    ASSUME GroupInv, NEW q \in Requests, Gm!AskToJoin(q)
    PROVE  GroupInv'
  <1>1. /\ UNCHANGED <<rows, ownerId, overtaken, excused, mirror, told, job>> /\ joins[q] = "none"
        /\ joins' \in [Requests -> {"none", "pending", "approved", "rejected"}]
        /\ \A p \in Requests \ {q} : joins'[p] = joins[p]
    BY DEF Gm!AskToJoin, GroupInv, GroupTables
  <1>2. JobsTrue'
    <2> SUFFICES ASSUME NEW h \in Handlers, job[h] \in GroupJobs PROVE StillTrue(job[h])'
      BY <1>1 DEF JobsTrue, StillTrue, GroupJobs, Counts
    <2>1. StillTrue(job[h]) /\ Proper(job[h]) /\ job[h].request \in Requests \cup {"none"}
      BY FixedJobs DEF GroupInv, JobsTrue, JobsGood, JobGood, GroupJobs
    <2>2. job[h].step \in InTransaction \cup Winning /\ job[h].request # "none" => job[h].request \in Requests \ {q}
      BY <1>1, <2>1 DEF StillTrue
    <2>3. job[h].step \in Winning => job[h].request # "none"
      BY <2>1 DEF Proper
    <2> QED BY <1>1, <2>1, <2>2, <2>3 DEF StillTrue
  <1>3. JobsGood' /\ JobsApart' /\ RoleRead'
    BY <1>1 DEF GroupInv, JobsGood, JobGood, Proper, JobsApart, RoleRead, Apart, GroupJobs, Counts, Gm!Idle, Gm!Done
  <1>4. GroupTables' /\ Gm!OwnersAreTheOwner'
    BY <1>1 DEF GroupInv, GroupTables, Gm!OwnersAreTheOwner
  <1>5. \A p \in Requests : Reported(p)'
    BY <1>1 DEF GroupInv, Reported
  <1> QED BY <1>2, <1>3, <1>4, <1>5 DEF GroupInv

(* Copies only: the loaded channel and ApprovalService's list. *)
LEMMA CopiesKeep ==
    ASSUME GroupInv, UNCHANGED <<rows, ownerId, mirror, joins, told, overtaken, excused, job>>
    PROVE  GroupInv'
  <1>1. GroupTables' /\ JobsGood' /\ JobsTrue'
    BY DEF GroupInv, GroupTables, JobsGood, JobsTrue, JobGood, StillTrue, Proper, GroupJobs, Counts, Gm!Idle, Gm!Done
  <1>2. JobsApart' /\ RoleRead' /\ Gm!OwnersAreTheOwner' /\ \A p \in Requests : Reported(p)'
    BY DEF GroupInv, JobsApart, RoleRead, Apart, Gm!OwnersAreTheOwner, Reported
  <1> QED BY <1>1, <1>2 DEF GroupInv

LEMMA RestartKeeps ==
    ASSUME GroupInv, Gm!Restart
    PROVE  GroupInv'
  <1>1. \A h \in Handlers : job'[h] \in {Gm!Idle, Gm!Done}
    BY DEF Gm!Restart
  <1>2. job' = [h \in Handlers |-> job'[h]] /\ UNCHANGED <<rows, ownerId, mirror, joins, told, overtaken, excused>>
    BY DEF Gm!Restart
  <1>3. JobsGood' /\ JobsTrue' /\ JobsApart' /\ RoleRead'
    <2>1. \A h \in Handlers : job'[h] \notin GroupJobs /\ job'[h].step \in {"idle", "done"}
      BY <1>1, FixedJobs
    <2> QED BY <1>1, <2>1 DEF JobsGood, JobGood, JobsTrue, StillTrue, JobsApart, Apart, RoleRead, InTransaction, Winning,
                               Gm!Idle, Gm!Done, GroupJobs, Counts
  <1>4. GroupTables' /\ Gm!OwnersAreTheOwner' /\ \A p \in Requests : Reported(p)'
    BY <1>2 DEF GroupInv, GroupTables, Gm!OwnersAreTheOwner, Reported
  <1> QED BY <1>3, <1>4 DEF GroupInv

-----------------------------------------------------------------------------

LEMMA GroupBegins ==
    ASSUME Gm!Init
    PROVE  GroupInv
  <1>1. \A h \in Handlers : job[h] = Gm!Idle
    BY DEF Gm!Init
  <1>2. JobsGood /\ JobsTrue /\ JobsApart /\ RoleRead
    BY <1>1, FixedJobs DEF RoleRead, JobsGood, JobsTrue, StillTrue, JobsApart, Apart, InTransaction, Winning
  <1>3. rows \in [Users -> RolesOrNone] /\ \A u \in Users : rows[u] = "Owner" <=> u = Creator
    BY DEF Gm!Init, RolesOrNone
  <1>4. GroupTables /\ Gm!OwnersAreTheOwner /\ \A q \in Requests : Reported(q)
    BY <1>3 DEF Gm!Init, GroupTables, Gm!OwnersAreTheOwner, Reported
  <1> QED BY <1>2, <1>4 DEF GroupInv

LEMMA GroupKeeps ==
    ASSUME GroupInv, Gm!RequestsOfUsers, [Gm!Next]_Gm!vars
    PROVE  GroupInv'
  <1>1. ASSUME NEW h \in Handlers, NEW u \in Users,
               \/ \E role \in Gm!Roles : Gm!AddMember(h, u, role)
               \/ Gm!JoinByCode(h, u) \/ Gm!SendRejoins(h, u) \/ Gm!Leave(h, u)
               \/ Gm!RemoveMemberAdmin(h, u) \/ Gm!AddMemberAdmin(h, u)
               \/ \E role \in {"Admin", "Member"} : Gm!SetMemberRoleAdmin(h, u, role)
               \/ \E by \in Users : Gm!TransferGroupOwner(h, by, u)
        PROVE  GroupInv'
    BY <1>1, JoinRequestsCome, TransferComes
  <1>2. ASSUME NEW h \in Handlers,
               \/ Gm!JoinChannel(h) \/ Gm!LeaveChannel(h) \/ Gm!WriteRow(h) \/ Gm!CountRows(h) \/ Gm!Commit(h)
               \/ Gm!SetRole(h) \/ Gm!CacheRole(h) \/ Gm!LockGroup(h) \/ Gm!SwapOwner(h) \/ Gm!Demote(h)
               \/ Gm!Admit(h) \/ Gm!Reload(h)
               \/ \E g \in Handlers : Gm!Deadlock(h, g)
               \/ \E q \in Requests : Gm!Approve(h, q) \/ Gm!Reject(h, q)
        PROVE  GroupInv'
    BY <1>2, ChannelSteps, WriteRowKeeps, CountRowsKeeps, CommitKeeps, SetRoleKeeps, LockGroupKeeps,
       SwapOwnerKeeps, AdmitKeeps, ReloadKeeps, DeadlockKeeps, ApproveComes, RejectKeeps
  <1>3. ASSUME NEW q \in Requests, Gm!AskToJoin(q) \/ Gm!ListRequest(q) PROVE GroupInv'
    BY <1>3, AskToJoinKeeps, CopiesKeep DEF Gm!ListRequest
  <1>4. CASE Gm!StartLoad \/ Gm!LoadFails \/ Gm!StoreLoaded \/ Gm!Evict
    BY <1>4, CopiesKeep DEF Gm!StartLoad, Gm!LoadFails, Gm!StoreLoaded, Gm!Evict
  <1>5. CASE UNCHANGED Gm!vars
    BY <1>5, CopiesKeep DEF Gm!vars
  <1> QED BY <1>1, <1>2, <1>3, <1>4, <1>5, RestartKeeps DEF Gm!Next

(* For any group, handlers and join requests, the group's owner_id and       *)
(* nobody else has the role of owner, whatever transfers, joins, leaves,     *)
(* role changes and restarts run between the statements of each other,       *)
(* except where a membership transaction wrote the row of the user past      *)
(* owner_id (with the mirror's role of owner, or over the owner), or a role  *)
(* change whose read the new ownership overtook (channel_service.rs          *)
(* transfer_group_owner, join_channel, set_member_role_admin).               *)
THEOREM OneOwner ==
    ASSUME Gm!RequestsOfUsers
    PROVE  Gm!Spec => []Gm!OwnersAreTheOwner
  <1>1. Gm!Init => GroupInv
    BY GroupBegins
  <1>2. GroupInv /\ [Gm!Next]_Gm!vars => GroupInv'
    BY GroupKeeps
  <1>3. GroupInv => Gm!OwnersAreTheOwner
    BY DEF GroupInv
  <1> QED BY <1>1, <1>2, <1>3, PTL DEF Gm!Spec

LEMMA ReportedOnce ==
    ASSUME GroupInv
    PROVE  Gm!DecidedOnce
  <1> SUFFICES ASSUME NEW q \in Requests
               PROVE  Cardinality(told[q]) <= 1 /\ \A t \in told[q] : joins[q] = t[2]
    BY DEF Gm!DecidedOnce, Gm!Cardinality, Cardinality, Gm!IsFiniteSet, IsFiniteSet
  <1>1. CASE told[q] = {}
    BY <1>1, FS_EmptySet
  <1>2. CASE \E h \in Handlers : told[q] = {<<h, joins[q]>>}
    <2>1. PICK h \in Handlers : told[q] = {<<h, joins[q]>>}
      BY <1>2
    <2>2. PICK t : t = <<h, joins[q]>>
      OBVIOUS
    <2>3. told[q] = {t} /\ t[2] = joins[q]
      BY <2>1, <2>2
    <2>4. Cardinality({t}) = 1
      BY FS_Singleton
    <2>5. Cardinality(told[q]) <= 1
      BY <2>3, <2>4
    <2> QED BY <2>3, <2>5
  <1> QED BY <1>1, <1>2 DEF GroupInv, Reported

(* For any requests and handlers, at most one handler is told that it        *)
(* decided a join request, and the request's row says the same: the update   *)
(* that moves the row from pending is what decides, not the list in memory   *)
(* (approval_service.rs approve_join_request_in_tx, reject_request).         *)
THEOREM OneDecision ==
    ASSUME Gm!RequestsOfUsers
    PROVE  Gm!Spec => []Gm!DecidedOnce
  <1>1. Gm!Init => GroupInv
    BY GroupBegins
  <1>2. GroupInv /\ [Gm!Next]_Gm!vars => GroupInv'
    BY GroupKeeps
  <1>3. GroupInv => Gm!DecidedOnce
    BY ReportedOnce
  <1> QED BY <1>1, <1>2, <1>3, PTL DEF Gm!Spec
=============================================================================
