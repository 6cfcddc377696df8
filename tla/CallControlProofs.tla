------------------------- MODULE CallControlProofs -------------------------
(***************************************************************************)
(* CallControl, for any number of calls, users, devices and workers.       *)
(***************************************************************************)
EXTENDS CallControl, FiniteSetTheorems, WellFoundedInduction, TLAPS

Visible(k) == [state |-> k.state, reason |-> k.reason, part |-> k.part]

(* A stored call as a value: an answered call rings no more, an ended one    *)
(* ended truthfully, and a direct call has one callee.                       *)
Sound(k) ==
    /\ k.answered => k.state # "ringing"
    /\ k.state = "ended" =>
          /\ k.reason \in {"rejected", "cancelled"} => ~k.answered
          /\ \A u \in Users : k.part[u] # "joined"
    /\ k.part[k.starter] # "invited"
    /\ k.direct => /\ \A u, v \in Users \ {k.starter} : k.part[u] # "none" /\ k.part[v] # "none" => u = v
                   /\ k.answered => \A u \in Users : k.part[u] # "invited"

(* Who is joined has a device and who is invited has none, an active call    *)
(* was answered by somebody else, and an ended one has a reason.             *)
Legible(k) ==
    /\ \A u \in Users : k.part[u] = "joined" => k.claim[u] # None
    /\ \A u \in Users : k.part[u] = "invited" => k.claim[u] = None
    /\ k.state = "active" => k.answered
    /\ k.answered => \E u \in Users \ {k.starter} : k.claim[u] # None
    /\ k.state = "ended" <=> k.reason # "none"

Good(k) == k \in CallRows /\ Sound(k) /\ Legible(k)

(* What no step does to a call: bring somebody in, change a device, undo a   *)
(* departure, change what is visible without a new version or after the end. *)
Follows(k, j) ==
    /\ \A u \in Users : InCall(j, u) => InCall(k, u)
    /\ \A u \in Users : k.claim[u] # None => j.claim[u] = k.claim[u]
    /\ \A u \in Users : k.part[u] \in {"left", "rejected"} => j.part[u] = k.part[u]
    /\ j.version >= k.version
    /\ Visible(j) # Visible(k) => j.version > k.version
    /\ k.state = "ended" => Visible(j) = Visible(k)

(* How a page of the book may follow another, however many steps apart. *)
RunsDown(k, j) ==
    /\ j.starter = k.starter
    /\ \A u \in Users : Book!Goes(k.part[u], j.part[u])
    /\ \A u \in Users : j.claim[u] # k.claim[u] => k.claim[u] = None /\ k.part[u] = "invited"
    /\ Book!Runs(k.state, j.state)
    /\ k.state # "ended" /\ j.reason \in {"rejected", "cancelled"} => k.state = "ringing"
    /\ k.state = "ended" => Page(j) = Page(k)

Evolves(k, j) == Good(j) /\ Follows(k, j) /\ RunsDown(k, j)

LEMMA VisibleParts ==
    ASSUME NEW k, NEW j
    PROVE  Visible(j) = Visible(k) <=> j.state = k.state /\ j.reason = k.reason /\ j.part = k.part
  BY DEF Visible

LEMMA EvolvesSame == ASSUME NEW k, Good(k) PROVE Evolves(k, k)
  <1>1. Follows(k, k)
    BY DEF Follows, Good, CallRows
  <1>2. RunsDown(k, k)
    BY DEF RunsDown, Good, Legible, Book!Goes, Book!Runs
  <1> QED BY <1>1, <1>2 DEF Evolves

LEMMA RunsDownTwice ==
    ASSUME NEW k, NEW j, NEW m, RunsDown(k, j), RunsDown(j, m)
    PROVE  RunsDown(k, m)
  <1>1. \A u \in Users : Book!Goes(k.part[u], m.part[u])
    BY DEF RunsDown, Book!Goes
  <1>2. \A u \in Users : m.claim[u] # k.claim[u] => k.claim[u] = None /\ k.part[u] = "invited"
    BY DEF RunsDown, Book!Goes
  <1>3. m.starter = k.starter /\ Book!Runs(k.state, m.state)
    BY DEF RunsDown, Book!Runs
  <1>4. k.state # "ended" /\ m.reason \in {"rejected", "cancelled"} => k.state = "ringing"
    <2>1. CASE j.state = "ended"
      BY <2>1 DEF RunsDown, Page
    <2>2. CASE j.state # "ended"
      BY <2>2 DEF RunsDown, Book!Runs
    <2> QED BY <2>1, <2>2
  <1>5. k.state = "ended" => Page(m) = Page(k)
    BY DEF RunsDown, Book!Runs
  <1> QED BY <1>1, <1>2, <1>3, <1>4, <1>5 DEF RunsDown

LEMMA EvolvesTwice ==
    ASSUME NEW k, NEW j, NEW m, Good(k), Evolves(k, j), Evolves(j, m)
    PROVE  Evolves(k, m)
  <1>1. k.version \in Nat /\ j.version \in Nat /\ m.version \in Nat
    BY DEF Evolves, Good, CallRows
  <1>2. Good(m) BY DEF Evolves
  <1>3. /\ \A u \in Users : InCall(m, u) => InCall(k, u)
        /\ \A u \in Users : k.claim[u] # None => m.claim[u] = k.claim[u]
        /\ \A u \in Users : k.part[u] \in {"left", "rejected"} => m.part[u] = k.part[u]
    BY DEF Evolves, Follows
  <1>4. /\ m.version >= k.version
        /\ Visible(m) # Visible(k) => m.version > k.version
    BY <1>1 DEF Evolves, Follows
  <1>5. k.state = "ended" => Visible(m) = Visible(k)
    BY VisibleParts DEF Evolves, Follows
  <1>6. RunsDown(k, m)
    BY RunsDownTwice DEF Evolves
  <1> QED BY <1>2, <1>3, <1>4, <1>5, <1>6 DEF Evolves, Follows

-----------------------------------------------------------------------------
(* The pieces the routes are made of. *)

LEMMA FinishFacts ==
    ASSUME NEW k \in CallRows, NEW why \in Reasons
    PROVE  LET j == Finish(k, why) IN
           /\ j \in CallRows
           /\ j.state = "ended" /\ j.reason = why
           /\ j.direct = k.direct /\ j.starter = k.starter /\ j.claim = k.claim
           /\ j.answered = k.answered /\ j.version = k.version
           /\ \A u \in Users : j.part[u] = IF k.part[u] = "joined" THEN "left" ELSE k.part[u]
  BY DEF Finish, CallRows, Parts

LEMMA BumpFacts ==
    ASSUME NEW k \in CallRows
    PROVE  LET j == Bump(k) IN
           /\ j \in CallRows
           /\ j.state = k.state /\ j.reason = k.reason /\ j.part = k.part
           /\ j.direct = k.direct /\ j.starter = k.starter /\ j.claim = k.claim
           /\ j.answered = k.answered /\ j.version = k.version + 1
  BY DEF Bump, CallRows

LEMMA PartFacts ==
    ASSUME NEW k \in CallRows, NEW u \in Users, NEW p \in Parts
    PROVE  LET j == Part(k, u, p) IN
           /\ j \in CallRows
           /\ j.state = k.state /\ j.reason = k.reason
           /\ j.direct = k.direct /\ j.starter = k.starter /\ j.claim = k.claim /\ j.live = k.live
           /\ j.answered = k.answered /\ j.version = k.version
           /\ \A v \in Users : j.part[v] = IF v = u THEN p ELSE k.part[v]
  BY DEF Part, CallRows

LEMMA AfterLeasesFacts ==
    ASSUME NEW k \in CallRows
    PROVE  LET j == AfterLeases(k) IN
           /\ j \in CallRows
           /\ j.state = k.state /\ j.reason = k.reason
           /\ j.direct = k.direct /\ j.starter = k.starter /\ j.claim = k.claim
           /\ j.answered = k.answered /\ j.version = k.version
           /\ \A u \in Users : j.part[u] = IF u \in Gone(k) THEN "left" ELSE k.part[u]
           /\ \A u \in Gone(k) : InCall(k, u)
  <1>1. \A u \in Gone(k) : InCall(k, u)
    BY DEF Gone, InCall
  <1> QED BY <1>1 DEF AfterLeases, CallRows, Parts

(* A new version of a call in which nobody came in, no device changed and    *)
(* nobody who had gone came back.                                            *)
LEMMA Versioned ==
    ASSUME NEW k, NEW j, Good(k), k.state # "ended", j \in CallRows, Sound(j), Legible(j),
           RunsDown(k, j), j.version = k.version,
           \A u \in Users : InCall(j, u) => InCall(k, u),
           \A u \in Users : k.claim[u] # None => j.claim[u] = k.claim[u],
           \A u \in Users : k.part[u] \in {"left", "rejected"} => j.part[u] = k.part[u]
    PROVE  Evolves(k, Bump(j))
  <1> DEFINE m == Bump(j)
  <1>1. /\ m \in CallRows
        /\ m.state = j.state /\ m.reason = j.reason /\ m.part = j.part
        /\ m.direct = j.direct /\ m.starter = j.starter /\ m.claim = j.claim
        /\ m.answered = j.answered /\ m.version = j.version + 1
    BY BumpFacts
  <1>2. k.version \in Nat
    BY DEF Good, CallRows
  <1> HIDE DEF m
  <1>3. Good(m)
    BY <1>1 DEF Good, Sound, Legible
  <1>4. Follows(k, m)
    BY <1>1, <1>2 DEF Follows, InCall
  <1>5. RunsDown(k, m)
    BY <1>1 DEF RunsDown
  <1> QED BY <1>3, <1>4, <1>5 DEF Evolves, m

LEMMA ExpireEvolves == ASSUME NEW k, Good(k) PROVE Evolves(k, Expire(k))
  <1>1. CASE k.state = "ended"
    BY <1>1, EvolvesSame DEF Expire
  <1>2. CASE k.state # "ended"
    <2> DEFINE a == AfterLeases(k)
               j == IF TimesOut(a) THEN Finish(a, "timeout") ELSE a
    <2>k. k \in CallRows BY DEF Good
    <2>a. /\ a \in CallRows
          /\ a.state = k.state /\ a.reason = k.reason
          /\ a.direct = k.direct /\ a.starter = k.starter /\ a.claim = k.claim
          /\ a.answered = k.answered /\ a.version = k.version
          /\ \A u \in Users : a.part[u] = IF u \in Gone(k) THEN "left" ELSE k.part[u]
          /\ \A u \in Gone(k) : InCall(k, u)
      BY <2>k, AfterLeasesFacts
    <2>s. k.starter \in Users /\ \A u \in Gone(k) : k.part[u] \in {"invited", "joined"}
      BY <2>k, <2>a DEF CallRows, InCall
    <2> HIDE DEF a
    <2>sa. Sound(a)
      BY <1>2, <2>a, <2>s DEF Good, Sound
    <2>la. Legible(a)
      BY <2>a, <2>s DEF Good, Legible
    <2>ra. RunsDown(k, a)
      BY <1>2, <2>a, <2>s DEF Good, Legible, RunsDown, Book!Goes, Book!Runs
    <2>1. /\ j \in CallRows /\ Sound(j) /\ Legible(j) /\ RunsDown(k, j) /\ j.version = k.version
          /\ \A u \in Users : InCall(j, u) => InCall(k, u)
          /\ j.claim = k.claim
          /\ \A u \in Users : k.part[u] \in {"left", "rejected"} => j.part[u] = k.part[u]
      <3>1. CASE TimesOut(a)
        <4> DEFINE f == Finish(a, "timeout")
        <4>1. /\ f \in CallRows
              /\ f.state = "ended" /\ f.reason = "timeout"
              /\ f.direct = a.direct /\ f.starter = a.starter /\ f.claim = a.claim
              /\ f.answered = a.answered /\ f.version = a.version
              /\ \A u \in Users : f.part[u] = IF a.part[u] = "joined" THEN "left" ELSE a.part[u]
          BY <2>a, FinishFacts DEF Reasons
        <4> HIDE DEF f
        <4>2. Sound(f)
          BY <4>1, <2>a, <2>s, <2>sa DEF Sound
        <4>3. \A u \in Users : InCall(f, u) => InCall(k, u)
          BY <4>1, <2>a DEF InCall
        <4>4. \A u \in Users : k.part[u] \in {"left", "rejected"} => f.part[u] = k.part[u]
          BY <4>1, <2>a, <2>s
        <4>5. j = f BY <3>1 DEF f
        <4>6. Legible(f)
          BY <4>1, <2>la DEF Legible
        <4>7. RunsDown(k, f)
          <5>1. RunsDown(a, f)
            BY <1>2, <4>1, <2>a DEF RunsDown, Book!Goes, Book!Runs
          <5> QED BY <5>1, <2>ra, RunsDownTwice
        <4> QED BY <4>1, <4>2, <4>3, <4>4, <4>5, <4>6, <4>7, <2>a
      <3>2. CASE ~TimesOut(a)
        <4>1. j = a BY <3>2
        <4>2. \A u \in Users : InCall(a, u) => InCall(k, u)
          BY <2>a DEF InCall
        <4>3. \A u \in Users : k.part[u] \in {"left", "rejected"} => a.part[u] = k.part[u]
          BY <2>a, <2>s
        <4> QED BY <4>1, <4>2, <4>3, <2>a, <2>sa, <2>la, <2>ra
      <3> QED BY <3>1, <3>2
    <2>2. Expire(k) = IF j = k THEN k ELSE Bump(j)
      BY <1>2 DEF Expire, a
    <2> HIDE DEF j
    <2>3. Evolves(k, Bump(j))
      BY <1>2, <2>1, Versioned
    <2> QED BY <2>2, <2>3, EvolvesSame
  <1> QED BY <1>1, <1>2

-----------------------------------------------------------------------------
(* Each route, on the call that expire left. *)

Moves(c, k) ==
    /\ \E j : Evolves(k, j) /\ call' = [call EXCEPT ![c] = j]
    /\ UNCHANGED <<inviting, work>>

LEMMA JoinMoves ==
    ASSUME NEW c \in Calls, NEW u \in Users, NEW d \in Devices, NEW k, Good(k), k.state # "ended",
           Join(c, u, d, k)
    PROVE  Moves(c, k)
  <1> DEFINE p == Part(k, u, "joined")
             j == [p EXCEPT !.claim[u] = d, !.live = @ \cup {u}]
             a == [j EXCEPT !.state = "active", !.answered = TRUE]
             answers == u # k.starter /\ k.state = "ringing"
  <1>k. k \in CallRows /\ InCall(k, u) /\ k.claim[u] \in {None, d}
    BY DEF Good, Join, Joinable
  <1>p. /\ p \in CallRows
        /\ p.state = k.state /\ p.reason = k.reason
        /\ p.direct = k.direct /\ p.starter = k.starter /\ p.claim = k.claim /\ p.live = k.live
        /\ p.answered = k.answered /\ p.version = k.version
        /\ \A v \in Users : p.part[v] = IF v = u THEN "joined" ELSE k.part[v]
    BY <1>k, PartFacts DEF Parts
  <1> HIDE DEF p
  <1>j. /\ j \in CallRows
        /\ j.state = k.state /\ j.reason = k.reason
        /\ j.direct = k.direct /\ j.starter = k.starter
        /\ j.answered = k.answered /\ j.version = k.version
        /\ \A v \in Users : j.part[v] = IF v = u THEN "joined" ELSE k.part[v]
        /\ \A v \in Users : j.claim[v] = IF v = u THEN d ELSE k.claim[v]
    BY <1>p DEF CallRows
  <1> HIDE DEF j
  <1>a. /\ a \in CallRows
        /\ a.state = "active" /\ a.reason = k.reason
        /\ a.direct = k.direct /\ a.starter = k.starter
        /\ a.answered = TRUE /\ a.version = k.version
        /\ a.part = j.part /\ a.claim = j.claim
    BY <1>j DEF CallRows
  <1> HIDE DEF a
  <1>s. k.starter \in Users /\ k.state \in {"ringing", "active"} /\ k.part[u] \in {"invited", "joined"}
    BY <1>k DEF CallRows, InCall
  <1>1. Sound(j)
    BY <1>j, <1>s DEF Good, Sound
  <1>2. ASSUME answers PROVE Sound(a)
    BY <1>2, <1>a, <1>j, <1>s DEF Good, Sound
  <1>3. /\ \A v \in Users : InCall(j, v) => InCall(k, v)
        /\ \A v \in Users : k.claim[v] # None => j.claim[v] = k.claim[v]
        /\ \A v \in Users : k.part[v] \in {"left", "rejected"} => j.part[v] = k.part[v]
    BY <1>j, <1>k, <1>s DEF InCall
  <1>d. d # None /\ (k.part[u] = "joined" => k.claim[u] # None)
    BY CallAssumption DEF Good, Legible
  <1>l. Legible(j)
    BY <1>j, <1>d DEF Good, Legible
  <1>r. RunsDown(k, j)
    BY <1>j, <1>k, <1>s, <1>d DEF Good, Legible, RunsDown, Book!Goes, Book!Runs
  <1>4. Evolves(k, Bump(j))
    BY <1>1, <1>3, <1>j, <1>l, <1>r, Versioned
  <1>5. ASSUME answers PROVE Evolves(k, Bump(a))
    <2>1. \A v \in Users : InCall(a, v) => InCall(k, v)
      BY <1>3, <1>a DEF InCall
    <2>2. Legible(a)
      <3>1. u \in Users \ {a.starter} /\ a.claim[u] # None
        BY <1>5, <1>a, <1>j, <1>d
      <3>2. a.state # "ended" /\ a.reason = "none"
        BY <1>a, <1>s DEF Good, Legible
      <3> QED BY <3>1, <3>2, <1>a, <1>l DEF Legible
    <2>3. RunsDown(k, a)
      BY <1>5, <1>a, <1>s, <1>r DEF RunsDown, Book!Runs
    <2> QED BY <1>5, <1>2, <1>3, <2>1, <2>2, <2>3, <1>a, Versioned
  <1>6. call' = [call EXCEPT ![c] = Bump(IF answers THEN a ELSE j)] /\ UNCHANGED <<inviting, work>>
    BY DEF Join, Announce, Save, outbox, a, j, p
  <1> QED BY <1>4, <1>5, <1>6 DEF Moves

LEMMA HeartbeatMoves ==
    ASSUME NEW c \in Calls, NEW u \in Users, NEW d \in Devices, NEW k, Good(k),
           Heartbeat(c, u, d, k)
    PROVE  Moves(c, k)
  <1> DEFINE j == [k EXCEPT !.live = @ \cup {u}]
  <1>1. /\ j \in CallRows
        /\ j.state = k.state /\ j.reason = k.reason /\ j.part = k.part /\ j.claim = k.claim
        /\ j.direct = k.direct /\ j.starter = k.starter
        /\ j.answered = k.answered /\ j.version = k.version /\ k.version \in Nat
    <2>1. k \in CallRows BY DEF Good
    <2>2. k.live \cup {u} \in SUBSET Users BY <2>1 DEF CallRows
    <2> QED BY <2>1, <2>2 DEF CallRows
  <1>2. call' = [call EXCEPT ![c] = j] /\ UNCHANGED <<inviting, work>>
    BY DEF Heartbeat, Save, outbox
  <1> HIDE DEF j
  <1>3. Good(j)
    BY <1>1 DEF Good, Sound, Legible
  <1>4. Follows(k, j)
    BY <1>1, VisibleParts DEF Follows, InCall
  <1>5. RunsDown(k, j)
    BY <1>1 DEF Good, Legible, RunsDown, Page, Book!Goes, Book!Runs
  <1> QED BY <1>2, <1>3, <1>4, <1>5 DEF Moves, Evolves

(* A participant departs, and perhaps the call ends with it. *)
LEMMA Departs ==
    ASSUME NEW k, Good(k), k.state # "ended", NEW u \in Users, NEW p \in {"left", "rejected"},
           InCall(k, u), p = "rejected" => k.part[u] = "invited"
    PROVE  LET j == Part(k, u, p) IN
           /\ Evolves(k, Bump(j))
           /\ \A why \in Reasons \ {"none"} :
                 (why \in {"rejected", "cancelled"} => ~k.answered) => Evolves(k, Bump(Finish(j, why)))
  <1> DEFINE j == Part(k, u, p)
  <1>k. k \in CallRows /\ k.part[u] \in {"invited", "joined"} /\ k.starter \in Users
    BY DEF Good, InCall, CallRows
  <1>p. p \in Parts
    BY DEF Parts
  <1>j. /\ j \in CallRows
        /\ j.state = k.state /\ j.reason = k.reason
        /\ j.direct = k.direct /\ j.starter = k.starter /\ j.claim = k.claim
        /\ j.answered = k.answered /\ j.version = k.version
        /\ \A v \in Users : j.part[v] = IF v = u THEN p ELSE k.part[v]
    BY <1>k, <1>p, PartFacts
  <1> HIDE DEF j
  <1>1. Sound(j)
    BY <1>j, <1>k DEF Good, Sound
  <1>2. /\ \A v \in Users : InCall(j, v) => InCall(k, v)
        /\ \A v \in Users : k.part[v] \in {"left", "rejected"} => j.part[v] = k.part[v]
    BY <1>j, <1>k DEF InCall
  <1>l. Legible(j)
    BY <1>j, <1>k DEF Good, Legible
  <1>r. RunsDown(k, j)
    BY <1>j, <1>k DEF Good, Legible, RunsDown, Book!Goes, Book!Runs
  <1>3. Evolves(k, Bump(j))
    BY <1>1, <1>2, <1>j, <1>l, <1>r, Versioned
  <1>4. ASSUME NEW why \in Reasons \ {"none"}, why \in {"rejected", "cancelled"} => ~k.answered
        PROVE  Evolves(k, Bump(Finish(j, why)))
    <2> DEFINE f == Finish(j, why)
    <2>1. /\ f \in CallRows
          /\ f.state = "ended" /\ f.reason = why
          /\ f.direct = j.direct /\ f.starter = j.starter /\ f.claim = j.claim
          /\ f.answered = j.answered /\ f.version = j.version
          /\ \A v \in Users : f.part[v] = IF j.part[v] = "joined" THEN "left" ELSE j.part[v]
      BY <1>j, FinishFacts
    <2> HIDE DEF f
    <2>2. Sound(f)
      BY <1>4, <2>1, <1>1, <1>j, <1>k DEF Sound
    <2>3. /\ \A v \in Users : InCall(f, v) => InCall(k, v)
          /\ \A v \in Users : k.part[v] \in {"left", "rejected"} => f.part[v] = k.part[v]
      BY <2>1, <1>2 DEF InCall
    <2>l. Legible(f)
      BY <2>1, <1>l DEF Legible
    <2>r. RunsDown(k, f)
      <3>1. ~k.answered => k.state = "ringing"
        BY <1>k DEF Good, Legible, CallRows
      <3>2. RunsDown(j, f)
        BY <1>4, <2>1, <3>1, <1>j DEF RunsDown, Book!Goes, Book!Runs
      <3> QED BY <3>2, <1>r, RunsDownTwice
    <2>4. Evolves(k, Bump(f))
      BY <2>1, <2>2, <2>3, <2>l, <2>r, <1>j, Versioned
    <2> QED BY <2>4 DEF f
  <1> QED BY <1>3, <1>4 DEF j

LEMMA RejectMoves ==
    ASSUME NEW c \in Calls, NEW u \in Users, NEW k, Good(k), k.state # "ended", Reject(c, u, k)
    PROVE  Moves(c, k)
  <1> DEFINE j == Part(k, u, "rejected")
  <1>0. u # k.starter /\ k.part[u] = "invited" /\ InCall(k, u)
    BY DEF Reject, InCall
  <1>1. Evolves(k, Bump(j)) /\ (~k.answered => Evolves(k, Bump(Finish(j, "rejected"))))
    BY <1>0, Departs DEF Reasons
  <1>2. call' = [call EXCEPT ![c] = Bump(IF RejectEnds(j) THEN Finish(j, "rejected") ELSE j)] /\ UNCHANGED <<inviting, work>>
    BY DEF Reject, Announce, Save, outbox
  <1>3. j.direct = k.direct /\ j.state = k.state
    BY PartFacts DEF Good, Parts
  <1>4. RejectEnds(j) => ~k.answered
    BY <1>0, <1>3 DEF RejectEnds, Good, Sound
  <1> HIDE DEF j
  <1> QED BY <1>1, <1>2, <1>4 DEF Moves

LEMMA CancelMoves ==
    ASSUME NEW c \in Calls, NEW u \in Users, NEW d \in Devices, NEW k, Good(k), k.state # "ended",
           Cancel(c, u, d, k)
    PROVE  Moves(c, k)
  <1> DEFINE f == Finish(k, "cancelled")
  <1>0. k \in CallRows /\ k.starter \in Users /\ ~k.answered
    BY DEF Cancel, Good, Sound, CallRows
  <1>1. /\ f \in CallRows
        /\ f.state = "ended" /\ f.reason = "cancelled"
        /\ f.direct = k.direct /\ f.starter = k.starter /\ f.claim = k.claim
        /\ f.answered = k.answered /\ f.version = k.version
        /\ \A v \in Users : f.part[v] = IF k.part[v] = "joined" THEN "left" ELSE k.part[v]
    BY <1>0, FinishFacts DEF Reasons
  <1>2. call' = [call EXCEPT ![c] = Bump(f)] /\ UNCHANGED <<inviting, work>>
    BY DEF Cancel, Announce, Save, outbox
  <1> HIDE DEF f
  <1>3. Sound(f)
    BY <1>0, <1>1 DEF Good, Sound
  <1>4. /\ \A v \in Users : InCall(f, v) => InCall(k, v)
        /\ \A v \in Users : k.part[v] \in {"left", "rejected"} => f.part[v] = k.part[v]
    BY <1>1 DEF InCall
  <1>l. Legible(f)
    BY <1>1 DEF Good, Legible
  <1>r. RunsDown(k, f)
    BY <1>1 DEF Cancel, RunsDown, Book!Goes, Book!Runs
  <1>5. Evolves(k, Bump(f))
    BY <1>1, <1>3, <1>4, <1>l, <1>r, Versioned
  <1> QED BY <1>2, <1>5 DEF Moves

LEMMA LeaveMoves ==
    ASSUME NEW c \in Calls, NEW u \in Users, NEW d \in Devices, NEW end \in BOOLEAN,
           NEW k, Good(k), k.state # "ended", Leave(c, u, d, k, end)
    PROVE  Moves(c, k)
  <1> DEFINE j == Part(k, u, "left")
             over == end \/ k.direct \/ With(j, "joined") = {}
  <1>0. InCall(k, u)
    BY DEF Leave, InCall
  <1>1. Evolves(k, Bump(j)) /\ Evolves(k, Bump(Finish(j, "normal")))
    BY <1>0, Departs DEF Reasons
  <1>2. CASE over
    BY <1>1, <1>2 DEF Leave, Announce, Save, outbox, Moves
  <1>3. CASE ~over
    BY <1>1, <1>3 DEF Leave, Save, outbox, Moves
  <1> QED BY <1>2, <1>3

(* A request moves the stored call as one allowed step. *)
LEMMA RequestMoves ==
    ASSUME NEW c \in Calls, NEW u \in Users, Stored(c) => Good(call[c]), Mutate(c, u)
    PROVE  /\ Stored(c) /\ Good(call[c]) /\ Evolves(call[c], Expire(call[c]))
           /\ Moves(c, Expire(call[c]))
  <1> DEFINE k == Expire(call[c])
  <1>1. Stored(c) /\ Good(call[c])
    BY DEF Mutate, Live
  <1>2. Evolves(call[c], k) /\ Good(k)
    BY <1>1, ExpireEvolves DEF Evolves
  <1>3. ASSUME FoundEnded(c, k) PROVE Moves(c, k)
    BY <1>2, <1>3, EvolvesSame DEF FoundEnded, Save, outbox, Moves
  <1>4. ASSUME k.state # "ended", Reject(c, u, k) PROVE Moves(c, k)
    BY <1>2, <1>4, RejectMoves
  <1>5. ASSUME k.state # "ended", NEW d \in Devices,
               \/ Join(c, u, d, k) \/ Heartbeat(c, u, d, k) \/ Cancel(c, u, d, k)
               \/ \E end \in BOOLEAN : Leave(c, u, d, k, end)
        PROVE  Moves(c, k)
    BY <1>2, <1>5, JoinMoves, HeartbeatMoves, CancelMoves, LeaveMoves
  <1> HIDE DEF k
  <1>6. \/ FoundEnded(c, k)
        \/ /\ k.state # "ended"
           /\ \/ Reject(c, u, k)
              \/ \E d \in Devices :
                    \/ Join(c, u, d, k) \/ Heartbeat(c, u, d, k) \/ Cancel(c, u, d, k)
                    \/ \E end \in BOOLEAN : Leave(c, u, d, k, end)
    BY DEF Mutate, k
  <1>7. Moves(c, k)
    BY <1>3, <1>4, <1>5, <1>6
  <1> QED BY <1>1, <1>2, <1>7 DEF k

LEMMA MutateMoves ==
    ASSUME NEW c \in Calls, NEW u \in Users, Stored(c) => Good(call[c]), Mutate(c, u)
    PROVE  Stored(c) /\ Moves(c, call[c])
  <1>1. /\ Stored(c) /\ Good(call[c]) /\ Evolves(call[c], Expire(call[c]))
        /\ Moves(c, Expire(call[c]))
    BY RequestMoves
  <1> QED BY <1>1, EvolvesTwice DEF Moves

-----------------------------------------------------------------------------
(* The inductive invariant. *)

CallsGood ==
    /\ call = [c \in Calls |-> call[c]]
    /\ \A c \in Calls : Stored(c) => Good(call[c])

(* An invite in progress has a fresh call id and callees, a direct one one.  *)
InvitesGood ==
    /\ inviting \in [Calls -> Invites \cup {None}]
    /\ \A c \in Calls : inviting[c] # None =>
          /\ ~Stored(c)
          /\ inviting[c].targets # {} /\ inviting[c].actor \notin inviting[c].targets
          /\ inviting[c].direct => \A u, v \in inviting[c].targets : u = v

(* What a worker holds is an effect of a stored call. *)
WorkGood ==
    /\ work = [w \in Workers |-> work[w]]
    /\ \A w \in Workers : work[w] # None =>
          \E row, read, todo : /\ work[w] = [row |-> row, read |-> read, todo |-> todo]
                               /\ row.call \in Calls => Stored(row.call)

(* A locked user is in no call and locked by one invite only. *)
LocksHold ==
    /\ \A c \in Calls : inviting[c] # None => \A u \in inviting[c].locked : ~Busy(u)
    /\ \A c, o \in Calls, u \in Users :
          /\ inviting[c] # None /\ u \in inviting[c].locked
          /\ inviting[o] # None /\ u \in inviting[o].locked
          => c = o

Inv == CallsGood /\ InvitesGood /\ WorkGood /\ LocksHold /\ OneCallPerUser

(* What a step may do to the stored calls. *)
StepOK == \A c \in Calls : Stored(c) => Stored(c)' /\ Follows(call[c], call'[c])

LEMMA GoodIsStored == ASSUME NEW k, Good(k) PROVE k # None
  BY NoneAssumption DEF Good

LEMMA InvInit == Init => Inv
  <1> SUFFICES ASSUME Init PROVE Inv OBVIOUS
  <1>1. CallsGood /\ InvitesGood /\ WorkGood
    BY DEF Init, CallsGood, InvitesGood, WorkGood, Stored
  <1>2. LocksHold /\ OneCallPerUser
    BY DEF Init, LocksHold, OneCallPerUser, Live, Stored
  <1> QED BY <1>1, <1>2 DEF Inv

(* A call moves on: nobody comes in, so nobody locked becomes busy. *)
LEMMA OneMoves ==
    ASSUME Inv, NEW c \in Calls, Stored(c), NEW j, Evolves(call[c], j), call' = [call EXCEPT ![c] = j],
           inviting' = inviting,
           work' = [v \in Workers |-> work'[v]], \A v \in Workers : work'[v] # None => work'[v] = work[v]
    PROVE  Inv' /\ StepOK
  <1>1. Evolves(call[c], j) /\ call' = [call EXCEPT ![c] = j]
    OBVIOUS
  <1>u. inviting' = inviting
    OBVIOUS
  <1>2. /\ call' = [o \in Calls |-> call'[o]]
        /\ call'[c] = j /\ \A o \in Calls \ {c} : call'[o] = call[o]
    BY <1>1 DEF Inv, CallsGood
  <1>3. Good(j) /\ j # None /\ Good(call[c])
    BY <1>1, GoodIsStored DEF Evolves, Inv, CallsGood
  <1>4. \A o \in Calls : Stored(o)' <=> Stored(o)
    BY <1>2, <1>3 DEF Stored
  <1>5. \A o \in Calls, u \in Users :
            Live(o)' /\ InCall(call'[o], u) => Live(o) /\ InCall(call[o], u)
    <2>1. j.state # "ended" => call[c].state # "ended"
      BY <1>1, VisibleParts DEF Evolves, Follows
    <2>2. \A u \in Users : InCall(j, u) => InCall(call[c], u)
      BY <1>1 DEF Evolves, Follows
    <2> QED BY <1>2, <1>4, <2>1, <2>2 DEF Live, Stored
  <1>6. CallsGood'
    BY <1>2, <1>3 DEF Inv, CallsGood, Stored
  <1>7. InvitesGood'
    BY <1>4, <1>u DEF Inv, InvitesGood
  <1>8. WorkGood'
    BY <1>4 DEF Inv, WorkGood
  <1>9. LocksHold'
    <2>1. \A u \in Users : Busy(u)' => Busy(u)
      BY <1>5 DEF Busy
    <2>2. \A o \in Calls : inviting[o] # None => inviting[o].locked \subseteq Users
      BY DEF Inv, InvitesGood, Invites
    <2> QED BY <1>u, <2>1, <2>2 DEF Inv, LocksHold
  <1>10. OneCallPerUser'
    BY <1>5 DEF Inv, OneCallPerUser
  <1>11. StepOK
    <2> SUFFICES ASSUME NEW o \in Calls, Stored(o) PROVE Stored(o)' /\ Follows(call[o], call'[o])
      BY DEF StepOK
    <2>1. CASE o = c
      BY <2>1, <1>1, <1>2, <1>4 DEF Evolves
    <2>2. CASE o # c
      BY <2>2, <1>2, <1>4, EvolvesSame DEF Inv, CallsGood, Evolves
    <2> QED BY <2>1, <2>2
  <1> QED BY <1>6, <1>7, <1>8, <1>9, <1>10, <1>11 DEF Inv

LEMMA MoveKeeps ==
    ASSUME Inv, NEW c \in Calls, Stored(c), Moves(c, call[c])
    PROVE  Inv' /\ StepOK
  <1>1. work' = [v \in Workers |-> work'[v]] /\ work' = work
    BY DEF Inv, WorkGood, Moves
  <1> QED BY <1>1, OneMoves DEF Moves

(* A step that leaves the stored calls alone. *)
LEMMA QuietKeeps ==
    ASSUME Inv, call' = call, InvitesGood', WorkGood', LocksHold'
    PROVE  Inv' /\ StepOK
  <1>1. CallsGood' /\ OneCallPerUser'
    BY DEF Inv, CallsGood, OneCallPerUser, Live, Stored, Good, Sound
  <1>2. StepOK
    BY EvolvesSame DEF Inv, CallsGood, StepOK, Stored, Evolves
  <1> QED BY <1>1, <1>2 DEF Inv

(* An invite that ends without a call. *)
LEMMA InviteEnds ==
    ASSUME Inv, NEW c \in Calls, inviting' = [inviting EXCEPT ![c] = None], UNCHANGED <<call, work>>
    PROVE  Inv' /\ StepOK
  <1>1. /\ inviting' \in [Calls -> Invites \cup {None}]
        /\ \A o \in Calls : inviting'[o] # None => inviting'[o] = inviting[o]
    BY DEF Inv, InvitesGood
  <1>2. InvitesGood'
    BY <1>1 DEF Inv, InvitesGood, Stored
  <1>3. LocksHold'
    BY <1>1 DEF Inv, LocksHold, Busy, Live, Stored, InCall
  <1>4. WorkGood'
    BY DEF Inv, WorkGood, Stored
  <1> QED BY <1>2, <1>3, <1>4, QuietKeeps

LEMMA BeginInviteKeeps ==
    ASSUME Inv, NEW c \in Calls, NEW i \in Invitations, NEW d \in Devices, BeginInvite(c, i, d)
    PROVE  Inv' /\ StepOK
  <1> DEFINE n == [actor |-> i.actor, device |-> d, targets |-> i.targets \ {i.actor},
                   direct |-> i.direct, locked |-> {}]
  <1>i. i.actor \in Users /\ i.targets \in SUBSET Users /\ i.direct \in BOOLEAN
    BY CallAssumption
  <1>1. n \in Invites
    BY <1>i DEF Invites
  <1>2. n.actor \notin n.targets /\ n.locked = {} /\ n.targets = i.targets \ {i.actor} /\ n.direct = i.direct
    OBVIOUS
  <1>t. n.targets # {}
    BY <1>2 DEF BeginInvite
  <1>3. n.direct => \A u, v \in n.targets : u = v
    <2> SUFFICES ASSUME i.direct PROVE \A u, v \in i.targets \ {i.actor} : u = v
      OBVIOUS
    <2>1. Cardinality(Everyone(i)) = 2
      BY DEF BeginInvite
    <2>2. Everyone(i) \subseteq Users /\ IsFiniteSet(Everyone(i)) /\ i.actor \in Everyone(i)
      BY <1>i, CallAssumption, FS_Subset DEF Everyone
    <2>3. /\ IsFiniteSet(Everyone(i) \ {i.actor})
          /\ Cardinality(Everyone(i) \ {i.actor}) = Cardinality(Everyone(i)) - 1
      BY <2>2, FS_RemoveElement
    <2>4. Cardinality(Everyone(i) \ {i.actor}) = 1
      BY <2>1, <2>3
    <2>5. \E x : Everyone(i) \ {i.actor} = {x}
      BY <2>3, <2>4, FS_Singleton
    <2> QED BY <2>5 DEF Everyone
  <1>4. inviting' = [inviting EXCEPT ![c] = n] /\ ~Stored(c) /\ UNCHANGED <<call, work>>
    BY DEF BeginInvite, outbox
  <1> HIDE DEF n
  <1>5. /\ inviting' \in [Calls -> Invites \cup {None}]
        /\ inviting'[c] = n /\ \A o \in Calls \ {c} : inviting'[o] = inviting[o]
    BY <1>1, <1>4 DEF Inv, InvitesGood
  <1>6. InvitesGood'
    BY <1>2, <1>3, <1>4, <1>5, <1>t DEF Inv, InvitesGood, Stored
  <1>7. LocksHold'
    BY <1>2, <1>4, <1>5 DEF Inv, LocksHold, Busy, Live, Stored, InCall
  <1>8. WorkGood'
    BY <1>4 DEF Inv, WorkGood, Stored
  <1> QED BY <1>4, <1>6, <1>7, <1>8, QuietKeeps

LEMMA LockUserKeeps ==
    ASSUME Inv, NEW c \in Calls, LockUser(c)
    PROVE  Inv' /\ StepOK
  <1>1. PICK u \in Everyone(inviting[c]) \ inviting[c].locked :
           /\ LockFree(c, u)
           /\ inviting' = [inviting EXCEPT ![c] = IF Busy(u) THEN None
                                                ELSE Locked(inviting[c], u)]
    BY DEF LockUser
  <1>2. inviting[c] # None /\ UNCHANGED <<call, work>>
    BY DEF LockUser, outbox
  <1>3. CASE Busy(u)
    BY <1>1, <1>2, <1>3, InviteEnds
  <1>4. CASE ~Busy(u)
    <2> DEFINE i == inviting[c]
               n == Locked(i, u)
    <2>1. i \in Invites
      BY <1>2 DEF Inv, InvitesGood
    <2>2. u \in Users
      BY <2>1, <1>1 DEF Everyone, Invites
    <2>3. /\ n \in Invites /\ n.locked = i.locked \cup {u}
          /\ n.actor = i.actor /\ n.targets = i.targets /\ n.direct = i.direct
      BY <2>1, <2>2 DEF Invites, Locked
    <2>4. inviting' = [inviting EXCEPT ![c] = n]
      BY <1>1, <1>4
    <2> HIDE DEF n
    <2>5. /\ inviting' \in [Calls -> Invites \cup {None}]
          /\ inviting'[c] = n /\ \A o \in Calls \ {c} : inviting'[o] = inviting[o]
      BY <2>3, <2>4 DEF Inv, InvitesGood
    <2>6. InvitesGood'
      BY <1>2, <2>3, <2>5 DEF Inv, InvitesGood, Stored
    <2>7. \A v \in Users : Busy(v)' = Busy(v)
      BY <1>2 DEF Busy, Live, Stored, InCall
    <2>l. \A o \in Calls : inviting'[o] # None => inviting'[o].locked \subseteq Users
      BY <2>5 DEF Invites
    <2>8. \A o \in Calls : inviting'[o] # None => \A v \in inviting'[o].locked : ~Busy(v)'
      BY <1>2, <1>4, <2>3, <2>5, <2>7, <2>l DEF Inv, LocksHold
    <2>9. ASSUME NEW a \in Calls, NEW o \in Calls, NEW v \in Users,
                 inviting'[a] # None, v \in inviting'[a].locked,
                 inviting'[o] # None, v \in inviting'[o].locked
          PROVE  a = o
      <3>1. \A x \in Calls \ {c} : inviting[x] # None => u \notin inviting[x].locked
        BY <1>1 DEF LockFree
      <3> QED BY <1>2, <2>3, <2>5, <2>9, <3>1 DEF Inv, LocksHold
    <2>10. LocksHold'
      BY <2>8, <2>9 DEF LocksHold
    <2>11. WorkGood'
      BY <1>2 DEF Inv, WorkGood, Stored
    <2> QED BY <1>2, <2>6, <2>10, <2>11, QuietKeeps
  <1> QED BY <1>3, <1>4

LEMMA NewCallGood ==
    ASSUME NEW i \in Invites, i.actor \notin i.targets, i.direct => \A u, v \in i.targets : u = v
    PROVE  /\ Good(NewCall(i))
           /\ \A u \in Users : InCall(NewCall(i), u) => u \in Everyone(i)
  <1> DEFINE k == NewCall(i)
  <1>0. i.actor \in Users /\ i.targets \subseteq Users /\ i.direct \in BOOLEAN /\ i.device \in Devices
    BY DEF Invites
  <1>1. /\ k.state = "ringing" /\ k.answered = FALSE /\ k.starter = i.actor /\ k.direct = i.direct
        /\ k.reason = "none" /\ \A u \in Users : k.claim[u] = IF u = i.actor THEN i.device ELSE None
        /\ \A u \in Users : k.part[u] = IF u = i.actor THEN "joined" ELSE IF u \in i.targets THEN "invited" ELSE "none"
    BY DEF NewCall
  <1>2. k \in CallRows
    <2>1. [u \in Users |-> IF u = i.actor THEN "joined" ELSE IF u \in i.targets THEN "invited" ELSE "none"] \in [Users -> Parts]
      BY DEF Parts
    <2>2. [u \in Users |-> IF u = i.actor THEN i.device ELSE None] \in [Users -> Devices \cup {None}]
      BY <1>0
    <2>3. "none" \in Reasons /\ 1 \in Nat \ {0} /\ {i.actor} \in SUBSET Users
      BY <1>0 DEF Reasons
    <2> QED BY <1>0, <2>1, <2>2, <2>3 DEF NewCall, CallRows
  <1> HIDE DEF k
  <1>3. Sound(k)
    BY <1>0, <1>1 DEF Sound
  <1>4. \A u \in Users : InCall(k, u) => u \in Everyone(i)
    BY <1>1 DEF InCall, Everyone
  <1>5. Legible(k)
    BY <1>0, <1>1, CallAssumption DEF Legible
  <1> QED BY <1>2, <1>3, <1>4, <1>5 DEF Good, k

LEMMA CommitInviteKeeps ==
    ASSUME Inv, NEW c \in Calls, CommitInvite(c)
    PROVE  Inv' /\ StepOK
  <1> DEFINE i == inviting[c]
             k == NewCall(i)
  <1>1. i \in Invites /\ ~Stored(c) /\ i.locked = Everyone(i) /\ i # None
    BY DEF CommitInvite, Inv, InvitesGood
  <1>2. Good(k) /\ k # None /\ \A u \in Users : InCall(k, u) => u \in i.locked
    BY <1>1, NewCallGood, GoodIsStored DEF Inv, InvitesGood
  <1>3. /\ call' = [call EXCEPT ![c] = k] /\ inviting' = [inviting EXCEPT ![c] = None] /\ work' = work
    BY DEF CommitInvite, outbox
  <1> HIDE DEF k
  <1>4. /\ call' = [o \in Calls |-> call'[o]]
        /\ call'[c] = k /\ \A o \in Calls \ {c} : call'[o] = call[o]
    BY <1>3 DEF Inv, CallsGood
  <1>5. /\ inviting' \in [Calls -> Invites \cup {None}]
        /\ inviting'[c] = None /\ \A o \in Calls \ {c} : inviting'[o] = inviting[o]
    BY <1>3 DEF Inv, InvitesGood
  <1>6. CallsGood'
    BY <1>2, <1>4 DEF Inv, CallsGood, Stored
  <1>7. InvitesGood'
    BY <1>4, <1>5 DEF Inv, InvitesGood, Stored
  <1>8. WorkGood'
    BY <1>2, <1>3, <1>4 DEF Inv, WorkGood, Stored
  <1>9. \A o \in Calls \ {c} : (Live(o)' <=> Live(o)) /\ \A u \in Users : InCall(call'[o], u) <=> InCall(call[o], u)
    BY <1>4 DEF Live, Stored
  <1>10. \A u \in i.locked : ~Busy(u)
    BY <1>1 DEF Inv, LocksHold
  <1>11. LocksHold'
    <2>1. ASSUME NEW o \in Calls, inviting'[o] # None, NEW u \in inviting'[o].locked PROVE ~Busy(u)'
      <3>1. o # c /\ inviting[o] # None /\ u \in inviting[o].locked /\ u \in Users
        BY <1>5, <2>1 DEF Invites
      <3>2. ~Busy(u) /\ u \notin i.locked
        BY <3>1, <1>1 DEF Inv, LocksHold
      <3>3. ~InCall(k, u)
        BY <3>1, <3>2, <1>2
      <3> QED BY <3>1, <3>2, <3>3, <1>4, <1>9 DEF Busy
    <2>2. \A a, o \in Calls, u \in Users :
             /\ inviting'[a] # None /\ u \in inviting'[a].locked
             /\ inviting'[o] # None /\ u \in inviting'[o].locked
             => a = o
      BY <1>5 DEF Inv, LocksHold
    <2> QED BY <2>1, <2>2 DEF LocksHold
  <1>12. OneCallPerUser'
    <2> SUFFICES ASSUME NEW u \in Users, NEW a \in Calls, NEW o \in Calls,
                        Live(a)', Live(o)', InCall(call'[a], u), InCall(call'[o], u), a # o
                 PROVE  FALSE
      BY DEF OneCallPerUser
    <2>1. CASE a # c /\ o # c
      BY <2>1, <1>9 DEF Inv, OneCallPerUser
    <2>2. CASE a = c
      BY <2>2, <1>2, <1>4, <1>9, <1>10 DEF Busy
    <2>3. CASE o = c
      BY <2>3, <1>2, <1>4, <1>9, <1>10 DEF Busy
    <2> QED BY <2>1, <2>2, <2>3
  <1>13. StepOK
    BY <1>1, <1>4, EvolvesSame DEF Inv, CallsGood, StepOK, Stored, Evolves
  <1> QED BY <1>6, <1>7, <1>8, <1>11, <1>12, <1>13 DEF Inv

(* A step that leaves calls and invites alone. *)
LEMMA WorkKeeps ==
    ASSUME Inv, UNCHANGED <<call, inviting>>, WorkGood'
    PROVE  Inv' /\ StepOK
  <1>1. InvitesGood' /\ LocksHold'
    BY DEF Inv, InvitesGood, LocksHold, Busy, Live, Stored, InCall
  <1> QED BY <1>1, QuietKeeps

LEMMA SameWork == ASSUME Inv, UNCHANGED <<call, work>> PROVE WorkGood'
  BY DEF Inv, WorkGood, Stored

LEMMA FreedWork ==
    ASSUME Inv, NEW w \in Workers, Free(w), call' = call
    PROVE  WorkGood'
  <1>1. work' = [v \in Workers |-> work'[v]] /\ \A v \in Workers : work'[v] # None => work'[v] = work[v]
    BY DEF Inv, WorkGood, Free
  <1> QED BY <1>1 DEF Inv, WorkGood, Stored

(* A worker that moved a call on and let go of its effect. *)
LEMMA SendKeeps ==
    ASSUME Inv, NEW c \in Calls, NEW j, NEW w \in Workers,
           Stored(c), Evolves(call[c], j), call' = [call EXCEPT ![c] = j],
           inviting' = inviting, work' = [work EXCEPT ![w] = None]
    PROVE  Inv' /\ StepOK
  <1>1. work' = [v \in Workers |-> work'[v]] /\ \A v \in Workers : work'[v] # None => work'[v] = work[v]
    BY DEF Inv, WorkGood
  <1> QED BY <1>1, OneMoves

(* Time changes nothing but leases and the deadline. *)
LEMMA ClockMoves ==
    ASSUME Inv, NEW c \in Calls, RingDeadline(c) \/ \E u \in Users : LeaseEnds(c, u)
    PROVE  Stored(c) /\ Moves(c, call[c])
  <1> DEFINE k == call[c]
  <1>1. Stored(c) /\ Good(k) /\ k \in CallRows
    BY DEF RingDeadline, LeaseEnds, Live, Inv, CallsGood, Good
  <1>2. PICK j : /\ call' = [call EXCEPT ![c] = j]
                 /\ \/ j = [k EXCEPT !.late = TRUE]
                    \/ \E u \in Users : j = [k EXCEPT !.live = k.live \ {u}]
    BY DEF RingDeadline, LeaseEnds
  <1>3. /\ j \in CallRows
        /\ j.state = k.state /\ j.reason = k.reason /\ j.part = k.part /\ j.claim = k.claim
        /\ j.direct = k.direct /\ j.starter = k.starter
        /\ j.answered = k.answered /\ j.version = k.version /\ k.version \in Nat
    BY <1>1, <1>2 DEF CallRows
  <1> HIDE DEF k
  <1>4. Good(j) /\ Follows(k, j)
    BY <1>1, <1>3, VisibleParts DEF Good, Sound, Legible, Follows, InCall
  <1>5. RunsDown(k, j)
    BY <1>1, <1>3 DEF Good, Legible, RunsDown, Page, Book!Goes, Book!Runs
  <1> QED BY <1>1, <1>2, <1>4, <1>5 DEF Moves, Evolves, RingDeadline, LeaseEnds, outbox, k

LEMMA WorkerKeeps ==
    ASSUME Inv, NEW w \in Workers, Worker(w) \/ Drop(w)
    PROVE  Inv' /\ StepOK
  <1>1. CASE Take(w)
    <2>1. PICK r, rd, td : /\ Stored(r.call)
                           /\ work' = [work EXCEPT ![w] = [row |-> r, read |-> rd, todo |-> td]]
      BY <1>1 DEF Take
    <2>2. UNCHANGED <<call, inviting>> /\ Stored(r.call)'
      BY <1>1, <2>1 DEF Take, Stored
    <2>3. /\ work' = [v \in Workers |-> work'[v]]
          /\ work'[w] = [row |-> r, read |-> rd, todo |-> td]
          /\ \A v \in Workers \ {w} : work'[v] = work[v]
      BY <2>1 DEF Inv, WorkGood
    <2>4. WorkGood'
      BY <2>2, <2>3 DEF Inv, WorkGood, Stored
    <2> QED BY <2>2, <2>4, WorkKeeps
  <1>2. CASE SendState(w)
    <2> DEFINE c == work[w].row.call
    <2>1. PICK row, rd, td : /\ work[w] = [row |-> row, read |-> rd, todo |-> td]
                             /\ row.call \in Calls => Stored(row.call)
      BY <1>2 DEF SendState, Holds, Inv, WorkGood
    <2>2. c = row.call
      BY <2>1
    <2>3. /\ call' = [call EXCEPT ![c] = Checked(call[c])] /\ inviting' = inviting
          /\ work' = [work EXCEPT ![w] = None]
      BY <1>2 DEF SendState, Free
    <2> HIDE DEF c
    <2>4. CASE c \notin Calls
      <3>1. call' = call
        BY <2>3, <2>4 DEF Inv, CallsGood
      <3>2. WorkGood'
        BY <3>1, <2>3, FreedWork DEF Free
      <3> QED BY <3>1, <3>2, <2>3, WorkKeeps
    <2>5. CASE c \in Calls
      <3>1. Stored(c) /\ Good(call[c])
        BY <2>1, <2>2, <2>5 DEF Inv, CallsGood
      <3>2. Evolves(call[c], Checked(call[c]))
        BY <3>1, ExpireEvolves, EvolvesSame DEF Checked
      <3> QED BY <2>3, <2>5, <3>1, <3>2, SendKeeps
    <2> QED BY <2>4, <2>5
  <1>3. CASE PostSummary(w)
    <2>1. PICK row, rd, td : /\ work[w] = [row |-> row, read |-> rd, todo |-> td]
                             /\ row.call \in Calls => Stored(row.call)
      BY <1>3 DEF PostSummary, Holds, Inv, WorkGood
    <2>2. /\ work' = [work EXCEPT ![w] = [row |-> work[w].row, read |-> work[w].read, todo |-> FALSE]]
          /\ UNCHANGED <<call, inviting>>
      BY <1>3 DEF PostSummary
    <2>3. work[w].row = row
      BY <2>1
    <2>4. /\ work' = [v \in Workers |-> work'[v]]
          /\ work'[w] = [row |-> row, read |-> work[w].read, todo |-> FALSE]
          /\ \A v \in Workers \ {w} : work'[v] = work[v]
      BY <2>2, <2>3 DEF Inv, WorkGood
    <2>5. row.call \in Calls => Stored(row.call)'
      BY <2>1, <2>2 DEF Stored
    <2>6. \A v \in Workers \ {w} : work'[v] # None =>
             \E r, x, y : /\ work'[v] = [row |-> r, read |-> x, todo |-> y]
                          /\ r.call \in Calls => Stored(r.call)'
      <3>1. \A o \in Calls : Stored(o)' <=> Stored(o)
        BY <2>2 DEF Stored
      <3> QED BY <2>4, <3>1 DEF Inv, WorkGood
    <2>7. WorkGood'
      BY <2>4, <2>5, <2>6 DEF WorkGood
    <2> QED BY <2>2, <2>7, WorkKeeps
  <1>4. CASE NoteSummary(w) \/ CleanMedia(w) \/ Drop(w)
    <2>1. Free(w) /\ UNCHANGED <<call, inviting>>
      BY <1>4 DEF NoteSummary, CleanMedia, Drop
    <2> QED BY <2>1, FreedWork, WorkKeeps
  <1> QED BY <1>1, <1>2, <1>3, <1>4 DEF Worker

LEMMA InvNext == Inv /\ [Next]_vars => Inv' /\ StepOK
  <1> SUFFICES ASSUME Inv, [Next]_vars PROVE Inv' /\ StepOK OBVIOUS
  <1>1. ASSUME NEW c \in Calls, NEW i \in Invitations, NEW d \in Devices, BeginInvite(c, i, d)
        PROVE  Inv' /\ StepOK
    BY <1>1, BeginInviteKeeps
  <1>2. ASSUME NEW c \in Calls, LockUser(c) \/ CommitInvite(c) PROVE Inv' /\ StepOK
    BY <1>2, LockUserKeeps, CommitInviteKeeps
  <1>3. ASSUME NEW c \in Calls, AbortInvite(c) PROVE Inv' /\ StepOK
    BY <1>3, InviteEnds DEF AbortInvite, outbox
  <1>4. ASSUME NEW c \in Calls, NEW u \in Users, Mutate(c, u) PROVE Inv' /\ StepOK
    <2>1. Stored(c) => Good(call[c])
      BY DEF Inv, CallsGood
    <2> QED BY <1>4, <2>1, MutateMoves, MoveKeeps
  <1>5. ASSUME NEW c \in Calls, NEW u \in Users, LeaseEnds(c, u) PROVE Inv' /\ StepOK
    BY <1>5, ClockMoves, MoveKeeps
  <1>6. ASSUME NEW c \in Calls, RingDeadline(c) PROVE Inv' /\ StepOK
    BY <1>6, ClockMoves, MoveKeeps
  <1>7. ASSUME NEW c \in Calls, Sweep(c) PROVE Inv' /\ StepOK
    <2>1. Stored(c) /\ Good(call[c])
      BY <1>7 DEF Sweep, Live, Inv, CallsGood
    <2>2. Moves(c, call[c])
      BY <1>7, <2>1, ExpireEvolves DEF Sweep, Save, outbox, Moves
    <2> QED BY <2>1, <2>2, MoveKeeps
  <1>8. ASSUME NEW u \in Users, MemberLeaves(u) PROVE Inv' /\ StepOK
    <2>1. UNCHANGED <<call, inviting, work>>
      BY <1>8 DEF MemberLeaves, outbox
    <2> QED BY <2>1, SameWork, WorkKeeps
  <1>9. ASSUME NEW w \in Workers, Worker(w) \/ Drop(w) PROVE Inv' /\ StepOK
    BY <1>9, WorkerKeeps
  <1>10. CASE DelayEnds \/ UNCHANGED vars
    <2>1. UNCHANGED <<call, inviting, work>>
      BY <1>10 DEF DelayEnds, vars, outbox
    <2> QED BY <2>1, SameWork, WorkKeeps
  <1> QED BY <1>1, <1>2, <1>3, <1>4, <1>5, <1>6, <1>7, <1>8, <1>9, <1>10 DEF Next

-----------------------------------------------------------------------------

(* Busy arbitration: however invites and joins interleave, a user is in one  *)
(* call that has not ended (the per-user locks of invite).                   *)
THEOREM BusyArbitration == Spec => []OneCallPerUser
  <1>1. Inv => OneCallPerUser BY DEF Inv
  <1> QED BY <1>1, InvInit, InvNext, PTL DEF Spec

(* The end reason tells what happened: a call reported as rejected or        *)
(* cancelled was never answered, and nobody is still joined in an ended one. *)
EndIsTruthful ==
    \A c \in Calls : Stored(c) /\ call[c].state = "ended" =>
        /\ call[c].reason \in {"rejected", "cancelled"} => ~call[c].answered
        /\ With(call[c], "joined") = {}

(* End reasons are true of calls of any size (finish, reject, cancel,        *)
(* expire).                                                                  *)
THEOREM TruthfulEnds == Spec => []EndIsTruthful
  <1>1. Inv => EndIsTruthful
    BY DEF Inv, CallsGood, Good, Sound, EndIsTruthful, With
  <1> QED BY <1>1, InvInit, InvNext, PTL DEF Spec

(* A client that compares versions misses nothing: what a snapshot shows     *)
(* changes only together with a higher version, and an ended call stays as   *)
(* it is.                                                                    *)
VersionTellsChange ==
    [][\A c \in Calls : Stored(c) =>
          /\ Visible(call'[c]) # Visible(call[c]) => call'[c].version > call[c].version
          /\ call[c].state = "ended" => Visible(call'[c]) = Visible(call[c])]_vars

(* No visible change without a new version, none after the end.              *)
THEOREM VersionsTell == Spec => VersionTellsChange
  <1>1. Inv /\ [Next]_vars =>
          [\A c \in Calls : Stored(c) =>
              /\ Visible(call'[c]) # Visible(call[c]) => call'[c].version > call[c].version
              /\ call[c].state = "ended" => Visible(call'[c]) = Visible(call[c])]_vars
    BY InvNext DEF StepOK, Follows
  <1> QED BY <1>1, InvInit, InvNext, PTL DEF Spec, VersionTellsChange

(* The first device that joins keeps the call: a participant's device never  *)
(* changes, and who left or rejected never comes back.                       *)
ClaimIsPermanent ==
    [][\A c \in Calls, u \in Users : Stored(c) =>
          /\ call[c].claim[u] # None => call'[c].claim[u] = call[c].claim[u]
          /\ call[c].part[u] \in {"left", "rejected"} => call'[c].part[u] = call[c].part[u]]_vars

(* The device that joined first keeps the call, and nobody comes back.       *)
THEOREM ClaimsArePermanent == Spec => ClaimIsPermanent
  <1>1. Inv /\ [Next]_vars =>
          [\A c \in Calls, u \in Users : Stored(c) =>
              /\ call[c].claim[u] # None => call'[c].claim[u] = call[c].claim[u]
              /\ call[c].part[u] \in {"left", "rejected"} => call'[c].part[u] = call[c].part[u]]_vars
    BY InvNext DEF StepOK, Follows
  <1> QED BY <1>1, InvInit, InvNext, PTL DEF Spec, ClaimIsPermanent

-----------------------------------------------------------------------------
(* Call control implements the book. *)

Pages == [c \in Calls |-> IF Stored(c) THEN Page(call[c]) ELSE None]

(* A step stores one new call, moves one stored call, or leaves all alone.   *)
OneCallMoves ==
    \E c \in Calls : Stored(c) /\ \E j : Evolves(call[c], j) /\ call' = [call EXCEPT ![c] = j]

LEMMA MovesOne == ASSUME NEW c \in Calls, Stored(c), Moves(c, call[c]) PROVE OneCallMoves
  BY DEF Moves, OneCallMoves

LEMMA WorkerMoves ==
    ASSUME Inv, NEW w \in Workers, Worker(w) \/ Drop(w)
    PROVE  call' = call \/ OneCallMoves
  <1>1. CASE SendState(w)
    <2> DEFINE c == work[w].row.call
    <2>1. PICK row, rd, td : /\ work[w] = [row |-> row, read |-> rd, todo |-> td]
                             /\ row.call \in Calls => Stored(row.call)
      BY <1>1 DEF SendState, Holds, Inv, WorkGood
    <2>2. c = row.call
      BY <2>1
    <2>3. call' = [call EXCEPT ![c] = Checked(call[c])]
      BY <1>1 DEF SendState
    <2> HIDE DEF c
    <2>4. CASE c \notin Calls
      BY <2>3, <2>4 DEF Inv, CallsGood
    <2>5. CASE c \in Calls
      <3>1. Stored(c) /\ Good(call[c])
        BY <2>1, <2>2, <2>5 DEF Inv, CallsGood
      <3>2. Evolves(call[c], Checked(call[c]))
        BY <3>1, ExpireEvolves, EvolvesSame DEF Checked
      <3> QED BY <2>3, <2>5, <3>1, <3>2 DEF OneCallMoves
    <2> QED BY <2>4, <2>5
  <1>2. CASE ~SendState(w)
    BY <1>2 DEF Worker, Take, PostSummary, NoteSummary, CleanMedia, Drop
  <1> QED BY <1>1, <1>2

LEMMA StepMoves ==
    ASSUME Inv, [Next]_vars
    PROVE  call' = call \/ OneCallMoves \/ \E c \in Calls : CommitInvite(c)
  <1>1. ASSUME NEW c \in Calls, \/ \E i \in Invitations, d \in Devices : BeginInvite(c, i, d)
                                \/ LockUser(c) \/ AbortInvite(c)
        PROVE  call' = call
    BY <1>1 DEF BeginInvite, LockUser, AbortInvite
  <1>2. ASSUME NEW c \in Calls, NEW u \in Users, Mutate(c, u) PROVE OneCallMoves
    <2>1. Stored(c) => Good(call[c])
      BY DEF Inv, CallsGood
    <2> QED BY <1>2, <2>1, MutateMoves, MovesOne
  <1>3. ASSUME NEW c \in Calls, RingDeadline(c) \/ \E u \in Users : LeaseEnds(c, u) PROVE OneCallMoves
    BY <1>3, ClockMoves, MovesOne
  <1>4. ASSUME NEW c \in Calls, Sweep(c) PROVE OneCallMoves
    <2>1. Stored(c) /\ Good(call[c])
      BY <1>4 DEF Sweep, Live, Inv, CallsGood
    <2> QED BY <1>4, <2>1, ExpireEvolves DEF Sweep, Save, OneCallMoves
  <1>5. ASSUME NEW w \in Workers, Worker(w) \/ Drop(w) PROVE call' = call \/ OneCallMoves
    BY <1>5, WorkerMoves
  <1>6. CASE (\E u \in Users : MemberLeaves(u)) \/ DelayEnds \/ UNCHANGED vars
    BY <1>6 DEF MemberLeaves, DelayEnds, vars
  <1> QED BY <1>1, <1>2, <1>3, <1>4, <1>5, <1>6 DEF Next

(* The page of a good call is a consistent one. *)
LEMMA GoodPage ==
    ASSUME NEW k, Good(k)
    PROVE  Page(k) \in Book!Pages /\ Page(k) # None /\ Book!Consistent(Page(k))
  <1>1. Page(k) \in Book!Pages
    BY DEF Good, CallRows, Page, Book!Pages, Parts, Book!Parts, Book!InCall, Reasons
  <1>2. Book!Consistent(Page(k))
    BY DEF Good, Sound, Legible, Page, Book!Consistent
  <1> QED BY <1>1, <1>2, PageAssumption

LEMMA EvolvedPage ==
    ASSUME NEW k, NEW j, Good(k), Evolves(k, j), k.state # "ended"
    PROVE  Book!Succeeds(Page(k), Page(j))
  <1>1. k.version \in Nat /\ j.version \in Nat
    BY DEF Evolves, Good, CallRows
  <1>2. Book!Shown(Page(j)) # Book!Shown(Page(k)) => k.version < j.version
    <2>1. Visible(j) = Visible(k) => Book!Shown(Page(j)) = Book!Shown(Page(k))
      BY VisibleParts DEF Book!Shown, Page
    <2> QED BY <1>1, <2>1 DEF Evolves, Follows
  <1>3. k.version <= j.version
    BY <1>1 DEF Evolves, Follows
  <1>4. /\ j.starter = k.starter
        /\ \A u \in Users : Book!Goes(k.part[u], j.part[u])
        /\ \A u \in Users : j.claim[u] # k.claim[u] => k.claim[u] = None /\ k.part[u] = "invited"
        /\ Book!Runs(k.state, j.state)
        /\ j.reason \in {"rejected", "cancelled"} => k.state = "ringing"
    BY DEF Evolves, RunsDown
  <1> QED BY <1>2, <1>3, <1>4 DEF Book!Succeeds, Page

(* A call that moves proceeds in the book, or its page stays. *)
LEMMA MoveIsBooked == ASSUME Inv, OneCallMoves PROVE [Book!Next]_Pages
  <1>0. PICK c \in Calls : Stored(c) /\ \E j : Evolves(call[c], j) /\ call' = [call EXCEPT ![c] = j]
    BY DEF OneCallMoves
  <1>1. PICK j : Stored(c) /\ Evolves(call[c], j) /\ call' = [call EXCEPT ![c] = j]
    BY <1>0
  <1>2. call'[c] = j /\ \A o \in Calls \ {c} : call'[o] = call[o]
    BY <1>1 DEF Inv, CallsGood
  <1>3. Good(call[c]) /\ Good(j) /\ j # None
    BY <1>1, GoodIsStored DEF Inv, CallsGood, Evolves
  <1>4. /\ Pages[c] = Page(call[c]) /\ Pages'[c] = Page(j)
        /\ \A o \in Calls \ {c} : Pages'[o] = Pages[o]
    BY <1>1, <1>2, <1>3 DEF Pages, Stored
  <1>5. CASE Page(j) = Page(call[c])
    <2>1. Pages' = Pages
      BY <1>4, <1>5 DEF Pages
    <2> QED BY <2>1
  <1>6. CASE Page(j) # Page(call[c])
    <2>1. call[c].state # "ended"
      BY <1>1, <1>6 DEF Evolves, RunsDown
    <2>2. Pages' = [Pages EXCEPT ![c] = Pages'[c]]
      BY <1>4 DEF Pages
    <2>3. Page(call[c]) # None /\ Page(j) \in Book!Pages /\ Book!Consistent(Page(j))
      BY <1>3, GoodPage
    <2>4. Page(call[c]).state # "ended"
      BY <2>1 DEF Page
    <2>5. Book!Succeeds(Page(call[c]), Page(j))
      BY <1>1, <1>3, <2>1, EvolvedPage
    <2>6. Book!Proceed(c)
      BY <1>4, <2>2, <2>3, <2>4, <2>5 DEF Book!Proceed, Book!Open, Pages
    <2> QED BY <1>4, <1>6, <2>6 DEF Book!Next, Pages
  <1> QED BY <1>5, <1>6

(* An invite that commits holds the locks of users in no call: the book      *)
(* takes them all at once.                                                   *)
LEMMA InviteIsBooked == ASSUME Inv, NEW c \in Calls, CommitInvite(c) PROVE Book!Next
  <1> DEFINE i == inviting[c]
             k == NewCall(i)
  <1>1. i \in Invites /\ ~Stored(c) /\ i.locked = Everyone(i) /\ i # None
        /\ i.targets # {} /\ i.actor \notin i.targets
    BY DEF CommitInvite, Inv, InvitesGood
  <1>2. i.actor \in Users /\ i.device \in Devices /\ i.targets \in SUBSET Users
    BY <1>1 DEF Invites
  <1>3. call' = [call EXCEPT ![c] = k]
    BY DEF CommitInvite
  <1>4. Good(k) /\ k # None
    BY <1>1, NewCallGood, GoodIsStored DEF Inv, InvitesGood
  <1>5. call'[c] = k /\ \A o \in Calls \ {c} : call'[o] = call[o]
    BY <1>3 DEF Inv, CallsGood
  <1>6. Page(k) = Book!Ringing(i.actor, i.device, i.targets)
    BY DEF NewCall, Page, Book!Ringing
  <1>7. Pages[c] = None /\ Pages'[c] = Page(k) /\ \A o \in Calls \ {c} : Pages'[o] = Pages[o]
    BY <1>1, <1>4, <1>5 DEF Pages, Stored
  <1>8. Pages' = [Pages EXCEPT ![c] = Book!Ringing(i.actor, i.device, i.targets)]
    BY <1>6, <1>7 DEF Pages
  <1>9. \A u \in i.targets \cup {i.actor} : ~Book!Engaged(u)
    <2> SUFFICES ASSUME NEW u \in i.targets \cup {i.actor}, NEW o \in Calls,
                        Pages[o] # None, Pages[o].state # "ended", Pages[o].part[u] \in Book!InCall
                 PROVE  FALSE
      BY DEF Book!Engaged, Book!Open, Pages
    <2>1. ~Busy(u)
      BY <1>1 DEF Inv, LocksHold, Everyone
    <2>2. Stored(o) /\ Pages[o] = Page(call[o])
      BY DEF Pages
    <2>3. call[o].state # "ended" /\ call[o].part[u] \in {"invited", "joined"}
      BY <2>2 DEF Page, Book!InCall
    <2> QED BY <2>1, <2>2, <2>3 DEF Busy, Live, InCall
  <1>10. Book!Invite(c, i.actor, i.device, i.targets)
    BY <1>1, <1>7, <1>8, <1>9 DEF Book!Invite, Pages
  <1>11. Pages'[c] # Pages[c]
    BY <1>4, <1>7, GoodPage
  <1> QED BY <1>2, <1>10, <1>11 DEF Book!Next, Pages

LEMMA StepIsBooked == ASSUME Inv, [Next]_vars PROVE [Book!Next]_Pages
  <1>1. CASE call' = call
    BY <1>1 DEF Pages, Stored
  <1>2. CASE OneCallMoves
    BY <1>2, MoveIsBooked
  <1>3. CASE \E c \in Calls : CommitInvite(c)
    BY <1>3, InviteIsBooked
  <1> QED BY <1>1, <1>2, <1>3, StepMoves

(* Call control implements the book (call_service.rs): an invite, which      *)
(* locks and checks its users one by one in its own transaction, takes them  *)
(* all at once or not at all, and whatever requests, expiry, time and the    *)
(* effect worker do afterwards lets one open call run down.                  *)
THEOREM CallsImplementBook == Spec => ImplementsBook
  <1>1. Init => Book!Init
    BY DEF Init, Book!Init, Stored
  <1>2. Inv /\ [Next]_vars => [Book!Next]_Pages
    BY StepIsBooked
  <1>3. Inv /\ [Next]_vars => Inv'
    BY InvNext
  <1> QED BY <1>1, <1>2, <1>3, InvInit, PTL DEF Spec, ImplementsBook, Book!Spec, Pages

-----------------------------------------------------------------------------
(* Invites do not wait for each other in a circle. *)

(* An invite has locked the first of its users, in their order. *)
LocksInOrder ==
    \A c \in Calls : inviting[c] # None =>
        /\ inviting[c].locked \subseteq Everyone(inviting[c])
        /\ \A v \in inviting[c].locked, u \in Everyone(inviting[c]) \ inviting[c].locked : v < u

LEMMA LocksInOrderInit == Init => LocksInOrder
  BY DEF Init, LocksInOrder

LEMMA LockUserInOrder ==
    ASSUME Inv, LocksInOrder, NEW c \in Calls, LockUser(c)
    PROVE  LocksInOrder'
  <1> DEFINE i == inviting[c]
  <1>1. PICK u \in Everyone(i) \ i.locked :
           /\ \A v \in Everyone(i) \ i.locked : u <= v
           /\ inviting' = [inviting EXCEPT ![c] = IF Busy(u) THEN None ELSE Locked(i, u)]
    BY DEF LockUser
  <1>2. i \in Invites /\ i # None
    BY DEF LockUser, Inv, InvitesGood
  <1>3. Everyone(i) \subseteq Nat
    BY <1>2, CallAssumption DEF Invites, Everyone
  <1>4. /\ Locked(i, u).locked = i.locked \cup {u}
        /\ Everyone(Locked(i, u)) = Everyone(i)
    BY <1>2 DEF Locked, Invites, Everyone
  <1>5. /\ inviting'[c] = IF Busy(u) THEN None ELSE Locked(i, u)
        /\ \A o \in Calls \ {c} : inviting'[o] = inviting[o]
    BY <1>1 DEF Inv, InvitesGood
  <1>6. ASSUME ~Busy(u)
        PROVE  /\ inviting'[c].locked \subseteq Everyone(inviting'[c])
               /\ \A v \in inviting'[c].locked, w \in Everyone(inviting'[c]) \ inviting'[c].locked : v < w
    <2>1. inviting'[c].locked = i.locked \cup {u} /\ Everyone(inviting'[c]) = Everyone(i)
      BY <1>4, <1>5, <1>6
    <2>2. \A w \in Everyone(i) \ (i.locked \cup {u}) : u < w
      BY <1>1, <1>3
    <2>3. i.locked \subseteq Everyone(i) /\ \A v \in i.locked, w \in Everyone(i) \ i.locked : v < w
      BY <1>2 DEF LocksInOrder
    <2> QED BY <2>1, <2>2, <2>3
  <1>7. ASSUME NEW o \in Calls, inviting'[o] # None
        PROVE  /\ inviting'[o].locked \subseteq Everyone(inviting'[o])
               /\ \A v \in inviting'[o].locked, w \in Everyone(inviting'[o]) \ inviting'[o].locked : v < w
    <2>1. CASE o = c
      BY <2>1, <1>5, <1>6, <1>7
    <2>2. CASE o # c
      BY <2>2, <1>5, <1>7 DEF LocksInOrder
    <2> QED BY <2>1, <2>2
  <1> QED BY <1>7 DEF LocksInOrder, Everyone

(* The other steps begin an invite without a lock, end one, or leave them. *)
LEMMA LocksInOrderNext == ASSUME Inv, LocksInOrder, [Next]_vars PROVE LocksInOrder'
  <1>e. ASSUME \A c \in Calls : inviting'[c] # None => inviting'[c] = inviting[c]
        PROVE  LocksInOrder'
    BY <1>e DEF LocksInOrder, Everyone
  <1>1. ASSUME NEW c \in Calls, NEW i \in Invitations, NEW d \in Devices, BeginInvite(c, i, d)
        PROVE  LocksInOrder'
    <2>1. PICK n : n.locked = {} /\ inviting' = [inviting EXCEPT ![c] = n]
      BY <1>1 DEF BeginInvite
    <2>2. inviting'[c] = n /\ \A o \in Calls \ {c} : inviting'[o] = inviting[o]
      BY <2>1 DEF Inv, InvitesGood
    <2> QED BY <2>1, <2>2 DEF LocksInOrder, Everyone
  <1>2. ASSUME NEW c \in Calls, LockUser(c) PROVE LocksInOrder'
    BY <1>2, LockUserInOrder
  <1>3. ASSUME NEW c \in Calls, CommitInvite(c) \/ AbortInvite(c) PROVE LocksInOrder'
    <2>1. inviting' = [inviting EXCEPT ![c] = None]
      BY <1>3 DEF CommitInvite, AbortInvite
    <2> QED BY <2>1, <1>e DEF Inv, InvitesGood
  <1>4. ASSUME NEW c \in Calls, NEW u \in Users, Mutate(c, u) PROVE LocksInOrder'
    <2>1. Stored(c) => Good(call[c])
      BY DEF Inv, CallsGood
    <2> QED BY <1>4, <1>e, <2>1, MutateMoves DEF Moves
  <1>5. ASSUME NEW c \in Calls, \/ RingDeadline(c) \/ Sweep(c)
                                \/ \E u \in Users : LeaseEnds(c, u)
        PROVE  LocksInOrder'
    BY <1>5, <1>e DEF RingDeadline, Sweep, Save, LeaseEnds
  <1>6. ASSUME NEW w \in Workers, Worker(w) \/ Drop(w) PROVE LocksInOrder'
    BY <1>6, <1>e DEF Worker, Take, SendState, PostSummary, NoteSummary, CleanMedia, Drop
  <1>7. CASE (\E u \in Users : MemberLeaves(u)) \/ DelayEnds \/ UNCHANGED vars
    BY <1>7, <1>e DEF MemberLeaves, DelayEnds, vars
  <1> QED BY <1>1, <1>2, <1>3, <1>4, <1>5, <1>6, <1>7 DEF Next

Less == {ss \in Nat \X Nat : ss[1] < ss[2]}

LEMMA LessWF == IsWellFoundedOn(Less, Nat)
  BY NatLessThanWellFounded DEF OpToRel, Less

LEMMA LeastNat ==
    ASSUME NEW T \in SUBSET Nat, T # {}
    PROVE  \E x \in T : \A y \in T : x <= y
  <1>1. PICK x \in T : \A y \in T : ~ (<<y, x>> \in Less)
    BY LessWF, WFMin
  <1>2. ASSUME NEW y \in T PROVE x <= y
    <2>1. <<y, x>> \in Nat \X Nat /\ <<y, x>>[1] = y /\ <<y, x>>[2] = x
      OBVIOUS
    <2>2. ~(y < x)
      BY <1>1, <2>1 DEF Less
    <2> QED BY <2>2
  <1> QED BY <1>2

Above(u) == {v \in Users : u < v}

LEMMA FewerAbove ==
    ASSUME NEW u \in Users, NEW v \in Users, u < v
    PROVE  Cardinality(Above(u)) \in Nat /\ Cardinality(Above(v)) < Cardinality(Above(u))
  <1>1. IsFiniteSet(Above(u)) /\ IsFiniteSet(Above(v))
    BY CallAssumption, FS_Subset DEF Above
  <1>2. Above(v) \in SUBSET Above(u)
    <2>1. u \in Nat /\ v \in Nat /\ \A w \in Users : w \in Nat
      BY CallAssumption
    <2>2. \A w \in Users : v < w => u < w
      BY <2>1
    <2> QED BY <2>2 DEF Above
  <1>3. v \in Above(u) /\ v \notin Above(v)
    BY CallAssumption DEF Above
  <1>4. Cardinality(Above(u)) \in Nat /\ Cardinality(Above(v)) \in Nat
    BY <1>1, FS_CardinalityType
  <1>5. Cardinality(Above(v)) <= Cardinality(Above(u))
    BY <1>1, <1>2, FS_Subset
  <1>6. Cardinality(Above(v)) # Cardinality(Above(u))
    BY <1>1, <1>2, <1>3, FS_Subset
  <1> QED BY <1>4, <1>5, <1>6

(* Some set of users has a last one. *)
LEMMA LastUser ==
    ASSUME NEW W \in SUBSET Users, W # {}
    PROVE  \E u \in W : \A v \in W : ~(u < v)
  <1> DEFINE T == {Cardinality(Above(u)) : u \in W}
  <1>1. T \in SUBSET Nat /\ T # {}
    <2>1. \A u \in Users : Above(u) \in SUBSET Users
      BY DEF Above
    <2>2. \A u \in Users : IsFiniteSet(Above(u))
      BY <2>1, CallAssumption, FS_Subset
    <2>3. \A u \in Users : Cardinality(Above(u)) \in Nat
      BY <2>2, FS_CardinalityType
    <2> QED BY <2>3
  <1>2. PICK n \in T : \A m \in T : n <= m
    BY <1>1, LeastNat
  <1>3. PICK u \in W : n = Cardinality(Above(u))
    BY <1>2
  <1>4. ASSUME NEW v \in W, u < v PROVE FALSE
    <2>1. Cardinality(Above(v)) < n /\ n \in Nat
      BY <1>3, <1>4, FewerAbove
    <2>2. n <= Cardinality(Above(v)) /\ Cardinality(Above(v)) \in Nat
      BY <1>1, <1>2
    <2> QED BY <2>1, <2>2
  <1> QED BY <1>4

(* An invite that does not go on waits for a user, and the invite that holds *)
(* that user, if it does not go on either, waits for a later one.            *)
LEMMA StuckWaits ==
    ASSUME Inv, LocksInOrder, NEW c \in Calls, inviting[c] # None, ~GoesOn(c)
    PROVE  \E u \in Users : /\ NextUser(inviting[c], u)
                            /\ \E o \in Calls : inviting[o] # None /\ u \in inviting[o].locked
  <1> DEFINE i == inviting[c]
             R == Everyone(i) \ i.locked
  <1>1. i \in Invites /\ i.locked \subseteq Everyone(i) /\ i.locked # Everyone(i)
    BY DEF Inv, InvitesGood, LocksInOrder, GoesOn
  <1>2. R \subseteq Users /\ R \in SUBSET Nat /\ R # {}
    BY <1>1, CallAssumption DEF Invites, Everyone
  <1>3. PICK u \in R : \A v \in R : u <= v
    BY <1>2, LeastNat
  <1>4. u \in Users /\ NextUser(i, u)
    BY <1>2, <1>3 DEF NextUser
  <1>5. ~LockFree(c, u)
    BY <1>4 DEF GoesOn
  <1> QED BY <1>4, <1>5 DEF LockFree

(* The last user waited for is held by an invite that waits for a later one. *)
LEMMA NoCircle == Inv /\ LocksInOrder => InvitesGoOn
  <1> SUFFICES ASSUME Inv, LocksInOrder, NEW a \in Calls, inviting[a] # None,
                      \A c \in Calls : ~GoesOn(c)
               PROVE  FALSE
    BY DEF InvitesGoOn
  <1> DEFINE W == {u \in Users : \E c \in Calls : inviting[c] # None /\ NextUser(inviting[c], u)}
  <1>1. W \in SUBSET Users /\ W # {}
    BY StuckWaits
  <1>2. PICK u \in W : \A v \in W : ~(u < v)
    BY <1>1, LastUser
  <1>3. PICK c \in Calls : inviting[c] # None /\ NextUser(inviting[c], u)
    BY <1>2
  <1>4. PICK o \in Calls : inviting[o] # None /\ u \in inviting[o].locked
    <2>1. PICK v \in Users : /\ NextUser(inviting[c], v)
                             /\ \E o \in Calls : inviting[o] # None /\ v \in inviting[o].locked
      BY <1>3, StuckWaits
    <2>2. u = v
      <3>1. u \in Nat /\ v \in Nat
        BY CallAssumption
      <3>2. u <= v /\ v <= u
        BY <1>3, <2>1 DEF NextUser
      <3> QED BY <3>1, <3>2
    <2> QED BY <2>1, <2>2
  <1>5. PICK v \in Users : NextUser(inviting[o], v)
    BY <1>4, StuckWaits
  <1>6. v \in W
    BY <1>4, <1>5
  <1>7. u < v
    BY <1>4, <1>5 DEF LocksInOrder, NextUser
  <1> QED BY <1>2, <1>6, <1>7

(* The per-user locks of any number of invites, over any users, never        *)
(* deadlock: because each invite takes them in the users' order, one of      *)
(* those in progress can always take its next lock, or commit.               *)
THEOREM InvitesNeverDeadlock == Spec => []InvitesGoOn
  <1>1. Inv /\ LocksInOrder /\ [Next]_vars => Inv' /\ LocksInOrder'
    BY InvNext, LocksInOrderNext
  <1> QED BY <1>1, InvInit, LocksInOrderInit, NoCircle, PTL DEF Spec

-----------------------------------------------------------------------------
(* The outbox of effects: history rows are of calls that have ended. *)

Over(c) == Stored(c) /\ call[c].state = "ended"

Historic(row) == row.call \in Calls /\ (row.kind = "history" => Over(row.call))

EffectsTrue == \E S : effects \in Seq(S) /\ \A row \in S : Historic(row)
WorkTrue == \A w \in Workers : work[w] # None => Historic(work[w].row)
SummariesTrue ==
    /\ summaries \in [Calls -> 0 .. 1]
    /\ \A c \in Calls : summaries[c] = 1 => Over(c)

SummaryInv == Inv /\ EffectsTrue /\ WorkTrue /\ SummariesTrue

(* An ended call stays ended. *)
LEMMA OverStays == ASSUME StepOK PROVE \A c \in Calls : Over(c) => Over(c)'
  BY VisibleParts DEF StepOK, Follows, Over

LEMMA HistoricStays == ASSUME StepOK, NEW row, Historic(row) PROVE Historic(row)'
  BY OverStays DEF Historic

LEMMA ConcatSeqs ==
    ASSUME NEW S, NEW T, NEW s \in Seq(S), NEW t \in Seq(T)
    PROVE  s \o t \in Seq(S \cup T)
  <1>1. s \in Seq(S \cup T) /\ t \in Seq(S \cup T)
    OBVIOUS
  <1> QED BY <1>1

(* The rows save records: the end of a call is recorded only of an ended     *)
(* call.                                                                     *)
SavedRows(c, k) ==
    {Row(c, k.version, kind) : kind \in {"state", "delete_room"}
                               \cup (IF k.state = "ended" THEN {"history"} ELSE {})}

LEMMA SavedIn == ASSUME NEW c, NEW k PROVE Saved(c, k) \in Seq(SavedRows(c, k))
  <1> DEFINE S == SavedRows(c, k)
             r == Row(c, k.version, "state")
             h == Row(c, k.version, "history")
             d == Row(c, k.version, "delete_room")
  <1>1. r \in S /\ d \in S /\ (k.state = "ended" => h \in S)
    BY DEF SavedRows
  <1> HIDE DEF S, r, h, d
  <1>2. <<r>> \in Seq(S) /\ <<d>> \in Seq(S) /\ <<>> \in Seq(S) /\ (k.state = "ended" => <<h>> \in Seq(S))
    BY <1>1
  <1>3. (IF k.state = "ended" THEN <<h>> ELSE <<>>) \in Seq(S)
    BY <1>2
  <1>4. (IF k.state = "ended" /\ ~k.direct THEN <<d>> ELSE <<>>) \in Seq(S)
    BY <1>2
  <1>5. <<r>> \o (IF k.state = "ended" THEN <<h>> ELSE <<>>)
             \o (IF k.state = "ended" /\ ~k.direct THEN <<d>> ELSE <<>>) \in Seq(S)
    BY <1>2, <1>3, <1>4
  <1> QED BY <1>5 DEF Saved, S, r, h, d

LEMMA SavedHistoric ==
    ASSUME NEW c \in Calls, NEW k, k.state = "ended" => Over(c)'
    PROVE  \A row \in SavedRows(c, k) : Historic(row)'
  BY DEF SavedRows, Row, Historic

LEMMA LeaversSeq ==
    ASSUME NEW k \in CallRows
    PROVE  \E n \in Nat : DOMAIN Leavers(k) = 1 .. n
  <1> DEFINE gone == {u \in With(k, "left") : k.claim[u] # None}
  <1>1. gone \subseteq Users
    BY DEF With
  <1>2. Cardinality(gone) \in Nat
    BY <1>1, CallAssumption, FS_Subset, FS_CardinalityType
  <1>3. DOMAIN Leavers(k) = 1 .. Cardinality(gone)
    BY DEF Leavers
  <1> QED BY <1>2, <1>3

(* What expire records: removals, which are no history, and what save adds.  *)
LEMMA ExpiredIn ==
    ASSUME NEW c \in Calls, NEW k, Good(k)
    PROVE  \E S : /\ Expired(c, k) \in Seq(S)
                  /\ \A row \in S : \/ row \in SavedRows(c, Expire(k))
                                    \/ /\ row.kind # "history" /\ row.call = c
                                       /\ row.version = Expire(k).version
  <1> DEFINE j == Expire(k)
             g == [i \in DOMAIN Leavers(j) |-> Removal(c, j.version, Leavers(j)[i])]
             G == {g[i] : i \in DOMAIN g}
  <1>1. j \in CallRows
    BY ExpireEvolves DEF Evolves, Good
  <1>2. PICK n \in Nat : DOMAIN Leavers(j) = 1 .. n
    BY <1>1, LeaversSeq
  <1>3. g \in Seq(G)
    <2>1. DOMAIN g = 1 .. n
      BY <1>2
    <2> HIDE DEF j
    <2>2. g = [i \in 1 .. n |-> g[i]] /\ \A i \in 1 .. n : g[i] \in G
      BY <2>1
    <2> HIDE DEF g, G
    <2> QED BY <2>2
  <1>4. \A row \in G : row.kind # "history" /\ row.call = c /\ row.version = j.version
    BY DEF Removal
  <1>5. Expired(c, k) = IF j = k THEN <<>> ELSE (IF k.direct THEN <<>> ELSE g) \o Saved(c, j)
    BY DEF Expired
  <1> HIDE DEF g, G, j
  <1>6. Saved(c, j) \in Seq(SavedRows(c, j))
    BY SavedIn
  <1>7. (IF k.direct THEN <<>> ELSE g) \in Seq(G)
    BY <1>3
  <1>8. (IF k.direct THEN <<>> ELSE g) \o Saved(c, j) \in Seq(G \cup SavedRows(c, j))
    BY <1>6, <1>7, ConcatSeqs
  <1>9. Expired(c, k) \in Seq(G \cup SavedRows(c, j))
    BY <1>5, <1>8
  <1> QED BY <1>4, <1>9 DEF j

(* A transaction on a call appends what expire and its route recorded.       *)
LEMMA SaveKeepsEffects ==
    ASSUME SummaryInv, StepOK, NEW c \in Calls, Stored(c), NEW more, NEW M,
           Expire(call[c]).state = "ended" => Over(c)',
           effects' = effects \o Expired(c, call[c]) \o more,
           more \in Seq(M), \A row \in M : Historic(row)'
    PROVE  EffectsTrue'
  <1> DEFINE j == Expire(call[c])
  <1>1. Good(call[c])
    BY DEF SummaryInv, Inv, CallsGood
  <1>2. j.state = "ended" => Over(c)'
    OBVIOUS
  <1>3. PICK E : /\ Expired(c, call[c]) \in Seq(E)
                 /\ \A row \in E : \/ row \in SavedRows(c, j)
                                   \/ row.kind # "history" /\ row.call = c
    BY <1>1, ExpiredIn
  <1>4. \A row \in E : Historic(row)'
    <2>1. \A row \in SavedRows(c, j) : Historic(row)'
      BY <1>2, SavedHistoric
    <2> QED BY <1>3, <2>1 DEF Historic
  <1>5. PICK S : effects \in Seq(S) /\ \A row \in S : Historic(row)
    BY DEF SummaryInv, EffectsTrue
  <1>6. \A row \in S : Historic(row)'
    BY <1>5, HistoricStays
  <1> HIDE DEF j
  <1>7. effects \o Expired(c, call[c]) \in Seq(S \cup E)
    BY <1>3, <1>5, ConcatSeqs
  <1>8. effects' \in Seq((S \cup E) \cup M)
    BY <1>7, ConcatSeqs
  <1> QED BY <1>4, <1>6, <1>8 DEF EffectsTrue

(* The routes of a request record the new call, unless nothing shows.        *)
Recorded(c, u, e, k, more) ==
    \/ more = <<>> /\ k.version = e.version /\ k.state = e.state
    \/ more = Saved(c, k)
    \/ more = <<Removal(c, e.version, u)>> \o Saved(c, k)

LEMMA MutateSaves ==
    ASSUME NEW c \in Calls, NEW u \in Users, Stored(c) => Good(call[c]), Mutate(c, u)
    PROVE  \E k, more : Save(c, k, more) /\ Recorded(c, u, Expire(call[c]), k, more)
  <1> DEFINE e == Expire(call[c])
             Goal == \E k, more : Save(c, k, more) /\ Recorded(c, u, e, k, more)
  <1>g. e \in CallRows
    BY ExpireEvolves DEF Mutate, Live, Evolves, Good
  <1> HIDE DEF e
  <1>1. ASSUME FoundEnded(c, e) PROVE Goal
    BY <1>1 DEF FoundEnded, Recorded
  <1>2. ASSUME NEW k, Announce(c, k) PROVE Goal
    BY <1>2 DEF Announce, Recorded
  <1>3. ASSUME Reject(c, u, e) PROVE Goal
    BY <1>2, <1>3 DEF Reject
  <1>4. ASSUME NEW d \in Devices, Join(c, u, d, e) \/ Cancel(c, u, d, e)
        PROVE  Goal
    BY <1>2, <1>4 DEF Join, Cancel
  <1>5. ASSUME NEW d \in Devices, Heartbeat(c, u, d, e)
        PROVE  Goal
    <2> DEFINE j == [e EXCEPT !.live = @ \cup {u}]
    <2>1. j.version = e.version /\ j.state = e.state
      BY <1>g DEF CallRows
    <2>2. Save(c, j, <<>>)
      BY <1>5 DEF Heartbeat
    <2> QED BY <2>1, <2>2 DEF Recorded
  <1>6. ASSUME NEW d \in Devices, NEW end \in BOOLEAN, Leave(c, u, d, e, end)
        PROVE  Goal
    <2> DEFINE j == Part(e, u, "left")
    <2>1. \/ Announce(c, Finish(j, "normal"))
          \/ Save(c, Bump(j), <<Removal(c, e.version, u)>> \o Saved(c, Bump(j)))
      BY <1>6 DEF Leave
    <2> HIDE DEF j
    <2>2. Recorded(c, u, e, Bump(j), <<Removal(c, e.version, u)>> \o Saved(c, Bump(j)))
      BY DEF Recorded
    <2> QED BY <1>2, <2>1, <2>2
  <1> HIDE DEF Goal
  <1>7. \/ FoundEnded(c, e)
        \/ Reject(c, u, e)
        \/ \E d \in Devices :
              \/ Join(c, u, d, e) \/ Heartbeat(c, u, d, e) \/ Cancel(c, u, d, e)
              \/ \E end \in BOOLEAN : Leave(c, u, d, e, end)
    BY DEF Mutate, e
  <1>8. Goal
    BY <1>1, <1>3, <1>4, <1>5, <1>6, <1>7
  <1> QED BY <1>8 DEF e, Goal

LEMMA RecordedHistoric ==
    ASSUME NEW c \in Calls, NEW u, NEW e, NEW k, NEW more, Recorded(c, u, e, k, more),
           k.state = "ended" => Over(c)'
    PROVE  \E M : more \in Seq(M) /\ \A row \in M : Historic(row)'
  <1>1. \A row \in SavedRows(c, k) : Historic(row)'
    BY SavedHistoric
  <1>2. Saved(c, k) \in Seq(SavedRows(c, k))
    BY SavedIn
  <1>3. CASE more = <<>>
    <2>1. more \in Seq({})
      BY <1>3
    <2> QED BY <2>1
  <1>4. CASE more = Saved(c, k)
    BY <1>1, <1>2, <1>4
  <1>5. CASE more = <<Removal(c, e.version, u)>> \o Saved(c, k)
    <2> DEFINE r == Removal(c, e.version, u)
    <2>1. r.kind # "history" /\ r.call = c
      BY DEF Removal
    <2> HIDE DEF r
    <2>2. <<r>> \in Seq({r})
      OBVIOUS
    <2>3. <<r>> \o Saved(c, k) \in Seq({r} \cup SavedRows(c, k))
      BY <1>2, <2>2, ConcatSeqs
    <2>4. \A row \in {r} \cup SavedRows(c, k) : Historic(row)'
      BY <1>1, <2>1 DEF Historic
    <2>5. more \in Seq({r} \cup SavedRows(c, k))
      BY <1>5, <2>3 DEF r
    <2> QED BY <2>4, <2>5
  <1> QED BY <1>3, <1>4, <1>5 DEF Recorded

(* A completed effect leaves the outbox, the others stay. *)
LEMMA CompletedIn ==
    ASSUME NEW w, NEW S, effects \in Seq(S)
    PROVE  Completed(w) \in Seq(S)
  <1> DEFINE at == {i \in DOMAIN effects : effects[i] = work[w].row}
  <1>1. CASE at = {}
    BY <1>1 DEF Completed
  <1>2. CASE at # {}
    <2> DEFINE i == CHOOSE i \in at : TRUE
    <2>1. i \in 1 .. Len(effects)
      BY <1>2
    <2>2. Completed(w) = SubSeq(effects, 1, i - 1) \o SubSeq(effects, i + 1, Len(effects))
      BY <1>2 DEF Completed, RemoveAt
    <2> HIDE DEF i
    <2>3. SubSeq(effects, 1, i - 1) \in Seq(S) /\ SubSeq(effects, i + 1, Len(effects)) \in Seq(S)
      BY <2>1
    <2> QED BY <2>2, <2>3
  <1> QED BY <1>1, <1>2

LEMMA MutateKeepsEffects ==
    ASSUME SummaryInv, StepOK, NEW c \in Calls, NEW u \in Users, Mutate(c, u)
    PROVE  EffectsTrue'
  <1> DEFINE e == Expire(call[c])
  <1>1. Stored(c) /\ Good(call[c]) /\ call = [o \in Calls |-> call[o]]
    BY DEF Mutate, Live, SummaryInv, Inv, CallsGood
  <1>2. Good(e) /\ e # None
    BY <1>1, ExpireEvolves, GoodIsStored DEF Evolves
  <1>3. PICK k, more : Save(c, k, more) /\ Recorded(c, u, e, k, more)
    BY <1>1, MutateSaves
  <1>4. call'[c] = k /\ effects' = effects \o Expired(c, call[c]) \o more
    BY <1>1, <1>3 DEF Save
  <1>5. Stored(c)'
    BY <1>1 DEF StepOK
  <1>6. k.state = "ended" => Over(c)'
    BY <1>4, <1>5 DEF Over
  <1>7. e.state = "ended" => Over(c)'
    <2> SUFFICES ASSUME e.state = "ended" PROVE Over(c)'
      OBVIOUS
    <2>1. FoundEnded(c, e)
      BY DEF Mutate
    <2>2. call'[c] = e
      BY <1>1, <2>1 DEF FoundEnded, Save
    <2> QED BY <1>5, <2>2 DEF Over
  <1>8. PICK M : more \in Seq(M) /\ \A row \in M : Historic(row)'
    BY <1>3, <1>6, RecordedHistoric
  <1> QED BY <1>1, <1>4, <1>7, <1>8, SaveKeepsEffects

LEMMA SummaryInit == Init => SummaryInv
  <1> SUFFICES ASSUME Init PROVE EffectsTrue /\ WorkTrue /\ SummariesTrue
    BY InvInit DEF SummaryInv
  <1>1. effects \in Seq({})
    BY DEF Init
  <1>2. EffectsTrue
    BY <1>1 DEF EffectsTrue
  <1>3. WorkTrue /\ SummariesTrue
    BY DEF Init, WorkTrue, SummariesTrue
  <1> QED BY <1>2, <1>3

(* A step that leaves the outbox, the workers and the summaries alone, or    *)
(* lets a worker go of its effect.                                           *)
LEMMA QuietWork ==
    ASSUME SummaryInv, StepOK, \A w \in Workers : work'[w] # None => work'[w] = work[w]
    PROVE  WorkTrue'
  BY HistoricStays DEF SummaryInv, WorkTrue

LEMMA QuietEffects == ASSUME SummaryInv, StepOK, effects' = effects PROVE EffectsTrue'
  BY HistoricStays DEF SummaryInv, EffectsTrue

LEMMA CompletedKeeps ==
    ASSUME SummaryInv, StepOK, NEW w, effects' = Completed(w)
    PROVE  EffectsTrue'
  <1>1. PICK S : effects \in Seq(S) /\ \A row \in S : Historic(row)
    BY DEF SummaryInv, EffectsTrue
  <1>2. Completed(w) \in Seq(S)
    BY <1>1, CompletedIn
  <1>3. effects' \in Seq(S) /\ \A row \in S : Historic(row)'
    BY <1>1, <1>2, HistoricStays
  <1> QED BY <1>3 DEF EffectsTrue

LEMMA QuietSummaries == ASSUME SummaryInv, StepOK, summaries' = summaries PROVE SummariesTrue'
  BY OverStays DEF SummaryInv, SummariesTrue

LEMMA SendKeepsEffects ==
    ASSUME SummaryInv, StepOK, NEW w \in Workers, SendState(w)
    PROVE  EffectsTrue'
  <1>1. PICK c \in Calls : c = work[w].row.call
    BY DEF SummaryInv, WorkTrue, Historic, SendState, Holds
  <1>2. Stored(c) /\ Good(call[c]) /\ call = [o \in Calls |-> call[o]]
    <2>1. PICK row, rd, td : /\ work[w] = [row |-> row, read |-> rd, todo |-> td]
                             /\ row.call \in Calls => Stored(row.call)
      BY DEF SendState, Holds, SummaryInv, Inv, WorkGood
    <2> QED BY <1>1, <2>1 DEF SummaryInv, Inv, CallsGood
  <1>3. PICK j : j = Checked(call[c])
    OBVIOUS
  <1>4. PICK more : more = IF j = call[c] THEN <<>> ELSE Expired(c, call[c])
    OBVIOUS
  <1>5. call'[c] = j /\ effects' = Completed(w) \o more
    BY <1>1, <1>2, <1>3, <1>4 DEF SendState
  <1>6. PICK S : effects \in Seq(S) /\ \A row \in S : Historic(row)
    BY DEF SummaryInv, EffectsTrue
  <1>7. Completed(w) \in Seq(S) /\ \A row \in S : Historic(row)'
    BY <1>6, CompletedIn, HistoricStays
  <1>8. PICK M : more \in Seq(M) /\ \A row \in M : Historic(row)'
    <2>1. CASE j = call[c]
      <3>1. more \in Seq({})
        BY <1>4, <2>1
      <3> QED BY <3>1
    <2>2. CASE j # call[c]
      <3>1. j = Expire(call[c]) /\ more = Expired(c, call[c])
        BY <1>3, <1>4, <2>2 DEF Checked
      <3>2. PICK E : /\ Expired(c, call[c]) \in Seq(E)
                     /\ \A row \in E : \/ row \in SavedRows(c, Expire(call[c]))
                                       \/ row.kind # "history" /\ row.call = c
        BY <1>2, ExpiredIn
      <3>3. j.state = "ended" => Over(c)'
        BY <1>2, <1>5 DEF Over, StepOK
      <3>4. \A row \in SavedRows(c, j) : Historic(row)'
        BY <3>3, SavedHistoric
      <3>5. \A row \in E : Historic(row)'
        BY <3>1, <3>2, <3>4 DEF Historic
      <3> QED BY <3>1, <3>2, <3>5
    <2> QED BY <2>1, <2>2
  <1>9. effects' \in Seq(S \cup M)
    BY <1>5, <1>7, <1>8, ConcatSeqs
  <1>10. \A row \in S \cup M : Historic(row)'
    BY <1>7, <1>8
  <1> QED BY <1>9, <1>10 DEF EffectsTrue

LEMMA WorkerKeepsSummaries ==
    ASSUME SummaryInv, StepOK, NEW w \in Workers, Worker(w) \/ Drop(w)
    PROVE  EffectsTrue' /\ WorkTrue' /\ SummariesTrue'
  <1>w. work = [v \in Workers |-> work[v]]
    BY DEF SummaryInv, Inv, WorkGood
  <1>f. ASSUME Free(w) PROVE WorkTrue'
    <2>1. \A v \in Workers : work'[v] # None => work'[v] = work[v]
      BY <1>f, <1>w DEF Free
    <2> QED BY <2>1, QuietWork
  <1>1. CASE Take(w)
    <2>1. PICK i, rd, td :
             /\ i \in DOMAIN effects
             /\ work' = [work EXCEPT ![w] = [row |-> effects[i], read |-> rd, todo |-> td]]
      BY <1>1 DEF Take, Due
    <2>2. PICK S : effects \in Seq(S) /\ \A row \in S : Historic(row)
      BY DEF SummaryInv, EffectsTrue
    <2>3. effects[i] \in S
      BY <2>1, <2>2
    <2>4. Historic(effects[i])'
      <3> DEFINE row == effects[i]
      <3>1. Historic(row)
        BY <2>2, <2>3
      <3>2. row' = row
        BY <1>1 DEF Take
      <3> QED BY <3>1, <3>2, OverStays DEF Historic
    <2>5. /\ work'[w] = [row |-> effects[i], read |-> rd, todo |-> td]
          /\ \A v \in Workers \ {w} : work'[v] = work[v]
      BY <2>1, <1>w
    <2>6. work'[w].row = effects[i] /\ effects' = effects /\ summaries' = summaries
      BY <1>1, <2>5 DEF Take
    <2>7. WorkTrue'
      <3> SUFFICES ASSUME NEW v \in Workers, work'[v] # None PROVE Historic(work[v].row)'
        BY DEF WorkTrue
      <3>1. CASE v = w
        BY <2>4, <2>6, <3>1 DEF Historic
      <3>2. CASE v # w
        <4>1. Historic(work[v].row) /\ work'[v] = work[v]
          BY <2>5, <3>2 DEF SummaryInv, WorkTrue
        <4> QED BY <4>1, OverStays DEF Historic
      <3> QED BY <3>1, <3>2
    <2> QED BY <2>6, <2>7, QuietEffects, QuietSummaries
  <1>2. CASE SendState(w)
    BY <1>2, <1>f, SendKeepsEffects, QuietSummaries DEF SendState
  <1>3. CASE PostSummary(w)
    <2> DEFINE c == work[w].row.call
    <2>1. c \in Calls /\ Over(c)
      BY <1>3 DEF PostSummary, Holds, SummaryInv, WorkTrue, Historic
    <2>2. Over(c)'
      <3> HIDE DEF c
      <3>1. Over(c) /\ c \in Calls
        BY <2>1
      <3>2. c' = c => Over(c)'
        BY <3>1, OverStays DEF Over, Stored
      <3>3. c' = c
        <4>1. PICK row, rd, td : work[w] = [row |-> row, read |-> rd, todo |-> td]
          BY <1>3 DEF PostSummary, Holds, SummaryInv, Inv, WorkGood
        <4>2. work'[w] = [row |-> work[w].row, read |-> work[w].read, todo |-> FALSE]
          BY <1>3, <1>w DEF PostSummary
        <4> QED BY <4>2 DEF c
      <3> QED BY <3>2, <3>3
    <2>3. \A d \in Calls : Over(d) => Over(d)'
      BY OverStays
    <2>4. summaries' = [summaries EXCEPT ![c] = 1] /\ effects' = effects
      BY <1>3 DEF PostSummary
    <2>5. /\ \A v \in Workers \ {w} : work'[v] = work[v]
          /\ work'[w] = [row |-> work[w].row, read |-> work[w].read, todo |-> FALSE]
      BY <1>3, <1>w DEF PostSummary
    <2>6. work'[w].row = work[w].row
      BY <2>5
    <2>7. WorkTrue'
      <3> SUFFICES ASSUME NEW v \in Workers, work'[v] # None PROVE Historic(work[v].row)'
        BY DEF WorkTrue
      <3>1. work'[v].row = work[v].row /\ work[v] # None
        BY <1>3, <2>5, <2>6 DEF PostSummary, Holds
      <3>2. Historic(work[v].row)
        BY <3>1 DEF SummaryInv, WorkTrue
      <3> QED BY <3>1, <3>2, OverStays DEF Historic
    <2>8. SummariesTrue'
      <3>1. summaries \in [Calls -> 0 .. 1] /\ \A d \in Calls : summaries[d] = 1 => Over(d)
        BY DEF SummaryInv, SummariesTrue
      <3>2. Over(work[w].row.call) /\ work[w].row.call \in Calls
        BY <2>1
      <3> HIDE DEF c
      <3>3. summaries' \in [Calls -> 0 .. 1]
        BY <2>1, <2>4, <3>1
      <3>4. \A d \in Calls : summaries'[d] = 1 => Over(d)
        BY <2>1, <2>4, <3>1
      <3> QED BY <2>3, <3>3, <3>4 DEF SummariesTrue
    <2> QED BY <2>4, <2>7, <2>8, QuietEffects
  <1>4. CASE NoteSummary(w) \/ CleanMedia(w)
    BY <1>4, <1>f, CompletedKeeps, QuietSummaries DEF NoteSummary, CleanMedia
  <1>5. CASE Drop(w)
    BY <1>5, <1>f, QuietEffects, QuietSummaries DEF Drop
  <1> QED BY <1>1, <1>2, <1>3, <1>4, <1>5 DEF Worker

LEMMA SummaryNext == SummaryInv /\ [Next]_vars => SummaryInv'
  <1> SUFFICES ASSUME SummaryInv, [Next]_vars PROVE EffectsTrue' /\ WorkTrue' /\ SummariesTrue'
    BY InvNext DEF SummaryInv
  <1>s. StepOK
    BY InvNext DEF SummaryInv
  <1>q. ASSUME UNCHANGED <<effects, work, summaries>>
        PROVE  EffectsTrue' /\ WorkTrue' /\ SummariesTrue'
    BY <1>q, <1>s, QuietEffects, QuietWork, QuietSummaries
  <1>c. ASSUME EffectsTrue', UNCHANGED outbox
        PROVE  EffectsTrue' /\ WorkTrue' /\ SummariesTrue'
    BY <1>c, <1>s, QuietWork, QuietSummaries DEF outbox
  <1>1. ASSUME NEW c \in Calls, NEW i \in Invitations, NEW d \in Devices, BeginInvite(c, i, d)
        PROVE  EffectsTrue' /\ WorkTrue' /\ SummariesTrue'
    BY <1>1, <1>q DEF BeginInvite, outbox
  <1>2. ASSUME NEW c \in Calls, LockUser(c) \/ AbortInvite(c) \/ RingDeadline(c)
        PROVE  EffectsTrue' /\ WorkTrue' /\ SummariesTrue'
    BY <1>2, <1>q DEF LockUser, AbortInvite, RingDeadline, outbox
  <1>3. ASSUME NEW c \in Calls, CommitInvite(c)
        PROVE  EffectsTrue' /\ WorkTrue' /\ SummariesTrue'
    <2>1. PICK k : k = NewCall(inviting[c])
      OBVIOUS
    <2>2. k.state = "ringing" /\ effects' = effects \o Saved(c, k)
      BY <1>3, <2>1 DEF CommitInvite, NewCall
    <2>3. PICK S : effects \in Seq(S) /\ \A row \in S : Historic(row)
      BY DEF SummaryInv, EffectsTrue
    <2>4. \A row \in S : Historic(row)'
      BY <1>s, <2>3, HistoricStays
    <2>5. \A row \in SavedRows(c, k) : Historic(row)'
      BY <2>2, SavedHistoric
    <2>6. effects' \in Seq(S \cup SavedRows(c, k))
      BY <2>2, <2>3, SavedIn, ConcatSeqs
    <2>7. EffectsTrue'
      BY <2>4, <2>5, <2>6 DEF EffectsTrue
    <2> QED BY <1>3, <1>c, <2>7 DEF CommitInvite
  <1>4. ASSUME NEW c \in Calls, NEW u \in Users, Mutate(c, u)
        PROVE  EffectsTrue' /\ WorkTrue' /\ SummariesTrue'
    <2>1. PICK k, more : Save(c, k, more)
      BY <1>4, MutateSaves DEF SummaryInv, Inv, CallsGood
    <2> QED BY <1>4, <1>c, <1>s, <2>1, MutateKeepsEffects DEF Save
  <1>5. ASSUME NEW c \in Calls, NEW u \in Users, LeaseEnds(c, u)
        PROVE  EffectsTrue' /\ WorkTrue' /\ SummariesTrue'
    BY <1>5, <1>q DEF LeaseEnds, outbox
  <1>6. ASSUME NEW c \in Calls, Sweep(c)
        PROVE  EffectsTrue' /\ WorkTrue' /\ SummariesTrue'
    <2>1. Stored(c) /\ call = [o \in Calls |-> call[o]]
      BY <1>6 DEF Sweep, Live, SummaryInv, Inv, CallsGood
    <2>2. /\ call'[c] = Expire(call[c])
          /\ effects' = effects \o Expired(c, call[c]) \o <<>>
          /\ UNCHANGED outbox
      BY <1>6, <2>1 DEF Sweep, Save
    <2>3. Expire(call[c]).state = "ended" => Over(c)'
      BY <1>s, <2>1, <2>2 DEF Over, StepOK
    <2>4. PICK more : more = <<>>
      OBVIOUS
    <2>5. PICK M : M = {}
      OBVIOUS
    <2>6. more \in Seq(M) /\ \A row \in M : Historic(row)'
      BY <2>4, <2>5
    <2>7. effects' = effects \o Expired(c, call[c]) \o more
      BY <2>2, <2>4
    <2>8. EffectsTrue'
      BY <1>s, <2>1, <2>3, <2>6, <2>7, SaveKeepsEffects
    <2> QED BY <1>c, <2>2, <2>8
  <1>7. ASSUME NEW u \in Users, MemberLeaves(u)
        PROVE  EffectsTrue' /\ WorkTrue' /\ SummariesTrue'
    BY <1>7, <1>q DEF MemberLeaves, outbox
  <1>8. ASSUME NEW w \in Workers, Worker(w) \/ Drop(w)
        PROVE  EffectsTrue' /\ WorkTrue' /\ SummariesTrue'
    BY <1>8, <1>s, WorkerKeepsSummaries
  <1>9. CASE DelayEnds
    BY <1>9, <1>q DEF DelayEnds
  <1>10. CASE UNCHANGED vars
    BY <1>10, <1>q DEF vars, outbox
  <1> QED BY <1>1, <1>2, <1>3, <1>4, <1>5, <1>6, <1>7, <1>8, <1>9, <1>10 DEF Next

(* The worker's crashes and retries (rpc/call.rs dispatch_one) never put a   *)
(* second summary of a call into the timeline, nor one of a call that has    *)
(* not ended.                                                                *)
THEOREM OneSummaryPerCall == Spec => []OneSummary
  <1>1. SummaryInv => OneSummary
    BY DEF SummaryInv, SummariesTrue, Over, OneSummary
  <1> QED BY <1>1, SummaryInit, SummaryNext, PTL DEF Spec
-----------------------------------------------------------------------------
(* Nothing a call owes is lost. *)

LEMMA RangeIn == ASSUME NEW S, NEW s \in Seq(S) PROVE Range(s) \subseteq S
  BY DEF Range

LEMMA RangeConcat ==
    ASSUME NEW S, NEW T, NEW s \in Seq(S), NEW t \in Seq(T)
    PROVE  Range(s \o t) = Range(s) \cup Range(t)
  <1>1. /\ s \o t \in Seq(S \cup T) /\ Len(s \o t) = Len(s) + Len(t)
        /\ DOMAIN s = 1 .. Len(s) /\ DOMAIN t = 1 .. Len(t) /\ DOMAIN (s \o t) = 1 .. Len(s) + Len(t)
        /\ Len(s) \in Nat /\ Len(t) \in Nat
    BY ConcatSeqs
  <1>2. \A i \in DOMAIN s : i \in DOMAIN (s \o t) /\ (s \o t)[i] = s[i]
    BY <1>1
  <1>3. \A i \in DOMAIN t : Len(s) + i \in DOMAIN (s \o t) /\ (s \o t)[Len(s) + i] = t[i]
    BY <1>1
  <1>4. \A i \in DOMAIN (s \o t) : \/ i \in DOMAIN s /\ (s \o t)[i] = s[i]
                                   \/ i - Len(s) \in DOMAIN t /\ (s \o t)[i] = t[i - Len(s)]
    BY <1>1
  <1> HIDE DEF Range
  <1>5. Range(s) \subseteq Range(s \o t)
    BY <1>2 DEF Range
  <1>6. Range(t) \subseteq Range(s \o t)
    BY <1>3 DEF Range
  <1>7. Range(s \o t) \subseteq Range(s) \cup Range(t)
    BY <1>4 DEF Range
  <1> QED BY <1>5, <1>6, <1>7

LEMMA RangeOne == ASSUME NEW x PROVE <<x>> \in Seq({x}) /\ Range(<<x>>) = {x}
  BY DEF Range

(* save records the state of a call and the end of an ended one. *)
LEMMA SavedCovers ==
    ASSUME NEW c, NEW k
    PROVE  /\ Row(c, k.version, "state") \in Range(Saved(c, k))
           /\ k.state = "ended" => Row(c, k.version, "history") \in Range(Saved(c, k))
           /\ \A row \in Range(Saved(c, k)) : row.call = c /\ row.version = k.version
  <1> DEFINE r == <<Row(c, k.version, "state")>>
             h == IF k.state = "ended" THEN <<Row(c, k.version, "history")>> ELSE <<>>
             d == IF k.state = "ended" /\ ~k.direct THEN <<Row(c, k.version, "delete_room")>> ELSE <<>>
             R == {Row(c, k.version, "state")}
             H == {Row(c, k.version, "history")}
             D == {Row(c, k.version, "delete_room")}
  <1>1. r \in Seq(R) /\ Range(r) = R
    BY RangeOne
  <1>2. h \in Seq(H) /\ (k.state = "ended" => Range(h) = H)
    <2>1. <<>> \in Seq(H)
      OBVIOUS
    <2> QED BY <2>1, RangeOne
  <1>3. d \in Seq(D)
    <2>1. <<>> \in Seq(D)
      OBVIOUS
    <2> QED BY <2>1, RangeOne
  <1>4. Saved(c, k) = (r \o h) \o d
    BY DEF Saved
  <1>5. \A row \in SavedRows(c, k) : row.call = c /\ row.version = k.version
    BY DEF SavedRows, Row
  <1>r. Row(c, k.version, "state") \in R /\ Row(c, k.version, "history") \in H
    OBVIOUS
  <1> HIDE DEF r, h, d, R, H, D
  <1>6. r \o h \in Seq(R \cup H) /\ Range(r \o h) = Range(r) \cup Range(h)
    BY <1>1, <1>2, RangeConcat, ConcatSeqs
  <1>7. Range((r \o h) \o d) = Range(r \o h) \cup Range(d)
    <2> DEFINE x == r \o h
               X == R \cup H
    <2>1. x \in Seq(X)
      BY <1>6
    <2> HIDE DEF x, X
    <2>2. Range(x \o d) = Range(x) \cup Range(d)
      BY <1>3, <2>1, RangeConcat
    <2> QED BY <2>2 DEF x
  <1>8. Range(Saved(c, k)) \subseteq SavedRows(c, k)
    BY SavedIn, RangeIn
  <1>9. Range(Saved(c, k)) = Range(r) \cup Range(h) \cup Range(d)
    BY <1>4, <1>6, <1>7
  <1> QED BY <1>1, <1>2, <1>5, <1>8, <1>9, <1>r

(* expire records the call it leaves, if it changed it. *)
LEMMA ExpiredCovers ==
    ASSUME NEW c \in Calls, NEW k, Good(k)
    PROVE  /\ \E S : Expired(c, k) \in Seq(S)
           /\ \A row \in Range(Expired(c, k)) : row.call = c /\ row.version = Expire(k).version
           /\ Expire(k) # k => Range(Saved(c, Expire(k))) \subseteq Range(Expired(c, k))
  <1> DEFINE j == Expire(k)
             g == [i \in DOMAIN Leavers(j) |-> Removal(c, j.version, Leavers(j)[i])]
             G == {g[i] : i \in DOMAIN g}
  <1>1. PICK S : /\ Expired(c, k) \in Seq(S)
                 /\ \A row \in S : \/ row \in SavedRows(c, j)
                                   \/ /\ row.kind # "history" /\ row.call = c
                                      /\ row.version = j.version
    BY ExpiredIn
  <1>2. \A row \in S : row.call = c /\ row.version = j.version
    BY <1>1 DEF SavedRows, Row
  <1>3. Range(Expired(c, k)) \subseteq S
    BY <1>1, RangeIn
  <1>4. ASSUME j # k PROVE Range(Saved(c, j)) \subseteq Range(Expired(c, k))
    <2>1. j \in CallRows
      BY ExpireEvolves DEF Evolves, Good
    <2>2. PICK n \in Nat : DOMAIN Leavers(j) = 1 .. n
      BY <2>1, LeaversSeq
    <2>3. g \in Seq(G)
      <3>1. DOMAIN g = 1 .. n
        BY <2>2
      <3> HIDE DEF j
      <3>2. g = [i \in 1 .. n |-> g[i]] /\ \A i \in 1 .. n : g[i] \in G
        BY <3>1
      <3> HIDE DEF g, G
      <3> QED BY <3>2
    <2>4. Expired(c, k) = (IF k.direct THEN <<>> ELSE g) \o Saved(c, j)
      BY <1>4 DEF Expired
    <2> HIDE DEF g, G, j
    <2>5. (IF k.direct THEN <<>> ELSE g) \in Seq(G)
      BY <2>3
    <2>6. Saved(c, j) \in Seq(SavedRows(c, j))
      BY SavedIn
    <2>7. PICK x : x = IF k.direct THEN <<>> ELSE g
      OBVIOUS
    <2>8. PICK y, Y : y = Saved(c, j) /\ Y = SavedRows(c, j)
      OBVIOUS
    <2>9. x \in Seq(G) /\ y \in Seq(Y)
      BY <2>5, <2>6, <2>7, <2>8
    <2>10. Range(x \o y) = Range(x) \cup Range(y)
      BY <2>9, RangeConcat
    <2> QED BY <2>4, <2>7, <2>8, <2>10
  <1> HIDE DEF j
  <1>5. \A row \in Range(Expired(c, k)) : row.call = c /\ row.version = j.version
    BY <1>2, <1>3
  <1> QED BY <1>1, <1>4, <1>5 DEF j

(* A completed effect leaves the outbox, the others stay. *)
LEMMA CompletedRange ==
    ASSUME NEW w, NEW S, effects \in Seq(S)
    PROVE  /\ Range(Completed(w)) \subseteq Owed
           /\ \A row \in Owed : row \in Range(Completed(w)) \/ row = work[w].row
  <1> DEFINE at == {i \in DOMAIN effects : effects[i] = work[w].row}
  <1>1. CASE at = {}
    BY <1>1 DEF Completed, Owed
  <1>2. CASE at # {}
    <2> DEFINE i == CHOOSE i \in at : TRUE
               n == Len(effects)
               a == SubSeq(effects, 1, i - 1)
               b == SubSeq(effects, i + 1, n)
    <2>1. i \in 1 .. n /\ effects[i] = work[w].row /\ n \in Nat /\ DOMAIN effects = 1 .. n
      BY <1>2
    <2>2. Completed(w) = a \o b
      BY <1>2 DEF Completed, RemoveAt
    <2> HIDE DEF i
    <2>3. /\ a \in Seq(S) /\ DOMAIN a = 1 .. i - 1 /\ \A m \in 1 .. i - 1 : a[m] = effects[m]
          /\ b \in Seq(S) /\ DOMAIN b = 1 .. n - i /\ \A m \in 1 .. n - i : b[m] = effects[m + i]
      BY <2>1
    <2> HIDE DEF a, b, n
    <2>4. Range(a \o b) = Range(a) \cup Range(b)
      BY <2>3, RangeConcat
    <2>5. Range(a) \subseteq Owed
      BY <2>1, <2>3 DEF Range, Owed
    <2>6. Range(b) \subseteq Owed
      <3>1. \A m \in DOMAIN b : m + i \in DOMAIN effects /\ b[m] = effects[m + i]
        <4> SUFFICES ASSUME NEW m \in 1 .. n - i
                     PROVE  m + i \in DOMAIN effects /\ b[m] = effects[m + i]
          BY <2>3
        <4>1. m + i \in 1 .. n
          BY <2>1
        <4> QED BY <2>1, <2>3, <4>1
      <3> QED BY <3>1 DEF Range, Owed
    <2>7. ASSUME NEW x \in 1 .. n PROVE effects[x] \in Range(a) \cup Range(b) \/ effects[x] = work[w].row
      <3>1. CASE x < i
        <4>1. x \in DOMAIN a /\ a[x] = effects[x]
          BY <2>1, <2>3, <3>1
        <4> QED BY <4>1 DEF Range
      <3>2. CASE x = i
        BY <2>1, <3>2
      <3>3. CASE x > i
        <4>1. x - i \in 1 .. n - i /\ (x - i) + i = x
          BY <2>1, <3>3
        <4>2. x - i \in DOMAIN b /\ b[x - i] = effects[x]
          BY <2>3, <4>1
        <4> QED BY <4>2 DEF Range
      <3> QED BY <2>1, <3>1, <3>2, <3>3
    <2>8. \A row \in Owed : \E x \in 1 .. n : row = effects[x]
      BY <2>1 DEF Owed, Range
    <2> QED BY <2>2, <2>4, <2>5, <2>6, <2>7, <2>8
  <1> QED BY <1>1, <1>2

(* An effect is one of a stored call and no later than it. *)
Dated(row) ==
    /\ row.call \in Calls /\ Stored(row.call)
    /\ row.version \in Nat /\ row.version <= call[row.call].version

(* A worker read the call after its effect was recorded, and has nothing to  *)
(* post only of a call whose summary is posted.                              *)
DatedJob(job) ==
    /\ Dated(job.row) /\ job.read \in Nat
    /\ job.row.version <= job.read /\ job.read <= call[job.row.call].version
    /\ job.row.kind = "history" /\ ~job.todo => summaries[job.row.call] = 1

RowsDated == \A row \in Owed : Dated(row)
JobsDated == \A w \in Workers : work[w] # None => DatedJob(work[w])
ToldTrue ==
    /\ told \in [Calls -> Nat]
    /\ \A c \in Calls : told[c] <= IF Stored(c) THEN call[c].version ELSE 0
NotedTrue == \A c \in Calls : c \in noted => summaries[c] = 1

OwedInv == SummaryInv /\ RowsDated /\ JobsDated /\ ToldTrue /\ NotedTrue /\ EffectsKept

(* What a step does: versions grow, a summary stays posted. *)
Grows ==
    \A c \in Calls :
        /\ Stored(c) => Stored(c)' /\ call[c].version \in Nat /\ call[c].version <= call'[c].version
        /\ Stored(c)' => call'[c].version \in Nat
        /\ summaries[c] = 1 => summaries'[c] = 1

LEMMA StepGrows ==
    ASSUME OwedInv, [Next]_vars, \A c \in Calls : summaries[c] = 1 => summaries'[c] = 1
    PROVE  Grows
  <1>1. Inv /\ Inv' /\ StepOK
    BY InvNext DEF OwedInv, SummaryInv
  <1>2. \A c \in Calls : Stored(c) => call[c].version \in Nat
    BY <1>1 DEF Inv, CallsGood, Good, CallRows
  <1>3. \A c \in Calls : Stored(c)' => call'[c].version \in Nat
    BY <1>1 DEF Inv, CallsGood, Good, CallRows
  <1>4. \A c \in Calls : Stored(c) => Stored(c)' /\ call'[c].version >= call[c].version
    BY <1>1 DEF StepOK, Follows
  <1> QED BY <1>2, <1>3, <1>4 DEF Grows

LEMMA DatedStays == ASSUME Grows, NEW row, Dated(row) PROVE Dated(row)'
  BY DEF Grows, Dated

LEMMA DatedJobStays == ASSUME Grows, NEW job, DatedJob(job) PROVE DatedJob(job)'
  <1>1. Dated(job.row)'
    BY DatedStays DEF DatedJob
  <1>2. job.row.kind = "history" /\ ~job.todo => summaries'[job.row.call] = 1
    BY DEF DatedJob, Dated, Grows
  <1>3. job.read <= call'[job.row.call].version
    BY DEF DatedJob, Dated, Grows
  <1> QED BY <1>1, <1>2, <1>3 DEF DatedJob

(* Workers that keep their effect or let go of it. *)
LEMMA QuietJobs ==
    ASSUME OwedInv, Grows, \A w \in Workers : work'[w] # None => work'[w] = work[w]
    PROVE  JobsDated'
  <1> SUFFICES ASSUME NEW w \in Workers, work'[w] # None PROVE DatedJob(work[w])'
    BY DEF JobsDated
  <1>1. PICK job : job = work[w] /\ job = work'[w]
    OBVIOUS
  <1>2. DatedJob(job)
    BY <1>1 DEF OwedInv, JobsDated
  <1>3. DatedJob(job)'
    BY <1>2, DatedJobStays
  <1> QED BY <1>1, <1>3 DEF DatedJob, Dated

LEMMA QuietTold == ASSUME OwedInv, Grows, told' = told PROVE ToldTrue'
  BY DEF OwedInv, ToldTrue, Grows

LEMMA QuietNoted == ASSUME OwedInv, Grows, noted' = noted PROVE NotedTrue'
  BY DEF OwedInv, NotedTrue, Grows

LEMMA RowsStay ==
    ASSUME OwedInv, Grows, \A row \in Owed' : row \in Owed \/ Dated(row)'
    PROVE  RowsDated'
  <1>1. \A row \in Owed' : Dated(row)'
    BY DatedStays DEF OwedInv, RowsDated
  <1> QED BY <1>1 DEF RowsDated

(* A call whose version and state stay, and one whose new version or state   *)
(* is recorded.                                                              *)
Unmoved(c) == Stored(c) /\ call'[c].version = call[c].version /\ call'[c].state = call[c].state
Covers(S, c, k) ==
    /\ Row(c, k.version, "state") \in S
    /\ k.state = "ended" => Row(c, k.version, "history") \in S

LEMMA KeptStays ==
    ASSUME OwedInv, Grows,
           \A c \in Calls : Stored(c)' => Unmoved(c) \/ Covers(Owed', c, call'[c]),
           \A c \in Calls : Stored(c) =>
               /\ told[c] = call[c].version => told'[c] = call[c].version
               /\ Row(c, call[c].version, "state") \in Owed =>
                     Row(c, call[c].version, "state") \in Owed' \/ told'[c] = call[c].version
               /\ Row(c, call[c].version, "history") \in Owed =>
                     Row(c, call[c].version, "history") \in Owed' \/ summaries'[c] = 1
    PROVE  EffectsKept'
  <1> SUFFICES ASSUME NEW c \in Calls, Stored(c)'
               PROVE  /\ told'[c] = call'[c].version \/ Row(c, call'[c].version, "state") \in Owed'
                      /\ call'[c].state = "ended" =>
                            summaries'[c] = 1 \/ Row(c, call'[c].version, "history") \in Owed'
    BY DEF EffectsKept, Row
  <1>1. CASE Covers(Owed', c, call'[c])
    BY <1>1 DEF Covers
  <1>2. CASE Unmoved(c)
    <2>1. /\ told[c] = call[c].version \/ Row(c, call[c].version, "state") \in Owed
          /\ call[c].state = "ended" => summaries[c] = 1 \/ Row(c, call[c].version, "history") \in Owed
      BY <1>2 DEF Unmoved, OwedInv, EffectsKept
    <2> QED BY <1>2, <2>1 DEF Unmoved, Grows
  <1> QED BY <1>1, <1>2

(* A step that adds to the outbox the rows N, of the one call that moves.    *)
LEMMA AppendKeeps ==
    ASSUME OwedInv, Grows, UNCHANGED outbox, NEW c \in Calls, NEW N,
           Owed' = Owed \cup N, \A row \in N : Dated(row)',
           Unmoved(c) \/ Covers(N, c, call'[c]),
           \A o \in Calls \ {c} : call'[o] = call[o]
    PROVE  RowsDated' /\ JobsDated' /\ ToldTrue' /\ NotedTrue' /\ EffectsKept'
  <1>1. RowsDated'
    BY RowsStay
  <1>2. JobsDated' /\ ToldTrue' /\ NotedTrue'
    BY QuietJobs, QuietTold, QuietNoted DEF outbox
  <1>3. EffectsKept'
    <2>1. \A o \in Calls : Stored(o)' => Unmoved(o) \/ Covers(Owed', o, call'[o])
      BY DEF Unmoved, Covers, Stored
    <2>2. told' = told
      BY DEF outbox
    <2> QED BY <2>1, <2>2, KeptStays
  <1> QED BY <1>1, <1>2, <1>3

(* A step that leaves the outbox alone, and the versions and states.         *)
LEMMA QuietKept ==
    ASSUME OwedInv, Grows, effects' = effects, UNCHANGED <<told, noted>>,
           \A w \in Workers : work'[w] # None => work'[w] = work[w],
           \A c \in Calls : Stored(c)' => Unmoved(c)
    PROVE  RowsDated' /\ JobsDated' /\ ToldTrue' /\ NotedTrue' /\ EffectsKept'
  <1>1. Owed' = Owed
    BY DEF Owed
  <1>2. RowsDated'
    BY <1>1, RowsStay
  <1>3. EffectsKept'
    BY <1>1, KeptStays
  <1> QED BY <1>2, <1>3, QuietJobs, QuietTold, QuietNoted

(* Two transactions' worth of rows: what expire recorded and what the route  *)
(* added.                                                                    *)
LEMMA SaveRange ==
    ASSUME SummaryInv, NEW c \in Calls, Good(call[c]), NEW more, NEW M, more \in Seq(M),
           effects' = effects \o Expired(c, call[c]) \o more
    PROVE  Owed' = Owed \cup (Range(Expired(c, call[c])) \cup Range(more))
  <1>1. PICK S : effects \in Seq(S)
    BY DEF SummaryInv, EffectsTrue
  <1>2. PICK x, X : x = Expired(c, call[c]) /\ x \in Seq(X)
    BY ExpiredCovers
  <1>3. PICK y : y = effects \o x
    OBVIOUS
  <1>4. PICK Y : Y = S \cup X
    OBVIOUS
  <1>5. y \in Seq(Y) /\ Range(y) = Range(effects) \cup Range(x)
    BY <1>1, <1>2, <1>3, <1>4, ConcatSeqs, RangeConcat
  <1>6. Range(y \o more) = Range(y) \cup Range(more)
    BY <1>5, RangeConcat
  <1>7. effects' = y \o more
    BY <1>2, <1>3
  <1> QED BY <1>2, <1>5, <1>6, <1>7 DEF Owed

(* The rows of a route: the new call's, and none later. *)
LEMMA RecordedRows ==
    ASSUME NEW c, NEW u, NEW e, NEW k, NEW more, Recorded(c, u, e, k, more)
    PROVE  /\ \E M : more \in Seq(M)
           /\ \A row \in Range(more) : row.call = c /\ row.version \in {e.version, k.version}
           /\ \/ k.version = e.version /\ k.state = e.state
              \/ Covers(Range(more), c, k)
  <1>1. PICK s, S : s = Saved(c, k) /\ s \in Seq(S)
    BY SavedIn
  <1>2. /\ Covers(Range(s), c, k)
        /\ \A row \in Range(s) : row.call = c /\ row.version = k.version
    BY <1>1, SavedCovers DEF Covers
  <1>3. CASE more = <<>> /\ k.version = e.version /\ k.state = e.state
    <2>1. more \in Seq({}) /\ Range(more) = {}
      BY <1>3 DEF Range
    <2> QED BY <1>3, <2>1
  <1>4. CASE more = Saved(c, k)
    BY <1>1, <1>2, <1>4
  <1>5. CASE more = <<Removal(c, e.version, u)>> \o Saved(c, k)
    <2>1. PICK r : r = Removal(c, e.version, u)
      OBVIOUS
    <2>2. r.call = c /\ r.version = e.version
      BY <2>1 DEF Removal
    <2>3. PICK t, T : t = <<r>> /\ T = {r}
      OBVIOUS
    <2>r. t \in Seq(T) /\ Range(t) = {r}
      BY <2>3, RangeOne
    <2>4. t \o s \in Seq(T \cup S) /\ Range(t \o s) = Range(t) \cup Range(s)
      BY <1>1, <2>r, ConcatSeqs, RangeConcat
    <2>5. more = t \o s
      BY <1>1, <1>5, <2>1, <2>3
    <2>6. Covers(Range(more), c, k)
      BY <1>2, <2>4, <2>5 DEF Covers
    <2>7. \A row \in Range(more) : row.call = c /\ row.version \in {e.version, k.version}
      BY <1>2, <2>2, <2>r, <2>4, <2>5
    <2> QED BY <2>4, <2>5, <2>6, <2>7
  <1> QED BY <1>3, <1>4, <1>5 DEF Recorded

(* A transaction on a stored call: expire, then the route. *)
LEMMA SaveKeepsOwed ==
    ASSUME OwedInv, Grows, NEW c \in Calls, Stored(c), NEW u, NEW k, NEW more,
           Save(c, k, more), Recorded(c, u, Expire(call[c]), k, more), k \in CallRows,
           Expire(call[c]).version <= k.version
    PROVE  RowsDated' /\ JobsDated' /\ ToldTrue' /\ NotedTrue' /\ EffectsKept'
  <1> DEFINE e == Expire(call[c])
             x == Range(Expired(c, call[c]))
             N == x \cup Range(more)
  <1>1. Good(call[c]) /\ call = [o \in Calls |-> call[o]]
    BY DEF OwedInv, SummaryInv, Inv, CallsGood
  <1>2. /\ call'[c] = k /\ \A o \in Calls \ {c} : call'[o] = call[o]
        /\ effects' = effects \o Expired(c, call[c]) \o more /\ UNCHANGED outbox
    BY <1>1 DEF Save
  <1>3. e \in CallRows
    BY <1>1, ExpireEvolves DEF Evolves, Good
  <1>4. /\ \E M : more \in Seq(M)
        /\ \A row \in Range(more) : row.call = c /\ row.version \in {e.version, k.version}
        /\ \/ k.version = e.version /\ k.state = e.state
           \/ Covers(Range(more), c, k)
    BY RecordedRows
  <1>5. Owed' = Owed \cup N
    BY <1>1, <1>2, <1>4, SaveRange DEF OwedInv
  <1>6. /\ \A row \in x : row.call = c /\ row.version = e.version
        /\ e # call[c] => Covers(x, c, e)
    BY <1>1, ExpiredCovers, SavedCovers DEF Covers
  <1>e. e.version \in Nat /\ k.version \in Nat /\ e.version <= k.version
    BY <1>3 DEF CallRows
  <1>7. Stored(c)'
    BY DEF Grows
  <1>u. e = call[c] => e.version = call[c].version /\ e.state = call[c].state
    OBVIOUS
  <1> HIDE DEF e, x
  <1>8. \A row \in N : Dated(row)'
    <2> SUFFICES ASSUME NEW row \in N PROVE Dated(row)'
      OBVIOUS
    <2>1. row.call = c /\ row.version \in {e.version, k.version}
      BY <1>4, <1>6
    <2> QED BY <1>2, <1>7, <1>e, <2>1 DEF Dated
  <1>9. Unmoved(c) \/ Covers(N, c, k)
    BY <1>2, <1>4, <1>6, <1>u DEF Unmoved, Covers
  <1>10. \A o \in Calls \ {c} : call'[o] = call[o]
    BY <1>2
  <1>11. PICK Z : Z = N
    OBVIOUS
  <1>12. Owed' = Owed \cup Z /\ (\A row \in Z : Dated(row)') /\ (Unmoved(c) \/ Covers(Z, c, call'[c]))
    BY <1>2, <1>5, <1>8, <1>9, <1>11
  <1> QED BY <1>2, <1>10, <1>12, AppendKeeps

LEMMA MutateKeepsOwed ==
    ASSUME OwedInv, Grows, NEW c \in Calls, NEW u \in Users, Mutate(c, u)
    PROVE  RowsDated' /\ JobsDated' /\ ToldTrue' /\ NotedTrue' /\ EffectsKept'
  <1> DEFINE e == Expire(call[c])
  <1>1. (Stored(c) => Good(call[c])) /\ call = [o \in Calls |-> call[o]]
    BY DEF OwedInv, SummaryInv, Inv, CallsGood
  <1>2. Stored(c) /\ Moves(c, e)
    BY <1>1, RequestMoves
  <1>3. PICK k, more : Save(c, k, more) /\ Recorded(c, u, e, k, more)
    BY <1>1, MutateSaves
  <1>4. PICK j : Evolves(e, j) /\ call' = [call EXCEPT ![c] = j]
    BY <1>2 DEF Moves
  <1>5. k = j
    BY <1>1, <1>3, <1>4 DEF Save
  <1>6. k \in CallRows /\ k.version >= e.version
    BY <1>4, <1>5 DEF Evolves, Good, Follows
  <1>7. e.version \in Nat /\ k.version \in Nat
    BY <1>1, <1>2, <1>6, ExpireEvolves DEF Evolves, Good, CallRows
  <1>8. e.version <= k.version
    <2> HIDE DEF e
    <2> QED BY <1>6, <1>7
  <1> QED BY <1>2, <1>3, <1>6, <1>8, SaveKeepsOwed

LEMMA SweepKeepsOwed ==
    ASSUME OwedInv, Grows, NEW c \in Calls, Sweep(c)
    PROVE  RowsDated' /\ JobsDated' /\ ToldTrue' /\ NotedTrue' /\ EffectsKept'
  <1> DEFINE e == Expire(call[c])
  <1>1. Stored(c) /\ Save(c, e, <<>>)
    BY DEF Sweep, Live
  <1>2. Good(call[c])
    BY <1>1 DEF OwedInv, SummaryInv, Inv, CallsGood
  <1>3. e \in CallRows /\ e.version <= e.version
    BY <1>2, ExpireEvolves DEF Evolves, Good, CallRows
  <1>4. Recorded(c, 0, e, e, <<>>)
    BY DEF Recorded
  <1> QED BY <1>1, <1>3, <1>4, SaveKeepsOwed

LEMMA CommitKeepsOwed ==
    ASSUME OwedInv, Grows, NEW c \in Calls, CommitInvite(c)
    PROVE  RowsDated' /\ JobsDated' /\ ToldTrue' /\ NotedTrue' /\ EffectsKept'
  <1>1. PICK k : k = NewCall(inviting[c])
    OBVIOUS
  <1>2. call = [o \in Calls |-> call[o]]
    BY DEF OwedInv, SummaryInv, Inv, CallsGood
  <1>3. /\ call'[c] = k /\ \A o \in Calls \ {c} : call'[o] = call[o]
        /\ effects' = effects \o Saved(c, k) /\ UNCHANGED outbox
    BY <1>1, <1>2 DEF CommitInvite
  <1>4. Stored(c)' /\ k.version = 1
    <2>1. k.version = 1
      BY <1>1 DEF NewCall
    <2>2. k # None
      <3>1. inviting[c] # None /\ inviting[c] \in Invites
        BY DEF OwedInv, SummaryInv, Inv, InvitesGood, CommitInvite
      <3>2. Good(k)
        BY <1>1, <3>1, NewCallGood DEF OwedInv, SummaryInv, Inv, InvitesGood
      <3> QED BY <3>2, GoodIsStored
    <2> QED BY <1>3, <2>1, <2>2 DEF Stored
  <1>5. PICK S : effects \in Seq(S)
    BY DEF OwedInv, SummaryInv, EffectsTrue
  <1>6. PICK s, T : s = Saved(c, k) /\ s \in Seq(T)
    BY SavedIn
  <1>7. Owed' = Owed \cup Range(s)
    BY <1>3, <1>5, <1>6, RangeConcat DEF Owed
  <1>8. Covers(Range(s), c, call'[c])
    BY <1>3, <1>6, SavedCovers DEF Covers
  <1>9. \A row \in Range(s) : Dated(row)'
    <2>1. \A row \in Range(s) : row.call = c /\ row.version = 1
      BY <1>4, <1>6, SavedCovers
    <2> QED BY <1>3, <1>4, <2>1 DEF Dated
  <1> QED BY <1>3, <1>7, <1>8, <1>9, AppendKeeps

LEMMA MaxTwo ==
    ASSUME NEW a \in Nat, NEW b \in Nat
    PROVE  Max({a, b}) \in {a, b} /\ Max({a, b}) >= a /\ Max({a, b}) >= b
  <1>1. \E x \in {a, b} : \A y \in {a, b} : x >= y
    <2>1. CASE a >= b
      BY <2>1
    <2>2. CASE ~(a >= b)
      BY <2>2
    <2> QED BY <2>1, <2>2
  <1>2. Max({a, b}) \in {a, b} /\ \A y \in {a, b} : Max({a, b}) >= y
    BY <1>1 DEF Max
  <1> QED BY <1>2

(* A worker holds an effect of a stored call, dated before what it read.     *)
LEMMA HeldFacts ==
    ASSUME OwedInv, NEW w \in Workers, work[w] # None
    PROVE  /\ DatedJob(work[w]) /\ work[w].row.call \in Calls /\ Stored(work[w].row.call)
           /\ Good(call[work[w].row.call])
           /\ \E S : effects \in Seq(S)
           /\ work = [v \in Workers |-> work[v]] /\ call = [c \in Calls |-> call[c]]
  BY DEF OwedInv, JobsDated, DatedJob, Dated, SummaryInv, Inv, CallsGood, WorkGood, EffectsTrue

LEMMA TakeKeepsOwed ==
    ASSUME OwedInv, Grows, NEW w \in Workers, Take(w)
    PROVE  RowsDated' /\ JobsDated' /\ ToldTrue' /\ NotedTrue' /\ EffectsKept'
  <1>1. PICK i \in DOMAIN effects :
            work' = [work EXCEPT ![w] =
                        [row |-> effects[i], read |-> call[effects[i].call].version,
                         todo |-> effects[i].kind = "history" /\ effects[i].call \notin noted]]
    BY DEF Take, Due
  <1>2. UNCHANGED <<call, effects, told, summaries, noted>>
    BY DEF Take
  <1>3. PICK row : row = effects[i]
    OBVIOUS
  <1>4. PICK job : job = [row |-> row, read |-> call[row.call].version,
                          todo |-> row.kind = "history" /\ row.call \notin noted]
    OBVIOUS
  <1>5. /\ work'[w] = job /\ \A v \in Workers \ {w} : work'[v] = work[v]
    BY <1>1, <1>3, <1>4 DEF OwedInv, SummaryInv, Inv, WorkGood
  <1>6. Dated(row)
    <2>1. row \in Owed
      BY <1>3 DEF Owed, Range
    <2> QED BY <2>1 DEF OwedInv, RowsDated
  <1>7. DatedJob(job)
    <2>1. /\ job.row = row /\ job.read = call[row.call].version
          /\ job.todo <=> (row.kind = "history" /\ row.call \notin noted)
      BY <1>4
    <2>2. job.read \in Nat /\ row.version <= job.read /\ job.read <= call[row.call].version
      BY <1>6, <2>1 DEF Dated, Grows
    <2>3. row.kind = "history" /\ ~job.todo => summaries[row.call] = 1
      BY <1>6, <2>1 DEF Dated, OwedInv, NotedTrue
    <2> QED BY <1>6, <2>1, <2>2, <2>3 DEF DatedJob
  <1>8. JobsDated'
    <2> SUFFICES ASSUME NEW v \in Workers, work'[v] # None PROVE DatedJob(work[v])'
      BY DEF JobsDated
    <2>1. PICK held : held = work'[v]
      OBVIOUS
    <2>2. DatedJob(held)
      BY <1>5, <1>7, <2>1 DEF OwedInv, JobsDated
    <2>3. DatedJob(held)'
      BY <2>2, DatedJobStays
    <2> QED BY <2>1, <2>3 DEF DatedJob, Dated
  <1>9. Owed' = Owed
    BY <1>2 DEF Owed
  <1>10. RowsDated'
    BY <1>9, RowsStay
  <1>11. EffectsKept'
    <2>1. \A c \in Calls : Stored(c)' => Unmoved(c)
      BY <1>2 DEF Unmoved, Stored
    <2> QED BY <1>2, <1>9, <2>1, KeptStays
  <1> QED BY <1>2, <1>8, <1>10, <1>11, QuietTold, QuietNoted

LEMMA SendKeepsOwed ==
    ASSUME OwedInv, Grows, NEW w \in Workers, SendState(w)
    PROVE  RowsDated' /\ JobsDated' /\ ToldTrue' /\ NotedTrue' /\ EffectsKept'
  <1>0. PICK c \in Calls : c = work[w].row.call
    BY HeldFacts DEF SendState, Holds
  <1>1. PICK row, rd : row = work[w].row /\ c = row.call /\ rd = work[w].read
    BY <1>0
  <1>2. /\ Stored(c) /\ Good(call[c]) /\ row.kind = "state"
        /\ rd \in Nat /\ row.version <= rd /\ rd <= call[c].version /\ row.version \in Nat
        /\ call[c].version \in Nat
    BY <1>1, HeldFacts DEF SendState, Holds, DatedJob, Dated, Grows
  <1>3. PICK S : effects \in Seq(S)
    BY HeldFacts DEF SendState, Holds
  <1>4. PICK j, more : /\ j = Checked(call[c])
                       /\ more = IF j = call[c] THEN <<>> ELSE Expired(c, call[c])
    OBVIOUS
  <1>5. /\ call'[c] = j /\ \A o \in Calls \ {c} : call'[o] = call[o]
        /\ effects' = Completed(w) \o more
        /\ told' = [told EXCEPT ![c] = Max({told[c], rd})]
        /\ noted' = noted /\ summaries' = summaries
        /\ \A v \in Workers : work'[v] # None => work'[v] = work[v]
    BY <1>1, <1>4, HeldFacts DEF SendState, Holds, Free
  <1>6. /\ \E M : more \in Seq(M)
        /\ \A r \in Range(more) : r.call = c /\ r.version = j.version
        /\ j = call[c] \/ Covers(Range(more), c, j)
    <2>1. CASE j = call[c]
      <3>1. more \in Seq({}) /\ Range(more) = {}
        BY <1>4, <2>1 DEF Range
      <3> QED BY <2>1, <3>1
    <2>2. CASE j # call[c]
      <3>1. j = Expire(call[c]) /\ more = Expired(c, call[c]) /\ Expire(call[c]) # call[c]
        BY <1>4, <2>2 DEF Checked
      <3> QED BY <1>2, <3>1, ExpiredCovers, SavedCovers DEF Covers
    <2> QED BY <2>1, <2>2
  <1>7. Owed' = Range(Completed(w)) \cup Range(more)
    <2>1. PICK x, M : x = Completed(w) /\ more \in Seq(M)
      BY <1>6
    <2>2. x \in Seq(S)
      BY <1>3, <2>1, CompletedIn
    <2>3. Range(x \o more) = Range(x) \cup Range(more)
      BY <2>1, <2>2, RangeConcat
    <2> QED BY <1>5, <2>1, <2>3 DEF Owed
  <1>8. /\ Range(Completed(w)) \subseteq Owed
        /\ \A r \in Owed : r \in Range(Completed(w)) \/ r = row
    BY <1>1, <1>3, CompletedRange
  <1>9. RowsDated'
    <2>1. \A r \in Range(more) : Dated(r)'
      BY <1>5, <1>6, <1>2 DEF Dated, Grows
    <2> QED BY <1>7, <1>8, <2>1, RowsStay
  <1>m. told \in [Calls -> Nat] /\ told[c] \in Nat /\ told[c] <= call[c].version
    BY <1>2 DEF OwedInv, ToldTrue
  <1>10. PICK m \in Nat : /\ m = Max({told[c], rd}) /\ m \in {told[c], rd} /\ m >= told[c] /\ m >= rd
    BY <1>2, <1>m, MaxTwo
  <1>11. told'[c] = m /\ \A o \in Calls \ {c} : told'[o] = told[o]
    BY <1>5, <1>10, <1>m
  <1>12. ToldTrue'
    <2>1. told' \in [Calls -> Nat]
      BY <1>5, <1>10, <1>m
    <2>2. m <= call'[c].version /\ Stored(c)'
      BY <1>2, <1>10, <1>m DEF Grows
    <2>3. \A o \in Calls \ {c} : told'[o] <= IF Stored(o)' THEN call'[o].version ELSE 0
      BY <1>5, <1>11 DEF OwedInv, ToldTrue, Stored
    <2> QED BY <1>11, <2>1, <2>2, <2>3 DEF ToldTrue
  <1>13. EffectsKept'
    <2>1. \A o \in Calls : Stored(o)' => Unmoved(o) \/ Covers(Owed', o, call'[o])
      BY <1>2, <1>5, <1>6, <1>7 DEF Unmoved, Covers, Stored
    <2>2. ASSUME NEW o \in Calls, Stored(o)
          PROVE  /\ told[o] = call[o].version => told'[o] = call[o].version
                 /\ Row(o, call[o].version, "state") \in Owed =>
                       Row(o, call[o].version, "state") \in Owed' \/ told'[o] = call[o].version
                 /\ Row(o, call[o].version, "history") \in Owed =>
                       Row(o, call[o].version, "history") \in Owed' \/ summaries'[o] = 1
      <3>1. told[o] = call[o].version => told'[o] = call[o].version
        BY <1>2, <1>10, <1>11, <1>m
      <3>2. row = Row(o, call[o].version, "state") => told'[o] = call[o].version
        <4> SUFFICES ASSUME row = Row(o, call[o].version, "state") PROVE told'[o] = call[o].version
          OBVIOUS
        <4>1. o = c /\ row.version = call[c].version
          BY <1>1 DEF Row
        <4> QED BY <1>2, <1>10, <1>11, <1>m, <4>1
      <3>3. row # Row(o, call[o].version, "history")
        BY <1>2 DEF Row
      <3> QED BY <1>7, <1>8, <3>1, <3>2, <3>3
    <2> QED BY <2>1, <2>2, KeptStays
  <1> QED BY <1>5, <1>9, <1>12, <1>13, QuietJobs, QuietNoted

LEMMA PostKeepsOwed ==
    ASSUME OwedInv, Grows, NEW w \in Workers, PostSummary(w)
    PROVE  RowsDated' /\ JobsDated' /\ ToldTrue' /\ NotedTrue' /\ EffectsKept'
  <1>1. PICK job : job = work[w] /\ DatedJob(job)
    BY HeldFacts DEF PostSummary, Holds
  <1>2. /\ UNCHANGED <<call, effects, told, noted>>
        /\ summaries' = [summaries EXCEPT ![job.row.call] = 1]
        /\ work'[w] = [row |-> job.row, read |-> job.read, todo |-> FALSE]
        /\ \A v \in Workers \ {w} : work'[v] = work[v]
    BY <1>1, HeldFacts DEF PostSummary, Holds
  <1>3. DatedJob(job)'
    BY <1>1, DatedJobStays
  <1>4. PICK held : held = work'[w]
    OBVIOUS
  <1>5. held.row = job.row /\ held.read = job.read
    BY <1>2, <1>4
  <1>6. summaries'[job.row.call] = 1
    BY <1>1, <1>2 DEF DatedJob, Dated, OwedInv, SummaryInv, SummariesTrue
  <1>7. DatedJob(held)'
    BY <1>3, <1>5, <1>6 DEF DatedJob, Dated
  <1>8. JobsDated'
    <2> SUFFICES ASSUME NEW v \in Workers, work'[v] # None PROVE DatedJob(work[v])'
      BY DEF JobsDated
    <2>1. PICK x : x = work'[v]
      OBVIOUS
    <2>2. CASE v = w
      BY <1>4, <1>7, <2>2 DEF DatedJob, Dated
    <2>3. CASE v # w
      <3>1. DatedJob(x)
        BY <1>2, <2>1, <2>3 DEF OwedInv, JobsDated
      <3>2. DatedJob(x)'
        BY <3>1, DatedJobStays
      <3> QED BY <2>1, <3>2 DEF DatedJob, Dated
    <2> QED BY <2>2, <2>3
  <1>9. Owed' = Owed
    BY <1>2 DEF Owed
  <1>10. RowsDated'
    BY <1>9, RowsStay
  <1>11. EffectsKept'
    <2>1. \A c \in Calls : Stored(c)' => Unmoved(c)
      BY <1>2 DEF Unmoved, Stored
    <2> QED BY <1>2, <1>9, <2>1, KeptStays
  <1> QED BY <1>2, <1>8, <1>10, <1>11, QuietTold, QuietNoted

(* An effect is completed: its summary is posted, or it is no state and no   *)
(* history.                                                                  *)
LEMMA CompletionKeepsOwed ==
    ASSUME OwedInv, Grows, NEW w \in Workers, NoteSummary(w) \/ CleanMedia(w)
    PROVE  RowsDated' /\ JobsDated' /\ ToldTrue' /\ NotedTrue' /\ EffectsKept'
  <1>0. PICK c \in Calls : c = work[w].row.call
    BY HeldFacts DEF NoteSummary, CleanMedia, Holds
  <1>1. PICK row : row = work[w].row /\ c = row.call
    BY <1>0
  <1>2. PICK S : effects \in Seq(S)
    BY HeldFacts DEF NoteSummary, CleanMedia, Holds
  <1>3. /\ UNCHANGED <<call, told, summaries>> /\ effects' = Completed(w)
        /\ \A v \in Workers : work'[v] # None => work'[v] = work[v]
    BY HeldFacts DEF NoteSummary, CleanMedia, Holds, Free
  <1>4. /\ row.kind # "state"
        /\ row.kind = "history" => summaries[c] = 1
        /\ \A o \in Calls : o \in noted' => o \in noted \/ (o = c /\ summaries[c] = 1)
    <2>1. CASE NoteSummary(w)
      BY <1>1, <2>1, HeldFacts DEF NoteSummary, Holds, DatedJob
    <2>2. CASE CleanMedia(w)
      BY <1>1, <2>2 DEF CleanMedia, Holds
    <2> QED BY <2>1, <2>2
  <1>5. /\ Owed' \subseteq Owed
        /\ \A r \in Owed : r \in Owed' \/ r = row
    BY <1>1, <1>2, <1>3, CompletedRange DEF Owed
  <1>6. RowsDated'
    BY <1>5, RowsStay
  <1>7. NotedTrue'
    BY <1>3, <1>4 DEF OwedInv, NotedTrue
  <1>8. EffectsKept'
    <2>1. \A o \in Calls : Stored(o)' => Unmoved(o)
      BY <1>3 DEF Unmoved, Stored
    <2>2. \A o \in Calls : \A v : row # Row(o, v, "state")
      BY <1>4 DEF Row
    <2>3. \A o \in Calls : \A v : row = Row(o, v, "history") => summaries'[o] = 1
      BY <1>1, <1>3, <1>4 DEF Row
    <2> QED BY <1>3, <1>5, <2>1, <2>2, <2>3, KeptStays
  <1> QED BY <1>3, <1>6, <1>7, <1>8, QuietJobs, QuietTold

LEMMA WorkerKeepsOwed ==
    ASSUME OwedInv, Grows, NEW w \in Workers, Worker(w) \/ Drop(w)
    PROVE  RowsDated' /\ JobsDated' /\ ToldTrue' /\ NotedTrue' /\ EffectsKept'
  <1>1. CASE Drop(w)
    <2>1. /\ UNCHANGED <<call, effects, told, noted>>
          /\ \A v \in Workers : work'[v] # None => work'[v] = work[v]
      BY <1>1, HeldFacts DEF Drop, Free
    <2>2. \A c \in Calls : Stored(c)' => Unmoved(c)
      BY <2>1 DEF Unmoved, Stored
    <2> QED BY <2>1, <2>2, QuietKept
  <1> QED BY <1>1, TakeKeepsOwed, SendKeepsOwed, PostKeepsOwed, CompletionKeepsOwed DEF Worker

(* A posted summary stays posted. *)
LEMMA SummariesStay ==
    ASSUME OwedInv, [Next]_vars
    PROVE  \A c \in Calls : summaries[c] = 1 => summaries'[c] = 1
  <1>1. ASSUME NEW w \in Workers, PostSummary(w)
        PROVE  \A c \in Calls : summaries[c] = 1 => summaries'[c] = 1
    BY <1>1 DEF PostSummary, OwedInv, SummaryInv, SummariesTrue
  <1>2. ASSUME NEW w \in Workers, Worker(w) \/ Drop(w), ~PostSummary(w) PROVE summaries' = summaries
    BY <1>2 DEF Worker, Take, SendState, NoteSummary, CleanMedia, Drop
  <1>3. ASSUME NEW c \in Calls, NEW i \in Invitations, NEW d \in Devices, BeginInvite(c, i, d)
        PROVE  summaries' = summaries
    BY <1>3 DEF BeginInvite, outbox
  <1>4. ASSUME NEW c \in Calls, LockUser(c) \/ CommitInvite(c) \/ AbortInvite(c) \/ RingDeadline(c) \/ Sweep(c)
        PROVE  summaries' = summaries
    BY <1>4 DEF LockUser, CommitInvite, AbortInvite, RingDeadline, Sweep, Save, outbox
  <1>5. ASSUME NEW c \in Calls, NEW u \in Users, Mutate(c, u) PROVE summaries' = summaries
    <2>1. PICK k, more : Save(c, k, more)
      BY <1>5, MutateSaves DEF OwedInv, SummaryInv, Inv, CallsGood
    <2> QED BY <2>1 DEF Save, outbox
  <1>6. ASSUME NEW c \in Calls, NEW u \in Users, LeaseEnds(c, u) PROVE summaries' = summaries
    BY <1>6 DEF LeaseEnds, outbox
  <1>7. CASE (\E u \in Users : MemberLeaves(u)) \/ DelayEnds \/ UNCHANGED vars
    BY <1>7 DEF MemberLeaves, DelayEnds, vars, outbox
  <1> QED BY <1>1, <1>2, <1>3, <1>4, <1>5, <1>6, <1>7 DEF Next

LEMMA OwedInit == Init => OwedInv
  <1> SUFFICES ASSUME Init PROVE RowsDated /\ JobsDated /\ ToldTrue /\ NotedTrue /\ EffectsKept
    BY SummaryInit DEF OwedInv
  <1>1. Owed = {}
    BY DEF Init, Owed, Range
  <1>2. RowsDated /\ JobsDated
    BY <1>1 DEF Init, RowsDated, JobsDated
  <1>3. ToldTrue /\ NotedTrue /\ EffectsKept
    BY DEF Init, ToldTrue, NotedTrue, EffectsKept, Stored
  <1> QED BY <1>2, <1>3

LEMMA OwedNext == OwedInv /\ [Next]_vars => OwedInv'
  <1> DEFINE Goal == RowsDated' /\ JobsDated' /\ ToldTrue' /\ NotedTrue' /\ EffectsKept'
  <1> SUFFICES ASSUME OwedInv, [Next]_vars PROVE Goal
    BY SummaryNext DEF OwedInv
  <1>g. Grows
    BY SummariesStay, StepGrows
  <1>q. ASSUME UNCHANGED <<effects, work, told, noted>>, \A c \in Calls : Stored(c)' => Unmoved(c)
        PROVE  Goal
    BY <1>g, <1>q, QuietKept
  <1>c. ASSUME call' = call PROVE \A c \in Calls : Stored(c)' => Unmoved(c)
    BY <1>c DEF Unmoved, Stored
  <1> HIDE DEF Goal
  <1>1. ASSUME NEW c \in Calls, NEW i \in Invitations, NEW d \in Devices, BeginInvite(c, i, d)
        PROVE  Goal
    BY <1>1, <1>c, <1>q DEF BeginInvite, outbox
  <1>2. ASSUME NEW c \in Calls, LockUser(c) \/ AbortInvite(c) PROVE Goal
    BY <1>2, <1>c, <1>q DEF LockUser, AbortInvite, outbox
  <1>3. ASSUME NEW c \in Calls, CommitInvite(c) PROVE Goal
    BY <1>3, <1>g, CommitKeepsOwed DEF Goal
  <1>4. ASSUME NEW c \in Calls, NEW u \in Users, Mutate(c, u) PROVE Goal
    BY <1>4, <1>g, MutateKeepsOwed DEF Goal
  <1>5. ASSUME NEW c \in Calls, RingDeadline(c) \/ \E u \in Users : LeaseEnds(c, u) PROVE Goal
    <2>1. /\ Stored(c) /\ call[c] \in CallRows /\ call = [o \in Calls |-> call[o]]
          /\ UNCHANGED <<effects, outbox>>
      BY <1>5 DEF RingDeadline, LeaseEnds, Live, OwedInv, SummaryInv, Inv, CallsGood, Good
    <2>2. PICK j : /\ call' = [call EXCEPT ![c] = j]
                   /\ \/ j = [call[c] EXCEPT !.late = TRUE]
                      \/ \E u \in Users : j = [call[c] EXCEPT !.live = call[c].live \ {u}]
      BY <1>5 DEF RingDeadline, LeaseEnds
    <2>3. j.version = call[c].version /\ j.state = call[c].state
      BY <2>1, <2>2 DEF CallRows
    <2>4. \A o \in Calls : Stored(o)' => Unmoved(o)
      BY <2>1, <2>2, <2>3 DEF Unmoved, Stored
    <2> QED BY <1>q, <2>1, <2>4 DEF outbox
  <1>6. ASSUME NEW c \in Calls, Sweep(c) PROVE Goal
    BY <1>6, <1>g, SweepKeepsOwed DEF Goal
  <1>7. CASE (\E u \in Users : MemberLeaves(u)) \/ DelayEnds \/ UNCHANGED vars
    BY <1>7, <1>c, <1>q DEF MemberLeaves, DelayEnds, vars, outbox
  <1>8. ASSUME NEW w \in Workers, Worker(w) \/ Drop(w) PROVE Goal
    BY <1>8, <1>g, WorkerKeepsOwed DEF Goal
  <1> QED BY <1>1, <1>2, <1>3, <1>4, <1>5, <1>6, <1>7, <1>8 DEF Next

(* The effects recorded with a call's transaction (call_service.rs save) are *)
(* carried out or still to be carried out, however often the worker          *)
(* (rpc/call.rs dispatch_one) fails, crashes or reads the call late: the     *)
(* last version of every call is announced or owed, the summary of every     *)
(* ended one is posted or owed, and none is posted twice.                    *)
THEOREM EffectsAreSettled == Spec => []EffectsSettle
  <1>1. OwedInv => EffectsKept /\ OneSummary
    BY DEF OwedInv, SummaryInv, SummariesTrue, Over, OneSummary
  <1> QED BY <1>1, OwedInit, OwedNext, PTL DEF Spec, EffectsSettle
=============================================================================
