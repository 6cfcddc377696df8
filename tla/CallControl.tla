---------------------------- MODULE CallControl ----------------------------
(***************************************************************************)
(* Durable call control: invite, join, reject, cancel, leave, end and      *)
(* heartbeat (call_service.rs), the sweep that expires rings and leases,   *)
(* and the worker that carries out recorded effects (rpc/call.rs).         *)
(*                                                                         *)
(* A mutation runs in one transaction under the call's row lock, so it is  *)
(* one step; an invite is not, since it locks its users one by one.  The   *)
(* clock is abstracted: a lease ends and a ring deadline passes at any     *)
(* moment.  Mute, block list, role and client capability only refuse a     *)
(* request, which a request that is never made covers; a refused request   *)
(* and the replay of a recorded command roll their transaction back.       *)
(***************************************************************************)
EXTENDS Naturals, FiniteSets, Sequences, SequencesExt

CONSTANTS
    Calls,         \* call ids
    Users,         \* numbers: invites lock their users in this order
    Devices,
    Invitations,   \* what users ask for: [actor, targets, direct]
    Workers,       \* effect workers, one per server process
    Limit,         \* participant limit
    MaxVersion,    \* bound: a joined device asks for new credentials below it
    MaxRemovals,   \* bound: members removed from the group
    MaxCrashes,    \* bound: effects that fail or whose worker crashes
    None

ASSUME CallAssumption ==
    /\ Users \subseteq Nat /\ IsFiniteSet(Users)
    /\ Invitations \subseteq [actor : Users, targets : SUBSET Users, direct : BOOLEAN]
    /\ Limit \in Nat /\ MaxVersion \in Nat /\ MaxRemovals \in Nat /\ MaxCrashes \in Nat
    /\ None \notin Devices /\ None \notin Nat

VARIABLES
    inviting,      \* invites in progress, by the call id they will use
    call,          \* privchat_calls: the stored call, or None
    members,       \* members of the group channel
    effects,       \* privchat_call_effects not yet completed, by id
    delayed,       \* the ones that failed and wait for their next attempt
    work,          \* the effect a worker holds, or None
    told,          \* highest version of a call announced to its participants
    summaries,     \* call summaries committed to the timeline
    noted,         \* calls whose history_message_id is set
    removals, crashes

outbox == <<delayed, work, told, summaries, noted, crashes>>
vars == <<inviting, call, members, effects, outbox, removals>>

Parts == {"none", "invited", "joined", "left", "rejected"}
Reasons == {"none", "timeout", "rejected", "cancelled", "normal"}
CallRows == [direct : BOOLEAN, state : {"ringing", "active", "ended"}, reason : Reasons,
             starter : Users, part : [Users -> Parts], claim : [Users -> Devices \cup {None}],
             live : SUBSET Users, late : BOOLEAN, answered : BOOLEAN, version : Nat \ {0}]
Invites == [actor : Users, device : Devices, targets : SUBSET Users, direct : BOOLEAN,
            locked : SUBSET Users]
ASSUME NoneAssumption == None \notin CallRows

Init ==
    /\ inviting = [c \in Calls |-> None]
    /\ call = [c \in Calls |-> None]
    /\ members = Users
    /\ effects = <<>>
    /\ delayed = {}
    /\ work = [w \in Workers |-> None]
    /\ told = [c \in Calls |-> 0]
    /\ summaries = [c \in Calls |-> 0]
    /\ noted = {}
    /\ removals = 0
    /\ crashes = 0

Stored(c) == call[c] # None
Live(c) == Stored(c) /\ call[c].state # "ended"
InCall(k, u) == k.part[u] \in {"invited", "joined"}
With(k, p) == {u \in Users : k.part[u] = p}
Participants(k) == Users \ With(k, "none")
Members(k) == IF k.direct THEN Participants(k) ELSE members

-----------------------------------------------------------------------------
(* The stored call as a value. *)

Part(k, u, p) == [k EXCEPT !.part[u] = p]
Bump(k) == [k EXCEPT !.version = @ + 1]

(* finish: the call has ended and nobody is joined any more. *)
Finish(k, why) ==
    [k EXCEPT !.state = "ended", !.reason = why,
              !.part = [u \in Users |-> IF k.part[u] = "joined" THEN "left" ELSE k.part[u]]]

(* expire: members who are gone and joined devices without a lease have left *)
Gone(k) == {u \in Users : \/ InCall(k, u) /\ u \notin Members(k)
                          \/ k.part[u] = "joined" /\ u \notin k.live}
AfterLeases(k) == [k EXCEPT !.part = [u \in Users |-> IF u \in Gone(k) THEN "left" ELSE k.part[u]]]

(* and a ring past its deadline, or a call without partners, times out.      *)
TimesOut(k) ==
    \/ k.state = "ringing" /\ k.late
    \/ /\ k.state = "active"
       /\ With(k, "joined") = {} \/ (k.direct /\ Cardinality(With(k, "joined")) < 2)

Expire(k) ==
    IF k.state = "ended" THEN k
    ELSE LET j == IF TimesOut(AfterLeases(k)) THEN Finish(AfterLeases(k), "timeout") ELSE AfterLeases(k)
         IN  IF j = k THEN k ELSE Bump(j)

Row(c, v, kind) == [call |-> c, version |-> v, kind |-> kind, who |-> 0]
Removal(c, v, u) == [call |-> c, version |-> v, kind |-> "remove_participant", who |-> u]

(* save: an announced change is a state effect; the end of a call adds its   *)
(* summary and, for a group, the deletion of its room.                       *)
Saved(c, k) ==
    <<Row(c, k.version, "state")>>
    \o (IF k.state = "ended" THEN <<Row(c, k.version, "history")>> ELSE <<>>)
    \o (IF k.state = "ended" /\ ~k.direct THEN <<Row(c, k.version, "delete_room")>> ELSE <<>>)

(* Who has left and had joined, in the participants' order. *)
Leavers(k) ==
    LET gone == {u \in With(k, "left") : k.claim[u] # None}
    IN  [i \in 1 .. Cardinality(gone) |->
            CHOOSE u \in gone : Cardinality({v \in gone : v < u}) = i - 1]

(* What expire records when it changed the call. *)
Expired(c, k) ==
    LET j == Expire(k)
        gone == [i \in DOMAIN Leavers(j) |-> Removal(c, j.version, Leavers(j)[i])]
    IN  IF j = k THEN <<>> ELSE (IF k.direct THEN <<>> ELSE gone) \o Saved(c, j)

-----------------------------------------------------------------------------
(* Invite. *)

Busy(u) == \E c \in Calls : Live(c) /\ InCall(call[c], u)

Everyone(i) == i.targets \cup {i.actor}

LockFreeAlways(c, u) == TRUE

(* The advisory lock of a user, held by the invites that have taken it. *)
LockFree(c, u) == \A o \in Calls \ {c} : inviting[o] # None => u \notin inviting[o].locked

(* An invite is checked; a direct channel has two members. *)
BeginInvite(c, i, d) ==
    /\ inviting[c] = None /\ ~Stored(c)
    /\ i.targets \ {i.actor} # {}
    /\ IF i.direct THEN Cardinality(Everyone(i)) = 2 ELSE Everyone(i) \subseteq members
    /\ Cardinality(Everyone(i)) <= Limit
    /\ inviting' = [inviting EXCEPT ![c] = [actor |-> i.actor, device |-> d, targets |-> i.targets \ {i.actor},
                                            direct |-> i.direct, locked |-> {}]]
    /\ UNCHANGED <<call, members, effects, outbox, removals>>

Locked(i, u) == [i EXCEPT !.locked = @ \cup {u}]

(* Users are locked in any order. *)
LockUserUnordered(c) ==
    /\ inviting[c] # None
    /\ \E u \in Everyone(inviting[c]) \ inviting[c].locked :
          /\ LockFree(c, u)
          /\ inviting' = [inviting EXCEPT ![c] = IF Busy(u) THEN None
                                                 ELSE Locked(inviting[c], u)]
    /\ UNCHANGED <<call, members, effects, outbox, removals>>

(* The next user in order is locked, then checked; a busy one ends it. *)
LockUser(c) ==
    /\ inviting[c] # None
    /\ \E u \in Everyone(inviting[c]) \ inviting[c].locked :
          /\ \A v \in Everyone(inviting[c]) \ inviting[c].locked : u <= v
          /\ LockFree(c, u)
          /\ inviting' = [inviting EXCEPT ![c] = IF Busy(u) THEN None
                                                 ELSE Locked(inviting[c], u)]
    /\ UNCHANGED <<call, members, effects, outbox, removals>>

NewCall(i) ==
    [direct |-> i.direct, state |-> "ringing", reason |-> "none", starter |-> i.actor,
     part |-> [u \in Users |-> IF u = i.actor THEN "joined"
                               ELSE IF u \in i.targets THEN "invited" ELSE "none"],
     claim |-> [u \in Users |-> IF u = i.actor THEN i.device ELSE None],
     live |-> {i.actor}, late |-> FALSE, answered |-> FALSE, version |-> 1]

CommitInvite(c) ==
    /\ inviting[c] # None
    /\ inviting[c].locked = Everyone(inviting[c])
    /\ call' = [call EXCEPT ![c] = NewCall(inviting[c])]
    /\ effects' = effects \o Saved(c, NewCall(inviting[c]))
    /\ inviting' = [inviting EXCEPT ![c] = None]
    /\ UNCHANGED <<members, outbox, removals>>

(* The transaction fails or the server stops. *)
AbortInvite(c) ==
    /\ inviting[c] # None
    /\ inviting' = [inviting EXCEPT ![c] = None]
    /\ UNCHANGED <<call, members, effects, outbox, removals>>

-----------------------------------------------------------------------------
(* Mutations: first expire, then the route on what is left of the call, k.   *)

Owns(k, u, d) == k.claim[u] = d

(* What expire recorded is committed with the rest. *)
Save(c, k, more) ==
    /\ call' = [call EXCEPT ![c] = k]
    /\ effects' = effects \o Expired(c, call[c]) \o more
    /\ UNCHANGED <<inviting, members, outbox, removals>>

(* A route that announces its change. *)
Announce(c, k) == Save(c, Bump(k), Saved(c, Bump(k)))

(* The request found the call over: what expire did is committed. *)
FoundEnded(c, k) == k.state = "ended" /\ Save(c, k, <<>>)

JoinableAnyDevice(k, u, d) == InCall(k, u)

Joinable(k, u, d) == InCall(k, u) /\ k.claim[u] \in {None, d}

(* The first join of an invited user answers a ring. *)
Join(c, u, d, k) ==
    /\ Joinable(k, u, d)
    /\ LockFree(c, u)
    /\ \A o \in Calls \ {c} : Live(o) => ~InCall(call[o], u)
    /\ k.part[u] = "joined" => k.version < MaxVersion
    /\ LET j == [Part(k, u, "joined") EXCEPT !.claim[u] = d, !.live = @ \cup {u}]
           answers == u # k.starter /\ k.state = "ringing"
       IN  Announce(c, IF answers THEN [j EXCEPT !.state = "active", !.answered = TRUE] ELSE j)

(* A heartbeat renews the lease and announces nothing. *)
Heartbeat(c, u, d, k) ==
    /\ Owns(k, u, d) /\ k.part[u] = "joined"
    /\ Save(c, [k EXCEPT !.live = @ \cup {u}], <<>>)

RejectEndsAny(k) == k.direct \/ With(k, "invited") = {}

(* Nobody is left to answer a ring. *)
RejectEnds(k) == k.direct \/ (With(k, "invited") = {} /\ k.state = "ringing")

Reject(c, u, k) ==
    /\ u # k.starter /\ k.part[u] = "invited"
    /\ LET j == Part(k, u, "rejected")
       IN  Announce(c, IF RejectEnds(j) THEN Finish(j, "rejected") ELSE j)

Cancel(c, u, d, k) ==
    /\ u = k.starter /\ Owns(k, u, d) /\ k.state = "ringing"
    /\ Announce(c, Finish(k, "cancelled"))

(* leave, and end, which ends the call for everyone. *)
Leave(c, u, d, k, end) ==
    /\ Owns(k, u, d) /\ k.part[u] = "joined"
    /\ LET j == Part(k, u, "left")
       IN  IF end \/ k.direct \/ With(j, "joined") = {}
           THEN Announce(c, Finish(j, "normal"))
           ELSE Save(c, Bump(j), <<Removal(c, k.version, u)>> \o Saved(c, Bump(j)))

(* The requester is a member of the channel and a participant. *)
Mutate(c, u) ==
    /\ Live(c) /\ u \in Members(call[c]) \cap Participants(call[c])
    /\ \E k \in {Expire(call[c])} :
          \/ FoundEnded(c, k)
          \/ /\ k.state # "ended"
             /\ \/ Reject(c, u, k)
                \/ \E d \in Devices :
                      \/ Join(c, u, d, k) \/ Heartbeat(c, u, d, k) \/ Cancel(c, u, d, k)
                      \/ \E end \in BOOLEAN : Leave(c, u, d, k, end)

-----------------------------------------------------------------------------
(* Time, the sweep and the group.  A lease counts while its device is joined *)
(* and the deadline while the call is ringing.                               *)

LeaseEnds(c, u) ==
    /\ Live(c) /\ u \in call[c].live /\ call[c].part[u] = "joined"
    /\ call' = [call EXCEPT ![c].live = @ \ {u}]
    /\ UNCHANGED <<inviting, members, effects, outbox, removals>>

RingDeadline(c) ==
    /\ Live(c) /\ call[c].state = "ringing" /\ ~call[c].late
    /\ call' = [call EXCEPT ![c].late = TRUE]
    /\ UNCHANGED <<inviting, members, effects, outbox, removals>>

SweepActiveOnly(c) ==
    /\ Live(c) /\ Expire(call[c]) # call[c] /\ call[c].state = "active"
    /\ Save(c, Expire(call[c]), <<>>)

(* The sweep, call/get and call/active expire a call. *)
Sweep(c) ==
    /\ Live(c) /\ Expire(call[c]) # call[c]
    /\ Save(c, Expire(call[c]), <<>>)

(* A member leaves the group; an invite in progress holds the member rows.   *)
MemberLeaves(u) ==
    /\ u \in members /\ removals < MaxRemovals
    /\ \A c \in Calls : inviting[c] # None => inviting[c].direct
    /\ members' = members \ {u}
    /\ removals' = removals + 1
    /\ UNCHANGED <<inviting, call, effects, outbox>>

-----------------------------------------------------------------------------
(* The effect worker. *)

Held == {work[v].row : v \in {v \in Workers : work[v] # None}}
Due == {i \in DOMAIN effects : effects[i] \notin Held \cup delayed}

(* It takes the first due row that no other worker holds and reads the call. *)
Take(w) ==
    /\ work[w] = None
    /\ \E i \in Due :
          /\ \A j \in Due : i <= j
          /\ Stored(effects[i].call)
          /\ work' = [work EXCEPT ![w] =
                [row |-> effects[i], read |-> call[effects[i].call].version,
                 todo |-> effects[i].kind = "history" /\ effects[i].call \notin noted]]
    /\ UNCHANGED <<inviting, call, members, effects, delayed, told, summaries, noted, crashes, removals>>

Holds(w, kinds) == work[w] # None /\ work[w].row.kind \in kinds
CompletedByCall(w) == SelectSeq(effects, LAMBDA row : row.call # work[w].row.call)

(* The row the worker holds is marked completed, by its id.                  *)
Completed(w) ==
    LET at == {i \in DOMAIN effects : effects[i] = work[w].row}
    IN  IF at = {} THEN effects ELSE RemoveAt(effects, CHOOSE i \in at : TRUE)
Free(w) == work' = [work EXCEPT ![w] = None]

(* What the worker's call/get for each participant does to the call; it is   *)
(* refused, before it expires anything, to one who left the channel.         *)
Checked(k) == IF Participants(k) \cap Members(k) = {} THEN k ELSE Expire(k)

(* The snapshot it read goes to every participant it may be shown to.        *)
SendState(w) ==
    /\ Holds(w, {"state"})
    /\ LET c == work[w].row.call
       IN  /\ told' = [told EXCEPT ![c] = Max({@, work[w].read})]
           /\ call' = [call EXCEPT ![c] = Checked(@)]
           /\ effects' = Completed(w) \o (IF Checked(call[c]) = call[c] THEN <<>> ELSE Expired(c, call[c]))
    /\ Free(w)
    /\ UNCHANGED <<inviting, members, delayed, summaries, noted, crashes, removals>>

PostSummaryAgain(w) ==
    /\ Holds(w, {"history"}) /\ work[w].todo
    /\ summaries' = [summaries EXCEPT ![work[w].row.call] = @ + 1]
    /\ work' = [work EXCEPT ![w] = [row |-> @.row, read |-> @.read, todo |-> FALSE]]
    /\ UNCHANGED <<inviting, call, members, effects, delayed, told, noted, crashes, removals>>

(* The summary is committed to the timeline under the permanent key          *)
(* call-summary:<call_id>; a second commit finds the first.                  *)
PostSummary(w) ==
    /\ Holds(w, {"history"}) /\ work[w].todo
    /\ summaries' = [summaries EXCEPT ![work[w].row.call] = 1]
    /\ work' = [work EXCEPT ![w] = [row |-> @.row, read |-> @.read, todo |-> FALSE]]
    /\ UNCHANGED <<inviting, call, members, effects, delayed, told, noted, crashes, removals>>

NoteSummary(w) ==
    /\ Holds(w, {"history"}) /\ ~work[w].todo
    /\ noted' = noted \cup {work[w].row.call}
    /\ effects' = Completed(w)
    /\ Free(w)
    /\ UNCHANGED <<inviting, call, members, delayed, told, summaries, crashes, removals>>

CleanMedia(w) ==
    /\ Holds(w, {"delete_room", "remove_participant"})
    /\ effects' = Completed(w)
    /\ Free(w)
    /\ UNCHANGED <<inviting, call, members, delayed, told, summaries, noted, crashes, removals>>

(* The effect fails and waits, or its worker crashes and it is due at once.  *)
Drop(w) ==
    /\ work[w] # None /\ crashes < MaxCrashes
    /\ delayed' \in {delayed, delayed \cup {work[w].row}}
    /\ Free(w)
    /\ crashes' = crashes + 1
    /\ UNCHANGED <<inviting, call, members, effects, told, summaries, noted, removals>>

DelayEnds ==
    /\ delayed # {}
    /\ delayed' = {}
    /\ UNCHANGED <<inviting, call, members, effects, work, told, summaries, noted, crashes, removals>>

Worker(w) ==
    \/ Take(w) \/ SendState(w) \/ PostSummary(w) \/ NoteSummary(w) \/ CleanMedia(w)

Next ==
    \/ \E c \in Calls :
          \/ \E i \in Invitations, d \in Devices : BeginInvite(c, i, d)
          \/ LockUser(c) \/ CommitInvite(c) \/ AbortInvite(c)
          \/ \E u \in Users : Mutate(c, u) \/ LeaseEnds(c, u)
          \/ RingDeadline(c) \/ Sweep(c)
    \/ \E u \in Users : MemberLeaves(u)
    \/ \E w \in Workers : Worker(w) \/ Drop(w)
    \/ DelayEnds

Spec == Init /\ [][Next]_vars

(* Time passes (a device stops sending heartbeats in the end), the sweep and *)
(* the workers run on, and an invite's transaction goes on.                  *)
Fairness ==
    /\ \A c \in Calls :
          /\ WF_vars(RingDeadline(c)) /\ WF_vars(Sweep(c))
          /\ WF_vars(LockUser(c)) /\ WF_vars(CommitInvite(c))
          /\ \A u \in Users : WF_vars(LeaseEnds(c, u))
    /\ WF_vars(DelayEnds) /\ \A w \in Workers : WF_vars(Worker(w))

FairSpec == Spec /\ Fairness

-----------------------------------------------------------------------------
(* Properties. *)

(* Busy arbitration: nobody is invited to or joined in two calls that have   *)
(* not ended, however invites of overlapping users race each other.          *)
OneCallPerUser ==
    \A u \in Users, c, o \in Calls :
        Live(c) /\ Live(o) /\ InCall(call[c], u) /\ InCall(call[o], u) => c = o

(* A summary is in the timeline at most once per call, only of a call that   *)
(* has ended.                                                                *)
OneSummary ==
    \A c \in Calls : /\ summaries[c] <= 1
                     /\ summaries[c] = 1 => Stored(c) /\ call[c].state = "ended"

(* The last version of a call was announced or its state effect is still to  *)
(* be carried out, and so for the summary of an ended call.                  *)
Owed == Range(effects)
EffectsKept ==
    \A c \in Calls : Stored(c) =>
        /\ told[c] = call[c].version \/ Row(c, call[c].version, "state") \in Owed
        /\ call[c].state = "ended" => summaries[c] = 1 \/ Row(c, call[c].version, "history") \in Owed

(* What a call owes its participants is never lost and its summary never     *)
(* posted twice, whichever step of dispatch_one a worker fails or crashes    *)
(* at and however late it read the call.                                     *)
EffectsSettle == OneSummary /\ EffectsKept

(* Invites cannot wait for each other in a circle: whenever some are in      *)
(* progress, one of them finds its next user unlocked or has them all        *)
(* ("a deterministic per-user lock order", call_service.rs invite).          *)
NextUser(i, u) == u \in Everyone(i) \ i.locked /\ \A v \in Everyone(i) \ i.locked : u <= v
GoesOn(c) ==
    /\ inviting[c] # None
    /\ \/ inviting[c].locked = Everyone(inviting[c])
       \/ \E u \in Users : NextUser(inviting[c], u) /\ LockFree(c, u)
InvitesGoOn == (\E c \in Calls : inviting[c] # None) => \E c \in Calls : GoesOn(c)

(* The calls as their participants see them. *)
Page(k) == [starter |-> k.starter, state |-> k.state, reason |-> k.reason, part |-> k.part,
            claim |-> k.claim, version |-> k.version]
Book == INSTANCE CallBook WITH book <- [c \in Calls |-> IF Stored(c) THEN Page(call[c]) ELSE None]
ASSUME PageAssumption == None \notin Book!Pages

(* Call control implements the book: an invite that locks and checks its     *)
(* users one by one takes them all at once or not at all, and every other    *)
(* step lets one open call run down, under a new version if it shows.        *)
ImplementsBook == Book!Spec

(* No call lives for ever: when devices stop their heartbeats it ends, its   *)
(* last version is announced, and its summary posted.                        *)
EveryCallEnds ==
    \A c \in Calls : Stored(c) ~> /\ Stored(c) /\ call[c].state = "ended"
                                  /\ told[c] = call[c].version
                                  /\ summaries[c] = 1
=============================================================================
