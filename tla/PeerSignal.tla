----------------------------- MODULE PeerSignal -----------------------------
(***************************************************************************)
(* Signalling of one direct call (call_service/peer.rs): offers, answers   *)
(* and ICE candidates go through a journal that both sides poll with a     *)
(* cursor.  Every request runs under the call's row lock, in one step.     *)
(*                                                                         *)
(* Journal and command rows live for the same time, so they expire in the  *)
(* order of their seq; expired rows stay in their table until a later      *)
(* signal or the sweep deletes them.  Refusals that depend on lease,       *)
(* device, membership, block list or rate only mean that a request does    *)
(* not happen.                                                             *)
(***************************************************************************)
EXTENDS Naturals, FiniteSets

CONSTANTS
    Ids,           \* command ids of each side
    MaxRevision,   \* bound: offers in a run
    MaxSeq,        \* bound: signals in a run
    Capacity       \* retained events per call (512)

ASSUME PeerAssumption ==
    MaxRevision \in Nat /\ MaxSeq \in Nat /\ Capacity \in Nat \ {0}

VARIABLES
    open,          \* the call has not ended
    revision,      \* peer_revision
    answered,      \* peer_answered
    seq,           \* peer_seq
    events,        \* privchat_call_peer_events
    commands,      \* privchat_call_peer_commands: the event each command recorded
    expired,       \* rows up to this seq have expired
    cursor,        \* after_seq of each side (external: the client)
    got,           \* the events each side was given
    log            \* every event ever recorded

table == <<revision, answered, seq, events, commands>>
vars == <<open, table, expired, cursor, got, log>>

Sides == {"caller", "callee"}
Kinds == {"offer", "answer", "ice"}
Events == [seq : 1 .. MaxSeq, revision : 0 .. MaxRevision, kind : Kinds, from : Sides, id : Ids]

Init ==
    /\ open = TRUE
    /\ revision = 0
    /\ answered = FALSE
    /\ seq = 0
    /\ events = {}
    /\ commands = {}
    /\ expired = 0
    /\ cursor = [s \in Sides |-> 0]
    /\ got = [s \in Sides |-> {}]
    /\ log = {}

Retained(rows) == {r \in rows : r.seq > expired}

-----------------------------------------------------------------------------
(* call/peer/signal. *)

AllowedAnswersAgain(s, kind, r) ==
    CASE kind = "offer"  -> s = "caller" /\ r = revision + 1
      [] kind = "answer" -> s = "callee" /\ r = revision
      [] kind = "ice"    -> r = revision

(* The caller offers the next revision; the callee answers the live one      *)
(* once; candidates belong to the live one.                                  *)
Allowed(s, kind, r) ==
    CASE kind = "offer"  -> s = "caller" /\ r = revision + 1
      [] kind = "answer" -> s = "callee" /\ r = revision /\ ~answered
      [] kind = "ice"    -> r = revision

Known(s, id) == \E c \in commands : c.from = s /\ c.id = id

(* The rows that have not expired leave room. *)
HasRoom == Cardinality(Retained(events)) < Capacity

(* A new command; one that is in the table is answered from it or refused.   *)
Signal(s, id, kind, r) ==
    /\ open /\ r > 0
    /\ ~Known(s, id)
    /\ Allowed(s, kind, r)
    /\ HasRoom
    /\ seq < MaxSeq
    /\ seq' = seq + 1
    /\ revision' = IF kind = "offer" THEN r ELSE revision
    /\ answered' = CASE kind = "offer" -> FALSE [] kind = "answer" -> TRUE [] kind = "ice" -> answered
    /\ LET e == [seq |-> seq + 1, revision |-> r, kind |-> kind, from |-> s, id |-> id]
       IN  /\ events' = Retained(events) \cup {e}
           /\ commands' = commands \cup {e}
           /\ log' = log \cup {e}
    /\ UNCHANGED <<open, expired, cursor, got>>

-----------------------------------------------------------------------------
(* call/peer/events. *)

GapNever(s) == FALSE

(* The first retained row, or the next one to come, is not the one after the *)
(* cursor: rows in between have expired.                                     *)
Gap(s) == /\ cursor[s] # 0 /\ cursor[s] < seq
          /\ \A e \in Retained(events) : cursor[s] + 1 < e.seq

OfferLost ==
    revision > 0 /\ ~\E e \in Retained(events) : e.revision = revision /\ e.kind = "offer"

(* The other side's events of the live revision, and the journal's end as    *)
(* the next cursor.                                                          *)
Read(s) ==
    /\ open
    /\ ~Gap(s) /\ ~(cursor[s] = 0 /\ OfferLost)
    /\ got' = [got EXCEPT ![s] = @ \cup {e \in Retained(events) :
                    e.seq > cursor[s] /\ e.from # s /\ e.revision = revision}]
    /\ cursor' = [cursor EXCEPT ![s] = seq]
    /\ UNCHANGED <<open, table, expired, log>>

(* "Peer journal expired": the client starts again from 0. *)
ReadRefused(s) ==
    /\ open /\ Gap(s)
    /\ cursor' = [cursor EXCEPT ![s] = 0]
    /\ UNCHANGED <<open, table, expired, got, log>>

-----------------------------------------------------------------------------
(* Time, the sweep, and the end of the call. *)

RowsExpire ==
    /\ expired < seq
    /\ expired' = expired + 1
    /\ UNCHANGED <<open, table, cursor, got, log>>

SweepPeer ==
    /\ Retained(events) # events \/ Retained(commands) # commands
    /\ events' = Retained(events) /\ commands' = Retained(commands)
    /\ UNCHANGED <<open, revision, answered, seq, expired, cursor, got, log>>

(* clear_peer, in the transaction that ends the call. *)
End ==
    /\ open
    /\ open' = FALSE
    /\ events' = {} /\ commands' = {}
    /\ UNCHANGED <<revision, answered, seq, expired, cursor, got, log>>

Next ==
    \/ \E s \in Sides :
          \/ \E id \in Ids, kind \in Kinds, r \in 0 .. MaxRevision : Signal(s, id, kind, r)
          \/ Read(s) \/ ReadRefused(s)
    \/ RowsExpire \/ SweepPeer \/ End

Spec == Init /\ [][Next]_vars

-----------------------------------------------------------------------------
(* Properties. *)

(* Every variable keeps its type; the journal stays within its capacity. *)
TypeOK ==
    /\ open \in BOOLEAN /\ answered \in BOOLEAN
    /\ revision \in 0 .. MaxRevision /\ seq \in 0 .. MaxSeq /\ expired \in 0 .. MaxSeq
    /\ events \subseteq Events /\ log \subseteq Events /\ commands \subseteq Events
    /\ Cardinality(Retained(events)) <= Capacity
    /\ cursor \in [Sides -> 0 .. MaxSeq]
    /\ got \in [Sides -> SUBSET Events]

(* "It reports expired journal gaps rather than silently dropping them": a   *)
(* side whose cursor has passed an event of the live revision was given it,  *)
(* whatever expired, was swept or was superseded in between.                 *)
NothingSilentlyDropped ==
    \A s \in Sides, e \in log :
        e.from # s /\ e.revision = revision /\ e.seq <= cursor[s] => e \in got[s]

(* A revision has one offer, from the caller, and at most one answer, from   *)
(* the callee and after the offer, although commands are forgotten with      *)
(* their row and may then be sent again.                                     *)
OneOfferOneAnswer ==
    \A e, f \in log :
        /\ e.kind = "offer" => e.from = "caller"
        /\ e.kind = "answer" => e.from = "callee" /\ \E o \in log : o.kind = "offer" /\ o.revision = e.revision /\ o.seq < e.seq
        /\ e.kind # "ice" /\ e.kind = f.kind /\ e.revision = f.revision => e = f

(* Once a revision is superseded nothing is added to it.                     *)
RevisionsInOrder ==
    \A e, f \in log : e.seq < f.seq => e.revision <= f.revision
=============================================================================
