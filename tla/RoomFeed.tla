------------------------------ MODULE RoomFeed ------------------------------
(***************************************************************************)
(* A room: sessions subscribe to its channel, the application broadcasts   *)
(* to it, and a new subscriber is sent the recent broadcasts               *)
(* (subscribe_message_handler.rs, subscribe_manager.rs, admin.rs           *)
(* room_broadcast, room_history_service.rs).  Every request is a task of   *)
(* its own: the tasks of a session overtake each other and the close of    *)
(* its connection.  The two indexes of the manager are written under one   *)
(* lock and are the set `subscribed` here.                                 *)
(***************************************************************************)
EXTENDS Naturals, FiniteSets, Sequences

CONSTANTS
    Sessions, Casts,
    Limit,            \* subscribe_history_limit
    MaxSubscribers,   \* max_channel_subscribers_online
    MaxRequests,      \* bound: subscribe and unsubscribe requests of a session
    MaxFaults         \* bound: Redis calls and sends that fail, histories that expire

VARIABLES
    line,             \* the transport's connection of a session
    requests,         \* how many requests a session has sent
    handlers,         \* the requests under way
    subscribed,       \* channel_routes, session_channels
    replays,          \* the replay tasks, with the frames they have read
    history,          \* the Redis list, newest first
    order,            \* the broadcasts appended since it last expired, newest first
    cast,             \* how far each broadcast is
    targets,          \* the sessions it has looked up and not yet been sent to
    got,              \* the broadcasts each session was sent
    unsent,           \* the broadcasts that could not be sent to it although it was connected
    overtaken,        \* broadcasts that were between lookup and history when it subscribed
    dropped,          \* broadcasts older than the history was to be when it was replayed
    late,             \* sessions whose connection closed before one of their requests was handled
    mishaps

vars == <<line, requests, handlers, subscribed, replays, history, order, cast, targets, got, unsent,
          overtaken, dropped, late, mishaps>>

Unread == <<"unread">>
LimitIsNumber == Limit \in Nat

Init ==
    /\ line = [s \in Sessions |-> "up"]
    /\ requests = [s \in Sessions |-> 0]
    /\ handlers = {} /\ subscribed = {} /\ replays = {} /\ history = <<>> /\ order = <<>>
    /\ cast = [b \in Casts |-> "new"]
    /\ targets = [b \in Casts |-> {}]
    /\ got = [s \in Sessions |-> {}] /\ unsent = [s \in Sessions |-> {}]
    /\ overtaken = [s \in Sessions |-> {}] /\ dropped = [s \in Sessions |-> {}]
    /\ late = {} /\ mishaps = 0

Mishap == mishaps < MaxFaults /\ mishaps' = mishaps + 1

-----------------------------------------------------------------------------
(* Subscriptions.                                                            *)

(* handle_inbound: the session's identity is looked up and a task started.   *)
Request(s, action) ==
    /\ line[s] = "up" /\ requests[s] < MaxRequests
    /\ requests' = [requests EXCEPT ![s] = @ + 1]
    /\ handlers' = handlers \cup {[session |-> s, action |-> action, number |-> requests'[s]]}
    /\ UNCHANGED <<line, subscribed, replays, history, order, cast, targets, got, unsent, overtaken, dropped, late, mishaps>>

Full(s) == s \notin subscribed /\ Cardinality(subscribed) >= MaxSubscribers

(* The ticket is good: the session is entered, and then a task reads the     *)
(* history for it.  A session that is there already only gets the history.   *)
Subscribe(h) ==
    LET s == h.session
    IN  /\ h \in handlers /\ h.action = "subscribe"
        /\ handlers' = handlers \ {h}
        /\ IF Full(s) THEN UNCHANGED <<subscribed, replays, overtaken>>
           ELSE /\ subscribed' = subscribed \cup {s}
                /\ replays' = replays \cup {[session |-> s, number |-> h.number, frames |-> Unread]}
                /\ overtaken' = IF s \in subscribed THEN overtaken
                                ELSE [overtaken EXCEPT ![s] = {b \in Casts : cast[b] = "listed"}]
        /\ UNCHANGED <<line, requests, history, order, cast, targets, got, unsent, dropped, late, mishaps>>

(* A request to unsubscribe, or to disconnect. *)
Unsubscribe(h) ==
    /\ h \in handlers /\ h.action = "unsubscribe"
    /\ handlers' = handlers \ {h}
    /\ subscribed' = subscribed \ {h.session}
    /\ UNCHANGED <<line, requests, replays, history, order, cast, targets, got, unsent, overtaken, dropped, late, mishaps>>

(* A typing or presence event that cannot be sent to a session takes it out  *)
(* of the channel.                                                           *)
EventFails(s) ==
    /\ s \in subscribed
    /\ subscribed' = subscribed \ {s}
    /\ IF line[s] = "down" THEN UNCHANGED mishaps ELSE Mishap
    /\ UNCHANGED <<line, requests, handlers, replays, history, order, cast, targets, got, unsent, overtaken, dropped, late>>

TransportClosesKeeps(s) ==
    /\ line[s] = "up"
    /\ line' = [line EXCEPT ![s] = "down"]
    /\ late' = IF \E h \in handlers : h.session = s THEN late \cup {s} ELSE late
    /\ UNCHANGED <<requests, handlers, subscribed, replays, history, order, cast, targets, got, unsent, overtaken, dropped, mishaps>>

(* on_disconnected *)
TransportCloses(s) ==
    /\ line[s] = "up"
    /\ line' = [line EXCEPT ![s] = "down"]
    /\ subscribed' = subscribed \ {s}
    /\ late' = IF \E h \in handlers : h.session = s THEN late \cup {s} ELSE late
    /\ UNCHANGED <<requests, handlers, replays, history, order, cast, targets, got, unsent, overtaken, dropped, mishaps>>

-----------------------------------------------------------------------------
(* The replay task of a subscription.                                        *)

Recorded(b) == cast[b] \in {"sending", "unrecorded"}

ReadHistory(r) ==
    /\ r \in replays /\ r.frames = Unread
    /\ replays' = (replays \ {r}) \cup {[r EXCEPT !.frames = history]}
    /\ dropped' = [dropped EXCEPT ![r.session] = @ \cup
                     {b \in Casts : Recorded(b) /\ \A i \in DOMAIN order : order[i] = b => i > Limit}]
    /\ UNCHANGED <<line, requests, handlers, subscribed, history, order, cast, targets, got, unsent, overtaken, late, mishaps>>

(* The read fails, and with it the task. *)
ReplayFails(r) ==
    /\ r \in replays /\ r.frames = Unread
    /\ replays' = replays \ {r}
    /\ dropped' = [dropped EXCEPT ![r.session] = @ \cup {b \in Casts : Recorded(b)}]
    /\ Mishap
    /\ UNCHANGED <<line, requests, handlers, subscribed, history, order, cast, targets, got, unsent, overtaken, late>>

(* Frames are sent one by one; one that fails is logged and the next one     *)
(* follows.  The session stays subscribed.                                   *)
Sends(s, bs) ==
    IF line[s] = "down" THEN UNCHANGED <<got, unsent, mishaps>>
    ELSE \E failing \in SUBSET bs :
            /\ got' = [got EXCEPT ![s] = @ \cup (bs \ failing)]
            /\ unsent' = [unsent EXCEPT ![s] = @ \cup failing]
            /\ IF failing = {} THEN UNCHANGED mishaps ELSE Mishap

Replay(r) ==
    /\ r \in replays /\ r.frames # Unread
    /\ replays' = replays \ {r}
    /\ Sends(r.session, {r.frames[i] : i \in DOMAIN r.frames})
    /\ UNCHANGED <<line, requests, handlers, subscribed, history, order, cast, targets, overtaken, dropped, late>>

-----------------------------------------------------------------------------
(* A broadcast: look up the subscribers, append to the history, send.        *)

LookUp(b) ==
    /\ cast[b] = "new"
    /\ cast' = [cast EXCEPT ![b] = "listed"]
    /\ targets' = [targets EXCEPT ![b] = subscribed]
    /\ UNCHANGED <<line, requests, handlers, subscribed, replays, history, order, got, unsent, overtaken, dropped, late, mishaps>>

Trimmed(list) == SubSeq(list, 1, IF Len(list) < Limit THEN Len(list) ELSE Limit)

PushedIfHeard(b) ==
    /\ history' = IF targets[b] = {} THEN history ELSE Trimmed(<<b>> \o history)
    /\ order' = <<b>> \o order

(* lpush_ltrim_expire *)
Pushed(b) == history' = Trimmed(<<b>> \o history) /\ order' = <<b>> \o order

AppendHistory(b) ==
    /\ cast[b] = "listed"
    /\ cast' = [cast EXCEPT ![b] = "sending"]
    /\ Pushed(b)
    /\ UNCHANGED <<line, requests, handlers, subscribed, replays, targets, got, unsent, overtaken, dropped, late, mishaps>>

(* A failure is logged and the broadcast goes on.  After a time-out the      *)
(* pipeline may have been executed.                                          *)
AppendFails(b) ==
    /\ cast[b] = "listed"
    /\ cast' = [cast EXCEPT ![b] = "unrecorded"]
    /\ Pushed(b) \/ UNCHANGED <<history, order>>
    /\ Mishap
    /\ UNCHANGED <<line, requests, handlers, subscribed, replays, targets, got, unsent, overtaken, dropped, late>>

Send(b, s) ==
    /\ Recorded(b) /\ s \in targets[b]
    /\ targets' = [targets EXCEPT ![b] = @ \ {s}]
    /\ Sends(s, {b})
    /\ UNCHANGED <<line, requests, handlers, subscribed, replays, history, order, cast, overtaken, dropped, late>>

HistoryExpires ==
    /\ history # <<>>
    /\ history' = <<>> /\ order' = <<>>
    /\ Mishap
    /\ UNCHANGED <<line, requests, handlers, subscribed, replays, cast, targets, got, unsent, overtaken, dropped, late>>

Next ==
    \/ \E s \in Sessions :
          \/ \E action \in {"subscribe", "unsubscribe"} : Request(s, action)
          \/ EventFails(s) \/ TransportCloses(s)
    \/ \E h \in handlers : Subscribe(h) \/ Unsubscribe(h)
    \/ \E r \in replays : ReadHistory(r) \/ ReplayFails(r) \/ Replay(r)
    \/ \E b \in Casts : LookUp(b) \/ AppendHistory(b) \/ AppendFails(b) \/ \E s \in Sessions : Send(b, s)
    \/ HistoryExpires

Spec == Init /\ [][Next]_vars

-----------------------------------------------------------------------------
(* What a connected subscriber does not have although every task for it has  *)
(* ended.                                                                    *)
Missing(s) ==
    IF line[s] = "up" /\ s \in subscribed /\ \A r \in replays : r.session # s
    THEN {b \in Casts : Recorded(b) /\ s \notin targets[b]} \ got[s]
    ELSE {}

(* Replay and live broadcasts overlap, so that a subscriber misses only what *)
(* the history does not keep, what was between the lookup of subscribers and *)
(* the history when it subscribed, and what was sent to it in vain (admin.rs *)
(* room_broadcast, subscribe_message_handler.rs                              *)
(* replay_room_history_to_session).                                          *)
OnlyOvertakenIsMissed ==
    \A s \in Sessions : \A b \in Missing(s) :
        cast[b] = "unrecorded" \/ b \in dropped[s] \cup overtaken[s] \cup unsent[s]

(* A session whose connection has closed stays subscribed only if one of its *)
(* requests was handled after the close (server.rs on_disconnected).         *)
RoutesFollowConnections == \A s \in subscribed : line[s] = "up" \/ s \in late
=============================================================================
