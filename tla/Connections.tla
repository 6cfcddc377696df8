----------------------------- MODULE Connections ----------------------------
(***************************************************************************)
(* The devices of one user: the session version of each device row, the    *)
(* tokens issued against it, and the connections the tokens open           *)
(* (device_manager_db.rs, unified_token_service.rs,                        *)
(* connect_message_handler.rs, connection_manager.rs).  The manager keeps  *)
(* two indexes: A, from a device to its session, and B, from a session to  *)
(* its state.  Each has its own locks, so every write to one of them is a  *)
(* step here and other handlers come between two of them.                  *)
(***************************************************************************)
EXTENDS Naturals, FiniteSets

CONSTANTS
    Devices, Sessions,
    DeviceOf,      \* the device at the other end of a connection
    MaxVersion,    \* bound: logins, kicks, logouts of one device
    MaxExtras      \* bound: kicks of all, refused calls, failed deliveries, clients that
                   \* leave, sessions authorized again

VARIABLES
    device,        \* privchat_devices: session_version and session_state
    logins,        \* how often a login of the device has begun or ended
    ousted,        \* the value of logins at the last kick
    tokens,        \* access tokens; there is a refresh token beside each
    line,          \* the transport's connection
    handler,       \* the authorization request under way on a session
    early,         \* sessions that were being authorized when their device was kicked
    bound,         \* auth_session_manager: sessions that may use the protected routes
    token,         \* the token each session was authorized with
    indexA, indexB, superseded, total,
    drops,         \* disconnect_device calls under way
    forced,        \* force_close_session calls to be made
    leaving,       \* unregister_connection calls under way
    asked,         \* connections that the server or the client has decided to end
    extras         \* how many of the events that MaxExtras bounds there have been

rows == <<device, logins, ousted, tokens>>
index == <<indexA, indexB, superseded, total>>
ending == <<drops, forced, leaving, asked, extras>>
vars == <<rows, line, handler, early, bound, token, index, ending>>

NoSession == "none"
SessionsOfDevices == NoSession \notin Sessions /\ DeviceOf \in [Sessions -> Devices]

NoToken == [version |-> 0, login |-> 0]
Extra == extras < MaxExtras /\ extras' = extras + 1
Token(d) == [device |-> d, version |-> device'[d].version, login |-> logins'[d]]

Init ==
    /\ device = [d \in Devices |-> [version |-> 0, state |-> "absent"]]
    /\ logins = [d \in Devices |-> 0] /\ ousted = [d \in Devices |-> 0]
    /\ tokens = {}
    /\ line = [s \in Sessions |-> "new"]
    /\ handler = [s \in Sessions |-> "idle"] /\ early = {} /\ bound = {}
    /\ token = [s \in Sessions |-> NoToken]
    /\ indexA = [d \in Devices |-> NoSession]
    /\ indexB = [s \in Sessions |-> "absent"] /\ superseded = {} /\ total = 0
    /\ drops = {} /\ forced = {} /\ leaving = {} /\ asked = {} /\ extras = 0

-----------------------------------------------------------------------------
(* Device rows and tokens.                                                   *)

(* A device that logs in again ends its earlier login and, if it was kicked  *)
(* or revoked, may be used again.                                            *)
Register(row) == [version |-> row.version + 1, state |-> "active"]

Login(d) ==
    /\ device[d].version < MaxVersion
    /\ device' = [device EXCEPT ![d] = Register(@)]
    /\ logins' = [logins EXCEPT ![d] = @ + 1]
    /\ tokens' = tokens \cup {Token(d)}
    /\ UNCHANGED <<ousted, line, handler, early, bound, token, index, ending>>

ValidIfActive(t) == device[t.device].state = "active"

(* verify_device_session *)
Valid(t) == device[t.device].state = "active" /\ t.version >= device[t.device].version

(* A new access token, of the version the device has, for the login that the *)
(* refresh token belongs to.  A refresh token that is revoked or out of date *)
(* is one that no refresh follows.                                           *)
Refresh(t) ==
    /\ Valid(t)
    /\ tokens' = tokens \cup {[t EXCEPT !.version = device[t.device].version]}
    /\ UNCHANGED <<device, logins, ousted, line, handler, early, bound, token, index, ending>>

(* The devices of ds that are active lose their tokens, and with "kicked"    *)
(* the right to connect until they log in again.                             *)
Ended(ds, state) ==
    LET hit == {d \in ds : device[d].state = "active"}
    IN  /\ \A d \in hit : device[d].version < MaxVersion
        /\ device' = [d \in Devices |-> IF d \in hit THEN [version |-> device[d].version + 1, state |-> state] ELSE device[d]]
        /\ logins' = [d \in Devices |-> IF d \in hit THEN logins[d] + 1 ELSE logins[d]]
        /\ ousted' = IF state = "active" THEN ousted
                     ELSE [d \in Devices |-> IF d \in hit THEN logins[d] + 1 ELSE ousted[d]]
        /\ early' = IF state = "active" THEN early
                    ELSE {s \in early : DeviceOf[s] \notin hit}
                         \cup {s \in Sessions : DeviceOf[s] \in hit /\ handler[s] # "idle"}

Drop(d) == [device |-> d, session |-> NoSession, step |-> "find"]

(* rpc device/kick, and the administrator's: the row, then the connection. *)
KickDevice(d) ==
    /\ device[d].state = "active"
    /\ Ended({d}, "kicked")
    /\ drops' = drops \cup {Drop(d)}
    /\ UNCHANGED <<tokens, line, handler, bound, token, index, forced, leaving, asked, extras>>

(* Kick all but one device, or revoke all: the rows, then whatever is        *)
(* connected when the list of connections is taken.                          *)
KickAllBut(ds) ==
    /\ Ended(Devices \ ds, "kicked")
    /\ drops' = drops \cup {[device |-> d, session |-> NoSession, step |-> "list"] : d \in Devices \ ds}
    /\ Extra
    /\ UNCHANGED <<tokens, line, handler, bound, token, index, forced, leaving, asked>>

(* bump_user_sessions leaves the connections alone. *)
BumpUserSessions ==
    /\ \E d \in Devices : device[d].state = "active"
    /\ Ended(Devices, "active")
    /\ UNCHANGED <<tokens, line, handler, bound, token, index, ending>>

-----------------------------------------------------------------------------
(* A connection opens and is authorized.                                     *)

Open(s) ==
    /\ line[s] = "new"
    /\ line' = [line EXCEPT ![s] = "up"]
    /\ indexB' = [indexB EXCEPT ![s] = "connecting"]
    /\ UNCHANGED <<rows, handler, early, bound, token, indexA, superseded, total, ending>>

Verify(s, t) ==
    /\ line[s] = "up" /\ handler[s] = "idle"
    /\ t \in tokens /\ t.device = DeviceOf[s] /\ Valid(t)
    /\ handler' = [handler EXCEPT ![s] = "verified"]
    /\ token' = [token EXCEPT ![s] = t]
    /\ early' = early \ {s}
    /\ IF token[s] = NoToken THEN UNCHANGED extras ELSE Extra
    /\ UNCHANGED <<rows, line, bound, index, drops, forced, leaving, asked>>

(* The session is bound and becomes authenticated in B; it is entered there  *)
(* again when it has been removed.                                           *)
AuthenticateB(s) ==
    /\ handler[s] = "verified"
    /\ handler' = [handler EXCEPT ![s] = "switching"]
    /\ bound' = bound \cup {s}
    /\ superseded' = IF indexB[s] = "absent" THEN superseded \ {s} ELSE superseded
    /\ indexB' = [indexB EXCEPT ![s] = "authenticated"]
    /\ UNCHANGED <<rows, line, early, token, indexA, total, ending>>

(* Under the lock of A: the session that had the device is marked and taken  *)
(* off the count, and A points to the new one.                               *)
AuthenticateA(s) ==
    LET d == DeviceOf[s]
        old == indexA[d]
        replaces == old \notin {NoSession, s}
        counted == replaces /\ indexB[old] = "authenticated"
    IN  /\ handler[s] = "switching"
        /\ handler' = [handler EXCEPT ![s] = "idle"]
        /\ indexB' = IF counted THEN [indexB EXCEPT ![old] = "replaced"] ELSE indexB
        /\ superseded' = IF replaces /\ indexB[old] # "absent" THEN superseded \cup {old} ELSE superseded
        /\ indexA' = [indexA EXCEPT ![d] = s]
        /\ total' = total - (IF counted THEN 1 ELSE 0) + (IF old = s THEN 0 ELSE 1)
        /\ asked' = IF replaces THEN asked \cup {old} ELSE asked
        /\ UNCHANGED <<rows, line, early, bound, token, drops, forced, leaving, extras>>

-----------------------------------------------------------------------------
(* disconnect_device: look the session up in A, mark it in B, take it out of *)
(* A if it is still there, and have the connection closed.                   *)

DropListed(j) ==
    /\ j \in drops /\ j.step = "list"
    /\ drops' = (drops \ {j}) \cup (IF indexA[j.device] = NoSession THEN {} ELSE {Drop(j.device)})
    /\ UNCHANGED <<rows, line, handler, early, bound, token, index, forced, leaving, asked, extras>>

DropFind(j) ==
    /\ j \in drops /\ j.step = "find"
    /\ drops' = (drops \ {j}) \cup
                (IF indexA[j.device] = NoSession THEN {}
                 ELSE {[j EXCEPT !.session = indexA[j.device], !.step = "mark"]})
    /\ asked' = asked \cup ({indexA[j.device]} \ {NoSession})
    /\ UNCHANGED <<rows, line, handler, early, bound, token, index, forced, leaving, extras>>

Closing(s) == IF indexB[s] = "authenticated" THEN [indexB EXCEPT ![s] = "closing"] ELSE indexB

DropMark(j) ==
    /\ j \in drops /\ j.step = "mark"
    /\ indexB' = Closing(j.session)
    /\ drops' = (drops \ {j}) \cup {[j EXCEPT !.step = "remove"]}
    /\ UNCHANGED <<rows, line, handler, early, bound, token, indexA, superseded, total, forced, leaving, asked, extras>>

(* Only the session itself is taken out of A, never the one that followed it. *)
OutOfAByDevice(d, s) == [indexA EXCEPT ![d] = NoSession]

OutOfA(d, s) == IF indexA[d] = s THEN [indexA EXCEPT ![d] = NoSession] ELSE indexA

DropRemove(j) ==
    /\ j \in drops /\ j.step = "remove"
    /\ indexA' = OutOfA(j.device, j.session)
    /\ total' = IF indexA[j.device] = j.session THEN total - 1 ELSE total
    /\ drops' = drops \ {j}
    /\ UNCHANGED <<rows, line, handler, early, bound, token, indexB, superseded, forced, leaving, asked, extras>>

-----------------------------------------------------------------------------
(* Connections end.                                                          *)

(* A protected route on a session that is not bound: it is closed a little   *)
(* later, when it may have been authorized.                                  *)
RpcRefused(s) ==
    /\ line[s] = "up" /\ s \notin bound
    /\ forced' = forced \cup {[session |-> s, by |-> "rpc"]}
    /\ Extra
    /\ UNCHANGED <<rows, line, handler, early, bound, token, index, drops, leaving, asked>>

(* A session whose routing was looked up does not take a message in time. *)
DeliveryFails(s) ==
    /\ indexA[DeviceOf[s]] = s /\ indexB[s] = "authenticated" /\ s \notin superseded
    /\ forced' = forced \cup {[session |-> s, by |-> "delivery"]}
    /\ Extra
    /\ UNCHANGED <<rows, line, handler, early, bound, token, index, drops, leaving, asked>>

Leave(s, by) == [session |-> s, by |-> by, counted |-> FALSE, step |-> "removeB"]

(* force_close_session; after a failed delivery the session is unregistered  *)
(* as well.                                                                  *)
ForceClose(j) ==
    /\ j \in forced
    /\ forced' = forced \ {j}
    /\ indexB' = Closing(j.session)
    /\ asked' = asked \cup {j.session}
    /\ leaving' = leaving \cup (IF j.by = "delivery" THEN {Leave(j.session, "delivery")} ELSE {})
    /\ UNCHANGED <<rows, line, handler, early, bound, token, indexA, superseded, total, drops, extras>>

(* cleanup_stale_connecting marks what is connecting at that moment. *)
Watchdog(s) ==
    /\ indexB[s] = "connecting"
    /\ indexB' = [indexB EXCEPT ![s] = "closing"]
    /\ asked' = asked \cup {s}
    /\ UNCHANGED <<rows, line, handler, early, bound, token, indexA, superseded, total, drops, forced, leaving, extras>>

(* The transport reports the end of a connection, once. *)
TransportCloses(s) ==
    /\ line[s] = "up"
    /\ line' = [line EXCEPT ![s] = "down"]
    /\ bound' = bound \ {s}
    /\ leaving' = leaving \cup {Leave(s, "transport")}
    /\ UNCHANGED <<rows, handler, early, token, index, drops, forced, asked, extras>>

(* The client disconnects, or logs out. *)
ClientLeaves(s, by) ==
    /\ line[s] = "up" /\ handler[s] = "idle"
    /\ by = "logout" => s \in bound /\ device[DeviceOf[s]].version < MaxVersion
    /\ leaving' = leaving \cup {Leave(s, by)}
    /\ asked' = asked \cup {s}
    /\ Extra
    /\ UNCHANGED <<rows, line, handler, early, bound, token, index, drops, forced>>

RemoveB(j) ==
    /\ j \in leaving /\ j.step = "removeB"
    /\ leaving' = (leaving \ {j}) \cup
                  (IF indexB[j.session] = "absent" /\ j.by # "logout" THEN {}
                   ELSE {[j EXCEPT !.step = "cleanA", !.counted = indexB[j.session] = "authenticated"]})
    /\ indexB' = [indexB EXCEPT ![j.session] = "absent"]
    /\ UNCHANGED <<rows, line, handler, early, bound, token, indexA, superseded, total, drops, forced, asked, extras>>

(* Taken off the count: authenticated in B, and the one A pointed to. *)
Uncounted(j) == j.counted /\ indexA[DeviceOf[j.session]] = j.session

CleanA(j) ==
    /\ j \in leaving /\ j.step = "cleanA"
    /\ indexA' = OutOfA(DeviceOf[j.session], j.session)
    /\ total' = IF Uncounted(j) THEN total - 1 ELSE total
    /\ leaving' = (leaving \ {j}) \cup (IF j.by = "logout" THEN {[j EXCEPT !.step = "bump"]} ELSE {})
    /\ UNCHANGED <<rows, line, handler, early, bound, token, indexB, superseded, drops, forced, asked, extras>>

(* A logout ends by unbinding the session and ending the login. *)
LogoutBumps(j) ==
    /\ j \in leaving /\ j.step = "bump"
    /\ device[DeviceOf[j.session]].version < MaxVersion
    /\ device' = [device EXCEPT ![DeviceOf[j.session]].version = @ + 1]
    /\ logins' = [logins EXCEPT ![DeviceOf[j.session]] = @ + 1]
    /\ bound' = bound \ {j.session}
    /\ leaving' = leaving \ {j}
    /\ UNCHANGED <<ousted, tokens, line, handler, early, token, index, drops, forced, asked, extras>>

Next ==
    \/ \E d \in Devices : Login(d) \/ KickDevice(d)
    \/ \E ds \in {{}} \cup {{d} : d \in Devices} : KickAllBut(ds)
    \/ BumpUserSessions
    \/ \E t \in tokens : Refresh(t)
    \/ \E s \in Sessions :
          \/ Open(s) \/ (\E t \in tokens : Verify(s, t)) \/ AuthenticateB(s) \/ AuthenticateA(s)
          \/ RpcRefused(s) \/ DeliveryFails(s) \/ Watchdog(s) \/ TransportCloses(s)
          \/ \E by \in {"client", "logout"} : ClientLeaves(s, by)
    \/ \E j \in drops : DropListed(j) \/ DropFind(j) \/ DropMark(j) \/ DropRemove(j)
    \/ \E j \in forced : ForceClose(j)
    \/ \E j \in leaving : RemoveB(j) \/ CleanA(j) \/ LogoutBumps(j)

Spec == Init /\ [][Next]_vars

-----------------------------------------------------------------------------
Routed(s) == indexA[DeviceOf[s]] = s /\ indexB[s] = "authenticated" /\ s \notin superseded

(* A connection that has been authorized, is up, and that neither side has   *)
(* decided to end, is the one its device's messages go to: no late close of  *)
(* an earlier session and no disconnect that looked A up before takes it     *)
(* away (connection_manager.rs unregister_connection, disconnect_device).    *)
RoutesFollowConnections ==
    \A s \in bound : line[s] = "up" /\ handler[s] = "idle" /\ s \notin asked => Routed(s)

(* A session is opened with a token of a login that a kick, a logout or a    *)
(* later login has ended only if it was being authorized at that moment:     *)
(* once a kick has closed what it found, a routed session of the device      *)
(* belongs to a later login or was between its check and its registration    *)
(* (device_manager_db.rs verify_device_session, kick_device).                *)
KickReaches ==
    \A s \in Sessions :
        Routed(s) /\ token[s].login < ousted[DeviceOf[s]]
            => s \in early \/ \E j \in drops : j.device = DeviceOf[s]
=============================================================================
