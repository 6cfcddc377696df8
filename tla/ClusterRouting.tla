--------------------------- MODULE ClusterRouting ---------------------------
(***************************************************************************)
(* How a message to one user finds the user's connections on every node    *)
(* (cross_node_dispatch.rs, message_router.rs route_message_to_user).      *)
(*                                                                         *)
(* A process claims the name of its node in Redis and renews that lease;   *)
(* it keeps an owner lease in Redis for every connection it has.  A route  *)
(* sends to its own connections, looks up which other nodes own some, puts *)
(* a request into the queue of each and polls for the answers.  A process  *)
(* that has lost its lease ends itself at its next tick, so that for a     *)
(* while two processes may serve one name.  A lease expires at any moment: *)
(* its holder may be slow.                                                 *)
(***************************************************************************)
EXTENDS Naturals, Sequences

CONSTANTS
    Processes, NodeOf,     \* processes, each with the name of its node
    Sessions, HomeOf,      \* connections of the user, each to one process
    Routes, OriginOf,      \* route_message_to_user calls, each of one process
    MaxFaults              \* bound: Redis calls that fail, processes that crash

VARIABLES
    lease,      \* node leases: the process whose token each holds
    up,         \* whether a process is yet to start, up or down
    session,    \* whether a connection is in its process's indexes
    opening,    \* connections whose owner lease is about to be registered
    closing,    \* connections whose owner lease is about to be removed
    owners,     \* owner leases of the user
    renewing,   \* the connections that the maintenance of a process still has to renew
    queue,      \* the dispatch queue of each node
    worker,     \* what the worker of each process is doing
    responses,  \* answers that a route still waits for
    route,      \* each route: where it is, whether it has reached or failed anyone
    asks,       \* where each route is with each node
    granted,    \* history: connections whose owner lease was written and has not run out or
                \* been given back by the connection itself
    steady,     \* history: the connections that could be reached since the route began
    faults

identity == <<lease, up>>
ownership == <<session, opening, closing, owners, granted, renewing>>
bus == <<queue, worker, responses>>
routing == <<route, asks>>
vars == <<identity, ownership, bus, routing, steady, faults>>

ConnectionsOfProcesses ==
    (\A s \in Sessions : HomeOf[s] \in Processes) /\ (\A r \in Routes : OriginOf[r] \in Processes)

Names == {NodeOf[p] : p \in Processes}
NoProcess == "none"
Idle == [step |-> "idle"]
Node(s) == NodeOf[HomeOf[s]]
Connected(p) == {s \in Sessions : HomeOf[s] = p /\ session[s] = "live"}

Fault == faults < MaxFaults /\ faults' = faults + 1

Init ==
    /\ lease = [n \in Names |-> NoProcess] /\ up = [p \in Processes |-> "new"]
    /\ session = [s \in Sessions |-> "new"]
    /\ opening = {} /\ closing = {} /\ owners = {} /\ granted = {}
    /\ renewing = [p \in Processes |-> {}]
    /\ queue = [n \in Names |-> <<>>] /\ worker = [p \in Processes |-> Idle] /\ responses = {}
    /\ route = [r \in Routes |-> [step |-> "new", reached |-> FALSE, failed |-> FALSE]]
    /\ asks = [r \in Routes |-> [n \in Names |-> "none"]]
    /\ steady = [r \in Routes |-> {}]
    /\ faults = 0

-----------------------------------------------------------------------------
(* The name of a node.                                                       *)

(* SessionOwnershipRegistry::claim, when the server starts. *)
Claim(p) ==
    /\ up[p] = "new" /\ lease[NodeOf[p]] = NoProcess
    /\ lease' = [lease EXCEPT ![NodeOf[p]] = p]
    /\ up' = [up EXCEPT ![p] = "up"]
    /\ UNCHANGED <<ownership, bus, routing, faults>>

LeaseExpires(n) ==
    /\ lease[n] # NoProcess
    /\ lease' = [lease EXCEPT ![n] = NoProcess]
    /\ UNCHANGED <<up, ownership, bus, routing, faults>>

(* A process ends, and everything it was doing with it. *)
Down(p) ==
    /\ up' = [up EXCEPT ![p] = "down"]
    /\ session' = [s \in Sessions |-> IF HomeOf[s] = p THEN "gone" ELSE session[s]]
    /\ opening' = {s \in opening : HomeOf[s] # p}
    /\ closing' = {s \in closing : HomeOf[s] # p}
    /\ renewing' = [renewing EXCEPT ![p] = {}]
    /\ worker' = [worker EXCEPT ![p] = Idle]
    /\ route' = [r \in Routes |-> IF OriginOf[r] = p THEN [route[r] EXCEPT !.step = "dead"] ELSE route[r]]
    /\ responses' = {a \in responses : OriginOf[a.route] # p}
    /\ UNCHANGED <<lease, owners, granted, queue, asks>>

Crash(p) == up[p] = "up" /\ Down(p) /\ Fault

(* start_maintenance: a process whose lease has run out or has another token *)
(* ends (and one that cannot tell, which is a Crash); otherwise every        *)
(* connection of the moment is registered again.                             *)
Tick(p) ==
    /\ up[p] = "up" /\ renewing[p] = {}
    /\ \/ /\ lease[NodeOf[p]] = p
          /\ renewing' = [renewing EXCEPT ![p] = Connected(p)]
          /\ UNCHANGED <<identity, session, opening, closing, owners, granted, bus, routing, faults>>
       \/ lease[NodeOf[p]] # p /\ Down(p) /\ UNCHANGED faults

-----------------------------------------------------------------------------
(* Connections and their owner leases.                                       *)

(* A call of register writes the lease or fails; its caller goes on. *)
Registered(s) ==
    \/ owners' = owners \cup {s} /\ granted' = granted \cup {s} /\ UNCHANGED faults
    \/ Fault /\ UNCHANGED <<owners, granted>>

Renew(p, s) ==
    /\ s \in renewing[p]
    /\ Registered(s)
    /\ renewing' = [renewing EXCEPT ![p] = @ \ {s}]
    /\ UNCHANGED <<identity, session, opening, closing, bus, routing>>

(* register_connection: the indexes, then the lease. *)
Connect(s) ==
    /\ session[s] = "new" /\ up[HomeOf[s]] = "up"
    /\ session' = [session EXCEPT ![s] = "live"]
    /\ opening' = opening \cup {s}
    /\ UNCHANGED <<identity, closing, owners, granted, renewing, bus, routing, faults>>

RegisterOwner(s) ==
    /\ s \in opening
    /\ Registered(s)
    /\ opening' = opening \ {s}
    /\ UNCHANGED <<identity, session, closing, renewing, bus, routing>>

(* unregister_connection *)
Disconnect(s) ==
    /\ session[s] = "live"
    /\ session' = [session EXCEPT ![s] = "gone"]
    /\ closing' = closing \cup {s}
    /\ UNCHANGED <<identity, opening, owners, granted, renewing, bus, routing, faults>>

(* The lease of the connection itself, whatever the user has besides. *)
RemovedOfNode(s) == {o \in owners : Node(o) # Node(s)}

Removed(s) == owners \ {s}

UnregisterOwner(s) ==
    /\ s \in closing
    /\ \/ owners' = Removed(s) /\ granted' = granted \ {s} /\ UNCHANGED faults
       \/ Fault /\ UNCHANGED <<owners, granted>>
    /\ closing' = closing \ {s}
    /\ UNCHANGED <<identity, session, opening, renewing, bus, routing>>

OwnerExpires(s) ==
    /\ s \in owners
    /\ owners' = owners \ {s} /\ granted' = granted \ {s}
    /\ UNCHANGED <<identity, session, opening, closing, renewing, bus, routing, faults>>

-----------------------------------------------------------------------------
(* Routes.                                                                   *)

(* send_push_to_user tries every connection of the process. *)
Sent(p, reached, failed) ==
    \E ok \in SUBSET Connected(p) : reached = (ok # {}) /\ failed = (ok # Connected(p))

Start(r) ==
    /\ route[r].step = "new" /\ up[OriginOf[r]] = "up"
    /\ \E reached, failed \in BOOLEAN :
          /\ Sent(OriginOf[r], reached, failed)
          /\ route' = [route EXCEPT ![r] = [step |-> "look up", reached |-> reached, failed |-> failed]]
    /\ UNCHANGED <<identity, ownership, bus, asks, faults>>

(* The other nodes that own a connection. *)
OwnerNodes(r) == {Node(s) : s \in owners} \ {NodeOf[OriginOf[r]]}

(* An error ends the route, although its own connections have the message. *)
LookUp(r) ==
    /\ route[r].step = "look up"
    /\ \/ /\ asks' = [asks EXCEPT ![r] = [n \in Names |-> IF n \in OwnerNodes(r) THEN "ask" ELSE "none"]]
          /\ route' = [route EXCEPT ![r].step = "wait"]
          /\ UNCHANGED faults
       \/ Fault /\ route' = [route EXCEPT ![r].step = "error"] /\ UNCHANGED asks
    /\ UNCHANGED <<identity, ownership, bus>>

Outcome(r, n, reached, failed) ==
    /\ asks' = [asks EXCEPT ![r][n] = "done"]
    /\ route' = [route EXCEPT ![r] =
          [step |-> route[r].step, reached |-> route[r].reached \/ reached, failed |-> route[r].failed \/ failed]]

Waits(r, n) == route[r].step = "wait" /\ asks[r][n] = "wait"

Ask(r, n) ==
    /\ route[r].step = "wait" /\ asks[r][n] = "ask"
    /\ \/ /\ queue' = [queue EXCEPT ![n] = Append(@, r)]
          /\ asks' = [asks EXCEPT ![r][n] = "wait"]
          /\ UNCHANGED <<route, faults>>
       \/ Fault /\ Outcome(r, n, FALSE, TRUE) /\ UNCHANGED queue
    /\ UNCHANGED <<identity, ownership, worker, responses>>

Receive(r, n) ==
    /\ Waits(r, n)
    /\ \E a \in responses :
          /\ a.route = r /\ a.node = n
          /\ Outcome(r, n, a.reached, a.failed)
          /\ responses' = responses \ {a}
    /\ UNCHANGED <<identity, ownership, queue, worker, faults>>

(* No answer in time, or it cannot be read: the answer is left to expire. *)
GiveUpQuietly(r, n) ==
    /\ Waits(r, n)
    /\ Outcome(r, n, FALSE, FALSE)
    /\ responses' = {a \in responses : a.route # r \/ a.node # n}
    /\ UNCHANGED <<identity, ownership, queue, worker, faults>>

GiveUp(r, n) ==
    /\ Waits(r, n)
    /\ Outcome(r, n, FALSE, TRUE)
    /\ responses' = {a \in responses : a.route # r \/ a.node # n}
    /\ UNCHANGED <<identity, ownership, queue, worker, faults>>

(* How the outbox takes the result (resolve_online_claim). *)
Verdict(r) == IF route[r].reached THEN "sent" ELSE IF route[r].failed THEN "retry" ELSE "offline"

Conclude(r) ==
    /\ route[r].step = "wait" /\ \A n \in Names : asks[r][n] \in {"none", "done"}
    /\ route' = [route EXCEPT ![r].step = Verdict(r)]
    /\ UNCHANGED <<identity, ownership, bus, asks, faults>>

-----------------------------------------------------------------------------
(* The worker of a process serves the queue of its name, a request at a time. *)

(* A request whose reply from Redis is lost is out of the queue as well. *)
Pop(p) ==
    LET n == NodeOf[p]
    IN  /\ up[p] = "up" /\ worker[p] = Idle /\ queue[n] # <<>>
        /\ \/ worker' = [worker EXCEPT ![p] = [step |-> "send", route |-> Head(queue[n])]] /\ UNCHANGED faults
           \/ Fault /\ UNCHANGED worker
        /\ queue' = [queue EXCEPT ![n] = Tail(@)]
        /\ UNCHANGED <<identity, ownership, responses, routing>>

Deliver(p) ==
    /\ worker[p].step = "send"
    /\ \E reached, failed \in BOOLEAN :
          /\ Sent(p, reached, failed)
          /\ worker' = [worker EXCEPT ![p] =
                [step |-> "answer", route |-> worker[p].route, reached |-> reached, failed |-> failed]]
    /\ UNCHANGED <<identity, ownership, queue, responses, routing, faults>>

(* Nobody reads the answer to a route that has given up. *)
Answer(p) ==
    LET w == worker[p]
        n == NodeOf[p]
    IN  /\ w.step = "answer"
        /\ \/ /\ responses' = IF ~Waits(w.route, n) THEN responses
                              ELSE responses \cup {[route |-> w.route, node |-> n,
                                                    reached |-> w.reached, failed |-> w.failed]}
              /\ UNCHANGED faults
           \/ Fault /\ UNCHANGED responses
        /\ worker' = [worker EXCEPT ![p] = Idle]
        /\ UNCHANGED <<identity, ownership, queue, routing>>

-----------------------------------------------------------------------------

(* A connection that a route by r's process should find: its own, or one of  *)
(* another node whose owner lease has not run out and whose process is alone *)
(* under its name: of two that are up, the one that has lost the name may    *)
(* still take a request from the queue and answer for connections it does    *)
(* not have.                                                                 *)
Reachable(s, r) ==
    /\ session[s] = "live"
    /\ \/ HomeOf[s] = OriginOf[r]
       \/ /\ Node(s) # NodeOf[OriginOf[r]] /\ s \in granted
          /\ \A p \in Processes \ {HomeOf[s]} : NodeOf[p] = Node(s) => up[p] # "up"

Remember ==
    steady' = [r \in Routes |->
        {s \in (IF route[r].step = "new" THEN Sessions ELSE steady[r]) :
            Reachable(s, r)' /\ route'[r].step \in {"new", "look up", "wait", "offline"}}]

Next ==
    /\ \/ \E p \in Processes : Claim(p) \/ Crash(p) \/ Tick(p) \/ Pop(p) \/ Deliver(p) \/ Answer(p)
       \/ \E n \in Names : LeaseExpires(n)
       \/ \E p \in Processes, s \in Sessions : Renew(p, s)
       \/ \E s \in Sessions :
            Connect(s) \/ RegisterOwner(s) \/ Disconnect(s) \/ UnregisterOwner(s) \/ OwnerExpires(s)
       \/ \E r \in Routes :
            \/ Start(r) \/ LookUp(r) \/ Conclude(r)
            \/ \E n \in Names : Ask(r, n) \/ Receive(r, n) \/ GiveUp(r, n)
    /\ Remember

Spec == Init /\ [][Next]_vars

-----------------------------------------------------------------------------
(* The outbox takes a user for offline, and does not try again, only when no *)
(* connection of the user could be reached all the time: requests that were  *)
(* lost, answered late or for a connection that has gone, and processes that *)
(* ended with a request make it try again instead (route_message_to_user,    *)
(* dispatch_one).                                                            *)
OfflineIsTrue == \A r \in Routes : route[r].step = "offline" => steady[r] = {}
=============================================================================
