------------------------------ MODULE RoutesMC -------------------------------
(* Competing calls, and the routes by which a message finds the connections  *)
(* of a user in a cluster, in one run: a behaviour belongs to one scenario   *)
(* and moves the variables of its component only.                            *)
EXTENDS CallControlMC

CONSTANTS p1, p2, p3, x1, x2, x3, x4, r1, r2, Scenarios

VARIABLES scenario,
          nodeLease, up, session, opening, closing, owners, granted, renewing,
          queue, worker, responses, route, asks, steady, faults

clusterVars == <<nodeLease, up, session, opening, closing, owners, granted, renewing,
                 queue, worker, responses, route, asks, steady, faults>>

(* p2 and p3 have the same name; x3 is a connection of the process that routes. *)
NameOf == (p1 :> "a" @@ p2 :> "b" @@ p3 :> "b")
ConnectedTo == (x1 :> p2 @@ x2 :> p3 @@ x3 :> p1 @@ x4 :> p2)
ByP1 == [r \in {r1, r2} |-> p1]

(* One process takes over from another; a route is tried again; one has a    *)
(* connection of its own; and two connections lead to one process.           *)
Takeover == INSTANCE ClusterRouting WITH
    Processes <- {p1, p2, p3}, NodeOf <- NameOf, Sessions <- {x1, x2}, HomeOf <- ConnectedTo,
    Routes <- {r1}, OriginOf <- ByP1, MaxFaults <- 1, lease <- nodeLease

TriedAgain == INSTANCE ClusterRouting WITH
    Processes <- {p1, p2}, NodeOf <- NameOf, Sessions <- {x1}, HomeOf <- ConnectedTo,
    Routes <- {r1, r2}, OriginOf <- ByP1, MaxFaults <- 1, lease <- nodeLease

AtHome == INSTANCE ClusterRouting WITH
    Processes <- {p1, p2}, NodeOf <- NameOf, Sessions <- {x1, x3}, HomeOf <- ConnectedTo,
    Routes <- {r1}, OriginOf <- ByP1, MaxFaults <- 1, lease <- nodeLease

OneProcess == INSTANCE ClusterRouting WITH
    Processes <- {p1, p2}, NodeOf <- NameOf, Sessions <- {x1, x4}, HomeOf <- ConnectedTo,
    Routes <- {r1}, OriginOf <- ByP1, MaxFaults <- 0, lease <- nodeLease

ASSUME RouteAssumption ==
    /\ Takeover!ConnectionsOfProcesses /\ TriedAgain!ConnectionsOfProcesses
    /\ AtHome!ConnectionsOfProcesses /\ OneProcess!ConnectionsOfProcesses

RoutesInit ==
    /\ scenario \in Scenarios
    /\ Init
    /\ CASE scenario = "again" -> TriedAgain!Init
         [] scenario = "home" -> AtHome!Init
         [] scenario = "two" -> OneProcess!Init
         [] OTHER -> Takeover!Init

RoutesNext ==
    /\ UNCHANGED scenario
    /\ \/ scenario = "calls" /\ Next /\ UNCHANGED clusterVars
       \/ scenario = "takeover" /\ Takeover!Next /\ UNCHANGED vars
       \/ scenario = "again" /\ TriedAgain!Next /\ UNCHANGED vars
       \/ scenario = "home" /\ AtHome!Next /\ UNCHANGED vars
       \/ scenario = "two" /\ OneProcess!Next /\ UNCHANGED vars

RoutesSpec == RoutesInit /\ [][RoutesNext]_<<scenario, vars, clusterVars>>

-----------------------------------------------------------------------------
(* The outbox takes a user for offline only when no connection could be      *)
(* reached since the route began (message_router.rs route_message_to_user).  *)
OfflineIsTrue ==
    /\ scenario = "takeover" => Takeover!OfflineIsTrue
    /\ scenario = "again" => TriedAgain!OfflineIsTrue
    /\ scenario = "home" => AtHome!OfflineIsTrue
    /\ scenario = "two" => OneProcess!OfflineIsTrue
=============================================================================
