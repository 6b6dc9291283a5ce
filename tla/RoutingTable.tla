---------------------------- MODULE RoutingTable ----------------------------
(***************************************************************************)
(* The conversation -> instance routing cache shared by the gateway         *)
(* (internal/gateway/routing.go).  Get, Set and Delete are single atomic    *)
(* commands on the table; the Redis table swallows an I/O error: a failed   *)
(* Get reads as "" and a failed Set or Delete changes nothing.  An entry of *)
(* the Redis table also disappears when its 35 minute TTL ends.             *)
(***************************************************************************)
EXTENDS Fleet

VARIABLE route      \* route[c]: pod whose instance serves c, or None

RouteInit == route = [c \in Convs |-> None]

RouteGet(c) == route[c]

RouteSet(c, p) == route' = [route EXCEPT ![c] = p]

RouteDelete(c) == route' = [route EXCEPT ![c] = None]
=============================================================================
