------------------------------ MODULE Routing ------------------------------
(***************************************************************************)
(* The routing state of one ARABA node: the RoutingTable of routing.cpp    *)
(* and the set known_neighbors, as the network thread feeds them from the  *)
(* packets it hears (araba_node.cpp, network_loop).                        *)
(*                                                                         *)
(* A packet is what receive_packet hands to the loop: the socket takes     *)
(* every frame on the air (ETH_P_ALL) and isValid() is never called, so    *)
(* nothing is assumed about who sent it or about the hop counts it lists.  *)
(* unpack_routes adds the advertised routes one at a time; the wall clock  *)
(* (std::time) is read anew by every add_route and may be set back.        *)
(***************************************************************************)
EXTENDS Integers, Sequences

CONSTANTS
  Mac,        \* hardware addresses that packets mention
  NoMac,      \* the all-zero next_hop of a default-constructed RouteEntry
  Me,         \* my_mac
  AdvHops,    \* hop bytes that received ROUTE_ADV payloads carry
  StaleSec,   \* seconds without update after which a route is stale (30)
  MaxEntries, \* bound: routes in one received ROUTE_ADV
  MaxClock,   \* bound: last value of the wall clock
  MaxPackets  \* bound: packets heard

ASSUME MacAssumption == Me \in Mac /\ NoMac \notin Mac
ASSUME HopAssumption == AdvHops \subseteq 0 .. 255
ASSUME BoundAssumption ==
  StaleSec \in Nat /\ MaxEntries \in Nat /\ MaxClock \in Nat /\ MaxPackets \in Nat

VARIABLES
  table,            \* RoutingTable::table
  known_neighbors,  \* main's set, shared with the network thread
  now,              \* std::time(nullptr)
  adv,              \* routes of the ROUTE_ADV in hand that are still to be added
  via,              \* source of the packet in hand
  packets,          \* number of packets heard (counts up to MaxPackets)
  offers            \* history: the arguments and the time of every add_route

vars == <<table, known_neighbors, now, adv, via, packets, offers>>

UInt8 == 0 .. 255
RouteEntry == [is_valid : BOOLEAN, next_hop : Mac \cup {NoMac},
               hops : UInt8, last_updated : 0 .. MaxClock]
Advert == [dest : Mac, hops : AdvHops]
Offer == [dest : Mac, next_hop : Mac, hops : UInt8, at : 0 .. MaxClock]

(* A default-constructed RouteEntry; a destination the map does not hold    *)
(* reads the same, because table[key] default-constructs it.                *)
NoRoute == [is_valid |-> FALSE, next_hop |-> NoMac, hops |-> 255, last_updated |-> 0]

-----------------------------------------------------------------------------
(* RoutingTable *)

AddRouteLatest(t, dest, next_hop, hops) ==       \* mutant: the latest offer wins
  [t EXCEPT ![dest] = [is_valid |-> TRUE, next_hop |-> next_hop,
                       hops |-> hops, last_updated |-> now]]

AddRouteOnce(t, dest, next_hop, hops) ==         \* mutant: a valid entry is never replaced
  IF ~t[dest].is_valid
  THEN [t EXCEPT ![dest] = [is_valid |-> TRUE, next_hop |-> next_hop,
                            hops |-> hops, last_updated |-> now]]
  ELSE t

AddRoute(t, dest, next_hop, hops) ==
  IF ~t[dest].is_valid \/ hops < t[dest].hops
  THEN [t EXCEPT ![dest] = [is_valid |-> TRUE, next_hop |-> next_hop,
                            hops |-> hops, last_updated |-> now]]
  ELSE t

(* now - timestamp is computed in uint64_t: a timestamp from the future    *)
(* wraps to a huge age.                                                    *)
IsStale(timestamp) == now < timestamp \/ now - timestamp > StaleSec

FindNextHop(dest) ==
  IF table[dest].is_valid /\ ~IsStale(table[dest].last_updated)
  THEN table[dest].next_hop
  ELSE NoMac

-----------------------------------------------------------------------------
Init ==
  /\ table = [d \in Mac |-> NoRoute]
  /\ known_neighbors = {}
  /\ now = 0
  /\ adv = <<>>
  /\ via = Me
  /\ packets = 0
  /\ offers = {}

(* The call add_route(dest, next_hop, hops).                               *)
Offered(dest, next_hop, hops) ==
  /\ table' = AddRoute(table, dest, next_hop, hops)
  /\ offers' = offers \cup
                 {[dest |-> dest, next_hop |-> next_hop, hops |-> hops, at |-> now]}

(* The head of the loop body, for a packet of any type: the node's own     *)
(* packets are skipped, a source heard for the first time becomes a        *)
(* neighbour with a one-hop route. Only the first packet of a source       *)
(* reaches add_route.                                                      *)
Hear(src) ==
  /\ adv = <<>>
  /\ packets < MaxPackets
  /\ packets' = packets + 1
  /\ src # Me
  /\ via' = src
  /\ known_neighbors' = known_neighbors \cup {src}
  /\ IF src \in known_neighbors
     THEN UNCHANGED <<table, offers>>
     ELSE Offered(src, src, 1)

(* A packet that carries no routes: a DISCOVERY, whose answer leaves the   *)
(* routing state alone, an ACK, a foreign frame, or DATA, after which the  *)
(* network thread may not come back (NodeThreads).                         *)
ReceiveOther(src) ==
  /\ Hear(src)
  /\ UNCHANGED <<now, adv>>

(* A ROUTE_ADV: its routes are queued for UnpackOne.                       *)
ReceiveRouteAdv(src, routes) ==
  /\ Hear(src)
  /\ adv' = routes
  /\ UNCHANGED now

OneFurtherWide(hops) == hops + 1        \* mutant: the hop count is wider than a byte
OneFurther(hops) == (hops + 1) % 256

(* One turn of the loop of unpack_routes; hops + 1 is passed as a uint8_t. *)
UnpackOne ==
  /\ adv # <<>>
  /\ Offered(Head(adv).dest, via, OneFurther(Head(adv).hops))
  /\ adv' = Tail(adv)
  /\ UNCHANGED <<known_neighbors, now, via, packets>>

Tick ==
  /\ now < MaxClock
  /\ now' = now + 1
  /\ UNCHANGED <<table, known_neighbors, adv, via, packets, offers>>

(* The wall clock is set back (external: the operator or a time daemon).   *)
SetClockBack ==
  /\ \E t \in 0 .. now - 1 : now' = t
  /\ UNCHANGED <<table, known_neighbors, adv, via, packets, offers>>

Adverts == UNION {[1 .. n -> Advert] : n \in 0 .. MaxEntries}

Next ==
  \/ \E src \in Mac : ReceiveOther(src)
  \/ \E src \in Mac, routes \in Adverts : ReceiveRouteAdv(src, routes)
  \/ UnpackOne
  \/ Tick
  \/ SetClockBack

Spec == Init /\ [][Next]_vars

-----------------------------------------------------------------------------
(* Every variable has its type; hop counts are bytes, timestamps are clock *)
(* readings.                                                               *)
TypeOK ==
  /\ table \in [Mac -> RouteEntry]
  /\ known_neighbors \subseteq Mac
  /\ now \in 0 .. MaxClock
  /\ adv \in Seq(Advert)
  /\ via \in Mac
  /\ packets \in 0 .. MaxPackets
  /\ offers \subseteq Offer

(* The table remembers the best offer ever made and nothing else: a route  *)
(* is one of the offers passed to add_route, no offer for the same         *)
(* destination had fewer hops, and a destination without offers has no     *)
(* route (add_route, over any sequence of packets).                        *)
BestOffer ==
  \A d \in Mac :
    LET made == {o \in offers : o.dest = d}
    IN  IF made = {}
        THEN table[d] = NoRoute
        ELSE /\ table[d].is_valid
             /\ \E o \in made : /\ o.next_hop = table[d].next_hop
                                /\ o.hops = table[d].hops
                                /\ o.at = table[d].last_updated
             /\ \A o \in made : table[d].hops <= o.hops

(* A neighbour is never further than one hop away, whatever is advertised  *)
(* about it: the one-hop route made when it was first heard is displaced   *)
(* only by a shorter one.                                                  *)
NeighbourWithinOneHop ==
  \A n \in known_neighbors : table[n].is_valid /\ table[n].hops <= 1

(* While the clock runs forward a route that has aged out becomes usable   *)
(* again only through an offer with strictly fewer hops: add_route does    *)
(* not refresh last_updated for an equal route, so a neighbour that keeps  *)
(* talking does not keep its route alive.                                  *)
AgedOut(d) == table[d].is_valid /\ now - table[d].last_updated > StaleSec

AgedRouteNeedsShorter ==
  [][\A d \in Mac :
       (now' >= now /\ AgedOut(d) /\ ~AgedOut(d)') => table'[d].hops < table[d].hops]_vars

(* A destination that was offered within the last StaleSec seconds has a   *)
(* usable next hop, unless an aged offer that was no longer stands in its  *)
(* way (find_next_hop with add_route): "self-healing" as far as it goes.   *)
BlockedOnlyByShorter ==
  \A o \in offers :
    (~IsStale(o.at) /\ FindNextHop(o.dest) = NoMac) =>
      \E b \in offers : b.dest = o.dest /\ b.hops <= o.hops /\ IsStale(b.at)
=============================================================================
