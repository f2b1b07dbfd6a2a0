--------------------------- MODULE RoutingProofs ---------------------------
(***************************************************************************)
(* Proofs about Routing, for every set of addresses, staleness limit and   *)
(* bound. BestOffer is inductive relative to TypeOK once the offers and    *)
(* the table are updated by the same call (Offered); the two consequences  *)
(* about neighbours and aged routes follow from it.                        *)
(***************************************************************************)
EXTENDS Routing, TLAPS

(* add_route returns a well-typed table, and what it stores is either the  *)
(* old entry or the offer itself.                                          *)
LEMMA AddRouteType ==
  ASSUME TypeOK, NEW d \in Mac, NEW v \in Mac, NEW h \in UInt8
  PROVE  AddRoute(table, d, v, h) \in [Mac -> RouteEntry]
<1>1. [is_valid |-> TRUE, next_hop |-> v, hops |-> h, last_updated |-> now] \in RouteEntry
  BY DEF TypeOK, RouteEntry
<1> QED BY <1>1 DEF AddRoute, TypeOK

(* add_route keeps the types.                                              *)
LEMMA OfferedType ==
  ASSUME TypeOK, NEW d \in Mac, NEW v \in Mac, NEW h \in UInt8, Offered(d, v, h)
  PROVE  table' \in [Mac -> RouteEntry] /\ offers' \subseteq Offer
<1>1. table' \in [Mac -> RouteEntry]
  BY AddRouteType DEF Offered
<1>2. [dest |-> d, next_hop |-> v, hops |-> h, at |-> now] \in Offer
  BY DEF TypeOK, Offer
<1> QED BY <1>1, <1>2 DEF Offered, TypeOK

(* One hop more is a byte again.                                           *)
LEMMA UnpackedHops == ASSUME NEW h \in AdvHops PROVE (h + 1) % 256 \in UInt8
BY HopAssumption DEF UInt8

(* The route of an advertisement that is read next.                        *)
LEMMA AdvertType ==
  ASSUME TypeOK, adv # <<>>
  PROVE  Head(adv).dest \in Mac /\ (Head(adv).hops + 1) % 256 \in UInt8
<1>1. Head(adv) \in Advert
  BY DEF TypeOK
<1> QED BY <1>1, UnpackedHops DEF Advert

(* What an entry of the table holds.                                       *)
LEMMA EntryType ==
  ASSUME TypeOK, NEW d \in Mac
  PROVE  table[d].hops \in UInt8 /\ table[d].last_updated \in 0 .. MaxClock
<1>1. table[d] \in RouteEntry
  BY DEF TypeOK
<1> QED BY <1>1 DEF RouteEntry

(* The hops of an offer are a byte.                                        *)
LEMMA OfferType == ASSUME TypeOK, NEW o \in offers PROVE o.hops \in UInt8
<1>1. o \in Offer
  BY DEF TypeOK
<1> QED BY <1>1 DEF Offer

(* Every variable of Routing keeps its type: hop counts stay bytes,        *)
(* timestamps stay clock readings (add_route, unpack_routes, network_loop). *)
THEOREM TypeCorrect == Spec => []TypeOK
<1>1. Init => TypeOK
  BY MacAssumption, BoundAssumption
     DEF Init, TypeOK, NoRoute, RouteEntry, UInt8
<1>2. TypeOK /\ [Next]_vars => TypeOK'
  <2> SUFFICES ASSUME TypeOK, [Next]_vars PROVE TypeOK'
    OBVIOUS
  <2>0. ASSUME NEW src \in Mac, Hear(src)
        PROVE  /\ table' \in [Mac -> RouteEntry] /\ offers' \subseteq Offer
               /\ known_neighbors' \subseteq Mac /\ via' \in Mac /\ packets' \in 0 .. MaxPackets
    <3>1. CASE src \in known_neighbors
      BY <2>0, <3>1, BoundAssumption DEF Hear, TypeOK
    <3>2. CASE src \notin known_neighbors
      <4>1. Offered(src, src, 1) /\ 1 \in UInt8
        BY <2>0, <3>2 DEF Hear, UInt8
      <4>2. table' \in [Mac -> RouteEntry] /\ offers' \subseteq Offer
        BY <4>1, OfferedType
      <4> QED BY <2>0, <4>2, BoundAssumption DEF Hear, TypeOK
    <3> QED BY <3>1, <3>2
  <2>1. CASE \E src \in Mac : ReceiveOther(src)
    BY <2>0, <2>1 DEF ReceiveOther, TypeOK
  <2>2. CASE \E src \in Mac, routes \in Adverts : ReceiveRouteAdv(src, routes)
    <3>1. PICK src \in Mac, routes \in Adverts : ReceiveRouteAdv(src, routes)
      BY <2>2
    <3>2. routes \in Seq(Advert)
      BY BoundAssumption DEF Adverts
    <3> QED BY <2>0, <3>1, <3>2 DEF ReceiveRouteAdv, TypeOK
  <2>3. CASE UnpackOne
    <3>1. Tail(adv) \in Seq(Advert)
      BY <2>3 DEF OneFurther, UnpackOne, TypeOK
    <3>2. Head(adv).dest \in Mac /\ (Head(adv).hops + 1) % 256 \in UInt8
      BY <2>3, AdvertType DEF OneFurther, UnpackOne
    <3>3. table' \in [Mac -> RouteEntry] /\ offers' \subseteq Offer
      BY <2>3, <3>2, OfferedType DEF OneFurther, UnpackOne, TypeOK
    <3> QED BY <2>3, <3>1, <3>3 DEF OneFurther, UnpackOne, TypeOK
  <2>4. CASE Tick
    BY <2>4, BoundAssumption DEF Tick, TypeOK
  <2>5. CASE SetClockBack
    BY <2>5, BoundAssumption DEF SetClockBack, TypeOK
  <2>6. CASE UNCHANGED vars
    BY <2>6 DEF vars, TypeOK
  <2> QED BY <2>1, <2>2, <2>3, <2>4, <2>5, <2>6 DEF Next
<1> QED BY <1>1, <1>2, PTL DEF Spec

-----------------------------------------------------------------------------
(* One call of add_route keeps the table the best of the offers: the entry *)
(* of the destination is compared with the new offer, no other entry and   *)
(* no other destination's set of offers changes.                           *)
LEMMA OfferedBest ==
  ASSUME TypeOK, BestOffer, NEW d \in Mac, NEW v \in Mac, NEW h \in UInt8, Offered(d, v, h)
  PROVE  BestOffer'
<1> DEFINE new == [dest |-> d, next_hop |-> v, hops |-> h, at |-> now]
           entry == [is_valid |-> TRUE, next_hop |-> v, hops |-> h, last_updated |-> now]
           made(e) == {o \in offers : o.dest = e}
<1>1. SUFFICES ASSUME NEW e \in Mac
               PROVE  IF {o \in offers' : o.dest = e} = {}
                      THEN table'[e] = NoRoute
                      ELSE /\ table'[e].is_valid
                           /\ \E o \in {x \in offers' : x.dest = e} :
                                /\ o.next_hop = table'[e].next_hop
                                /\ o.hops = table'[e].hops
                                /\ o.at = table'[e].last_updated
                           /\ \A o \in {x \in offers' : x.dest = e} : table'[e].hops <= o.hops
  BY DEF BestOffer
<1>2. offers' = offers \cup {new}
  BY DEF Offered
<1>3. CASE e # d
  <2>1. {o \in offers' : o.dest = e} = made(e) /\ table'[e] = table[e]
    BY <1>2, <1>3 DEF Offered, AddRoute, TypeOK
  <2> HIDE DEF made
  <2>2. IF made(e) = {} THEN table[e] = NoRoute
        ELSE /\ table[e].is_valid
             /\ \E o \in made(e) : /\ o.next_hop = table[e].next_hop
                                   /\ o.hops = table[e].hops
                                   /\ o.at = table[e].last_updated
             /\ \A o \in made(e) : table[e].hops <= o.hops
    BY DEF BestOffer, made
  <2> QED BY <2>1, <2>2
<1>4. CASE e = d
  <2>1. new \in offers' /\ new.dest = d /\ {o \in offers' : o.dest = d} = made(d) \cup {new}
    BY <1>2
  <2>2. table[d].hops \in Int /\ h \in Int
    BY EntryType DEF UInt8
  <2>3. \A o \in offers : o.hops \in Int
    BY OfferType DEF UInt8
  <2>4. CASE ~table[d].is_valid \/ h < table[d].hops
    <3>1. table'[d] = entry
      BY <2>4 DEF Offered, AddRoute, TypeOK
    <3>2. \A o \in made(d) : h <= o.hops
      <4>1. CASE made(d) = {}
        BY <4>1
      <4>2. CASE made(d) # {}
        BY <2>2, <2>3, <2>4, <4>2 DEF BestOffer
      <4> QED BY <4>1, <4>2
    <3> QED BY <1>4, <2>1, <2>2, <3>1, <3>2
  <2>5. CASE table[d].is_valid /\ ~(h < table[d].hops)
    <3>1. table'[d] = table[d]
      BY <2>5 DEF Offered, AddRoute, TypeOK
    <3>2. made(d) # {}
      BY <2>5 DEF BestOffer, NoRoute
    <3>3. /\ \E o \in made(d) : /\ o.next_hop = table[d].next_hop
                                /\ o.hops = table[d].hops
                                /\ o.at = table[d].last_updated
          /\ \A o \in made(d) : table[d].hops <= o.hops
      BY <3>2 DEF BestOffer
    <3>4. table[d].hops <= new.hops
      BY <2>2, <2>5
    <3> HIDE DEF made, new
    <3> QED BY <1>4, <2>1, <2>5, <3>1, <3>3, <3>4
  <2> QED BY <2>4, <2>5
<1> QED BY <1>3, <1>4

(* The table holds the best offer ever made to add_route, for each         *)
(* destination, over every sequence of packets and clock changes.          *)
THEOREM BestOfferKept == Spec => []BestOffer
<1>1. Init => BestOffer
  BY DEF Init, BestOffer
<1>2. TypeOK /\ BestOffer /\ [Next]_vars => BestOffer'
  <2> SUFFICES ASSUME TypeOK, BestOffer, [Next]_vars PROVE BestOffer'
    OBVIOUS
  <2>0. ASSUME UNCHANGED <<table, offers>> PROVE BestOffer'
    BY <2>0 DEF BestOffer
  <2>1. ASSUME NEW src \in Mac, Hear(src) PROVE BestOffer'
    BY <2>0, <2>1, OfferedBest DEF Hear, UInt8
  <2>2. CASE \E src \in Mac : ReceiveOther(src)
    BY <2>1, <2>2 DEF ReceiveOther
  <2>3. CASE \E src \in Mac, routes \in Adverts : ReceiveRouteAdv(src, routes)
    BY <2>1, <2>3 DEF ReceiveRouteAdv
  <2>4. CASE UnpackOne
    <3>1. Head(adv).dest \in Mac /\ (Head(adv).hops + 1) % 256 \in UInt8
      BY <2>4, AdvertType DEF OneFurther, UnpackOne
    <3> QED BY <2>4, <3>1, OfferedBest DEF OneFurther, UnpackOne, TypeOK
  <2>5. CASE Tick \/ SetClockBack \/ UNCHANGED vars
    BY <2>0, <2>5 DEF Tick, SetClockBack, vars
  <2> QED BY <2>2, <2>3, <2>4, <2>5 DEF Next
<1> QED BY <1>1, <1>2, TypeCorrect, PTL DEF Spec

(* A neighbour's one-hop offer was made when it was first heard, so the    *)
(* best offer for it has at most one hop.                                  *)
NeighbourOffered ==
  \A n \in known_neighbors : \E o \in offers : o.dest = n /\ o.hops = 1

(* No offer is forgotten.                                                  *)
LEMMA OffersGrow == ASSUME Next \/ UNCHANGED vars PROVE offers \subseteq offers'
<1>1. ASSUME NEW src \in Mac, Hear(src) PROVE offers \subseteq offers'
  BY <1>1 DEF Hear, Offered
<1> QED BY <1>1 DEF Next, ReceiveOther, ReceiveRouteAdv, UnpackOne, Offered, Tick,
                    SetClockBack, vars

(* add_route keeps a neighbour's one hop whatever others advertise.        *)
THEOREM NeighbourOneHop == Spec => []NeighbourWithinOneHop
<1>1. Init => NeighbourOffered
  BY DEF Init, NeighbourOffered
<1>2. NeighbourOffered /\ [Next]_vars => NeighbourOffered'
  <2> SUFFICES ASSUME NeighbourOffered, [Next]_vars PROVE NeighbourOffered'
    OBVIOUS
  <2>1. offers \subseteq offers'
    BY OffersGrow
  <2>2. ASSUME NEW src \in Mac, Hear(src) PROVE NeighbourOffered'
    <3>1. src \in known_neighbors \/ \E o \in offers' : o.dest = src /\ o.hops = 1
      <4>1. [dest |-> src, next_hop |-> src, hops |-> 1, at |-> now] \in offers'
              \/ src \in known_neighbors
        BY <2>2 DEF Hear, Offered
      <4> QED BY <4>1
    <3> QED BY <2>1, <2>2, <3>1 DEF Hear, NeighbourOffered
  <2>3. ASSUME UNCHANGED known_neighbors PROVE NeighbourOffered'
    BY <2>1, <2>3 DEF NeighbourOffered
  <2> QED BY <2>2, <2>3 DEF Next, ReceiveOther, ReceiveRouteAdv, UnpackOne, Tick,
                            SetClockBack, vars
<1>3. TypeOK /\ BestOffer /\ NeighbourOffered => NeighbourWithinOneHop
  <2> SUFFICES ASSUME TypeOK, BestOffer, NeighbourOffered, NEW n \in known_neighbors
               PROVE  table[n].is_valid /\ table[n].hops <= 1
    BY DEF NeighbourWithinOneHop
  <2>1. n \in Mac
    BY DEF TypeOK
  <2>1a. table[n].hops \in Int
    BY <2>1, EntryType DEF UInt8
  <2>2. PICK o \in offers : o.dest = n /\ o.hops = 1
    BY DEF NeighbourOffered
  <2> QED BY <2>1, <2>1a, <2>2 DEF BestOffer
<1> QED BY <1>1, <1>2, <1>3, TypeCorrect, BestOfferKept, PTL DEF Spec

(* An entry changes only by becoming strictly shorter, once it is valid.   *)
LEMMA OfferedShortens ==
  ASSUME TypeOK, NEW d \in Mac, NEW v \in Mac, NEW h \in UInt8, Offered(d, v, h),
         NEW e \in Mac, table[e].is_valid
  PROVE  table'[e] = table[e] \/ table'[e].hops < table[e].hops
BY DEF Offered, AddRoute, TypeOK

(* While the clock runs forward, an aged-out route comes back to life only *)
(* through an offer with strictly fewer hops (add_route, line 26).         *)
THEOREM AgedNeedsShorter == Spec => AgedRouteNeedsShorter
<1> DEFINE P == \A d \in Mac : (now' >= now /\ AgedOut(d) /\ ~AgedOut(d)')
                                  => table'[d].hops < table[d].hops
<1>1. TypeOK /\ [Next]_vars => P \/ UNCHANGED vars
  <2> SUFFICES ASSUME TypeOK, [Next]_vars, NEW d \in Mac,
                      now' >= now, AgedOut(d), ~AgedOut(d)'
               PROVE  table'[d].hops < table[d].hops
    OBVIOUS
  <2>1. now \in Int /\ table[d].last_updated \in Int /\ StaleSec \in Int /\ now' \in Int
    BY EntryType, BoundAssumption DEF TypeOK, Next, ReceiveOther, ReceiveRouteAdv,
       UnpackOne, Tick, SetClockBack, vars
  <2>2. table'[d] # table[d]
    BY <2>1 DEF AgedOut
  <2>3. table[d].is_valid
    BY DEF AgedOut
  <2>4. ASSUME NEW src \in Mac, Hear(src) PROVE table'[d].hops < table[d].hops
    BY <2>2, <2>3, <2>4, OfferedShortens DEF Hear, UInt8
  <2>5. CASE UnpackOne
    <3>1. Head(adv).dest \in Mac /\ (Head(adv).hops + 1) % 256 \in UInt8
      BY <2>5, AdvertType DEF OneFurther, UnpackOne
    <3> QED BY <2>2, <2>3, <2>5, <3>1, OfferedShortens DEF OneFurther, UnpackOne, TypeOK
  <2> QED BY <2>2, <2>4, <2>5 DEF Next, ReceiveOther, ReceiveRouteAdv, Tick,
                                  SetClockBack, vars
<1> QED BY <1>1, TypeCorrect, PTL DEF Spec, AgedRouteNeedsShorter

(* A fresh offer whose destination has no usable next hop is blocked by    *)
(* the best offer, which is no longer and has aged (find_next_hop).        *)
THEOREM BlockedByShorter == Spec => []BlockedOnlyByShorter
<1>1. TypeOK /\ BestOffer => BlockedOnlyByShorter
  <2> SUFFICES ASSUME TypeOK, BestOffer, NEW o \in offers, FindNextHop(o.dest) = NoMac
               PROVE  \E b \in offers : b.dest = o.dest /\ b.hops <= o.hops /\ IsStale(b.at)
    BY DEF BlockedOnlyByShorter
  <2>1. o.dest \in Mac
    BY DEF TypeOK, Offer
  <2>2. PICK b \in offers : /\ b.dest = o.dest
                           /\ b.next_hop = table[o.dest].next_hop
                           /\ b.hops = table[o.dest].hops
                           /\ b.at = table[o.dest].last_updated
    BY <2>1 DEF BestOffer
  <2>3. table[o.dest].is_valid /\ table[o.dest].hops <= o.hops
    BY <2>1 DEF BestOffer
  <2>4. table[o.dest].next_hop # NoMac
    BY <2>2, MacAssumption DEF TypeOK, Offer
  <2>5. IsStale(table[o.dest].last_updated)
    BY <2>3, <2>4 DEF FindNextHop
  <2> QED BY <2>2, <2>3, <2>5
<1> QED BY <1>1, TypeCorrect, BestOfferKept, PTL
=============================================================================
