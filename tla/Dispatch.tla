------------------------------ MODULE Dispatch ------------------------------
(***************************************************************************)
(* The fragments of a node's messages between the command send (main) and  *)
(* the radio, while the network thread hears peers that come and go        *)
(* (araba_node.cpp). The command looks its target up, gives the lock back, *)
(* and then either transmits each fragment or enqueues each fragment; what *)
(* it found may no longer be true by then. The handler of a packet holds   *)
(* the lock from end to end and is one action.                             *)
(*                                                                         *)
(* The calls of RueQueue are atomic here: what happens to the .rue file    *)
(* while two of them overlap, or when the process stops, is RueFile's      *)
(* subject. A packet carries the address of a peer in range; the addresses *)
(* a node really reads from a frame are Interface's subject.               *)
(***************************************************************************)
EXTENDS Selection, SequencesExt, FiniteSets

CONSTANTS
  Peer,       \* the other nodes
  Sizes,      \* numbers of fragments of a message
  MaxMsgs,    \* bound: messages sent
  MaxMoves,   \* bound: times that a peer comes into range or leaves it
  MaxFaults   \* bound: failures of sendto and of the .rue file

ASSUME ConstAssumption ==
  Sizes \subseteq Nat \ {0} /\ MaxMsgs \in Nat /\ MaxMoves \in Nat /\ MaxFaults \in Nat

VARIABLES
  online,    \* environment: peers in range
  moves,     \* number of moves
  known,     \* known_neighbors
  route,     \* hops and freshness of the RouteEntry of a peer; no hops: no entry
  heardOf,   \* history: peers heard themselves or listed by another
  msgs,      \* messages taken by send: [to, size, canonical], in order
  pc,        \* main: "prompt", "transmit" or "enqueue"
  part,      \* fragment of the last message that main is at
  queue,     \* the .rue queue: pairs of message and fragment, oldest first
  radio,     \* history: fragments passed to send_packet, and with what effect
  unsaved,   \* history: fragments for which enqueue returned false
  faults,    \* number of failures
  stuck      \* the network thread waits for the lock that it holds itself

main == <<msgs, pc, part>>
vars == <<online, moves, known, route, heardOf, main, queue, radio, unsaved, faults, stuck>>

Fragment == UNION { {m} \X (1 .. msgs[m].size) : m \in DOMAIN msgs }
To(f) == msgs[f[1]].to
Effects == {"heard", "missed", "failed"}
NoEntry == [hops |-> 0, fresh |-> FALSE]

-----------------------------------------------------------------------------
Init ==
  /\ online \in SUBSET Peer /\ moves = 0
  /\ known = {} /\ route = [p \in Peer |-> NoEntry] /\ heardOf = {}
  /\ msgs = <<>> /\ pc = "prompt" /\ part = 0
  /\ queue = <<>> /\ radio = <<>> /\ unsaved = {} /\ faults = 0 /\ stuck = FALSE

(* A peer comes into range or leaves it (external).                        *)
Move ==
  /\ moves < MaxMoves /\ moves' = moves + 1
  /\ \E p \in Peer : online' = IF p \in online THEN online \ {p} ELSE online \cup {p}
  /\ UNCHANGED <<known, route, heardOf, main, queue, radio, unsaved, faults, stuck>>

(* add_route: a new entry or a shorter one.                                *)
AddRoute(r, p, hops) ==
  IF r[p].hops = 0 \/ hops < r[p].hops THEN [r EXCEPT ![p] = [hops |-> hops, fresh |-> TRUE]] ELSE r

(* A route is not updated for 30 seconds.                                  *)
Age(p) ==
  /\ route[p].fresh
  /\ route' = [route EXCEPT ![p].fresh = FALSE]
  /\ UNCHANGED <<online, moves, known, heardOf, main, queue, radio, unsaved, faults, stuck>>

(* Fragments fs are passed to send_packet one after the other; a failure   *)
(* of sendto loses one of them, and the result is not looked at.           *)
Transmit(fs) ==
  \E bad \in SUBSET ToSet(fs) :
    /\ faults + Cardinality(bad) <= MaxFaults
    /\ faults' = faults + Cardinality(bad)
    /\ radio' = radio \o [n \in DOMAIN fs |->
                  [frag |-> fs[n],
                   effect |-> CASE fs[n] \in bad -> "failed"
                                [] To(fs[n]) \in online -> "heard"
                                [] OTHER -> "missed"]]

PendingNewestFirst(p) == Reverse(Only(queue, {f \in Fragment : To(f) = p}))   \* mutant: a stack
PendingOnceKnown(p) ==                          \* mutant: only the first packet of a peer flushes
  IF p \in known THEN <<>> ELSE Only(queue, {f \in Fragment : To(f) = p})

Pending(p) == Only(queue, {f \in Fragment : To(f) = p})

RestAll(p) == queue                             \* mutant: entries stay after their delivery
RestOfQueue(p) == Only(queue, Fragment \ ToSet(Pending(p)))

(* The head of the handler, for a packet of any type: the first contact,   *)
(* and the delivery of what waits for its source.                          *)
Contact(p) == IF p \in known THEN route ELSE AddRoute(route, p, 1)
Heard(p) ==
  /\ p \in online /\ ~stuck
  /\ known' = known \cup {p}
  /\ Transmit(Pending(p))
  /\ queue' = RestOfQueue(p)
  /\ UNCHANGED <<online, moves, main, unsaved>>

(* DISCOVERY (answered with a ROUTE_ADV), ACK, a fragment that completes   *)
(* nothing, or another type.                                               *)
HearOther(p) ==
  /\ Heard(p)
  /\ route' = Contact(p) /\ heardOf' = heardOf \cup {p}
  /\ UNCHANGED stuck

(* What pack_routes of another node lists: its neighbours, each with one   *)
(* hop.                                                                    *)
Listed == SUBSET Peer

(* ROUTE_ADV.                                                              *)
HearRouteAdv(p, listed) ==
  /\ Heard(p)
  /\ route' = [q \in Peer |-> IF q \in listed THEN AddRoute(Contact(p), q, 2)[q] ELSE Contact(p)[q]]
  /\ heardOf' = heardOf \cup {p} \cup listed
  /\ UNCHANGED stuck

(* DATA that is to be decrypted: get_pair_cipher asks for the lock that    *)
(* the handler holds.                                                      *)
HearData(p) ==
  /\ Heard(p)
  /\ route' = Contact(p) /\ heardOf' = heardOf \cup {p}
  /\ stuck' = TRUE

-----------------------------------------------------------------------------
(* The command send: the look-up, under the lock. get_pair_cipher and      *)
(* encrypt_payload follow (Cipher).                                        *)
(* known_neighbors holds texts: the one that was typed is found there only  *)
(* if it is spelt as mac_to_string does (canonical); a route is looked up  *)
(* by the bytes.                                                           *)
ReachableByRoute(p, canonical) == route[p].fresh   \* mutant: known_neighbors is not asked
ReachableAlways(p, canonical) == TRUE              \* mutant: the result is not reset to false
Reachable(p, canonical) == (canonical /\ p \in known) \/ route[p].fresh

Lookup(p, size, canonical) ==
  /\ pc = "prompt" /\ ~stuck /\ Len(msgs) < MaxMsgs
  /\ msgs' = Append(msgs, [to |-> p, size |-> size, canonical |-> canonical])
  /\ part' = 1
  /\ pc' = IF Reachable(p, canonical) THEN "transmit" ELSE "enqueue"
  /\ UNCHANGED <<online, moves, known, route, heardOf, queue, radio, unsaved, faults, stuck>>

Following ==
  /\ part' = part + 1
  /\ pc' = IF part = Last(msgs).size THEN "prompt" ELSE pc
  /\ UNCHANGED <<online, moves, known, route, heardOf, msgs, stuck>>

(* One turn of the loop that transmits, each under the lock.               *)
TransmitPart ==
  /\ pc = "transmit" /\ ~stuck
  /\ Transmit(<< <<Len(msgs), part>> >>)
  /\ Following
  /\ UNCHANGED <<queue, unsaved>>

(* One turn of the loop that enqueues, without the lock; the file may not  *)
(* open, and the result is not looked at.                                  *)
EnqueuePart ==
  /\ pc = "enqueue"
  /\ \/ queue' = Append(queue, <<Len(msgs), part>>) /\ UNCHANGED <<unsaved, faults>>
     \/ /\ faults < MaxFaults /\ faults' = faults + 1
        /\ unsaved' = unsaved \cup {<<Len(msgs), part>>} /\ UNCHANGED queue
  /\ Following
  /\ UNCHANGED radio

Next ==
  \/ Move
  \/ \E p \in Peer : Age(p) \/ HearOther(p) \/ HearData(p)
  \/ \E p \in Peer : \E listed \in Listed : HearRouteAdv(p, listed)
  \/ \E p \in Peer, size \in Sizes, canonical \in BOOLEAN : Lookup(p, size, canonical)
  \/ TransmitPart \/ EnqueuePart

Spec == Init /\ [][Next]_vars

(* A peer in range is heard again and again: every node repeats its        *)
(* DISCOVERY in each turn of its loop. Main goes on once it has a command. *)
FairSpec ==
  /\ Spec
  /\ WF_vars(TransmitPart) /\ WF_vars(EnqueuePart)
  /\ \A p \in Peer : WF_vars(HearOther(p))

-----------------------------------------------------------------------------
(* Properties.                                                             *)

Issued == { f \in Fragment : pc = "prompt" \/ f[1] < Len(msgs) \/ f[2] < part }
Waiting(p) == {f \in ToSet(queue) : To(f) = p}
Attempts(f) == Cardinality({n \in DOMAIN radio : radio[n].frag = f})

(* Every fragment that a command has dealt with is in exactly one place,   *)
(* once: in the queue, passed to the radio, or refused by the file. No     *)
(* fragment is transmitted twice, left in the queue after its delivery, or *)
(* dropped between the look-up and the radio.                              *)
OneWay ==
  \A f \in Fragment :
    Cardinality({n \in DOMAIN queue : queue[n] = f}) + Attempts(f)
      + (IF f \in unsaved THEN 1 ELSE 0) = IF f \in Issued THEN 1 ELSE 0

(* The fragments of a message pass the radio in the order in which they    *)
(* were cut, also when its target is heard between two calls of enqueue.   *)
InOrder ==
  \A n, m \in DOMAIN radio :
    (n < m /\ radio[n].frag[1] = radio[m].frag[1]) => radio[n].frag[2] < radio[m].frag[2]

(* Nothing is transmitted into the void for a peer never heard of: such a  *)
(* fragment waits. The loss that remains is that of a peer heard of once   *)
(* and gone since, because known_neighbors never shrinks.                  *)
MissedOnlyIfHeardOf ==
  \A n \in DOMAIN radio : radio[n].effect = "missed" => To(radio[n].frag) \in heardOf

(* For a neighbour at most one message waits in the queue: the one whose   *)
(* look-up came before the first contact and whose enqueue came after it.  *)
(* Only an address spelt in another way than the log's can put more there. *)
OneStraggler ==
  \A p \in known : Cardinality({f[1] : f \in {g \in Waiting(p) : msgs[g[1]].canonical}}) <= 1

(* A fragment in the queue is transmitted once its target stays in range,  *)
(* unless the network thread is stuck.                                     *)
Flushed ==
  \A p \in Peer : (Waiting(p) # {}) ~> (Waiting(p) = {} \/ p \notin online \/ stuck)
=============================================================================
