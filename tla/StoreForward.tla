---------------------------- MODULE StoreForward ----------------------------
(***************************************************************************)
(* What the .rue queue promises its users: entries are kept in the order   *)
(* they were stored until the oldest one of some destination is handed on; *)
(* every stored entry is either still queued or was handed on, once.       *)
(***************************************************************************)
EXTENDS Naturals, Sequences, SequencesExt

CONSTANT Peer

VARIABLES
  queue,     \* entries not yet handed on, oldest first
  forwarded  \* numbers of the entries handed on, in that order

Init == queue = <<>> /\ forwarded = <<>>

Store(p) ==
  /\ queue' = Append(queue, [id |-> Len(queue) + Len(forwarded) + 1, dest |-> p])
  /\ UNCHANGED forwarded

Forward(p) ==
  \E k \in DOMAIN queue :
    /\ queue[k].dest = p
    /\ \A j \in 1 .. k - 1 : queue[j].dest # p
    /\ forwarded' = Append(forwarded, queue[k].id)
    /\ queue' = RemoveAt(queue, k)

Next == \E p \in Peer : Store(p) \/ Forward(p)

Spec == Init /\ [][Next]_<<queue, forwarded>>
=============================================================================
