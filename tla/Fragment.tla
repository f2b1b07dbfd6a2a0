------------------------------ MODULE Fragment ------------------------------
(***************************************************************************)
(* FragmentManager (fragment.cpp) on both sides of the air: senders cut an *)
(* encrypted message into fragments, one receiver puts them together again *)
(* and drops what stays incomplete.                                        *)
(*                                                                         *)
(* The air loses, repeats and reorders packets. The receiver keeps partial *)
(* messages under msg_id alone, and every node counts its ids from 1. A    *)
(* message that fits one packet has no FragHeader: the receiver reads the  *)
(* first bytes of its IV as one (araba_node.cpp, DATA handler).            *)
(*                                                                         *)
(* Lengths are in units; a packet carries FragPayload of them. What the    *)
(* handler does with a complete message (get_pair_cipher, where the        *)
(* network thread stops, see NodeThreads) is outside this module.          *)
(***************************************************************************)
EXTENDS Integers, Sequences, FiniteSets, FiniteSetsExt

CONSTANTS
  Sender,       \* nodes that send to the receiver
  FragPayload,  \* units in one packet (MAX_FRAG_PAYLOAD, 480 bytes)
  MaxOut,       \* units in the caller's buffer (2048 bytes)
  IdWidth,      \* msg_id counts modulo this (2^16)
  Lens,         \* lengths of encrypted messages
  IvIndex, IvTotal, IvLen,  \* frag_index, frag_total, total_len that an IV may look like
  Timeout,      \* fragment_timeout_sec (60)
  Period,       \* turns of the outer loop between two cleanups (100)
  MaxMsgs,      \* bound: messages sent
  MaxRestarts,  \* bound: restarts of nodes
  MaxDups       \* bound: packets the air repeats

ASSUME ConstAssumption ==
  /\ FragPayload \in Nat \ {0} /\ MaxOut \in Nat /\ IdWidth \in Nat \ {0, 1}
  /\ Lens \subseteq Nat \ {0}
  /\ IvIndex \subseteq Nat /\ IvTotal \subseteq Nat /\ IvLen \subseteq Nat
  /\ Timeout \in Nat /\ Period \in Nat \ {0}
  /\ MaxMsgs \in Nat /\ MaxRestarts \in Nat /\ MaxDups \in Nat

VARIABLES
  next_msg_id,  \* of every sender
  partials,     \* the receiver's map: msg_id |-> PartialMsg
  turns,        \* cleanup_counter
  air,          \* packets on their way
  msgs,         \* history: length and msg_id of every message sent, in order
  outputs,      \* history: what reassemble_packet has returned
  heard,        \* history: single messages that were received
  direct,       \* history: single messages that were decrypted directly
  restarts, dups

vars == <<next_msg_id, partials, turns, air, msgs, outputs, heard, direct, restarts, dups>>

Ids == 0 .. IdWidth - 1

(* FragHeader, and the message and its piece that the packet carries.      *)
Packet(m, piece, len, id, index, total, total_len) ==
  [msg |-> m, piece |-> piece, len |-> len,
   msg_id |-> id, frag_index |-> index, frag_total |-> total, total_len |-> total_len]

-----------------------------------------------------------------------------
Init ==
  /\ next_msg_id = [s \in Sender |-> 1]
  /\ partials = [id \in {} |-> 0]
  /\ turns = 0 /\ air = {}
  /\ msgs = <<>> /\ outputs = {} /\ heard = {} /\ direct = {}
  /\ restarts = 0 /\ dups = 0

-----------------------------------------------------------------------------
(* Sending: fragment_message.                                              *)

Total(len) == (len + FragPayload - 1) \div FragPayload
FragLen(len, i) == Min({FragPayload, len - i * FragPayload})

NextIdWide(id) == id + 1   \* mutant: the id does not wrap
NextId(id) == (id + 1) % IdWidth

SendFragments(s, len) ==
  /\ Len(msgs) < MaxMsgs /\ len > FragPayload
  /\ LET id == next_msg_id[s]
     IN  /\ air' = air \cup {Packet(Len(msgs) + 1, i, FragLen(len, i), id, i, Total(len), len)
                               : i \in 0 .. Total(len) - 1}
         /\ msgs' = Append(msgs, [len |-> len, id |-> id])
         /\ next_msg_id' = [next_msg_id EXCEPT ![s] = NextId(id)]
  /\ UNCHANGED <<partials, turns, outputs, heard, direct, restarts, dups>>

(* A message in one packet; its IV looks like the FragHeader given.        *)
SendSingle(len, id, index, total, total_len) ==
  /\ Len(msgs) < MaxMsgs /\ len <= FragPayload
  /\ air' = air \cup {Packet(Len(msgs) + 1, 0, len, id, index, total, total_len)}
  /\ msgs' = Append(msgs, [len |-> len, id |-> id])
  /\ UNCHANGED <<next_msg_id, partials, turns, outputs, heard, direct, restarts, dups>>

-----------------------------------------------------------------------------
(* Receiving: reassemble_packet.                                           *)

Held(id) == IF id \in DOMAIN partials THEN partials[id].fragments ELSE [i \in {} |-> 0]

(* Seconds since `received`, which every packet sets anew.                 *)
AgeOfFirst(p) ==   \* mutant: received is set by the first packet only
  IF p.msg_id \in DOMAIN partials THEN partials[p.msg_id].age ELSE 0
AgeAfter(p) == 0

(* partials[fh.msg_id] with the packet's data stored under its index; the  *)
(* history `since` counts the seconds since the last packet of the id.     *)
Stored(p) ==
  [fragments |-> [i \in DOMAIN Held(p.msg_id) \cup {p.frag_index} |->
                    IF i = p.frag_index THEN [msg |-> p.msg, piece |-> p.piece, len |-> p.len]
                    ELSE Held(p.msg_id)[i]],
   age |-> AgeAfter(p), since |-> 0]

CompleteAtLast(p) == p.frag_index = p.frag_total - 1   \* mutant: the last index completes
CompleteOverfull(p) ==   \* mutant: one more than announced
  Cardinality(DOMAIN Stored(p).fragments) > p.frag_total
Complete(p) == Cardinality(DOMAIN Stored(p).fragments) = p.frag_total

FitsAlways(p) == TRUE   \* mutant: the declared length is not looked at
Fits(p) == p.total_len <= MaxOut

(* The copy loop. What has been written before the piece of index n, for   *)
(* every n: an absent index adds nothing, and no byte goes beyond the      *)
(* declared length.                                                        *)
Offsets(frags, total, total_len) ==
  LET Size(i) == IF i \in DOMAIN frags THEN frags[i].len ELSE 0
      offset[n \in 0 .. total] ==
        IF n = 0 THEN 0 ELSE Min({total_len, offset[n - 1] + Size(n - 1)})
  IN  offset

(* The pieces in the order of their index, each as far as it is copied.    *)
Assembled(p) ==
  LET frags == Stored(p).fragments
      offset == Offsets(frags, p.frag_total, p.total_len)
  IN  [id |-> p.msg_id, declared |-> p.total_len, len |-> offset[p.frag_total],
       pieces |-> [i \in {j \in DOMAIN frags : j < p.frag_total} |->
                     [frags[i] EXCEPT !.len = offset[i + 1] - offset[i]]]]

Without(id) == [j \in DOMAIN partials \ {id} |-> partials[j]]
With(id, partial) == [j \in DOMAIN partials \cup {id} |-> IF j = id THEN partial ELSE partials[j]]

Reassemble(p) ==
  /\ partials' = IF Complete(p) THEN Without(p.msg_id) ELSE With(p.msg_id, Stored(p))
  /\ outputs' = outputs \cup IF Complete(p) /\ Fits(p) THEN {Assembled(p)} ELSE {}

(* The DATA handler: a packet is a fragment if its frag_total is above 1,  *)
(* otherwise it is decrypted at once. The air may keep a copy.             *)
Receive(p) ==
  /\ \/ air' = air \ {p} /\ UNCHANGED dups
     \/ dups < MaxDups /\ dups' = dups + 1 /\ UNCHANGED air
  /\ heard' = heard \cup IF msgs[p.msg].len <= FragPayload THEN {p.msg} ELSE {}
  /\ IF p.frag_total > 1
     THEN Reassemble(p) /\ UNCHANGED direct
     ELSE direct' = direct \cup {p.msg} /\ UNCHANGED <<partials, outputs>>
  /\ UNCHANGED <<next_msg_id, turns, msgs, restarts>>

Lose(p) ==
  /\ air' = air \ {p}
  /\ UNCHANGED <<next_msg_id, partials, turns, msgs, outputs, heard, direct, restarts, dups>>

-----------------------------------------------------------------------------
StaleNever(id) == FALSE   \* mutant: nothing is erased
Stale(id) == partials[id].age > Timeout

cleanup_stale == [id \in {j \in DOMAIN partials : ~Stale(j)} |-> partials[id]]

(* One turn of the outer loop; every Period-th calls cleanup_stale.        *)
Turn ==
  /\ turns' = (turns + 1) % Period
  /\ partials' = IF turns + 1 = Period THEN cleanup_stale ELSE partials
  /\ UNCHANGED <<next_msg_id, air, msgs, outputs, heard, direct, restarts, dups>>

(* Seconds beyond Timeout + 1 make no difference and are not counted.      *)
Later(n) == Min({n + 1, Timeout + 1})

Tick ==
  /\ partials' = [id \in DOMAIN partials |->
                    [partials[id] EXCEPT !.age = Later(@), !.since = Later(@)]]
  /\ UNCHANGED <<next_msg_id, turns, air, msgs, outputs, heard, direct, restarts, dups>>

(* A node is started anew and its FragmentManager constructed again.       *)
RestartSender(s) ==
  /\ restarts < MaxRestarts /\ restarts' = restarts + 1
  /\ next_msg_id' = [next_msg_id EXCEPT ![s] = 1]
  /\ UNCHANGED <<partials, turns, air, msgs, outputs, heard, direct, dups>>

RestartReceiver ==
  /\ restarts < MaxRestarts /\ restarts' = restarts + 1
  /\ partials' = [id \in {} |-> 0] /\ turns' = 0
  /\ UNCHANGED <<next_msg_id, air, msgs, outputs, heard, direct, dups>>

Next ==
  \/ \E s \in Sender, len \in Lens : SendFragments(s, len)
  \/ \E len \in Lens, id \in Ids, index \in IvIndex, total \in IvTotal, total_len \in IvLen :
       SendSingle(len, id, index, total, total_len)
  \/ \E p \in air : Receive(p) \/ Lose(p)
  \/ Turn
  \/ Tick
  \/ (\E s \in Sender : RestartSender(s)) \/ RestartReceiver

Spec == Init /\ [][Next]_vars

(* Time passes, and frames keep the receiver's outer loop turning.         *)
FairSpec == Spec /\ WF_vars(Tick) /\ WF_vars(Turn)

-----------------------------------------------------------------------------
Seconds == 0 .. Timeout + 1
Piece == [msg : 1 .. MaxMsgs, piece : Nat, len : Nat]

(* Every variable has its type; a partial message is never empty.          *)
TypeOK ==
  /\ next_msg_id \in [Sender -> Ids]
  /\ DOMAIN partials \subseteq Ids
  /\ \A id \in DOMAIN partials :
       /\ partials[id].age \in Seconds /\ partials[id].since \in Seconds
       /\ DOMAIN partials[id].fragments \in (SUBSET Nat) \ {{}}
       /\ \A i \in DOMAIN partials[id].fragments : partials[id].fragments[i] \in Piece
  /\ turns \in 0 .. Period - 1
  /\ msgs \in Seq([len : Lens, id : Ids])
  /\ restarts \in 0 .. MaxRestarts /\ dups \in 0 .. MaxDups

(* The pieces of message m, in order, as its sender cut them.              *)
Whole(m) ==
  LET len == msgs[m].len
  IN  [i \in {j \in 0 .. len - 1 : j * FragPayload < len} |->
         [msg |-> m, piece |-> i, len |-> Min({FragPayload, len - i * FragPayload})]]

(* The messages whose packets carry, or seem to carry, this msg_id.        *)
Bearers(id) == {m \in DOMAIN msgs : msgs[m].id = id}

(* Whatever is lost, repeated, reordered, timed out or restarted: what     *)
(* reassemble_packet returns for a msg_id that only one message has shown  *)
(* is that message, whole and in order.                                    *)
Genuine ==
  \A o \in outputs :
    Cardinality(Bearers(o.id)) = 1
      => \E m \in Bearers(o.id) : o.pieces = Whole(m) /\ o.len = msgs[m].len

(* The bytes written to the caller's buffer fit it and the declared        *)
(* length, even when fragments of several messages or an IV taken for a    *)
(* header come together under one msg_id.                                  *)
WithinBuffer == \A o \in outputs : o.len <= o.declared /\ o.len <= MaxOut

(* No message is kept back once all of it is there: the pieces held under  *)
(* a msg_id are never those of a complete message.                         *)
NoneWithheld ==
  \A id \in DOMAIN partials : \A m \in DOMAIN msgs :
    msgs[m].len > FragPayload => partials[id].fragments # Whole(m)

(* A step that neither receives nor restarts (the cleanup) drops only      *)
(* partial messages for which no packet has come for more than Timeout     *)
(* seconds.                                                                *)
KeptWhileArriving ==
  [][UNCHANGED <<air, dups, restarts>> =>
       \A id \in DOMAIN partials \ DOMAIN partials' : partials[id].since > Timeout]_vars

(* No partial message is kept for ever, whatever never arrives.            *)
Released == \A id \in Ids : id \in DOMAIN partials ~> id \notin DOMAIN partials

-----------------------------------------------------------------------------
(* What the DATA handler says of itself: a single packet is decrypted      *)
(* directly.                                                               *)
SingleDirect == heard \subseteq direct
=============================================================================
