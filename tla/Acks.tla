-------------------------------- MODULE Acks --------------------------------
(***************************************************************************)
(* Delivery tracking of one node (araba_node.cpp): the map pending_acks,   *)
(* filled by `send` on the main thread, emptied by the ACK handler and by  *)
(* the retry sweep on the network thread.                                  *)
(*                                                                         *)
(* The network thread never runs handler and sweep at the same time, but   *)
(* the sweep does not take net_mutex: main's insertion can fall between    *)
(* any two turns of its loop, and then has a sent_time that is later than  *)
(* the `now` the sweep read before it began. The sweep comes round only    *)
(* after Burst frames, because receive_packet blocks until a frame comes.  *)
(* A DATA frame would stop the network thread for good (get_pair_cipher    *)
(* takes net_mutex a second time): here that is a run that stutters.       *)
(***************************************************************************)
EXTENDS Integers, FiniteSets

CONSTANTS
  RetryAge,    \* an entry older than this many seconds is due (3)
  MaxRetries,  \* retries before DELIVERY FAILED (3)
  Burst,       \* receive_packet calls between two sweeps (10)
  SeqWidth,    \* seq_num is an unsigned integer modulo this (2^32)
  Stray,       \* may an ACK name a sequence id this node sent no DATA with?
  MaxFrags,    \* bound: fragments of one message
  MaxSends,    \* bound: messages sent
  SendUntil,   \* bound: messages are tracked no later than this second
  Slack        \* bound: seconds by which the clock may outrun a due entry

ASSUME ConstAssumption ==
  /\ RetryAge \in Nat /\ MaxRetries \in Nat /\ Burst \in Nat \ {0}
  /\ SeqWidth \in Nat \ {0} /\ Stray \in BOOLEAN
  /\ MaxFrags \in Nat \ {0} /\ MaxSends \in Nat /\ SendUntil \in Nat /\ Slack \in Nat

VARIABLES
  now,           \* steady_clock, in seconds
  seq_num,       \* next sequence_id
  next_ack_seq,  \* next key of pending_acks
  pending_acks,  \* key |-> PendingAck
  sending,       \* main, inside `send`: key drawn, ids still to transmit
  rx,            \* network thread: AtTop, or receive calls since the hello
  it,            \* the sweep's iterator: a key, End, or Idle outside the sweep
  sweep_now,     \* the sweep's local `now`
  on_air,        \* history: <<sequence_id, message>> of every DATA transmitted
  confirmed,     \* history: messages taken off pending_acks by an ACK, with its number
  failed         \* history: messages reported DELIVERY FAILED, with their wait

vars == <<now, seq_num, next_ack_seq, pending_acks, sending, rx, it, sweep_now,
          on_air, confirmed, failed>>

Idle == -1    \* no sweep in progress
AtTop == -1   \* the network thread is before its next hello
End == 0      \* pending_acks.end(); keys start at 1
NotSending == [key |-> 0, ids |-> {}]

(* Messages are numbered 1, 2, ... in the order they are sent; a PendingAck *)
(* also remembers which message it stands for and when it was tracked.      *)
PendingAck == [msg : Nat, retries : Nat, sent_time : Nat, tracked : Nat]

Keys == DOMAIN pending_acks
(* Where an iterator over S starts, as a set with one element.             *)
Begin(S) == IF S = {} THEN {End} ELSE {k \in S : \A j \in S : k <= j}
Following(k) == Begin({j \in Keys : j > k})
Erased(k) == [j \in Keys \ {k} |-> pending_acks[j]]

-----------------------------------------------------------------------------
Init ==
  /\ now = 0 /\ seq_num = 0 /\ next_ack_seq = 1
  /\ pending_acks = [k \in {} |-> 0]
  /\ sending = NotSending
  /\ rx = AtTop /\ it = Idle /\ sweep_now = 0
  /\ on_air = {} /\ confirmed = {} /\ failed = {}

-----------------------------------------------------------------------------
(* Main thread: `send` to a reachable target.                              *)

(* The sequence ids fragment_message gives to n fragments.                 *)
DrawIds(n) == {(seq_num + j) % SeqWidth : j \in 0 .. n - 1}

(* fragment_message draws n sequence ids, then the message draws its key.  *)
BeginSend(n) ==
  /\ sending = NotSending
  /\ next_ack_seq <= MaxSends
  /\ now <= SendUntil
  /\ sending' = [key |-> next_ack_seq, ids |-> DrawIds(n)]
  /\ seq_num' = (seq_num + n) % SeqWidth
  /\ next_ack_seq' = next_ack_seq + 1
  /\ UNCHANGED <<now, pending_acks, rx, it, sweep_now, on_air, confirmed, failed>>

(* One packet goes out; net_mutex is released between packets, so an ACK   *)
(* may be handled before the message is tracked.                           *)
Transmit ==
  /\ \E id \in sending.ids :
       /\ sending' = [sending EXCEPT !.ids = @ \ {id}]
       /\ on_air' = on_air \cup {<<id, sending.key>>}
  /\ UNCHANGED <<now, seq_num, next_ack_seq, pending_acks, rx, it, sweep_now, confirmed,
                 failed>>

TrackingKeyFixed == 1   \* mutant: every message is tracked under the first key
TrackingKey == sending.key

Track ==
  /\ sending # NotSending
  /\ sending.ids = {}
  /\ pending_acks' = [k \in Keys \cup {TrackingKey} |->
                        IF k = TrackingKey
                        THEN [msg |-> sending.key, retries |-> 0, sent_time |-> now, tracked |-> now]
                        ELSE pending_acks[k]]
  /\ sending' = NotSending
  /\ UNCHANGED <<now, seq_num, next_ack_seq, rx, it, sweep_now, on_air, confirmed, failed>>

-----------------------------------------------------------------------------
(* Network thread: receiving.                                              *)

(* Top of the outer loop: the DISCOVERY broadcast draws a sequence id.     *)
Hello ==
  /\ rx = AtTop
  /\ rx' = 0
  /\ seq_num' = (seq_num + 1) % SeqWidth
  /\ UNCHANGED <<now, next_ack_seq, pending_acks, sending, it, sweep_now, on_air,
                 confirmed, failed>>

ReceiveOneMore ==   \* mutant: i <= 10
  it = Idle /\ rx \in 0 .. Burst /\ rx' = rx + 1

Receive == it = Idle /\ rx \in 0 .. Burst - 1 /\ rx' = rx + 1

(* An ACK with the number s; a number that is not pending is ignored.      *)
ReceiveAck(s) ==
  /\ Receive
  /\ Stray \/ \E m \in 1 .. MaxSends : <<s, m>> \in on_air
  /\ IF s \in Keys
     THEN /\ pending_acks' = Erased(s)
          /\ confirmed' = confirmed \cup {[msg |-> pending_acks[s].msg, by |-> s]}
     ELSE UNCHANGED <<pending_acks, confirmed>>
  /\ UNCHANGED <<now, seq_num, next_ack_seq, sending, it, sweep_now, on_air, failed>>

(* Any other frame; each answer or auto-delivery draws one sequence id.    *)
ReceiveOther(drawn) ==
  /\ Receive
  /\ seq_num' = (seq_num + drawn) % SeqWidth
  /\ UNCHANGED <<now, next_ack_seq, pending_acks, sending, it, sweep_now, on_air,
                 confirmed, failed>>

-----------------------------------------------------------------------------
(* Network thread: the sweep.                                              *)

BeginSweep ==
  /\ it = Idle /\ rx = Burst
  /\ sweep_now' = now
  /\ it' \in Begin(Keys)
  /\ UNCHANGED <<now, seq_num, next_ack_seq, pending_acks, sending, rx, on_air, confirmed,
                 failed>>

DueUnsigned(k) ==   \* mutant: the age is unsigned, a negative one is huge
  sweep_now < pending_acks[k].sent_time \/ sweep_now - pending_acks[k].sent_time > RetryAge

(* `age > 3`: the age is signed, and negative for an entry that main       *)
(* inserted after the sweep had read the clock.                            *)
Due(k) == sweep_now - pending_acks[k].sent_time > RetryAge

SweepKeep ==
  /\ it > End /\ ~Due(it)
  /\ it' \in Following(it)
  /\ UNCHANGED <<now, seq_num, next_ack_seq, pending_acks, sending, rx, sweep_now, on_air,
                 confirmed, failed>>

RetriedUncounted(e) == [e EXCEPT !.sent_time = sweep_now]   \* mutant: retries stays

(* Nothing is sent again: the retry only counts and restarts the timer.    *)
Retried(e) == [msg |-> e.msg, retries |-> e.retries + 1, sent_time |-> sweep_now,
               tracked |-> e.tracked]

SweepRetry ==
  /\ it > End /\ Due(it) /\ pending_acks[it].retries < MaxRetries
  /\ pending_acks' = [pending_acks EXCEPT ![it] = Retried(@)]
  /\ it' \in Following(it)
  /\ UNCHANGED <<now, seq_num, next_ack_seq, sending, rx, sweep_now, on_air, confirmed, failed>>

AfterEraseSame(k) == {k}   \* mutant: the erased iterator is not replaced
AfterErase(k) == Following(k)

SweepFail ==
  /\ it > End /\ Due(it) /\ pending_acks[it].retries >= MaxRetries
  /\ failed' = failed \cup {[msg |-> pending_acks[it].msg,
                             waited |-> now - pending_acks[it].tracked]}
  /\ pending_acks' = Erased(it)
  /\ it' \in AfterErase(it)
  /\ UNCHANGED <<now, seq_num, next_ack_seq, sending, rx, sweep_now, on_air, confirmed>>

EndSweep ==
  /\ it = End
  /\ it' = Idle /\ rx' = AtTop
  /\ UNCHANGED <<now, seq_num, next_ack_seq, pending_acks, sending, sweep_now, on_air,
                 confirmed, failed>>

NetworkStep == Hello \/ BeginSweep \/ SweepKeep \/ SweepRetry \/ SweepFail \/ EndSweep

-----------------------------------------------------------------------------
(* Slack and SendUntil keep the clock within LastSecond.                   *)
LastSecond == SendUntil + (MaxRetries + 1) * (RetryAge + 1 + Slack)

Tick ==
  /\ \A k \in Keys : now - pending_acks[k].sent_time <= RetryAge + Slack
  /\ it # Idle => now - sweep_now < Slack
  /\ sending # NotSending => now < SendUntil
  /\ now < LastSecond
  /\ now' = now + 1
  /\ UNCHANGED <<seq_num, next_ack_seq, pending_acks, sending, rx, it, sweep_now, on_air,
                 confirmed, failed>>

Frame ==
  \/ \E s \in 0 .. SeqWidth - 1 : ReceiveAck(s)
  \/ \E drawn \in 0 .. MaxFrags : ReceiveOther(drawn)

Next ==
  \/ \E n \in 1 .. MaxFrags : BeginSend(n)
  \/ Transmit
  \/ Track
  \/ Frame
  \/ NetworkStep
  \/ Tick

Spec == Init /\ [][Next]_vars

(* The threads run and time passes; Frame is the environment's: some frame *)
(* keeps arriving, and none of them stops the network thread.              *)
FairSpec == Spec /\ WF_vars(Transmit) /\ WF_vars(Track) /\ WF_vars(NetworkStep) /\ WF_vars(Tick)
                 /\ WF_vars(Frame)

-----------------------------------------------------------------------------
(* Every variable has its type, keys and iterator included.                *)
TypeOK ==
  /\ now \in Nat /\ sweep_now \in Nat /\ rx \in AtTop .. Burst
  /\ seq_num \in 0 .. SeqWidth - 1
  /\ next_ack_seq \in Nat \ {0}
  /\ Keys \subseteq Nat \ {0}
  /\ pending_acks \in [Keys -> PendingAck]
  /\ sending \in [key : Nat, ids : SUBSET (0 .. SeqWidth - 1)]
  /\ it \in Nat \cup {Idle}
  /\ confirmed \subseteq [msg : Nat, by : Nat]
  /\ failed \subseteq [msg : Nat, waited : Int]

FailedMsgs == {f.msg : f \in failed}
ConfirmedMsgs == {c.msg : c \in confirmed}
PendingMsgs == {pending_acks[k].msg : k \in Keys}

(* Every message that was tracked is pending, acknowledged or reported as  *)
(* failed, and exactly one of these: no insertion overwrites another       *)
(* message's entry and neither the ACK handler nor the sweep drops one in  *)
(* silence.                                                                *)
Accounted ==
  /\ PendingMsgs \cup ConfirmedMsgs \cup FailedMsgs = (1 .. next_ack_seq - 1) \ {sending.key}
  /\ PendingMsgs \cap ConfirmedMsgs = {}
  /\ PendingMsgs \cap FailedMsgs = {}
  /\ ConfirmedMsgs \cap FailedMsgs = {}

(* DELIVERY FAILED is reported no earlier than four full waits after the   *)
(* message was tracked (retries >= 3, age > 3), although the sweep works   *)
(* with a clock reading that may be older than the entry.                  *)
GracePeriod ==
  \A f \in failed : f.waited >= (MaxRetries + 1) * (RetryAge + 1)

(* The sweep's iterator never dangles: while main inserts entries without  *)
(* the sweep noticing, the entry the sweep is at stays in the map.         *)
IteratorValid == it > End => it \in Keys

(* Every tracked message is eventually acknowledged or reported as failed, *)
(* provided that frames keep arriving.                                     *)
Resolved ==
  \A m \in 1 .. MaxSends : m \in PendingMsgs ~> m \in ConfirmedMsgs \cup FailedMsgs

(* What "delivery confirmation" asks: a message leaves pending_acks by an  *)
(* ACK only if that ACK names a packet of the message.                     *)
ConfirmedWasAcked ==
  \A c \in confirmed : <<c.by, c.msg>> \in on_air
=============================================================================
