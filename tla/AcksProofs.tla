----------------------------- MODULE AcksProofs -----------------------------
(***************************************************************************)
(* Proofs about Acks, for every retry limit, wait, burst and bound. The    *)
(* invariants are inductive together: Accounted needs the keys to be fresh *)
(* (Fresh), GracePeriod needs the timing of every entry (Timing) and that  *)
(* the sweep's clock reading lies in the past (Timing again).              *)
(***************************************************************************)
EXTENDS Acks, TLAPS

(* A message is tracked under its own number, below next_ack_seq, and the  *)
(* message being sent is not tracked yet.                                  *)
Fresh ==
  /\ \A k \in Keys : pending_acks[k].msg = k /\ k < next_ack_seq
  /\ sending.key < next_ack_seq
  /\ sending.key \notin Keys

(* Every retry of an entry came a full wait after the one before.          *)
Timing ==
  /\ it # Idle => sweep_now <= now
  /\ \A k \in Keys :
       /\ pending_acks[k].retries <= MaxRetries
       /\ pending_acks[k].sent_time <= now
       /\ pending_acks[k].sent_time
            >= pending_acks[k].tracked + pending_acks[k].retries * (RetryAge + 1)

Inv == TypeOK /\ Fresh /\ Timing /\ Accounted /\ GracePeriod /\ IteratorValid

(* What an entry of pending_acks holds.                                    *)
LEMMA EntryType ==
  ASSUME TypeOK, NEW k \in Keys
  PROVE  /\ pending_acks[k] \in PendingAck
         /\ pending_acks[k].msg \in Nat /\ pending_acks[k].retries \in Nat
         /\ pending_acks[k].sent_time \in Nat /\ pending_acks[k].tracked \in Nat
<1>1. pending_acks[k] \in PendingAck
  BY DEF TypeOK
<1> QED BY <1>1 DEF PendingAck

(* A key stands for its message.                                           *)
LEMMA PendingAreKeys == ASSUME Fresh PROVE PendingMsgs = Keys
BY DEF Fresh, PendingMsgs

(* The sweep goes on to a key that is still there, or to the end.          *)
LEMMA FollowingType ==
  ASSUME TypeOK, NEW k \in Nat, NEW n \in Following(k)
  PROVE  n = End \/ (n \in Keys /\ n > k)
BY DEF Following, Begin, TypeOK

(* An erased key is gone, the other entries stay.                          *)
LEMMA ErasedType ==
  ASSUME TypeOK, NEW k, pending_acks' = Erased(k)
  PROVE  /\ Keys' = Keys \ {k}
         /\ pending_acks' \in [Keys' -> PendingAck]
         /\ \A j \in Keys' : pending_acks'[j] = pending_acks[j]
<1>1. Keys' = Keys \ {k} /\ \A j \in Keys' : pending_acks'[j] = pending_acks[j]
  BY DEF Erased, Keys
<1> QED BY <1>1, EntryType DEF Erased, Keys

(* One more report is for one more message.                                *)
LEMMA MsgsOf ==
  ASSUME NEW S, NEW r
  PROVE  {f.msg : f \in S \cup {r}} = {f.msg : f \in S} \cup {r.msg}
OBVIOUS

(* A remainder is below the width.                                         *)
LEMMA ModType == ASSUME NEW n \in Nat PROVE n % SeqWidth \in 0 .. SeqWidth - 1
BY ConstAssumption

-----------------------------------------------------------------------------
(* The invariant holds where a run begins.                                 *)
LEMMA InitInv == Init => Inv
<1> SUFFICES ASSUME Init PROVE Inv
  OBVIOUS
<1>1. Keys = {}
  BY DEF Init, Keys
<1>2. TypeOK
  BY <1>1, ConstAssumption DEF Init, TypeOK, NotSending, AtTop, Idle, Keys
<1>3. Fresh /\ Timing /\ GracePeriod /\ IteratorValid
  BY <1>1 DEF Init, Fresh, Timing, GracePeriod, IteratorValid, NotSending, Idle, End
<1>4. Accounted
  BY <1>1 DEF Init, Accounted, PendingMsgs, ConfirmedMsgs, FailedMsgs, NotSending
<1> QED BY <1>2, <1>3, <1>4 DEF Inv

(* Steps that leave the map, the sends and the outcomes alone.             *)
LEMMA QuietStep ==
  ASSUME Inv, TypeOK', Timing', IteratorValid',
         UNCHANGED <<pending_acks, sending, next_ack_seq, confirmed, failed>>
  PROVE  Inv'
<1>1. Keys' = Keys /\ PendingMsgs' = PendingMsgs
  BY DEF Keys, PendingMsgs
<1> QED BY <1>1 DEF Inv, Fresh, Accounted, GracePeriod, ConfirmedMsgs, FailedMsgs

(* send draws its ids.                                                     *)
LEMMA BeginSendInv == ASSUME Inv, NEW n \in 1 .. MaxFrags, BeginSend(n) PROVE Inv'
<1> USE DEF Inv
<1>1. Keys' = Keys /\ PendingMsgs' = PendingMsgs
  BY DEF BeginSend, Keys, PendingMsgs
<1>2. \A i \in 0 .. n - 1 : (seq_num + i) % SeqWidth \in 0 .. SeqWidth - 1
  BY ModType, ConstAssumption DEF TypeOK
<1>3. (seq_num + n) % SeqWidth \in 0 .. SeqWidth - 1
  BY ModType, ConstAssumption DEF TypeOK
<1>4. next_ack_seq \in Nat /\ sending.key = 0 /\ sending'.key = next_ack_seq
      /\ next_ack_seq' = next_ack_seq + 1
  BY DEF TypeOK, BeginSend, NotSending
<1>5. TypeOK'
  <2>1. DrawIds(n) \in SUBSET (0 .. SeqWidth - 1)
    BY <1>2 DEF DrawIds
  <2>2. sending' \in [key : Nat, ids : SUBSET (0 .. SeqWidth - 1)]
    BY <1>4, <2>1 DEF BeginSend
  <2>3. seq_num' \in 0 .. SeqWidth - 1 /\ next_ack_seq' \in Nat \ {0}
    BY <1>3, <1>4 DEF BeginSend
  <2> QED BY <1>1, <2>2, <2>3 DEF BeginSend, TypeOK
<1>6. Fresh' /\ Timing' /\ GracePeriod' /\ IteratorValid'
  BY <1>1, <1>4 DEF BeginSend, Fresh, Timing, GracePeriod, IteratorValid, TypeOK
<1>7. (1 .. next_ack_seq' - 1) \ {sending'.key} = (1 .. next_ack_seq - 1) \ {sending.key}
  BY <1>4
<1>8. Accounted'
  BY <1>1, <1>7 DEF BeginSend, Accounted, ConfirmedMsgs, FailedMsgs
<1> QED BY <1>5, <1>6, <1>8

(* send passes a packet on.                                                *)
LEMMA TransmitInv == ASSUME Inv, Transmit PROVE Inv'
<1> USE DEF Inv
<1>1. Keys' = Keys /\ PendingMsgs' = PendingMsgs
  BY DEF Transmit, Keys, PendingMsgs
<1>2. sending' \in [key : Nat, ids : SUBSET (0 .. SeqWidth - 1)] /\ sending'.key = sending.key
  BY DEF Transmit, TypeOK
<1>3. TypeOK'
  BY <1>1, <1>2 DEF Transmit, TypeOK
<1>4. Fresh' /\ Timing' /\ GracePeriod' /\ IteratorValid'
  BY <1>1, <1>2 DEF Transmit, Fresh, Timing, GracePeriod, IteratorValid
<1>5. Accounted'
  BY <1>1, <1>2 DEF Transmit, Accounted, ConfirmedMsgs, FailedMsgs
<1> QED BY <1>3, <1>4, <1>5

(* send inserts its entry.                                                 *)
LEMMA TrackInv == ASSUME Inv, Track PROVE Inv'
<1> USE DEF Inv
<1> DEFINE new == [msg |-> sending.key, retries |-> 0, sent_time |-> now, tracked |-> now]
<1>1. Keys' = Keys \cup {sending.key} /\ sending.key \notin Keys
  BY DEF Track, TrackingKey, Keys, Fresh
<1>2. pending_acks'[sending.key] = new /\ \A k \in Keys : pending_acks'[k] = pending_acks[k]
  BY <1>1 DEF Track, TrackingKey, Keys
<1>3. sending'.key = 0 /\ sending.key \in Nat \ {0} /\ sending.key < next_ack_seq
      /\ next_ack_seq \in Nat /\ next_ack_seq' = next_ack_seq
  <2>1. sending.key # 0
    BY DEF Track, TrackingKey, NotSending, TypeOK
  <2> QED BY <2>1 DEF Track, TrackingKey, NotSending, TypeOK, Fresh
<1>4. new \in PendingAck
  BY DEF PendingAck, TypeOK
<1>5. pending_acks' \in [Keys' -> PendingAck]
  BY <1>1, <1>2, <1>4, EntryType DEF Track, TrackingKey, Keys
<1>6. TypeOK'
  BY <1>1, <1>3, <1>5 DEF Track, TrackingKey, TypeOK, NotSending
<1>7. Fresh'
  BY <1>1, <1>2, <1>3 DEF Track, TrackingKey, Fresh, TypeOK
<1>8. Timing' /\ GracePeriod' /\ IteratorValid'
  <2>1. new.retries * (RetryAge + 1) = 0 /\ new.retries <= MaxRetries
    BY ConstAssumption
  <2>2. \A k \in Keys' :
           /\ pending_acks'[k].retries <= MaxRetries
           /\ pending_acks'[k].sent_time <= now
           /\ pending_acks'[k].sent_time
                >= pending_acks'[k].tracked + pending_acks'[k].retries * (RetryAge + 1)
    BY <1>1, <1>2, <2>1, EntryType DEF Timing, TypeOK
  <2> QED BY <1>1, <2>2 DEF Track, TrackingKey, Timing, GracePeriod, IteratorValid
<1>9. Accounted'
  <2>1. PendingMsgs = Keys /\ PendingMsgs' = Keys'
    BY <1>7 DEF Fresh, PendingMsgs
  <2>2. ConfirmedMsgs' = ConfirmedMsgs /\ FailedMsgs' = FailedMsgs
    BY DEF Track, TrackingKey, ConfirmedMsgs, FailedMsgs
  <2>3. (1 .. next_ack_seq' - 1) \ {sending'.key}
           = ((1 .. next_ack_seq - 1) \ {sending.key}) \cup {sending.key}
    BY <1>3
  <2> QED BY <1>1, <2>1, <2>2, <2>3 DEF Accounted
<1> QED BY <1>6, <1>7, <1>8, <1>9

(* The ACK handler and SweepFail: the entry k leaves the map and its       *)
(* message, and no other, gets an outcome.                                 *)
LEMMA ErasingStep ==
  ASSUME Inv, NEW k \in Keys, pending_acks' = Erased(k),
         UNCHANGED <<now, sending, next_ack_seq, sweep_now>>,
         TypeOK', GracePeriod', IteratorValid', it' # Idle => it # Idle,
         \/ ConfirmedMsgs' = ConfirmedMsgs \cup {k} /\ FailedMsgs' = FailedMsgs
         \/ FailedMsgs' = FailedMsgs \cup {k} /\ ConfirmedMsgs' = ConfirmedMsgs
  PROVE  Inv'
<1> USE DEF Inv
<1>1. Keys' = Keys \ {k} /\ \A j \in Keys' : pending_acks'[j] = pending_acks[j]
  BY ErasedType
<1>2. Fresh' /\ Timing'
  BY <1>1 DEF Fresh, Timing
<1>3. PendingMsgs = Keys
  BY PendingAreKeys
<1>4. PendingMsgs' = Keys'
  BY <1>2 DEF Fresh, PendingMsgs
<1>5. Accounted'
  BY <1>1, <1>3, <1>4 DEF Accounted
<1> QED BY <1>2, <1>5

(* The ACK handler.                                                        *)
LEMMA ReceiveAckInv == ASSUME Inv, NEW s \in 0 .. SeqWidth - 1, ReceiveAck(s) PROVE Inv'
<1> USE DEF Inv
<1>0. it = Idle /\ it' = Idle /\ rx' \in AtTop .. Burst
  BY ConstAssumption DEF ReceiveAck, Receive, TypeOK, AtTop
<1>1. CASE s \in Keys
  <2>1. pending_acks[s].msg = s /\ s \in Nat
    BY <1>1 DEF Fresh, TypeOK
  <2>2. confirmed' = confirmed \cup {[msg |-> s, by |-> s]}
    BY <1>1, <2>1 DEF ReceiveAck
  <2>3. ConfirmedMsgs' = ConfirmedMsgs \cup {s}
    BY <2>2, MsgsOf DEF ConfirmedMsgs
  <2>4. pending_acks' = Erased(s) /\ UNCHANGED <<now, sending, next_ack_seq, sweep_now, failed>>
    BY <1>1 DEF ReceiveAck
  <2>5. Keys' = Keys \ {s} /\ pending_acks' \in [Keys' -> PendingAck]
    BY <2>4, ErasedType
  <2>6. TypeOK'
    BY <1>0, <2>1, <2>2, <2>5 DEF ReceiveAck, TypeOK
  <2>7. GracePeriod' /\ IteratorValid' /\ FailedMsgs' = FailedMsgs
    BY <1>0, <2>4 DEF GracePeriod, IteratorValid, Idle, End, FailedMsgs
  <2> QED BY <1>0, <1>1, <2>3, <2>4, <2>6, <2>7, ErasingStep
<1>2. CASE s \notin Keys
  <2>1. UNCHANGED <<pending_acks, sending, next_ack_seq, confirmed, failed, now, seq_num,
                  sweep_now>>
    BY <1>2 DEF ReceiveAck
  <2>2. Keys' = Keys
    BY <2>1 DEF Keys
  <2>3. TypeOK' /\ Timing' /\ IteratorValid'
    BY <1>0, <2>1, <2>2 DEF TypeOK, Timing, IteratorValid, Idle, End
  <2> QED BY <2>1, <2>3, QuietStep
<1> QED BY <1>1, <1>2

(* The remaining steps of the network thread outside the sweep's body.     *)
LEMMA OtherInv ==
  ASSUME Inv, Hello \/ EndSweep \/ \E drawn \in 0 .. MaxFrags : ReceiveOther(drawn)
  PROVE  Inv'
<1> USE DEF Inv
<1>1. UNCHANGED <<pending_acks, sending, next_ack_seq, confirmed, failed, now, sweep_now>>
  BY DEF Hello, EndSweep, ReceiveOther
<1>2. Keys' = Keys
  BY <1>1 DEF Keys
<1>3. it' = it \/ it' = Idle
  BY DEF Hello, EndSweep, ReceiveOther
<1>4. seq_num' \in 0 .. SeqWidth - 1
  <2>1. seq_num \in 0 .. SeqWidth - 1 /\ seq_num \in Nat
    BY ConstAssumption DEF TypeOK
  <2>2. CASE Hello
    <3>1. seq_num' = (seq_num + 1) % SeqWidth
      BY <2>2 DEF Hello
    <3>2. seq_num + 1 \in Nat
      BY <2>1
    <3> QED BY <3>1, <3>2, ModType
  <2>3. CASE EndSweep
    BY <2>1, <2>3 DEF EndSweep
  <2>4. ASSUME NEW drawn \in 0 .. MaxFrags, ReceiveOther(drawn)
        PROVE  seq_num' \in 0 .. SeqWidth - 1
    <3>1. seq_num' = (seq_num + drawn) % SeqWidth
      BY <2>4 DEF ReceiveOther
    <3>2. seq_num + drawn \in Nat
      BY <2>1, ConstAssumption
    <3> QED BY <3>1, <3>2, ModType
  <2> QED BY <2>2, <2>3, <2>4
<1>5. rx' \in AtTop .. Burst
  BY ConstAssumption DEF Hello, EndSweep, ReceiveOther, Receive, TypeOK, AtTop
<1>6. TypeOK'
  BY <1>1, <1>2, <1>3, <1>4, <1>5 DEF TypeOK
<1>7. Timing' /\ IteratorValid'
  BY <1>1, <1>2, <1>3 DEF Timing, IteratorValid, Idle, End
<1> QED BY <1>1, <1>6, <1>7, QuietStep

(* The sweep reads the clock.                                              *)
LEMMA BeginSweepInv == ASSUME Inv, BeginSweep PROVE Inv'
<1> USE DEF Inv
<1>1. UNCHANGED <<pending_acks, sending, next_ack_seq, confirmed, failed, now, rx, seq_num>>
      /\ sweep_now' = now
  BY DEF BeginSweep
<1>2. Keys' = Keys
  BY <1>1 DEF Keys
<1>3. it' \in Keys \cup {End}
  BY DEF BeginSweep, Begin
<1>4. TypeOK'
  BY <1>1, <1>2, <1>3 DEF TypeOK, End
<1>5. Timing' /\ IteratorValid'
  BY <1>1, <1>2, <1>3 DEF Timing, IteratorValid, TypeOK, End
<1> QED BY <1>1, <1>4, <1>5, QuietStep

(* Time passes.                                                            *)
LEMMA TickInv == ASSUME Inv, Tick PROVE Inv'
<1> USE DEF Inv
<1>1. UNCHANGED <<pending_acks, sending, next_ack_seq, confirmed, failed, rx, seq_num, it,
                sweep_now>>
      /\ now' = now + 1
  BY DEF Tick
<1>2. Keys' = Keys
  BY <1>1 DEF Keys
<1>3. TypeOK'
  BY <1>1, <1>2 DEF TypeOK
<1>4. Timing' /\ IteratorValid'
  BY <1>1, <1>2, EntryType DEF Timing, IteratorValid, TypeOK
<1> QED BY <1>1, <1>3, <1>4, QuietStep

-----------------------------------------------------------------------------
(* The body of the sweep.                                                  *)

(* A sweep that is not at the end stands on an entry.                      *)
LEMMA AtEntry ==
  ASSUME Inv, it > End, NEW n \in Following(it)
  PROVE  /\ it \in Keys /\ it \in Nat /\ it # Idle /\ sweep_now <= now
         /\ n \in Nat /\ n # Idle /\ n # it /\ (n > End => n \in Keys)
<1>1. it \in Keys /\ it \in Nat /\ it # Idle /\ sweep_now <= now
  BY DEF Inv, IteratorValid, TypeOK, Timing, Idle, End
<1>2. n = End \/ (n \in Keys /\ n > it)
  BY <1>1, FollowingType DEF Inv
<1>3. CASE n = End
  BY <1>1, <1>3 DEF End, Idle
<1>4. CASE n \in Keys /\ n > it
  <2>1. n \in Nat
    BY <1>4 DEF Inv, TypeOK
  <2> QED BY <1>1, <1>4, <2>1 DEF Idle
<1> QED BY <1>2, <1>3, <1>4

(* The sweep leaves an entry that is not due.                              *)
LEMMA SweepKeepInv == ASSUME Inv, SweepKeep PROVE Inv'
<1> USE DEF Inv
<1>1. UNCHANGED <<pending_acks, sending, next_ack_seq, confirmed, failed, rx, seq_num, now,
                sweep_now>>
      /\ it' \in Following(it) /\ it > End
  BY DEF SweepKeep
<1>2. Keys' = Keys
  BY <1>1 DEF Keys
<1>3. it # Idle /\ it' \in Nat /\ (it' > End => it' \in Keys)
  BY <1>1, AtEntry
<1>4. TypeOK' /\ Timing' /\ IteratorValid'
  BY <1>1, <1>2, <1>3 DEF TypeOK, Timing, IteratorValid
<1> QED BY <1>1, <1>4, QuietStep

(* The sweep counts a retry.                                               *)
LEMMA SweepRetryInv == ASSUME Inv, SweepRetry PROVE Inv'
<1> USE DEF Inv
<1> DEFINE e == pending_acks[it]
           new == [msg |-> e.msg, retries |-> e.retries + 1, sent_time |-> sweep_now,
                   tracked |-> e.tracked]
<1>1. UNCHANGED <<sending, next_ack_seq, confirmed, failed, rx, seq_num, now, sweep_now>>
      /\ it' \in Following(it) /\ it > End
  BY DEF SweepRetry
<1>2. it \in Keys /\ it # Idle /\ sweep_now <= now /\ it' \in Nat /\ (it' > End => it' \in Keys)
  BY <1>1, AtEntry
<1>3. e \in PendingAck /\ e.msg \in Nat /\ e.retries \in Nat /\ e.sent_time \in Nat
      /\ e.tracked \in Nat
  BY <1>2, EntryType
<1>4. /\ Keys' = Keys
      /\ pending_acks'[it] = new
      /\ \A k \in Keys \ {it} : pending_acks'[k] = pending_acks[k]
      /\ pending_acks' \in [Keys -> PendingAck]
  <2>1. new \in PendingAck
    BY <1>3 DEF PendingAck, TypeOK
  <2>2. pending_acks' = [pending_acks EXCEPT ![it] = new]
    BY DEF SweepRetry, Retried
  <2>3. pending_acks \in [Keys -> PendingAck]
    BY DEF TypeOK
  <2> HIDE DEF new, e
  <2> QED BY <1>2, <2>1, <2>2, <2>3 DEF Keys
<1>5. new.msg = e.msg /\ new.retries = e.retries + 1 /\ new.sent_time = sweep_now
      /\ new.tracked = e.tracked
  BY <1>3 DEF PendingAck
<1>6. TypeOK'
  BY <1>1, <1>2, <1>4 DEF TypeOK
<1>7. Fresh' /\ GracePeriod' /\ IteratorValid'
  <2>1. \A k \in Keys : pending_acks'[k].msg = pending_acks[k].msg
    BY <1>4, <1>5
  <2> QED BY <1>1, <1>2, <1>4, <2>1 DEF Fresh, GracePeriod, IteratorValid
<1>8. Timing'
  <2>1. e.retries < MaxRetries /\ sweep_now - e.sent_time > RetryAge
    BY DEF SweepRetry, Due
  <2>2. e.sent_time >= e.tracked + e.retries * (RetryAge + 1)
    BY <1>2 DEF Timing
  <2>3. (e.retries + 1) * (RetryAge + 1) = e.retries * (RetryAge + 1) + (RetryAge + 1)
    BY <1>3, ConstAssumption
  <2>4. e.retries * (RetryAge + 1) \in Int
    BY <1>3, ConstAssumption
  <2>5. sweep_now >= e.tracked + (e.retries + 1) * (RetryAge + 1) /\ e.retries + 1 <= MaxRetries
    <3> DEFINE w == e.retries * (RetryAge + 1)
    <3>1. w \in Int /\ e.sent_time >= e.tracked + w
      BY <2>2, <2>4
    <3> HIDE DEF w
    <3>2. sweep_now >= e.tracked + (w + (RetryAge + 1))
      BY <1>3, <2>1, <3>1, ConstAssumption DEF TypeOK
    <3> QED BY <1>3, <2>1, <2>3, <3>2, ConstAssumption DEF w
  <2> HIDE DEF e, new
  <2> QED BY <1>1, <1>2, <1>4, <1>5, <2>5 DEF Timing
<1>9. Accounted'
  <2>1. PendingMsgs = Keys
    BY PendingAreKeys
  <2>2. PendingMsgs' = Keys'
    BY <1>7 DEF Fresh, PendingMsgs
  <2> QED BY <1>1, <1>4, <2>1, <2>2 DEF Accounted, ConfirmedMsgs, FailedMsgs
<1> QED BY <1>6, <1>7, <1>8, <1>9

(* The sweep gives a message up.                                           *)
LEMMA SweepFailInv == ASSUME Inv, SweepFail PROVE Inv'
<1> USE DEF Inv
<1> DEFINE e == pending_acks[it]
<1>1. UNCHANGED <<sending, next_ack_seq, confirmed, rx, seq_num, now, sweep_now>>
      /\ it' \in Following(it) /\ it > End /\ pending_acks' = Erased(it)
  BY DEF SweepFail, AfterErase
<1>2. it \in Keys /\ it # Idle /\ sweep_now <= now /\ it' \in Nat /\ it' # it
      /\ (it' > End => it' \in Keys)
  BY <1>1, AtEntry
<1>3. e.msg = it /\ e.retries \in Nat /\ e.sent_time \in Nat /\ e.tracked \in Nat
  BY <1>2, EntryType DEF Fresh
<1>4. Keys' = Keys \ {it} /\ pending_acks' \in [Keys' -> PendingAck]
  BY <1>1, ErasedType
<1>5. failed' = failed \cup {[msg |-> it, waited |-> now - e.tracked]}
  BY <1>3 DEF SweepFail, AfterErase
<1>6. TypeOK'
  BY <1>1, <1>2, <1>3, <1>4, <1>5 DEF TypeOK
<1>7. FailedMsgs' = FailedMsgs \cup {it} /\ ConfirmedMsgs' = ConfirmedMsgs
  BY <1>1, <1>5, MsgsOf DEF FailedMsgs, ConfirmedMsgs
<1>8. IteratorValid'
  BY <1>2, <1>4 DEF IteratorValid
<1>9. now - e.tracked >= (MaxRetries + 1) * (RetryAge + 1)
  <2>1. e.retries = MaxRetries /\ sweep_now - e.sent_time > RetryAge
    BY <1>2, <1>3, ConstAssumption DEF SweepFail, AfterErase, Due, Timing
  <2>2. e.sent_time >= e.tracked + MaxRetries * (RetryAge + 1)
    BY <1>2, <2>1 DEF Timing
  <2>3. (MaxRetries + 1) * (RetryAge + 1) = MaxRetries * (RetryAge + 1) + (RetryAge + 1)
        /\ MaxRetries * (RetryAge + 1) \in Int
    BY ConstAssumption
  <2> DEFINE w == MaxRetries * (RetryAge + 1)
  <2>4. w \in Int /\ e.sent_time >= e.tracked + w
    BY <2>2, <2>3
  <2> HIDE DEF w, e
  <2>5. now - e.tracked >= w + (RetryAge + 1)
    BY <1>2, <1>3, <2>1, <2>4, ConstAssumption DEF TypeOK
  <2> QED BY <2>3, <2>5 DEF w
<1>10. GracePeriod'
  BY <1>5, <1>9 DEF GracePeriod
<1> QED BY <1>1, <1>2, <1>6, <1>7, <1>8, <1>10, ErasingStep

-----------------------------------------------------------------------------
(* Inv is an inductive invariant of Spec.                                  *)
THEOREM Invariance == Spec => []Inv
<1>1. Inv /\ [Next]_vars => Inv'
  <2> SUFFICES ASSUME Inv, [Next]_vars PROVE Inv'
    OBVIOUS
  <2>1. CASE UNCHANGED vars
    <3>1. Keys' = Keys /\ PendingMsgs' = PendingMsgs
      BY <2>1 DEF vars, Keys, PendingMsgs
    <3>2. TypeOK' /\ Timing' /\ IteratorValid'
      BY <2>1, <3>1 DEF Inv, vars, TypeOK, Timing, IteratorValid
    <3> QED BY <2>1, <3>2, QuietStep DEF vars
  <2>2. CASE Frame
    BY <2>2, ReceiveAckInv, OtherInv DEF Frame
  <2>3. CASE NetworkStep
    BY <2>3, OtherInv, BeginSweepInv, SweepKeepInv, SweepRetryInv, SweepFailInv DEF NetworkStep
  <2> QED BY <2>1, <2>2, <2>3, BeginSendInv, TransmitInv, TrackInv, TickInv DEF Next
<1> QED BY <1>1, InitInv, PTL DEF Spec

(* Every variable of Acks keeps its type under every interleaving of the   *)
(* two threads.                                                            *)
THEOREM TypeCorrect == Spec => []TypeOK
BY Invariance, PTL DEF Inv

(* No message is overwritten, lost or given two outcomes.                  *)
THEOREM MessagesAccounted == Spec => []Accounted
BY Invariance, PTL DEF Inv

(* No message is reported as failed before four full waits.                *)
THEOREM FailsAfterGracePeriod == Spec => []GracePeriod
BY Invariance, PTL DEF Inv

(* The unlocked sweep never holds an iterator to an erased entry.          *)
THEOREM SweepIteratorValid == Spec => []IteratorValid
BY Invariance, PTL DEF Inv
=============================================================================
