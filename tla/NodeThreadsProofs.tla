------------------------- MODULE NodeThreadsProofs -------------------------
(***************************************************************************)
(* Proofs about NodeThreads, for every burst, number of fragments and mix  *)
(* of frames. The mutex variable is tied to the control points (Holding),  *)
(* every operation that touches the guarded objects is a locked one        *)
(* (Disciplined), the inner loop runs only below Burst (Counting), and a   *)
(* frame that came after quit leads out of the loop without another        *)
(* receive (Draining).                                                     *)
(***************************************************************************)
EXTENDS NodeThreads, TLAPS

Guarded == {"known_neighbors", "pair_ciphers"}
Op == {op \in [touches : SUBSET {"known_neighbors", "table", "queue", "pending_acks",
                                 "pair_ciphers", "seq_num", "socket", "log"},
               locked : BOOLEAN] : op.touches \cap Guarded # {} => op.locked}

Disciplined == todo \in Seq(Op) /\ (inside => todo # <<>>)

Holding ==
  /\ (inside /\ Head(todo).locked) => owner = Main
  /\ npc \in {"handle", "answer", "relock"} => owner = Net

Draining ==
  /\ late \in {0, 1}
  /\ late = 1 => ~running /\ npc # "recv"

Ending ==
  /\ mpc = "exited" => npc = "done"
  /\ mpc # "loop" => todo = <<>>

Counting == npc \in {"recv", "lock", "handle", "answer", "relock", "sleep"} => i < Burst

Inv == TypeOK /\ Disciplined /\ Holding /\ Draining /\ Ending /\ Counting

(* A repeated operation is a sequence of operations.                       *)
LEMMA RepeatType ==
  ASSUME NEW op \in Op, NEW n \in Nat PROVE Repeat(n, op) \in Seq(Op)
BY DEF Repeat

(* The operations of the commands.                                         *)
LEMMA OpTypes ==
  /\ Locked({"known_neighbors"}) \in Op /\ Locked({"known_neighbors", "table"}) \in Op
  /\ Locked({"pair_ciphers"}) \in Op /\ Locked({"pending_acks"}) \in Op
  /\ Locked({"socket"}) \in Op
  /\ Unlocked({"table"}) \in Op /\ Unlocked({"queue"}) \in Op /\ Unlocked({"seq_num"}) \in Op
  /\ Unlocked({"log"}) \in Op
BY DEF Locked, Unlocked, Op, Guarded

(* A command is a sequence of operations.                                  *)
LEMMA CommandTypes == Commands \subseteq Seq(Op)
<1>1. List \in Seq(Op) /\ Table \in Seq(Op) /\ Queue \in Seq(Op) /\ Pending \in Seq(Op)
      /\ Status \in Seq(Op)
  BY OpTypes DEF List, Table, Queue, Pending, Status
<1>2. ASSUME NEW n \in 1 .. MaxFrags, NEW r \in BOOLEAN PROVE Send(n, r) \in Seq(Op)
  <2> DEFINE a == <<Locked({"known_neighbors", "table"}), Cipher>>
             b == Repeat(n, Unlocked({"seq_num"}))
             c == Repeat(n, Locked({"socket"}))
             d == <<Locked({"pending_acks"})>>
             e == Repeat(n, Unlocked({"queue"}))
  <2>1. n \in Nat
    BY ConstAssumption
  <2>2. a \in Seq(Op) /\ d \in Seq(Op)
    BY OpTypes DEF Cipher
  <2>3. b \in Seq(Op) /\ c \in Seq(Op) /\ e \in Seq(Op)
    BY <2>1, OpTypes, RepeatType
  <2>4. Send(n, r) = a \o b \o (IF r THEN c \o d ELSE e)
    BY DEF Send
  <2> HIDE DEF a, b, c, d, e
  <2>5. (IF r THEN c \o d ELSE e) \in Seq(Op)
    BY <2>2, <2>3
  <2> QED BY <2>2, <2>3, <2>4, <2>5
<1> QED BY <1>1, <1>2 DEF Commands

(* The next sequence id is one, too.                                       *)
LEMMA SeqType ==
  ASSUME NEW v \in 0 .. SeqWidth - 1 PROVE (v + 1) % SeqWidth \in 0 .. SeqWidth - 1
BY ConstAssumption

-----------------------------------------------------------------------------
(* The invariant holds where a run begins.                                 *)
LEMMA InitInv == Init => Inv
<1> SUFFICES ASSUME Init PROVE Inv
  OBVIOUS
<1>1. TypeOK
  <2>1. 0 \in 0 .. SeqWidth - 1 /\ 0 \in 0 .. Burst
    BY ConstAssumption
  <2>2. reg \in [{Main, Net} -> 0 .. SeqWidth - 1]
    BY <2>1 DEF Init
  <2> QED BY <2>1, <2>2 DEF Init, TypeOK, FrameKinds
<1>2. Disciplined /\ Holding /\ Draining /\ Ending /\ Counting
  BY DEF Init, Disciplined, Holding, Draining, Ending, Counting
<1> QED BY <1>1, <1>2 DEF Inv

(* The steps of main keep it.                                              *)
LEMMA MainInv ==
  ASSUME Inv, Quit \/ MainStep \/ \E cmd \in Commands : ReadCommand(cmd)
  PROVE  Inv'
<1> USE DEF Inv
<1>1. CASE \E cmd \in Commands : ReadCommand(cmd)
  BY <1>1, CommandTypes
     DEF ReadCommand, netvars, TypeOK, Disciplined, Holding, Draining, Ending, Counting
<1>2. CASE Quit
  BY <1>2 DEF Quit, netvars, TypeOK, Disciplined, Holding, Draining, Ending, Counting
<1>3. CASE Enter
  <2>1. TypeOK'
    BY <1>3 DEF Enter, ReadSeq, netvars, TypeOK, Main
  <2>2. Disciplined' /\ Draining' /\ Ending' /\ Counting'
    BY <1>3 DEF Enter, netvars, Disciplined, Draining, Ending, Counting
  <2>3. Holding'
    BY <1>3 DEF Enter, netvars, Holding, Main, Net, Free
  <2> QED BY <2>1, <2>2, <2>3
<1>4. CASE Leave
  <2>1. TypeOK'
    BY <1>4, SeqType DEF Leave, WriteSeq, netvars, TypeOK, Main, Free
  <2>2. Disciplined' /\ Draining' /\ Ending' /\ Counting'
    BY <1>4 DEF Leave, netvars, Disciplined, Draining, Ending, Counting
  <2>3. Holding'
    BY <1>4 DEF Leave, netvars, Holding, Main, Net, Free
  <2> QED BY <2>1, <2>2, <2>3
<1>5. CASE Join
  BY <1>5 DEF Join, Joined, netvars, TypeOK, Disciplined, Holding, Draining, Ending, Counting
<1> QED BY <1>1, <1>2, <1>3, <1>4, <1>5 DEF MainStep

(* The steps of the network thread keep it.                                *)
LEMMA NetInv ==
  ASSUME Inv, NetStep \/ Traffic
  PROVE  Inv'
<1> USE DEF Inv
<1>1. UNCHANGED mainvars /\ Disciplined'
  BY DEF NetStep, Traffic, Receive, Top, GoesOn, BurstEnds, Released, SendHello, Check, Lock, Answer, Handle,
     CallGetPairCipher, Sleep, Sweep, mainvars, Disciplined
<1>2. TypeOK' /\ Counting'
  <2>1. seq_num' \in 0 .. SeqWidth - 1
    BY SeqType DEF NetStep, Traffic, Receive, Top, GoesOn, BurstEnds, Released, SendHello, Check, Lock, Answer, Handle,
       CallGetPairCipher, Sleep, Sweep, WriteSeq, TypeOK, Net
  <2>2. reg' \in [{Main, Net} -> 0 .. SeqWidth - 1]
    BY DEF NetStep, Traffic, Receive, Top, GoesOn, BurstEnds, Released, SendHello, Check, Lock, Answer, Handle,
       CallGetPairCipher, Sleep, Sweep, ReadSeq, TypeOK
  <2>3. running' = running /\ owner' \in {Main, Net, Free}
    BY DEF NetStep, Traffic, Receive, Top, GoesOn, BurstEnds, Released, SendHello, Check, Lock, Answer, Handle,
       CallGetPairCipher, Sleep, Sweep, TypeOK
  <2>4. frame' \in FrameKinds
    BY ConstAssumption DEF NetStep, Traffic, Receive, Top, GoesOn, BurstEnds, Released, SendHello, Check, Lock, Answer,
       Handle, CallGetPairCipher, Sleep, Sweep, Goto, NextTurn, TypeOK
  <2>5. /\ npc' \in {"top", "hello", "check", "recv", "lock", "handle", "answer", "relock",
                     "sleep", "sweep", "done"}
        /\ i' \in 0 .. Burst /\ Counting'
    BY ConstAssumption DEF NetStep, Traffic, Receive, Top, GoesOn, BurstEnds, Released, SendHello, Check, Lock, Answer,
       Handle, CallGetPairCipher, Sleep, Sweep, Goto, NextTurn, TypeOK, Counting
  <2> QED BY <1>1, <2>1, <2>2, <2>3, <2>4, <2>5 DEF TypeOK, mainvars
<1>3. Holding'
  BY <1>1 DEF NetStep, Traffic, Receive, Top, GoesOn, BurstEnds, Released, SendHello, Check, Lock, Answer, Handle,
     CallGetPairCipher, Sleep, Sweep, Goto, NextTurn, mainvars, Holding, Main, Net, Free
<1>4. Draining'
  BY DEF NetStep, Traffic, Receive, Top, GoesOn, BurstEnds, Released, SendHello, Check, Lock, Answer, Handle,
     CallGetPairCipher, Sleep, Sweep, Goto, NextTurn, Draining, mainvars
<1>5. Ending'
  BY DEF NetStep, Traffic, Receive, Top, GoesOn, BurstEnds, Released, SendHello, Check, Lock, Answer, Handle,
     CallGetPairCipher, Sleep, Sweep, Goto, NextTurn, Ending, mainvars
<1> QED BY <1>1, <1>2, <1>3, <1>4, <1>5

(* Inv is an inductive invariant of Spec.                                  *)
THEOREM Invariance == Spec => []Inv
<1>1. Inv /\ [Next]_vars => Inv'
  <2> SUFFICES ASSUME Inv, [Next]_vars PROVE Inv'
    OBVIOUS
  <2>1. CASE UNCHANGED vars
    BY <2>1 DEF vars, Inv, TypeOK, Disciplined, Holding, Draining, Ending, Counting
  <2> QED BY <2>1, MainInv, NetInv DEF Next
<1> QED BY <1>1, InitInv, PTL DEF Spec

(* Every variable of NodeThreads keeps its type; the loop counter never    *)
(* passes Burst.                                                           *)
THEOREM TypeCorrect == Spec => []TypeOK
BY Invariance, PTL DEF Inv

(* The neighbour set and the cipher map are never touched by both threads  *)
(* at once: every operation that touches them holds net_mutex.             *)
THEOREM NeverRaced == Spec => []GuardedNeverRaced
<1>1. Inv => GuardedNeverRaced
  <2> SUFFICES ASSUME Inv, MainTouches \cap NetTouches \cap Guarded # {} PROVE FALSE
    BY DEF GuardedNeverRaced, NoRaceOn, Guarded
  <2>1. npc \in {"handle", "answer"}
    BY DEF NetTouches, Guarded
  <2>2. inside /\ Head(todo).touches \cap Guarded # {}
    BY DEF MainTouches
  <2>3. Head(todo) \in Op
    BY <2>2 DEF Inv, Disciplined
  <2>4. Head(todo).locked
    BY <2>2, <2>3 DEF Op
  <2> QED BY <2>1, <2>2, <2>4 DEF Inv, Holding, Main, Net
<1> QED BY <1>1, Invariance, PTL

(* After quit at most one more frame is handled, for every Burst.          *)
THEOREM AtMostOneLateFrame == Spec => []OneLateFrame
<1>1. Inv => OneLateFrame
  BY DEF Inv, Draining, OneLateFrame
<1> QED BY <1>1, Invariance, PTL

(* The socket outlives the network thread.                                 *)
THEOREM JoinedBeforeClose == Spec => []ClosedAfterJoin
<1>1. Inv => ClosedAfterJoin
  BY DEF Inv, Ending, ClosedAfterJoin
<1> QED BY <1>1, Invariance, PTL
=============================================================================
