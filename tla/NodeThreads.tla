---------------------------- MODULE NodeThreads ----------------------------
(***************************************************************************)
(* The two threads of a node (araba_node.cpp): the network thread running  *)
(* network_loop and the main thread running the command loop, with the one *)
(* mutex, the flag `running` and the shared objects each step touches. The *)
(* contents of those objects are the subject of the other modules.         *)
(*                                                                         *)
(* receive_packet is a recvfrom without timeout: the network thread stays  *)
(* in it until a frame arrives. net_mutex is not recursive: a thread that  *)
(* locks it while holding it waits for ever (glibc), which is what happens *)
(* in get_pair_cipher when the handler of a DATA frame calls it.           *)
(***************************************************************************)
EXTENDS Integers, Sequences

CONSTANTS
  Kinds,     \* kinds of frames on the air, out of FrameKinds
  Burst,     \* receive_packet calls per turn of the outer loop (10)
  SeqWidth,  \* seq_num counts modulo this (2^32)
  MaxFrags   \* bound: fragments of one message

FrameKinds == {
  "own",    \* sent by this node: skipped
  "short",  \* receive_packet returns false
  "plain",  \* DISCOVERY, ROUTE_ADV, ACK or a foreign frame
  "part",   \* a DATA fragment that completes no message
  "data" }  \* a DATA frame that is decrypted at once

ASSUME ConstAssumption ==
  /\ Kinds \subseteq FrameKinds
  /\ Burst \in Nat \ {0} /\ SeqWidth \in Nat \ {0} /\ MaxFrags \in Nat \ {0}

VARIABLES
  running,  \* the global flag
  owner,    \* who holds net_mutex
  npc,      \* control point of the network thread
  i,        \* its loop counter
  frame,    \* kind of the frame in its hands
  todo,     \* main: operations left of the command being executed
  inside,   \* main: it is inside the first of them
  mpc,      \* main: "loop", "join" or "exited"
  seq_num,  \* the shared counter
  reg,      \* value of seq_num each thread has read and will use as an id
  late      \* history: frames handled after running was cleared

vars == <<running, owner, npc, i, frame, todo, inside, mpc, seq_num, reg, late>>
netvars == <<npc, i, frame>>
mainvars == <<todo, inside, mpc>>

Main == "main"
Net == "net"
Free == "free"

(* An operation of the main thread: what it touches, and whether it runs   *)
(* under a lock_guard of its own.                                          *)
Locked(objs) == [touches |-> objs, locked |-> TRUE]
Unlocked(objs) == [touches |-> objs, locked |-> FALSE]
Repeat(n, op) == [k \in 1 .. n |-> op]

List == <<Locked({"known_neighbors"})>>
Table == <<Unlocked({"table"})>>
Queue == <<Unlocked({"queue"})>>
Pending == <<Locked({"pending_acks"})>>
Status == <<Unlocked({"log"})>>   \* status, receive

CipherUnlocked == Unlocked({"pair_ciphers"})   \* mutant: no lock_guard
Cipher == Locked({"pair_ciphers"})

(* `send`: the look-up, get_pair_cipher, fragment_message drawing n        *)
(* sequence ids, and then the packets and the PendingAck, or the queue.    *)
Send(n, reachable) ==
  <<Locked({"known_neighbors", "table"}), Cipher>>
    \o Repeat(n, Unlocked({"seq_num"}))
    \o IF reachable THEN Repeat(n, Locked({"socket"})) \o <<Locked({"pending_acks"})>>
                    ELSE Repeat(n, Unlocked({"queue"}))

Commands == {List, Table, Queue, Pending, Status} \cup
            {Send(n, r) : n \in 1 .. MaxFrags, r \in BOOLEAN}

-----------------------------------------------------------------------------
Init ==
  /\ running = TRUE /\ owner = Free
  /\ npc = "top" /\ i = 0 /\ frame = "own"
  /\ todo = <<>> /\ inside = FALSE /\ mpc = "loop"
  /\ seq_num = 0 /\ reg = [t \in {Main, Net} |-> 0]
  /\ late = 0

ReadSeq(t) == reg' = [reg EXCEPT ![t] = seq_num]
WriteSeq(t) == seq_num' = (reg[t] + 1) % SeqWidth

-----------------------------------------------------------------------------
(* Main thread.                                                            *)

ReadCommand(cmd) ==
  /\ mpc = "loop" /\ running /\ todo = <<>>
  /\ todo' = cmd
  /\ UNCHANGED <<running, owner, netvars, inside, mpc, seq_num, reg, late>>

(* quit, exit, or the end of standard input.                               *)
Quit ==
  /\ mpc = "loop" /\ todo = <<>>
  /\ running' = FALSE
  /\ mpc' = "join"
  /\ UNCHANGED <<owner, netvars, todo, inside, seq_num, reg, late>>

Enter ==
  /\ todo # <<>> /\ ~inside
  /\ IF Head(todo).locked THEN owner = Free /\ owner' = Main ELSE UNCHANGED owner
  /\ IF "seq_num" \in Head(todo).touches THEN ReadSeq(Main) ELSE UNCHANGED reg
  /\ inside' = TRUE
  /\ UNCHANGED <<running, netvars, todo, mpc, seq_num, late>>

Leave ==
  /\ inside
  /\ inside' = FALSE
  /\ todo' = Tail(todo)
  /\ owner' = IF Head(todo).locked THEN Free ELSE owner
  /\ IF "seq_num" \in Head(todo).touches THEN WriteSeq(Main) ELSE UNCHANGED seq_num
  /\ UNCHANGED <<running, netvars, mpc, reg, late>>

Joined == npc = "done"

(* net_thread.join(), then net.close().                                    *)
Join ==
  /\ mpc = "join" /\ Joined
  /\ mpc' = "exited"
  /\ UNCHANGED <<running, owner, netvars, todo, inside, seq_num, reg, late>>

MainStep == Enter \/ Leave \/ Join

-----------------------------------------------------------------------------
(* Network thread.                                                         *)

Goto(pc) == npc' = pc /\ UNCHANGED <<i, frame>>
NextTurn == npc' = "check" /\ i' = i + 1 /\ UNCHANGED frame

GoesOnForever == TRUE   \* mutant: while (true)
GoesOn == running

Top ==
  /\ npc = "top"
  /\ IF GoesOn THEN Goto("hello") /\ ReadSeq(Net) ELSE Goto("done") /\ UNCHANGED reg
  /\ UNCHANGED <<running, owner, mainvars, seq_num, late>>

SendHello ==
  /\ npc = "hello"
  /\ WriteSeq(Net)
  /\ npc' = "check" /\ i' = 0 /\ UNCHANGED frame
  /\ UNCHANGED <<running, owner, mainvars, reg, late>>

BurstEndsByCount == i = Burst               \* mutant: running is not looked at between frames
BurstEndsLate == i > Burst \/ ~running      \* mutant: i <= 10
BurstEnds == i = Burst \/ ~running

Check ==
  /\ npc = "check"
  /\ Goto(IF BurstEnds THEN "sweep" ELSE "recv")
  /\ UNCHANGED <<running, owner, mainvars, seq_num, reg, late>>

(* recvfrom returns a frame. `continue` skips the sleep of 100 ms.         *)
Receive(kind) ==
  /\ npc = "recv"
  /\ frame' = kind
  /\ \/ kind = "own" /\ npc' = "check" /\ i' = i + 1
     \/ kind = "short" /\ npc' = "sleep" /\ UNCHANGED i
     \/ kind \in {"plain", "part", "data"} /\ npc' = "lock" /\ UNCHANGED i
  /\ late' = IF running THEN 0 ELSE late + 1
  /\ UNCHANGED <<running, owner, mainvars, seq_num, reg>>

Lock ==
  /\ npc = "lock" /\ owner = Free
  /\ owner' = Net
  /\ Goto("handle")
  /\ UNCHANGED <<running, mainvars, seq_num, reg, late>>

(* A ROUTE_ADV in answer to a DISCOVERY, or an auto-delivered entry, draws *)
(* a sequence id (one stands for several).                                 *)
Answer ==
  /\ npc = "handle" /\ frame = "plain"
  /\ ReadSeq(Net)
  /\ Goto("answer")
  /\ UNCHANGED <<running, owner, mainvars, seq_num, late>>

ReleasedNever == owner   \* mutant: the lock is not released
Released == Free

(* The handler of a frame that needs no cipher ends.                       *)
Handle ==
  /\ npc \in {"handle", "answer"} /\ frame \in {"plain", "part"}
  /\ owner' = Released
  /\ IF npc = "answer" THEN WriteSeq(Net) ELSE UNCHANGED seq_num
  /\ IF frame = "part" THEN NextTurn ELSE Goto("sleep")
  /\ UNCHANGED <<running, mainvars, reg, late>>

(* get_pair_cipher locks net_mutex, which this thread holds: no step of    *)
(* the thread leaves "relock".                                             *)
CallGetPairCipher ==
  /\ npc = "handle" /\ frame = "data"
  /\ Goto("relock")
  /\ UNCHANGED <<running, owner, mainvars, seq_num, reg, late>>

Sleep ==
  /\ npc = "sleep"
  /\ NextTurn
  /\ UNCHANGED <<running, owner, mainvars, seq_num, reg, late>>

(* The retry sweep and cleanup_stale, without the lock.                    *)
Sweep ==
  /\ npc = "sweep"
  /\ Goto("top")
  /\ UNCHANGED <<running, owner, mainvars, seq_num, reg, late>>

NetStep == Top \/ SendHello \/ Check \/ Lock \/ Answer \/ Handle \/ CallGetPairCipher
             \/ Sleep \/ Sweep
Traffic == \E kind \in Kinds : Receive(kind)

Next ==
  \/ \E cmd \in Commands : ReadCommand(cmd)
  \/ Quit
  \/ MainStep
  \/ NetStep
  \/ Traffic

Spec == Init /\ [][Next]_vars

(* The scheduler runs both threads, and a thread that waits for the mutex  *)
(* while it is free again and again gets it: the network thread holds it   *)
(* only inside the handler and sleeps between frames.                      *)
ThreadFairness ==
  /\ SF_vars(Enter) /\ WF_vars(Leave) /\ WF_vars(Join)
  /\ SF_vars(Lock) /\ WF_vars(NetStep)

FairSpec == Spec /\ ThreadFairness /\ WF_vars(Traffic)   \* some frame keeps arriving

-----------------------------------------------------------------------------
(* Every variable has its type.                                            *)
TypeOK ==
  /\ running \in BOOLEAN /\ inside \in BOOLEAN
  /\ owner \in {Main, Net, Free}
  /\ npc \in {"top", "hello", "check", "recv", "lock", "handle", "answer", "relock",
              "sleep", "sweep", "done"}
  /\ i \in 0 .. Burst /\ frame \in FrameKinds
  /\ mpc \in {"loop", "join", "exited"}
  /\ seq_num \in 0 .. SeqWidth - 1 /\ reg \in [{Main, Net} -> 0 .. SeqWidth - 1]

(* What a thread is touching now; the handler is taken as one piece.       *)
MainTouches == IF inside THEN Head(todo).touches ELSE {}
NetTouches ==
  IF npc = "hello" THEN {"seq_num", "socket"}
  ELSE IF npc \in {"handle", "answer"} THEN {"known_neighbors", "table", "queue", "pending_acks",
                               "pair_ciphers", "seq_num", "socket", "log"}
  ELSE IF npc = "sweep" THEN {"pending_acks", "log"}
  ELSE {}

NoRaceOn(objs) == MainTouches \cap NetTouches \cap objs = {}

(* The neighbour set and the cipher map are never touched by both threads  *)
(* at once, from the start to the end of every command and handler.        *)
GuardedNeverRaced == NoRaceOn({"known_neighbors", "pair_ciphers"})

(* Once quit has cleared running, at most the one frame the network thread *)
(* is blocked for is still handled before the loop stops.                  *)
OneLateFrame == late <= 1

(* The socket is closed only when the network thread has ended.            *)
ClosedAfterJoin == mpc = "exited" => npc = "done"

(* quit ends the node, unless a DATA frame has stopped the network thread. *)
QuitTerminates == mpc = "join" ~> mpc = "exited" \/ npc = "relock"

(* A command that was read is executed to its end, however busy the        *)
(* network thread is, unless a DATA frame has stopped that thread.         *)
CommandsComplete == todo # <<>> ~> todo = <<>> \/ npc = "relock"

-----------------------------------------------------------------------------
(* What the documents and comments say beyond that.                        *)

(* A DATA frame is decrypted: the handler comes back from get_pair_cipher. *)
DataHandled == npc = "relock" ~> npc # "relock"
=============================================================================
