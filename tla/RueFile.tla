------------------------------ MODULE RueFile ------------------------------
(***************************************************************************)
(* The .rue store-and-forward queue (persistence.cpp) as its two users     *)
(* drive it: the main thread enqueues (araba_node.cpp, `send`), the        *)
(* network thread hands the entries of a peer it hears to send_packet and  *)
(* removes them, and the process may crash between any two system calls.   *)
(*                                                                         *)
(* One action is one system call on the file. An iostream keeps what is    *)
(* written to it in its buffer until it is closed, so enqueue appends its  *)
(* entry only after it has rewritten the header, and remove_entry leaves   *)
(* the file empty between opening it with trunc and closing it.            *)
(*                                                                         *)
(* The file is a sequence of cells: the first nine bytes, and for each     *)
(* entry its first nine bytes (head) and its other 519 (tail). A reader    *)
(* skips the first cell and takes the rest two by two; a pair that is not  *)
(* the head and tail of one entry is an entry with a meaningless address.  *)
(***************************************************************************)
EXTENDS Selection, SequencesExt

CONSTANTS
  Peer,        \* destinations
  Key,         \* what remove_entry compares besides the address: timestamp, length
  Overlap,     \* may enqueue run while the network thread is in its handler?
  MaxCrashes,  \* bound: crashes
  MaxMsgs      \* bound: enqueued entries

ASSUME ConstAssumption ==
  /\ Overlap \in BOOLEAN
  /\ MaxCrashes \in Nat /\ MaxMsgs \in Nat

VARIABLES
  file,      \* cells of the file; meaningless while it does not exist
  exists,    \* the file exists
  up,        \* "down", "creating" (ensure_header, file still empty) or "up"
  main,      \* main thread inside enqueue
  net,       \* network thread inside its handler
  msgs,      \* history: every entry passed to enqueue, in order
  accepted,  \* history: entries whose enqueue returned
  taken,     \* history: entries passed to send_packet, in order
  torn,      \* history: entries that a crash caught in memory only
  raced,     \* history: an enqueue and a rewriting have overlapped
  crashes    \* number of crashes

vars == <<file, exists, up, main, net, msgs, accepted, taken, torn, raced, crashes>>

Unknown == -1
Hdr(n) == [part |-> "hdr", id |-> n]   \* entry_count n; Unknown: version byte 0 or no count
Head9(i) == [part |-> "head", id |-> i]
Tail519(i) == [part |-> "tail", id |-> i]
EntryCells(i) == <<Head9(i), Tail519(i)>>
Nobody == 0

MainIdle == [pc |-> "idle", id |-> 0, count |-> 0]
NetIdle == [pc |-> "idle", todo |-> <<>>, rest |-> <<>>]

-----------------------------------------------------------------------------
(* Reading the file.                                                       *)

(* get_all: the entries after the header; an incomplete last one is not    *)
(* returned.                                                               *)
GetAll ==
  IF file = <<>> THEN <<>>
  ELSE [k \in 1 .. (Len(file) - 1) \div 2 |-> <<file[2 * k], file[2 * k + 1]>>]

(* The message an entry read from the file holds; Nobody if it straddles   *)
(* two messages.                                                           *)
IdOf(entry) ==
  IF \E i \in DOMAIN msgs : entry = EntryCells(i) THEN entry[1].id ELSE Nobody

DestIs(entry, p) == IdOf(entry) # Nobody /\ msgs[IdOf(entry)].dest = p

GetPending(p) == Only(GetAll, {e \in ToSet(GetAll) : DestIs(e, p)})

(* What remove_entry compares: the payload is not part of it.              *)
Matches(e, i) == DestIs(e, msgs[i].dest) /\ msgs[IdOf(e)].key = msgs[i].key

FilteredLast(i) ==   \* mutant: the last match is removed
  LET hits == {k \in 1 .. Len(GetAll) : Matches(GetAll[k], i)}
  IN  IF hits = {} THEN GetAll
      ELSE RemoveAt(GetAll, CHOOSE k \in hits : \A j \in hits : k >= j)

FilteredAll(i) ==    \* mutant: every match is removed
  SelectSeq(GetAll, LAMBDA e : ~Matches(e, i))

(* The entries remove_entry keeps: all but the first match.                *)
Filtered(i) ==
  LET hits == {k \in 1 .. Len(GetAll) : Matches(GetAll[k], i)}
  IN  IF hits = {} THEN GetAll
      ELSE RemoveAt(GetAll, CHOOSE k \in hits : \A j \in hits : k <= j)

(* The cells of entries, one entry after the other.                        *)
Cells(entries) ==
  [n \in 1 .. 2 * Len(entries) |-> entries[(n + 1) \div 2][IF n % 2 = 1 THEN 1 ELSE 2]]

(* Writing cells at offset 0 over what is there.                           *)
Overlay(cells) == cells \o SubSeq(file, Len(cells) + 1, Len(file))

(* read_header leaves count alone when the file is empty or its version    *)
(* byte is wrong: Unknown stands for enqueue's uninitialised variable.     *)
CountRead == IF file # <<>> /\ file[1].part = "hdr" THEN file[1].id ELSE Unknown

CountRaisedTwice(n) ==   \* mutant: two are added
  IF n = Unknown \/ file = <<>> THEN Unknown ELSE n + 2

CountKept(n) == n        \* mutant: the count is not raised

CountRaised(n) == IF n = Unknown \/ file = <<>> THEN Unknown ELSE n + 1

-----------------------------------------------------------------------------
Init ==
  /\ file = <<>> /\ exists = FALSE /\ up = "down"
  /\ main = MainIdle /\ net = NetIdle
  /\ msgs = <<>> /\ accepted = {} /\ taken = <<>> /\ torn = {} /\ raced = FALSE
  /\ crashes = 0

(* RueQueue(filename), ensure_header: an existing file is only looked at.  *)
Start ==
  /\ up = "down"
  /\ exists' = TRUE
  /\ up' = IF exists THEN "up" ELSE "creating"
  /\ UNCHANGED <<file, main, net, msgs, accepted, taken, torn, raced, crashes>>

CreateHeader ==
  /\ up = "creating"
  /\ file' = <<Hdr(0)>>
  /\ up' = "up"
  /\ UNCHANGED <<exists, main, net, msgs, accepted, taken, torn, raced, crashes>>

-----------------------------------------------------------------------------
(* Main thread: enqueue. It does not take net_mutex.                       *)

OpenForAppend(p, k) ==
  /\ up = "up" /\ main.pc = "idle"
  /\ Overlap \/ net.pc = "idle"
  /\ Len(msgs) < MaxMsgs
  /\ msgs' = Append(msgs, [dest |-> p, key |-> k])
  /\ main' = [MainIdle EXCEPT !.pc = "opened", !.id = Len(msgs) + 1]
  /\ raced' = (raced \/ net.pc \in {"trunc", "write"})
  /\ UNCHANGED <<file, exists, up, net, accepted, taken, torn, crashes>>

ReadHeader ==
  /\ main.pc = "opened"
  /\ main' = [main EXCEPT !.pc = "counted", !.count = CountRead]
  /\ UNCHANGED <<file, exists, up, net, msgs, accepted, taken, torn, raced, crashes>>

(* write_header makes a file of nine bytes, five of them zero, out of an   *)
(* empty one.                                                              *)
WriteHeader ==
  /\ main.pc = "counted"
  /\ file' = Overlay(<<Hdr(CountRaised(main.count))>>)
  /\ main' = [main EXCEPT !.pc = "bumped"]
  /\ UNCHANGED <<exists, up, net, msgs, accepted, taken, torn, raced, crashes>>

AppendedTruncating(i) == EntryCells(i)   \* mutant: opened without app
Appended(i) == file \o EntryCells(i)

AppendEntry ==
  /\ main.pc = "bumped"
  /\ file' = Appended(main.id)
  /\ accepted' = accepted \cup {main.id}
  /\ main' = MainIdle
  /\ UNCHANGED <<exists, up, net, msgs, taken, torn, raced, crashes>>

-----------------------------------------------------------------------------
(* Network thread: a frame from p; the entries queued for p are read once. *)
HearPeer(p) ==
  /\ up = "up" /\ net.pc = "idle"
  /\ Overlap \/ main.pc = "idle"
  /\ GetPending(p) # <<>>
  /\ net' = [NetIdle EXCEPT !.pc = "send", !.todo = GetPending(p)]
  /\ UNCHANGED <<file, exists, up, main, msgs, accepted, taken, torn, raced, crashes>>

(* Whether send_packet succeeds is not looked at.                          *)
SendPacket ==
  /\ net.pc = "send"
  /\ taken' = Append(taken, IdOf(Head(net.todo)))
  /\ net' = [net EXCEPT !.pc = "find"]
  /\ UNCHANGED <<file, exists, up, main, msgs, accepted, torn, raced, crashes>>

NextEntry == IF Len(net.todo) = 1 THEN NetIdle
             ELSE [NetIdle EXCEPT !.pc = "send", !.todo = Tail(net.todo)]

(* remove_entry reads the file again; it stops if the entry is not there.  *)
FindEntry ==
  /\ net.pc = "find"
  /\ LET i == IdOf(Head(net.todo))
     IN  net' = IF Filtered(i) = GetAll THEN NextEntry
                ELSE [net EXCEPT !.pc = "trunc", !.rest = Filtered(i)]
  /\ raced' = (raced \/ (net'.pc = "trunc" /\ main.pc # "idle"))
  /\ UNCHANGED <<file, exists, up, main, msgs, accepted, taken, torn, crashes>>

Truncate ==
  /\ net.pc = "trunc"
  /\ file' = <<>>
  /\ net' = [net EXCEPT !.pc = "write"]
  /\ UNCHANGED <<exists, up, main, msgs, accepted, taken, torn, raced, crashes>>

KeptReversed == Reverse(net.rest)   \* mutant: the remaining entries are written back to front
KeptEntries == net.rest

(* The stream is closed: header and remaining entries reach the file.      *)
Rewrite ==
  /\ net.pc = "write"
  /\ file' = Overlay(<<Hdr(Len(net.rest))>> \o Cells(KeptEntries))
  /\ net' = NextEntry
  /\ UNCHANGED <<exists, up, main, msgs, accepted, taken, torn, raced, crashes>>

-----------------------------------------------------------------------------
(* The process dies: what the threads held in memory is gone.              *)
Crash ==
  /\ up # "down" /\ crashes < MaxCrashes
  /\ up' = "down" /\ crashes' = crashes + 1
  /\ main' = MainIdle /\ net' = NetIdle
  /\ torn' = IF net.pc = "write" THEN torn \cup {IdOf(net.rest[k]) : k \in DOMAIN net.rest}
             ELSE torn
  /\ UNCHANGED <<file, exists, msgs, accepted, taken, raced>>

Enqueue == ReadHeader \/ WriteHeader \/ AppendEntry
Handle == SendPacket \/ FindEntry \/ Truncate \/ Rewrite

Next ==
  \/ Start \/ CreateHeader \/ Crash
  \/ \E p \in Peer, k \in Key : OpenForAppend(p, k)
  \/ Enqueue
  \/ \E p \in Peer : HearPeer(p)
  \/ Handle

Spec == Init /\ [][Next]_vars

(* Both threads run; every peer is heard again and again (environment).    *)
FairSpec ==
  /\ Spec
  /\ WF_vars(Start \/ CreateHeader) /\ WF_vars(Enqueue) /\ WF_vars(Handle)
  /\ \A p \in Peer : SF_vars(HearPeer(p))

-----------------------------------------------------------------------------
OnFile == {IdOf(GetAll[k]) : k \in DOMAIN GetAll} \ {Nobody}
InRewrite == IF net.pc = "write" THEN {IdOf(net.rest[k]) : k \in DOMAIN net.rest} ELSE {}
Taken == Range(taken)

Cell == [part : {"hdr", "head", "tail"}, id : Unknown .. MaxMsgs]

(* Every variable has its type; the file holds whole cells.                *)
TypeOK ==
  /\ file \in Seq(Cell)
  /\ exists \in BOOLEAN /\ up \in {"down", "creating", "up"}
  /\ main \in [pc : {"idle", "opened", "counted", "bumped"}, id : 0 .. MaxMsgs,
               count : Unknown .. MaxMsgs]
  /\ net \in [pc : {"idle", "send", "find", "trunc", "write"},
              todo : Seq(Seq(Cell)), rest : Seq(Seq(Cell))]
  /\ msgs \in Seq([dest : Peer, key : Key])
  /\ accepted \subseteq DOMAIN msgs
  /\ taken \in Seq(DOMAIN msgs)
  /\ torn \subseteq 0 .. MaxMsgs /\ raced \in BOOLEAN
  /\ crashes \in 0 .. MaxCrashes

(* The entries of a peer are handed to send_packet in the order they were  *)
(* enqueued, whatever the interleaving and whenever the process crashes;   *)
(* a crash may repeat an entry, never reorder two.                         *)
InOrder ==
  \A i, j \in DOMAIN taken :
    (i < j /\ msgs[taken[i]].dest = msgs[taken[j]].dest) => taken[i] <= taken[j]

(* Without a crash no entry is handed to send_packet twice: remove_entry   *)
(* takes out the entry that was sent although it does not compare the      *)
(* payload, and no interleaving with enqueue brings one back.              *)
AtMostOnce ==
  crashes = 0 => \A i, j \in DOMAIN taken : i # j => taken[i] # taken[j]

(* An enqueued entry stays on file until it is handed to send_packet, but  *)
(* for the entries whose only copy was in memory when the process died     *)
(* between trunc and close: no other crash loses one, and an enqueue may   *)
(* run beside the sending of other entries, only not beside the rewriting  *)
(* of the file.                                                            *)
Kept == raced \/ accepted \subseteq OnFile \cup InRewrite \cup Taken \cup torn

(* Until the process crashes or an enqueue overlaps a rewriting, the file  *)
(* implements the abstract queue of StoreForward: AppendEntry stores,      *)
(* SendPacket forwards, and the rewriting of the file in between is not    *)
(* visible, however else the calls of the two threads overlap.             *)
Stored ==
  LET entries == IF net.pc = "write" THEN net.rest ELSE GetAll
      ids == [k \in DOMAIN entries |-> IdOf(entries[k])]
      left == Only(ids, DOMAIN msgs \ Taken)
  IN  [k \in DOMAIN left |-> [id |-> left[k], dest |-> msgs[left[k]].dest]]

Abstract == INSTANCE StoreForward WITH
  queue <- Stored, forwarded <- taken

Refines ==
  Abstract!Init /\ [][(crashes' = 0 /\ ~raced') => [Abstract!Next]_<<Stored, taken>>]_vars

(* Outside its own operations the header counts the entries of the file,   *)
(* as long as no crash and no overlap with a rewriting has come between    *)
(* the header and the entry of an enqueue.                                 *)
CountMatches ==
  (up = "up" /\ main.pc = "idle" /\ net.pc # "write" /\ crashes = 0 /\ ~raced)
     => file[1] = Hdr(Len(GetAll))

(* Every enqueued entry is eventually handed to send_packet if its peer is *)
(* heard again and again, also after crashes, but for the losses that Kept *)
(* excepts.                                                                *)
Forwarded == \A i \in 1 .. MaxMsgs : i \in accepted ~> (i \in Taken \cup torn \/ raced)

=============================================================================
