# A TLA+ verification of the ARABA mesh node

ARABA (`src/`) is a chat node for a mesh of Linux machines that talk raw Ethernet
frames. One process per machine runs a command loop and a network thread, keeps a
routing table, encrypts and fragments messages, tracks acknowledgements and stores
messages for absent peers in a `.rue` file. This directory models the node in
TLA+, checks the models with TLC and proves with TLAPS every safety property the runs
check.

## 1. Inventory

| part | state | operations | code |
|---|---|---|---|
| routing table, neighbour set | `table`, `known_neighbors` | `add_route`, `find_next_hop`, `is_stale`, `unpack_routes`, first-contact insertion | `routing.cpp`, `araba_node.cpp` 136-166, 194-240 |
| delivery tracking | `pending_acks`, `next_ack_seq`, `seq_num` | tracking in `send`, ACK handler, retry sweep | `araba_node.cpp` 36-45, 242-252, 324-351, 525-547 |
| store-and-forward queue | the `.rue` file | `ensure_header`, `enqueue`, `get_pending`, `get_all`, `remove_entry` | `persistence.cpp`, `araba_node.cpp` 210-223, 552-556 |
| threads and shutdown | `running`, `net_mutex`, the two program counters | command loop, `network_loop`, `quit` | `araba_node.cpp` 177-360, 403-570 |
| message handling | all of the above | `send`; DISCOVERY, ROUTE_ADV, ACK, DATA handlers | `araba_node.cpp` 194-322, 490-559 |
| fragmentation | `partials`, `next_msg_id` | `fragment_message`, `reassemble_packet`, `cleanup_stale` | `fragment.cpp` |
| network interface | socket, interface index, address | `open`, `open_auto`, `close`, `send_packet`, `receive_packet` | `network.cpp` |
| packet format | - | header layout, `init`, address conversion | `packet.hpp` |
| cryptography | `base_key`, `pair_ciphers` | key derivation, AES-CBC with padding | `crypto.cpp`, `araba_node.cpp` 67-134 |
| configuration | `g_config`, the file | `load_config`, `save_default_config` | `config.cpp` |
| log, output, test programs | - | printing | `araba_node.cpp`, `test_*.cpp` |

How the parts interact. Main and the network thread share every object above.
Main calls into them from the command it executes; the network thread from the
handler of a frame (under `net_mutex`) and from the sweep that follows every ten
`receive_packet` calls (without it). Nodes interact by frames only: they may be lost,
repeated and reordered, the socket takes every frame on the air (`ETH_P_ALL`) and
`Packet::isValid` is never called, so a handler may see any input. The
`.rue` file and the configuration file connect one life of the process with the next.

What is hard here:

- one mutex that some accesses take and others do not: `enqueue`, `table`,
  `queue`, `seq_num++` and the sweep run without it, `send` gives it back between its
  look-up and its use, and `get_pair_cipher` takes it a second time inside the handler;
- blocking without a timeout: everything the network thread owes (hello, sweep,
  the look at `running`) waits for the next frame;
- a file that is rewritten in place through buffered streams while the process may
  die or the other thread may append;
- two independent counters (`seq_num`, `next_ack_seq`) that number the same
  messages, and fragments kept under a 16-bit id that every sender counts from 1;
- results that nobody looks at: `send_packet`, `enqueue`, `save_default_config`;
- bytes read under a header that did not come with them: the 14 bytes skipped by
  the receiver and never sent, the IV taken for a `FragHeader`, the payload left over
  from an earlier frame;
- narrow and unsigned arithmetic: hop counts in a byte, route ages in `uint64_t`,
  settings cut to their width, ages of pending messages signed;
- routes that age but are never refreshed or removed, neighbours that never leave.

`PROJECT.json` lists these line by line under `hazards`.

## 2. Modules

| module | models | proved in |
|---|---|---|
| `Routing` | the routing table and neighbour set of one node | `RoutingProofs` |
| `Acks` | `pending_acks`, its two writers and the unlocked sweep | `AcksProofs` |
| `RueFile` | the `.rue` file, system call by system call, two threads, crashes | `RueFileProofs` |
| `StoreForward` | abstract: what the queue promises; implemented by `RueFile` | `RueFileProofs` (the refinement) |
| `NodeThreads` | both threads, the mutex, `running` and who touches what | `NodeThreadsProofs` |
| `Dispatch` | composition: `send` against the handlers, routes, neighbours and queue, peers that come and go | `DispatchProofs` |
| `Fragment` | cutting, the air, reassembly, cleanup, restarts | `FragmentProofs` |
| `Cipher` | a message through encryption and decryption, byte by byte | `CipherProofs` |
| `Interface` | socket and process from `main`'s first line to its end, and `receive_packet` | `InterfaceProofs` |
| `Wire`, `Config` | operators used by `Interface`: bytes of a packet, configuration file | `InterfaceProofs` |
| `Selection` | `Only`, the selection from a sequence that `Dispatch` and `RueFile` use | `RueFileProofs`, `DispatchProofs` |

The `MC*` modules name the instances; constants get their values in the `.cfg` files, or
are defined in `MCCipher` and `MCInterface` where a `.cfg` cannot express them.
Operators marked `\* mutant` are deliberately wrong variants of the definition that
follows them, used to show that each property depends on the code it speaks about.

### Routing

State: `table` (a total function, since `table[key]` default-constructs a missing
entry: `NoRoute`), `known_neighbors`, the wall clock `now`, and `adv`/`via`, the
rest of the ROUTE_ADV in hand and its sender. `offers` is a history of all calls of
`add_route`. `Hear` is the head of the loop body that every packet passes; only
the first packet of a source reaches `add_route`. `UnpackOne` is one turn of
`unpack_routes`; time may pass between turns because every `add_route` reads the
clock anew. `hops + 1` is passed as `uint8_t`, hence `% 256`. The wall clock may
be set back (`std::time`); then an unsigned age is huge and the route is stale.

`BlockedOnlyByShorter` says how far "self-healing" goes. A fresh offer for a
destination does not always yield a route: `add_route` never refreshes or invalidates
an entry, so one that has aged out blocks every offer that is not shorter. That is the
only obstacle.

### Acks

Main's `send` is three kinds of step: draw the sequence ids and the key
(`BeginSend`), send one packet (`Transmit`, the mutex is released between packets),
insert the entry (`Track`). The network thread draws an id for its hello, receives
`Burst` frames, then sweeps with an iterator (`it`) and a clock reading
(`sweep_now`) taken once: main's insertion may fall between any two turns. As in
the code, a "retry" only counts and restarts the timer; nothing is sent again.
`Stray` says whether ACKs may carry any number (the real network) or only numbers
of DATA packets this node sent (well-behaved peers, for the confirmation run).
Destinations and payloads are left out: no property tells them apart. An
unsynchronised map insertion is one atomic step here: the memory-level damage a
race inside the red-black tree could do is undefined behaviour without a useful
set of outcomes, so the model shows the best case of that race.

### RueFile and StoreForward

The file is a sequence of cells: nine bytes of header, and nine plus 519 bytes
per entry. Nine bytes is what `write_header` overwrites and what a reader skips,
so every partial state the code can produce is a sequence of whole cells, including
files whose entries have lost alignment. `ofstream` buffers: the entry that
`enqueue` wrote reaches the disk only when its stream is destroyed, after
`read_header` and `write_header` have opened the file on their own; in
`remove_entry` the file is empty from `trunc` until the stream is closed. An action
is one access to the file, and `Crash` may come between any two. (An entry and a
rewriting are taken to reach the disk in one write; the operating system
itself does not crash.) `count` is read uninitialised when the header is missing:
`Unknown`. `remove_entry` compares address, timestamp and length; `Key` stands for the
latter two, so two entries may agree in all of them. What `send_packet` returns is
not looked at by the code; `taken` records the calls.

`raced` records that an `enqueue` and a rewriting of the file (from `get_all` to
close) have overlapped, `torn` the entries whose only copy was in memory when the
process died. These are two real ways to lose an entry: main calls `enqueue` without
`net_mutex`, although `docs/ARCHITECTURE.md:97` says the mutex protects queue access,
and a crash between `trunc` and close loses all that was still queued, although
`README.md:85` has messages survive reboots. `Kept` says there is no third, and
`Forwarded` that whatever they spare is handed on.

`StoreForward` is the promise: entries stay in order until the oldest of some
destination is handed on. The refinement mapping takes the entries on file (or, during
a rewriting, in memory) that have not been handed to `send_packet`.

### NodeThreads

A command is the sequence of its operations, each with the objects it touches and
whether a `lock_guard` covers it. `Enter` and `Leave` bracket an operation. The
network thread has one control point per place where it can be interleaved or
block: top of the outer loop, hello, loop condition, `recvfrom`, lock, handler,
sleep, sweep. `relock` is the second `lock` of a mutex the thread already owns;
formally undefined, with glibc it never returns, so no action leaves it.
`seq_num++` is a read and a write, and in the model as in the code the two threads can
draw the same id; no code depends on ids being different, so no property is about it.

### Dispatch

The composition of `send` with the network thread. `Lookup` decides under the lock
whether the target is reachable, by the text that was typed for a neighbour and by the
bytes for a route, so that another spelling of a neighbour's address (`canonical` is
false) counts only while its route is fresh. Then each fragment is a step of its own:
`TransmitPart` under the lock, `EnqueuePart` without it. Between any two of them a
handler may run (`HearOther`, `HearRouteAdv`, `HearData`), a route may age, a peer may
come into range or leave it (`Move`). The handler holds the lock from end to end and is
one action: first contact, delivery of all that waits for the source, and its own
effect. A call of `sendto` or of `enqueue` may fail (`MaxFaults`); in either case the
code goes on. `HearData` is the handler that does not come back.

The calls of `RueQueue` are atomic here, their overlap is the subject of `RueFile`. A
handled packet carries the address of a peer in range; `Interface` shows what is
read from a real frame. `radio` records each fragment with its effect: heard, missed
(nobody there) or failed.

### Fragment

Several senders and one receiver. The air is a set of packets; any of them may be
received, received again (`MaxDups`) or lost, in any order. A packet carries its
`FragHeader` and, as a history, the message and the piece it really holds. `partials`
is keyed by `msg_id` alone, as in the code. `reassemble_packet` is translated step
by step: store, count, compare the announced length with the buffer, copy up to the
announced length (`Offsets` is the offset at each turn of the copy loop). A message that fits one packet is sent without `FragHeader`; its
random IV looks like any header from the sets `IvIndex`, `IvTotal`, `IvLen`. `Turn`
is a turn of the outer loop, every `Period`-th of which calls `cleanup_stale`.
`RestartSender` sets the ids back to 1, `RestartReceiver` forgets the partials.
What follows a complete message in the handler is outside the module.

### Cipher

Each action is one call up to the loop over blocks, or one turn of that loop; the
bytes are real. The module follows the code, not the AES standard, and it is what the
code computes that is checked; for instance, `round_keys` has 60 words of four bytes of which `add_round_key` reads 16 from
word `round` on, that is the words `round` to `round + 3` as they lie in memory.
Exclusive or adds bits modulo 2 (`XorBit`), and the loops of `gmul`, `key_expansion`,
`encrypt_block` and `decrypt_block` are recursive functions, so that the same definitions
can be run and proved about.
A message may wait while either node restarts and fills its cache again.
Messages are at most 1023 bytes long: `pad_data` copies before it looks at the limit,
and what happens beyond is undefined.

### Interface, Wire and Config

`Interface` goes through `main` call by call: privilege check, configuration (loaded,
or written and loaded), key, `open_auto`/`open`, and the loop with its reads, to the
end, several times over the same file. Every system call may fail, and interfaces come
and go between any two (`Replug`). An interface's index is represented by its name.
`Wire` has packets as byte sequences: what `send_packet` puts on the air begins with
the version byte, and `Header` reads from byte 15 on. For each byte of the payload
`origin` remembers the frame it came from. `Config` has the file as lines after `trim`
and the split at `=`; values of `fragment_timeout_sec` from 2^32 on are left out.

## 3. Runs

| run | question and result |
|---|---|
| `routing` | The table equals the best offer ever made (`BestOffer`), neighbours stay within one hop, a fresh offer is without effect only behind an aged one of at most as many hops. |
| `acks` | Each tracked message has exactly one fate (`Accounted`), none fails before four full waits (`GracePeriod`), the sweep's iterator never dangles, and each message is resolved if frames keep arriving. |
| `acks_confirmation` | *violated:* an ACK for one message confirms another. |
| `rue` | With overlap and a crash: order per peer is kept, nothing is sent twice without a crash, entries are lost only in the two known windows and otherwise handed on, the header counts the entries; outside these windows `RueFile` implements `StoreForward`. |
| `threads` | Guarded objects are not raced, at most one frame is handled after `quit`, commands complete and `quit` ends the node while frames arrive and no DATA frame has blocked the thread. |
| `threads_data` | *violated:* the first DATA frame to be decrypted blocks the network thread for ever. |
| `fragment` | What is assembled from an id that only one message has shown is that message; output stays within buffer and announced length; no complete message is kept back; a partial one is dropped only after `Timeout` quiet seconds, and then for sure. |
| `fragment_single` | *violated:* a message of one packet is taken for a fragment and not decrypted. |
| `dispatch` | Each fragment goes exactly one way, also when calls fail; fragments stay in order; only fragments for a peer heard of are transmitted into the void; at most one message waits for a neighbour; what waits is flushed. |
| `interface` | Settings in force are those of the file; the loop starts only with socket, index, address and key complete; no descriptor leaks on any path; a payload is its own frame's unless the frame is too short. |
| `interface_source` | *violated:* the source address that is read belongs to no node on the air. |
| `cipher` | What is decrypted is what was encrypted; both ends derive the same key, other pairs another; exactly the messages that do not fit are refused. |

The violated properties state what a document or comment of the repository says;
`findings` in `PROJECT.json` quotes the line for each. Losses and stalls that the code
has and that are stated as exceptions of a passing property instead: the two windows of
`Kept`; the blocked route of `BlockedOnlyByShorter`; the absent peer of
`MissedOnlyIfHeardOf`; `quit` without traffic (`receive_packet` has no timeout, though
`network.hpp:29` mentions one), which is why `Traffic` is fair in `threads`; the short
frame of `OwnPayload`; shared ids in `Genuine`.

**Bounds.** Routing: three addresses (this node, two peers), three packets, one
route per advertisement at most and the hop bytes 1 and 255, the latter wrapping; two
offers for one destination and an advertisement about a neighbour are what the
properties need, and the theorems remove the bound. Acks: `RetryAge`,
`MaxRetries` and `Burst` are 1 instead of 3, 3 and 10, which keeps every branch and
shortens the path to it; `SeqWidth` 3 lets ids wrap onto keys; `SendUntil` and
`Slack` bound the clock to what still changes an answer (an entry can be overdue by
more than one second, and older or younger than the sweep's reading). RueFile: two peers and three
entries give two entries of one peer around one of another, equal and different
keys, and a rewriting that keeps more than one entry; one crash can fall between any two
accesses, and what it leaves behind is then enqueued to, read and rewritten.
NodeThreads: bursts of three, messages of two
fragments, ids modulo four; the state space is finite without further bounds.
Dispatch: two peers, two messages of two fragments, two moves and one fault: a message
of each kind for one peer, or one each for two, and a peer that comes and leaves in
between. Fragment: packets of two units, messages of one, two and three packets, a buffer
of five; ids modulo two so that the ids of two messages meet by chance, by wrapping
and by a restart; one
repetition and one restart. Interface: a payload of 16 bytes and frames that hold one byte
less than they claim, exactly that, or more, and that claim 16 or 17; two
starts, two calls per turn. Cipher: all fourteen rounds; lengths 1, 15, 16, 33, 1007
and 1008 are the edges of a block and of the buffer; three addresses in both orders.

`CHECK_DEADLOCK FALSE`: the RueFile, Dispatch and Cipher runs stop when their messages are
used up, NodeThreads when the node has exited, or hangs in `relock`. The other runs
keep the deadlock check on.

**Fairness.** Threads run: weak fairness of the steps of each thread. Strong fairness
for taking the mutex in `NodeThreads`: both threads release it all the time, the
network thread outside the handler sleeps 100 ms per frame, so a waiting thread finds
it free again and again. Time passes (`Tick`). Everything else is an assumption
about the environment, stated where it is used: some frame keeps arriving (`Frame`,
`Traffic`, `Turn`), a peer with queued entries is heard again and again (`HearPeer`,
`HearOther`; every node broadcasts a DISCOVERY in each turn of its loop). No
fairness applies to commands, `quit`, moves, restarts or crashes.

## 4. Proofs

All theorems hold for every value of the constants under the assumptions stated in
the modules (bounds are natural numbers, `Me` is an address, hop bytes are bytes).

- `RoutingProofs`. `TypeOK` is inductive. `BestOffer` is inductive together with it:
  a lemma about `Offered` says that adding one offer to the history and applying
  `AddRoute` keeps the table equal to the best offer. `NeighbourWithinOneHop` needs
  no history: `add_route` never raises the hop count of a valid route.
  `BlockedOnlyByShorter` follows from `BestOffer` and the types: the entry that stands in
  the way is itself one of the offers. `AgedRouteNeedsShorter`, proved and not run, is the action
  property behind it: of all steps that do not turn the
  clock back only `AddRoute` changes `last_updated`, and only for fewer hops.
- `AcksProofs`. None of the properties is inductive alone. The invariant adds that a
  key is fresh (below `next_ack_seq`, not the one being sent, and equal to the
  message it stands for), and that an entry with r retries was last touched at
  least r full waits after it was tracked and not later than now. That last part is
  what carries `GracePeriod` through the stale `sweep_now`; freshness carries
  `Accounted`; `IteratorValid` holds because only the network thread erases.
- `NodeThreadsProofs`. The invariant says who owns the mutex at which control point,
  that a locked operation is only entered with it, that the cipher and neighbour
  operations are locked ones, that the loop counter is below the burst inside the
  body, and that after `quit` a late frame is counted only where the thread will
  meet `running` before the next `recvfrom`. `ClosedAfterJoin` is proved from it too.
- Loops and selections. `Only` and the loops of `load_config`, `fragment_message`,
  `gmul`, `key_expansion`, `encrypt_block` and `decrypt_block` are recursive functions;
  what they compute needs an induction over the number of turns. A set of natural
  numbers has a least element (`Least`), so each fact is shown for the least
  turn that could refute it; that a function defined turn by turn exists (`Recursion`) is
  shown in the same way. Each module that needs them begins with these two
  lemmas. `RueFileProofs` goes on with what `Only` keeps of a sequence, in which order, and how
  that changes when an element is appended or taken out; `DispatchProofs` needs the
  first two of these only.
- `DispatchProofs`. `OneWay` and `InOrder` need `Once` (a fragment is at one place
  and once there, and the places together hold what the commands have dealt with)
  and `QueueInOrder` (the queue is in order and behind what has passed the radio; what
  main is transmitting is not queued). `MissedOnlyIfHeardOf` needs `ReachableHeardOf`, which carries
  what `send` saw under the lock over the steps taken after it gave the lock back.
  `OneStraggler` needs `OneMessageWaits`: what waits for a neighbour is of
  the message main is at, since the first contact has taken all that was there before.
- `RueFileProofs`. The invariant follows the cells through every system call.
  `Contents`: entries stand on file in the order of their enqueue, what a rewriting holds
  before what was appended since the truncation. `Agenda`: what the handler has read and
  not sent is still on file or in memory, and nothing of the same peer before it. `Fifo`: what waits
  for a peer comes after all that was sent to it. These hold after any
  overlap and crash, when the file may hold cells that straddle two entries, and
  `InOrder` and `AtMostOnce` rest on them alone. `Undisturbed` and `Counted` say, as long
  as no overlap (and, for the second, no crash) has occurred, that the file is aligned, that a rewriting
  holds exactly the file without the entry sent, and that the header
  counts; `Kept` and `CountMatches` rest on them. `Refinement` shows that the step which lets a
  stream go is a `Store`, the call of `send_packet` a `Forward`, and every other step
  changes nothing in `StoreForward`, until an overlap or a crash.
- `InterfaceProofs`. `Loaded` says that in a file of any length the last line for a
  key counts and its default otherwise; with it `ConfigAsWritten` is inductive (`Configured`).
  `Opened` says what main holds at each control point, from which `ReadyToRun` follows;
  `NoLeak` is inductive with it. `Reading` bounds `payload_len` by the payload for any
  frame of bytes, because the two bytes it is made of are compared with
  the limit before it is kept, and carries `OwnPayload` over frames that are refused.
- `FragmentProofs`. First arithmetic: how many pieces a length has (`Pieces`), and that
  the copy loop puts piece i at i times the packet size if all before it are there
  (`Copied`). Then `Packets` (what is on the air was cut from a message that was sent),
  `Sound` (what is held under an id came from packets with that id) and `Unfinished` (it is not
  all of any message, or it would have been returned). A message of one packet shows
  one index only, that of its IV, so that alone under an id it never looks complete.
  `KeptWhileArriving` holds because the age of a partial message is the time since its
  last packet. Lengths are any set of positive numbers; the code's callers
  stay below 2048 bytes, where `frag_total` fits its byte.
- `CipherProofs`. The algebra first. Bytes are a group under exclusive or (`XorLaws`,
  `XorAssoc`), shown half-byte by half-byte and bit by bit. `gmul` is the product of
  polynomials: for the factors in use it is a sum of at most five doublings (`GmulIs`), linear in
  the byte and in the factor (`PolyLinear`, `PolySum`), so two matrices of factors can be
  multiplied first, and those of `inv_mix_columns` and `mix_columns` give the
  identity (`Unmixed`). `inv_sbox` inverts `sbox` at each of its 256 places. Going back through the
  rounds, `decrypt_block` has after n turns what `encrypt_block` had n turns before its
  end (`Decrypted`), for any round keys: nothing depends on how the schedule makes
  them. For `KeysAgree` it is enough that a key schedule begins with its key, that
  `memcmp` puts a pair in one order, and that each byte of the pair can be recovered
  from its byte of the key, since 17 is odd (`KeysDiffer`). The invariant then says of
  every block on its way what `decrypt_block` would make of it, summed with the block in front:
  the plain block (`Encrypting`, `InTransit`, `Decrypting`). While decryption overwrites
  the blocks, only `prev` still holds the one in front; that is what makes chaining
  in place work. `PaddedIs` and `Unpadded` carry `RefusedIfTooLong` and the last step of
  `RoundTrip`. Nothing is assumed of the passphrase but that it is not empty, nor of
  addresses, texts and ivs but that they are bytes; the number of rounds is any that the
  240 bytes of round keys reach.

Assumptions about the constants beyond bounds and types, each named in its module:
interfaces have an address other than zero, frames are sequences of bytes, the value of
a numeric setting is a number or else `Junk`, which is no number.

Only model-checked: liveness (`Resolved`, `Forwarded`, `QuitTerminates`,
`CommandsComplete`, `Flushed`, `Released`), because the provers do not treat fairness and
`ENABLED`.

## 5. Not modelled

- The DATA handler behind `get_pair_cipher` (`araba_node.cpp` 277-317: decryption,
  forwarding, the ACK). `threads_data` shows that the build never reaches it; a model
  of it would be a model of another program.
- Logging and printing: no state that anything reads back, except `status` and
  `receive`, which print the log.
- The text form of addresses, `Packet::isValid`, `get_route`, the declared but undefined
  class `Router`: not called, or without effect beyond the spelling that `Dispatch` has.
- Messages longer than 1023 bytes, memory damage by unsynchronised containers: undefined
  behaviour without a useful set of outcomes.
- Crashes of the operating system, short writes, and a `.rue` file somebody else
  wrote.
- The test programs.

## 6. Plan

1. Action properties behind the invariants: that between two calls of
   `send_packet` the entry of the first is taken from the file, and that `find_next_hop` never answers with a
   neighbour who was not heard.
2. Shorter proofs in `RueFileProofs`: the steps of `enqueue` and of `remove_entry` that
   touch no cell share their argument and could be one lemma.
