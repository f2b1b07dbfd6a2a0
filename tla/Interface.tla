----------------------------- MODULE Interface ------------------------------
(***************************************************************************)
(* The raw socket of a node (network.cpp) and the process around it: main  *)
(* from its first line to the command loop and from there to the end       *)
(* (araba_node.cpp), over several starts that share the configuration      *)
(* file. Every call of the system may fail, and an interface may come and  *)
(* go at any time. In the loop, frames are read into the one Packet that a *)
(* turn of network_loop has; only its header is written for sure.          *)
(***************************************************************************)
EXTENDS Config, Wire, FiniteSets

CONSTANTS
  Files,     \* files the operator may have written
  Iface,     \* names of interfaces
  Common,    \* the names that open_auto tries, in order
  Mac,       \* [Iface -> address]
  Sent,      \* packets that other nodes transmit
  Foreign,   \* frames of other equipment
  Burst,     \* receive_packet calls per turn (10)
  MaxBoots,  \* bound: starts of the process
  MaxFrames  \* bound: frames read in one run of it

Absent == <<Line("absent", Empty)>>   \* there is no file
Zeros == <<0, 0, 0, 0, 0, 0>>

(* What is on the air is bytes; a setting is text, and where a number is   *)
(* expected, a number or not (Junk).                                       *)
ASSUME ConstAssumption ==
  /\ Burst \in Nat \ {0} /\ MaxBoots \in Nat \ {0} /\ MaxFrames \in Nat /\ MaxPayload \in Nat
  /\ \A n \in DOMAIN Common : Common[n] \in Iface
  /\ \A n \in Iface : Mac[n] # Zeros
  /\ \A f \in Foreign : f # <<>> /\ f \in Seq(0 .. 255)
  /\ \A p \in Sent : Serialized(p) \in Seq(0 .. 255)
  /\ \A f \in Files :
       /\ f = [n \in 1 .. Len(f) |-> f[n]] /\ Len(f) \in Nat
       /\ \A n \in 1 .. Len(f) : f[n].key \in DOMAIN Width => f[n].val = Junk \/ f[n].val \in Nat

VARIABLES
  pc,        \* main: "start", "load", "save", "key", "open", "index", "mac", "run", "exit"
  boots,     \* number of starts
  file,      \* the lines of araba.conf, or Absent
  present,   \* interfaces that exist
  config,    \* g_config
  keyed,     \* passphrase that base_key was derived from
  fds,       \* descriptors the process has open
  name,      \* the interface_name passed to open
  sock_fd, if_index, local_mac,   \* members of NetworkInterface; an index is its interface's name
  status,    \* how the process ended: "ok", "error", "crash" or "none"
  i,         \* receive_packet calls of this turn
  frames,    \* number of frames read
  header,    \* packet.header, as of the last frame long enough to have one
  origin,    \* number of the frame each payload byte is from; 0: uninitialised
  handed     \* the last frame: its length and whether receive_packet returned true

startup == <<pc, boots, file, present, config, keyed, status>>
socket == <<fds, name, sock_fd, if_index, local_mac>>
reading == <<i, frames, header, origin, handed>>
vars == <<startup, socket, reading>>

NoFrame == [len |-> 0, ok |-> FALSE]
NoHeader == Header([j \in 1 .. EthernetHeader + HeaderLen |-> 0])
Blank == [j \in 1 .. MaxPayload |-> 0]

-----------------------------------------------------------------------------
Fresh ==
  /\ config' = Defaults /\ keyed' = Empty /\ fds' = {}
  /\ name' = Empty /\ sock_fd' = -1 /\ if_index' = "none" /\ local_mac' = Zeros
  /\ status' = "none"
  /\ i' = 0 /\ frames' = 0 /\ header' = NoHeader /\ origin' = Blank /\ handed' = NoFrame

Init ==
  /\ pc = "start" /\ boots = 1 /\ file \in Files \cup {Absent} /\ present \in SUBSET Iface
  /\ config = Defaults /\ keyed = Empty /\ fds = {}
  /\ name = Empty /\ sock_fd = -1 /\ if_index = "none" /\ local_mac = Zeros
  /\ status = "none"
  /\ i = 0 /\ frames = 0 /\ header = NoHeader /\ origin = Blank /\ handed = NoFrame

(* The process starts again after it ended.                                *)
Restart ==
  /\ pc = "exit" /\ boots < MaxBoots
  /\ pc' = "start" /\ boots' = boots + 1
  /\ Fresh
  /\ UNCHANGED <<file, present>>

(* An interface appears or disappears (external).                          *)
Replug ==
  /\ \E n \in Iface : present' = (present \ {n}) \cup ({n} \ present)
  /\ UNCHANGED <<pc, boots, file, config, keyed, status, socket, reading>>

(* NetworkInterface::close.                                                *)
CloseKept(d) == d             \* mutant: the descriptor is not given back
Close(d) == d \ {sock_fd}

(* The process ends: main returns, and the destructor closes the socket;   *)
(* or it is ended by an exception or a signal, and the system does.        *)
End(how) ==
  /\ pc' = "exit" /\ status' = how
  /\ fds' = (IF how = "crash" THEN {} ELSE Close(fds)) /\ sock_fd' = -1
  /\ UNCHANGED <<boots, present, name, if_index, local_mac, reading>>

Goto(next) == pc' = next /\ UNCHANGED <<boots, present, status>>

-----------------------------------------------------------------------------
(* main up to NetworkInterface.                                            *)

(* geteuid.                                                                *)
Start ==
  /\ pc = "start"
  /\ \/ Goto("load") /\ UNCHANGED <<file, config, keyed, socket, reading>>
     \/ End("error") /\ UNCHANGED <<file, config, keyed>>

(* load_config; an exception of stoul ends the process.                    *)
Load ==
  /\ pc = "load"
  /\ CASE file = Absent -> Goto("save") /\ UNCHANGED <<config, socket, reading>>
       [] file # Absent /\ Throws(file) -> End("crash") /\ UNCHANGED config
       [] OTHER -> /\ Goto("key") /\ config' = load_config(file, config)
                   /\ UNCHANGED <<socket, reading>>
  /\ UNCHANGED <<file, keyed>>

(* save_default_config and load_config again; neither result is looked at, *)
(* and the file may be impossible to write.                                *)
Save ==
  /\ pc = "save"
  /\ \/ file' = save_default_config /\ config' = load_config(file', config)
     \/ UNCHANGED <<file, config>>
  /\ Goto("key")
  /\ UNCHANGED <<keyed, socket, reading>>

(* derive_key divides by the length of the passphrase.                     *)
DeriveKey ==
  /\ pc = "key"
  /\ IF config.passphrase = Empty
     THEN End("crash") /\ UNCHANGED keyed
     ELSE Goto("open") /\ keyed' = config.passphrase /\ UNCHANGED <<socket, reading>>
  /\ UNCHANGED <<file, config>>

-----------------------------------------------------------------------------
(* NetworkInterface::open, and open_auto in front of it.                   *)

AutoName == {Common[n] : n \in {k \in DOMAIN Common : Common[k] \in present
                                  /\ \A j \in 1 .. k - 1 : Common[j] \notin present}}
Chosen == IF config.interface # Empty THEN {config.interface} ELSE AutoName

(* The name is chosen, and socket() is called: it may fail.                *)
OpenSocket ==
  /\ pc = "open"
  /\ \/ /\ name' \in Chosen
        /\ fds' = fds \cup {3} /\ sock_fd' = 3
        /\ Goto("index") /\ UNCHANGED <<if_index, local_mac, reading>>
     \/ End("error")
  /\ UNCHANGED <<file, config, keyed>>

IndexUnchecked == TRUE       \* mutant: the result 0 is not looked at
IndexFound == name \in present

(* if_nametoindex, for open_auto the second time.                          *)
NameToIndex ==
  /\ pc = "index"
  /\ IF IndexFound
     THEN /\ if_index' = (IF name \in present THEN name ELSE "none")
          /\ Goto("mac") /\ UNCHANGED <<fds, name, sock_fd, local_mac, reading>>
     ELSE End("error")
  /\ UNCHANGED <<file, config, keyed>>

(* fetch_mac_from_interface: its own socket is closed on every path.       *)
FetchMac ==
  /\ pc = "mac"
  /\ \/ /\ name \in present
        /\ local_mac' = Mac[name]
        /\ Goto("run") /\ UNCHANGED <<fds, name, sock_fd, if_index, reading>>
     \/ End("error")
  /\ UNCHANGED <<file, config, keyed>>

-----------------------------------------------------------------------------
(* The loop. A turn starts with a Packet that nobody initialised.          *)

Turn ==
  /\ pc = "run" /\ i = Burst
  /\ i' = 0 /\ origin' = Blank /\ header' = NoHeader /\ handed' = NoFrame
  /\ UNCHANGED <<startup, socket, frames>>

FitsUnequal(len, need) == len > need   \* mutant: a frame that fits exactly is not copied
Fits(len, need) == len >= need

TooLongNever(n) == FALSE               \* mutant: the length is not checked
TooLong(n) == n > MaxPayload

(* receive_packet.                                                         *)
Receive(f) ==
  /\ pc = "run" /\ i < Burst /\ frames < MaxFrames
  /\ i' = i + 1 /\ frames' = frames + 1
  /\ IF Len(f) < EthernetHeader + HeaderLen
     THEN handed' = [len |-> Len(f), ok |-> FALSE] /\ UNCHANGED <<header, origin>>
     ELSE LET n == Header(f).payload_len IN
          /\ handed' = [len |-> Len(f), ok |-> ~TooLong(n)]
          /\ header' = [Header(f) EXCEPT !.payload_len = IF TooLong(n) THEN 0 ELSE n]
          /\ origin' = IF ~TooLong(n) /\ Fits(Len(f), EthernetHeader + HeaderLen + n)
                       THEN [j \in 1 .. MaxPayload |-> IF j <= n THEN frames' ELSE origin[j]]
                       ELSE origin
  /\ UNCHANGED <<startup, socket>>

(* quit: the threads are joined (NodeThreads), then net.close().           *)
Quit ==
  /\ pc = "run"
  /\ End("ok")
  /\ UNCHANGED <<file, config, keyed>>

Air == {Serialized(p) : p \in Sent} \cup Foreign

Next ==
  \/ Restart \/ Replug
  \/ Start \/ Load \/ Save \/ DeriveKey \/ OpenSocket \/ NameToIndex \/ FetchMac
  \/ Turn \/ (\E f \in Air : Receive(f)) \/ Quit

Spec == Init /\ [][Next]_vars

-----------------------------------------------------------------------------
(* Properties.                                                             *)

(* Every variable has its type. A setting fits the member that it is put   *)
(* into, and a payload_len that receive_packet leaves in the header fits   *)
(* the payload, whatever the file and the frame said.                      *)
TypeOK ==
  /\ pc \in {"start", "load", "save", "key", "open", "index", "mac", "run", "exit"}
  /\ boots \in 0 .. MaxBoots /\ file \in Files \cup {Absent, save_default_config}
  /\ present \subseteq Iface /\ if_index \in Iface \cup {"none"}
  /\ \A key \in DOMAIN Width : config[key] \in 0 .. Width[key] - 1
  /\ status \in {"none", "ok", "error", "crash"} /\ (status = "none" <=> pc # "exit")
  /\ i \in 0 .. Burst /\ frames \in 0 .. MaxFrames
  /\ header.payload_len \in 0 .. MaxPayload
  /\ origin \in [1 .. MaxPayload -> 0 .. MaxFrames] /\ handed.ok \in BOOLEAN

(* The settings in force are those of the file: for every key the last     *)
(* line that sets it counts, cut to the width of its type, and the default *)
(* where no line does. A file written by save_default_config means the     *)
(* same as no file.                                                        *)
Setters(key) == {n \in DOMAIN file : file[n].key = key}
ConfigAsWritten ==
  pc \in {"key", "open", "index", "mac", "run"} =>
    /\ \A key \in Keys :
         config[key] = IF Setters(key) = {} THEN Defaults[key]
                       ELSE LET val == file[CHOOSE n \in Setters(key) : \A m \in Setters(key) : m <= n].val
                            IN  IF key \in DOMAIN Width THEN val % Width[key] ELSE val
    /\ file \in {Absent, save_default_config} => config = Defaults

(* The loop runs only on an open socket of an interface that was found,    *)
(* the one the file names if it names one, under that interface's address  *)
(* and with a key made from a passphrase, although the interface may have  *)
(* come and gone between the calls.                                        *)
ReadyToRun ==
  pc = "run" =>
    /\ sock_fd \in fds /\ if_index \in Iface /\ local_mac = Mac[if_index]
    /\ config.interface \in {Empty, if_index}
    /\ keyed = config.passphrase /\ keyed # Empty

(* However the process ends, and wherever open gives up, no descriptor     *)
(* outlives it, and sock_fd always tells which one is open.                *)
NoLeak == fds \subseteq {sock_fd} /\ (pc = "exit" => fds = {})

(* The handler works on the payload of the frame in its hands, for every   *)
(* frame that holds as many bytes as its header claims. Only a shorter one *)
(* leaves older or uninitialised bytes under the new header.               *)
OwnPayload ==
  handed.ok =>
    \/ \A j \in 1 .. header.payload_len : origin[j] = frames
    \/ handed.len < EthernetHeader + HeaderLen + header.payload_len

(* What `list` shows are nodes in radio range: when only ARABA nodes are   *)
(* on the air, the source address of a packet that is handled is that of   *)
(* the node that sent it.                                                  *)
TrueSource == handed.ok => header.source \in {p.source : p \in Sent}
=============================================================================
