------------------------------- MODULE Config -------------------------------
(***************************************************************************)
(* The configuration file (config.cpp, config.hpp). A file is the sequence *)
(* of its lines after trim and the split at '='; comments, empty lines and *)
(* lines without '=' carry a key that is not one of Keys. std::stoul takes *)
(* a number and throws on anything else (Junk).                            *)
(***************************************************************************)
EXTENDS Integers, Sequences, SequencesExt

CONSTANT Junk   \* a value that is not a number

ASSUME JunkIsNoNumber == Junk \notin Nat

Empty == ""     \* the empty string

(* The numeric settings with the values their types hold. Numbers from     *)
(* 2^32 on, which fragment_timeout_sec would cut, are left out.            *)
Width == [fragment_timeout_sec |-> 2147483647, discovery_ttl |-> 256,
          discovery_interval_ms |-> 65536]

(* NodeConfig as constructed.                                              *)
Defaults == [passphrase |-> "ARABA_MESH_SECRET_2026", interface |-> Empty,
             log_file |-> "araba.log", queue_file |-> "pending_messages.rue",
             fragment_timeout_sec |-> 60, discovery_ttl |-> 64,
             discovery_interval_ms |-> 1000]
Keys == DOMAIN Defaults

Line(key, val) == [key |-> key, val |-> val]

Throws(lines) == \E n \in DOMAIN lines : lines[n].key \in DOMAIN Width /\ lines[n].val = Junk

Assign(c, l) ==
  IF l.key \notin Keys THEN c
  ELSE [c EXCEPT ![l.key] = IF l.key \in DOMAIN Width THEN l.val % Width[l.key] ELSE l.val]

LoadFirst(lines, c) == FoldLeft(Assign, c, Reverse(lines))   \* mutant: the first line counts

(* The loop over the lines.                                                *)
load_config(lines, c) ==
  LET after[n \in 0 .. Len(lines)] == IF n = 0 THEN c ELSE Assign(after[n - 1], lines[n])
  IN  after[Len(lines)]

save_default_config ==
  << Line("#", Empty), Line("#", Empty),
     Line("passphrase", "ARABA_MESH_SECRET_2026"), Line("interface", Empty),
     Line("log_file", "araba.log"), Line("queue_file", "pending_messages.rue"),
     Line("fragment_timeout_sec", 60), Line("discovery_ttl", 64),
     Line("discovery_interval_ms", 1000) >>
=============================================================================
