------------------------------- MODULE Cipher -------------------------------
(***************************************************************************)
(* Messages through encrypt_payload on the sending node and decrypt_payload *)
(* on the receiving one (araba_node.cpp), with the caches of pair ciphers  *)
(* and everything used of crypto.cpp: key derivation, key expansion, the   *)
(* rounds on a block, chaining and padding. All of it is computed byte by  *)
(* byte; one action is one block.                                          *)
(*                                                                         *)
(* round_keys is an array of 60 words of four bytes of which add_round_key *)
(* reads 16 bytes from word `round` on: the build (no optimisation) has    *)
(* the words one after the other.                                          *)
(*                                                                         *)
(* On its way a message may wait in the .rue file: either node can restart *)
(* before it is received, and derives its keys again.                      *)
(***************************************************************************)
EXTENDS Integers, Sequences, SequencesExt, TLC

Byte == 0 .. 255

CONSTANTS
  Node,        \* addresses, sequences of six bytes
  Lens,        \* lengths of messages
  Strides,     \* contents: byte i of a message is i * stride modulo 256
  Passphrase,  \* character codes of node_passphrase
  Ivs,         \* values of generate_iv
  Rounds,      \* AES_ROUNDS (14)
  MaxMsgs,     \* bound: messages sent
  MaxRestarts  \* bound: restarts of nodes

(* A message is a line that is not empty and fits pad_data's 1024 bytes.   *)
ASSUME ConstAssumption ==
  /\ Lens \subseteq 1 .. 1023 /\ Strides \subseteq Nat /\ Rounds \in 1 .. 56
  /\ Node \subseteq [1 .. 6 -> Byte] /\ Ivs \subseteq [1 .. 16 -> Byte]
  /\ Passphrase \in Seq(Byte) \ {<<>>}
  /\ MaxMsgs \in Nat /\ MaxRestarts \in Nat

VARIABLES
  pair_ciphers,  \* [node -> [peers met -> round keys]]
  job,           \* the message on its way: sender, receiver, length, contents, iv
  pc,            \* "idle", "encrypt", "receive", "decrypt", "shown" or "failed"
  data,          \* the blocks of the payload after the iv
  k,             \* number of the block at hand
  prev,          \* prev in encrypt_cbc and decrypt_cbc
  out,           \* the text decrypted
  sent, restarts \* counters

vars == <<pair_ciphers, job, pc, data, k, prev, out, sent, restarts>>

BlockSize == 16
MaxOut == 1024

-----------------------------------------------------------------------------
(* Bytes. XOR goes through a table of half-bytes, which adds bit by bit.   *)

XorBit(a, b, w) == w * ((a \div w + b \div w) % 2)
XorNibble == [a \in 0 .. 15 |-> [b \in 0 .. 15 |->
                XorBit(a, b, 1) + XorBit(a, b, 2) + XorBit(a, b, 4) + XorBit(a, b, 8)]]
XorByte(a, b) == 16 * XorNibble[a \div 16][b \div 16] + XorNibble[a % 16][b % 16]
XorSeq(s, t) == [i \in DOMAIN s |-> XorByte(s[i], t[i])] \o <<>>   \* \o makes TLC evaluate it once

sbox == <<
   99, 124, 119, 123, 242, 107, 111, 197, 48, 1, 103, 43, 254, 215, 171, 118, 202, 130, 201, 125, 250, 89,
   71, 240, 173, 212, 162, 175, 156, 164, 114, 192, 183, 253, 147, 38, 54, 63, 247, 204, 52, 165, 229, 241,
   113, 216, 49, 21, 4, 199, 35, 195, 24, 150, 5, 154, 7, 18, 128, 226, 235, 39, 178, 117, 9, 131,
   44, 26, 27, 110, 90, 160, 82, 59, 214, 179, 41, 227, 47, 132, 83, 209, 0, 237, 32, 252, 177, 91,
   106, 203, 190, 57, 74, 76, 88, 207, 208, 239, 170, 251, 67, 77, 51, 133, 69, 249, 2, 127, 80, 60,
   159, 168, 81, 163, 64, 143, 146, 157, 56, 245, 188, 182, 218, 33, 16, 255, 243, 210, 205, 12, 19, 236,
   95, 151, 68, 23, 196, 167, 126, 61, 100, 93, 25, 115, 96, 129, 79, 220, 34, 42, 144, 136, 70, 238,
   184, 20, 222, 94, 11, 219, 224, 50, 58, 10, 73, 6, 36, 92, 194, 211, 172, 98, 145, 149, 228, 121,
   231, 200, 55, 109, 141, 213, 78, 169, 108, 86, 244, 234, 101, 122, 174, 8, 186, 120, 37, 46, 28, 166,
   180, 198, 232, 221, 116, 31, 75, 189, 139, 138, 112, 62, 181, 102, 72, 3, 246, 14, 97, 53, 87, 185,
   134, 193, 29, 158, 225, 248, 152, 17, 105, 217, 142, 148, 155, 30, 135, 233, 206, 85, 40, 223, 140, 161,
   137, 13, 191, 230, 66, 104, 65, 153, 45, 15, 176, 84, 187, 22 >>

inv_sbox == <<
   82, 9, 106, 213, 48, 54, 165, 56, 191, 64, 163, 158, 129, 243, 215, 251, 124, 227, 57, 130, 155, 47,
   255, 135, 52, 142, 67, 68, 196, 222, 233, 203, 84, 123, 148, 50, 166, 194, 35, 61, 238, 76, 149, 11,
   66, 250, 195, 78, 8, 46, 161, 102, 40, 217, 36, 178, 118, 91, 162, 73, 109, 139, 209, 37, 114, 248,
   246, 100, 134, 104, 152, 22, 212, 164, 92, 204, 93, 101, 182, 146, 108, 112, 72, 80, 253, 237, 185, 218,
   94, 21, 70, 87, 167, 141, 157, 132, 144, 216, 171, 0, 140, 188, 211, 10, 247, 228, 88, 5, 184, 179,
   69, 6, 208, 44, 30, 143, 202, 63, 15, 2, 193, 175, 189, 3, 1, 19, 138, 107, 58, 145, 17, 65,
   79, 103, 220, 234, 151, 242, 207, 206, 240, 180, 230, 115, 150, 172, 116, 34, 231, 173, 53, 133, 226, 249,
   55, 232, 28, 117, 223, 110, 71, 241, 26, 113, 29, 41, 197, 137, 111, 183, 98, 14, 170, 24, 190, 27,
   252, 86, 62, 75, 198, 210, 121, 32, 154, 219, 192, 254, 120, 205, 90, 244, 31, 221, 168, 51, 136, 7,
   199, 49, 177, 18, 16, 89, 39, 128, 236, 95, 96, 81, 127, 169, 25, 181, 74, 13, 45, 229, 122, 159,
   147, 201, 156, 239, 160, 224, 59, 77, 174, 42, 245, 176, 200, 235, 187, 60, 131, 83, 153, 97, 23, 43,
   4, 126, 186, 119, 214, 38, 225, 105, 20, 99, 85, 33, 12, 125 >>

rcon == <<1, 2, 4, 8, 16, 32, 64, 128, 27, 54>>

(* The loop of gmul: a is doubled modulo the field polynomial, b halved.   *)
Doubled(a) == XorByte((2 * a) % 256, IF a >= 128 THEN 27 ELSE 0)
gmul(a, b) ==
  LET turn[i \in 0 .. 8] ==
        IF i = 0 THEN [a |-> a, b |-> b, p |-> 0]
        ELSE LET s == turn[i - 1]
             IN  [a |-> Doubled(s.a), b |-> s.b \div 2,
                  p |-> IF s.b % 2 = 1 THEN XorByte(s.p, s.a) ELSE s.p]
  IN  turn[8].p

(* gmul by the factors of mix_columns and inv_mix_columns, as tables.      *)
Times == [b \in {1, 2, 3, 9, 11, 13, 14} |-> [a \in Byte |-> gmul(a, b)]]

-----------------------------------------------------------------------------
(* Keys.                                                                   *)

derive_key ==
  [i \in 1 .. 32 |->
     XorByte((Passphrase[((i - 1) % Len(Passphrase)) + 1] * 31 + i - 1) % 256, 90)]

(* memcmp of two addresses.                                                *)
Before(a, b) == \E i \in 1 .. 6 : a[i] < b[i] /\ \A j \in 1 .. i - 1 : a[j] = b[j]

OrderedAsGiven(a, b) == <<a, b>>   \* mutant: the addresses are not sorted
Ordered(a, b) == IF Before(b, a) THEN <<b, a>> ELSE <<a, b>>

derive_pair_key(a, b) ==
  LET mix(i) == CASE i \in 1 .. 6 -> Ordered(a, b)[1][i]
                  [] i \in 17 .. 22 -> Ordered(a, b)[2][i - 16]
                  [] OTHER -> 0
  IN  [i \in 1 .. 32 |-> XorByte((XorByte(derive_key[i], mix(i)) * 17 + i - 1) % 256, 165)]

rot_word(w) == <<w[2], w[3], w[4], w[1]>>
sub_word(w) == [j \in 1 .. 4 |-> sbox[w[j] + 1]]

(* What word i of the schedule adds to word i - 8.                         *)
Feedback(i, w) ==
  CASE i % 8 = 0 -> XorSeq(sub_word(rot_word(w)), <<rcon[i \div 8], 0, 0, 0>>)
    [] i % 8 = 4 -> sub_word(w)
    [] OTHER     -> w

(* Parts of n elements each, one after the other.                          *)
Joined(parts, n) == [i \in 1 .. n * Len(parts) |-> parts[(i - 1) \div n + 1][((i - 1) % n) + 1]] \o <<>>

(* The 60 words, as 240 bytes.                                             *)
key_expansion(key) ==
  LET words[n \in 0 .. 52] ==
        IF n = 0 THEN [i \in 1 .. 8 |-> SubSeq(key, 4 * i - 3, 4 * i)]
        ELSE LET w == words[n - 1]
             IN  Append(w, XorSeq(w[n], Feedback(n + 7, w[n + 7])))
  IN  Joined(words[52], 4)

-----------------------------------------------------------------------------
(* The rounds on a block, a sequence of 16 bytes.                          *)

add_round_key(b, rk, round) == XorSeq(b, SubSeq(rk, 4 * round + 1, 4 * round + 16))
sub_bytes(b) == [i \in 1 .. 16 |-> sbox[b[i] + 1]]
inv_sub_bytes(b) == [i \in 1 .. 16 |-> inv_sbox[b[i] + 1]]

Permuted(b, from) == [i \in 1 .. 16 |-> b[from[i] + 1]]
shift_rows(b) == Permuted(b, <<0, 5, 10, 15, 4, 9, 14, 3, 8, 13, 2, 7, 12, 1, 6, 11>>)
inv_shift_rows(b) == Permuted(b, <<0, 13, 10, 7, 4, 1, 14, 11, 8, 5, 2, 15, 12, 9, 6, 3>>)

(* Byte c of row r becomes the sum of column c under the factors, which    *)
(* move one place to the right with each row.                              *)
Mixed(b, factors) ==
  [n \in 1 .. 16 |->
     LET r == (n - 1) \div 4
         c == (n - 1) % 4
         term(i) == Times[factors[((i - r + 4) % 4) + 1]][b[4 * i + c + 1]]
     IN  XorByte(XorByte(term(0), term(1)), XorByte(term(2), term(3)))]
mix_columns(b) == Mixed(b, <<2, 3, 1, 1>>)
inv_mix_columns(b) == Mixed(b, <<14, 11, 13, 9>>)

encrypt_block(block, rk) ==
  LET state[r \in 0 .. Rounds - 1] ==
        add_round_key(IF r = 0 THEN block ELSE mix_columns(shift_rows(sub_bytes(state[r - 1]))), rk, r)
  IN  add_round_key(shift_rows(sub_bytes(state[Rounds - 1])), rk, Rounds)

decrypt_block(block, rk) ==
  LET back(b, r) == add_round_key(inv_sub_bytes(inv_shift_rows(b)), rk, r)
      state[n \in 0 .. Rounds - 1] ==
        IF n = 0 THEN add_round_key(block, rk, Rounds)
        ELSE inv_mix_columns(back(state[n - 1], Rounds - n))
  IN  back(state[Rounds - 1], 0)

-----------------------------------------------------------------------------
(* Padding.                                                                *)

PaddedLenShort(len) == ((len + BlockSize - 1) \div BlockSize) * BlockSize   \* mutant: no full block of padding
PaddedLen(len) == Min({((len + BlockSize) \div BlockSize) * BlockSize, MaxOut})

pad_data(m) == m \o [i \in 1 .. PaddedLen(Len(m)) - Len(m) |-> PaddedLen(Len(m)) - Len(m)]

unpad_data(s) ==
  IF Last(s) \notin 1 .. BlockSize THEN <<>> ELSE SubSeq(s, 1, Len(s) - Last(s))

Blocks(s) ==
  [n \in 1 .. Len(s) \div BlockSize |-> SubSeq(s, BlockSize * (n - 1) + 1, BlockSize * n)]

-----------------------------------------------------------------------------
(* The nodes.                                                              *)

Nobody == <<>>
Text(j) == [i \in 1 .. j.len |-> (i * j.stride) % 256]

(* get_pair_cipher of node `my`: the cache is filled at the first call.    *)
get_pair_cipher(my, their) ==
  IF their \in DOMAIN pair_ciphers[my] THEN pair_ciphers
  ELSE [pair_ciphers EXCEPT ![my] =
          [b \in DOMAIN @ \cup {their} |->
             IF b \in DOMAIN @ THEN @[b] ELSE key_expansion(derive_pair_key(my, their))]]

Init ==
  /\ pair_ciphers = [n \in Node |-> <<>>]
  /\ job = Nobody /\ pc = "idle" /\ data = <<>> /\ k = 0 /\ prev = <<>> /\ out = <<>>
  /\ sent = 0 /\ restarts = 0

NoRoomAt(len) == PaddedLen(len) + BlockSize >= MaxOut   \* mutant: a full buffer counts as too small
NoRoom(len) == PaddedLen(len) + BlockSize > MaxOut

(* The command send, up to the call of encrypt_cbc.                        *)
Send ==
  /\ pc = "idle" /\ sent < MaxMsgs
  /\ \E a, b \in Node, len \in Lens, stride \in Strides, iv \in Ivs :
       /\ a # b
       /\ job' = [from |-> a, to |-> b, len |-> len, stride |-> stride, iv |-> iv]
       /\ pair_ciphers' = get_pair_cipher(a, b)
       /\ IF NoRoom(len)
          THEN pc' = "failed" /\ UNCHANGED <<data, k, prev>>
          ELSE pc' = "encrypt" /\ data' = Blocks(pad_data(Text(job'))) /\ k' = 1 /\ prev' = iv
  /\ sent' = sent + 1
  /\ UNCHANGED <<out, restarts>>

(* One turn of the loop of encrypt_cbc.                                    *)
EncryptBlock ==
  /\ pc = "encrypt"
  /\ LET c == encrypt_block(XorSeq(data[k], prev), pair_ciphers[job.from][job.to])
     IN  data' = [data EXCEPT ![k] = c] /\ prev' = c
  /\ k' = k + 1
  /\ pc' = IF k = Len(data) THEN "receive" ELSE pc
  /\ UNCHANGED <<pair_ciphers, job, out, sent, restarts>>

(* The payload reaches its receiver: decrypt_payload up to decrypt_cbc.    *)
Receive ==
  /\ pc = "receive"
  /\ pair_ciphers' = get_pair_cipher(job.to, job.from)
  /\ pc' = "decrypt" /\ k' = 1 /\ prev' = job.iv
  /\ UNCHANGED <<job, data, out, sent, restarts>>

(* One turn of the loop of decrypt_cbc; after the last, unpad_data.        *)
DecryptBlock ==
  /\ pc = "decrypt"
  /\ LET p == XorSeq(decrypt_block(data[k], pair_ciphers[job.to][job.from]), prev)
     IN  data' = [data EXCEPT ![k] = p] /\ prev' = data[k]
  /\ k' = k + 1
  /\ IF k = Len(data)
     THEN pc' = "shown" /\ out' = unpad_data(Joined(data', BlockSize))
     ELSE UNCHANGED <<pc, out>>
  /\ UNCHANGED <<pair_ciphers, job, sent, restarts>>

(* Back to the prompt.                                                     *)
Prompt ==
  /\ pc \in {"shown", "failed"} /\ sent < MaxMsgs
  /\ job' = Nobody /\ pc' = "idle" /\ data' = <<>> /\ k' = 0 /\ prev' = <<>> /\ out' = <<>>
  /\ UNCHANGED <<pair_ciphers, sent, restarts>>

(* A node stops and starts again: its cache is empty.                      *)
Restart ==
  /\ pc \in {"idle", "receive"} /\ restarts < MaxRestarts
  /\ \E n \in Node : pair_ciphers' = [pair_ciphers EXCEPT ![n] = <<>>]
  /\ restarts' = restarts + 1
  /\ UNCHANGED <<job, pc, data, k, prev, out, sent>>

Next == Send \/ EncryptBlock \/ Receive \/ DecryptBlock \/ Prompt \/ Restart

Spec == Init /\ [][Next]_vars

-----------------------------------------------------------------------------
(* Properties.                                                             *)

(* decrypt_payload gives back what encrypt_payload was given, for every    *)
(* length at the edges of a block and of the buffer, also when either node *)
(* restarted while the message waited.                                     *)
RoundTrip == pc = "shown" => out = Text(job)

(* "Encryption failed" exactly for the messages that iv, text and one byte *)
(* of padding would push over the 1024 bytes of `encrypted`.               *)
RefusedIfTooLong == pc # "idle" => (pc = "failed" <=> BlockSize + job.len + 1 > MaxOut)

(* The two ends of a pair derive the same round keys, whichever of them    *)
(* is the first argument of derive_pair_key; no two pairs share them.      *)
KeysAgree ==
  \A a, c \in Node : \A b \in DOMAIN pair_ciphers[a], d \in DOMAIN pair_ciphers[c] :
    (pair_ciphers[a][b] = pair_ciphers[c][d]) <=> ({a, b} = {c, d})
=============================================================================
