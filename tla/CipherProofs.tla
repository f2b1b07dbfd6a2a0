---------------------------- MODULE CipherProofs ----------------------------
(***************************************************************************)
(* Proofs about Cipher: for all nodes and passphrases, for texts of every  *)
(* length the prompt accepts, for every iv and every number of rounds that *)
(* the round keys reach, and for any number of messages and restarts.      *)
(*                                                                         *)
(* Bytes are a group under exclusive or (XorLaws, XorAssoc), taken bit by  *)
(* bit. gmul is the product of polynomials: it is written as a sum of five *)
(* terms (Poly), linear in both arguments, and the matrix of               *)
(* inv_mix_columns times that of mix_columns is the identity               *)
(* (Coefficient), so Unmixed. Every step of a round has its inverse, in    *)
(* the order in which decrypt_block undoes them (Decrypted). A key         *)
(* schedule begins with its key, and derive_pair_key can be inverted byte  *)
(* by byte, so round keys tell pairs apart (KeysDiffer). Padding is taken  *)
(* off again (Unpadded).                                                   *)
(*                                                                         *)
(* The inductive invariant IInv says of every block of a message on its    *)
(* way what decrypt_block would make of it.                                *)
(***************************************************************************)
EXTENDS Cipher, SequenceTheorems, WellFoundedInduction, TLAPS

(* A set of natural numbers has a least element: the form of induction     *)
(* used throughout.                                                        *)
LEMMA Least ==
  ASSUME NEW T, T \subseteq Nat, T # {}
  PROVE  \E n \in T : \A m \in T : n <= m
<1> DEFINE R == OpToRel(<, Nat)
<1>1. IsWellFoundedOn(R, Nat)
  BY NatLessThanWellFounded, Zenon
<1>2. \A x, y \in Nat : y < x => <<y, x>> \in R
  BY DEF OpToRel
<1> HIDE DEF R
<1>3. PICK n \in T : \A y \in T : ~ (<<y, n>> \in R)
  BY <1>1, WFMin, Zenon
<1>4. \A m \in T : ~ (m < n)
  BY <1>2, <1>3
<1>5. n \in Nat /\ \A m \in T : m \in Nat
  OBVIOUS
<1>6. \A m \in T : n <= m
  BY <1>4, <1>5
<1> QED BY <1>6

(* g starts at x0 and goes on by step up to N.                             *)
Iterates(g, N, x0, step) ==
  g[0] = x0 /\ \A n \in 1 .. N : g[n] = step[<<n, g[n - 1]>>]

(* Such a function exists.                                                 *)
LEMMA Recursion ==
  ASSUME NEW N \in Nat, NEW T, NEW x0 \in T, NEW step \in [(1 .. N) \X T -> T]
  PROVE  \E g \in [0 .. N -> T] : Iterates(g, N, x0, step)
<1> DEFINE Starts(m) == \E g \in [0 .. m -> T] :
                          g[0] = x0 /\ \A n \in 1 .. m : g[n] = step[<<n, g[n - 1]>>]
           bad == {m \in 0 .. N : ~ Starts(m)}
<1>1. SUFFICES ASSUME bad # {} PROVE FALSE
  BY DEF Iterates
<1>2. PICK m \in bad : \A j \in bad : m <= j
  <2> HIDE DEF Starts
  <2>1. bad \subseteq Nat
    OBVIOUS
  <2> HIDE DEF bad
  <2> QED BY <1>1, <2>1, Least
<1>3. CASE m = 0
  <2> DEFINE g == [n \in 0 .. 0 |-> x0]
  <2>1. g \in [0 .. 0 -> T] /\ g[0] = x0 /\ \A n \in 1 .. 0 : g[n] = step[<<n, g[n - 1]>>]
    OBVIOUS
  <2> QED BY <1>2, <1>3, <2>1
<1>4. CASE m # 0
  <2>1. m - 1 \in 0 .. N /\ m \in 1 .. N /\ Starts(m - 1)
    BY <1>2, <1>4
  <2>2. PICK g \in [0 .. m - 1 -> T] :
               g[0] = x0 /\ \A n \in 1 .. m - 1 : g[n] = step[<<n, g[n - 1]>>]
    BY <2>1
  <2> DEFINE h == [n \in 0 .. m |-> IF n = m THEN step[<<m, g[m - 1]>>] ELSE g[n]]
  <2>3. h \in [0 .. m -> T]
    BY <2>1
  <2>4. h[0] = x0 /\ h[m] = step[<<m, h[m - 1]>>]
    <3>1. 0 \in 0 .. m /\ m \in 0 .. m /\ m - 1 \in 0 .. m /\ m - 1 # m /\ 0 # m
      BY <2>1
    <3>2. h[0] = g[0] /\ h[m - 1] = g[m - 1] /\ h[m] = step[<<m, g[m - 1]>>]
      BY <3>1
    <3> QED BY <2>2, <3>2
  <2>5. ASSUME NEW n \in 1 .. m, n # m PROVE h[n] = step[<<n, h[n - 1]>>]
    <3>1. n \in 1 .. m - 1 /\ n - 1 \in 0 .. m - 1 /\ n \in 0 .. m /\ n - 1 # m
      BY <2>1, <2>5
    <3> QED BY <2>2, <2>5, <3>1
  <2> QED BY <1>2, <2>3, <2>4, <2>5
<1> QED BY <1>3, <1>4

(* Bits and half-bytes.                                                    *)
Nibble == 0 .. 15
Bit(a, w) == (a \div w) % 2
Weights == {1, 2, 4, 8}

(* A half-byte is the sum of its bits.                                     *)
LEMMA NibbleBits ==
  ASSUME NEW a \in Nibble
  PROVE  a = Bit(a, 1) + 2 * Bit(a, 2) + 4 * Bit(a, 4) + 8 * Bit(a, 8)
BY DEF Nibble, Bit

(* A sum of four bits at their places has those bits.                      *)
LEMMA SumBits ==
  ASSUME NEW p \in 0 .. 1, NEW q \in 0 .. 1, NEW r \in 0 .. 1, NEW s \in 0 .. 1,
         NEW n, n = p + 2 * q + 4 * r + 8 * s
  PROVE  n \in Nibble /\ Bit(n, 1) = p /\ Bit(n, 2) = q /\ Bit(n, 4) = r /\ Bit(n, 8) = s
BY DEF Nibble, Bit

(* A bit is 0 or 1.                                                        *)
LEMMA BitType == ASSUME NEW a \in Nat, NEW w \in Weights PROVE Bit(a, w) \in 0 .. 1
BY DEF Bit, Weights

(* XorBit adds two bits modulo 2.                                          *)
LEMMA XorBitIs ==
  ASSUME NEW a \in Nibble, NEW b \in Nibble, NEW w \in Weights
  PROVE  XorBit(a, b, w) = w * ((Bit(a, w) + Bit(b, w)) % 2)
BY DEF XorBit, Bit, Weights, Nibble

(* The table adds two half-bytes bit by bit.                               *)
LEMMA NibbleXor ==
  ASSUME NEW a \in Nibble, NEW b \in Nibble
  PROVE  /\ XorNibble[a][b] \in Nibble
         /\ \A w \in Weights : Bit(XorNibble[a][b], w) = (Bit(a, w) + Bit(b, w)) % 2
<1> DEFINE s(w) == (Bit(a, w) + Bit(b, w)) % 2
<1>1. \A w \in Weights : Bit(a, w) \in 0 .. 1 /\ Bit(b, w) \in 0 .. 1
  BY BitType DEF Nibble
<1>2. \A w \in Weights : s(w) \in 0 .. 1
  BY <1>1
<1>3. XorNibble[a][b] = XorBit(a, b, 1) + XorBit(a, b, 2) + XorBit(a, b, 4) + XorBit(a, b, 8)
  BY DEF XorNibble, Nibble
<1>4. XorNibble[a][b] = s(1) + 2 * s(2) + 4 * s(4) + 8 * s(8)
  <2>1. 1 \in Weights /\ 2 \in Weights /\ 4 \in Weights /\ 8 \in Weights
    BY DEF Weights
  <2>2. XorBit(a, b, 1) = 1 * s(1) /\ XorBit(a, b, 2) = 2 * s(2) /\ XorBit(a, b, 4) = 4 * s(4)
        /\ XorBit(a, b, 8) = 8 * s(8)
    BY <2>1, XorBitIs
  <2> HIDE DEF s
  <2> QED BY <1>2, <1>3, <2>1, <2>2
<1> HIDE DEF s
<1>5. /\ XorNibble[a][b] \in Nibble
      /\ Bit(XorNibble[a][b], 1) = s(1) /\ Bit(XorNibble[a][b], 2) = s(2)
      /\ Bit(XorNibble[a][b], 4) = s(4) /\ Bit(XorNibble[a][b], 8) = s(8)
  <2>1. s(1) \in 0 .. 1 /\ s(2) \in 0 .. 1 /\ s(4) \in 0 .. 1 /\ s(8) \in 0 .. 1
    BY <1>2 DEF Weights
  <2> QED BY <1>4, <2>1, SumBits
<1> QED BY <1>5 DEF s, Weights

(* Half-bytes of the same bits are the same.                               *)
LEMMA SameBits ==
  ASSUME NEW a \in Nibble, NEW b \in Nibble, \A w \in Weights : Bit(a, w) = Bit(b, w)
  PROVE  a = b
<1>1. Bit(a, 1) = Bit(b, 1) /\ Bit(a, 2) = Bit(b, 2) /\ Bit(a, 4) = Bit(b, 4) /\ Bit(a, 8) = Bit(b, 8)
  BY DEF Weights
<1> QED BY <1>1, NibbleBits

(* The sum of half-bytes is associative.                                   *)
LEMMA NibbleAssoc ==
  ASSUME NEW a \in Nibble, NEW b \in Nibble, NEW c \in Nibble
  PROVE  XorNibble[XorNibble[a][b]][c] = XorNibble[a][XorNibble[b][c]]
<1> DEFINE x == XorNibble[a][b]
           y == XorNibble[b][c]
<1>1. x \in Nibble /\ y \in Nibble
  BY NibbleXor
<1>2. ASSUME NEW w \in Weights
      PROVE  Bit(XorNibble[x][c], w) = Bit(XorNibble[a][y], w)
  <2>1. /\ Bit(x, w) = (Bit(a, w) + Bit(b, w)) % 2
        /\ Bit(y, w) = (Bit(b, w) + Bit(c, w)) % 2
    BY NibbleXor
  <2> HIDE DEF x, y
  <2>2. /\ Bit(XorNibble[x][c], w) = (Bit(x, w) + Bit(c, w)) % 2
        /\ Bit(XorNibble[a][y], w) = (Bit(a, w) + Bit(y, w)) % 2
    BY <1>1, NibbleXor
  <2>3. Bit(a, w) \in 0 .. 1 /\ Bit(b, w) \in 0 .. 1 /\ Bit(c, w) \in 0 .. 1
    BY BitType DEF Nibble
  <2> QED BY <2>1, <2>2, <2>3
<1> HIDE DEF x, y
<1>3. XorNibble[x][c] \in Nibble /\ XorNibble[a][y] \in Nibble
  BY <1>1, NibbleXor
<1>4. XorNibble[x][c] = XorNibble[a][y]
  BY <1>2, <1>3, SameBits
<1> QED BY <1>4 DEF x, y

(* It is commutative, every half-byte is its own inverse, 0 is neutral.    *)
LEMMA NibbleLaws ==
  ASSUME NEW a \in Nibble, NEW b \in Nibble
  PROVE  /\ XorNibble[a][b] = XorNibble[b][a]
         /\ XorNibble[a][a] = 0 /\ XorNibble[a][0] = a
<1>1. XorNibble[a][b] = XorNibble[b][a]
  BY DEF XorNibble, XorBit, Nibble
<1>2. 0 \in Nibble /\ \A w \in Weights : Bit(0, w) = 0 /\ Bit(a, w) \in 0 .. 1
  <2>1. \A w \in Weights : Bit(a, w) \in 0 .. 1
    BY BitType DEF Nibble
  <2>2. 0 \in Nibble /\ \A w \in Weights : Bit(0, w) = 0
    BY DEF Nibble, Bit, Weights
  <2> QED BY <2>1, <2>2
<1>3. XorNibble[a][a] = 0
  <2>1. XorNibble[a][a] \in Nibble /\ \A w \in Weights : Bit(XorNibble[a][a], w) = Bit(0, w)
    BY <1>2, NibbleXor
  <2> QED BY <1>2, <2>1, SameBits
<1>4. XorNibble[a][0] = a
  <2>1. XorNibble[a][0] \in Nibble /\ \A w \in Weights : Bit(XorNibble[a][0], w) = Bit(a, w)
    BY <1>2, NibbleXor
  <2> QED BY <2>1, SameBits
<1> QED BY <1>1, <1>3, <1>4

(* Bytes.                                                                  *)
a ## b == XorByte(a, b)

(* The exclusive or of two bytes is taken half by half.                    *)
LEMMA XorType ==
  ASSUME NEW a \in Byte, NEW b \in Byte
  PROVE  /\ a ## b \in Byte
         /\ (a ## b) \div 16 = XorNibble[a \div 16][b \div 16]
         /\ (a ## b) % 16 = XorNibble[a % 16][b % 16]
<1> DEFINE h == XorNibble[a \div 16][b \div 16]
           l == XorNibble[a % 16][b % 16]
<1>1. a \div 16 \in Nibble /\ b \div 16 \in Nibble /\ a % 16 \in Nibble /\ b % 16 \in Nibble
  BY DEF Byte, Nibble
<1>2. h \in 0 .. 15 /\ l \in 0 .. 15
  BY <1>1, NibbleXor DEF Nibble
<1>3. a ## b = 16 * h + l
  BY DEF XorByte, ##
<1> HIDE DEF h, l
<1>4. (16 * h + l) \div 16 = h /\ (16 * h + l) % 16 = l /\ 16 * h + l \in 0 .. 255
  BY <1>2
<1> QED BY <1>3, <1>4 DEF h, l, Byte

(* Bytes are alike if their halves are.                                    *)
LEMMA Halves ==
  ASSUME NEW a \in Byte, NEW b \in Byte, a \div 16 = b \div 16, a % 16 = b % 16
  PROVE  a = b
<1>1. a = 16 * (a \div 16) + (a % 16) /\ b = 16 * (b \div 16) + (b % 16)
  BY DEF Byte
<1> QED BY <1>1

(* The halves of a byte.                                                   *)
LEMMA HalfTypes == ASSUME NEW a \in Byte PROVE a \div 16 \in Nibble /\ a % 16 \in Nibble
BY DEF Byte, Nibble

(* Bytes are a group under exclusive or, in which each is its own inverse; *)
(* the laws that chaining and add_round_key rest on.                       *)
LEMMA XorLaws ==
  ASSUME NEW a \in Byte, NEW b \in Byte
  PROVE  a ## b \in Byte /\ a ## b = b ## a /\ a ## a = 0 /\ a ## 0 = a
<1>1. a \div 16 \in Nibble /\ b \div 16 \in Nibble /\ a % 16 \in Nibble /\ b % 16 \in Nibble
  BY HalfTypes
<1>2. a ## b = b ## a
  BY <1>1, NibbleLaws DEF ##, XorByte
<1>3. a ## a = 0
  BY <1>1, NibbleLaws DEF ##, XorByte
<1>4. a ## 0 = a
  <2>1. 0 \div 16 = 0 /\ 0 % 16 = 0
    OBVIOUS
  <2>2. /\ XorNibble[a \div 16][0] = a \div 16
        /\ XorNibble[a % 16][0] = a % 16
    BY <1>1, NibbleLaws
  <2>4. a ## 0 = 16 * (a \div 16) + (a % 16)
    BY <2>1, <2>2 DEF ##, XorByte
  <2>3. 16 * (a \div 16) + (a % 16) = a
    BY DEF Byte
  <2> QED BY <2>3, <2>4
<1>5. a ## b \in Byte
  BY XorType
<1> QED BY <1>2, <1>3, <1>4, <1>5

(* The sum of bytes is associative.                                        *)
LEMMA XorAssoc ==
  ASSUME NEW a \in Byte, NEW b \in Byte, NEW c \in Byte
  PROVE  (a ## b) ## c = a ## (b ## c)
<1>1. /\ a \div 16 \in Nibble /\ b \div 16 \in Nibble /\ c \div 16 \in Nibble
      /\ a % 16 \in Nibble /\ b % 16 \in Nibble /\ c % 16 \in Nibble
  BY HalfTypes
<1> DEFINE x == a ## b
           y == b ## c
<1>2. x \in Byte /\ x \div 16 = XorNibble[a \div 16][b \div 16] /\ x % 16 = XorNibble[a % 16][b % 16]
  BY XorType
<1>3. y \in Byte /\ y \div 16 = XorNibble[b \div 16][c \div 16] /\ y % 16 = XorNibble[b % 16][c % 16]
  BY XorType
<1> HIDE DEF x, y
<1>4. /\ x ## c \in Byte /\ (x ## c) \div 16 = XorNibble[x \div 16][c \div 16]
      /\ (x ## c) % 16 = XorNibble[x % 16][c % 16]
  BY <1>2, XorType
<1>5. /\ a ## y \in Byte /\ (a ## y) \div 16 = XorNibble[a \div 16][y \div 16]
      /\ (a ## y) % 16 = XorNibble[a % 16][y % 16]
  BY <1>3, XorType
<1>6. (x ## c) \div 16 = (a ## y) \div 16 /\ (x ## c) % 16 = (a ## y) % 16
  BY <1>1, <1>2, <1>3, <1>4, <1>5, NibbleAssoc
<1>7. x ## c = a ## y
  BY <1>4, <1>5, <1>6, Halves
<1> QED BY <1>7 DEF x, y

(* The weights of the bits of a byte.                                      *)
Places == {1, 2, 4, 8, 16, 32, 64, 128}

(* The bits of a byte are those of its halves.                             *)
LEMMA BitsOfHalves ==
  ASSUME NEW a \in Byte, NEW w \in Weights
  PROVE  Bit(a, w) = Bit(a % 16, w) /\ Bit(a, 16 * w) = Bit(a \div 16, w)
<1>1. CASE w = 1
  BY <1>1 DEF Bit, Byte
<1>2. CASE w = 2
  BY <1>2 DEF Bit, Byte
<1>3. CASE w = 4
  BY <1>3 DEF Bit, Byte
<1>4. CASE w = 8
  BY <1>4 DEF Bit, Byte
<1> QED BY <1>1, <1>2, <1>3, <1>4 DEF Weights

(* Places are those of the lower and of the upper half.                    *)
LEMMA PlacesAre ==
  /\ \A w \in Weights : w \in Places /\ 16 * w \in Places
  /\ \A v \in Places : v \in Weights \/ \E w \in Weights : v = 16 * w
BY DEF Places, Weights

(* The exclusive or of two bytes adds them bit by bit.                     *)
LEMMA BitOfXor ==
  ASSUME NEW a \in Byte, NEW b \in Byte, NEW v \in Places
  PROVE  Bit(a ## b, v) = (Bit(a, v) + Bit(b, v)) % 2
<1>1. a ## b \in Byte
  BY XorType
<1>2. ASSUME NEW w \in Weights
      PROVE  /\ Bit(a ## b, w) = (Bit(a, w) + Bit(b, w)) % 2
             /\ Bit(a ## b, 16 * w) = (Bit(a, 16 * w) + Bit(b, 16 * w)) % 2
  <2>1. /\ Bit(a ## b, w) = Bit(XorNibble[a % 16][b % 16], w)
        /\ Bit(a ## b, 16 * w) = Bit(XorNibble[a \div 16][b \div 16], w)
    BY <1>1, BitsOfHalves, XorType
  <2>2. /\ Bit(XorNibble[a % 16][b % 16], w) = (Bit(a % 16, w) + Bit(b % 16, w)) % 2
        /\ Bit(XorNibble[a \div 16][b \div 16], w) = (Bit(a \div 16, w) + Bit(b \div 16, w)) % 2
    BY HalfTypes, NibbleXor
  <2>3. /\ Bit(a, w) = Bit(a % 16, w) /\ Bit(a, 16 * w) = Bit(a \div 16, w)
        /\ Bit(b, w) = Bit(b % 16, w) /\ Bit(b, 16 * w) = Bit(b \div 16, w)
    BY BitsOfHalves
  <2> QED BY <2>1, <2>2, <2>3
<1> QED BY <1>2, PlacesAre

(* Bytes of the same bits are the same.                                    *)
LEMMA SameByte ==
  ASSUME NEW a \in Byte, NEW b \in Byte, \A v \in Places : Bit(a, v) = Bit(b, v)
  PROVE  a = b
<1>1. ASSUME NEW w \in Weights
      PROVE  Bit(a % 16, w) = Bit(b % 16, w) /\ Bit(a \div 16, w) = Bit(b \div 16, w)
  <2>1. Bit(a, w) = Bit(b, w) /\ Bit(a, 16 * w) = Bit(b, 16 * w)
    BY PlacesAre
  <2> QED BY <2>1, BitsOfHalves
<1>2. a % 16 = b % 16 /\ a \div 16 = b \div 16
  BY <1>1, HalfTypes, SameBits
<1> QED BY <1>2, Halves

(* The bits of a byte are 0 or 1.                                          *)
LEMMA BitRange ==
  ASSUME NEW a \in Byte, NEW v \in Places
  PROVE  Bit(a, v) \in 0 .. 1
<1>1. a \in Nat /\ v \in Nat \ {0}
  BY DEF Byte, Places
<1>2. a \div v \in Nat
  BY DEF Byte, Places
<1> QED BY <1>2 DEF Bit

(* Four terms may change places.                                           *)
LEMMA Interchange ==
  ASSUME NEW a \in Byte, NEW b \in Byte, NEW c \in Byte, NEW d \in Byte
  PROVE  (a ## b) ## (c ## d) = (a ## c) ## (b ## d)
<1>1. a ## b \in Byte /\ c ## d \in Byte /\ b ## c \in Byte /\ b ## d \in Byte /\ a ## c \in Byte
  BY XorLaws
<1>2. (a ## b) ## (c ## d) = a ## (b ## (c ## d))
  BY <1>1, XorAssoc
<1>3. b ## (c ## d) = (b ## c) ## d
  BY XorAssoc
<1>4. b ## c = c ## b
  BY XorLaws
<1>5. (c ## b) ## d = c ## (b ## d)
  BY XorAssoc
<1>6. a ## (c ## (b ## d)) = (a ## c) ## (b ## d)
  BY <1>1, XorAssoc
<1> QED BY <1>2, <1>3, <1>4, <1>5, <1>6

(* The two parts of what Doubled adds.                                     *)
Low(a) == (2 * a) % 256
Carry(a) == IF a >= 128 THEN 27 ELSE 0

(* Doubling moves every bit one place up.                                  *)
LEMMA LowBits ==
  ASSUME NEW a \in Byte
  PROVE  /\ Low(a) \in Byte /\ Bit(Low(a), 1) = 0
         /\ \A w \in Places : 2 * w \in Places => Bit(Low(a), 2 * w) = Bit(a, w)
<1>1. Low(a) \in Byte /\ Bit(Low(a), 1) = 0
  BY DEF Low, Byte, Bit
<1>2. ASSUME NEW w \in {1, 2, 4, 8, 16, 32, 64}
      PROVE  Bit(Low(a), 2 * w) = Bit(a, w)
  <2>1. CASE w = 1
    BY <2>1 DEF Low, Byte, Bit
  <2>2. CASE w = 2
    BY <2>2 DEF Low, Byte, Bit
  <2>3. CASE w = 4
    BY <2>3 DEF Low, Byte, Bit
  <2>4. CASE w = 8
    BY <2>4 DEF Low, Byte, Bit
  <2>5. CASE w = 16
    BY <2>5 DEF Low, Byte, Bit
  <2>6. CASE w = 32
    BY <2>6 DEF Low, Byte, Bit
  <2>7. CASE w = 64
    BY <2>7 DEF Low, Byte, Bit
  <2> QED BY <2>1, <2>2, <2>3, <2>4, <2>5, <2>6, <2>7
<1>3. \A w \in Places : 2 * w \in Places => w \in {1, 2, 4, 8, 16, 32, 64}
  BY DEF Places
<1> QED BY <1>1, <1>2, <1>3

(* The part of Doubled that moves the bits is linear.                      *)
LEMMA LowSum ==
  ASSUME NEW a \in Byte, NEW b \in Byte
  PROVE  Low(a ## b) = Low(a) ## Low(b)
<1> DEFINE x == a ## b
<1>1. x \in Byte /\ Low(a) \in Byte /\ Low(b) \in Byte
  BY XorLaws, LowBits
<1>2. /\ Bit(Low(a), 1) = 0 /\ Bit(Low(b), 1) = 0 /\ Bit(Low(x), 1) = 0
      /\ \A w \in Places : 2 * w \in Places =>
           Bit(Low(a), 2 * w) = Bit(a, w) /\ Bit(Low(b), 2 * w) = Bit(b, w) /\ Bit(Low(x), 2 * w) = Bit(x, w)
  BY <1>1, LowBits
<1>3. \A w \in Places : Bit(x, w) = (Bit(a, w) + Bit(b, w)) % 2
  BY BitOfXor
<1>4. \A v \in Places : Bit(Low(a) ## Low(b), v) = (Bit(Low(a), v) + Bit(Low(b), v)) % 2
  BY <1>1, BitOfXor
<1> HIDE DEF x
<1>5. ASSUME NEW v \in Places PROVE Bit(Low(x), v) = Bit(Low(a) ## Low(b), v)
  <2>1. v = 1 \/ \E w \in Places : v = 2 * w
    BY DEF Places
  <2>2. CASE v = 1
    BY <1>2, <1>4, <2>2
  <2>3. ASSUME NEW w \in Places, v = 2 * w PROVE Bit(Low(x), v) = Bit(Low(a) ## Low(b), v)
    <3>1. Bit(Low(a), v) = Bit(a, w) /\ Bit(Low(b), v) = Bit(b, w) /\ Bit(Low(x), v) = Bit(x, w)
      BY <1>2, <2>3
    <3> QED BY <1>3, <1>4, <3>1
  <2> QED BY <2>1, <2>2, <2>3
<1>6. Low(x) \in Byte /\ Low(a) ## Low(b) \in Byte
  BY <1>1, LowBits, XorLaws
<1>7. Low(x) = Low(a) ## Low(b)
  BY <1>5, <1>6, SameByte
<1> QED BY <1>7 DEF x

(* The part of Doubled that reduces by the field polynomial is linear.     *)
LEMMA CarrySum ==
  ASSUME NEW a \in Byte, NEW b \in Byte
  PROVE  Carry(a) \in Byte /\ Carry(a ## b) = Carry(a) ## Carry(b)
<1>1. \A x \in Byte : Bit(x, 128) = IF x >= 128 THEN 1 ELSE 0
  BY DEF Byte, Bit
<1>2. Bit(a ## b, 128) = (Bit(a, 128) + Bit(b, 128)) % 2
  BY BitOfXor DEF Places
<1>3. \A x \in Byte : Carry(x) = IF Bit(x, 128) = 1 THEN 27 ELSE 0
  BY <1>1 DEF Carry
<1>4. a ## b \in Byte
  BY XorLaws
<1>5. 27 \in Byte /\ 0 \in Byte
  BY DEF Byte
<1>6. 27 ## 27 = 0 /\ 27 ## 0 = 27 /\ 0 ## 27 = 27 /\ 0 ## 0 = 0
  BY <1>5, XorLaws
<1>7. Bit(a, 128) \in 0 .. 1 /\ Bit(b, 128) \in 0 .. 1
  BY BitRange DEF Places
<1>8. Carry(a) \in Byte
  BY <1>3, <1>5
<1>9. Carry(a ## b) = Carry(a) ## Carry(b)
  <2>1. CASE Bit(a, 128) = 0 /\ Bit(b, 128) = 0
    BY <1>2, <1>3, <1>4, <1>6, <2>1
  <2>2. CASE Bit(a, 128) = 1 /\ Bit(b, 128) = 0
    BY <1>2, <1>3, <1>4, <1>6, <2>2
  <2>3. CASE Bit(a, 128) = 0 /\ Bit(b, 128) = 1
    BY <1>2, <1>3, <1>4, <1>6, <2>3
  <2>4. CASE Bit(a, 128) = 1 /\ Bit(b, 128) = 1
    BY <1>2, <1>3, <1>4, <1>6, <2>4
  <2> QED BY <1>7, <2>1, <2>2, <2>3, <2>4
<1> QED BY <1>8, <1>9

(* Doubling is linear.                                                     *)
LEMMA DoubledSum ==
  ASSUME NEW a \in Byte, NEW b \in Byte
  PROVE  Doubled(a) \in Byte /\ Doubled(a ## b) = Doubled(a) ## Doubled(b)
<1>1. \A x \in Byte : Doubled(x) = Low(x) ## Carry(x)
  BY DEF Doubled, Low, Carry, ##
<1>2. Low(a) \in Byte /\ Low(b) \in Byte /\ Carry(a) \in Byte /\ Carry(b) \in Byte /\ a ## b \in Byte
  BY LowBits, CarrySum, XorLaws
<1>3. Doubled(a ## b) = (Low(a) ## Low(b)) ## (Carry(a) ## Carry(b))
  BY <1>1, <1>2, LowSum, CarrySum
<1>4. Doubled(a ## b) = (Low(a) ## Carry(a)) ## (Low(b) ## Carry(b))
  BY <1>2, <1>3, Interchange
<1> QED BY <1>1, <1>2, <1>4, XorLaws

(* The sum of five bytes.                                                  *)
Five(a, b, c, d, e) == (((a ## b) ## c) ## d) ## e

(* The term of bit v of the factor c, and the product with c.              *)
Part(c, v, x) == IF Bit(c, v) = 1 THEN x ELSE 0
Poly(c, x) ==
  Five(Part(c, 1, x), Part(c, 2, Doubled(x)), Part(c, 4, Doubled(Doubled(x))),
       Part(c, 8, Doubled(Doubled(Doubled(x)))), Part(c, 16, Doubled(Doubled(Doubled(Doubled(x))))))

(* Terms are linear in the factor and in the byte.                         *)
LEMMA PartSums ==
  ASSUME NEW c \in Byte, NEW e \in Byte, NEW v \in Places, NEW x \in Byte, NEW y \in Byte
  PROVE  /\ Part(c, v, x) \in Byte
         /\ Part(c ## e, v, x) = Part(c, v, x) ## Part(e, v, x)
         /\ Part(c, v, x ## y) = Part(c, v, x) ## Part(c, v, y)
<1>1. Bit(c, v) \in 0 .. 1 /\ Bit(e, v) \in 0 .. 1 /\ Bit(c ## e, v) = (Bit(c, v) + Bit(e, v)) % 2
  BY BitRange, BitOfXor
<1>2. 0 \in Byte
  BY DEF Byte
<1>3. x ## 0 = x /\ 0 ## x = x /\ x ## x = 0 /\ 0 ## 0 = 0
  BY <1>2, XorLaws
<1>4. Part(c, v, x) \in Byte
  BY <1>2 DEF Part
<1>5. Part(c ## e, v, x) = Part(c, v, x) ## Part(e, v, x)
  <2>1. CASE Bit(c, v) = 0 /\ Bit(e, v) = 0
    BY <1>1, <1>3, <2>1 DEF Part
  <2>2. CASE Bit(c, v) = 1 /\ Bit(e, v) = 0
    BY <1>1, <1>3, <2>2 DEF Part
  <2>3. CASE Bit(c, v) = 0 /\ Bit(e, v) = 1
    BY <1>1, <1>3, <2>3 DEF Part
  <2>4. CASE Bit(c, v) = 1 /\ Bit(e, v) = 1
    BY <1>1, <1>3, <2>4 DEF Part
  <2> QED BY <1>1, <2>1, <2>2, <2>3, <2>4
<1>6. Part(c, v, x ## y) = Part(c, v, x) ## Part(c, v, y)
  BY <1>3 DEF Part
<1> QED BY <1>4, <1>5, <1>6

(* Bytes doubled up to four times.                                         *)
LEMMA DoubledTypes ==
  ASSUME NEW x \in Byte
  PROVE  /\ Doubled(x) \in Byte /\ Doubled(Doubled(x)) \in Byte
         /\ Doubled(Doubled(Doubled(x))) \in Byte /\ Doubled(Doubled(Doubled(Doubled(x)))) \in Byte
<1>1. \A y \in Byte : Doubled(y) \in Byte
  BY DoubledSum
<1> QED BY <1>1

(* Five bytes add up to a byte.                                            *)
LEMMA FiveType == \A a, b, c, d, e \in Byte : Five(a, b, c, d, e) \in Byte
<1> SUFFICES ASSUME NEW a \in Byte, NEW b \in Byte, NEW c \in Byte, NEW d \in Byte, NEW e \in Byte
             PROVE  Five(a, b, c, d, e) \in Byte
  OBVIOUS
<1>1. a ## b \in Byte
  BY XorLaws
<1>2. (a ## b) ## c \in Byte
  BY <1>1, XorLaws
<1>3. ((a ## b) ## c) ## d \in Byte
  BY <1>2, XorLaws
<1> QED BY <1>3, XorLaws DEF Five

(* A term is a byte (PartSums, with the quantifiers inside).               *)
LEMMA PartType == \A c, x \in Byte, v \in Places : Part(c, v, x) \in Byte
BY PartSums

(* Terms of a sum of factors.                                              *)
LEMMA PartSum ==
  \A c, e, x \in Byte, v \in Places : Part(c ## e, v, x) = Part(c, v, x) ## Part(e, v, x)
BY PartSums

(* Terms of a sum of bytes.                                                *)
LEMMA PartLinear ==
  \A c, x, y \in Byte, v \in Places : Part(c, v, x ## y) = Part(c, v, x) ## Part(c, v, y)
BY PartSums

(* A product is a byte.                                                    *)
LEMMA PolyType ==
  ASSUME NEW c \in Byte, NEW x \in Byte
  PROVE  Poly(c, x) \in Byte
<1>1. /\ Part(c, 1, x) \in Byte /\ Part(c, 2, Doubled(x)) \in Byte /\ Part(c, 4, Doubled(Doubled(x))) \in Byte
      /\ Part(c, 8, Doubled(Doubled(Doubled(x)))) \in Byte
      /\ Part(c, 16, Doubled(Doubled(Doubled(Doubled(x))))) \in Byte
  <2>1. 1 \in Places /\ 2 \in Places /\ 4 \in Places /\ 8 \in Places /\ 16 \in Places
    BY DEF Places
  <2> QED BY <2>1, DoubledTypes, PartType
<1> QED BY <1>1, FiveType DEF Poly

(* Pairs of sums, put together by Interchange.                             *)
LEMMA AddUp ==
  \A a, b, p, q \in Byte : a ## p \in Byte /\ (a ## b) ## (p ## q) = (a ## p) ## (b ## q)
BY Interchange, XorLaws

(* The product distributes over a sum of factors.                          *)
LEMMA PolySum ==
  ASSUME NEW c \in Byte, NEW e \in Byte, NEW x \in Byte
  PROVE  Poly(c ## e, x) = Poly(c, x) ## Poly(e, x)
<1> DEFINE x2 == Doubled(x)
           x4 == Doubled(x2)
           x8 == Doubled(x4)
           x16 == Doubled(x8)
           s1(f) == Part(f, 1, x)
           s2(f) == s1(f) ## Part(f, 2, x2)
           s3(f) == s2(f) ## Part(f, 4, x4)
           s4(f) == s3(f) ## Part(f, 8, x8)
           s5(f) == s4(f) ## Part(f, 16, x16)
<1>1. \A f : Poly(f, x) = s5(f)
  BY DEF Poly, Five
<1>2. x2 \in Byte /\ x4 \in Byte /\ x8 \in Byte /\ x16 \in Byte
  BY DoubledTypes
<1> HIDE DEF x2, x4, x8, x16
<1>3. 1 \in Places /\ 2 \in Places /\ 4 \in Places /\ 8 \in Places /\ 16 \in Places
  BY DEF Places
<1>4. c ## e \in Byte
  BY XorLaws
<1>5. ASSUME NEW f \in {c, e}
      PROVE  /\ Part(f, 1, x) \in Byte /\ Part(f, 2, x2) \in Byte /\ Part(f, 4, x4) \in Byte
             /\ Part(f, 8, x8) \in Byte /\ Part(f, 16, x16) \in Byte
  BY <1>2, <1>3, PartType
<1>6. /\ Part(c ## e, 1, x) = Part(c, 1, x) ## Part(e, 1, x)
      /\ Part(c ## e, 2, x2) = Part(c, 2, x2) ## Part(e, 2, x2)
      /\ Part(c ## e, 4, x4) = Part(c, 4, x4) ## Part(e, 4, x4)
      /\ Part(c ## e, 8, x8) = Part(c, 8, x8) ## Part(e, 8, x8)
      /\ Part(c ## e, 16, x16) = Part(c, 16, x16) ## Part(e, 16, x16)
  BY <1>2, <1>3, PartSum
<1>7. s1(c) \in Byte /\ s1(e) \in Byte /\ s1(c ## e) = s1(c) ## s1(e)
  BY <1>5, <1>6
<1> HIDE DEF s1
<1>8. s2(c) \in Byte /\ s2(e) \in Byte /\ s2(c ## e) = s2(c) ## s2(e)
  BY <1>5, <1>6, <1>7, AddUp
<1> HIDE DEF s2
<1>9. s3(c) \in Byte /\ s3(e) \in Byte /\ s3(c ## e) = s3(c) ## s3(e)
  BY <1>5, <1>6, <1>8, AddUp
<1> HIDE DEF s3
<1>10. s4(c) \in Byte /\ s4(e) \in Byte /\ s4(c ## e) = s4(c) ## s4(e)
  BY <1>5, <1>6, <1>9, AddUp
<1> HIDE DEF s4
<1>11. s5(c ## e) = s5(c) ## s5(e)
  BY <1>5, <1>6, <1>10, AddUp
<1> QED BY <1>1, <1>11

(* The product distributes over a sum of bytes.                            *)
LEMMA PolyLinear ==
  ASSUME NEW c \in Byte, NEW x \in Byte, NEW y \in Byte
  PROVE  Poly(c, x ## y) = Poly(c, x) ## Poly(c, y)
<1> DEFINE d(z) == Doubled(z)
           d2(z) == d(d(z))
           d3(z) == d(d2(z))
           d4(z) == d(d3(z))
           s1(z) == Part(c, 1, z)
           s2(z) == s1(z) ## Part(c, 2, d(z))
           s3(z) == s2(z) ## Part(c, 4, d2(z))
           s4(z) == s3(z) ## Part(c, 8, d3(z))
           s5(z) == s4(z) ## Part(c, 16, d4(z))
<1>1. \A z : Poly(c, z) = s5(z)
  BY DEF Poly, Five
<1>2. d(x) \in Byte /\ d(y) \in Byte /\ d(x ## y) = d(x) ## d(y)
  BY DoubledSum
<1>3. d2(x) \in Byte /\ d2(y) \in Byte /\ d2(x ## y) = d2(x) ## d2(y)
  BY <1>2, DoubledSum
<1>4. d3(x) \in Byte /\ d3(y) \in Byte /\ d3(x ## y) = d3(x) ## d3(y)
  BY <1>3, DoubledSum
<1>5. d4(x) \in Byte /\ d4(y) \in Byte /\ d4(x ## y) = d4(x) ## d4(y)
  BY <1>4, DoubledSum
<1> HIDE DEF d, d2, d3, d4
<1>6. 1 \in Places /\ 2 \in Places /\ 4 \in Places /\ 8 \in Places /\ 16 \in Places
  BY DEF Places
<1>7. ASSUME NEW z \in {x, y}
      PROVE  /\ Part(c, 1, z) \in Byte /\ Part(c, 2, d(z)) \in Byte /\ Part(c, 4, d2(z)) \in Byte
             /\ Part(c, 8, d3(z)) \in Byte /\ Part(c, 16, d4(z)) \in Byte
  BY <1>2, <1>3, <1>4, <1>5, <1>6, PartType
<1>8. /\ Part(c, 1, x ## y) = Part(c, 1, x) ## Part(c, 1, y)
      /\ Part(c, 2, d(x ## y)) = Part(c, 2, d(x)) ## Part(c, 2, d(y))
      /\ Part(c, 4, d2(x ## y)) = Part(c, 4, d2(x)) ## Part(c, 4, d2(y))
      /\ Part(c, 8, d3(x ## y)) = Part(c, 8, d3(x)) ## Part(c, 8, d3(y))
      /\ Part(c, 16, d4(x ## y)) = Part(c, 16, d4(x)) ## Part(c, 16, d4(y))
  BY <1>2, <1>3, <1>4, <1>5, <1>6, PartLinear
<1>9. s1(x) \in Byte /\ s1(y) \in Byte /\ s1(x ## y) = s1(x) ## s1(y)
  BY <1>7, <1>8
<1> HIDE DEF s1
<1>10. s2(x) \in Byte /\ s2(y) \in Byte /\ s2(x ## y) = s2(x) ## s2(y)
  BY <1>7, <1>8, <1>9, AddUp
<1> HIDE DEF s2
<1>11. s3(x) \in Byte /\ s3(y) \in Byte /\ s3(x ## y) = s3(x) ## s3(y)
  BY <1>7, <1>8, <1>10, AddUp
<1> HIDE DEF s3
<1>12. s4(x) \in Byte /\ s4(y) \in Byte /\ s4(x ## y) = s4(x) ## s4(y)
  BY <1>7, <1>8, <1>11, AddUp
<1> HIDE DEF s4
<1>13. s5(x ## y) = s5(x) ## s5(y)
  BY <1>7, <1>8, <1>12, AddUp
<1> QED BY <1>1, <1>13

(* The product with a doubled byte.                                        *)
LEMMA PolyDoubled ==
  ASSUME NEW c \in 0 .. 15, NEW x \in Byte
  PROVE  Poly(c, Doubled(x)) = Poly(2 * c, x)
<1> DEFINE x2 == Doubled(x)
           x4 == Doubled(x2)
           x8 == Doubled(x4)
           x16 == Doubled(x8)
           x32 == Doubled(x16)
<1>1. x2 \in Byte /\ x4 \in Byte /\ x8 \in Byte /\ x16 \in Byte
  BY DoubledTypes
<1>2. Poly(c, x2) = Five(Part(c, 1, x2), Part(c, 2, x4), Part(c, 4, x8), Part(c, 8, x16), Part(c, 16, x32))
  BY DEF Poly
<1>3. Poly(2 * c, x) = Five(Part(2 * c, 1, x), Part(2 * c, 2, x2), Part(2 * c, 4, x4), Part(2 * c, 8, x8),
                            Part(2 * c, 16, x16))
  BY DEF Poly
<1> HIDE DEF x2, x4, x8, x16, x32
<1>4. /\ Bit(2 * c, 1) = 0 /\ Bit(2 * c, 2) = Bit(c, 1) /\ Bit(2 * c, 4) = Bit(c, 2)
      /\ Bit(2 * c, 8) = Bit(c, 4) /\ Bit(2 * c, 16) = Bit(c, 8) /\ Bit(c, 16) = 0
  BY DEF Bit
<1>5. /\ Part(2 * c, 1, x) = 0 /\ Part(2 * c, 2, x2) = Part(c, 1, x2) /\ Part(2 * c, 4, x4) = Part(c, 2, x4)
      /\ Part(2 * c, 8, x8) = Part(c, 4, x8) /\ Part(2 * c, 16, x16) = Part(c, 8, x16) /\ Part(c, 16, x32) = 0
  BY <1>4 DEF Part
<1> DEFINE p == Part(c, 1, x2)
           q == Part(c, 2, x4)
           r == Part(c, 4, x8)
           s == Part(c, 8, x16)
<1>6. p \in Byte /\ q \in Byte /\ r \in Byte /\ s \in Byte /\ 0 \in Byte
  <2>1. c \in Byte /\ 0 \in Byte
    BY DEF Byte
  <2> QED BY <1>1, <2>1, PartSums DEF Places
<1>7. Poly(c, x2) = Five(p, q, r, s, 0) /\ Poly(2 * c, x) = Five(0, p, q, r, s)
  BY <1>2, <1>3, <1>5
<1> HIDE DEF p, q, r, s
<1>8. 0 ## p = p
  BY <1>6, XorLaws
<1>9. ((p ## q) ## r) ## s \in Byte
  <2>1. p ## q \in Byte
    BY <1>6, XorLaws
  <2>2. (p ## q) ## r \in Byte
    BY <1>6, <2>1, XorLaws
  <2> QED BY <1>6, <2>2, XorLaws
<1>10. Five(p, q, r, s, 0) = ((p ## q) ## r) ## s
  BY <1>9, XorLaws DEF Five
<1>11. Five(0, p, q, r, s) = ((p ## q) ## r) ## s
  BY <1>8, Zenon DEF Five
<1> QED BY <1>7, <1>10, <1>11 DEF x2

(* One is neutral.                                                         *)
LEMMA PolyOne == ASSUME NEW x \in Byte PROVE Poly(1, x) = x
<1>1. Bit(1, 1) = 1 /\ Bit(1, 2) = 0 /\ Bit(1, 4) = 0 /\ Bit(1, 8) = 0 /\ Bit(1, 16) = 0
  BY DEF Bit
<1>2. \A y : /\ Part(1, 1, y) = y /\ Part(1, 2, y) = 0 /\ Part(1, 4, y) = 0
             /\ Part(1, 8, y) = 0 /\ Part(1, 16, y) = 0
  BY <1>1 DEF Part
<1>3. Poly(1, x) = Five(x, 0, 0, 0, 0)
  BY <1>2, Zenon DEF Poly
<1>4. x ## 0 = x
  BY XorLaws
<1> QED BY <1>3, <1>4 DEF Five

(* Zero times a byte.                                                      *)
LEMMA PolyZero == ASSUME NEW x \in Byte PROVE Poly(0, x) = 0
<1>1. Bit(0, 1) = 0 /\ Bit(0, 2) = 0 /\ Bit(0, 4) = 0 /\ Bit(0, 8) = 0 /\ Bit(0, 16) = 0
  BY DEF Bit
<1>2. \A y : /\ Part(0, 1, y) = 0 /\ Part(0, 2, y) = 0 /\ Part(0, 4, y) = 0
             /\ Part(0, 8, y) = 0 /\ Part(0, 16, y) = 0
  BY <1>1 DEF Part
<1>3. Poly(0, x) = Five(0, 0, 0, 0, 0)
  BY <1>2, Zenon DEF Poly
<1>4. 0 \in Byte
  BY DEF Byte
<1>5. 0 ## 0 = 0
  BY <1>4, XorLaws
<1> QED BY <1>3, <1>5 DEF Five

(* The loop of gmul, turn by turn, for a factor of four bits.              *)
Turned(s) == [a |-> Doubled(s.a), b |-> s.b \div 2,
              p |-> IF s.b % 2 = 1 THEN XorByte(s.p, s.a) ELSE s.p]

(* The loop of gmul ends after eight turns.                                *)
LEMMA GmulDef ==
  ASSUME NEW a \in Byte, NEW b \in 0 .. 15
  PROVE  \E g : /\ g[0] = [a |-> a, b |-> b, p |-> 0]
                /\ \A i \in 1 .. 8 : g[i] = Turned(g[i - 1])
                /\ gmul(a, b) = g[8].p
<1> DEFINE T == [a : Byte, b : 0 .. 15, p : Byte]
           x0 == [a |-> a, b |-> b, p |-> 0]
           step == [z \in (1 .. 8) \X T |-> Turned(z[2])]
           F(g) == [i \in 0 .. 8 |-> IF i = 0 THEN [a |-> a, b |-> b, p |-> 0]
                                     ELSE LET s == g[i - 1]
                                          IN  [a |-> Doubled(s.a), b |-> s.b \div 2,
                                               p |-> IF s.b % 2 = 1 THEN XorByte(s.p, s.a) ELSE s.p]]
           turn == CHOOSE g : g = F(g)
<1>1. x0 \in T
  BY DEF Byte
<1>2. \A s \in T : Turned(s) \in T
  <2> SUFFICES ASSUME NEW s \in T PROVE Turned(s) \in T
    OBVIOUS
  <2>1. s.a \in Byte /\ s.b \in 0 .. 15 /\ s.p \in Byte
    OBVIOUS
  <2> HIDE DEF T
  <2>2. Doubled(s.a) \in Byte /\ s.p ## s.a \in Byte
    BY <2>1, DoubledSum, XorLaws
  <2>3. s.b \div 2 \in 0 .. 15
    BY <2>1
  <2> QED BY <2>1, <2>2, <2>3 DEF Turned, T, ##
<1> HIDE DEF T
<1>3. step \in [(1 .. 8) \X T -> T]
  BY <1>2
<1>4. \A i \in 1 .. 8 : \A s \in T : step[<<i, s>>] = Turned(s)
  OBVIOUS
<1>5. PICK g \in [0 .. 8 -> T] : g[0] = x0 /\ \A i \in 1 .. 8 : g[i] = step[<<i, g[i - 1]>>]
  <2> HIDE DEF step, x0
  <2>1. \E g \in [0 .. 8 -> T] : Iterates(g, 8, x0, step)
    BY <1>1, <1>3, Recursion
  <2> QED BY <2>1, Zenon DEF Iterates
<1> HIDE DEF step
<1>6. \A i \in 1 .. 8 : i # 0 /\ i - 1 \in 0 .. 8 /\ i \in 0 .. 8
  OBVIOUS
<1>7. \A i \in 1 .. 8 : g[i] = Turned(g[i - 1])
  BY <1>4, <1>5, <1>6
<1>8. g = F(g)
  <2>1. \A i \in 0 .. 8 : i = 0 \/ i \in 1 .. 8
    OBVIOUS
  <2>2. \A i \in 0 .. 8 : g[i] = IF i = 0 THEN x0 ELSE Turned(g[i - 1])
    BY <1>5, <1>7, <2>1
  <2> QED BY <1>5, <2>2, Zenon DEF Turned
<1>9. turn = F(turn)
  BY <1>8, Zenon
<1>10. gmul(a, b) = turn[8].p
  BY Zenon DEF gmul
<1> HIDE DEF turn
<1>11. turn[0] = x0 /\ \A i \in 1 .. 8 : turn[i] = Turned(turn[i - 1])
  <2>1. 0 \in 0 .. 8
    OBVIOUS
  <2> QED BY <1>6, <1>9, <2>1, Zenon DEF Turned
<1> QED BY <1>10, <1>11, Zenon

(* gmul multiplies.                                                        *)
LEMMA GmulIs ==
  ASSUME NEW x \in Byte, NEW c \in 0 .. 15
  PROVE  gmul(x, c) = Poly(c, x)
<1> DEFINE x2 == Doubled(x)
           x4 == Doubled(x2)
           x8 == Doubled(x4)
           x16 == Doubled(x8)
           p1 == Part(c, 1, x)
           p2 == Part(c, 2, x2)
           p4 == Part(c, 4, x4)
           p8 == Part(c, 8, x8)
<1>1. x2 \in Byte /\ x4 \in Byte /\ x8 \in Byte /\ x16 \in Byte
  BY DoubledTypes
<1>2. Poly(c, x) = Five(p1, p2, p4, p8, Part(c, 16, x16))
  BY DEF Poly
<1>3. PICK g : /\ g[0] = [a |-> x, b |-> c, p |-> 0]
               /\ \A i \in 1 .. 8 : g[i] = Turned(g[i - 1])
               /\ gmul(x, c) = g[8].p
  BY GmulDef
<1>4. /\ g[1] = Turned(g[0]) /\ g[2] = Turned(g[1]) /\ g[3] = Turned(g[2]) /\ g[4] = Turned(g[3])
      /\ g[5] = Turned(g[4]) /\ g[6] = Turned(g[5]) /\ g[7] = Turned(g[6]) /\ g[8] = Turned(g[7])
  <2>1. /\ 1 - 1 = 0 /\ 2 - 1 = 1 /\ 3 - 1 = 2 /\ 4 - 1 = 3 /\ 5 - 1 = 4 /\ 6 - 1 = 5 /\ 7 - 1 = 6 /\ 8 - 1 = 7
        /\ {1, 2, 3, 4, 5, 6, 7, 8} \subseteq 1 .. 8
    OBVIOUS
  <2> QED BY <1>3, <2>1
<1>5. c \in Byte /\ 0 \in Byte /\ Bit(c, 16) = 0
  BY DEF Byte, Bit
<1>6. p1 \in Byte /\ p2 \in Byte /\ p4 \in Byte /\ p8 \in Byte
  <2>1. 1 \in Places /\ 2 \in Places /\ 4 \in Places /\ 8 \in Places
    BY DEF Places
  <2> QED BY <1>1, <1>5, <2>1, PartType
<1>7. Part(c, 16, x16) = 0
  BY <1>5 DEF Part
<1>8. \A s, v : v \in Places /\ s.p \in Byte /\ s.a \in Byte /\ s.b % 2 = Bit(c, v) =>
        Turned(s).p = s.p ## Part(c, v, s.a) /\ Turned(s).a = Doubled(s.a) /\ Turned(s).b = s.b \div 2
  <2> SUFFICES ASSUME NEW s, NEW v, v \in Places, s.p \in Byte, s.a \in Byte, s.b % 2 = Bit(c, v)
               PROVE  /\ Turned(s).p = s.p ## Part(c, v, s.a)
                      /\ Turned(s).a = Doubled(s.a) /\ Turned(s).b = s.b \div 2
    OBVIOUS
  <2>1. s.p ## 0 = s.p
    BY XorLaws
  <2>2. Bit(c, v) \in 0 .. 1
    BY <1>5, BitRange
  <2> QED BY <2>1, <2>2 DEF Turned, Part, ##
<1> HIDE DEF x2, x4, x8, x16
<1>9. /\ c % 2 = Bit(c, 1) /\ (c \div 2) % 2 = Bit(c, 2) /\ ((c \div 2) \div 2) % 2 = Bit(c, 4)
      /\ (((c \div 2) \div 2) \div 2) % 2 = Bit(c, 8) /\ (((c \div 2) \div 2) \div 2) \div 2 = 0
      /\ 0 \div 2 = 0 /\ 0 % 2 = 0
  BY DEF Bit
<1>10. 1 \in Places /\ 2 \in Places /\ 4 \in Places /\ 8 \in Places
  BY DEF Places
<1>11. g[1].a = x2 /\ g[1].b = c \div 2 /\ g[1].p = p1
  <2>1. g[0].a = x /\ g[0].b = c /\ g[0].p = 0
    BY <1>3
  <2>2. g[1].a = x2 /\ g[1].b = c \div 2 /\ g[1].p = 0 ## p1
    BY <1>4, <1>5, <1>8, <1>9, <1>10, <2>1 DEF x2
  <2>3. 0 ## p1 = p1
    BY <1>5, <1>6, XorLaws
  <2> QED BY <2>2, <2>3
<1> HIDE DEF p1
<1>12. g[2].a = x4 /\ g[2].b = (c \div 2) \div 2 /\ g[2].p = p1 ## p2
  BY <1>1, <1>4, <1>6, <1>8, <1>9, <1>10, <1>11 DEF x4
<1>13. p1 ## p2 \in Byte
  BY <1>6, XorLaws
<1> HIDE DEF p2
<1>14. g[3].a = x8 /\ g[3].b = ((c \div 2) \div 2) \div 2 /\ g[3].p = (p1 ## p2) ## p4
  BY <1>1, <1>4, <1>8, <1>9, <1>10, <1>12, <1>13 DEF x8
<1>15. (p1 ## p2) ## p4 \in Byte
  BY <1>6, <1>13, XorLaws
<1> HIDE DEF p4
<1>16. g[4].b = 0 /\ g[4].p = ((p1 ## p2) ## p4) ## p8
  BY <1>1, <1>4, <1>8, <1>9, <1>10, <1>14, <1>15
<1>17. \A s : s.b = 0 => Turned(s).b = 0 /\ Turned(s).p = s.p
  BY <1>9 DEF Turned
<1>18. g[8].p = ((p1 ## p2) ## p4) ## p8
  BY <1>4, <1>16, <1>17
<1>19. ((p1 ## p2) ## p4) ## p8 \in Byte
  BY <1>6, <1>15, XorLaws
<1>20. Five(p1, p2, p4, p8, 0) = ((p1 ## p2) ## p4) ## p8
  BY <1>19, XorLaws DEF Five
<1> QED BY <1>2, <1>3, <1>7, <1>18, <1>20

(* So do its tables.                                                       *)
LEMMA TimesIs ==
  ASSUME NEW x \in Byte, NEW c \in {1, 2, 3, 9, 11, 13, 14}
  PROVE  Times[c][x] = Poly(c, x)
<1>1. Times[c][x] = gmul(x, c)
  BY DEF Times
<1>2. c \in 0 .. 15
  OBVIOUS
<1> QED BY <1>1, <1>2, GmulIs

(* The sum of four bytes, as mix_columns adds them.                        *)
Four(f) == (f[0] ## f[1]) ## (f[2] ## f[3])
Quad == [0 .. 3 -> Byte]

(* Four bytes add up to a byte.                                            *)
LEMMA FourType == ASSUME NEW f \in Quad PROVE Four(f) \in Byte
<1>1. f[0] \in Byte /\ f[1] \in Byte /\ f[2] \in Byte /\ f[3] \in Byte
  BY DEF Quad
<1>2. f[0] ## f[1] \in Byte /\ f[2] ## f[3] \in Byte
  BY <1>1, XorLaws
<1> QED BY <1>2, XorLaws DEF Four

(* Adding two quadruples byte by byte adds their sums.                     *)
LEMMA FourSum ==
  ASSUME NEW f \in Quad, NEW g \in Quad
  PROVE  Four(f) ## Four(g) = Four([i \in 0 .. 3 |-> f[i] ## g[i]])
<1>1. /\ f[0] \in Byte /\ f[1] \in Byte /\ f[2] \in Byte /\ f[3] \in Byte
      /\ g[0] \in Byte /\ g[1] \in Byte /\ g[2] \in Byte /\ g[3] \in Byte
  BY DEF Quad
<1>2. /\ f[0] ## f[1] \in Byte /\ f[2] ## f[3] \in Byte
      /\ g[0] ## g[1] \in Byte /\ g[2] ## g[3] \in Byte
  BY <1>1, XorLaws
<1>3. Four(f) ## Four(g) = ((f[0] ## f[1]) ## (g[0] ## g[1])) ## ((f[2] ## f[3]) ## (g[2] ## g[3]))
  BY <1>2, Interchange DEF Four
<1>4. (f[0] ## f[1]) ## (g[0] ## g[1]) = (f[0] ## g[0]) ## (f[1] ## g[1])
  BY <1>1, Interchange
<1>5. (f[2] ## f[3]) ## (g[2] ## g[3]) = (f[2] ## g[2]) ## (f[3] ## g[3])
  BY <1>1, Interchange
<1>6. Four([i \in 0 .. 3 |-> f[i] ## g[i]]) = ((f[0] ## g[0]) ## (f[1] ## g[1])) ## ((f[2] ## g[2]) ## (f[3] ## g[3]))
  BY DEF Four
<1> QED BY <1>3, <1>4, <1>5, <1>6

(* A square of bytes has the same sum by rows and by columns.              *)
LEMMA Transposed ==
  ASSUME NEW A \in [0 .. 3 -> Quad]
  PROVE  Four([r \in 0 .. 3 |-> Four(A[r])]) = Four([i \in 0 .. 3 |-> Four([r \in 0 .. 3 |-> A[r][i]])])
<1> DEFINE P == [i \in 0 .. 3 |-> A[0][i] ## A[1][i]]
           Q == [i \in 0 .. 3 |-> A[2][i] ## A[3][i]]
<1>1. A[0] \in Quad /\ A[1] \in Quad /\ A[2] \in Quad /\ A[3] \in Quad
  OBVIOUS
<1>2. \A r, i \in 0 .. 3 : A[r][i] \in Byte
  BY DEF Quad
<1>3. P \in Quad /\ Q \in Quad
  <2>1. \A i \in 0 .. 3 : A[0][i] ## A[1][i] \in Byte /\ A[2][i] ## A[3][i] \in Byte
    BY <1>2, XorLaws
  <2> QED BY <2>1 DEF Quad
<1>4. Four(A[0]) ## Four(A[1]) = Four(P) /\ Four(A[2]) ## Four(A[3]) = Four(Q)
  BY <1>1, FourSum
<1>5. Four([r \in 0 .. 3 |-> Four(A[r])]) = (Four(A[0]) ## Four(A[1])) ## (Four(A[2]) ## Four(A[3]))
  BY DEF Four
<1>6. \A i \in 0 .. 3 : P[i] ## Q[i] = Four([r \in 0 .. 3 |-> A[r][i]])
  BY DEF Four
<1> HIDE DEF P, Q
<1>7. Four(P) ## Four(Q) = Four([i \in 0 .. 3 |-> P[i] ## Q[i]])
  BY <1>3, FourSum
<1>8. [i \in 0 .. 3 |-> P[i] ## Q[i]] = [i \in 0 .. 3 |-> Four([r \in 0 .. 3 |-> A[r][i]])]
  BY <1>6, Zenon
<1> QED BY <1>4, <1>5, <1>7, <1>8, Zenon

(* The product with a sum of four bytes.                                   *)
LEMMA PolyFour ==
  ASSUME NEW c \in Byte, NEW f \in Quad
  PROVE  Poly(c, Four(f)) = Four([i \in 0 .. 3 |-> Poly(c, f[i])])
<1>1. f[0] \in Byte /\ f[1] \in Byte /\ f[2] \in Byte /\ f[3] \in Byte
  BY DEF Quad
<1>2. f[0] ## f[1] \in Byte /\ f[2] ## f[3] \in Byte
  BY <1>1, XorLaws
<1>3. Poly(c, Four(f)) = Poly(c, f[0] ## f[1]) ## Poly(c, f[2] ## f[3])
  BY <1>2, PolyLinear DEF Four
<1>4. Poly(c, f[0] ## f[1]) = Poly(c, f[0]) ## Poly(c, f[1]) /\ Poly(c, f[2] ## f[3]) = Poly(c, f[2]) ## Poly(c, f[3])
  BY <1>1, PolyLinear
<1>5. Four([i \in 0 .. 3 |-> Poly(c, f[i])]) = (Poly(c, f[0]) ## Poly(c, f[1])) ## (Poly(c, f[2]) ## Poly(c, f[3]))
  BY DEF Four
<1> QED BY <1>3, <1>4, <1>5

(* The product with a sum of four factors.                                 *)
LEMMA FourPoly ==
  ASSUME NEW q \in Quad, NEW x \in Byte
  PROVE  Four([r \in 0 .. 3 |-> Poly(q[r], x)]) = Poly(Four(q), x)
<1>1. q[0] \in Byte /\ q[1] \in Byte /\ q[2] \in Byte /\ q[3] \in Byte
  BY DEF Quad
<1>2. q[0] ## q[1] \in Byte /\ q[2] ## q[3] \in Byte
  BY <1>1, XorLaws
<1>3. Poly(Four(q), x) = Poly(q[0] ## q[1], x) ## Poly(q[2] ## q[3], x)
  BY <1>2, PolySum DEF Four
<1>4. Poly(q[0] ## q[1], x) = Poly(q[0], x) ## Poly(q[1], x) /\ Poly(q[2] ## q[3], x) = Poly(q[2], x) ## Poly(q[3], x)
  BY <1>1, PolySum
<1>5. Four([r \in 0 .. 3 |-> Poly(q[r], x)]) = (Poly(q[0], x) ## Poly(q[1], x)) ## (Poly(q[2], x) ## Poly(q[3], x))
  BY DEF Four
<1> QED BY <1>3, <1>4, <1>5

(* The factors of mix_columns and of inv_mix_columns, and their products.  *)
MixFactors == <<2, 3, 1, 1>>
UnmixFactors == <<14, 11, 13, 9>>
Product(n, m) == IF m = 1 THEN n ELSE IF m = 2 THEN 2 * n ELSE n ## (2 * n)

(* Two products in a row: the factors of inv_mix_columns after those of    *)
(* mix_columns.                                                            *)
LEMMA PolyPoly ==
  ASSUME NEW n \in {9, 11, 13, 14}, NEW m \in {1, 2, 3}, NEW x \in Byte
  PROVE  Poly(n, Poly(m, x)) = Poly(Product(n, m), x) /\ Product(n, m) \in Byte
<1>1. n \in 0 .. 15 /\ n \in Byte /\ 2 * n \in Byte /\ 1 \in 0 .. 15 /\ 1 \in Byte /\ 2 \in Byte /\ 2 * 1 = 2
  BY DEF Byte
<1>2. Doubled(x) \in Byte
  BY DoubledSum
<1>3. Poly(1, x) = x /\ Poly(2, x) = Doubled(x)
  <2>1. Poly(2 * 1, x) = Poly(1, Doubled(x))
    BY <1>1, PolyDoubled
  <2>2. Poly(1, Doubled(x)) = Doubled(x)
    BY <1>2, PolyOne
  <2> QED BY <1>1, <2>1, <2>2, PolyOne
<1>4. Poly(3, x) = x ## Doubled(x)
  <2>1. 1 ## 2 = 3
    BY DEF ##, XorByte, XorNibble, XorBit
  <2>2. Poly(1 ## 2, x) = Poly(1, x) ## Poly(2, x)
    BY <1>1, PolySum
  <2> QED BY <1>3, <2>1, <2>2
<1>5. Poly(n, Doubled(x)) = Poly(2 * n, x)
  BY <1>1, PolyDoubled
<1>6. CASE m = 1
  BY <1>1, <1>3, <1>6 DEF Product
<1>7. CASE m = 2
  BY <1>1, <1>3, <1>5, <1>7 DEF Product
<1>8. CASE m = 3
  <2>1. Poly(n, x ## Doubled(x)) = Poly(n, x) ## Poly(n, Doubled(x))
    BY <1>1, <1>2, PolyLinear
  <2>2. Poly(n ## (2 * n), x) = Poly(n, x) ## Poly(2 * n, x)
    BY <1>1, PolySum
  <2>3. n ## (2 * n) \in Byte
    BY <1>1, XorLaws
  <2> QED BY <1>4, <1>5, <1>8, <2>1, <2>2, <2>3 DEF Product
<1> QED BY <1>6, <1>7, <1>8

(* The sums of products that the matrix of inv_mix_columns times the       *)
(* matrix of mix_columns is made of.                                       *)
LEMMA Products ==
  /\ 14 ## 28 = 18 /\ 11 ## 22 = 29 /\ 13 ## 26 = 23 /\ 9 ## 18 = 27
  /\ 28 ## 11 = 23 /\ 13 ## 27 = 22 /\ 23 ## 22 = 1
  /\ 18 ## 22 = 4 /\ 13 ## 9 = 4
  /\ 14 ## 29 = 19 /\ 26 ## 9 = 19
  /\ 14 ## 11 = 5 /\ 23 ## 18 = 5
BY DEF ##, XorByte, XorNibble, XorBit

(* What the byte of row i adds to row s, through row r.                    *)
Coefficients(s, i) ==
  [r \in 0 .. 3 |-> Product(UnmixFactors[((r - s + 4) % 4) + 1], MixFactors[((i - r + 4) % 4) + 1])]

(* That matrix product is the identity.                                    *)
LEMMA Coefficient ==
  ASSUME NEW s \in 0 .. 3, NEW i \in 0 .. 3
  PROVE  Four(Coefficients(s, i)) = IF i = s THEN 1 ELSE 0
<1> DEFINE q == Coefficients(s, i)
           n(r) == UnmixFactors[((r - s + 4) % 4) + 1]
           m(r) == MixFactors[((i - r + 4) % 4) + 1]
<1>1. /\ q[0] = Product(n(0), m(0)) /\ q[1] = Product(n(1), m(1))
      /\ q[2] = Product(n(2), m(2)) /\ q[3] = Product(n(3), m(3))
  BY DEF Coefficients
<1>2. s = 0 \/ s = 1 \/ s = 2 \/ s = 3
  OBVIOUS
<1>3. i = 0 \/ i = 1 \/ i = 2 \/ i = 3
  OBVIOUS
<1>4. /\ Product(14, 1) = 14 /\ Product(14, 2) = 28 /\ Product(14, 3) = 18
      /\ Product(11, 1) = 11 /\ Product(11, 2) = 22 /\ Product(11, 3) = 29
      /\ Product(13, 1) = 13 /\ Product(13, 2) = 26 /\ Product(13, 3) = 23
      /\ Product(9, 1) = 9 /\ Product(9, 2) = 18 /\ Product(9, 3) = 27
  BY Products DEF Product
<1> HIDE DEF q
<1>5. ASSUME s = 0
      PROVE  n(0) = 14 /\ n(1) = 11 /\ n(2) = 13 /\ n(3) = 9
  BY <1>5 DEF UnmixFactors
<1>6. ASSUME s = 1
      PROVE  n(0) = 9 /\ n(1) = 14 /\ n(2) = 11 /\ n(3) = 13
  BY <1>6 DEF UnmixFactors
<1>7. ASSUME s = 2
      PROVE  n(0) = 13 /\ n(1) = 9 /\ n(2) = 14 /\ n(3) = 11
  BY <1>7 DEF UnmixFactors
<1>8. ASSUME s = 3
      PROVE  n(0) = 11 /\ n(1) = 13 /\ n(2) = 9 /\ n(3) = 14
  BY <1>8 DEF UnmixFactors
<1>9. ASSUME i = 0
      PROVE  m(0) = 2 /\ m(1) = 1 /\ m(2) = 1 /\ m(3) = 3
  BY <1>9 DEF MixFactors
<1>10. ASSUME i = 1
      PROVE  m(0) = 3 /\ m(1) = 2 /\ m(2) = 1 /\ m(3) = 1
  BY <1>10 DEF MixFactors
<1>11. ASSUME i = 2
      PROVE  m(0) = 1 /\ m(1) = 3 /\ m(2) = 2 /\ m(3) = 1
  BY <1>11 DEF MixFactors
<1>12. ASSUME i = 3
      PROVE  m(0) = 1 /\ m(1) = 1 /\ m(2) = 3 /\ m(3) = 2
  BY <1>12 DEF MixFactors
<1> HIDE DEF n, m
<1>13. Four(q) = (q[0] ## q[1]) ## (q[2] ## q[3])
  BY DEF Four
<1>14. CASE s = 0
  <2>1. CASE i = 0
    <3>1. q[0] = 28 /\ q[1] = 11 /\ q[2] = 13 /\ q[3] = 27
      BY <1>1, <1>4, <1>5, <1>9, <1>14, <2>1
    <3>2. (28 ## 11) ## (13 ## 27) = 1
      BY DEF ##, XorByte, XorNibble, XorBit
    <3> QED BY <1>13, <1>14, <2>1, <3>1, <3>2 DEF q
  <2>2. CASE i = 1
    <3>1. q[0] = 18 /\ q[1] = 22 /\ q[2] = 13 /\ q[3] = 9
      BY <1>1, <1>4, <1>5, <1>10, <1>14, <2>2
    <3>2. (18 ## 22) ## (13 ## 9) = 0
      BY DEF ##, XorByte, XorNibble, XorBit
    <3> QED BY <1>13, <1>14, <2>2, <3>1, <3>2 DEF q
  <2>3. CASE i = 2
    <3>1. q[0] = 14 /\ q[1] = 29 /\ q[2] = 26 /\ q[3] = 9
      BY <1>1, <1>4, <1>5, <1>11, <1>14, <2>3
    <3>2. (14 ## 29) ## (26 ## 9) = 0
      BY DEF ##, XorByte, XorNibble, XorBit
    <3> QED BY <1>13, <1>14, <2>3, <3>1, <3>2 DEF q
  <2>4. CASE i = 3
    <3>1. q[0] = 14 /\ q[1] = 11 /\ q[2] = 23 /\ q[3] = 18
      BY <1>1, <1>4, <1>5, <1>12, <1>14, <2>4
    <3>2. (14 ## 11) ## (23 ## 18) = 0
      BY DEF ##, XorByte, XorNibble, XorBit
    <3> QED BY <1>13, <1>14, <2>4, <3>1, <3>2 DEF q
  <2> QED BY <1>3, <2>1, <2>2, <2>3, <2>4
<1>15. CASE s = 1
  <2>1. CASE i = 0
    <3>1. q[0] = 18 /\ q[1] = 14 /\ q[2] = 11 /\ q[3] = 23
      BY <1>1, <1>4, <1>6, <1>9, <1>15, <2>1
    <3>2. (18 ## 14) ## (11 ## 23) = 0
      BY DEF ##, XorByte, XorNibble, XorBit
    <3> QED BY <1>13, <1>15, <2>1, <3>1, <3>2 DEF q
  <2>2. CASE i = 1
    <3>1. q[0] = 27 /\ q[1] = 28 /\ q[2] = 11 /\ q[3] = 13
      BY <1>1, <1>4, <1>6, <1>10, <1>15, <2>2
    <3>2. (27 ## 28) ## (11 ## 13) = 1
      BY DEF ##, XorByte, XorNibble, XorBit
    <3> QED BY <1>13, <1>15, <2>2, <3>1, <3>2 DEF q
  <2>3. CASE i = 2
    <3>1. q[0] = 9 /\ q[1] = 18 /\ q[2] = 22 /\ q[3] = 13
      BY <1>1, <1>4, <1>6, <1>11, <1>15, <2>3
    <3>2. (9 ## 18) ## (22 ## 13) = 0
      BY DEF ##, XorByte, XorNibble, XorBit
    <3> QED BY <1>13, <1>15, <2>3, <3>1, <3>2 DEF q
  <2>4. CASE i = 3
    <3>1. q[0] = 9 /\ q[1] = 14 /\ q[2] = 29 /\ q[3] = 26
      BY <1>1, <1>4, <1>6, <1>12, <1>15, <2>4
    <3>2. (9 ## 14) ## (29 ## 26) = 0
      BY DEF ##, XorByte, XorNibble, XorBit
    <3> QED BY <1>13, <1>15, <2>4, <3>1, <3>2 DEF q
  <2> QED BY <1>3, <2>1, <2>2, <2>3, <2>4
<1>16. CASE s = 2
  <2>1. CASE i = 0
    <3>1. q[0] = 26 /\ q[1] = 9 /\ q[2] = 14 /\ q[3] = 29
      BY <1>1, <1>4, <1>7, <1>9, <1>16, <2>1
    <3>2. (26 ## 9) ## (14 ## 29) = 0
      BY DEF ##, XorByte, XorNibble, XorBit
    <3> QED BY <1>13, <1>16, <2>1, <3>1, <3>2 DEF q
  <2>2. CASE i = 1
    <3>1. q[0] = 23 /\ q[1] = 18 /\ q[2] = 14 /\ q[3] = 11
      BY <1>1, <1>4, <1>7, <1>10, <1>16, <2>2
    <3>2. (23 ## 18) ## (14 ## 11) = 0
      BY DEF ##, XorByte, XorNibble, XorBit
    <3> QED BY <1>13, <1>16, <2>2, <3>1, <3>2 DEF q
  <2>3. CASE i = 2
    <3>1. q[0] = 13 /\ q[1] = 27 /\ q[2] = 28 /\ q[3] = 11
      BY <1>1, <1>4, <1>7, <1>11, <1>16, <2>3
    <3>2. (13 ## 27) ## (28 ## 11) = 1
      BY DEF ##, XorByte, XorNibble, XorBit
    <3> QED BY <1>13, <1>16, <2>3, <3>1, <3>2 DEF q
  <2>4. CASE i = 3
    <3>1. q[0] = 13 /\ q[1] = 9 /\ q[2] = 18 /\ q[3] = 22
      BY <1>1, <1>4, <1>7, <1>12, <1>16, <2>4
    <3>2. (13 ## 9) ## (18 ## 22) = 0
      BY DEF ##, XorByte, XorNibble, XorBit
    <3> QED BY <1>13, <1>16, <2>4, <3>1, <3>2 DEF q
  <2> QED BY <1>3, <2>1, <2>2, <2>3, <2>4
<1>17. CASE s = 3
  <2>1. CASE i = 0
    <3>1. q[0] = 22 /\ q[1] = 13 /\ q[2] = 9 /\ q[3] = 18
      BY <1>1, <1>4, <1>8, <1>9, <1>17, <2>1
    <3>2. (22 ## 13) ## (9 ## 18) = 0
      BY DEF ##, XorByte, XorNibble, XorBit
    <3> QED BY <1>13, <1>17, <2>1, <3>1, <3>2 DEF q
  <2>2. CASE i = 1
    <3>1. q[0] = 29 /\ q[1] = 26 /\ q[2] = 9 /\ q[3] = 14
      BY <1>1, <1>4, <1>8, <1>10, <1>17, <2>2
    <3>2. (29 ## 26) ## (9 ## 14) = 0
      BY DEF ##, XorByte, XorNibble, XorBit
    <3> QED BY <1>13, <1>17, <2>2, <3>1, <3>2 DEF q
  <2>3. CASE i = 2
    <3>1. q[0] = 11 /\ q[1] = 23 /\ q[2] = 18 /\ q[3] = 14
      BY <1>1, <1>4, <1>8, <1>11, <1>17, <2>3
    <3>2. (11 ## 23) ## (18 ## 14) = 0
      BY DEF ##, XorByte, XorNibble, XorBit
    <3> QED BY <1>13, <1>17, <2>3, <3>1, <3>2 DEF q
  <2>4. CASE i = 3
    <3>1. q[0] = 11 /\ q[1] = 13 /\ q[2] = 27 /\ q[3] = 28
      BY <1>1, <1>4, <1>8, <1>12, <1>17, <2>4
    <3>2. (11 ## 13) ## (27 ## 28) = 1
      BY DEF ##, XorByte, XorNibble, XorBit
    <3> QED BY <1>13, <1>17, <2>4, <3>1, <3>2 DEF q
  <2> QED BY <1>3, <2>1, <2>2, <2>3, <2>4
<1> QED BY <1>2, <1>14, <1>15, <1>16, <1>17

(* A block of 16 bytes.                                                    *)
Block == [1 .. 16 -> Byte]

(* What Mixed computes, by rows and columns.                               *)
LEMMA MixedIs ==
  ASSUME NEW b \in Block, NEW f \in [1 .. 4 -> {1, 2, 3, 9, 11, 13, 14}]
  PROVE  /\ Mixed(b, f) \in Block
         /\ \A r, c \in 0 .. 3 : Mixed(b, f)[4 * r + c + 1] =
              Four([i \in 0 .. 3 |-> Poly(f[((i - r + 4) % 4) + 1], b[4 * i + c + 1])])
<1> DEFINE term(r, c, i) == Times[f[((i - r + 4) % 4) + 1]][b[4 * i + c + 1]]
           poly(r, c, i) == Poly(f[((i - r + 4) % 4) + 1], b[4 * i + c + 1])
           row(n) == (n - 1) \div 4
           col(n) == (n - 1) % 4
<1>1. \A r, c, i \in 0 .. 3 : term(r, c, i) = poly(r, c, i) /\ poly(r, c, i) \in Byte
  <2> SUFFICES ASSUME NEW r \in 0 .. 3, NEW c \in 0 .. 3, NEW i \in 0 .. 3
               PROVE  term(r, c, i) = poly(r, c, i) /\ poly(r, c, i) \in Byte
    OBVIOUS
  <2>1. ((i - r + 4) % 4) + 1 \in 1 .. 4 /\ 4 * i + c + 1 \in 1 .. 16
    OBVIOUS
  <2>2. f[((i - r + 4) % 4) + 1] \in {1, 2, 3, 9, 11, 13, 14}
    BY <2>1
  <2>3. b[4 * i + c + 1] \in Byte
    BY <2>1 DEF Block
  <2>4. f[((i - r + 4) % 4) + 1] \in Byte
    BY <2>2 DEF Byte
  <2> QED BY <2>2, <2>3, <2>4, TimesIs, PolyType
<1>2. \A n \in 1 .. 16 : row(n) \in 0 .. 3 /\ col(n) \in 0 .. 3
  OBVIOUS
<1>3. \A n \in 1 .. 16 : Mixed(b, f)[n] = (term(row(n), col(n), 0) ## term(row(n), col(n), 1))
                                          ## (term(row(n), col(n), 2) ## term(row(n), col(n), 3))
  BY DEF Mixed, ##
<1>4. Mixed(b, f) = [n \in 1 .. 16 |-> Mixed(b, f)[n]]
  BY DEF Mixed
<1> HIDE DEF term, row, col
<1>5. \A r, c \in 0 .. 3 : Four([i \in 0 .. 3 |-> poly(r, c, i)]) =
                             (term(r, c, 0) ## term(r, c, 1)) ## (term(r, c, 2) ## term(r, c, 3))
  <2> HIDE DEF poly
  <2>1. \A r, c : Four([i \in 0 .. 3 |-> poly(r, c, i)]) =
                    (poly(r, c, 0) ## poly(r, c, 1)) ## (poly(r, c, 2) ## poly(r, c, 3))
    BY DEF Four
  <2> QED BY <1>1, <2>1
<1>6. \A r, c \in 0 .. 3 : Four([i \in 0 .. 3 |-> poly(r, c, i)]) \in Byte
  <2> HIDE DEF poly
  <2>1. \A r, c \in 0 .. 3 : [i \in 0 .. 3 |-> poly(r, c, i)] \in Quad
    BY <1>1 DEF Quad
  <2> QED BY <2>1, FourType
<1>7. \A n \in 1 .. 16 : Mixed(b, f)[n] = Four([i \in 0 .. 3 |-> poly(row(n), col(n), i)])
  <2> HIDE DEF poly
  <2> QED BY <1>2, <1>3, <1>5
<1>8. \A n \in 1 .. 16 : Mixed(b, f)[n] \in Byte
  <2> HIDE DEF poly
  <2> QED BY <1>2, <1>6, <1>7
<1>9. Mixed(b, f) \in Block
  BY <1>4, <1>8 DEF Block
<1>10. ASSUME NEW r \in 0 .. 3, NEW c \in 0 .. 3
       PROVE  Mixed(b, f)[4 * r + c + 1] = Four([i \in 0 .. 3 |-> poly(r, c, i)])
  <2>1. 4 * r + c + 1 \in 1 .. 16
    OBVIOUS
  <2>2. row(4 * r + c + 1) = r /\ col(4 * r + c + 1) = c
    BY DEF row, col
  <2> HIDE DEF poly
  <2> QED BY <1>7, <2>1, <2>2
<1> QED BY <1>9, <1>10

(* inv_mix_columns undoes mix_columns.                                     *)
THEOREM Unmixed ==
  ASSUME NEW b \in Block
  PROVE  mix_columns(b) \in Block /\ inv_mix_columns(b) \in Block /\ inv_mix_columns(mix_columns(b)) = b
<1>1. MixFactors \in [1 .. 4 -> {1, 2, 3, 9, 11, 13, 14}] /\ UnmixFactors \in [1 .. 4 -> {1, 2, 3, 9, 11, 13, 14}]
  BY DEF MixFactors, UnmixFactors
<1>2. \A x : mix_columns(x) = Mixed(x, MixFactors) /\ inv_mix_columns(x) = Mixed(x, UnmixFactors)
  BY DEF mix_columns, inv_mix_columns, MixFactors, UnmixFactors
<1> DEFINE y == mix_columns(b)
           z == inv_mix_columns(y)
<1>3. y \in Block
  BY <1>1, <1>2, MixedIs
<1>4. z \in Block /\ inv_mix_columns(b) \in Block
  <2> HIDE DEF y
  <2> QED BY <1>1, <1>2, <1>3, MixedIs
<1>5. ASSUME NEW s \in 0 .. 3, NEW c \in 0 .. 3
      PROVE  z[4 * s + c + 1] = b[4 * s + c + 1]
  <2> DEFINE x(i) == b[4 * i + c + 1]
             m(i, r) == MixFactors[((i - r + 4) % 4) + 1]
             n(r) == UnmixFactors[((r - s + 4) % 4) + 1]
             q(i) == Coefficients(s, i)
             A == [r \in 0 .. 3 |-> [i \in 0 .. 3 |-> Poly(q(i)[r], x(i))]]
  <2>1. \A r, i \in 0 .. 3 : /\ x(i) \in Byte /\ n(r) \in {9, 11, 13, 14} /\ m(i, r) \in {1, 2, 3}
                             /\ q(i)[r] = Product(n(r), m(i, r))
    <3> SUFFICES ASSUME NEW r \in 0 .. 3, NEW i \in 0 .. 3
                 PROVE  /\ x(i) \in Byte /\ n(r) \in {9, 11, 13, 14} /\ m(i, r) \in {1, 2, 3}
                        /\ q(i)[r] = Product(n(r), m(i, r))
      OBVIOUS
    <3>1. x(i) \in Byte
      BY DEF Block
    <3>2. ((i - r + 4) % 4) + 1 \in 1 .. 4 /\ ((r - s + 4) % 4) + 1 \in 1 .. 4
      OBVIOUS
    <3>3. n(r) \in {9, 11, 13, 14} /\ m(i, r) \in {1, 2, 3}
      BY <3>2 DEF MixFactors, UnmixFactors
    <3>4. q(i)[r] = Product(n(r), m(i, r))
      BY DEF Coefficients
    <3> QED BY <3>1, <3>3, <3>4
  <2>2. \A r \in 0 .. 3 : y[4 * r + c + 1] = Four([i \in 0 .. 3 |-> Poly(m(i, r), x(i))])
    BY <1>1, <1>2, MixedIs
  <2>3. z[4 * s + c + 1] = Four([r \in 0 .. 3 |-> Poly(n(r), y[4 * r + c + 1])])
    <3> HIDE DEF y
    <3> QED BY <1>1, <1>2, <1>3, MixedIs
  <2> HIDE DEF x, m, n, q, y, z
  <2>4. ASSUME NEW r \in 0 .. 3
        PROVE  /\ [i \in 0 .. 3 |-> Poly(m(i, r), x(i))] \in Quad
               /\ [i \in 0 .. 3 |-> Poly(n(r), Poly(m(i, r), x(i)))] = A[r]
               /\ A[r] \in Quad
    <3>1. \A i \in 0 .. 3 : /\ Poly(n(r), Poly(m(i, r), x(i))) = Poly(q(i)[r], x(i))
                            /\ q(i)[r] \in Byte
      BY <2>1, PolyPoly
    <3>2. \A i \in 0 .. 3 : Poly(q(i)[r], x(i)) \in Byte
      BY <2>1, <3>1, PolyType
    <3>3. \A i \in 0 .. 3 : m(i, r) \in Byte
      <4>1. 1 \in Byte /\ 2 \in Byte /\ 3 \in Byte
        BY DEF Byte
      <4> QED BY <2>1, <4>1
    <3>4. \A i \in 0 .. 3 : Poly(m(i, r), x(i)) \in Byte
      BY <2>1, <3>3, PolyType
    <3> QED BY <3>1, <3>2, <3>4 DEF Quad
  <2>5. \A r \in 0 .. 3 : Poly(n(r), y[4 * r + c + 1]) = Four(A[r])
    <3> SUFFICES ASSUME NEW r \in 0 .. 3
                 PROVE  Poly(n(r), y[4 * r + c + 1]) = Four(A[r])
      OBVIOUS
    <3> DEFINE f == [i \in 0 .. 3 |-> Poly(m(i, r), x(i))]
    <3>1. n(r) \in Byte
      <4>1. 9 \in Byte /\ 11 \in Byte /\ 13 \in Byte /\ 14 \in Byte
        BY DEF Byte
      <4> QED BY <2>1, <4>1
    <3>2. f \in Quad
      BY <2>4
    <3>3. [i \in 0 .. 3 |-> Poly(n(r), f[i])] = [i \in 0 .. 3 |-> Poly(n(r), Poly(m(i, r), x(i)))]
      OBVIOUS
    <3>4. y[4 * r + c + 1] = Four(f)
      BY <2>2
    <3> HIDE DEF f, A
    <3>5. Poly(n(r), Four(f)) = Four([i \in 0 .. 3 |-> Poly(n(r), f[i])])
      BY <3>1, <3>2, PolyFour
    <3> QED BY <2>4, <3>3, <3>4, <3>5
  <2>6. A \in [0 .. 3 -> Quad]
    BY <2>4
  <2>7. \A i \in 0 .. 3 : Four([r \in 0 .. 3 |-> A[r][i]]) = IF i = s THEN x(i) ELSE 0
    <3> SUFFICES ASSUME NEW i \in 0 .. 3
                 PROVE  Four([r \in 0 .. 3 |-> A[r][i]]) = IF i = s THEN x(i) ELSE 0
      OBVIOUS
    <3>1. [r \in 0 .. 3 |-> A[r][i]] = [r \in 0 .. 3 |-> Poly(q(i)[r], x(i))]
      OBVIOUS
    <3>2. q(i) \in Quad
      <4>1. \A r \in 0 .. 3 : q(i)[r] \in Byte
        BY <2>1, PolyPoly
      <4>2. q(i) = [r \in 0 .. 3 |-> q(i)[r]]
        BY DEF q, Coefficients
      <4> QED BY <4>1, <4>2 DEF Quad
    <3>3. x(i) \in Byte
      BY <2>1
    <3>4. Four([r \in 0 .. 3 |-> Poly(q(i)[r], x(i))]) = Poly(Four(q(i)), x(i))
      BY <3>2, <3>3, FourPoly
    <3>5. Four(q(i)) = IF i = s THEN 1 ELSE 0
      BY Coefficient DEF q
    <3> HIDE DEF A
    <3> QED BY <3>1, <3>3, <3>4, <3>5, PolyOne, PolyZero
  <2> DEFINE e == [i \in 0 .. 3 |-> IF i = s THEN x(i) ELSE 0]
  <2>8. z[4 * s + c + 1] = Four(e)
    <3> HIDE DEF A, e
    <3>1. [r \in 0 .. 3 |-> Poly(n(r), y[4 * r + c + 1])] = [r \in 0 .. 3 |-> Four(A[r])]
      BY <2>5, Zenon
    <3>2. [i \in 0 .. 3 |-> Four([r \in 0 .. 3 |-> A[r][i]])] = e
      BY <2>7, Zenon DEF e
    <3>3. Four([r \in 0 .. 3 |-> Four(A[r])]) = Four([i \in 0 .. 3 |-> Four([r \in 0 .. 3 |-> A[r][i]])])
      BY <2>6, Transposed
    <3> QED BY <2>3, <3>1, <3>2, <3>3
  <2>9. Four(e) = x(s)
    <3>1. /\ e[0] = IF s = 0 THEN x(s) ELSE 0
          /\ e[1] = IF s = 1 THEN x(s) ELSE 0
          /\ e[2] = IF s = 2 THEN x(s) ELSE 0
          /\ e[3] = IF s = 3 THEN x(s) ELSE 0
      OBVIOUS
    <3>2. s = 0 \/ s = 1 \/ s = 2 \/ s = 3
      OBVIOUS
    <3>3. x(s) \in Byte /\ 0 \in Byte
      BY <2>1 DEF Byte
    <3>4. x(s) ## 0 = x(s) /\ 0 ## x(s) = x(s) /\ 0 ## 0 = 0
      BY <3>3, XorLaws
    <3> HIDE DEF e
    <3> QED BY <3>1, <3>2, <3>4 DEF Four
  <2> QED BY <2>8, <2>9 DEF x
<1>6. \A k0 \in 1 .. 16 : z[k0] = b[k0]
  <2> SUFFICES ASSUME NEW k0 \in 1 .. 16 PROVE z[k0] = b[k0]
    OBVIOUS
  <2>1. (k0 - 1) \div 4 \in 0 .. 3 /\ (k0 - 1) % 4 \in 0 .. 3
    OBVIOUS
  <2>2. k0 = 4 * ((k0 - 1) \div 4) + ((k0 - 1) % 4) + 1
    OBVIOUS
  <2> HIDE DEF z
  <2> QED BY <1>5, <2>1, <2>2
<1>7. z = b
  <2> HIDE DEF z
  <2> QED BY <1>4, <1>6 DEF Block
<1> QED BY <1>3, <1>4, <1>7

(* What holds at 0 and goes on holding holds up to N.                      *)
LEMMA UpTo ==
  ASSUME NEW N \in Nat, NEW S, 0 \in S, \A n \in 1 .. N : n - 1 \in S => n \in S
  PROVE  \A n \in 0 .. N : n \in S
<1> DEFINE bad == {n \in 0 .. N : n \notin S}
<1>1. SUFFICES ASSUME bad # {} PROVE FALSE
  OBVIOUS
<1>2. bad \subseteq Nat
  OBVIOUS
<1>3. PICK n \in bad : \A m \in bad : n <= m
  <2> HIDE DEF bad
  <2> QED BY <1>1, <1>2, Least
<1>4. n \in 1 .. N /\ n - 1 \in 0 .. N /\ ~ (n <= n - 1)
  BY <1>3
<1>5. n - 1 \in S
  BY <1>3, <1>4
<1> QED BY <1>3, <1>4, <1>5

(* \o <<>> changes nothing.                                                *)
LEMMA Evaluated ==
  ASSUME NEW n \in Nat, NEW s, s = [i \in 1 .. n |-> s[i]]
  PROVE  s \o <<>> = s
<1>1. s \in Seq({s[i] : i \in 1 .. n}) /\ Len(s) = n
  OBVIOUS
<1> QED BY <1>1

(* The exclusive or of two rows of bytes.                                  *)
LEMMA XorSeqIs ==
  ASSUME NEW n \in Nat, NEW s \in [1 .. n -> Byte], NEW t, \A i \in 1 .. n : t[i] \in Byte
  PROVE  /\ XorSeq(s, t) \in [1 .. n -> Byte]
         /\ \A i \in 1 .. n : XorSeq(s, t)[i] = s[i] ## t[i]
<1> DEFINE x == [i \in 1 .. n |-> s[i] ## t[i]]
<1>1. XorSeq(s, t) = x \o <<>>
  <2>1. DOMAIN s = 1 .. n
    OBVIOUS
  <2> QED BY <2>1, Zenon DEF XorSeq, ##
<1>2. \A i \in 1 .. n : s[i] ## t[i] \in Byte
  BY XorLaws
<1>3. x = [i \in 1 .. n |-> x[i]]
  BY Zenon
<1>4. x \o <<>> = x
  <2> HIDE DEF x
  <2> QED BY <1>3, Evaluated
<1> QED BY <1>1, <1>2, <1>4

(* The exclusive or of two blocks.                                         *)
LEMMA BlockSum ==
  ASSUME NEW s \in Block, NEW t, \A i \in 1 .. 16 : t[i] \in Byte
  PROVE  XorSeq(s, t) \in Block /\ \A i \in 1 .. 16 : XorSeq(s, t)[i] = s[i] ## t[i]
<1>1. s \in [1 .. 16 -> Byte] /\ 16 \in Nat
  BY DEF Block
<1>2. XorSeq(s, t) \in [1 .. 16 -> Byte] /\ \A i \in 1 .. 16 : XorSeq(s, t)[i] = s[i] ## t[i]
  BY <1>1, XorSeqIs
<1> QED BY <1>2 DEF Block

(* Adding a row of bytes twice changes nothing.                            *)
LEMMA XorTwice ==
  ASSUME NEW a \in Byte, NEW b \in Byte
  PROVE  (a ## b) ## b = a
<1>1. (a ## b) ## b = a ## (b ## b)
  BY XorAssoc
<1> QED BY <1>1, XorLaws

(* What key_expansion makes, and the steps of a round with their inverses. *)
RoundKeys == [1 .. 240 -> Byte]

(* What SubSeq takes out of a sequence of bytes.                            *)
LEMMA Slice ==
  ASSUME NEW s, NEW a \in Int, NEW c \in Int, a <= c, \A i \in a .. c : s[i] \in Byte
  PROVE  /\ SubSeq(s, a, c) \in Seq(Byte)
         /\ Len(SubSeq(s, a, c)) = c - a + 1
         /\ \A j \in 1 .. c - a + 1 : SubSeq(s, a, c)[j] = s[a + j - 1]
<1>1. /\ SubSeq(s, a, c) \in Seq(Byte)
      /\ Len(SubSeq(s, a, c)) = IF a <= c THEN c - a + 1 ELSE 0
      /\ \A j \in 1 .. c - a + 1 : SubSeq(s, a, c)[j] = s[a + j - 1]
  <2> HIDE DEF Byte
  <2> QED BY SubSeqProperties
<1>2. Len(SubSeq(s, a, c)) = c - a + 1
  BY <1>1, Zenon
<1> QED BY <1>1, <1>2, Zenon

(* add_round_key undoes itself.                                            *)
LEMMA Added ==
  ASSUME NEW b \in Block, NEW rk \in RoundKeys, NEW r \in 0 .. 56
  PROVE  add_round_key(b, rk, r) \in Block /\ add_round_key(add_round_key(b, rk, r), rk, r) = b
<1> DEFINE key == SubSeq(rk, 4 * r + 1, 4 * r + 16)
           x == XorSeq(b, key)
           y == XorSeq(x, key)
<1>1. \A i \in 1 .. 16 : key[i] \in Byte
  <2>1. \A i \in 4 * r + 1 .. 4 * r + 16 : rk[i] \in Byte
    BY DEF RoundKeys
  <2>2. \A i \in 1 .. 16 : key[i] = rk[(4 * r + 1) + i - 1] /\ (4 * r + 1) + i - 1 \in 4 * r + 1 .. 4 * r + 16
    <3>1. (4 * r + 16) - (4 * r + 1) + 1 = 16
      OBVIOUS
    <3>2. \A i \in 1 .. (4 * r + 16) - (4 * r + 1) + 1 : key[i] = rk[(4 * r + 1) + i - 1]
      BY <2>1, SubSeqProperties
    <3> QED BY <3>1, <3>2
  <2> HIDE DEF key
  <2> QED BY <2>1, <2>2
<1> HIDE DEF key
<1>2. x \in Block /\ \A i \in 1 .. 16 : x[i] = b[i] ## key[i]
  BY <1>1, BlockSum
<1> HIDE DEF x
<1>3. y \in Block /\ \A i \in 1 .. 16 : y[i] = x[i] ## key[i]
  BY <1>1, <1>2, BlockSum
<1> HIDE DEF y
<1>4. \A i \in 1 .. 16 : b[i] \in Byte
  BY DEF Block
<1>5. \A i \in 1 .. 16 : y[i] = b[i]
  BY <1>1, <1>2, <1>3, <1>4, XorTwice
<1>6. y = b
  BY <1>3, <1>5 DEF Block
<1> QED BY <1>2, <1>6 DEF add_round_key, x, y, key

(* inv_sbox is the inverse of sbox, at each of the 256 places of the       *)
(* tables.                                                                 *)
LEMMA Boxes ==
  \A x \in 0 .. 255 : /\ sbox[x + 1] \in 0 .. 255 /\ inv_sbox[x + 1] \in 0 .. 255
                      /\ inv_sbox[sbox[x + 1] + 1] = x
BY DEF sbox, inv_sbox

(* inv_sub_bytes undoes sub_bytes.                                         *)
LEMMA Substituted ==
  ASSUME NEW b \in Block
  PROVE  sub_bytes(b) \in Block /\ inv_sub_bytes(b) \in Block /\ inv_sub_bytes(sub_bytes(b)) = b
<1>1. \A i \in 1 .. 16 : b[i] \in 0 .. 255
  BY DEF Block, Byte
<1>2. sub_bytes(b) \in Block /\ inv_sub_bytes(b) \in Block
  BY <1>1, Boxes DEF sub_bytes, inv_sub_bytes, Block, Byte
<1>3. \A i \in 1 .. 16 : inv_sub_bytes(sub_bytes(b))[i] = b[i]
  BY <1>1, Boxes DEF sub_bytes, inv_sub_bytes
<1>4. inv_sub_bytes(sub_bytes(b)) \in Block
  <2>1. \A c \in Block : \A i \in 1 .. 16 : c[i] \in 0 .. 255
    BY DEF Block, Byte
  <2> QED BY <1>2, <2>1, Boxes DEF inv_sub_bytes, Block, Byte
<1> QED BY <1>2, <1>3, <1>4 DEF Block

(* inv_shift_rows undoes shift_rows.                                       *)
LEMMA Shifted ==
  ASSUME NEW b \in Block
  PROVE  shift_rows(b) \in Block /\ inv_shift_rows(b) \in Block /\ inv_shift_rows(shift_rows(b)) = b
<1> DEFINE f == <<0, 5, 10, 15, 4, 9, 14, 3, 8, 13, 2, 7, 12, 1, 6, 11>>
           g == <<0, 13, 10, 7, 4, 1, 14, 11, 8, 5, 2, 15, 12, 9, 6, 3>>
<1>1. \A i \in 1 .. 16 : f[i] + 1 \in 1 .. 16 /\ g[i] + 1 \in 1 .. 16 /\ f[g[i] + 1] + 1 = i
  OBVIOUS
<1>2. \A x : shift_rows(x) = [i \in 1 .. 16 |-> x[f[i] + 1]] /\ inv_shift_rows(x) = [i \in 1 .. 16 |-> x[g[i] + 1]]
  BY DEF shift_rows, inv_shift_rows, Permuted
<1> HIDE DEF f, g
<1>3. \A x \in Block : shift_rows(x) \in Block /\ inv_shift_rows(x) \in Block
  BY <1>1, <1>2 DEF Block
<1>4. \A i \in 1 .. 16 : inv_shift_rows(shift_rows(b))[i] = b[i]
  BY <1>1, <1>2
<1>5. inv_shift_rows(shift_rows(b)) \in Block
  BY <1>3
<1> QED BY <1>3, <1>4, <1>5 DEF Block

(* One round on the way in and one on the way back.                        *)
Forth(b, rk, r) == add_round_key(mix_columns(shift_rows(sub_bytes(b))), rk, r)
Back(b, rk, r) == add_round_key(inv_sub_bytes(inv_shift_rows(b)), rk, r)

(* The numbers of rounds that the 60 words of round keys allow.            *)
LEMMA RoundsAre ==
  /\ Rounds \in Nat /\ Rounds - 1 \in Nat /\ Rounds \in 0 .. 56
  /\ \A r \in 0 .. Rounds - 1 : r \in 0 .. 56
BY ConstAssumption

(* Rounds make blocks of blocks.                                           *)
LEMMA RoundTypes ==
  ASSUME NEW b \in Block, NEW rk \in RoundKeys, NEW r \in 0 .. 56
  PROVE  Forth(b, rk, r) \in Block /\ Back(b, rk, r) \in Block
<1>1. sub_bytes(b) \in Block /\ inv_shift_rows(b) \in Block
  BY Substituted, Shifted
<1>2. shift_rows(sub_bytes(b)) \in Block /\ inv_sub_bytes(inv_shift_rows(b)) \in Block
  BY <1>1, Substituted, Shifted
<1>3. mix_columns(shift_rows(sub_bytes(b))) \in Block
  BY <1>2, Unmixed
<1> QED BY <1>2, <1>3, Added DEF Forth, Back

(* The loop of encrypt_block.                                              *)
LEMMA EncryptDef ==
  ASSUME NEW x \in Block, NEW rk \in RoundKeys
  PROVE  \E g : /\ g[0] = add_round_key(x, rk, 0)
                /\ \A r \in 1 .. Rounds - 1 : g[r] = Forth(g[r - 1], rk, r)
                /\ encrypt_block(x, rk) = add_round_key(shift_rows(sub_bytes(g[Rounds - 1])), rk, Rounds)
<1> DEFINE R == Rounds - 1
           x0 == add_round_key(x, rk, 0)
           step == [z \in (1 .. R) \X Block |-> Forth(z[2], rk, z[1])]
           F(g) == [r \in 0 .. R |->
                      add_round_key(IF r = 0 THEN x ELSE mix_columns(shift_rows(sub_bytes(g[r - 1]))), rk, r)]
           state == CHOOSE g : g = F(g)
<1>1. R \in Nat /\ x0 \in Block /\ \A r \in 0 .. R : r \in 0 .. 56
  BY RoundsAre, Added
<1>2. \A r \in 1 .. R : r # 0 /\ r - 1 \in 0 .. R /\ r \in 0 .. R
  BY <1>1
<1>3. step \in [(1 .. R) \X Block -> Block]
  <2>1. \A r \in 1 .. R : \A b \in Block : Forth(b, rk, r) \in Block
    BY <1>1, <1>2, RoundTypes
  <2> HIDE DEF R
  <2> QED BY <2>1
<1>4. \A r \in 1 .. R : \A b \in Block : step[<<r, b>>] = Forth(b, rk, r)
  <2> HIDE DEF R
  <2> QED OBVIOUS
<1>5. PICK g \in [0 .. R -> Block] : g[0] = x0 /\ \A r \in 1 .. R : g[r] = step[<<r, g[r - 1]>>]
  <2> HIDE DEF step, x0, R
  <2>1. \E g \in [0 .. R -> Block] : Iterates(g, R, x0, step)
    BY <1>1, <1>3, Recursion
  <2> QED BY <2>1, Zenon DEF Iterates
<1> HIDE DEF step
<1>6. \A r \in 1 .. R : g[r] = Forth(g[r - 1], rk, r)
  <2> HIDE DEF R
  <2> QED BY <1>2, <1>4, <1>5
<1>7. g = F(g)
  <2>1. \A r \in 0 .. R : r = 0 \/ r \in 1 .. R
    BY <1>1
  <2> HIDE DEF R
  <2>2. \A r \in 0 .. R : g[r] = add_round_key(IF r = 0 THEN x ELSE mix_columns(shift_rows(sub_bytes(g[r - 1]))), rk, r)
    <3> SUFFICES ASSUME NEW r \in 0 .. R
                 PROVE  g[r] = add_round_key(IF r = 0 THEN x ELSE mix_columns(shift_rows(sub_bytes(g[r - 1]))), rk, r)
      OBVIOUS
    <3>1. CASE r = 0
      BY <1>5, <3>1
    <3>2. CASE r \in 1 .. R
      BY <1>2, <1>6, <3>2 DEF Forth
    <3> QED BY <2>1, <3>1, <3>2
  <2> QED BY <1>5, <2>2, Zenon
<1>8. state = F(state)
  BY <1>7, Zenon
<1>9. encrypt_block(x, rk) = add_round_key(shift_rows(sub_bytes(state[R])), rk, Rounds)
  BY Zenon DEF encrypt_block
<1> HIDE DEF state
<1>10. state[0] = x0
  <2>1. 0 \in 0 .. R
    BY <1>1
  <2> QED BY <1>8, <2>1, Zenon
<1>11. \A r \in 1 .. R : state[r] = Forth(state[r - 1], rk, r)
  <2> HIDE DEF R
  <2> QED BY <1>2, <1>8, Zenon DEF Forth
<1> QED BY <1>9, <1>10, <1>11, Zenon

(* The loop of decrypt_block.                                              *)
LEMMA DecryptDef ==
  ASSUME NEW x \in Block, NEW rk \in RoundKeys
  PROVE  \E g : /\ g[0] = add_round_key(x, rk, Rounds)
                /\ \A n \in 1 .. Rounds - 1 : g[n] = inv_mix_columns(Back(g[n - 1], rk, Rounds - n))
                /\ decrypt_block(x, rk) = Back(g[Rounds - 1], rk, 0)
<1> DEFINE R == Rounds - 1
           x0 == add_round_key(x, rk, Rounds)
           step == [z \in (1 .. R) \X Block |-> inv_mix_columns(Back(z[2], rk, Rounds - z[1]))]
           F(g) == [n \in 0 .. R |->
                      IF n = 0 THEN add_round_key(x, rk, Rounds)
                      ELSE inv_mix_columns(add_round_key(inv_sub_bytes(inv_shift_rows(g[n - 1])), rk, Rounds - n))]
           state == CHOOSE g : g = F(g)
<1>1. R \in Nat /\ x0 \in Block
  BY RoundsAre, Added
<1>2. \A n \in 1 .. R : n # 0 /\ n - 1 \in 0 .. R /\ n \in 0 .. R /\ Rounds - n \in 0 .. 56
  BY RoundsAre
<1>3. step \in [(1 .. R) \X Block -> Block]
  <2>1. \A n \in 1 .. R : \A b \in Block : Back(b, rk, Rounds - n) \in Block
    BY <1>2, RoundTypes
  <2>2. \A n \in 1 .. R : \A b \in Block : inv_mix_columns(Back(b, rk, Rounds - n)) \in Block
    BY <2>1, Unmixed
  <2> HIDE DEF R
  <2> QED BY <2>2
<1>4. \A n \in 1 .. R : \A b \in Block : step[<<n, b>>] = inv_mix_columns(Back(b, rk, Rounds - n))
  <2> HIDE DEF R
  <2> QED OBVIOUS
<1>5. PICK g \in [0 .. R -> Block] : g[0] = x0 /\ \A n \in 1 .. R : g[n] = step[<<n, g[n - 1]>>]
  <2> HIDE DEF step, x0, R
  <2>1. \E g \in [0 .. R -> Block] : Iterates(g, R, x0, step)
    BY <1>1, <1>3, Recursion
  <2> QED BY <2>1, Zenon DEF Iterates
<1> HIDE DEF step
<1>6. \A n \in 1 .. R : g[n] = inv_mix_columns(Back(g[n - 1], rk, Rounds - n))
  <2> HIDE DEF R
  <2> QED BY <1>2, <1>4, <1>5
<1>7. g = F(g)
  <2>1. \A n \in 0 .. R : n = 0 \/ n \in 1 .. R
    BY <1>1
  <2> HIDE DEF R
  <2>2. \A n \in 0 .. R : g[n] = IF n = 0 THEN x0 ELSE inv_mix_columns(Back(g[n - 1], rk, Rounds - n))
    BY <1>2, <1>5, <1>6, <2>1
  <2> QED BY <1>5, <2>2, Zenon DEF Back
<1>8. state = F(state)
  BY <1>7, Zenon
<1>9. decrypt_block(x, rk) = Back(state[R], rk, 0)
  BY Zenon DEF decrypt_block, Back
<1> HIDE DEF state
<1>10. state[0] = x0
  <2>1. 0 \in 0 .. R
    BY <1>1
  <2> QED BY <1>8, <2>1, Zenon
<1>11. \A n \in 1 .. R : state[n] = inv_mix_columns(Back(state[n - 1], rk, Rounds - n))
  <2> HIDE DEF R
  <2> QED BY <1>2, <1>8, Zenon DEF Back
<1> QED BY <1>9, <1>10, <1>11, Zenon

(* decrypt_block undoes encrypt_block.                                     *)
THEOREM Decrypted ==
  ASSUME NEW x \in Block, NEW rk \in RoundKeys
  PROVE  encrypt_block(x, rk) \in Block /\ decrypt_block(encrypt_block(x, rk), rk) = x
<1> DEFINE R == Rounds - 1
           c == encrypt_block(x, rk)
           mid(b) == shift_rows(sub_bytes(b))
<1>1. PICK e : /\ e[0] = add_round_key(x, rk, 0)
               /\ \A r \in 1 .. R : e[r] = Forth(e[r - 1], rk, r)
               /\ c = add_round_key(mid(e[R]), rk, Rounds)
  BY EncryptDef
<1>2. R \in Nat /\ Rounds \in 0 .. 56 /\ \A r \in 0 .. R : r \in 0 .. 56
  BY RoundsAre
<1>3. \A r \in 0 .. R : e[r] \in Block
  <2> DEFINE S == {r \in 0 .. R : e[r] \in Block}
  <2> HIDE DEF R
  <2>1. 0 \in S
    <3>1. 0 \in 0 .. 56 /\ 0 \in 0 .. R
      BY <1>2
    <3> QED BY <1>1, <3>1, Added
  <2>2. ASSUME NEW r \in 1 .. R, r - 1 \in S PROVE r \in S
    <3>1. r \in 0 .. R /\ r \in 0 .. 56 /\ e[r - 1] \in Block
      BY <1>2, <2>2
    <3>2. e[r] = Forth(e[r - 1], rk, r)
      BY <1>1
    <3>3. Forth(e[r - 1], rk, r) \in Block
      BY <3>1, RoundTypes
    <3> QED BY <3>1, <3>2, <3>3
  <2>3. \A r \in 0 .. R : r \in S
    <3> HIDE DEF S
    <3> QED BY <1>2, <2>1, <2>2, UpTo
  <2> QED BY <2>3
<1>4. \A b \in Block : mid(b) \in Block
  BY Substituted, Shifted
<1>5. \A b \in Block : inv_sub_bytes(inv_shift_rows(mid(b))) = b
  BY Substituted, Shifted
<1>6. R \in 0 .. R /\ 0 \in 0 .. R
  BY <1>2
<1>7. c \in Block
  <2>1. mid(e[R]) \in Block
    BY <1>3, <1>4, <1>6
  <2> HIDE DEF mid, c
  <2> QED BY <1>1, <1>2, <2>1, Added
<1> HIDE DEF c
<1>8. PICK d : /\ d[0] = add_round_key(c, rk, Rounds)
               /\ \A n \in 1 .. R : d[n] = inv_mix_columns(Back(d[n - 1], rk, Rounds - n))
               /\ decrypt_block(c, rk) = Back(d[R], rk, 0)
  BY <1>7, DecryptDef
<1> HIDE DEF mid
<1>9. \A n \in 0 .. R : d[n] = mid(e[R - n])
  <2> DEFINE S == {n \in 0 .. R : d[n] = mid(e[R - n])}
  <2>1. 0 \in S
    <3>1. mid(e[R]) \in Block
      BY <1>3, <1>4, <1>6
    <3>2. d[0] = mid(e[R])
      <4> HIDE DEF R
      <4> QED BY <1>1, <1>2, <1>8, <3>1, Added
    <3>3. R - 0 = R
      BY <1>2
    <3> QED BY <1>6, <3>2, <3>3
  <2>2. ASSUME NEW n \in 1 .. R, n - 1 \in S PROVE n \in S
    <3> DEFINE r == R - n
    <3>1. /\ n \in 0 .. R /\ r \in 0 .. R /\ r + 1 \in 1 .. R /\ r + 1 \in 0 .. R
          /\ R - (n - 1) = r + 1 /\ (r + 1) - 1 = r /\ Rounds - n = r + 1
      BY <1>2
    <3>2. d[n - 1] = mid(e[r + 1])
      BY <2>2, <3>1
    <3> HIDE DEF R, r
    <3>3. e[r + 1] \in Block /\ e[r] \in Block /\ r + 1 \in 0 .. 56
      BY <1>2, <1>3, <3>1
    <3>4. inv_sub_bytes(inv_shift_rows(d[n - 1])) = e[r + 1]
      BY <1>5, <3>2, <3>3
    <3>5. e[r + 1] = add_round_key(mix_columns(mid(e[r])), rk, r + 1)
      BY <1>1, <3>1 DEF Forth, mid
    <3>6. mid(e[r]) \in Block /\ mix_columns(mid(e[r])) \in Block
      BY <1>4, <3>3, Unmixed
    <3>7. Back(d[n - 1], rk, r + 1) = mix_columns(mid(e[r]))
      <4>1. Back(d[n - 1], rk, r + 1) = add_round_key(e[r + 1], rk, r + 1)
        BY <3>4, Zenon DEF Back
      <4>2. add_round_key(add_round_key(mix_columns(mid(e[r])), rk, r + 1), rk, r + 1) = mix_columns(mid(e[r]))
        BY <3>3, <3>6, Added
      <4> QED BY <3>5, <4>1, <4>2, Zenon
    <3>8. d[n] = mid(e[r])
      BY <1>8, <3>1, <3>6, <3>7, Unmixed
    <3> QED BY <3>1, <3>8 DEF r
  <2>3. \A n \in 0 .. R : n \in S
    <3> HIDE DEF S, R
    <3> QED BY <1>2, <2>1, <2>2, UpTo
  <2> QED BY <2>3
<1>10. d[R] = mid(e[0])
  <2>1. R - R = 0
    BY <1>2
  <2> HIDE DEF R
  <2> QED BY <1>6, <1>9, <2>1
<1>11. e[0] \in Block /\ e[0] = add_round_key(x, rk, 0)
  BY <1>1, <1>3, <1>6
<1>12. Back(d[R], rk, 0) = x
  <2>1. inv_sub_bytes(inv_shift_rows(d[R])) = e[0]
    BY <1>5, <1>10, <1>11
  <2> HIDE DEF R
  <2> QED BY <1>11, <2>1, Added DEF Back
<1> QED BY <1>7, <1>8, <1>12 DEF c

-----------------------------------------------------------------------------
(* Parts of 4 or 16 bytes, one after the other.                            *)
LEMMA JoinedIs ==
  ASSUME NEW n \in {4, 16}, NEW parts, Len(parts) \in Nat,
         \A q \in 1 .. Len(parts) : \A j \in 1 .. n : parts[q][j] \in Byte
  PROVE  /\ Joined(parts, n) \in [1 .. n * Len(parts) -> Byte]
         /\ \A q \in 1 .. Len(parts) : \A j \in 1 .. n : Joined(parts, n)[n * (q - 1) + j] = parts[q][j]
<1> DEFINE L == Len(parts)
           x == [i \in 1 .. n * L |-> parts[(i - 1) \div n + 1][((i - 1) % n) + 1]]
<1>1. n * L \in Nat
  OBVIOUS
<1>2. x = [i \in 1 .. n * L |-> x[i]]
  BY Zenon
<1>3. Joined(parts, n) = x
  <2>1. Joined(parts, n) = x \o <<>>
    BY Zenon DEF Joined
  <2> HIDE DEF x
  <2> QED BY <1>1, <1>2, <2>1, Evaluated
<1>4. \A i \in 1 .. n * L : (i - 1) \div n + 1 \in 1 .. L /\ ((i - 1) % n) + 1 \in 1 .. n
  <2> HIDE DEF x
  <2>1. CASE n = 4
    BY <2>1
  <2>2. CASE n = 16
    BY <2>2
  <2> QED BY <2>1, <2>2
<1>5. \A i \in 1 .. n * L : x[i] \in Byte
  BY <1>4
<1>6. x \in [1 .. n * L -> Byte]
  <2> HIDE DEF x
  <2> QED BY <1>2, <1>5
<1>7. ASSUME NEW q \in 1 .. L, NEW j \in 1 .. n
      PROVE  x[n * (q - 1) + j] = parts[q][j]
  <2> DEFINE i == n * (q - 1) + j
  <2>1. i \in 1 .. n * L /\ (i - 1) \div n + 1 = q /\ ((i - 1) % n) + 1 = j
    <3>1. CASE n = 4
      BY <3>1
    <3>2. CASE n = 16
      <4>1. q \in Int /\ q - 1 \in Nat /\ q <= L /\ j - 1 \in 0 .. 15
        BY <3>2
      <4> DEFINE a == q - 1
                 c == j - 1
      <4>2. a \in Nat /\ c \in 0 .. 15 /\ q = a + 1 /\ j = c + 1 /\ a + 1 <= L /\ L \in Nat
        BY <4>1, <3>2
      <4>3. i = 16 * a + c + 1
        BY <3>2, <4>2
      <4> HIDE DEF a, c, i, x
      <4>4. (16 * a + c) \div 16 = a /\ (16 * a + c) % 16 = c
        BY <4>2
      <4>5. i - 1 = 16 * a + c
        BY <4>2, <4>3
      <4>6. i \in 1 .. 16 * L
        BY <4>2, <4>3
      <4> QED BY <3>2, <4>2, <4>4, <4>5, <4>6
    <3> QED BY <3>1, <3>2
  <2> HIDE DEF i
  <2>2. x[i] = parts[(i - 1) \div n + 1][((i - 1) % n) + 1]
    BY <2>1
  <2> QED BY <2>1, <2>2 DEF i
<1> QED BY <1>3, <1>6, <1>7

(* Words of the key schedule, and keys.                                    *)
Word == [1 .. 4 -> Byte]
Key == [1 .. 32 -> Byte]

(* Feedback makes words of words: rcon is read at 1 to 7 only.             *)
LEMMA FeedbackType ==
  ASSUME NEW i \in 8 .. 59, NEW w \in Word
  PROVE  \A j \in 1 .. 4 : Feedback(i, w)[j] \in Byte
<1>1. \A v \in Word : sub_word(v) \in Word
  <2>1. \A v \in Word : \A j \in 1 .. 4 : v[j] \in 0 .. 255
    BY DEF Word, Byte
  <2> QED BY <2>1, Boxes DEF Word, Byte, sub_word
<1>2. rot_word(w) \in Word
  <2>1. w[1] \in Byte /\ w[2] \in Byte /\ w[3] \in Byte /\ w[4] \in Byte
    BY DEF Word
  <2> HIDE DEF Byte
  <2> QED BY <2>1 DEF Word, rot_word
<1>3. \A j \in 1 .. 4 : <<rcon[i \div 8], 0, 0, 0>>[j] \in Byte
  <2>1. i \div 8 \in 1 .. 7
    OBVIOUS
  <2>2. rcon[i \div 8] \in Byte /\ 0 \in Byte
    BY <2>1 DEF rcon, Byte
  <2> QED BY <2>2
<1>4. sub_word(rot_word(w)) \in Word /\ sub_word(w) \in Word
  BY <1>1, <1>2
<1>5. XorSeq(sub_word(rot_word(w)), <<rcon[i \div 8], 0, 0, 0>>) \in Word
  <2> DEFINE s == sub_word(rot_word(w))
             t == <<rcon[i \div 8], 0, 0, 0>>
  <2>1. s \in [1 .. 4 -> Byte] /\ 4 \in Nat
    BY <1>4 DEF Word
  <2> HIDE DEF s, t
  <2>2. XorSeq(s, t) \in [1 .. 4 -> Byte]
    BY <1>3, <2>1, XorSeqIs DEF t
  <2> QED BY <2>2 DEF s, t, Word
<1>6. Feedback(i, w) \in Word
  BY <1>4, <1>5 DEF Feedback
<1> QED BY <1>6 DEF Word

(* One more word of the key schedule, and that it is one.                  *)
Grown(w, n) == Append(w, XorSeq(w[n], Feedback(n + 7, w[n + 7])))
Schedule(n) == {w \in Seq(Word) : Len(w) = n + 8}

(* A turn of the loop of key_expansion adds a word and changes none.       *)
LEMMA GrownIs ==
  ASSUME NEW n \in 1 .. 52, NEW w \in Schedule(n - 1)
  PROVE  Grown(w, n) \in Schedule(n) /\ \A i \in 1 .. 8 : Grown(w, n)[i] = w[i]
<1>1. w \in Seq(Word) /\ Len(w) = n + 7
  BY DEF Schedule
<1>2. w[n] \in Word /\ w[n + 7] \in Word /\ n + 7 \in 8 .. 59
  BY <1>1
<1> DEFINE s == w[n]
           t == Feedback(n + 7, w[n + 7])
<1>3. s \in [1 .. 4 -> Byte] /\ 4 \in Nat /\ \A j \in 1 .. 4 : t[j] \in Byte
  <2>1. \A j \in 1 .. 4 : t[j] \in Byte
    BY <1>2, FeedbackType
  <2> QED BY <1>2, <2>1 DEF Word
<1> HIDE DEF s, t
<1>4. XorSeq(s, t) \in Word
  BY <1>3, XorSeqIs DEF Word
<1>5. Grown(w, n) = Append(w, XorSeq(s, t))
  BY Zenon DEF Grown, s, t
<1>6. /\ Append(w, XorSeq(s, t)) \in Seq(Word) /\ Len(Append(w, XorSeq(s, t))) = Len(w) + 1
      /\ \A i \in 1 .. Len(w) : Append(w, XorSeq(s, t))[i] = w[i]
  BY <1>1, <1>4, AppendProperties
<1>7. n + 7 + 1 = n + 8 /\ \A i \in 1 .. 8 : i \in 1 .. n + 7
  OBVIOUS
<1> QED BY <1>1, <1>5, <1>6, <1>7 DEF Schedule

(* A row is a sequence.                                                    *)
LEMMA RowIsSeq ==
  ASSUME NEW n \in Nat, NEW T, NEW s \in [1 .. n -> T]
  PROVE  s \in Seq(T) /\ Len(s) = n
OBVIOUS

(* The first eight words are the key's.                                    *)
LEMMA StartIs ==
  ASSUME NEW key \in Key
  PROVE  /\ [i \in 1 .. 8 |-> SubSeq(key, 4 * i - 3, 4 * i)] \in Schedule(0)
         /\ \A i \in 1 .. 8 : \A j \in 1 .. 4 : SubSeq(key, 4 * i - 3, 4 * i)[j] = key[4 * (i - 1) + j]
<1>1. ASSUME NEW i \in 1 .. 8
      PROVE  /\ SubSeq(key, 4 * i - 3, 4 * i) \in Word
             /\ \A j \in 1 .. 4 : SubSeq(key, 4 * i - 3, 4 * i)[j] = key[4 * (i - 1) + j]
  <2> DEFINE a == 4 * i - 3
             c == 4 * i
  <2>1. a \in Int /\ c \in Int /\ a <= c /\ c - a + 1 = 4 /\ \A j \in 1 .. 4 : a + j - 1 = 4 * (i - 1) + j
    OBVIOUS
  <2>2. \A j \in a .. c : key[j] \in Byte
    BY DEF Key
  <2> HIDE DEF a, c
  <2>3. /\ SubSeq(key, a, c) \in Seq(Byte) /\ Len(SubSeq(key, a, c)) = 4
        /\ \A j \in 1 .. 4 : SubSeq(key, a, c)[j] = key[a + j - 1]
    <3>1. a \in Int /\ c \in Int /\ a <= c /\ c - a + 1 = 4
      BY <2>1, Zenon
    <3>2. /\ SubSeq(key, a, c) \in Seq(Byte) /\ Len(SubSeq(key, a, c)) = c - a + 1
          /\ \A j \in 1 .. c - a + 1 : SubSeq(key, a, c)[j] = key[a + j - 1]
      BY <2>2, <3>1, Slice, Zenon
    <3> QED BY <3>1, <3>2, Zenon
  <2>4. SubSeq(key, a, c) \in Word
    BY <2>3, LenProperties, Zenon DEF Word
  <2> QED BY <2>1, <2>3, <2>4 DEF a, c
<1>2. [i \in 1 .. 8 |-> SubSeq(key, 4 * i - 3, 4 * i)] \in Schedule(0)
  <2> DEFINE s == [i \in 1 .. 8 |-> SubSeq(key, 4 * i - 3, 4 * i)]
  <2>1. s \in [1 .. 8 -> Word]
    BY <1>1
  <2> HIDE DEF s
  <2>2. s \in Seq(Word) /\ Len(s) = 8
    BY <2>1, RowIsSeq
  <2> QED BY <2>2 DEF s, Schedule
<1> QED BY <1>1, <1>2

(* The loop of key_expansion.                                              *)
LEMMA ExpansionDef ==
  ASSUME NEW key \in Key
  PROVE  \E w \in Schedule(52) :
           /\ key_expansion(key) = Joined(w, 4)
           /\ \A i \in 1 .. 8 : w[i] = SubSeq(key, 4 * i - 3, 4 * i)
<1> DEFINE T == Seq(Word)
           x0 == [i \in 1 .. 8 |-> SubSeq(key, 4 * i - 3, 4 * i)]
           step == [z \in (1 .. 52) \X T |-> IF z[2] \in Schedule(z[1] - 1) THEN Grown(z[2], z[1]) ELSE z[2]]
           F(g) == [n \in 0 .. 52 |->
                      IF n = 0 THEN [i \in 1 .. 8 |-> SubSeq(key, 4 * i - 3, 4 * i)]
                      ELSE LET w == g[n - 1]
                           IN  Append(w, XorSeq(w[n], Feedback(n + 7, w[n + 7])))]
           words == CHOOSE g : g = F(g)
<1>1. x0 \in Schedule(0) /\ x0 \in T
  BY StartIs DEF Schedule
<1> HIDE DEF x0
<1>2. \A n \in 1 .. 52 : n # 0 /\ n - 1 \in 0 .. 52 /\ n \in 0 .. 52
  OBVIOUS
<1>3. \A n \in 0 .. 52 : \A w \in Schedule(n) : w \in T
  BY DEF Schedule
<1> HIDE DEF T
<1>4. step \in [(1 .. 52) \X T -> T]
  <2>1. \A n \in 1 .. 52 : \A w \in T : (IF w \in Schedule(n - 1) THEN Grown(w, n) ELSE w) \in T
    BY <1>2, <1>3, GrownIs
  <2> QED BY <2>1
<1>5. \A n \in 1 .. 52 : \A w \in T : w \in Schedule(n - 1) => step[<<n, w>>] = Grown(w, n)
  OBVIOUS
<1>6. PICK g \in [0 .. 52 -> T] : g[0] = x0 /\ \A n \in 1 .. 52 : g[n] = step[<<n, g[n - 1]>>]
  <2> HIDE DEF step
  <2>1. \E g \in [0 .. 52 -> T] : Iterates(g, 52, x0, step)
    BY <1>1, <1>4, Recursion
  <2> QED BY <2>1, Zenon DEF Iterates
<1> HIDE DEF step
<1>7. \A n \in 0 .. 52 : g[n] \in Schedule(n)
  <2> DEFINE S == {n \in 0 .. 52 : g[n] \in Schedule(n)}
  <2>1. 0 \in S
    BY <1>1, <1>6
  <2>2. ASSUME NEW n \in 1 .. 52, n - 1 \in S PROVE n \in S
    <3>1. g[n - 1] \in Schedule(n - 1) /\ g[n - 1] \in T
      BY <1>2, <1>6, <2>2
    <3>2. g[n] = Grown(g[n - 1], n)
      BY <1>5, <1>6, <3>1
    <3> QED BY <1>2, <3>1, <3>2, GrownIs
  <2>3. \A n \in 0 .. 52 : n \in S
    <3> HIDE DEF S
    <3> QED BY <2>1, <2>2, UpTo
  <2> QED BY <2>3
<1>8. \A n \in 1 .. 52 : g[n] = Grown(g[n - 1], n)
  BY <1>2, <1>3, <1>5, <1>6, <1>7
<1>9. g = F(g)
  <2>1. \A n \in 0 .. 52 : n = 0 \/ n \in 1 .. 52
    OBVIOUS
  <2>2. \A n \in 0 .. 52 : g[n] = IF n = 0 THEN x0 ELSE Grown(g[n - 1], n)
    BY <1>2, <1>6, <1>8, <2>1
  <2> QED BY <1>6, <2>2, Zenon DEF Grown, x0
<1>10. words = F(words)
  BY <1>9, Zenon
<1>11. key_expansion(key) = Joined(words[52], 4)
  BY Zenon DEF key_expansion
<1> HIDE DEF words
<1>12. words[0] = x0
  <2>1. 0 \in 0 .. 52
    OBVIOUS
  <2> QED BY <1>10, <2>1, Zenon DEF x0
<1>13. \A n \in 1 .. 52 : words[n] = Grown(words[n - 1], n)
  BY <1>2, <1>10, Zenon DEF Grown
<1>14. \A n \in 0 .. 52 : words[n] \in Schedule(n) /\ \A i \in 1 .. 8 : words[n][i] = x0[i]
  <2> DEFINE S == {n \in 0 .. 52 : words[n] \in Schedule(n) /\ \A i \in 1 .. 8 : words[n][i] = x0[i]}
  <2>1. 0 \in S
    BY <1>1, <1>12
  <2>2. ASSUME NEW n \in 1 .. 52, n - 1 \in S PROVE n \in S
    <3>1. words[n - 1] \in Schedule(n - 1) /\ \A i \in 1 .. 8 : words[n - 1][i] = x0[i]
      BY <2>2
    <3>2. words[n] \in Schedule(n) /\ \A i \in 1 .. 8 : words[n][i] = words[n - 1][i]
      BY <1>13, <3>1, GrownIs
    <3> QED BY <1>2, <3>1, <3>2
  <2>3. \A n \in 0 .. 52 : n \in S
    <3> HIDE DEF S
    <3> QED BY <2>1, <2>2, UpTo
  <2> QED BY <2>3
<1>15. 52 \in 0 .. 52 /\ \A i \in 1 .. 8 : x0[i] = SubSeq(key, 4 * i - 3, 4 * i)
  BY DEF x0
<1> HIDE DEF x0
<1>16. words[52] \in Schedule(52) /\ \A i \in 1 .. 8 : words[52][i] = x0[i]
  BY <1>14, <1>15, Zenon
<1>17. \A i \in 1 .. 8 : words[52][i] = SubSeq(key, 4 * i - 3, 4 * i)
  BY <1>15, <1>16
<1> QED BY <1>11, <1>16, <1>17, Zenon

(* key_expansion fills its array, and begins with the key itself.          *)
LEMMA ExpansionIs ==
  ASSUME NEW key \in Key
  PROVE  /\ key_expansion(key) \in RoundKeys
         /\ \A i \in 1 .. 32 : key_expansion(key)[i] = key[i]
<1>1. PICK w \in Schedule(52) : /\ key_expansion(key) = Joined(w, 4)
                                /\ \A i \in 1 .. 8 : w[i] = SubSeq(key, 4 * i - 3, 4 * i)
  BY ExpansionDef
<1>2. Len(w) = 60 /\ Len(w) \in Nat /\ 4 * Len(w) = 240 /\ \A q \in 1 .. Len(w) : \A j \in 1 .. 4 : w[q][j] \in Byte
  <2>1. w \in Seq(Word) /\ Len(w) = 60
    BY DEF Schedule
  <2>2. \A q \in 1 .. Len(w) : w[q] \in Word
    BY <2>1, ElementOfSeq
  <2>3. \A v \in Word : \A j \in 1 .. 4 : v[j] \in Byte
    BY DEF Word
  <2>4. \A q \in 1 .. Len(w) : \A j \in 1 .. 4 : w[q][j] \in Byte
    BY <2>2, <2>3
  <2> QED BY <2>1, <2>4
<1>3. /\ Joined(w, 4) \in [1 .. 4 * Len(w) -> Byte]
      /\ \A q \in 1 .. Len(w) : \A j \in 1 .. 4 : Joined(w, 4)[4 * (q - 1) + j] = w[q][j]
  <2>1. 4 \in {4, 16}
    OBVIOUS
  <2>2. Len(w) \in Nat
    BY <1>2
  <2>3. \A q \in 1 .. Len(w) : \A j \in 1 .. 4 : w[q][j] \in Byte
    BY <1>2
  <2> QED BY <2>1, <2>2, <2>3, JoinedIs
<1>4. ASSUME NEW i \in 1 .. 32 PROVE Joined(w, 4)[i] = key[i]
  <2> DEFINE q == (i - 1) \div 4 + 1
             j == ((i - 1) % 4) + 1
  <2>1. q \in 1 .. 8 /\ j \in 1 .. 4 /\ i = 4 * (q - 1) + j
    OBVIOUS
  <2> HIDE DEF q, j
  <2>2. q \in 1 .. Len(w)
    BY <1>2, <2>1
  <2>3. Joined(w, 4)[4 * (q - 1) + j] = w[q][j]
    BY <1>3, <2>1, <2>2
  <2>4. w[q][j] = key[4 * (q - 1) + j]
    <3>1. w[q] = SubSeq(key, 4 * q - 3, 4 * q)
      BY <1>1, <2>1, Zenon
    <3>2. SubSeq(key, 4 * q - 3, 4 * q)[j] = key[4 * (q - 1) + j]
      BY <2>1, StartIs, Zenon
    <3> QED BY <3>1, <3>2, Zenon
  <2> QED BY <2>1, <2>3, <2>4, Zenon
<1>5. Joined(w, 4) \in RoundKeys
  <2>1. 4 * Len(w) = 240
    BY <1>2
  <2> QED BY <1>3, <2>1, Zenon DEF RoundKeys
<1> QED BY <1>1, <1>4, <1>5, Zenon

-----------------------------------------------------------------------------
(* memcmp puts different addresses in one order.                           *)
Address == [1 .. 6 -> Byte]

(* Of two different addresses one comes before the other, and not both.    *)
LEMMA BeforeIs ==
  ASSUME NEW a \in Address, NEW b \in Address, a # b
  PROVE  Before(a, b) <=> ~ Before(b, a)
<1> DEFINE differ == {i \in 1 .. 6 : a[i] # b[i]}
<1>1. differ \subseteq Nat /\ differ # {}
  BY DEF Address
<1>2. PICK i \in differ : \A j \in differ : i <= j
  <2> HIDE DEF differ
  <2> QED BY <1>1, Least
<1>3. i \in 1 .. 6 /\ a[i] # b[i] /\ \A j \in 1 .. i - 1 : a[j] = b[j]
  BY <1>2
<1>4. \A n \in 1 .. 6 : a[n] \in Int /\ b[n] \in Int
  BY DEF Address, Byte
<1>5. a[i] < b[i] \/ b[i] < a[i]
  BY <1>3, <1>4
<1>6. \A n \in 1 .. 6 : (\A j \in 1 .. n - 1 : a[j] = b[j]) /\ a[n] # b[n] => n = i
  <2> SUFFICES ASSUME NEW n \in 1 .. 6, \A j \in 1 .. n - 1 : a[j] = b[j], a[n] # b[n]
               PROVE  n = i
    OBVIOUS
  <2>1. ~ (i \in 1 .. n - 1) /\ ~ (n \in 1 .. i - 1)
    BY <1>3
  <2> QED BY <1>3, <2>1
<1>7. Before(a, b) <=> a[i] < b[i]
  <2>1. ASSUME Before(a, b) PROVE a[i] < b[i]
    <3>1. PICK n \in 1 .. 6 : a[n] < b[n] /\ \A j \in 1 .. n - 1 : a[j] = b[j]
      BY <2>1 DEF Before
    <3>2. a[n] # b[n]
      BY <1>4, <3>1
    <3> QED BY <1>6, <3>1, <3>2
  <2> QED BY <1>3, <2>1 DEF Before
<1>8. Before(b, a) <=> b[i] < a[i]
  <2>1. ASSUME Before(b, a) PROVE b[i] < a[i]
    <3>1. PICK n \in 1 .. 6 : b[n] < a[n] /\ \A j \in 1 .. n - 1 : b[j] = a[j]
      BY <2>1 DEF Before
    <3>2. a[n] # b[n]
      BY <1>4, <3>1
    <3>3. \A j \in 1 .. n - 1 : a[j] = b[j]
      BY <3>1
    <3> QED BY <1>6, <3>1, <3>2, <3>3
  <2>2. \A j \in 1 .. i - 1 : b[j] = a[j]
    BY <1>3
  <2> QED BY <1>3, <2>1, <2>2 DEF Before
<1>9. a[i] \in Int /\ b[i] \in Int
  BY <1>3, <1>4
<1> QED BY <1>5, <1>7, <1>8, <1>9

(* So a pair is ordered in one way, whoever asks.                          *)
LEMMA OrderedIs ==
  ASSUME NEW a \in Address, NEW b \in Address, a # b
  PROVE  /\ Ordered(a, b) = Ordered(b, a)
         /\ Ordered(a, b) = <<a, b>> \/ Ordered(a, b) = <<b, a>>
BY BeforeIs DEF Ordered

(* Two pairs are ordered alike only if they are the same.                  *)
LEMMA SamePair ==
  ASSUME NEW a \in Address, NEW b \in Address, a # b,
         NEW c \in Address, NEW d \in Address, c # d
  PROVE  Ordered(a, b) = Ordered(c, d) <=> {a, b} = {c, d}
<1>1. \/ Ordered(a, b) = <<a, b>>
      \/ Ordered(a, b) = <<b, a>>
  BY OrderedIs
<1>2. \/ Ordered(c, d) = <<c, d>>
      \/ Ordered(c, d) = <<d, c>>
  BY OrderedIs
<1>3. ASSUME Ordered(a, b) = Ordered(c, d) PROVE {a, b} = {c, d}
  BY <1>1, <1>2, <1>3
<1>4. ASSUME {a, b} = {c, d} PROVE Ordered(a, b) = Ordered(c, d)
  <2>1. (a = c /\ b = d) \/ (a = d /\ b = c)
    BY <1>4
  <2>2. Ordered(c, d) = Ordered(d, c)
    BY OrderedIs
  <2> QED BY <2>1, <2>2
<1> QED BY <1>3, <1>4

(* Each byte of a pair's key comes from one byte of the pair and gives it  *)
(* back: adding a constant, and times 17 modulo 256, lose nothing.         *)
LEMMA XorCancels ==
  ASSUME NEW a \in Byte, NEW b \in Byte, NEW c \in Byte, a ## c = b ## c
  PROVE  a = b
BY XorTwice

(* What derive_pair_key does to the byte at i, and where that comes from.  *)
Seventeen(u, i) == (u * 17 + i - 1) % 256

(* 17 is odd: multiplying by it modulo 256 loses nothing.                  *)
LEMMA TimesSeventeen ==
  ASSUME NEW p \in 0 .. 255, NEW q \in 0 .. 255, NEW i \in 1 .. 32,
         Seventeen(p, i) = Seventeen(q, i)
  PROVE  p = q
<1> DEFINE k1 == (p * 17 + i - 1) \div 256
           k2 == (q * 17 + i - 1) \div 256
<1>1. k1 \in Int /\ k2 \in Int /\ p * 17 - q * 17 = 256 * (k1 - k2)
  BY DEF Seventeen
<1> HIDE DEF k1, k2
<1>2. p - q = 256 * (241 * (k1 - k2) - 16 * (p - q))
  BY <1>1
<1> DEFINE e == 241 * (k1 - k2) - 16 * (p - q)
<1>3. e \in Int /\ p - q = 256 * e
  BY <1>1, <1>2
<1> HIDE DEF e
<1> QED BY <1>3

Scrambled(u, i) == XorByte(Seventeen(u, i), 165)
FromPair(o, i) == IF i \in 1 .. 6 THEN o[1][i] ELSE IF i \in 17 .. 22 THEN o[2][i - 16] ELSE 0

(* derive_key makes bytes.                                                 *)
LEMMA DerivedType == \A i \in 1 .. 32 : derive_key[i] \in Byte
<1> SUFFICES ASSUME NEW i \in 1 .. 32 PROVE derive_key[i] \in Byte
  OBVIOUS
<1> DEFINE L == Len(Passphrase)
           j == ((i - 1) % L) + 1
<1>1. Passphrase \in Seq(Byte) /\ L \in Nat \ {0}
  <2>1. Passphrase \in Seq(Byte) /\ Passphrase # <<>>
    BY ConstAssumption
  <2> QED BY <2>1, EmptySeq
<1>2. j \in 1 .. L
  <2> HIDE DEF L
  <2> QED BY <1>1
<1>3. Passphrase[j] \in Byte
  <2> HIDE DEF j
  <2> QED BY <1>1, <1>2, ElementOfSeq
<1>4. derive_key[i] = XorByte((Passphrase[j] * 31 + i - 1) % 256, 90)
  BY DEF derive_key
<1> HIDE DEF j, L
<1>5. (Passphrase[j] * 31 + i - 1) % 256 \in Byte /\ 90 \in Byte
  BY <1>3 DEF Byte
<1>6. derive_key[i] = ((Passphrase[j] * 31 + i - 1) % 256) ## 90
  BY <1>4 DEF ##
<1> QED BY <1>5, <1>6, XorLaws

(* A byte of a pair's key gives back the byte of the pair it comes from.   *)
LEMMA ScrambledIs ==
  ASSUME NEW i \in 1 .. 32, NEW x \in Byte, NEW y \in Byte
  PROVE  /\ Scrambled(derive_key[i] ## x, i) \in Byte
         /\ Scrambled(derive_key[i] ## x, i) = Scrambled(derive_key[i] ## y, i) => x = y
<1> DEFINE u == derive_key[i] ## x
           v == derive_key[i] ## y
<1>1. derive_key[i] \in Byte
  BY DerivedType
<1>2. u \in Byte /\ v \in Byte
  BY <1>1, XorLaws
<1> DEFINE m(w) == Seventeen(w, i)
<1>3. m(u) \in Byte /\ m(v) \in Byte /\ 165 \in Byte
  <2> HIDE DEF u, v
  <2> QED BY <1>2 DEF Byte, Seventeen
<1>4. Scrambled(u, i) = m(u) ## 165 /\ Scrambled(v, i) = m(v) ## 165
  BY DEF Scrambled, ##
<1>5. Scrambled(u, i) \in Byte
  BY <1>3, <1>4, XorLaws
<1>6. ASSUME Scrambled(u, i) = Scrambled(v, i) PROVE x = y
  <2>1. m(u) = m(v)
    <3> HIDE DEF m
    <3> QED BY <1>3, <1>4, <1>6, XorCancels
  <2>2. u = v
    <3> HIDE DEF u, v
    <3>1. u \in 0 .. 255 /\ v \in 0 .. 255
      BY <1>2 DEF Byte
    <3> QED BY <2>1, <3>1, TimesSeventeen
  <2>3. x ## derive_key[i] = y ## derive_key[i]
    BY <1>1, <2>2, XorLaws
  <2> QED BY <1>1, <2>3, XorCancels
<1> QED BY <1>5, <1>6

(* The bytes of derive_pair_key, one by one.                               *)
LEMMA PairKeyIs ==
  ASSUME NEW a \in Address, NEW b \in Address, a # b
  PROVE  /\ derive_pair_key(a, b) \in Key
         /\ \A i \in 1 .. 32 :
              derive_pair_key(a, b)[i] = Scrambled(derive_key[i] ## FromPair(Ordered(a, b), i), i)
         /\ \A i \in 1 .. 32 : FromPair(Ordered(a, b), i) \in Byte
<1> DEFINE o == Ordered(a, b)
<1>1. o[1] \in Address /\ o[2] \in Address
  BY OrderedIs
<1>2. \A i \in 1 .. 32 : FromPair(o, i) \in Byte
  <2>1. \A j \in 1 .. 6 : o[1][j] \in Byte /\ o[2][j] \in Byte
    BY <1>1 DEF Address
  <2>2. \A i \in 17 .. 22 : i - 16 \in 1 .. 6
    OBVIOUS
  <2>3. 0 \in Byte
    BY DEF Byte
  <2> HIDE DEF o
  <2> QED BY <2>1, <2>2, <2>3 DEF FromPair
<1>3. \A i \in 1 .. 32 : derive_pair_key(a, b)[i] = Scrambled(derive_key[i] ## FromPair(o, i), i)
  <2> SUFFICES ASSUME NEW i \in 1 .. 32
               PROVE  derive_pair_key(a, b)[i] = Scrambled(derive_key[i] ## FromPair(o, i), i)
    OBVIOUS
  <2> DEFINE mix == CASE i \in 1 .. 6 -> Ordered(a, b)[1][i]
                      [] i \in 17 .. 22 -> Ordered(a, b)[2][i - 16]
                      [] OTHER -> 0
  <2>1. derive_pair_key(a, b)[i] = XorByte((XorByte(derive_key[i], mix) * 17 + i - 1) % 256, 165)
    BY DEF derive_pair_key
  <2>2. mix = FromPair(o, i)
    <3>1. CASE i \in 1 .. 6
      <4>1. ~ (i \in 17 .. 22)
        BY <3>1
      <4> QED BY <3>1, <4>1 DEF FromPair
    <3>2. CASE i \in 17 .. 22
      <4>1. ~ (i \in 1 .. 6)
        BY <3>2
      <4> QED BY <3>2, <4>1 DEF FromPair
    <3>3. CASE i \notin 1 .. 6 /\ i \notin 17 .. 22
      BY <3>3 DEF FromPair
    <3> QED BY <3>1, <3>2, <3>3
  <2> HIDE DEF mix, o
  <2> QED BY <2>1, <2>2 DEF Scrambled, Seventeen, ##
<1>4. \A i \in 1 .. 32 : Scrambled(derive_key[i] ## FromPair(o, i), i) \in Byte
  <2> HIDE DEF o
  <2> QED BY <1>2, ScrambledIs
<1>5. derive_pair_key(a, b) = [i \in 1 .. 32 |-> derive_pair_key(a, b)[i]]
  BY DEF derive_pair_key
<1>6. derive_pair_key(a, b) \in Key
  <2> HIDE DEF o
  <2> QED BY <1>3, <1>4, <1>5 DEF Key
<1> QED BY <1>2, <1>3, <1>6

(* The round keys of two pairs are the same only if the pairs are.         *)
THEOREM KeysDiffer ==
  ASSUME NEW a \in Address, NEW b \in Address, a # b,
         NEW c \in Address, NEW d \in Address, c # d
  PROVE  key_expansion(derive_pair_key(a, b)) = key_expansion(derive_pair_key(c, d)) <=> {a, b} = {c, d}
<1> DEFINE x == derive_pair_key(a, b)
           y == derive_pair_key(c, d)
           o == Ordered(a, b)
           p == Ordered(c, d)
<1>1. /\ x \in Key /\ y \in Key
      /\ \A i \in 1 .. 32 : /\ x[i] = Scrambled(derive_key[i] ## FromPair(o, i), i) /\ FromPair(o, i) \in Byte
                            /\ y[i] = Scrambled(derive_key[i] ## FromPair(p, i), i) /\ FromPair(p, i) \in Byte
  BY PairKeyIs
<1>2. ASSUME {a, b} = {c, d} PROVE x = y
  <2>1. o = p
    BY <1>2, SamePair
  <2> HIDE DEF o, p, x, y
  <2> QED BY <1>1, <2>1 DEF Key
<1>3. ASSUME key_expansion(x) = key_expansion(y) PROVE {a, b} = {c, d}
  <2> HIDE DEF x, y
  <2>1. \A i \in 1 .. 32 : x[i] = y[i]
    BY <1>1, <1>3, ExpansionIs
  <2>2. \A i \in 1 .. 32 : FromPair(o, i) = FromPair(p, i)
    <3> HIDE DEF o, p
    <3> SUFFICES ASSUME NEW i \in 1 .. 32 PROVE FromPair(o, i) = FromPair(p, i)
      OBVIOUS
    <3>1. /\ FromPair(o, i) \in Byte /\ FromPair(p, i) \in Byte
          /\ Scrambled(derive_key[i] ## FromPair(o, i), i) = Scrambled(derive_key[i] ## FromPair(p, i), i)
      BY <1>1, <2>1
    <3> QED BY <3>1, ScrambledIs, Zenon
  <2>3. o[1] \in Address /\ o[2] \in Address /\ p[1] \in Address /\ p[2] \in Address /\ o = <<o[1], o[2]>> /\ p = <<p[1], p[2]>>
    BY OrderedIs
  <2>4. o = p
    <3> HIDE DEF o, p
    <3>1. \A j \in 1 .. 6 : o[1][j] = p[1][j]
      <4>1. \A j \in 1 .. 6 : j \in 1 .. 32
        OBVIOUS
      <4> QED BY <2>2, <4>1 DEF FromPair
    <3>2. \A j \in 1 .. 6 : o[2][j] = p[2][j]
      <4>1. \A j \in 1 .. 6 : j + 16 \in 1 .. 32 /\ j + 16 \in 17 .. 22 /\ j + 16 \notin 1 .. 6 /\ (j + 16) - 16 = j
        OBVIOUS
      <4> QED BY <2>2, <4>1 DEF FromPair
    <3>3. o[1] = p[1] /\ o[2] = p[2]
      BY <2>3, <3>1, <3>2 DEF Address
    <3> QED BY <2>3, <3>3
  <2> QED BY <2>4, SamePair
<1> QED BY <1>2, <1>3

-----------------------------------------------------------------------------
(* The lengths of a line that is not empty and fits pad_data's 1024 bytes. *)
LineLen == 1 .. 1023

(* The padded length is the next multiple of the block size; for a text of *)
(* a line the buffer's size does not cut it short.                         *)
LEMMA PaddedIs ==
  ASSUME NEW len \in LineLen
  PROVE  /\ PaddedLen(len) = 16 * ((len + 16) \div 16)
         /\ PaddedLen(len) - len \in 1 .. 16
         /\ (len + 16) \div 16 \in 1 .. 64
<1> DEFINE p == ((len + BlockSize) \div BlockSize) * BlockSize
<1>1. (len + 16) \div 16 \in 1 .. 64 /\ p = 16 * ((len + 16) \div 16) /\ p - len \in 1 .. 16
  BY DEF BlockSize, LineLen
<1>2. p \in Int /\ p <= MaxOut /\ MaxOut \in Int
  BY <1>1 DEF MaxOut
<1> HIDE DEF p
<1>3. PaddedLen(len) = Min({p, MaxOut})
  BY Zenon DEF PaddedLen, p
<1>4. Min({p, MaxOut}) = p
  BY <1>2 DEF Min
<1> QED BY <1>1, <1>3, <1>4

(* pad_data keeps the text, and ends with the number of bytes added.       *)
LEMMA PadIs ==
  ASSUME NEW len \in LineLen, NEW m \in [1 .. len -> Byte]
  PROVE  /\ pad_data(m) \in [1 .. PaddedLen(len) -> Byte]
         /\ \A i \in 1 .. len : pad_data(m)[i] = m[i]
         /\ pad_data(m)[PaddedLen(len)] = PaddedLen(len) - len
<1> DEFINE P == PaddedLen(len)
           r == [i \in 1 .. P - len |-> P - len]
<1>1. len \in Nat /\ P \in Nat /\ P - len \in 1 .. 16
  <2>1. PaddedLen(len) - len \in 1 .. 16 /\ PaddedLen(len) = 16 * ((len + 16) \div 16) /\ (len + 16) \div 16 \in 1 .. 64
    BY PaddedIs, Zenon
  <2> HIDE DEF P
  <2>2. P - len \in 1 .. 16 /\ P \in Int /\ len \in Int
    BY <2>1 DEF P, LineLen
  <2> QED BY <2>2 DEF LineLen
<1> HIDE DEF P
<1>2. m \in Seq(Byte) /\ Len(m) = len
  BY <1>1, RowIsSeq
<1>3. r \in Seq(Byte) /\ Len(r) = P - len
  <2>1. P - len \in Byte /\ P - len \in Nat
    BY <1>1 DEF Byte
  <2>2. r \in [1 .. P - len -> Byte]
    BY <2>1
  <2> HIDE DEF r
  <2> QED BY <2>1, <2>2, RowIsSeq
<1>4. pad_data(m) = m \o r
  BY <1>2 DEF pad_data, P
<1>5. r[P - len] = P - len
  BY <1>1
<1> HIDE DEF r
<1>6. /\ m \o r \in Seq(Byte) /\ Len(m \o r) = Len(m) + Len(r)
      /\ \A i \in 1 .. Len(m) + Len(r) : (m \o r)[i] = IF i <= Len(m) THEN m[i] ELSE r[i - Len(m)]
  BY <1>2, <1>3, ConcatProperties
<1>7. Len(m) + Len(r) = P
  BY <1>1, <1>2, <1>3
<1>8. m \o r \in [1 .. P -> Byte]
  BY <1>6, <1>7, LenProperties
<1>9. \A i \in 1 .. len : (m \o r)[i] = m[i]
  BY <1>1, <1>2, <1>6, <1>7
<1>10. (m \o r)[P] = P - len
  BY <1>1, <1>2, <1>5, <1>6, <1>7
<1> QED BY <1>4, <1>8, <1>9, <1>10 DEF P

(* unpad_data undoes pad_data.                                             *)
THEOREM Unpadded ==
  ASSUME NEW len \in LineLen, NEW m \in [1 .. len -> Byte]
  PROVE  unpad_data(pad_data(m)) = m
<1> DEFINE P == PaddedLen(len)
           s == pad_data(m)
<1>1. len \in Nat /\ P \in Nat /\ P - len \in 1 .. 16
  <2>1. PaddedLen(len) - len \in 1 .. 16 /\ PaddedLen(len) = 16 * ((len + 16) \div 16) /\ (len + 16) \div 16 \in 1 .. 64
    BY PaddedIs, Zenon
  <2> HIDE DEF P
  <2>2. P - len \in 1 .. 16 /\ P \in Int /\ len \in Int
    BY <2>1 DEF P, LineLen
  <2> QED BY <2>2 DEF LineLen
<1>2. s \in [1 .. P -> Byte] /\ (\A i \in 1 .. len : s[i] = m[i]) /\ s[P] = P - len
  BY PadIs, Zenon
<1> HIDE DEF P, s
<1>3. s \in Seq(Byte) /\ Len(s) = P
  BY <1>1, <1>2, RowIsSeq
<1>4. Last(s) = P - len
  BY <1>2, <1>3 DEF Last
<1>5. unpad_data(s) = SubSeq(s, 1, len)
  <2>1. P - (P - len) = len
    BY <1>1
  <2> QED BY <1>1, <1>3, <1>4, <2>1 DEF unpad_data, BlockSize
<1>6. \A i \in 1 .. len : s[i] \in Byte
  BY <1>1, <1>2
<1>7. /\ SubSeq(s, 1, len) \in Seq(Byte) /\ Len(SubSeq(s, 1, len)) = len
      /\ \A i \in 1 .. len : SubSeq(s, 1, len)[i] = s[i]
  <2>1. 1 \in Int /\ len \in Int /\ 1 <= len /\ len - 1 + 1 = len /\ \A i \in 1 .. len : 1 + i - 1 = i
    BY DEF LineLen
  <2>2. /\ SubSeq(s, 1, len) \in Seq(Byte)
        /\ Len(SubSeq(s, 1, len)) = len - 1 + 1
        /\ \A i \in 1 .. len - 1 + 1 : SubSeq(s, 1, len)[i] = s[1 + i - 1]
    BY <1>6, <2>1, Slice
  <2> QED BY <2>1, <2>2
<1>8. SubSeq(s, 1, len) \in [1 .. len -> Byte]
  BY <1>7, LenProperties
<1>9. SubSeq(s, 1, len) = m
  <2> DEFINE t == SubSeq(s, 1, len)
  <2>1. t \in [1 .. len -> Byte] /\ \A i \in 1 .. len : t[i] = m[i]
    BY <1>2, <1>7, <1>8
  <2> HIDE DEF t
  <2>2. t = m
    BY <1>1, <2>1
  <2> QED BY <2>2 DEF t
<1> QED BY <1>5, <1>9 DEF s

(* Cutting into blocks, and joining them again.                            *)
LEMMA BlocksAre ==
  ASSUME NEW L \in Nat, NEW s \in [1 .. 16 * L -> Byte]
  PROVE  /\ Blocks(s) \in [1 .. L -> Block]
         /\ Joined(Blocks(s), 16) = s
<1>1. Len(s) = 16 * L /\ Len(s) \div 16 = L
  <2>1. 16 * L \in Nat
    OBVIOUS
  <2>2. Len(s) = 16 * L
    BY <2>1, RowIsSeq
  <2> QED BY <2>2
<1> DEFINE B == [n \in 1 .. L |-> SubSeq(s, 16 * (n - 1) + 1, 16 * n)]
<1>2. Blocks(s) = B
  BY <1>1 DEF Blocks, BlockSize
<1>3. ASSUME NEW n \in 1 .. L
      PROVE  SubSeq(s, 16 * (n - 1) + 1, 16 * n) \in Block
             /\ \A j \in 1 .. 16 : SubSeq(s, 16 * (n - 1) + 1, 16 * n)[j] = s[16 * (n - 1) + j]
  <2> DEFINE a == 16 * (n - 1) + 1
             c == 16 * n
  <2>1. /\ a \in Int /\ c \in Int /\ a <= c /\ c - a + 1 = 16 /\ \A j \in 1 .. 16 : a + j - 1 = 16 * (n - 1) + j
        /\ \A j \in a .. c : j \in 1 .. 16 * L
    OBVIOUS
  <2> HIDE DEF a, c
  <2>2. \A j \in a .. c : s[j] \in Byte
    BY <2>1
  <2>3. /\ SubSeq(s, a, c) \in Seq(Byte) /\ Len(SubSeq(s, a, c)) = 16
        /\ \A j \in 1 .. 16 : SubSeq(s, a, c)[j] = s[a + j - 1]
    <3>1. a \in Int /\ c \in Int /\ a <= c
      BY <2>1, Zenon
    <3>2. /\ SubSeq(s, a, c) \in Seq(Byte) /\ Len(SubSeq(s, a, c)) = c - a + 1
          /\ \A j \in 1 .. c - a + 1 : SubSeq(s, a, c)[j] = s[a + j - 1]
      BY <2>2, <3>1, Slice, Zenon
    <3>3. c - a + 1 = 16
      BY <2>1, Zenon
    <3> QED BY <3>2, <3>3, Zenon
  <2>4. SubSeq(s, a, c) \in Block
    BY <2>3, LenProperties, Zenon DEF Block
  <2>5. \A j \in 1 .. 16 : SubSeq(s, a, c)[j] = s[16 * (n - 1) + j]
    <3>1. \A j \in 1 .. 16 : a + j - 1 = 16 * (n - 1) + j
      BY <2>1
    <3> SUFFICES ASSUME NEW j \in 1 .. 16 PROVE SubSeq(s, a, c)[j] = s[16 * (n - 1) + j]
      OBVIOUS
    <3>2. SubSeq(s, a, c)[j] = s[a + j - 1]
      BY <2>3
    <3> QED BY <3>1, <3>2, Zenon
  <2> QED BY <2>4, <2>5 DEF a, c
<1>4. B \in [1 .. L -> Block]
  BY <1>3
<1>5. \A n \in 1 .. L : \A j \in 1 .. 16 : B[n][j] = s[16 * (n - 1) + j]
  BY <1>3
<1> HIDE DEF B
<1>6. Len(B) = L
  BY <1>4, RowIsSeq
<1>7. \A n \in 1 .. Len(B) : \A j \in 1 .. 16 : B[n][j] \in Byte
  <2>1. \A b \in Block : \A j \in 1 .. 16 : b[j] \in Byte
    BY DEF Block
  <2> QED BY <1>4, <1>6, <2>1
<1>8. 16 \in {4, 16} /\ Len(B) \in Nat
  BY <1>6
<1>9. /\ Joined(B, 16) \in [1 .. 16 * Len(B) -> Byte]
      /\ \A n \in 1 .. Len(B) : \A j \in 1 .. 16 : Joined(B, 16)[16 * (n - 1) + j] = B[n][j]
  BY <1>7, <1>8, JoinedIs, Zenon
<1>10. \A n \in 1 .. L : \A j \in 1 .. 16 : Joined(B, 16)[16 * (n - 1) + j] = s[16 * (n - 1) + j]
  <2> SUFFICES ASSUME NEW n \in 1 .. L, NEW j \in 1 .. 16
               PROVE  Joined(B, 16)[16 * (n - 1) + j] = s[16 * (n - 1) + j]
    OBVIOUS
  <2>1. B[n][j] = s[16 * (n - 1) + j]
    BY <1>5, Zenon
  <2>2. Joined(B, 16)[16 * (n - 1) + j] = B[n][j]
    BY <1>6, <1>9, Zenon
  <2> QED BY <2>1, <2>2, Zenon
<1> DEFINE x == Joined(B, 16)
<1>11. ASSUME NEW i \in 1 .. 16 * L PROVE x[i] = s[i]
  <2> DEFINE n == (i - 1) \div 16 + 1
             j == ((i - 1) % 16) + 1
  <2>1. n \in 1 .. L /\ j \in 1 .. 16 /\ 16 * (n - 1) + j = i
    <3> HIDE DEF x
    <3> QED OBVIOUS
  <2> HIDE DEF n, j
  <2> QED BY <1>10, <2>1
<1> HIDE DEF x
<1>12. x = s
  <2>1. x \in [1 .. 16 * L -> Byte]
    BY <1>6, <1>9, Zenon DEF x
  <2> QED BY <1>11, <2>1
<1> QED BY <1>2, <1>4, <1>12 DEF x

(* The blocks that encrypt_cbc is given.                                   *)
Plain(j) == Blocks(pad_data(Text(j)))
Size(j) == (j.len + 16) \div 16

(* Padding, cutting into blocks, joining and unpadding give the text back. *)
LEMMA PlainIs ==
  ASSUME NEW j, j.len \in LineLen, j.stride \in Nat
  PROVE  /\ Size(j) \in Nat \ {0} /\ Plain(j) \in [1 .. Size(j) -> Block]
         /\ unpad_data(Joined(Plain(j), BlockSize)) = Text(j)
<1> DEFINE m == Text(j)
           L == Size(j)
<1>1. m \in [1 .. j.len -> Byte]
  <2>1. \A i \in 1 .. j.len : (i * j.stride) % 256 \in Byte
    <3> SUFFICES ASSUME NEW i \in 1 .. j.len PROVE (i * j.stride) % 256 \in Byte
      OBVIOUS
    <3> DEFINE z == i * j.stride
    <3>1. z \in Nat
      OBVIOUS
    <3> HIDE DEF z
    <3>2. z % 256 \in Byte
      BY <3>1 DEF Byte
    <3> QED BY <3>2 DEF z
  <2> QED BY <2>1 DEF Text
<1> HIDE DEF m
<1>2. L \in 1 .. 64 /\ PaddedLen(j.len) = 16 * L
  BY PaddedIs, Zenon DEF Size
<1>3. pad_data(m) \in [1 .. 16 * L -> Byte]
  <2> HIDE DEF L
  <2>1. pad_data(m) \in [1 .. PaddedLen(j.len) -> Byte]
    BY <1>1, PadIs, Zenon
  <2> QED BY <1>2, <2>1, Zenon
<1>4. L \in Nat \ {0}
  BY <1>2
<1> HIDE DEF L
<1>5. Blocks(pad_data(m)) \in [1 .. L -> Block] /\ Joined(Blocks(pad_data(m)), 16) = pad_data(m)
  <2>1. L \in Nat
    BY <1>4
  <2> QED BY <1>3, <2>1, BlocksAre, Zenon
<1>6. unpad_data(pad_data(m)) = m
  BY <1>1, Unpadded, Zenon
<1> QED BY <1>4, <1>5, <1>6 DEF Plain, BlockSize, m, L

-----------------------------------------------------------------------------
(* The invariant.                                                          *)

(* The round keys of a pair.                                               *)
PairKeys(a, b) == key_expansion(derive_pair_key(a, b))

(* The caches hold round keys of other nodes, those of the pair.           *)
Caches(pcs) ==
  /\ pcs = [a \in Node |-> pcs[a]]
  /\ \A a \in Node : \A b \in DOMAIN pcs[a] : b \in Node /\ b # a /\ pcs[a][b] = PairKeys(a, b)

Job == [from : Node, to : Node, len : Lens, stride : Strides, iv : Ivs]

(* The message on its way, and its blocks.                                 *)
JobTyped ==
  /\ pc \in {"idle", "encrypt", "receive", "decrypt", "shown", "failed"}
  /\ pc # "idle" => job \in Job /\ job.from # job.to /\ (pc = "failed" <=> NoRoom(job.len))
  /\ pc \in {"encrypt", "receive", "decrypt"} => data \in [1 .. Size(job) -> Block]
  /\ pc \in {"encrypt", "decrypt"} => k \in 1 .. Size(job) /\ prev \in Block

(* What decrypt_block makes of block c, and of the chain up to block n.    *)
Opened(c) == decrypt_block(c, PairKeys(job.from, job.to))
Prior(n) == IF n = 1 THEN job.iv ELSE data[n - 1]
Sealed(n) == XorSeq(Opened(data[n]), Prior(n)) = Plain(job)[n]

(* The blocks before k are encrypted, each chained to the one before it.   *)
Encrypting ==
  pc = "encrypt" =>
    /\ job.to \in DOMAIN pair_ciphers[job.from]
    /\ prev = Prior(k)
    /\ \A n \in 1 .. Size(job) : IF n < k THEN Sealed(n) ELSE data[n] = Plain(job)[n]

(* All of it is encrypted.                                                 *)
InTransit == pc = "receive" => \A n \in 1 .. Size(job) : Sealed(n)

(* The blocks before k are decrypted; prev keeps the one that stood there. *)
Decrypting ==
  pc = "decrypt" =>
    /\ job.from \in DOMAIN pair_ciphers[job.to]
    /\ \A n \in 1 .. Size(job) :
         IF n < k THEN data[n] = Plain(job)[n]
         ELSE XorSeq(Opened(data[n]), IF n = k THEN prev ELSE data[n - 1]) = Plain(job)[n]

IInv == Caches(pair_ciphers) /\ JobTyped /\ Encrypting /\ InTransit /\ Decrypting /\ RoundTrip

(* What the assumptions say of the members of the constants.               *)
LEMMA NodesAre ==
  /\ \A a \in Node : a \in Address
  /\ \A iv \in Ivs : iv \in Block
  /\ \A l \in Lens : l \in LineLen
  /\ \A s \in Strides : s \in Nat
BY ConstAssumption DEF Address, Block, LineLen

(* The two nodes of a pair derive the same round keys; another pair        *)
(* derives others.                                                         *)
LEMMA PairKeysAre ==
  ASSUME NEW a \in Node, NEW b \in Node, a # b
  PROVE  /\ PairKeys(a, b) \in RoundKeys /\ PairKeys(a, b) = PairKeys(b, a)
         /\ \A c, d \in Node : c # d => (PairKeys(a, b) = PairKeys(c, d) <=> {a, b} = {c, d})
<1>1. \A n \in Node : n \in Address
  BY NodesAre
<1>2. derive_pair_key(a, b) \in Key
  BY <1>1, PairKeyIs
<1>3. PairKeys(a, b) \in RoundKeys
  BY <1>2, ExpansionIs DEF PairKeys
<1>4. \A c, d \in Node : c # d => (PairKeys(a, b) = PairKeys(c, d) <=> {a, b} = {c, d})
  BY <1>1, KeysDiffer DEF PairKeys
<1>5. PairKeys(a, b) = PairKeys(b, a)
  <2>1. {a, b} = {b, a}
    OBVIOUS
  <2> QED BY <1>4, <2>1
<1> QED BY <1>3, <1>4, <1>5

(* get_pair_cipher fills the cache of the node that calls it.              *)
LEMMA Cached ==
  ASSUME NEW my \in Node, NEW their \in Node, my # their, Caches(pair_ciphers)
  PROVE  /\ Caches(get_pair_cipher(my, their))
         /\ their \in DOMAIN get_pair_cipher(my, their)[my]
<1> DEFINE new == get_pair_cipher(my, their)
           old == pair_ciphers[my]
           add == [b \in DOMAIN old \cup {their} |->
                     IF b \in DOMAIN old THEN old[b] ELSE key_expansion(derive_pair_key(my, their))]
<1>1. CASE their \in DOMAIN pair_ciphers[my]
  BY <1>1 DEF get_pair_cipher
<1>2. CASE their \notin DOMAIN pair_ciphers[my]
  <2>1. new = [pair_ciphers EXCEPT ![my] = add]
    BY <1>2, Zenon DEF get_pair_cipher
  <2>2. /\ DOMAIN add = (DOMAIN pair_ciphers[my]) \cup {their}
        /\ add[their] = PairKeys(my, their)
        /\ \A b \in DOMAIN pair_ciphers[my] : add[b] = pair_ciphers[my][b]
    BY <1>2 DEF PairKeys
  <2> HIDE DEF add, new
  <2>3. new = [a \in Node |-> IF a = my THEN add ELSE pair_ciphers[a]]
    BY <2>1 DEF Caches
  <2>4. new = [a \in Node |-> new[a]]
    BY <2>3
  <2>5. ASSUME NEW a \in Node, NEW b \in DOMAIN new[a]
        PROVE  b \in Node /\ b # a /\ new[a][b] = PairKeys(a, b)
    <3>1. CASE a = my
      <4>1. new[a] = add
        BY <2>3, <3>1
      <4>2. CASE b = their
        BY <2>2, <3>1, <4>1, <4>2
      <4>3. CASE b # their
        <5>1. b \in DOMAIN pair_ciphers[my]
          BY <2>2, <4>1, <4>3
        <5> QED BY <2>2, <3>1, <4>1, <5>1 DEF Caches
      <4> QED BY <4>2, <4>3
    <3>2. CASE a # my
      <4>1. new[a] = pair_ciphers[a]
        BY <2>3, <3>2
      <4> QED BY <4>1 DEF Caches
    <3> QED BY <3>1, <3>2
  <2>6. new[my] = add
    BY <2>3
  <2>7. Caches(new)
    BY <2>4, <2>5 DEF Caches
  <2> QED BY <2>2, <2>6, <2>7 DEF new
<1> QED BY <1>1, <1>2

-----------------------------------------------------------------------------
(* What holds of a job on its way.                                         *)
LEMMA JobIs ==
  ASSUME IInv, pc # "idle"
  PROVE  /\ job.from \in Node /\ job.to \in Node /\ job.from # job.to
         /\ job.len \in LineLen /\ job.stride \in Nat /\ job.iv \in Block
         /\ PairKeys(job.from, job.to) \in RoundKeys
         /\ PairKeys(job.to, job.from) = PairKeys(job.from, job.to)
         /\ Size(job) \in Nat \ {0} /\ Plain(job) \in [1 .. Size(job) -> Block]
<1>1. job \in Job /\ job.from # job.to
  BY DEF IInv, JobTyped
<1>2. /\ job.from \in Node /\ job.to \in Node
      /\ job.len \in LineLen /\ job.stride \in Nat /\ job.iv \in Block
  BY <1>1, NodesAre DEF Job
<1>3. PairKeys(job.from, job.to) \in RoundKeys /\ PairKeys(job.to, job.from) = PairKeys(job.from, job.to)
  BY <1>1, <1>2, PairKeysAre
<1>4. Size(job) \in Nat \ {0} /\ Plain(job) \in [1 .. Size(job) -> Block]
  BY <1>2, PlainIs
<1> QED BY <1>1, <1>2, <1>3, <1>4

(* The invariant holds at the start.                                       *)
LEMMA InitInv == ASSUME Init PROVE IInv
<1>1. Caches(pair_ciphers)
  <2>1. \A a \in Node : DOMAIN pair_ciphers[a] = {}
    BY DEF Init
  <2>2. pair_ciphers = [a \in Node |-> pair_ciphers[a]]
    BY DEF Init
  <2> QED BY <2>1, <2>2 DEF Caches
<1> QED BY <1>1 DEF Init, IInv, JobTyped, Encrypting, InTransit, Decrypting, RoundTrip

(* Send: the caller's cache is filled, the blocks are the padded text.     *)
LEMMA SendInv == ASSUME IInv, Send PROVE IInv'
<1>1. PICK a, b \in Node, len \in Lens, stride \in Strides, iv \in Ivs :
        /\ a # b
        /\ job' = [from |-> a, to |-> b, len |-> len, stride |-> stride, iv |-> iv]
        /\ pair_ciphers' = get_pair_cipher(a, b)
        /\ IF NoRoom(len)
           THEN pc' = "failed" /\ UNCHANGED <<data, k, prev>>
           ELSE pc' = "encrypt" /\ data' = Blocks(pad_data(Text(job'))) /\ k' = 1 /\ prev' = iv
  BY DEF Send
<1>2. job' \in Job /\ job'.from = a /\ job'.to = b /\ job'.len = len /\ job'.stride = stride /\ job'.iv = iv
  BY <1>1 DEF Job
<1>3. Caches(pair_ciphers') /\ b \in DOMAIN pair_ciphers'[a]
  BY <1>1, Cached DEF IInv
<1>4. Size(job') \in Nat \ {0} /\ Plain(job') \in [1 .. Size(job') -> Block]
  <2>1. job'.len \in LineLen /\ job'.stride \in Nat
    BY <1>2, NodesAre
  <2> DEFINE j == job'
  <2>2. j.len \in LineLen /\ j.stride \in Nat
    BY <2>1
  <2> HIDE DEF j
  <2>3. Size(j) \in Nat \ {0} /\ Plain(j) \in [1 .. Size(j) -> Block]
    BY <2>2, PlainIs
  <2> QED BY <2>3 DEF j
<1>5. CASE NoRoom(len)
  <2>1. pc' = "failed"
    BY <1>1, <1>5
  <2>2. JobTyped'
    BY <1>1, <1>2, <1>5, <2>1 DEF JobTyped
  <2> QED BY <1>3, <2>1, <2>2 DEF IInv, Encrypting, InTransit, Decrypting, RoundTrip
<1>6. CASE ~ NoRoom(len)
  <2>1. pc' = "encrypt" /\ data' = Plain(job') /\ k' = 1 /\ prev' = iv
    BY <1>1, <1>6 DEF Plain
  <2>2. iv \in Block /\ 1 \in 1 .. Size(job')
    BY <1>4, NodesAre
  <2>3. JobTyped'
    BY <1>1, <1>2, <1>4, <1>6, <2>1, <2>2 DEF JobTyped
  <2>4. prev' = Prior(k)'
    BY <1>2, <2>1 DEF Prior
  <2>5. \A n \in 1 .. Size(job') : ~ (n < k') /\ data'[n] = Plain(job')[n]
    BY <1>4, <2>1
  <2>6. Encrypting'
    BY <1>2, <1>3, <2>4, <2>5 DEF Encrypting
  <2> QED BY <1>3, <2>1, <2>3, <2>6 DEF IInv, InTransit, Decrypting, RoundTrip
<1> QED BY <1>5, <1>6

(* EncryptBlock: what decrypt_block makes of the new block is the sum of   *)
(* the plain block and the one before it, so adding that again gives the   *)
(* plain block.                                                            *)
LEMMA EncryptBlockInv == ASSUME IInv, EncryptBlock PROVE IInv'
<1> DEFINE L == Size(job)
           P == Plain(job)
           rk == PairKeys(job.from, job.to)
           x == XorSeq(data[k], prev)
           c == encrypt_block(x, rk)
<1>1. /\ pc = "encrypt" /\ job.to \in DOMAIN pair_ciphers[job.from] /\ prev = Prior(k)
      /\ \A n \in 1 .. L : IF n < k THEN Sealed(n) ELSE data[n] = P[n]
      /\ data \in [1 .. L -> Block] /\ k \in 1 .. L /\ prev \in Block
  BY DEF IInv, JobTyped, Encrypting, EncryptBlock
<1>2. /\ job.from \in Node /\ job.to \in Node /\ job.from # job.to /\ job.iv \in Block
      /\ rk \in RoundKeys /\ L \in Nat \ {0} /\ P \in [1 .. L -> Block]
  BY <1>1, JobIs
<1>3. pair_ciphers[job.from][job.to] = rk
  BY <1>1, <1>2 DEF IInv, Caches
<1>4. /\ data' = [data EXCEPT ![k] = c] /\ prev' = c /\ k' = k + 1
      /\ pc' = IF k = Len(data) THEN "receive" ELSE pc
      /\ UNCHANGED <<pair_ciphers, job, out, sent, restarts>>
  <2> HIDE DEF rk
  <2> QED BY <1>3 DEF EncryptBlock
<1>5. L \in Nat /\ k \in Int /\ Len(data) = L
  BY <1>1, <1>2, RowIsSeq
<1>6. x \in Block /\ data[k] = P[k] /\ data[k] \in Block
  <2>1. data[k] = P[k] /\ data[k] \in Block
    BY <1>1, <1>5
  <2>2. \A i \in 1 .. 16 : prev[i] \in Byte
    BY <1>1 DEF Block
  <2> QED BY <2>1, <2>2, BlockSum
<1>7. c \in Block /\ Opened(c) = x
  <2> HIDE DEF x, rk
  <2>1. c \in Block /\ decrypt_block(c, rk) = x
    BY <1>2, <1>6, Decrypted
  <2> QED BY <2>1 DEF Opened, rk
<1>8. XorSeq(x, prev) = P[k]
  <2>1. \A i \in 1 .. 16 : prev[i] \in Byte
    BY <1>1 DEF Block
  <2>2. \A i \in 1 .. 16 : x[i] = data[k][i] ## prev[i]
    BY <1>6, <2>1, BlockSum
  <2> HIDE DEF x
  <2>3. XorSeq(x, prev) \in Block /\ \A i \in 1 .. 16 : XorSeq(x, prev)[i] = x[i] ## prev[i]
    BY <1>6, <2>1, BlockSum
  <2>4. \A i \in 1 .. 16 : data[k][i] \in Byte
    BY <1>6 DEF Block
  <2>5. \A i \in 1 .. 16 : XorSeq(x, prev)[i] = data[k][i]
    BY <2>1, <2>2, <2>3, <2>4, XorTwice
  <2>6. XorSeq(x, prev) = data[k]
    BY <1>6, <2>3, <2>5 DEF Block
  <2> QED BY <1>6, <2>6
<1> HIDE DEF x, c, rk, L, P
<1>9. /\ data' \in [1 .. L -> Block] /\ data'[k] = c
      /\ \A n \in 1 .. L : n # k => data'[n] = data[n]
  BY <1>1, <1>4, <1>7
<1>10. \A n \in 1 .. L : n <= k => Prior(n)' = Prior(n)
  <2> SUFFICES ASSUME NEW n \in 1 .. L, n <= k PROVE Prior(n)' = Prior(n)
    OBVIOUS
  <2>1. CASE n = 1
    BY <1>4, <2>1 DEF Prior
  <2>2. CASE n # 1
    <3>1. n - 1 \in 1 .. L /\ n - 1 # k
      BY <1>5, <2>2
    <3> QED BY <1>9, <2>2, <3>1 DEF Prior
  <2> QED BY <2>1, <2>2
<1>11. job' = job
  BY <1>4
<1>12. Size(job)' = L /\ Plain(job)' = P
  BY <1>4 DEF L, P, Size, Plain
<1>13. \A n \in 1 .. L : Sealed(n)' <=> XorSeq(Opened(data'[n]), Prior(n)') = P[n]
  BY <1>11 DEF Sealed, Opened, P, Plain
<1>14. \A n \in 1 .. L : IF n < k' THEN Sealed(n)' ELSE data'[n] = P[n]
  <2> SUFFICES ASSUME NEW n \in 1 .. L
               PROVE  IF n < k' THEN Sealed(n)' ELSE data'[n] = P[n]
    OBVIOUS
  <2>1. CASE n < k
    <3>1. Sealed(n) /\ n < k' /\ n <= k /\ n # k
      BY <1>1, <1>4, <1>5, <2>1 DEF L, P
    <3>2. XorSeq(Opened(data[n]), Prior(n)) = P[n]
      BY <3>1 DEF Sealed, P
    <3>3. data'[n] = data[n] /\ Prior(n)' = Prior(n)
      BY <1>9, <1>10, <3>1
    <3>4. XorSeq(Opened(data'[n]), Prior(n)') = P[n]
      BY <3>2, <3>3
    <3> QED BY <1>13, <3>1, <3>4
  <2>2. CASE n = k
    <3>1. n < k' /\ n <= k
      BY <1>4, <1>5, <2>2
    <3>2. data'[n] = c /\ Prior(n)' = prev
      BY <1>1, <1>9, <1>10, <2>2, <3>1
    <3>3. XorSeq(Opened(data'[n]), Prior(n)') = P[n]
      BY <1>7, <1>8, <2>2, <3>2
    <3> QED BY <1>13, <3>1, <3>3
  <2>3. CASE k < n
    <3>1. ~ (n < k') /\ ~ (n < k) /\ n # k
      BY <1>4, <1>5, <2>3
    <3> QED BY <1>1, <1>9, <3>1 DEF L, P
  <2> QED BY <1>5, <2>1, <2>2, <2>3
<1>15. prev' = Prior(k)'
  <2>1. k + 1 # 1 /\ (k + 1) - 1 = k
    BY <1>5, <1>1 DEF L
  <2> QED BY <1>4, <1>9, <2>1 DEF Prior
<1>16. JobTyped /\ Caches(pair_ciphers')
  BY <1>4 DEF IInv
<1>17. CASE k = L
  <2>1. pc' = "receive"
    BY <1>4, <1>5, <1>17
  <2>2. JobTyped'
    BY <1>1, <1>4, <1>9, <1>12, <1>16, <2>1 DEF JobTyped
  <2>3. \A n \in 1 .. L : n < k'
    BY <1>4, <1>5, <1>17
  <2>4. InTransit'
    BY <1>12, <1>14, <2>3 DEF InTransit
  <2> QED BY <1>16, <2>1, <2>2, <2>4 DEF IInv, Encrypting, Decrypting, RoundTrip
<1>18. CASE k # L
  <2>1. pc' = "encrypt"
    BY <1>1, <1>4, <1>5, <1>18
  <2>2. k' \in 1 .. L
    BY <1>1, <1>4, <1>5, <1>18 DEF L
  <2>3. JobTyped'
    BY <1>1, <1>4, <1>7, <1>9, <1>12, <1>16, <2>1, <2>2 DEF JobTyped
  <2>4. job'.to \in DOMAIN pair_ciphers'[job'.from]
    BY <1>1, <1>4
  <2>5. Encrypting'
    BY <1>12, <1>14, <1>15, <2>4 DEF Encrypting
  <2> QED BY <1>16, <2>1, <2>3, <2>5 DEF IInv, InTransit, Decrypting, RoundTrip
<1> QED BY <1>17, <1>18

(* Receive: the receiver derives the sender's round keys, whatever         *)
(* restarts came before.                                                   *)
LEMMA ReceiveInv == ASSUME IInv, Receive PROVE IInv'
<1>1. /\ pc = "receive" /\ pair_ciphers' = get_pair_cipher(job.to, job.from)
      /\ pc' = "decrypt" /\ k' = 1 /\ prev' = job.iv /\ job' = job /\ data' = data
  BY DEF Receive
<1>2. /\ job.from \in Node /\ job.to \in Node /\ job.from # job.to /\ job.iv \in Block
      /\ Size(job) \in Nat \ {0}
  BY <1>1, JobIs
<1>3. Caches(pair_ciphers') /\ job.from \in DOMAIN pair_ciphers'[job.to]
  BY <1>1, <1>2, Cached DEF IInv
<1>4. JobTyped'
  <2>1. JobTyped /\ 1 \in 1 .. Size(job)
    BY <1>2 DEF IInv
  <2>2. Size(job)' = Size(job)
    BY <1>1 DEF Size
  <2> QED BY <1>1, <1>2, <2>1, <2>2 DEF JobTyped
<1>5. \A n \in 1 .. Size(job) : Sealed(n)
  BY <1>1 DEF IInv, InTransit
<1>6. ASSUME NEW n \in 1 .. Size(job)
      PROVE  /\ ~ (n < 1)
             /\ XorSeq(Opened(data[n]), IF n = 1 THEN job.iv ELSE data[n - 1]) = Plain(job)[n]
  BY <1>2, <1>5 DEF Sealed, Prior
<1>7. Decrypting'
  <2>1. Size(job)' = Size(job) /\ Plain(job)' = Plain(job)
    BY <1>1 DEF Size, Plain
  <2>2. ASSUME NEW n \in 1 .. Size(job)
        PROVE  Opened(data[n])' = Opened(data[n])
    BY <1>1 DEF Opened
  <2> QED BY <1>1, <1>3, <1>6, <2>1, <2>2 DEF Decrypting
<1> QED BY <1>1, <1>3, <1>4, <1>7 DEF IInv, Encrypting, InTransit, RoundTrip

(* DecryptBlock: prev still holds the block before k as it came in,        *)
(* although data no longer does. The last block completes the padded text. *)
LEMMA DecryptBlockInv == ASSUME IInv, DecryptBlock PROVE IInv'
<1> DEFINE L == Size(job)
           P == Plain(job)
           p == XorSeq(Opened(data[k]), prev)
<1>1. /\ pc = "decrypt" /\ job.from \in DOMAIN pair_ciphers[job.to]
      /\ \A n \in 1 .. L :
           IF n < k THEN data[n] = P[n]
           ELSE XorSeq(Opened(data[n]), IF n = k THEN prev ELSE data[n - 1]) = P[n]
      /\ data \in [1 .. L -> Block] /\ k \in 1 .. L
  BY DEF IInv, JobTyped, Decrypting, DecryptBlock
<1>2. /\ job.from \in Node /\ job.to \in Node /\ job.from # job.to
      /\ job.len \in LineLen /\ job.stride \in Nat
      /\ PairKeys(job.to, job.from) = PairKeys(job.from, job.to)
      /\ L \in Nat \ {0} /\ P \in [1 .. L -> Block]
  BY <1>1, JobIs
<1>3. pair_ciphers[job.to][job.from] = PairKeys(job.from, job.to)
  <2>1. pair_ciphers[job.to][job.from] = PairKeys(job.to, job.from)
    BY <1>1, <1>2 DEF IInv, Caches
  <2> QED BY <1>2, <2>1
<1>4. /\ data' = [data EXCEPT ![k] = p] /\ prev' = data[k] /\ k' = k + 1
      /\ IF k = Len(data)
         THEN pc' = "shown" /\ out' = unpad_data(Joined(data', BlockSize))
         ELSE UNCHANGED <<pc, out>>
      /\ UNCHANGED <<pair_ciphers, job, sent, restarts>>
  BY <1>3 DEF DecryptBlock, Opened
<1>5. L \in Nat /\ k \in Int /\ Len(data) = L
  BY <1>1, <1>2, RowIsSeq
<1>6. p = P[k] /\ p \in Block /\ data[k] \in Block
  <2>1. ~ (k < k)
    BY <1>5
  <2>2. p = P[k]
    BY <1>1, <2>1
  <2> HIDE DEF p
  <2> QED BY <1>1, <1>2, <2>2
<1> HIDE DEF p, L, P
<1>7. /\ data' \in [1 .. L -> Block] /\ data'[k] = P[k]
      /\ \A n \in 1 .. L : n # k => data'[n] = data[n]
  BY <1>1, <1>4, <1>6
<1>8. job' = job /\ Size(job)' = L /\ Plain(job)' = P
  BY <1>4 DEF L, P, Size, Plain
<1>9. ASSUME NEW n \in 1 .. L
      PROVE  IF n < k' THEN data'[n] = P[n]
             ELSE XorSeq(Opened(data'[n]), IF n = k' THEN prev' ELSE data'[n - 1]) = P[n]
  <2>1. CASE n < k
    <3>1. n < k' /\ n # k
      BY <1>4, <1>5, <2>1
    <3> QED BY <1>1, <1>7, <2>1, <3>1
  <2>2. CASE n = k
    <3>1. n < k'
      BY <1>4, <1>5, <2>2
    <3> QED BY <1>7, <2>2, <3>1
  <2>3. CASE k < n
    <3>1. ~ (n < k') /\ ~ (n < k) /\ n # k /\ (n = k' => n - 1 = k)
          /\ (n # k' => n - 1 # k /\ n - 1 \in 1 .. L)
      BY <1>4, <1>5, <1>1, <2>3
    <3>2. XorSeq(Opened(data[n]), data[n - 1]) = P[n]
      BY <1>1, <3>1
    <3>3. data'[n] = data[n] /\ (IF n = k' THEN prev' ELSE data'[n - 1]) = data[n - 1]
      BY <1>4, <1>7, <3>1
    <3> QED BY <3>1, <3>2, <3>3
  <2> QED BY <1>5, <2>1, <2>2, <2>3
<1>10. JobTyped /\ Caches(pair_ciphers')
  BY <1>4 DEF IInv
<1>11. CASE k = L
  <2>1. pc' = "shown" /\ out' = unpad_data(Joined(data', BlockSize))
    BY <1>4, <1>5, <1>11
  <2>2. \A n \in 1 .. L : data'[n] = P[n]
    <3>1. \A n \in 1 .. L : n < k'
      BY <1>4, <1>5, <1>11
    <3> QED BY <1>9, <3>1
  <2>3. data' = P
    BY <1>2, <1>7, <2>2 DEF P, L
  <2>4. out' = Text(job)
    BY <1>2, <2>1, <2>3, PlainIs DEF P
  <2>5. RoundTrip'
    BY <1>8, <2>4 DEF RoundTrip
  <2>6. JobTyped'
    BY <1>1, <1>8, <1>10, <2>1 DEF JobTyped
  <2> QED BY <1>10, <2>1, <2>5, <2>6 DEF IInv, Encrypting, InTransit, Decrypting
<1>12. CASE k # L
  <2>1. pc' = "decrypt"
    BY <1>1, <1>4, <1>5, <1>12
  <2>2. k' \in 1 .. L /\ prev' \in Block
    BY <1>1, <1>4, <1>5, <1>6, <1>12
  <2>3. JobTyped'
    BY <1>1, <1>7, <1>8, <1>10, <2>1, <2>2 DEF JobTyped
  <2>4. job'.from \in DOMAIN pair_ciphers'[job'.to]
    BY <1>1, <1>4
  <2>5. Decrypting'
    BY <1>8, <1>9, <2>4 DEF Decrypting, Opened
  <2> QED BY <1>10, <2>1, <2>3, <2>5 DEF IInv, Encrypting, InTransit, RoundTrip
<1> QED BY <1>11, <1>12

(* Prompt.                                                                 *)
LEMMA PromptInv == ASSUME IInv, Prompt PROVE IInv'
BY DEF Prompt, IInv, JobTyped, Encrypting, InTransit, Decrypting, RoundTrip

(* Restart empties a cache that nobody is using: what is on its way is     *)
(* sealed under keys that can be derived again.                            *)
LEMMA RestartInv == ASSUME IInv, Restart PROVE IInv'
<1>1. PICK n \in Node : pair_ciphers' = [pair_ciphers EXCEPT ![n] = <<>>]
  BY DEF Restart
<1>2. pc \in {"idle", "receive"} /\ UNCHANGED <<job, pc, data, k, prev, out>>
  BY DEF Restart
<1>3. Caches(pair_ciphers')
  <2>1. Caches(pair_ciphers)
    BY DEF IInv
  <2>2. pair_ciphers' = [a \in Node |-> IF a = n THEN <<>> ELSE pair_ciphers[a]]
    BY <1>1, <2>1 DEF Caches
  <2>3. pair_ciphers' = [a \in Node |-> pair_ciphers'[a]]
    BY <2>2
  <2>4. DOMAIN <<>> = {}
    OBVIOUS
  <2>5. ASSUME NEW a \in Node, NEW b \in DOMAIN pair_ciphers'[a]
        PROVE  a # n /\ pair_ciphers'[a] = pair_ciphers[a]
    BY <2>2, <2>4
  <2> QED BY <2>1, <2>3, <2>5 DEF Caches
<1>4. JobTyped'
  BY <1>2 DEF IInv, JobTyped, Size
<1>5. InTransit'
  BY <1>2 DEF IInv, InTransit, Sealed, Opened, Prior, Plain, Size
<1> QED BY <1>2, <1>3, <1>4, <1>5 DEF IInv, Encrypting, Decrypting, RoundTrip

(* Every step keeps the invariant.                                         *)
LEMMA StepInv == ASSUME IInv, [Next]_vars PROVE IInv'
<1>1. CASE UNCHANGED vars
  BY <1>1 DEF vars, IInv, Caches, JobTyped, Encrypting, InTransit, Decrypting, RoundTrip,
              Sealed, Opened, Prior, Plain, Size
<1> QED BY <1>1, SendInv, EncryptBlockInv, ReceiveInv, DecryptBlockInv, PromptInv, RestartInv DEF Next

-----------------------------------------------------------------------------
(* The invariant, for all nodes, passphrases, texts, ivs and numbers of    *)
(* rounds.                                                                 *)
THEOREM Invariance == Spec => []IInv
<1>1. Init => IInv
  BY InitInv
<1>2. IInv /\ [Next]_vars => IInv'
  BY StepInv
<1> QED BY <1>1, <1>2, PTL DEF Spec

(* decrypt_payload gives back what encrypt_payload was given.              *)
THEOREM RoundTripAlways == Spec => []RoundTrip
<1>1. IInv => RoundTrip
  BY DEF IInv
<1> QED BY <1>1, Invariance, PTL

(* encrypt_payload fails for exactly the texts that iv, text and one byte  *)
(* of padding push over `encrypted`.                                       *)
THEOREM RefusedAlways == Spec => []RefusedIfTooLong
<1>1. IInv => RefusedIfTooLong
  <2> SUFFICES ASSUME IInv, pc # "idle"
               PROVE  pc = "failed" <=> BlockSize + job.len + 1 > MaxOut
    BY DEF RefusedIfTooLong
  <2>1. pc = "failed" <=> NoRoom(job.len)
    BY DEF IInv, JobTyped
  <2>2. job.len \in LineLen
    BY JobIs
  <2>3. PaddedLen(job.len) = 16 * ((job.len + 16) \div 16)
    BY <2>2, PaddedIs, Zenon
  <2>4. NoRoom(job.len) <=> BlockSize + job.len + 1 > MaxOut
    BY <2>2, <2>3 DEF NoRoom, BlockSize, MaxOut, LineLen
  <2> QED BY <2>1, <2>4
<1> QED BY <1>1, Invariance, PTL

(* Both ends of a pair cache the same round keys, no two pairs do.         *)
THEOREM KeysAgreeAlways == Spec => []KeysAgree
<1>1. IInv => KeysAgree
  <2> SUFFICES ASSUME IInv, NEW a \in Node, NEW c \in Node,
                      NEW b \in DOMAIN pair_ciphers[a], NEW d \in DOMAIN pair_ciphers[c]
               PROVE  (pair_ciphers[a][b] = pair_ciphers[c][d]) <=> ({a, b} = {c, d})
    BY DEF KeysAgree
  <2>1. /\ b \in Node /\ a # b /\ pair_ciphers[a][b] = PairKeys(a, b)
        /\ d \in Node /\ c # d /\ pair_ciphers[c][d] = PairKeys(c, d)
    BY DEF IInv, Caches
  <2> QED BY <2>1, PairKeysAre
<1> QED BY <1>1, Invariance, PTL
=============================================================================
