--------------------------- MODULE FragmentProofs ---------------------------
(***************************************************************************)
(* The safety of fragmentation and reassembly (Fragment), for any lengths, *)
(* buffer, timeout and width of the ids, and for any loss, repetition and  *)
(* order of the packets. First arithmetic: where the pieces of a message   *)
(* begin (Pieces), and that the copy loop puts each of them back there     *)
(* (OffsetsDef, Copied). Then what is known of packets and of pieces that  *)
(* are held (Packets, Sound, Unfinished), the inductive invariant Inv made *)
(* of it, one lemma per action, and the properties.                        *)
(***************************************************************************)
EXTENDS Fragment, FiniteSetTheorems, WellFoundedInduction, TLAPS

(* A set of natural numbers has a least element: the form of induction     *)
(* used throughout.                                                        *)
LEMMA Least ==
  ASSUME NEW T, T \subseteq Nat, T # {}
  PROVE  \E n \in T : \A m \in T : n <= m
<1> DEFINE R == OpToRel(<, Nat)
<1>1. IsWellFoundedOn(R, Nat)
  BY NatLessThanWellFounded, Zenon
<1>2. \A x, y \in Nat : y < x => <<y, x>> \in R
  BY DEF OpToRel
<1> HIDE DEF R
<1>3. PICK n \in T : \A y \in T : ~ (<<y, n>> \in R)
  BY <1>1, WFMin, Zenon
<1>4. \A m \in T : ~ (m < n)
  BY <1>2, <1>3
<1>5. n \in Nat /\ \A m \in T : m \in Nat
  OBVIOUS
<1>6. \A m \in T : n <= m
  BY <1>4, <1>5
<1> QED BY <1>6

(* g starts at x0 and goes on by step up to N.                             *)
Iterates(g, N, x0, step) ==
  g[0] = x0 /\ \A n \in 1 .. N : g[n] = step[<<n, g[n - 1]>>]

(* Such a function exists.                                                 *)
LEMMA Recursion ==
  ASSUME NEW N \in Nat, NEW T, NEW x0 \in T, NEW step \in [(1 .. N) \X T -> T]
  PROVE  \E g \in [0 .. N -> T] : Iterates(g, N, x0, step)
<1> DEFINE Starts(m) == \E g \in [0 .. m -> T] :
                          g[0] = x0 /\ \A n \in 1 .. m : g[n] = step[<<n, g[n - 1]>>]
           bad == {m \in 0 .. N : ~ Starts(m)}
<1>1. SUFFICES ASSUME bad # {} PROVE FALSE
  BY DEF Iterates
<1>2. PICK m \in bad : \A j \in bad : m <= j
  <2> HIDE DEF Starts
  <2>1. bad \subseteq Nat
    OBVIOUS
  <2> HIDE DEF bad
  <2> QED BY <1>1, <2>1, Least
<1>3. CASE m = 0
  <2> DEFINE g == [n \in 0 .. 0 |-> x0]
  <2>1. g \in [0 .. 0 -> T] /\ g[0] = x0 /\ \A n \in 1 .. 0 : g[n] = step[<<n, g[n - 1]>>]
    OBVIOUS
  <2> QED BY <1>2, <1>3, <2>1
<1>4. CASE m # 0
  <2>1. m - 1 \in 0 .. N /\ m \in 1 .. N /\ Starts(m - 1)
    BY <1>2, <1>4
  <2>2. PICK g \in [0 .. m - 1 -> T] :
               g[0] = x0 /\ \A n \in 1 .. m - 1 : g[n] = step[<<n, g[n - 1]>>]
    BY <2>1
  <2> DEFINE h == [n \in 0 .. m |-> IF n = m THEN step[<<m, g[m - 1]>>] ELSE g[n]]
  <2>3. h \in [0 .. m -> T]
    BY <2>1
  <2>4. h[0] = x0 /\ h[m] = step[<<m, h[m - 1]>>]
    <3>1. 0 \in 0 .. m /\ m \in 0 .. m /\ m - 1 \in 0 .. m /\ m - 1 # m /\ 0 # m
      BY <2>1
    <3>2. h[0] = g[0] /\ h[m - 1] = g[m - 1] /\ h[m] = step[<<m, g[m - 1]>>]
      BY <3>1
    <3> QED BY <2>2, <3>2
  <2>5. ASSUME NEW n \in 1 .. m, n # m PROVE h[n] = step[<<n, h[n - 1]>>]
    <3>1. n \in 1 .. m - 1 /\ n - 1 \in 0 .. m - 1 /\ n \in 0 .. m /\ n - 1 # m
      BY <2>1, <2>5
    <3> QED BY <2>2, <2>5, <3>1
  <2> QED BY <1>2, <2>3, <2>4, <2>5
<1> QED BY <1>3, <1>4

(* What an appended element changes.                                       *)
LEMMA OneAppended ==
  ASSUME NEW T, NEW s \in Seq(T), NEW x \in T
  PROVE  /\ Append(s, x) \in Seq(T) /\ Len(Append(s, x)) = Len(s) + 1 /\ Len(s) \in Nat
         /\ \A i \in 1 .. Len(s) : Append(s, x)[i] = s[i]
         /\ Append(s, x)[Len(s) + 1] = x
OBVIOUS

-----------------------------------------------------------------------------
(* The lesser of two numbers.                                              *)
LEMMA Lesser ==
  ASSUME NEW a \in Int, NEW b \in Int
  PROVE  Min({a, b}) = IF a <= b THEN a ELSE b
<1> DEFINE S == {a, b}
           x == IF a <= b THEN a ELSE b
<1>1. x \in S /\ \A y \in S : x <= y
  OBVIOUS
<1>2. \A z \in S : (\A y \in S : z <= y) => z = x
  OBVIOUS
<1>3. Min(S) \in S /\ \A y \in S : Min(S) <= y
  BY <1>1 DEF Min
<1> QED BY <1>2, <1>3

(* Multiplication grows with its factor.                                   *)
LEMMA Grows ==
  ASSUME NEW F \in Nat \ {0}, NEW a \in Int, NEW b \in Int
  PROVE  /\ a * F \in Int /\ (a + 1) * F = a * F + F
         /\ a <= b <=> a * F <= b * F
         /\ a < b <=> a * F < b * F
<1>1. a * F \in Int /\ b * F \in Int /\ (a + 1) * F = a * F + F
  OBVIOUS
<1>2. ASSUME NEW c \in Int, NEW d \in Int, c < d PROVE c * F < d * F
  <2> DEFINE e == d - c
  <2>1. e \in Nat \ {0} /\ d = c + e
    BY <1>2
  <2> HIDE DEF e
  <2>2. d * F = c * F + e * F
    BY <2>1
  <2>3. e * F > 0
    BY <2>1
  <2>4. c * F \in Int /\ e * F \in Int
    BY <2>1
  <2> QED BY <2>2, <2>3, <2>4
<1>3. a < b => a * F < b * F
  BY <1>2
<1>4. b < a => b * F < a * F
  BY <1>2
<1>5. a = b => a * F = b * F
  OBVIOUS
<1>6. a < b \/ b < a \/ a = b
  OBVIOUS
<1> QED BY <1>1, <1>3, <1>4, <1>5, <1>6

(* How many pieces there are, and where they begin.                        *)
LEMMA Pieces ==
  ASSUME NEW len \in Nat \ {0}
  PROVE  /\ Total(len) \in Nat \ {0} /\ (len > FragPayload => Total(len) > 1)
         /\ \A i \in Nat : i * FragPayload < len <=> i < Total(len)
         /\ Total(len) * FragPayload >= len
<1> DEFINE F == FragPayload
           a == len + F - 1
           T == a \div F
           r == a % F
<1>1. F \in Nat \ {0}
  BY ConstAssumption
<1> HIDE DEF F
<1>2. a \in Nat /\ T \in Nat /\ r \in Nat /\ r < F /\ a = F * T + r
  BY <1>1
<1>3. T = Total(len)
  BY DEF Total, F
<1> HIDE DEF T, r
<1>4. T * F \in Int /\ F * T = T * F
  BY <1>1, <1>2
<1> DEFINE m == T * F
<1> HIDE DEF m
<1>5. m + r = len + F - 1 /\ m \in Int
  BY <1>2, <1>4 DEF m
<1>6. m >= len /\ m - F < len
  BY <1>1, <1>2, <1>5
<1>7. ASSUME NEW i \in Nat PROVE i * F < len <=> i < T
  <2>1. i * F \in Int
    BY <1>1
  <2>2. CASE i < T
    <3>1. i + 1 <= T
      BY <1>2, <2>2
    <3>2. (i + 1) * F <= T * F /\ (i + 1) * F = i * F + F
      BY <1>1, <1>2, <3>1, Grows
    <3> QED BY <1>1, <1>5, <1>6, <2>1, <2>2, <3>2 DEF m
  <2>3. CASE ~ (i < T)
    <3>1. T <= i
      BY <1>2, <2>3
    <3>2. T * F <= i * F
      BY <1>1, <1>2, <3>1, Grows
    <3> QED BY <1>1, <1>5, <1>6, <2>1, <2>3, <3>2 DEF m
  <2> QED BY <2>2, <2>3
<1>8. T # 0
  <2>1. 0 * F = 0
    BY <1>1
  <2> QED BY <1>7, <2>1
<1>9. len > F => T > 1
  <2>1. 1 * F = F
    BY <1>1
  <2> QED BY <1>7, <1>2, <2>1
<1> QED BY <1>2, <1>3, <1>6, <1>7, <1>8, <1>9 DEF F, m

(* The length of the piece of index i, 0 if there is none.                 *)
SizeOf(frags, i) == IF i \in DOMAIN frags THEN frags[i].len ELSE 0

(* Offsets is what its recursive equation says.                            *)
LEMMA OffsetsDef ==
  ASSUME NEW frags, \A i \in DOMAIN frags : frags[i].len \in Nat, NEW total \in Nat, NEW cap \in Nat
  PROVE  /\ Offsets(frags, total, cap) \in [0 .. total -> 0 .. cap]
         /\ Offsets(frags, total, cap)[0] = 0
         /\ \A n \in 1 .. total :
              Offsets(frags, total, cap)[n] =
                IF cap <= Offsets(frags, total, cap)[n - 1] + SizeOf(frags, n - 1) THEN cap
                ELSE Offsets(frags, total, cap)[n - 1] + SizeOf(frags, n - 1)
<1> DEFINE T == 0 .. cap
           step == [a \in (1 .. total) \X T |-> Min({cap, a[2] + SizeOf(frags, a[1] - 1)})]
           F(g) == [n \in 0 .. total |->
                      IF n = 0 THEN 0 ELSE Min({cap, g[n - 1] + SizeOf(frags, n - 1)})]
           off == Offsets(frags, total, cap)
           after == CHOOSE g : g = F(g)
<1>1. \A i : SizeOf(frags, i) \in Nat
  BY DEF SizeOf
<1>2. ASSUME NEW x \in T, NEW i
      PROVE  /\ Min({cap, x + SizeOf(frags, i)}) \in T
             /\ Min({cap, x + SizeOf(frags, i)}) = IF cap <= x + SizeOf(frags, i) THEN cap
                                                   ELSE x + SizeOf(frags, i)
  <2> DEFINE y == x + SizeOf(frags, i)
  <2>1. y \in Nat
    BY <1>1
  <2> HIDE DEF y
  <2>2. Min({cap, y}) = IF cap <= y THEN cap ELSE y
    BY <2>1, Lesser
  <2>3. (IF cap <= y THEN cap ELSE y) \in T
    BY <2>1
  <2> QED BY <2>2, <2>3 DEF y
<1>3. step \in [(1 .. total) \X T -> T]
  <2> HIDE DEF T
  <2> QED BY <1>2
<1>4. \A n \in 1 .. total : \A x \in T : step[<<n, x>>] = Min({cap, x + SizeOf(frags, n - 1)})
  <2> HIDE DEF T
  <2> QED OBVIOUS
<1>5. 0 \in T
  OBVIOUS
<1>6. PICK g \in [0 .. total -> T] : g[0] = 0 /\ \A n \in 1 .. total : g[n] = step[<<n, g[n - 1]>>]
  <2> HIDE DEF step, T
  <2>1. \E g \in [0 .. total -> T] : Iterates(g, total, 0, step)
    BY <1>3, <1>5, Recursion
  <2> QED BY <2>1, Zenon DEF Iterates
<1>7. \A n \in 1 .. total : n # 0 /\ n - 1 \in 0 .. total /\ n \in 0 .. total
  OBVIOUS
<1>8. \A n \in 0 .. total : n = 0 \/ n \in 1 .. total
  OBVIOUS
<1> HIDE DEF step, T
<1>9. g = F(g)
  <2>1. \A n \in 1 .. total : g[n] = Min({cap, g[n - 1] + SizeOf(frags, n - 1)})
    BY <1>4, <1>6, <1>7
  <2>2. \A n \in 0 .. total : g[n] = IF n = 0 THEN 0 ELSE Min({cap, g[n - 1] + SizeOf(frags, n - 1)})
    BY <1>6, <1>8, <2>1
  <2> QED BY <1>6, <2>2, Zenon
<1>10. after = F(after)
  BY <1>9, Zenon
<1>11. off = after
  BY Zenon DEF Offsets, SizeOf
<1> HIDE DEF after, off
<1>12. after[0] = 0 /\ \A n \in 1 .. total : after[n] = Min({cap, after[n - 1] + SizeOf(frags, n - 1)})
  <2>1. 0 \in 0 .. total
    OBVIOUS
  <2> QED BY <1>7, <1>10, <2>1, Zenon
<1>13. \A n \in 0 .. total : after[n] \in T
  <2> DEFINE bad == {n \in 0 .. total : after[n] \notin T}
  <2>1. SUFFICES ASSUME bad # {} PROVE FALSE
    OBVIOUS
  <2>2. bad \subseteq Nat
    OBVIOUS
  <2>3. PICK n \in bad : \A m \in bad : n <= m
    <3> HIDE DEF bad
    <3> QED BY <2>1, <2>2, Least
  <2>4. n # 0
    BY <1>5, <1>12
  <2>5. n \in 1 .. total /\ n - 1 \in 0 .. total /\ ~ (n <= n - 1)
    BY <2>4
  <2>6. after[n - 1] \in T
    BY <2>3, <2>5
  <2> QED BY <1>2, <1>12, <2>5, <2>6
<1>14. after \in [0 .. total -> T]
  BY <1>10, <1>13, Zenon
<1>15. \A n \in 1 .. total : after[n] = IF cap <= after[n - 1] + SizeOf(frags, n - 1) THEN cap
                                        ELSE after[n - 1] + SizeOf(frags, n - 1)
  BY <1>2, <1>7, <1>12, <1>13
<1> QED BY <1>11, <1>12, <1>14, <1>15 DEF T, off

-----------------------------------------------------------------------------
(* A packet, or a piece, of index j is one its sender cut from len.        *)
Cut(len, j, piece, n) ==
  j \in Nat /\ j < Total(len) /\ piece = j /\ n = FragLen(len, j)

(* The length of a piece.                                                  *)
LEMMA PieceLen ==
  ASSUME NEW len \in Nat \ {0}, NEW j \in Nat, j < Total(len)
  PROVE  /\ FragLen(len, j) = (IF FragPayload <= len - j * FragPayload THEN FragPayload
                               ELSE len - j * FragPayload)
         /\ FragLen(len, j) \in Nat
<1> DEFINE F == FragPayload
           m == j * F
<1>1. F \in Nat \ {0}
  BY ConstAssumption
<1>2. m \in Int /\ m < len
  <2>1. m < len
    BY Pieces
  <2> HIDE DEF F
  <2>2. m \in Int
    BY <1>1
  <2> QED BY <2>1, <2>2
<1>3. FragLen(len, j) = Min({F, len - m})
  BY DEF FragLen
<1> HIDE DEF F, m
<1> DEFINE k == len - m
<1>4. k \in Nat \ {0}
  BY <1>2
<1> HIDE DEF k
<1>5. Min({F, k}) = IF F <= k THEN F ELSE k
  BY <1>1, <1>4, Lesser
<1>6. (IF F <= k THEN F ELSE k) \in Nat
  BY <1>1, <1>4
<1> QED BY <1>3, <1>5, <1>6 DEF k, m, F

(* The pieces of a message, together: every byte is copied to where it     *)
(* was.                                                                    *)
LEMMA Copied ==
  ASSUME NEW len \in Nat \ {0}, NEW frags, DOMAIN frags = 0 .. Total(len) - 1,
         \A j \in 0 .. Total(len) - 1 : frags[j].len = FragLen(len, j)
  PROVE  /\ Offsets(frags, Total(len), len)[Total(len)] = len
         /\ \A j \in 0 .. Total(len) - 1 :
              Offsets(frags, Total(len), len)[j + 1] - Offsets(frags, Total(len), len)[j]
                = FragLen(len, j)
<1> DEFINE F == FragPayload
           T == Total(len)
           off == Offsets(frags, T, len)
<1>1. F \in Nat \ {0}
  BY ConstAssumption
<1>2. /\ T \in Nat \ {0} /\ (\A i \in Nat : i * F < len <=> i < T) /\ T * F >= len
  BY Pieces
<1>3. \A j \in Nat : j * F \in Int /\ (j + 1) * F = j * F + F
  BY <1>1
<1>4. ASSUME NEW j \in 0 .. T - 1
      PROVE  /\ FragLen(len, j) = (IF F <= len - j * F THEN F ELSE len - j * F)
             /\ FragLen(len, j) \in Nat
  <2>1. j \in Nat /\ j < T
    BY <1>2
  <2> QED BY <2>1, PieceLen
<1> HIDE DEF F
<1>5. \A i \in DOMAIN frags : frags[i].len \in Nat
  BY <1>4
<1>6. /\ off \in [0 .. T -> 0 .. len] /\ off[0] = 0
      /\ \A n \in 1 .. T : off[n] = IF len <= off[n - 1] + SizeOf(frags, n - 1) THEN len
                                    ELSE off[n - 1] + SizeOf(frags, n - 1)
  BY <1>2, <1>5, OffsetsDef
<1> HIDE DEF off, T
<1>7. \A n \in 1 .. T : n - 1 \in 0 .. T - 1 /\ n - 1 \in Nat /\ (n - 1) + 1 = n /\ n \in Nat
  BY <1>2
<1>8. \A n \in 1 .. T : SizeOf(frags, n - 1) = FragLen(len, n - 1)
  BY <1>7 DEF SizeOf, T
<1> DEFINE at(n) == IF n < T THEN n * F ELSE len
<1>9. ASSUME NEW n \in 1 .. T, off[n - 1] = at(n - 1) PROVE off[n] = at(n)
  <2> DEFINE a == (n - 1) * F
             b == n * F
  <2>1. a \in Int /\ b \in Int /\ b = a + F
    BY <1>3, <1>7
  <2>2. n - 1 < T /\ n <= T
    BY <1>2
  <2>3. a < len /\ (b < len <=> n < T)
    BY <1>2, <1>7, <2>2
  <2>4. off[n - 1] = a
    BY <1>9, <2>2
  <2>5. SizeOf(frags, n - 1) = IF F <= len - a THEN F ELSE len - a
    BY <1>4, <1>7, <1>8
  <2>6. off[n] = IF len <= off[n - 1] + SizeOf(frags, n - 1) THEN len
                 ELSE off[n - 1] + SizeOf(frags, n - 1)
    BY <1>6
  <2> HIDE DEF a, b
  <2> DEFINE s == SizeOf(frags, n - 1)
  <2>7. off[n] = IF len <= a + s THEN len ELSE a + s
    BY <2>4, <2>6
  <2>8. s = IF F <= len - a THEN F ELSE len - a
    BY <2>5
  <2> HIDE DEF s
  <2>9. off[n] = IF b < len THEN b ELSE len
    BY <1>1, <2>1, <2>3, <2>7, <2>8
  <2> QED BY <2>3, <2>9 DEF b
<1>10. \A n \in 0 .. T : off[n] = at(n)
  <2> DEFINE bad == {n \in 0 .. T : off[n] # at(n)}
  <2>1. SUFFICES ASSUME bad # {} PROVE FALSE
    OBVIOUS
  <2>2. bad \subseteq Nat
    BY <1>2
  <2>3. PICK n \in bad : \A m \in bad : n <= m
    <3> HIDE DEF bad
    <3> QED BY <2>1, <2>2, Least
  <2>4. at(0) = 0
    BY <1>1, <1>2
  <2>5. n # 0
    BY <1>6, <2>4
  <2> HIDE DEF at
  <2>6. n \in 1 .. T /\ n - 1 \in 0 .. T /\ ~ (n <= n - 1)
    BY <1>2, <2>5
  <2>7. off[n - 1] = at(n - 1)
    BY <2>3, <2>6
  <2> QED BY <1>9, <2>6, <2>7
<1>11. off[T] = len
  BY <1>2, <1>10
<1>12. ASSUME NEW j \in 0 .. T - 1 PROVE off[j + 1] - off[j] = FragLen(len, j)
  <2> DEFINE a == j * F
             b == (j + 1) * F
  <2>1. j \in Nat /\ j + 1 \in Nat /\ j \in 0 .. T /\ j + 1 \in 0 .. T /\ j < T
    BY <1>2
  <2>2. a \in Int /\ b \in Int /\ b = a + F /\ a < len /\ (b < len <=> j + 1 < T)
    BY <1>2, <1>3, <2>1
  <2>3. off[j] = a /\ off[j + 1] = IF j + 1 < T THEN b ELSE len
    BY <1>10, <2>1
  <2>4. FragLen(len, j) = IF F <= len - a THEN F ELSE len - a
    BY <1>4 DEF T
  <2> HIDE DEF a, b
  <2>5. off[j + 1] - off[j] = (IF b < len THEN b ELSE len) - a
    BY <2>2, <2>3
  <2>6. (IF b < len THEN b ELSE len) - a = IF F <= len - a THEN F ELSE len - a
    BY <1>1, <2>2
  <2> QED BY <2>4, <2>5, <2>6
<1> QED BY <1>11, <1>12 DEF off, T

-----------------------------------------------------------------------------
(* What is known of the packets and the pieces of a message. Everything    *)
(* here is said of a list M of messages and a set A of packets, so that it *)
(* can be said of msgs and air before and after a step.                    *)
Msg == [len : Lens, id : Ids]

Packed(p, x) ==
  /\ p.msg_id = x.id
  /\ p.frag_index \in Nat /\ p.frag_total \in Nat /\ p.total_len \in Nat
  /\ p.piece \in Nat /\ p.len \in Nat
  /\ x.len > FragPayload =>
       /\ Cut(x.len, p.frag_index, p.piece, p.len)
       /\ p.frag_total = Total(x.len) /\ p.total_len = x.len

(* Every packet is of a message that was sent, and a message that fits one *)
(* packet has shown only one index.                                        *)
Packets(M, A) ==
  /\ \A p \in A : p.msg \in 1 .. Len(M) /\ Packed(p, M[p.msg])
  /\ \A p, q \in A : p.msg = q.msg /\ ~ (M[p.msg].len > FragPayload) => p.frag_index = q.frag_index

(* So is every piece that is held under an id.                             *)
Sound(M, A, id, fr) ==
  /\ DOMAIN fr \subseteq Nat /\ DOMAIN fr # {} /\ IsFiniteSet(DOMAIN fr) /\ fr \in [DOMAIN fr -> Piece]
  /\ \A j \in DOMAIN fr :
       /\ fr[j].msg \in 1 .. Len(M) /\ M[fr[j].msg].id = id
       /\ M[fr[j].msg].len > FragPayload => Cut(M[fr[j].msg].len, j, fr[j].piece, fr[j].len)
  /\ \A j, k \in DOMAIN fr : fr[j].msg = fr[k].msg /\ ~ (M[fr[j].msg].len > FragPayload) => j = k
  /\ \A j \in DOMAIN fr, q \in A :
       q.msg = fr[j].msg /\ ~ (M[q.msg].len > FragPayload) => q.frag_index = j

WholeOf(M, m) ==
  [j \in 0 .. Total(M[m].len) - 1 |-> [msg |-> m, piece |-> j, len |-> FragLen(M[m].len, j)]]

(* They are not all of a message.                                          *)
Unfinished(M, fr) ==
  \A m \in 1 .. Len(M) : M[m].len > FragPayload => fr # WholeOf(M, m)

(* What is returned fits, and is the message if no other has its id.       *)
Sole(M, m, id) ==
  m \in 1 .. Len(M) /\ M[m].id = id /\ \A k \in 1 .. Len(M) : M[k].id = id => k = m
Returned(M, o) ==
  /\ o.len <= o.declared /\ o.len <= MaxOut
  /\ \E m \in 1 .. Len(M) : M[m].id = o.id
  /\ \A m : Sole(M, m, o.id) => o.pieces = WholeOf(M, m) /\ o.len = M[m].len

Put(h, p) ==
  [j \in DOMAIN h \cup {p.frag_index} |->
     IF j = p.frag_index THEN [msg |-> p.msg, piece |-> p.piece, len |-> p.len] ELSE h[j]]

(* One more packet is stored.                                              *)
LEMMA Storing ==
  ASSUME NEW M, NEW A, Packets(M, A), NEW p \in A, Len(M) \in Nat, Len(M) <= MaxMsgs,
         NEW h, DOMAIN h = {} \/ Sound(M, A, p.msg_id, h)
  PROVE  Sound(M, A, p.msg_id, Put(h, p))
<1> DEFINE fr == Put(h, p)
           D == DOMAIN h \cup {p.frag_index}
           rec == [msg |-> p.msg, piece |-> p.piece, len |-> p.len]
<1>1. p.msg \in 1 .. Len(M) /\ Packed(p, M[p.msg])
  BY DEF Packets
<1>2. /\ p.frag_index \in Nat /\ p.piece \in Nat /\ p.len \in Nat /\ M[p.msg].id = p.msg_id
      /\ M[p.msg].len > FragPayload => Cut(M[p.msg].len, p.frag_index, p.piece, p.len)
  BY <1>1 DEF Packed
<1>3. DOMAIN h \subseteq Nat /\ IsFiniteSet(DOMAIN h) /\ \A j \in DOMAIN h : h[j] \in Piece
  <2>1. CASE DOMAIN h = {}
    BY <2>1, FS_EmptySet
  <2>2. CASE Sound(M, A, p.msg_id, h)
    BY <2>2 DEF Sound
  <2> QED BY <2>1, <2>2
<1>4. MaxMsgs \in Nat
  BY ConstAssumption
<1>5. rec \in Piece /\ rec.msg = p.msg /\ rec.piece = p.piece /\ rec.len = p.len
  BY <1>1, <1>2, <1>4 DEF Piece
<1> HIDE DEF rec
<1>6. /\ DOMAIN fr = D /\ fr[p.frag_index] = rec
      /\ \A j \in D : j # p.frag_index => j \in DOMAIN h /\ fr[j] = h[j]
      /\ fr = [j \in D |-> fr[j]]
  BY DEF Put, rec
<1> HIDE DEF fr
<1>7. D \subseteq Nat /\ D # {} /\ IsFiniteSet(D) /\ fr \in [D -> Piece]
  <2>1. IsFiniteSet(D)
    BY <1>3, FS_AddElement
  <2>2. \A j \in D : fr[j] \in Piece
    BY <1>3, <1>5, <1>6
  <2> HIDE DEF Piece
  <2> QED BY <1>2, <1>3, <1>6, <2>1, <2>2
<1>8. ASSUME NEW j \in D
      PROVE  /\ fr[j].msg \in 1 .. Len(M) /\ M[fr[j].msg].id = p.msg_id
             /\ M[fr[j].msg].len > FragPayload => Cut(M[fr[j].msg].len, j, fr[j].piece, fr[j].len)
  <2>1. CASE j = p.frag_index
    BY <1>1, <1>2, <1>5, <1>6, <2>1
  <2>2. CASE j # p.frag_index
    <3>1. j \in DOMAIN h /\ fr[j] = h[j]
      BY <1>6, <2>2
    <3>2. Sound(M, A, p.msg_id, h)
      BY <3>1
    <3> QED BY <3>1, <3>2 DEF Sound
  <2> QED BY <2>1, <2>2
<1>9. ASSUME NEW j \in D, NEW q \in A, q.msg = fr[j].msg, ~ (M[q.msg].len > FragPayload)
      PROVE  q.frag_index = j
  <2>1. CASE j = p.frag_index
    BY <1>5, <1>6, <1>9, <2>1 DEF Packets
  <2>2. CASE j # p.frag_index
    <3>1. j \in DOMAIN h /\ fr[j] = h[j]
      BY <1>6, <2>2
    <3>2. Sound(M, A, p.msg_id, h)
      BY <3>1
    <3> QED BY <1>9, <3>1, <3>2 DEF Sound
  <2> QED BY <2>1, <2>2
<1>10. ASSUME NEW j \in D, NEW k \in D, fr[j].msg = fr[k].msg, ~ (M[fr[j].msg].len > FragPayload)
       PROVE  j = k
  <2>1. CASE j = p.frag_index
    <3>1. p.msg = fr[k].msg /\ ~ (M[p.msg].len > FragPayload)
      BY <1>5, <1>6, <1>10, <2>1
    <3> QED BY <1>9, <2>1, <3>1
  <2>2. CASE k = p.frag_index
    <3>1. p.msg = fr[j].msg /\ ~ (M[p.msg].len > FragPayload)
      BY <1>5, <1>6, <1>10, <2>2
    <3> QED BY <1>9, <2>2, <3>1
  <2>3. CASE j # p.frag_index /\ k # p.frag_index
    <3>1. j \in DOMAIN h /\ fr[j] = h[j] /\ k \in DOMAIN h /\ fr[k] = h[k]
      BY <1>6, <2>3
    <3>2. Sound(M, A, p.msg_id, h)
      BY <3>1
    <3> QED BY <1>10, <3>1, <3>2 DEF Sound
  <2> QED BY <2>1, <2>2, <2>3
<1> HIDE DEF D
<1> QED BY <1>6, <1>7, <1>8, <1>9, <1>10 DEF Sound, fr

(* When the pieces are all of a message, the packet that came last says so.*)
LEMMA Finishing ==
  ASSUME NEW M, NEW A, Packets(M, A), NEW p \in A, NEW h, NEW m \in 1 .. Len(M),
         M[m].len \in Nat \ {0}, M[m].len > FragPayload, Put(h, p) = WholeOf(M, m)
  PROVE  Cardinality(DOMAIN Put(h, p)) = p.frag_total
<1> DEFINE T == Total(M[m].len)
           W == WholeOf(M, m)
<1>1. T \in Nat \ {0}
  BY Pieces
<1>2. DOMAIN W = 0 .. T - 1 /\ \A j \in 0 .. T - 1 : W[j].msg = m
  <2> HIDE DEF T
  <2> QED BY DEF WholeOf, T
<1>3. p.frag_index \in DOMAIN Put(h, p) /\ Put(h, p)[p.frag_index].msg = p.msg
  BY DEF Put
<1>4. p.msg = m
  BY <1>2, <1>3
<1>5. p.frag_total = T
  BY <1>4 DEF Packets, Packed
<1>6. Cardinality(0 .. T - 1) = T
  <2> HIDE DEF T
  <2>1. 0 \in Int /\ T - 1 \in Int /\ ~ (0 > T - 1) /\ (T - 1) - 0 + 1 = T
    BY <1>1
  <2> QED BY <2>1, FS_Interval
<1> QED BY <1>2, <1>5, <1>6

(* The pieces fr, copied up to total_len, make message m.                  *)
Together(M, m, fr, total, total_len) ==
  /\ Offsets(fr, total, total_len)[total] = M[m].len
  /\ [j \in {k \in DOMAIN fr : k < total} |->
        [fr[j] EXCEPT !.len = Offsets(fr, total, total_len)[j + 1] - Offsets(fr, total, total_len)[j]]]
       = WholeOf(M, m)

(* A message that no other shares its id with is put together as it was    *)
(* cut.                                                                    *)
LEMMA PutTogether ==
  ASSUME NEW M, NEW A, Packets(M, A), NEW p \in A, NEW fr, Sound(M, A, p.msg_id, fr),
         Cardinality(DOMAIN fr) = p.frag_total, p.frag_total > 1,
         NEW m, Sole(M, m, p.msg_id), M[m].len \in Nat \ {0}
  PROVE  Together(M, m, fr, p.frag_total, p.total_len)
<1> DEFINE len == M[m].len
           T == Total(len)
           D == DOMAIN fr
<1>1. p.msg = m /\ Packed(p, M[m])
  BY DEF Packets, Packed, Sole
<1>2. \A j \in D : /\ fr[j].msg = m
                   /\ len > FragPayload => Cut(len, j, fr[j].piece, fr[j].len)
  BY DEF Sound, Sole
<1>3. D \subseteq Nat /\ D # {} /\ IsFiniteSet(D) /\ fr \in [D -> Piece]
  BY DEF Sound
<1>4. len > FragPayload
  <2> SUFFICES ASSUME ~ (len > FragPayload) PROVE FALSE
    OBVIOUS
  <2>1. \A j, k \in D : j = k
    BY <1>2 DEF Sound
  <2>2. PICK j \in D : TRUE
    BY <1>3
  <2>3. D = {j}
    BY <2>1, <2>2
  <2>4. Cardinality(D) = p.frag_total
    OBVIOUS
  <2> HIDE DEF D
  <2>5. Cardinality(D) = 1
    BY <2>3, FS_Singleton, Zenon
  <2> QED BY <2>4, <2>5
<1>5. p.frag_total = T /\ p.total_len = len
  BY <1>1, <1>4 DEF Packed
<1>6. T \in Nat \ {0}
  BY Pieces
<1>7. \A j \in D : j \in Nat /\ j < T /\ fr[j].piece = j /\ fr[j].len = FragLen(len, j)
  BY <1>2, <1>4 DEF Cut
<1> HIDE DEF T, D
<1>8. D = 0 .. T - 1
  <2>1. D \in SUBSET (0 .. T - 1)
    BY <1>6, <1>7
  <2>2. 0 \in Int /\ T - 1 \in Int /\ ~ (0 > T - 1) /\ (T - 1) - 0 + 1 = T
    BY <1>6
  <2>3. IsFiniteSet(0 .. T - 1) /\ Cardinality(0 .. T - 1) = T
    BY <2>2, FS_Interval
  <2>4. Cardinality(D) = T
    BY <1>5 DEF D
  <2> QED BY <2>1, <2>3, <2>4, FS_Subset
<1> DEFINE off == Offsets(fr, T, len)
<1>9. off[T] = len /\ \A j \in 0 .. T - 1 : off[j + 1] - off[j] = FragLen(len, j)
  <2>1. DOMAIN fr = 0 .. Total(len) - 1
    BY <1>8 DEF T, D
  <2>2. \A j \in 0 .. Total(len) - 1 : fr[j].len = FragLen(len, j)
    BY <1>7, <1>8 DEF T
  <2> HIDE DEF len
  <2>3. len \in Nat \ {0}
    BY DEF len
  <2> QED BY <2>1, <2>2, <2>3, Copied, Zenon DEF T
<1> HIDE DEF off
<1>10. {k \in D : k < T} = 0 .. T - 1
  BY <1>7, <1>8
<1>11. \A j \in 0 .. T - 1 : [fr[j] EXCEPT !.len = off[j + 1] - off[j]]
                               = [msg |-> m, piece |-> j, len |-> FragLen(len, j)]
  <2> SUFFICES ASSUME NEW j \in 0 .. T - 1
               PROVE  [fr[j] EXCEPT !.len = off[j + 1] - off[j]]
                        = [msg |-> m, piece |-> j, len |-> FragLen(len, j)]
    OBVIOUS
  <2>1. off[j + 1] - off[j] = FragLen(len, j) /\ fr[j].msg = m /\ fr[j].piece = j
    BY <1>2, <1>7, <1>8, <1>9
  <2>2. fr[j] \in Piece
    <3> HIDE DEF Piece
    <3> QED BY <1>3, <1>8
  <2>3. fr[j] = [msg |-> fr[j].msg, piece |-> fr[j].piece, len |-> fr[j].len]
    BY <2>2 DEF Piece
  <2> DEFINE r == fr[j]
             d == off[j + 1] - off[j]
  <2>4. r = [msg |-> m, piece |-> j, len |-> r.len]
    BY <2>1, <2>3
  <2> HIDE DEF r, d
  <2>5. [r EXCEPT !.len = d] = [msg |-> m, piece |-> j, len |-> d]
    BY <2>4
  <2> QED BY <2>1, <2>5 DEF r, d
<1>12. [j \in {k \in D : k < T} |-> [fr[j] EXCEPT !.len = off[j + 1] - off[j]]] = WholeOf(M, m)
  <2>1. [j \in {k \in D : k < T} |-> [fr[j] EXCEPT !.len = off[j + 1] - off[j]]]
          = [j \in 0 .. T - 1 |-> [msg |-> m, piece |-> j, len |-> FragLen(len, j)]]
    BY <1>10, <1>11, Zenon
  <2> QED BY <2>1, Zenon DEF WholeOf, T
<1> QED BY <1>5, <1>9, <1>12 DEF Together, off, D

-----------------------------------------------------------------------------
(* One more message: the earlier ones keep their numbers.                  *)
LEMMA OneMore ==
  ASSUME NEW M \in Seq(Msg), NEW x \in Msg
  PROVE  /\ Append(M, x) \in Seq(Msg) /\ Len(Append(M, x)) = Len(M) + 1 /\ Len(M) \in Nat
         /\ \A m \in 1 .. Len(M) : /\ m \in 1 .. Len(M) + 1 /\ Append(M, x)[m] = M[m]
                                   /\ m # Len(M) + 1
         /\ Len(M) + 1 \in 1 .. Len(M) + 1 /\ Append(M, x)[Len(M) + 1] = x
         /\ \A m \in 1 .. Len(M) + 1 : m \in 1 .. Len(M) \/ m = Len(M) + 1
<1> HIDE DEF Msg
<1>1. Append(M, x) \in Seq(Msg) /\ Len(Append(M, x)) = Len(M) + 1 /\ Len(M) \in Nat
  BY OneAppended
<1>2. \A m \in 1 .. Len(M) : Append(M, x)[m] = M[m]
  BY OneAppended
<1>3. Append(M, x)[Len(M) + 1] = x
  BY OneAppended
<1> DEFINE L == Len(M)
<1>4. L \in Nat
  BY <1>1
<1> HIDE DEF L
<1>5. /\ \A m \in 1 .. L : m \in 1 .. L + 1 /\ m # L + 1
      /\ L + 1 \in 1 .. L + 1
      /\ \A m \in 1 .. L + 1 : m \in 1 .. L \/ m = L + 1
  BY <1>4
<1> QED BY <1>1, <1>2, <1>3, <1>5, Zenon DEF L

(* The packets N are those of a new message x.                             *)
Cuts(N, x, m) ==
  /\ \A p \in N : p.msg = m /\ Packed(p, x)
  /\ ~ (x.len > FragPayload) => \A p, q \in N : p.frag_index = q.frag_index

(* The packets of a new message join those on the air.                     *)
LEMMA Sending ==
  ASSUME NEW M \in Seq(Msg), NEW x \in Msg, NEW A, Packets(M, A), NEW N, Cuts(N, x, Len(M) + 1)
  PROVE  Packets(Append(M, x), A \cup N)
<1> DEFINE K == Append(M, x)
           L == Len(M)
<1>1. /\ Len(K) = L + 1 /\ (\A m \in 1 .. L : m \in 1 .. L + 1 /\ K[m] = M[m] /\ m # L + 1)
      /\ L + 1 \in 1 .. L + 1 /\ K[L + 1] = x
  BY OneMore, Zenon
<1> HIDE DEF K, L
<1>2. \A p \in A : p.msg \in 1 .. L /\ Packed(p, M[p.msg])
  BY DEF Packets, L
<1>3. \A p \in N : p.msg = L + 1 /\ Packed(p, x)
  BY DEF Cuts, L
<1>4. \A p \in A \cup N : p.msg \in 1 .. Len(K) /\ Packed(p, K[p.msg])
  <2> SUFFICES ASSUME NEW p \in A \cup N PROVE p.msg \in 1 .. L + 1 /\ Packed(p, K[p.msg])
    BY <1>1
  <2>1. CASE p \in A
    <3>1. p.msg \in 1 .. L + 1 /\ K[p.msg] = M[p.msg] /\ Packed(p, M[p.msg])
      BY <1>1, <1>2, <2>1
    <3> QED BY <3>1, Zenon
  <2>2. CASE p \in N
    <3>1. p.msg = L + 1 /\ K[p.msg] = x /\ Packed(p, x)
      BY <1>1, <1>3, <2>2
    <3> QED BY <1>1, <3>1, Zenon
  <2> QED BY <2>1, <2>2
<1>5. ASSUME NEW p \in A \cup N, NEW q \in A \cup N, p.msg = q.msg, ~ (K[p.msg].len > FragPayload)
      PROVE  p.frag_index = q.frag_index
  <2>1. CASE p \in A /\ q \in A
    BY <1>1, <1>2, <1>5, <2>1 DEF Packets
  <2>2. CASE p \in N /\ q \in N
    BY <1>1, <1>3, <1>5, <2>2 DEF Cuts
  <2>3. ~ (p \in A /\ q \in N) /\ ~ (p \in N /\ q \in A)
    BY <1>1, <1>2, <1>3, <1>5
  <2> QED BY <2>1, <2>2, <2>3
<1> QED BY <1>4, <1>5 DEF Packets, K

(* What is held of the earlier messages is untouched by it.                *)
LEMMA HeldStays ==
  ASSUME NEW M \in Seq(Msg), NEW x \in Msg, NEW A, NEW N, Cuts(N, x, Len(M) + 1),
         NEW id, NEW fr, Sound(M, A, id, fr), Unfinished(M, fr)
  PROVE  Sound(Append(M, x), A \cup N, id, fr) /\ Unfinished(Append(M, x), fr)
<1> DEFINE K == Append(M, x)
           L == Len(M)
<1>1. /\ Len(K) = L + 1 /\ (\A m \in 1 .. L : m \in 1 .. L + 1 /\ K[m] = M[m] /\ m # L + 1)
      /\ L + 1 \in 1 .. L + 1 /\ (\A m \in 1 .. L + 1 : m \in 1 .. L \/ m = L + 1)
  BY OneMore, Zenon
<1> HIDE DEF K, L
<1>2. \A q \in N : q.msg = L + 1
  BY DEF Cuts, L
<1>3. /\ DOMAIN fr \subseteq Nat /\ DOMAIN fr # {} /\ IsFiniteSet(DOMAIN fr)
      /\ fr \in [DOMAIN fr -> Piece]
      /\ \A j \in DOMAIN fr : fr[j].msg \in 1 .. L /\ K[fr[j].msg] = M[fr[j].msg]
                              /\ fr[j].msg # L + 1
  BY <1>1 DEF Sound, L
<1>4. Sound(K, A \cup N, id, fr)
  <2>1. ASSUME NEW j \in DOMAIN fr
        PROVE  /\ fr[j].msg \in 1 .. Len(K) /\ K[fr[j].msg].id = id
               /\ K[fr[j].msg].len > FragPayload => Cut(K[fr[j].msg].len, j, fr[j].piece, fr[j].len)
    BY <1>1, <1>3 DEF Sound
  <2>2. ASSUME NEW j \in DOMAIN fr, NEW k \in DOMAIN fr, fr[j].msg = fr[k].msg,
               ~ (K[fr[j].msg].len > FragPayload)
        PROVE  j = k
    BY <1>3, <2>2 DEF Sound
  <2>3. ASSUME NEW j \in DOMAIN fr, NEW q \in A \cup N, q.msg = fr[j].msg,
               ~ (K[q.msg].len > FragPayload)
        PROVE  q.frag_index = j
    <3>1. q \in A
      BY <1>2, <1>3, <2>3
    <3> QED BY <1>3, <2>3, <3>1 DEF Sound
  <2> QED BY <1>3, <2>1, <2>2, <2>3 DEF Sound
<1>5. ASSUME NEW m \in 1 .. L + 1, K[m].len > FragPayload, fr = WholeOf(K, m) PROVE FALSE
  <2>1. \A j \in DOMAIN WholeOf(K, m) : WholeOf(K, m)[j].msg = m
    BY DEF WholeOf
  <2>2. m \in 1 .. L
    BY <1>1, <1>3, <1>5, <2>1
  <2>3. WholeOf(K, m) = WholeOf(M, m)
    BY <1>1, <2>2 DEF WholeOf
  <2> QED BY <1>1, <1>5, <2>2, <2>3 DEF Unfinished, L
<1> QED BY <1>1, <1>4, <1>5 DEF Unfinished, K

(* What was returned still is what it was.                                 *)
LEMMA ReturnedStays ==
  ASSUME NEW M \in Seq(Msg), NEW x \in Msg, NEW o, Returned(M, o)
  PROVE  Returned(Append(M, x), o)
<1> DEFINE K == Append(M, x)
           L == Len(M)
<1>1. /\ Len(K) = L + 1 /\ (\A m \in 1 .. L : m \in 1 .. L + 1 /\ K[m] = M[m] /\ m # L + 1)
      /\ L + 1 \in 1 .. L + 1 /\ (\A m \in 1 .. L + 1 : m \in 1 .. L \/ m = L + 1)
  BY OneMore, Zenon
<1> HIDE DEF K, L
<1>2. PICK k \in 1 .. L : M[k].id = o.id
  BY DEF Returned, L
<1>3. \E m \in 1 .. Len(K) : K[m].id = o.id
  BY <1>1, <1>2
<1>4. ASSUME NEW m, Sole(K, m, o.id) PROVE o.pieces = WholeOf(K, m) /\ o.len = K[m].len
  <2>1. m = k
    BY <1>1, <1>2, <1>4 DEF Sole
  <2>2. Sole(M, m, o.id)
    BY <1>1, <1>2, <1>4, <2>1 DEF Sole, L
  <2>3. WholeOf(K, m) = WholeOf(M, m)
    BY <1>1, <1>2, <2>1 DEF WholeOf
  <2> QED BY <1>1, <1>2, <2>1, <2>2, <2>3 DEF Returned
<1> QED BY <1>3, <1>4 DEF Returned, K

(* Fewer packets on the air change nothing.                                *)
LEMMA Fewer ==
  ASSUME NEW M, NEW A, NEW N, N \subseteq A
  PROVE  /\ Packets(M, A) => Packets(M, N)
         /\ \A id, fr : Sound(M, A, id, fr) => Sound(M, N, id, fr)
<1>1. Packets(M, A) => Packets(M, N)
  BY DEF Packets
<1>2. ASSUME NEW id, NEW fr, Sound(M, A, id, fr) PROVE Sound(M, N, id, fr)
  <2> HIDE DEF Piece
  <2> QED BY <1>2 DEF Sound
<1> QED BY <1>1, <1>2

-----------------------------------------------------------------------------
(* The inductive invariant.                                                *)
Typed ==
  /\ next_msg_id \in [Sender -> Ids] /\ turns \in 0 .. Period - 1
  /\ msgs \in Seq(Msg) /\ Len(msgs) <= MaxMsgs
  /\ restarts \in 0 .. MaxRestarts /\ dups \in 0 .. MaxDups

Partial(M, A, id, x) ==
  /\ x = [fragments |-> x.fragments, age |-> x.age, since |-> x.since]
  /\ x.age \in Seconds /\ x.since = x.age
  /\ Sound(M, A, id, x.fragments) /\ Unfinished(M, x.fragments)
Holding(M, A, P) == DOMAIN P \subseteq Ids /\ \A id \in DOMAIN P : Partial(M, A, id, P[id])

Inv ==
  /\ Typed /\ Packets(msgs, air) /\ Holding(msgs, air, partials)
  /\ \A o \in outputs : Returned(msgs, o)

(* The constants, as the steps need them.                                  *)
LEMMA Known ==
  /\ FragPayload \in Nat \ {0} /\ MaxOut \in Nat /\ IdWidth \in Nat /\ IdWidth > 1
  /\ Lens \subseteq Nat \ {0} /\ IvIndex \subseteq Nat /\ IvTotal \subseteq Nat /\ IvLen \subseteq Nat
  /\ Timeout \in Nat /\ Period \in Nat \ {0}
  /\ MaxMsgs \in Nat /\ MaxRestarts \in Nat /\ MaxDups \in Nat
BY ConstAssumption

(* The invariant holds where a run begins.                                 *)
LEMMA Begins ==
  Init => Inv
<1> SUFFICES ASSUME Init PROVE Inv
  OBVIOUS
<1>1. 1 \in Ids /\ 0 \in 0 .. Period - 1 /\ 0 \in 0 .. MaxRestarts /\ 0 \in 0 .. MaxDups
  BY Known DEF Ids
<1>2. msgs = <<>> /\ <<>> \in Seq(Msg) /\ Len(<<>>) = 0 /\ 0 <= MaxMsgs
  BY Known DEF Init
<1>3. Typed
  <2>1. next_msg_id \in [Sender -> Ids]
    BY <1>1 DEF Init
  <2> QED BY <1>1, <1>2, <2>1 DEF Init, Typed
<1>4. Packets(msgs, air) /\ Holding(msgs, air, partials) /\ outputs = {}
  BY DEF Init, Packets, Holding
<1> QED BY <1>3, <1>4 DEF Inv

(* A new message is appended, and its packets are on the air.              *)
LEMMA Grown ==
  ASSUME Inv, NEW x \in Msg, NEW N, Cuts(N, x, Len(msgs) + 1), Len(msgs) < MaxMsgs,
         msgs' = Append(msgs, x), air' = air \cup N, UNCHANGED <<partials, outputs>>
  PROVE  /\ msgs' \in Seq(Msg) /\ Len(msgs') <= MaxMsgs
         /\ Packets(msgs', air') /\ Holding(msgs', air', partials')
         /\ \A o \in outputs' : Returned(msgs', o)
<1>1. msgs \in Seq(Msg)
  BY DEF Inv, Typed
<1>2. msgs' \in Seq(Msg) /\ Len(msgs') = Len(msgs) + 1 /\ Len(msgs) \in Nat
  BY <1>1, OneMore
<1>3. Packets(msgs', air')
  BY <1>1, Sending DEF Inv
<1>4. ASSUME NEW id \in DOMAIN partials PROVE Partial(msgs', air', id, partials[id])
  <2>1. Partial(msgs, air, id, partials[id])
    BY DEF Inv, Holding
  <2>2. /\ Sound(msgs', air', id, partials[id].fragments)
        /\ Unfinished(msgs', partials[id].fragments)
    BY <1>1, <2>1, HeldStays DEF Partial
  <2> QED BY <2>1, <2>2 DEF Partial
<1>5. Holding(msgs', air', partials')
  BY <1>4 DEF Inv, Holding
<1>6. \A o \in outputs' : Returned(msgs', o)
  BY <1>1, ReturnedStays DEF Inv
<1>7. Len(msgs') <= MaxMsgs
  BY <1>2, Known
<1> QED BY <1>2, <1>3, <1>5, <1>6, <1>7

(* fragment_message, for a message of several packets.                     *)
LEMMA SendsFragments ==
  ASSUME Inv, NEW s \in Sender, NEW len \in Lens, SendFragments(s, len)
  PROVE  Inv'
<1> DEFINE id == next_msg_id[s]
           m == Len(msgs) + 1
           x == [len |-> len, id |-> id]
           N == {Packet(m, j, FragLen(len, j), id, j, Total(len), len) : j \in 0 .. Total(len) - 1}
<1>1. /\ Len(msgs) < MaxMsgs /\ len > FragPayload /\ air' = air \cup N /\ msgs' = Append(msgs, x)
      /\ next_msg_id' = [next_msg_id EXCEPT ![s] = NextId(id)]
      /\ UNCHANGED <<partials, turns, outputs, restarts, dups>>
  BY DEF SendFragments
<1>2. len \in Nat \ {0} /\ Total(len) \in Nat \ {0}
  BY Known, Pieces
<1>3. id \in Ids /\ x \in Msg
  BY DEF Inv, Typed, Msg
<1>4. Cuts(N, x, m)
  <2> SUFFICES ASSUME NEW p \in N PROVE p.msg = m /\ Packed(p, x)
    BY <1>1 DEF Cuts
  <2>1. PICK j \in 0 .. Total(len) - 1 :
               p = Packet(m, j, FragLen(len, j), id, j, Total(len), len)
    OBVIOUS
  <2>2. j \in Nat /\ j < Total(len)
    BY <1>2
  <2>3. FragLen(len, j) \in Nat
    BY <1>2, <2>2, PieceLen
  <2>4. id \in Nat
    BY <1>3, Known DEF Ids
  <2> HIDE DEF N, id
  <2>5. /\ p.msg = m /\ p.piece = j /\ p.len = FragLen(len, j) /\ p.msg_id = id
        /\ p.frag_index = j /\ p.frag_total = Total(len) /\ p.total_len = len
    BY <2>1 DEF Packet
  <2>6. Packed(p, x)
    BY <1>2, <2>2, <2>3, <2>5 DEF Packed, Cut
  <2> QED BY <2>5, <2>6
<1>5. NextId(id) \in Ids
  BY <1>3, Known DEF NextId, Ids
<1>6. next_msg_id' \in [Sender -> Ids]
  BY <1>1, <1>5 DEF Inv, Typed
<1> HIDE DEF N, x
<1>7. /\ msgs' \in Seq(Msg) /\ Len(msgs') <= MaxMsgs
      /\ Packets(msgs', air') /\ Holding(msgs', air', partials')
      /\ \A o \in outputs' : Returned(msgs', o)
  BY <1>1, <1>3, <1>4, Grown
<1>8. Typed'
  BY <1>1, <1>6, <1>7 DEF Inv, Typed
<1> QED BY <1>7, <1>8 DEF Inv

(* The same, for a message of one packet.                                  *)
LEMMA SendsSingle ==
  ASSUME Inv, NEW len \in Lens, NEW id \in Ids, NEW index \in IvIndex, NEW total \in IvTotal,
         NEW total_len \in IvLen, SendSingle(len, id, index, total, total_len)
  PROVE  Inv'
<1> DEFINE m == Len(msgs) + 1
           x == [len |-> len, id |-> id]
           p == Packet(m, 0, len, id, index, total, total_len)
           N == {p}
<1>1. /\ Len(msgs) < MaxMsgs /\ len <= FragPayload /\ air' = air \cup N /\ msgs' = Append(msgs, x)
      /\ UNCHANGED <<next_msg_id, partials, turns, outputs, restarts, dups>>
  BY DEF SendSingle
<1>2. /\ p.msg = m /\ p.piece = 0 /\ p.len = len /\ p.msg_id = id
      /\ p.frag_index = index /\ p.frag_total = total /\ p.total_len = total_len
  BY DEF Packet
<1>3. x \in Msg
  BY DEF Msg
<1> HIDE DEF p
<1>4. Packed(p, x)
  BY <1>1, <1>2, Known DEF Packed
<1>5. Cuts(N, x, m)
  BY <1>2, <1>4 DEF Cuts
<1> HIDE DEF N, x
<1>6. /\ msgs' \in Seq(Msg) /\ Len(msgs') <= MaxMsgs
      /\ Packets(msgs', air') /\ Holding(msgs', air', partials')
      /\ \A o \in outputs' : Returned(msgs', o)
  BY <1>1, <1>3, <1>5, Grown
<1>7. Typed'
  BY <1>1, <1>6 DEF Inv, Typed
<1> QED BY <1>6, <1>7 DEF Inv

(* Fewer packets on the air, and all else the same.                        *)
LEMMA Shrunk ==
  ASSUME Inv, NEW N, N \subseteq air
  PROVE  Packets(msgs, N) /\ Holding(msgs, N, partials)
<1>1. Packets(msgs, N)
  BY Fewer DEF Inv
<1>2. ASSUME NEW id \in DOMAIN partials PROVE Partial(msgs, N, id, partials[id])
  <2>1. Partial(msgs, air, id, partials[id])
    BY DEF Inv, Holding
  <2>2. Sound(msgs, N, id, partials[id].fragments)
    BY <2>1, Fewer DEF Partial
  <2> QED BY <2>1, <2>2 DEF Partial
<1> QED BY <1>1, <1>2 DEF Inv, Holding

(* reassemble_packet: what is held stays sound, and what is returned is    *)
(* the message or shares its id.                                           *)
LEMMA Reassembles ==
  ASSUME Inv, NEW p \in air, air' \subseteq air, UNCHANGED msgs, p.frag_total > 1, Reassemble(p)
  PROVE  Holding(msgs', air', partials') /\ \A o \in outputs' : Returned(msgs', o)
<1> DEFINE id == p.msg_id
           h == Held(id)
           fr == Put(h, p)
<1>1. /\ Packets(msgs, air) /\ msgs \in Seq(Msg) /\ Len(msgs) \in Nat /\ Len(msgs) <= MaxMsgs
      /\ Holding(msgs, air, partials) /\ Holding(msgs, air', partials)
  BY Shrunk DEF Inv, Typed
<1>2. p.msg \in 1 .. Len(msgs) /\ msgs[p.msg].id = id
  BY <1>1 DEF Packets, Packed
<1>3. \A m \in 1 .. Len(msgs) : msgs[m].len \in Nat \ {0} /\ msgs[m].id \in Ids
  <2>1. \A x \in Msg : x.len \in Nat \ {0} /\ x.id \in Ids
    BY Known DEF Msg
  <2>2. \A m \in 1 .. Len(msgs) : msgs[m] \in Msg
    BY <1>1
  <2> QED BY <2>1, <2>2
<1>4. p.frag_total \in Nat /\ p.total_len \in Nat
  BY <1>1 DEF Packets, Packed
<1>5. DOMAIN h = {} \/ Sound(msgs, air, id, h)
  BY <1>1 DEF Held, Holding, Partial
<1>6. Stored(p) = [fragments |-> fr, age |-> 0, since |-> 0]
  BY DEF Stored, Put, AgeAfter
<1> HIDE DEF h
<1>7. Sound(msgs, air, id, fr)
  BY <1>1, <1>5, Storing
<1>8. Sound(msgs, air', id, fr)
  BY <1>7, Fewer
<1> HIDE DEF fr
<1>9. Stored(p).fragments = fr /\ (Complete(p) <=> Cardinality(DOMAIN fr) = p.frag_total)
  BY <1>6 DEF Complete
<1>10. CASE Complete(p)
  <2>1. partials' = [j \in DOMAIN partials \ {id} |-> partials[j]]
    BY <1>10 DEF Reassemble, Without
  <2>2. Holding(msgs', air', partials')
    BY <1>1, <2>1 DEF Holding
  <2>3. ASSUME Fits(p) PROVE Returned(msgs, Assembled(p))
    <3> DEFINE off == Offsets(fr, p.frag_total, p.total_len)
               o == Assembled(p)
    <3>1. o = [id |-> p.msg_id, declared |-> p.total_len, len |-> off[p.frag_total],
               pieces |-> [j \in {k \in DOMAIN fr : k < p.frag_total} |->
                             [fr[j] EXCEPT !.len = off[j + 1] - off[j]]]]
      BY <1>9 DEF Assembled
    <3>2. o.id = id /\ o.declared = p.total_len /\ o.len = off[p.frag_total]
      BY <3>1
    <3>3. \A j \in DOMAIN fr : fr[j].len \in Nat
      BY <1>7 DEF Sound, Piece
    <3>4. off \in [0 .. p.frag_total -> 0 .. p.total_len]
      BY <1>4, <3>3, OffsetsDef
    <3>5. off[p.frag_total] \in 0 .. p.total_len
      <4> HIDE DEF off
      <4> QED BY <1>4, <3>4
    <3>6. p.total_len <= MaxOut /\ MaxOut \in Nat
      BY <2>3, Known DEF Fits
    <3>7. o.len <= o.declared /\ o.len <= MaxOut
      <4> HIDE DEF o, off
      <4> QED BY <1>4, <3>2, <3>5, <3>6
    <3>8. ASSUME NEW m, Sole(msgs, m, id)
          PROVE  o.pieces = WholeOf(msgs, m) /\ o.len = msgs[m].len
      <4>1. msgs[m].len \in Nat \ {0}
        BY <1>3, <3>8 DEF Sole
      <4>2. /\ off[p.frag_total] = msgs[m].len
            /\ [j \in {k \in DOMAIN fr : k < p.frag_total} |->
                  [fr[j] EXCEPT !.len = off[j + 1] - off[j]]] = WholeOf(msgs, m)
        <5>1. Cardinality(DOMAIN fr) = p.frag_total
          BY <1>9, <1>10
        <5>2. Together(msgs, m, fr, p.frag_total, p.total_len)
          BY <1>1, <1>7, <3>8, <4>1, <5>1, PutTogether
        <5> QED BY <5>2, Zenon DEF Together
      <4>3. o.pieces = WholeOf(msgs, m)
        <5> HIDE DEF off
        <5> QED BY <3>1, <4>2
      <4> QED BY <3>2, <4>2, <4>3
    <3> HIDE DEF o
    <3> QED BY <1>2, <3>2, <3>7, <3>8 DEF Returned, o
  <2>4. \A o \in outputs' : Returned(msgs, o)
    BY <1>10, <2>3 DEF Inv, Reassemble
  <2> QED BY <2>2, <2>4
<1>11. CASE ~ Complete(p)
  <2>1. outputs' = outputs
    BY <1>11 DEF Reassemble
  <2>2. partials' = [j \in DOMAIN partials \cup {id} |-> IF j = id THEN Stored(p) ELSE partials[j]]
    BY <1>11 DEF Reassemble, With
  <2>3. Unfinished(msgs, fr)
    <3>1. ASSUME NEW m \in 1 .. Len(msgs), msgs[m].len > FragPayload, fr = WholeOf(msgs, m)
          PROVE  FALSE
      <4>1. Cardinality(DOMAIN fr) = p.frag_total
        BY <1>1, <1>3, <3>1, Finishing DEF fr
      <4> QED BY <1>9, <1>11, <4>1
    <3> QED BY <3>1 DEF Unfinished
  <2>4. Partial(msgs, air', id, Stored(p))
    <3>1. 0 \in Seconds
      BY Known DEF Seconds
    <3> QED BY <1>6, <1>8, <2>3, <3>1 DEF Partial
  <2>5. id \in Ids
    BY <1>2, <1>3
  <2>6. Holding(msgs', air', partials')
    BY <1>1, <2>2, <2>4, <2>5 DEF Holding
  <2> QED BY <2>1, <2>6 DEF Inv
<1> QED BY <1>10, <1>11

(* The DATA handler.                                                       *)
LEMMA Receives ==
  ASSUME Inv, NEW p \in air, Receive(p)
  PROVE  Inv'
<1>1. air' \subseteq air /\ dups' \in 0 .. MaxDups
  BY Known DEF Receive, Inv, Typed
<1>2. Typed'
  BY <1>1 DEF Receive, Inv, Typed
<1>3. Packets(msgs', air')
  BY <1>1, Shrunk DEF Receive
<1>4. Holding(msgs', air', partials') /\ \A o \in outputs' : Returned(msgs', o)
  <2>1. CASE p.frag_total > 1
    BY <1>1, <2>1, Reassembles DEF Receive
  <2>2. CASE ~ (p.frag_total > 1)
    <3>1. UNCHANGED <<msgs, partials, outputs>>
      BY <2>2 DEF Receive
    <3> QED BY <1>1, <3>1, Shrunk DEF Inv
  <2> QED BY <2>1, <2>2
<1> QED BY <1>2, <1>3, <1>4 DEF Inv

(* A lost packet changes nothing that is held.                             *)
LEMMA Loses ==
  ASSUME Inv, NEW p \in air, Lose(p)
  PROVE  Inv'
<1>1. air' \subseteq air /\ UNCHANGED <<next_msg_id, partials, turns, msgs, outputs, restarts, dups>>
  BY DEF Lose
<1>2. Typed'
  BY <1>1 DEF Inv, Typed
<1> QED BY <1>1, <1>2, Shrunk DEF Inv

(* The outer loop, with cleanup_stale.                                     *)
LEMMA Turns ==
  ASSUME Inv, Turn
  PROVE  Inv'
<1>1. UNCHANGED <<next_msg_id, air, msgs, outputs, restarts, dups>>
  BY DEF Turn
<1>2. turns' \in 0 .. Period - 1
  BY Known DEF Inv, Typed, Turn
<1>3. Typed'
  BY <1>1, <1>2 DEF Inv, Typed
<1>4. DOMAIN partials' \subseteq DOMAIN partials /\ \A id \in DOMAIN partials' : partials'[id] = partials[id]
  BY DEF Turn, cleanup_stale
<1>5. Holding(msgs', air', partials')
  BY <1>1, <1>4 DEF Inv, Holding
<1> QED BY <1>1, <1>3, <1>5 DEF Inv

(* Time passes for every partial message alike.                            *)
LEMMA Ticks ==
  ASSUME Inv, Tick
  PROVE  Inv'
<1>1. UNCHANGED <<next_msg_id, turns, air, msgs, outputs, restarts, dups>>
  BY DEF Tick
<1>2. Typed'
  BY <1>1 DEF Inv, Typed
<1>3. \A n \in Seconds : Later(n) \in Seconds
  <2> SUFFICES ASSUME NEW n \in Seconds PROVE Later(n) \in Seconds
    OBVIOUS
  <2>1. n \in Nat /\ n + 1 \in Int /\ Timeout + 1 \in Int /\ Timeout \in Nat
    BY Known DEF Seconds
  <2>2. Later(n) = IF n + 1 <= Timeout + 1 THEN n + 1 ELSE Timeout + 1
    BY <2>1, Lesser DEF Later
  <2> QED BY <2>1, <2>2 DEF Seconds
<1>4. ASSUME NEW id \in DOMAIN partials PROVE Partial(msgs, air, id, partials'[id])
  <2> DEFINE x == partials[id]
  <2>1. Partial(msgs, air, id, x)
    BY DEF Inv, Holding
  <2>2. partials'[id] = [x EXCEPT !.age = Later(x.age), !.since = Later(x.since)]
    BY DEF Tick
  <2> HIDE DEF x
  <2>3. partials'[id] = [fragments |-> x.fragments, age |-> Later(x.age), since |-> Later(x.since)]
    BY <2>1, <2>2 DEF Partial
  <2> QED BY <1>3, <2>1, <2>3 DEF Partial
<1>5. DOMAIN partials' = DOMAIN partials
  BY DEF Tick
<1>6. Holding(msgs', air', partials')
  BY <1>1, <1>4, <1>5 DEF Inv, Holding
<1> QED BY <1>1, <1>2, <1>6 DEF Inv

(* A node that is started anew has no id used and nothing held.            *)
LEMMA Restarts ==
  ASSUME Inv, (\E s \in Sender : RestartSender(s)) \/ RestartReceiver
  PROVE  Inv'
<1>1. CASE \E s \in Sender : RestartSender(s)
  <2>1. PICK s \in Sender : RestartSender(s)
    BY <1>1
  <2>2. 1 \in Ids
    BY Known DEF Ids
  <2>3. next_msg_id' \in [Sender -> Ids] /\ restarts' \in 0 .. MaxRestarts
    BY <2>1, <2>2, Known DEF Inv, Typed, RestartSender
  <2> QED BY <2>1, <2>3 DEF Inv, Typed, RestartSender
<1>2. CASE RestartReceiver
  <2>1. restarts' \in 0 .. MaxRestarts /\ 0 \in 0 .. Period - 1
    BY <1>2, Known DEF Inv, Typed, RestartReceiver
  <2>2. Holding(msgs', air', partials')
    BY <1>2 DEF Holding, RestartReceiver
  <2> QED BY <1>2, <2>1, <2>2 DEF Inv, Typed, RestartReceiver
<1> QED BY <1>1, <1>2

(* Every step keeps the invariant.                                         *)
LEMMA Preserved ==
  Inv /\ [Next]_vars => Inv'
<1> SUFFICES ASSUME Inv, [Next]_vars PROVE Inv'
  OBVIOUS
<1>1. ASSUME NEW s \in Sender, NEW len \in Lens, SendFragments(s, len) PROVE Inv'
  BY <1>1, SendsFragments
<1>2. ASSUME NEW len \in Lens, NEW id \in Ids, NEW index \in IvIndex, NEW total \in IvTotal,
             NEW total_len \in IvLen, SendSingle(len, id, index, total, total_len)
      PROVE  Inv'
  BY <1>2, SendsSingle
<1>3. ASSUME NEW p \in air, Receive(p) PROVE Inv'
  BY <1>3, Receives
<1>4. ASSUME NEW p \in air, Lose(p) PROVE Inv'
  BY <1>4, Loses
<1>5. CASE Turn
  BY <1>5, Turns
<1>6. CASE Tick
  BY <1>6, Ticks
<1>7. CASE (\E s \in Sender : RestartSender(s)) \/ RestartReceiver
  BY <1>7, Restarts
<1>8. CASE UNCHANGED vars
  BY <1>8 DEF vars, Inv, Typed
<1> QED BY <1>1, <1>2, <1>3, <1>4, <1>5, <1>6, <1>7, <1>8 DEF Next

-----------------------------------------------------------------------------
(* The invariant holds in every state of every run, for any lengths, ids,  *)
(* buffer and timeout, and whatever the air and the nodes do.              *)
THEOREM Invariance ==
  Spec => []Inv
BY Begins, Preserved, PTL DEF Spec

(* What fragment_message counts, and what reassemble_packet keeps, has its *)
(* type; what is kept is never empty.                                      *)
THEOREM TypeCorrect ==
  Spec => []TypeOK
<1>1. Inv => TypeOK
  <2> SUFFICES ASSUME Inv PROVE TypeOK
    OBVIOUS
  <2>1. ASSUME NEW id \in DOMAIN partials
        PROVE  /\ partials[id].age \in Seconds /\ partials[id].since \in Seconds
               /\ DOMAIN partials[id].fragments \in (SUBSET Nat) \ {{}}
               /\ \A i \in DOMAIN partials[id].fragments : partials[id].fragments[i] \in Piece
    <3>1. Partial(msgs, air, id, partials[id])
      BY DEF Inv, Holding
    <3>2. /\ partials[id].age \in Seconds /\ partials[id].since \in Seconds
          /\ Sound(msgs, air, id, partials[id].fragments)
      BY <3>1 DEF Partial
    <3> HIDE DEF Piece
    <3> QED BY <3>2 DEF Sound
  <2> QED BY <2>1 DEF Inv, Typed, Holding, Msg, TypeOK
<1> QED BY <1>1, Invariance, PTL

(* Whole, by the number of pieces.                                         *)
LEMMA WholeIs ==
  ASSUME msgs \in Seq(Msg), NEW m \in 1 .. Len(msgs)
  PROVE  Whole(m) = WholeOf(msgs, m) /\ DOMAIN msgs = 1 .. Len(msgs)
<1> DEFINE len == msgs[m].len
           T == Total(len)
<1>1. msgs[m] \in Msg /\ DOMAIN msgs = 1 .. Len(msgs)
  OBVIOUS
<1>2. len \in Nat \ {0}
  BY <1>1, Known DEF Msg
<1> HIDE DEF len
<1>3. T \in Nat \ {0} /\ (\A j \in Nat : j * FragPayload < len <=> j < T)
  BY <1>2, Pieces
<1> HIDE DEF T
<1>4. {j \in 0 .. len - 1 : j * FragPayload < len} = 0 .. T - 1
  <2>1. ASSUME NEW j \in 0 .. T - 1 PROVE j \in 0 .. len - 1 /\ j * FragPayload < len
    <3> DEFINE k == j * FragPayload
    <3>1. j \in Nat /\ k < len
      BY <1>3
    <3>2. 1 <= FragPayload /\ FragPayload \in Nat \ {0} /\ j \in Int
      BY <3>1, Known
    <3>3. j <= k /\ k \in Int
      <4>1. j * 1 <= j * FragPayload
        BY <3>1, <3>2
      <4> QED BY <3>1, <3>2, <4>1
    <3> HIDE DEF k
    <3>4. j \in 0 .. len - 1
      BY <1>2, <3>1, <3>3
    <3> QED BY <3>1, <3>4 DEF k
  <2>2. ASSUME NEW j \in 0 .. len - 1, j * FragPayload < len PROVE j \in 0 .. T - 1
    <3>1. j \in Nat /\ j < T
      BY <1>2, <1>3, <2>2
    <3> QED BY <1>3, <3>1
  <2> QED BY <2>1, <2>2
<1>5. Whole(m) = [j \in 0 .. T - 1 |-> [msg |-> m, piece |-> j, len |-> FragLen(len, j)]]
  BY <1>4, Zenon DEF Whole, FragLen, len
<1> QED BY <1>1, <1>5, Zenon DEF WholeOf, len, T

(* reassemble_packet: whatever is lost, repeated, reordered, timed out or  *)
(* restarted, what is returned for an id that one message has shown is     *)
(* that message, whole and in order.                                       *)
THEOREM GenuineAlways ==
  Spec => []Genuine
<1>1. Inv => Genuine
  <2> SUFFICES ASSUME Inv, NEW o \in outputs, Cardinality(Bearers(o.id)) = 1
               PROVE  \E m \in Bearers(o.id) : o.pieces = Whole(m) /\ o.len = msgs[m].len
    BY DEF Genuine
  <2> DEFINE B == Bearers(o.id)
  <2>1. Returned(msgs, o) /\ msgs \in Seq(Msg)
    BY DEF Inv, Typed
  <2>2. DOMAIN msgs = 1 .. Len(msgs) /\ Len(msgs) \in Nat
    BY <2>1
  <2>3. B = {m \in 1 .. Len(msgs) : msgs[m].id = o.id}
    BY <2>2 DEF Bearers
  <2>4. IsFiniteSet(B)
    <3>1. IsFiniteSet(1 .. Len(msgs))
      BY <2>2, FS_Interval
    <3>2. B \in SUBSET (1 .. Len(msgs))
      BY <2>3
    <3> QED BY <3>1, <3>2, FS_Subset
  <2>5. PICK m : B = {m}
    BY <2>4, FS_Singleton
  <2>6. Sole(msgs, m, o.id)
    BY <2>3, <2>5 DEF Sole
  <2>7. o.pieces = WholeOf(msgs, m) /\ o.len = msgs[m].len
    BY <2>1, <2>6 DEF Returned
  <2>8. Whole(m) = WholeOf(msgs, m)
    BY <2>1, <2>6, WholeIs DEF Sole
  <2> QED BY <2>5, <2>7, <2>8
<1> QED BY <1>1, Invariance, PTL

(* reassemble_packet: no byte beyond the caller's buffer or the announced  *)
(* length, even if messages mix.                                           *)
THEOREM WithinBufferAlways ==
  Spec => []WithinBuffer
<1>1. Inv => WithinBuffer
  BY DEF Inv, Returned, WithinBuffer
<1> QED BY <1>1, Invariance, PTL

(* reassemble_packet: a message that is complete is not kept.              *)
THEOREM NoneWithheldAlways ==
  Spec => []NoneWithheld
<1>1. Inv => NoneWithheld
  <2> SUFFICES ASSUME Inv, NEW id \in DOMAIN partials, NEW m \in DOMAIN msgs,
                      msgs[m].len > FragPayload
               PROVE  partials[id].fragments # Whole(m)
    BY DEF NoneWithheld
  <2>1. msgs \in Seq(Msg) /\ Unfinished(msgs, partials[id].fragments)
    BY DEF Inv, Typed, Holding, Partial
  <2>2. m \in 1 .. Len(msgs)
    BY <2>1
  <2>3. Whole(m) = WholeOf(msgs, m)
    BY <2>1, <2>2, WholeIs
  <2> QED BY <2>1, <2>2, <2>3 DEF Unfinished
<1> QED BY <1>1, Invariance, PTL

(* cleanup_stale drops a partial message only when no packet of its id has *)
(* come for longer than the timeout.                                       *)
THEOREM KeptWhileArrivingAlways ==
  Spec => KeptWhileArriving
<1>1. ASSUME Inv, [Next]_vars, UNCHANGED <<air, dups, restarts>>,
             NEW id \in DOMAIN partials \ DOMAIN partials'
      PROVE  partials[id].since > Timeout
  <2>1. CASE Turn
    <3>1. partials' = cleanup_stale
      BY <1>1, <2>1 DEF Turn
    <3>2. partials[id].age > Timeout
      BY <1>1, <3>1 DEF cleanup_stale, Stale
    <3> QED BY <1>1, <3>2 DEF Inv, Holding, Partial
  <2>2. ASSUME NEW p \in air, Receive(p) PROVE FALSE
    <3>1. dups' # dups \/ air' # air
      BY <1>1, <2>2 DEF Receive, Inv, Typed
    <3> QED BY <1>1, <3>1
  <2>3. CASE RestartReceiver
    BY <1>1, <2>3 DEF RestartReceiver, Inv, Typed
  <2>4. CASE Tick
    BY <1>1, <2>4 DEF Tick
  <2>5. CASE UNCHANGED partials
    BY <1>1, <2>5
  <2>6. \/ Turn \/ (\E p \in air : Receive(p)) \/ RestartReceiver \/ Tick \/ UNCHANGED partials
    BY <1>1 DEF Next, vars, SendFragments, SendSingle, Lose, RestartSender
  <2> QED BY <2>1, <2>2, <2>3, <2>4, <2>5, <2>6
<1>2. Inv /\ [Next]_vars =>
        [UNCHANGED <<air, dups, restarts>> =>
           \A id \in DOMAIN partials \ DOMAIN partials' : partials[id].since > Timeout]_vars
  BY <1>1
<1> QED BY <1>2, Invariance, PTL DEF Spec, KeptWhileArriving
=============================================================================
