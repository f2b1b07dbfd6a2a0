--------------------------- MODULE RueFileProofs ---------------------------
(***************************************************************************)
(* Proofs about RueFile, for every set of peers and keys, with overlapping *)
(* calls or without, and for every number of messages and crashes.         *)
(*                                                                         *)
(* The inductive invariant Inv follows the cells of the file through every *)
(* system call: entries are on file in the order of enqueue (Contents),    *)
(* what the handler has read is still there, but for what it has removed   *)
(* (Agenda), what was sent comes before what waits for the same peer       *)
(* (Fifo), a rewriting holds in memory exactly what the file held but for  *)
(* the entry sent (Undisturbed), and the header counts (Counted). After    *)
(* an overlap of an enqueue with a rewriting the file may hold cells that  *)
(* straddle two entries: the parts that do not start with ~ raced hold     *)
(* even then, and InOrder and AtMostOnce follow from them.                 *)
(*                                                                         *)
(* It starts with what Only selects from a sequence: that a recursive      *)
(* function is what its equation says, and everything that follows, is     *)
(* shown by taking a least counterexample (Least), which needs no          *)
(* induction rule with an operator as parameter. The last part shows that  *)
(* the file refines the queue of StoreForward.                             *)
(***************************************************************************)
EXTENDS RueFile, WellFoundedInduction, TLAPS

(* A set of natural numbers has a least element: the form of induction     *)
(* used throughout.                                                        *)
LEMMA Least ==
  ASSUME NEW T, T \subseteq Nat, T # {}
  PROVE  \E n \in T : \A m \in T : n <= m
<1> DEFINE R == OpToRel(<, Nat)
<1>1. IsWellFoundedOn(R, Nat)
  BY NatLessThanWellFounded, Zenon
<1>2. \A x, y \in Nat : y < x => <<y, x>> \in R
  BY DEF OpToRel
<1> HIDE DEF R
<1>3. PICK n \in T : \A y \in T : ~ (<<y, n>> \in R)
  BY <1>1, WFMin, Zenon
<1>4. \A m \in T : ~ (m < n)
  BY <1>2, <1>3
<1>5. n \in Nat /\ \A m \in T : m \in Nat
  OBVIOUS
<1>6. \A m \in T : n <= m
  BY <1>4, <1>5
<1> QED BY <1>6

(* g starts at x0 and goes on by step up to N.                             *)
Iterates(g, N, x0, step) ==
  g[0] = x0 /\ \A n \in 1 .. N : g[n] = step[<<n, g[n - 1]>>]

(* Such a function exists.                                                 *)
LEMMA Recursion ==
  ASSUME NEW N \in Nat, NEW T, NEW x0 \in T, NEW step \in [(1 .. N) \X T -> T]
  PROVE  \E g \in [0 .. N -> T] : Iterates(g, N, x0, step)
<1> DEFINE Starts(m) == \E g \in [0 .. m -> T] :
                          g[0] = x0 /\ \A n \in 1 .. m : g[n] = step[<<n, g[n - 1]>>]
           bad == {m \in 0 .. N : ~ Starts(m)}
<1>1. SUFFICES ASSUME bad # {} PROVE FALSE
  BY DEF Iterates
<1>2. PICK m \in bad : \A j \in bad : m <= j
  <2> HIDE DEF Starts
  <2>1. bad \subseteq Nat
    OBVIOUS
  <2> HIDE DEF bad
  <2> QED BY <1>1, <2>1, Least
<1>3. CASE m = 0
  <2> DEFINE g == [n \in 0 .. 0 |-> x0]
  <2>1. g \in [0 .. 0 -> T] /\ g[0] = x0 /\ \A n \in 1 .. 0 : g[n] = step[<<n, g[n - 1]>>]
    OBVIOUS
  <2> QED BY <1>2, <1>3, <2>1
<1>4. CASE m # 0
  <2>1. m - 1 \in 0 .. N /\ m \in 1 .. N /\ Starts(m - 1)
    BY <1>2, <1>4
  <2>2. PICK g \in [0 .. m - 1 -> T] :
               g[0] = x0 /\ \A n \in 1 .. m - 1 : g[n] = step[<<n, g[n - 1]>>]
    BY <2>1
  <2> DEFINE h == [n \in 0 .. m |-> IF n = m THEN step[<<m, g[m - 1]>>] ELSE g[n]]
  <2>3. h \in [0 .. m -> T]
    BY <2>1
  <2>4. h[0] = x0 /\ h[m] = step[<<m, h[m - 1]>>]
    <3>1. 0 \in 0 .. m /\ m \in 0 .. m /\ m - 1 \in 0 .. m /\ m - 1 # m /\ 0 # m
      BY <2>1
    <3>2. h[0] = g[0] /\ h[m - 1] = g[m - 1] /\ h[m] = step[<<m, g[m - 1]>>]
      BY <3>1
    <3> QED BY <2>2, <3>2
  <2>5. ASSUME NEW n \in 1 .. m, n # m PROVE h[n] = step[<<n, h[n - 1]>>]
    <3>1. n \in 1 .. m - 1 /\ n - 1 \in 0 .. m - 1 /\ n \in 0 .. m /\ n - 1 # m
      BY <2>1, <2>5
    <3> QED BY <2>2, <2>5, <3>1
  <2> QED BY <1>2, <2>3, <2>4, <2>5
<1> QED BY <1>3, <1>4

(* g holds what is kept of the first n elements of s, for every n.         *)
Keeps(g, s, S) ==
  /\ g[0] = << >>
  /\ \A n \in 1 .. Len(s) :
       g[n] = IF s[n] \in S THEN Append(g[n - 1], s[n]) ELSE g[n - 1]

(* Only is what its recursive equation says.                               *)
LEMMA OnlyDef ==
  ASSUME NEW T, NEW s \in Seq(T), NEW S
  PROVE  \E g \in [0 .. Len(s) -> Seq(T)] : Keeps(g, s, S) /\ Only(s, S) = g[Len(s)]
<1> DEFINE N == Len(s)
           step == [a \in (1 .. N) \X Seq(T) |->
                      IF s[a[1]] \in S THEN Append(a[2], s[a[1]]) ELSE a[2]]
           F(g) == [n \in 0 .. N |->
                      IF n = 0 THEN << >>
                      ELSE IF s[n] \in S THEN Append(g[n - 1], s[n]) ELSE g[n - 1]]
           kept == CHOOSE g : g = F(g)
<1>1. N \in Nat /\ << >> \in Seq(T) /\ \A n \in 1 .. N : s[n] \in T
  OBVIOUS
<1>2. step \in [(1 .. N) \X Seq(T) -> Seq(T)]
  BY <1>1
<1>3. \A n \in 1 .. N : \A t \in Seq(T) :
        step[<<n, t>>] = IF s[n] \in S THEN Append(t, s[n]) ELSE t
  OBVIOUS
<1>4. PICK g \in [0 .. N -> Seq(T)] :
             g[0] = << >> /\ \A n \in 1 .. N : g[n] = step[<<n, g[n - 1]>>]
  <2> HIDE DEF step, N
  <2> DEFINE V == Seq(T)
             x0 == << >>
  <2>1. N \in Nat /\ x0 \in V /\ step \in [(1 .. N) \X V -> V]
    BY <1>1, <1>2
  <2> HIDE DEF V, x0
  <2>2. \E g \in [0 .. N -> V] : Iterates(g, N, x0, step)
    BY <2>1, Recursion
  <2> QED BY <2>2, Zenon DEF V, x0, Iterates
<1>5. \A n \in 1 .. N : n # 0 /\ n - 1 \in 0 .. N
  BY <1>1
<1> HIDE DEF step, N
<1>6. g = F(g)
  <2>1. ASSUME NEW n \in 0 .. N, n # 0
        PROVE  g[n] = IF s[n] \in S THEN Append(g[n - 1], s[n]) ELSE g[n - 1]
    <3>1. n \in 1 .. N /\ g[n - 1] \in Seq(T)
      BY <1>1, <1>5, <2>1
    <3> QED BY <1>3, <1>4, <3>1
  <2> QED BY <1>4, <2>1, Zenon
<1>7. kept = F(kept)
  BY <1>6, Zenon
<1>8. Only(s, S) = kept[N]
  BY Zenon DEF Only, N
<1> HIDE DEF kept
<1>9. kept[0] = << >> /\ \A n \in 1 .. N :
        kept[n] = IF s[n] \in S THEN Append(kept[n - 1], s[n]) ELSE kept[n - 1]
  <2>1. 0 \in 0 .. N /\ \A n \in 1 .. N : n \in 0 .. N
    BY <1>1
  <2> QED BY <1>5, <1>7, <2>1, Zenon
<1>10. kept \in [0 .. N -> Seq(T)]
  <2> DEFINE bad == {n \in 0 .. N : kept[n] \notin Seq(T)}
  <2>1. SUFFICES bad = {}
    BY <1>7, Zenon
  <2>2. SUFFICES ASSUME bad # {} PROVE FALSE
    OBVIOUS
  <2>3. PICK m \in bad : \A j \in bad : m <= j
    <3>1. bad \subseteq Nat
      BY <1>1
    <3> HIDE DEF bad
    <3> QED BY <2>2, <3>1, Least
  <2>4. m \in 0 .. N /\ kept[m] \notin Seq(T)
    OBVIOUS
  <2>5. m # 0
    BY <1>1, <1>9, <2>4
  <2>6. m \in 1 .. N /\ m - 1 \in 0 .. N /\ ~ (m <= m - 1)
    BY <1>1, <2>4, <2>5
  <2>7. kept[m - 1] \in Seq(T)
    BY <2>3, <2>6
  <2>8. kept[m] = kept[m - 1] \/ kept[m] = Append(kept[m - 1], s[m])
    BY <1>9, <2>6, Zenon
  <2>9. s[m] \in T
    BY <1>1, <2>6
  <2>10. Append(kept[m - 1], s[m]) \in Seq(T)
    BY <2>7, <2>9
  <2> QED BY <2>4, <2>7, <2>8, <2>10, Zenon
<1> QED BY <1>8, <1>9, <1>10, Zenon DEF N, Keeps

-----------------------------------------------------------------------------
(* pos lists the places of the elements of S among the first n of s, in    *)
(* order, and t these elements.                                            *)
Picks(pos, t, s, n, S) ==
  /\ pos \in [1 .. Len(t) -> 1 .. n]
  /\ \A j, k \in 1 .. Len(t) : j < k => pos[j] < pos[k]
  /\ \A k \in 1 .. Len(t) : t[k] = s[pos[k]]
  /\ \A i \in 1 .. n : s[i] \in S <=> \E k \in 1 .. Len(t) : pos[k] = i

(* The next element is picked if it is in S.                               *)
LEMMA PicksStep ==
  ASSUME NEW T, NEW s \in Seq(T), NEW S, NEW n \in 1 .. Len(s), NEW t \in Seq(T), NEW pos,
         Picks(pos, t, s, n - 1, S)
  PROVE  \E q : Picks(q, IF s[n] \in S THEN Append(t, s[n]) ELSE t, s, n, S)
<1> DEFINE L == Len(t)
<1>1. n \in Nat /\ L \in Nat /\ s[n] \in T
  OBVIOUS
<1>2. /\ pos \in [1 .. L -> 1 .. n - 1]
      /\ \A j, k \in 1 .. L : j < k => pos[j] < pos[k]
      /\ \A k \in 1 .. L : t[k] = s[pos[k]]
      /\ \A i \in 1 .. n - 1 : s[i] \in S <=> \E k \in 1 .. L : pos[k] = i
  BY Zenon DEF Picks
<1>3. \A k \in 1 .. L : pos[k] \in 1 .. n - 1 /\ pos[k] \in 1 .. n /\ pos[k] < n
  BY <1>1, <1>2
<1>4. \A i \in 1 .. n : i = n \/ i \in 1 .. n - 1
  BY <1>1
<1>5. CASE s[n] \notin S
  <2>1. pos \in [1 .. L -> 1 .. n]
    BY <1>2, <1>3
  <2>2. \A i \in 1 .. n : s[i] \in S <=> \E k \in 1 .. L : pos[k] = i
    BY <1>2, <1>3, <1>4, <1>5
  <2>3. Picks(pos, t, s, n, S)
    BY <1>2, <2>1, <2>2, Zenon DEF Picks
  <2> QED BY <1>5, <2>3, Zenon
<1>6. CASE s[n] \in S
  <2> DEFINE u == Append(t, s[n])
             q == [k \in 1 .. L + 1 |-> IF k = L + 1 THEN n ELSE pos[k]]
  <2>1. Len(u) = L + 1 /\ u[L + 1] = s[n] /\ \A k \in 1 .. L : u[k] = t[k]
    BY <1>1
  <2>2. \A k \in 1 .. L + 1 : k = L + 1 \/ k \in 1 .. L
    BY <1>1
  <2>3. L + 1 \in 1 .. L + 1 /\ n \in 1 .. n /\ \A k \in 1 .. L : k \in 1 .. L + 1 /\ k < L + 1 /\ k # L + 1
    BY <1>1
  <2>4. q[L + 1] = n /\ \A k \in 1 .. L : q[k] = pos[k]
    BY <2>3
  <2>5. q \in [1 .. L + 1 -> 1 .. n]
    BY <1>3, <2>2, <2>3
  <2> HIDE DEF q, u, L
  <2>6. \A j, k \in 1 .. L + 1 : j < k => q[j] < q[k]
    <3> SUFFICES ASSUME NEW j \in 1 .. L + 1, NEW k \in 1 .. L + 1, j < k PROVE q[j] < q[k]
      OBVIOUS
    <3>1. j \in 1 .. L
      BY <1>1
    <3> QED BY <1>2, <1>3, <2>2, <2>4, <3>1
  <2>7. \A k \in 1 .. L + 1 : u[k] = s[q[k]]
    BY <1>2, <2>1, <2>2, <2>4
  <2>8. \A i \in 1 .. n : s[i] \in S <=> \E k \in 1 .. L + 1 : q[k] = i
    <3> SUFFICES ASSUME NEW i \in 1 .. n PROVE s[i] \in S <=> \E k \in 1 .. L + 1 : q[k] = i
      OBVIOUS
    <3>1. CASE i = n
      BY <1>6, <2>3, <2>4, <3>1
    <3>2. CASE i \in 1 .. n - 1
      <4>1. i # n
        BY <1>1, <3>2
      <4> QED BY <1>2, <2>2, <2>3, <2>4, <3>2, <4>1
    <3> QED BY <1>4, <3>1, <3>2
  <2>9. Picks(q, u, s, n, S)
    BY <2>1, <2>5, <2>6, <2>7, <2>8, Zenon DEF Picks
  <2> QED BY <1>6, <2>9, Zenon DEF u
<1> QED BY <1>5, <1>6

(* Only(s, S) is the sequence of the elements of s in S, in their order.   *)
LEMMA OnlyPicks ==
  ASSUME NEW T, NEW s \in Seq(T), NEW S
  PROVE  Only(s, S) \in Seq(T) /\ \E pos : Picks(pos, Only(s, S), s, Len(s), S)
<1> DEFINE N == Len(s)
<1>0. PICK g \in [0 .. N -> Seq(T)] : Keeps(g, s, S) /\ Only(s, S) = g[N]
  BY OnlyDef, Zenon
<1>1. /\ g[0] = << >>
      /\ \A n \in 1 .. N : g[n] = IF s[n] \in S THEN Append(g[n - 1], s[n]) ELSE g[n - 1]
  BY <1>0, Zenon DEF Keeps
<1> DEFINE Good(n) == \E pos : Picks(pos, g[n], s, n, S)
           bad == {n \in 0 .. N : ~ Good(n)}
<1>2. N \in Nat /\ N \in 0 .. N
  OBVIOUS
<1> HIDE DEF N
<1>3. Good(0)
  <2>1. Picks([k \in {} |-> 0], << >>, s, 0, S)
    BY DEF Picks
  <2> QED BY <1>1, <2>1, Zenon
<1>4. ASSUME NEW n \in 1 .. N, Good(n - 1) PROVE Good(n)
  <2>1. n - 1 \in 0 .. N /\ g[n - 1] \in Seq(T)
    BY <1>2
  <2>2. PICK pos : Picks(pos, g[n - 1], s, n - 1, S)
    BY <1>4
  <2>3. \E q : Picks(q, IF s[n] \in S THEN Append(g[n - 1], s[n]) ELSE g[n - 1], s, n, S)
    BY <2>1, <2>2, PicksStep, Zenon DEF N
  <2> QED BY <1>1, <2>3, Zenon
<1> HIDE DEF Good
<1>5. bad = {}
  <2>1. SUFFICES ASSUME bad # {} PROVE FALSE
    OBVIOUS
  <2>2. bad \subseteq Nat
    BY <1>2
  <2>3. PICK m \in bad : \A j \in bad : m <= j
    <3> HIDE DEF bad
    <3> QED BY <2>1, <2>2, Least
  <2>4. m \in 1 .. N /\ m - 1 \in 0 .. N /\ ~ (m <= m - 1)
    BY <1>2, <1>3, <2>3
  <2>5. Good(m - 1)
    BY <2>3, <2>4
  <2> QED BY <1>4, <2>3, <2>4, <2>5
<1>6. Good(N) /\ g[N] \in Seq(T)
  BY <1>2, <1>5
<1> QED BY <1>0, <1>6, Zenon DEF Good, N

(* There is one such sequence only.                                        *)
LEMMA PicksPrefix ==
  ASSUME NEW T, NEW s, NEW n \in Nat, NEW S, NEW t \in Seq(T), NEW u \in Seq(T), NEW p, NEW q,
         Picks(p, t, s, n, S), Picks(q, u, s, n, S)
  PROVE  \A k \in 1 .. Len(t) : k \in 1 .. Len(u) /\ p[k] = q[k]
<1> DEFINE bad == {k \in 1 .. Len(t) : ~ (k \in 1 .. Len(u) /\ p[k] = q[k])}
<1>1. SUFFICES ASSUME bad # {} PROVE FALSE
  OBVIOUS
<1>2. bad \subseteq Nat
  OBVIOUS
<1>3. PICK k \in bad : \A j \in bad : k <= j
  <2> HIDE DEF bad
  <2> QED BY <1>1, <1>2, Least
<1> DEFINE I == 1 .. Len(t)
           J == 1 .. Len(u)
<1>4. /\ p \in [I -> 1 .. n] /\ \A a, b \in I : a < b => p[a] < p[b]
      /\ \A i \in 1 .. n : s[i] \in S <=> \E a \in I : p[a] = i
  BY Zenon DEF Picks
<1>5. /\ q \in [J -> 1 .. n] /\ \A a, b \in J : a < b => q[a] < q[b]
      /\ \A i \in 1 .. n : s[i] \in S <=> \E a \in J : q[a] = i
  BY Zenon DEF Picks
<1>6. k \in I /\ I \subseteq Nat /\ J \subseteq Nat /\ 1 .. n \subseteq Nat
  OBVIOUS
<1>7. \A a \in I : a < k => a \in J /\ p[a] = q[a]
  <2> SUFFICES ASSUME NEW a \in I, a < k PROVE a \in J /\ p[a] = q[a]
    OBVIOUS
  <2>1. ~ (k <= a)
    BY <1>6
  <2> QED BY <1>3, <2>1
<1>8. ~ (k \in J /\ p[k] = q[k])
  BY <1>3
<1>9. \A a \in J : a < k => a \in I
  BY <1>6
<1>10. \A a \in J : k <= a => k \in J
  BY <1>6
<1> HIDE DEF I, J
<1>11. PICK a \in J : q[a] = p[k]
  BY <1>4, <1>5, <1>6
<1>12. ~ (a < k)
  <2>1. ASSUME a < k PROVE FALSE
    <3>1. a \in I /\ p[a] = q[a] /\ p[a] < p[k]
      BY <1>4, <1>6, <1>7, <1>9, <2>1
    <3> QED BY <1>4, <1>6, <1>11, <3>1
  <2> QED BY <2>1
<1>13. k \in J /\ q[k] # p[k]
  BY <1>6, <1>8, <1>10, <1>12
<1>14. k < a /\ q[k] < p[k]
  BY <1>5, <1>6, <1>11, <1>12, <1>13
<1>15. PICK b \in I : p[b] = q[k]
  BY <1>4, <1>5, <1>13
<1>16. b < k
  <2>1. b = k \/ k < b \/ b < k
    BY <1>6
  <2>2. p[b] \in Nat /\ p[k] \in Nat /\ p[b] < p[k]
    BY <1>4, <1>6, <1>14, <1>15
  <2> QED BY <1>4, <1>6, <2>1, <2>2
<1>17. b \in J /\ q[b] = q[k]
  BY <1>7, <1>15, <1>16
<1> QED BY <1>5, <1>6, <1>13, <1>16, <1>17

(* The picks determine the sequence.                                       *)
LEMMA PicksUnique ==
  ASSUME NEW T, NEW s, NEW n \in Nat, NEW S, NEW t \in Seq(T), NEW u \in Seq(T), NEW p, NEW q,
         Picks(p, t, s, n, S), Picks(q, u, s, n, S)
  PROVE  t = u
<1>1. \A k \in 1 .. Len(t) : k \in 1 .. Len(u) /\ p[k] = q[k]
  BY PicksPrefix
<1>2. \A k \in 1 .. Len(u) : k \in 1 .. Len(t)
  BY PicksPrefix, Zenon
<1>3. Len(t) = Len(u)
  BY <1>1, <1>2
<1>4. \A k \in 1 .. Len(t) : t[k] = s[p[k]] /\ u[k] = s[p[k]]
  BY <1>1, <1>3, Zenon DEF Picks
<1> QED BY <1>3, <1>4

(* x is an element of s.                                                   *)
Has(s, x) == \E k \in 1 .. Len(s) : s[k] = x

(* Two elements of t are in an order in which s has them.                  *)
OrderedAs(t, s) ==
  \A j, k \in 1 .. Len(t) :
    j < k => \E a, b \in 1 .. Len(s) : a < b /\ t[j] = s[a] /\ t[k] = s[b]

(* What is kept are the elements of s in S, in their order.                *)
LEMMA OnlyProps ==
  ASSUME NEW T, NEW s \in Seq(T), NEW S
  PROVE  /\ Only(s, S) \in Seq(T) /\ OrderedAs(Only(s, S), s)
         /\ \A x : Has(Only(s, S), x) <=> Has(s, x) /\ x \in S
<1> DEFINE t == Only(s, S)
<1>1. t \in Seq(T)
  BY OnlyPicks
<1>2. PICK pos : Picks(pos, t, s, Len(s), S)
  BY OnlyPicks
<1> HIDE DEF t
<1>3. /\ pos \in [1 .. Len(t) -> 1 .. Len(s)]
      /\ \A j, k \in 1 .. Len(t) : j < k => pos[j] < pos[k]
      /\ \A k \in 1 .. Len(t) : t[k] = s[pos[k]]
      /\ \A i \in 1 .. Len(s) : s[i] \in S <=> \E k \in 1 .. Len(t) : pos[k] = i
  BY <1>2, Zenon DEF Picks
<1>4. ASSUME NEW x PROVE Has(t, x) <=> Has(s, x) /\ x \in S
  <2>1. \A k \in 1 .. Len(t) : pos[k] \in 1 .. Len(s) /\ s[pos[k]] \in S
    BY <1>3
  <2>2. Has(t, x) => Has(s, x) /\ x \in S
    BY <1>3, <2>1, Zenon DEF Has
  <2>3. ASSUME NEW i \in 1 .. Len(s), s[i] = x, x \in S PROVE Has(t, x)
    <3>1. PICK k \in 1 .. Len(t) : pos[k] = i
      BY <1>3, <2>3
    <3> QED BY <1>3, <2>3, <3>1, Zenon DEF Has
  <2> QED BY <2>2, <2>3, Zenon DEF Has
<1>5. OrderedAs(t, s)
  <2> SUFFICES ASSUME NEW j \in 1 .. Len(t), NEW k \in 1 .. Len(t), j < k
               PROVE  \E a, b \in 1 .. Len(s) : a < b /\ t[j] = s[a] /\ t[k] = s[b]
    BY DEF OrderedAs
  <2> QED BY <1>3
<1> QED BY <1>1, <1>4, <1>5, Zenon DEF t

(* An element added at the end is kept at the end, or not at all.          *)
Longer(s, x, S) == Only(Append(s, x), S) = Append(Only(s, S), x)

(* One element more is kept, or nothing changes.                           *)
LEMMA OnlyAppend ==
  ASSUME NEW T, NEW s \in Seq(T), NEW S, NEW x \in T
  PROVE  /\ x \in S => Longer(s, x, S)
         /\ x \notin S => Only(Append(s, x), S) = Only(s, S)
<1> DEFINE u == Append(s, x)
           t == Only(s, S)
           v == IF x \in S THEN Append(t, x) ELSE t
           N == Len(s)
<1>1. /\ u \in Seq(T) /\ Len(u) = N + 1 /\ N + 1 \in 1 .. N + 1 /\ u[N + 1] = x
      /\ N \in Nat /\ (N + 1) - 1 = N /\ \A i \in 1 .. N : u[i] = s[i]
  OBVIOUS
<1>2. t \in Seq(T)
  BY OnlyPicks
<1>3. v \in Seq(T)
  BY <1>2
<1>4. PICK pos : Picks(pos, t, s, N, S)
  BY OnlyPicks
<1>5. PICK q : Picks(q, Only(u, S), u, N + 1, S)
  <2> HIDE DEF u
  <2>1. \E r : Picks(r, Only(u, S), u, Len(u), S)
    BY <1>1, OnlyPicks
  <2> QED BY <1>1, <2>1, Zenon
<1>6. Picks(pos, t, u, N, S)
  <2> HIDE DEF t, u, N
  <2>1. /\ pos \in [1 .. Len(t) -> 1 .. N]
        /\ \A j, k \in 1 .. Len(t) : j < k => pos[j] < pos[k]
        /\ \A k \in 1 .. Len(t) : t[k] = s[pos[k]]
        /\ \A i \in 1 .. N : s[i] \in S <=> \E k \in 1 .. Len(t) : pos[k] = i
    BY <1>4, Zenon DEF Picks
  <2>2. \A k \in 1 .. Len(t) : t[k] = u[pos[k]]
    BY <1>1, <2>1
  <2>3. \A i \in 1 .. N : u[i] \in S <=> \E k \in 1 .. Len(t) : pos[k] = i
    BY <1>1, <2>1, Zenon
  <2> QED BY <2>1, <2>2, <2>3, Zenon DEF Picks
<1>7. \E r : Picks(r, v, u, N + 1, S)
  <2> HIDE DEF t, u, N
  <2>1. \E r : Picks(r, IF u[N + 1] \in S THEN Append(t, u[N + 1]) ELSE t, u, N + 1, S)
    <3> DEFINE n == N + 1
    <3>1. n \in 1 .. Len(u) /\ n - 1 = N
      BY <1>1
    <3> HIDE DEF n
    <3>2. Picks(pos, t, u, n - 1, S)
      BY <1>6, <3>1
    <3>3. \E r : Picks(r, IF u[n] \in S THEN Append(t, u[n]) ELSE t, u, n, S)
      BY <1>1, <1>2, <3>1, <3>2, PicksStep, Zenon
    <3> QED BY <3>3, Zenon DEF n
  <2> QED BY <1>1, <2>1, Zenon
<1> HIDE DEF u, v, N
<1>8. Only(u, S) \in Seq(T) /\ N + 1 \in Nat
  BY <1>1, OnlyPicks
<1>9. Only(u, S) = v
  BY <1>3, <1>5, <1>7, <1>8, PicksUnique
<1> QED BY <1>9, Zenon DEF u, v, t, Longer

(* The elements of a concatenation.                                        *)
LEMMA Concatenation ==
  ASSUME NEW T, NEW s \in Seq(T), NEW t \in Seq(T)
  PROVE  /\ s \o t \in Seq(T) /\ Len(s \o t) = Len(s) + Len(t)
         /\ \A n \in 1 .. Len(s) : (s \o t)[n] = s[n]
         /\ \A k \in 1 .. Len(t) : (s \o t)[Len(s) + k] = t[k]
<1>1. s \o t \in Seq(T) /\ Len(s \o t) = Len(s) + Len(t)
  OBVIOUS
<1>2. \A n \in 1 .. Len(s) : (s \o t)[n] = s[n]
  OBVIOUS
<1>3. ASSUME NEW k \in 1 .. Len(t) PROVE (s \o t)[Len(s) + k] = t[k]
  <2>1. Len(s) + k \in 1 .. Len(s) + Len(t) /\ ~ (Len(s) + k <= Len(s)) /\ (Len(s) + k) - Len(s) = k
    OBVIOUS
  <2> QED BY <2>1
<1> QED BY <1>1, <1>2, <1>3

(* What an appended element changes.                                       *)
LEMMA OneAppended ==
  ASSUME NEW T, NEW s \in Seq(T), NEW x \in T
  PROVE  /\ Append(s, x) \in Seq(T) /\ Len(Append(s, x)) = Len(s) + 1 /\ Len(s) \in Nat
         /\ \A i \in 1 .. Len(s) : Append(s, x)[i] = s[i]
         /\ Append(s, x)[Len(s) + 1] = x
         /\ \A y : Has(Append(s, x), y) <=> Has(s, y) \/ y = x
<1> DEFINE t == Append(s, x)
<1>1. /\ t \in Seq(T) /\ Len(t) = Len(s) + 1 /\ Len(s) \in Nat
      /\ \A i \in 1 .. Len(s) : t[i] = s[i]
      /\ t[Len(s) + 1] = x
  OBVIOUS
<1> HIDE DEF t
<1>2. \A i \in 1 .. Len(t) : i \in 1 .. Len(s) \/ i = Len(s) + 1
  BY <1>1
<1>3. Len(s) + 1 \in 1 .. Len(t) /\ \A i \in 1 .. Len(s) : i \in 1 .. Len(t)
  BY <1>1
<1>4. ASSUME NEW y PROVE Has(t, y) <=> Has(s, y) \/ y = x
  BY <1>1, <1>2, <1>3 DEF Has
<1> QED BY <1>1, <1>4, Zenon DEF t

(* The same, with names for the whole and for the lengths.                 *)
LEMMA Joined ==
  ASSUME NEW T, NEW s \in Seq(T), NEW t \in Seq(T), NEW u, u = s \o t,
         NEW m, m = Len(s), NEW k, k = Len(t)
  PROVE  /\ u \in Seq(T) /\ Len(u) = m + k
         /\ \A n \in 1 .. m : u[n] = s[n]
         /\ \A n \in 1 .. k : u[m + n] = t[n]
<1>1. /\ s \o t \in Seq(T) /\ Len(s \o t) = Len(s) + Len(t)
      /\ \A n \in 1 .. Len(s) : (s \o t)[n] = s[n]
      /\ \A n \in 1 .. Len(t) : (s \o t)[Len(s) + n] = t[n]
  BY Concatenation
<1> QED BY <1>1, Zenon

(* Only the empty sequence has no elements.                                *)
LEMMA EmptyLen ==
  ASSUME NEW T, NEW s \in Seq(T)
  PROVE  s = <<>> <=> Len(s) = 0
OBVIOUS

(* One element is taken out.                                               *)
LEMMA Removed ==
  ASSUME NEW T, NEW s \in Seq(T), NEW k \in 1 .. Len(s)
  PROVE  /\ RemoveAt(s, k) \in Seq(T) /\ Len(RemoveAt(s, k)) = Len(s) - 1
         /\ \A j \in 1 .. Len(s) - 1 : RemoveAt(s, k)[j] = IF j < k THEN s[j] ELSE s[j + 1]
<1> DEFINE a == SubSeq(s, 1, k - 1)
           b == SubSeq(s, k + 1, Len(s))
           L == Len(s)
<1>1. /\ a \in Seq(T) /\ Len(a) = k - 1 /\ \A j \in 1 .. k - 1 : a[j] = s[j]
  OBVIOUS
<1>2. /\ b \in Seq(T) /\ Len(b) = L - k /\ \A j \in 1 .. L - k : b[j] = s[k + j]
  OBVIOUS
<1>3. RemoveAt(s, k) = a \o b
  BY DEF RemoveAt
<1>4. L \in Nat /\ k \in Nat /\ 1 <= k /\ k <= L
  OBVIOUS
<1> HIDE DEF a, b, L
<1>5. /\ a \o b \in Seq(T) /\ Len(a \o b) = Len(a) + Len(b)
      /\ \A j \in 1 .. Len(a) : (a \o b)[j] = a[j]
      /\ \A j \in 1 .. Len(b) : (a \o b)[Len(a) + j] = b[j]
  <2>1. a \in Seq(T) /\ b \in Seq(T)
    BY <1>1, <1>2
  <2> QED BY <2>1, Concatenation
<1> DEFINE r == a \o b
<1> HIDE DEF r
<1>6. /\ r \in Seq(T) /\ Len(r) = Len(a) + Len(b)
      /\ \A j \in 1 .. Len(a) : r[j] = a[j]
      /\ \A j \in 1 .. Len(b) : r[Len(a) + j] = b[j]
  BY <1>5, Zenon DEF r
<1>7. Len(r) = L - 1
  BY <1>1, <1>2, <1>4, <1>6
<1>8. ASSUME NEW j \in 1 .. L - 1 PROVE r[j] = IF j < k THEN s[j] ELSE s[j + 1]
  <2>1. CASE j < k
    BY <1>1, <1>4, <1>6, <2>1
  <2>2. CASE ~ (j < k)
    <3> DEFINE i == j - (k - 1)
    <3>1. i \in 1 .. L - k /\ k + i = j + 1 /\ (k - 1) + i = j
      BY <1>4, <2>2
    <3> HIDE DEF i
    <3>2. r[j] = b[i]
      BY <1>1, <1>2, <1>6, <3>1
    <3> QED BY <1>2, <2>2, <3>1, <3>2
  <2> QED BY <2>1, <2>2
<1> QED BY <1>3, <1>6, <1>7, <1>8, Zenon DEF r, L

(* The others stay, in their order.                                        *)
TakenOut(r, s, k) == r = RemoveAt(s, k)

(* Where the others are after it.                                          *)
LEMMA OthersStay ==
  ASSUME NEW T, NEW s \in Seq(T), NEW k \in 1 .. Len(s), NEW r, TakenOut(r, s, k)
  PROVE  /\ r \in Seq(T) /\ Len(r) = Len(s) - 1 /\ Len(s) \in Nat
         /\ OrderedAs(r, s)
         /\ \A j \in 1 .. Len(r) : \E m \in 1 .. Len(s) : m # k /\ r[j] = s[m]
         /\ \A m \in 1 .. Len(s) : m # k => \E j \in 1 .. Len(r) : r[j] = s[m]
<1> DEFINE L == Len(s)
           at(j) == IF j < k THEN j ELSE j + 1
<1>1. /\ r \in Seq(T) /\ Len(r) = L - 1
      /\ \A j \in 1 .. L - 1 : r[j] = IF j < k THEN s[j] ELSE s[j + 1]
  BY Removed, Zenon DEF TakenOut
<1>2. L \in Nat /\ k \in 1 .. L
  OBVIOUS
<1>3. \A j \in 1 .. L - 1 : at(j) \in 1 .. L /\ at(j) # k /\ r[j] = s[at(j)]
  BY <1>1, <1>2
<1>4. \A i, j \in 1 .. L - 1 : i < j => at(i) < at(j)
  BY <1>2
<1> HIDE DEF L
<1>5. ASSUME NEW m \in 1 .. L, m # k PROVE \E j \in 1 .. L - 1 : at(j) = m
  <2>1. CASE m < k
    <3>1. m \in 1 .. L - 1 /\ at(m) = m
      BY <1>2, <2>1
    <3> QED BY <3>1
  <2>2. CASE ~ (m < k)
    <3>1. m - 1 \in 1 .. L - 1 /\ at(m - 1) = m
      BY <1>2, <1>5, <2>2
    <3> QED BY <3>1
  <2> QED BY <2>1, <2>2
<1> HIDE DEF at
<1>6. r \in Seq(T) /\ Len(r) = L - 1
  BY <1>1
<1>7. OrderedAs(r, s)
  <2>1. \A i, j \in 1 .. L - 1 : i < j => \E a, b \in 1 .. L : a < b /\ r[i] = s[a] /\ r[j] = s[b]
    BY <1>3, <1>4, Zenon
  <2> SUFFICES ASSUME NEW i \in 1 .. Len(r), NEW j \in 1 .. Len(r), i < j
               PROVE  \E a, b \in 1 .. L : a < b /\ r[i] = s[a] /\ r[j] = s[b]
    BY DEF OrderedAs, L
  <2>2. i \in 1 .. L - 1 /\ j \in 1 .. L - 1
    BY <1>6, Zenon
  <2> QED BY <2>1, <2>2, Zenon
<1>8. \A j \in 1 .. Len(r) : \E m \in 1 .. L : m # k /\ r[j] = s[m]
  BY <1>3, <1>6, Zenon
<1>9. \A m \in 1 .. L : m # k => \E j \in 1 .. Len(r) : r[j] = s[m]
  <2>1. \A m \in 1 .. L : m # k => \E j \in 1 .. L - 1 : r[j] = s[m]
    BY <1>3, <1>5, Zenon
  <2> QED BY <1>6, <2>1, Zenon
<1> QED BY <1>2, <1>6, <1>7, <1>8, <1>9, Zenon DEF L

(* What is behind the first element.                                       *)
LEMMA Behind ==
  ASSUME NEW T, NEW s \in Seq(T), s # <<>>
  PROVE  /\ Tail(s) \in Seq(T) /\ Len(Tail(s)) = Len(s) - 1 /\ Len(s) \in Nat
         /\ \A j \in 1 .. Len(s) - 1 : Tail(s)[j] = s[j + 1]
OBVIOUS

-----------------------------------------------------------------------------
(* What is kept depends only on which elements of s are in the set.        *)
LEMMA OnlySame ==
  ASSUME NEW T, NEW s \in Seq(T), NEW S, NEW R,
         \A i \in 1 .. Len(s) : s[i] \in S <=> s[i] \in R
  PROVE  Only(s, S) = Only(s, R)
<1>1. Only(s, S) \in Seq(T) /\ Only(s, R) \in Seq(T) /\ Len(s) \in Nat
  BY OnlyPicks
<1>2. PICK p : Picks(p, Only(s, S), s, Len(s), S)
  BY OnlyPicks
<1>3. PICK q : Picks(q, Only(s, R), s, Len(s), R)
  BY OnlyPicks
<1>4. Picks(p, Only(s, S), s, Len(s), R)
  BY <1>2, Zenon DEF Picks
<1> QED BY <1>1, <1>3, <1>4, PicksUnique

(* An element that is not kept may as well be taken out before.            *)
LEMMA OnlySkip ==
  ASSUME NEW T, NEW s \in Seq(T), NEW S, NEW k \in 1 .. Len(s), s[k] \notin S
  PROVE  Only(RemoveAt(s, k), S) = Only(s, S)
<1> DEFINE r == RemoveAt(s, k)
           t == Only(s, S)
           L == Len(s)
<1>1. /\ r \in Seq(T) /\ Len(r) = L - 1
      /\ \A j \in 1 .. L - 1 : r[j] = IF j < k THEN s[j] ELSE s[j + 1]
  BY Removed
<1>2. L \in Nat /\ k \in 1 .. L /\ L - 1 \in Nat
  OBVIOUS
<1>3. t \in Seq(T)
  BY OnlyPicks
<1>4. PICK pos : Picks(pos, t, s, L, S)
  BY OnlyPicks
<1> HIDE DEF r, t, L
<1>5. /\ pos \in [1 .. Len(t) -> 1 .. L]
      /\ \A i, j \in 1 .. Len(t) : i < j => pos[i] < pos[j]
      /\ \A i \in 1 .. Len(t) : t[i] = s[pos[i]]
      /\ \A i \in 1 .. L : s[i] \in S <=> \E j \in 1 .. Len(t) : pos[j] = i
  BY <1>4, Zenon DEF Picks
<1>6. \A j \in 1 .. Len(t) : pos[j] \in 1 .. L /\ pos[j] # k
  BY <1>5
<1> DEFINE back(i) == IF i < k THEN i ELSE i - 1
           q == [j \in 1 .. Len(t) |-> back(pos[j])]
<1>7. \A i \in 1 .. L : i # k => back(i) \in 1 .. L - 1 /\ r[back(i)] = s[i]
  <2> SUFFICES ASSUME NEW i \in 1 .. L, i # k PROVE back(i) \in 1 .. L - 1 /\ r[back(i)] = s[i]
    OBVIOUS
  <2>1. CASE i < k
    <3>1. i \in 1 .. L - 1 /\ back(i) = i
      BY <1>2, <2>1
    <3> QED BY <1>1, <2>1, <3>1
  <2>2. CASE ~ (i < k)
    <3>1. i - 1 \in 1 .. L - 1 /\ ~ (i - 1 < k) /\ (i - 1) + 1 = i /\ back(i) = i - 1
      BY <1>2, <2>2
    <3> QED BY <1>1, <3>1
  <2> QED BY <2>1, <2>2
<1>8. \A i, j \in 1 .. L : (i # k /\ j # k /\ i < j) => back(i) < back(j)
  BY <1>2
<1>9. \A j \in 1 .. L - 1 : \E i \in 1 .. L : i # k /\ back(i) = j
  <2> SUFFICES ASSUME NEW j \in 1 .. L - 1 PROVE \E i \in 1 .. L : i # k /\ back(i) = j
    OBVIOUS
  <2>1. CASE j < k
    <3>1. j \in 1 .. L /\ j # k /\ back(j) = j
      BY <1>2, <2>1
    <3> QED BY <3>1
  <2>2. CASE ~ (j < k)
    <3>1. j + 1 \in 1 .. L /\ j + 1 # k /\ back(j + 1) = j
      BY <1>2, <2>2
    <3> QED BY <3>1
  <2> QED BY <2>1, <2>2
<1>10. \A i, j \in 1 .. L : (i # k /\ j # k /\ back(i) = back(j)) => i = j
  BY <1>2
<1> HIDE DEF back
<1>11. Picks(q, t, r, L - 1, S)
  <2>1. q \in [1 .. Len(t) -> 1 .. L - 1]
    BY <1>6, <1>7
  <2>2. \A i, j \in 1 .. Len(t) : i < j => q[i] < q[j]
    BY <1>5, <1>6, <1>8
  <2>3. \A i \in 1 .. Len(t) : t[i] = r[q[i]]
    BY <1>5, <1>6, <1>7
  <2>4. ASSUME NEW j \in 1 .. L - 1 PROVE r[j] \in S <=> \E i \in 1 .. Len(t) : q[i] = j
    <3>1. PICK i \in 1 .. L : i # k /\ back(i) = j
      BY <1>9
    <3>2. r[j] = s[i]
      BY <1>7, <3>1
    <3>3. \A m \in 1 .. Len(t) : q[m] = j <=> pos[m] = i
      BY <1>6, <1>10, <3>1
    <3> HIDE DEF q
    <3> QED BY <1>5, <3>2, <3>3
  <2> HIDE DEF q
  <2> QED BY <2>1, <2>2, <2>3, <2>4, Zenon DEF Picks
<1>12. Only(r, S) \in Seq(T)
  BY <1>1, OnlyPicks
<1>13. PICK p : Picks(p, Only(r, S), r, L - 1, S)
  <2>1. \E p : Picks(p, Only(r, S), r, Len(r), S)
    BY <1>1, OnlyPicks
  <2> QED BY <1>1, <2>1, Zenon
<1> HIDE DEF q
<1>14. Only(r, S) = t
  <2>1. L - 1 \in Nat
    BY <1>2
  <2> QED BY <1>3, <1>11, <1>12, <1>13, <2>1, PicksUnique
<1> QED BY <1>14 DEF r, t

(* With one element less in the set, one element less is kept.             *)
LEMMA OnlyLess ==
  ASSUME NEW T, NEW s \in Seq(T), NEW S, NEW x, NEW k \in 1 .. Len(Only(s, S)),
         Only(s, S)[k] = x,
         \A i, j \in 1 .. Len(s) : (s[i] = x /\ s[j] = x) => i = j
  PROVE  TakenOut(Only(s, S \ {x}), Only(s, S), k)
<1> DEFINE t == Only(s, S)
           u == RemoveAt(t, k)
           M == Len(t)
           L == Len(s)
<1>1. t \in Seq(T)
  BY OnlyPicks
<1>2. PICK pos : Picks(pos, t, s, L, S)
  BY OnlyPicks
<1>3. L \in Nat /\ \A i, j \in 1 .. L : (s[i] = x /\ s[j] = x) => i = j
  OBVIOUS
<1>4. k \in 1 .. M /\ t[k] = x
  OBVIOUS
<1> HIDE DEF t, L
<1>5. /\ u \in Seq(T) /\ Len(u) = M - 1
      /\ \A j \in 1 .. M - 1 : u[j] = IF j < k THEN t[j] ELSE t[j + 1]
  BY <1>1, <1>4, Removed
<1>6. M \in Nat
  BY <1>1
<1> HIDE DEF u, M
<1>7. /\ pos \in [1 .. M -> 1 .. L]
      /\ \A i, j \in 1 .. M : i < j => pos[i] < pos[j]
      /\ \A i \in 1 .. M : t[i] = s[pos[i]]
      /\ \A i \in 1 .. L : s[i] \in S <=> \E j \in 1 .. M : pos[j] = i
  BY <1>2, Zenon DEF Picks, M
<1> DEFINE at(j) == IF j < k THEN j ELSE j + 1
           q == [j \in 1 .. M - 1 |-> pos[at(j)]]
<1>8. \A j \in 1 .. M - 1 : at(j) \in 1 .. M /\ at(j) # k /\ u[j] = t[at(j)]
  BY <1>4, <1>5, <1>6
<1>9. \A i, j \in 1 .. M - 1 : i < j => at(i) < at(j)
  BY <1>4, <1>6
<1>10. ASSUME NEW m \in 1 .. M, m # k PROVE \E j \in 1 .. M - 1 : at(j) = m
  <2>1. CASE m < k
    <3>1. m \in 1 .. M - 1 /\ at(m) = m
      BY <1>4, <1>6, <2>1
    <3> QED BY <3>1
  <2>2. CASE ~ (m < k)
    <3>1. m - 1 \in 1 .. M - 1 /\ at(m - 1) = m
      BY <1>4, <1>6, <1>10, <2>2
    <3> QED BY <3>1
  <2> QED BY <2>1, <2>2
<1> HIDE DEF at
<1>11. s[pos[k]] = x /\ pos[k] \in 1 .. L
  BY <1>4, <1>7
<1>12. \A i, j \in 1 .. M : pos[i] = pos[j] => i = j
  <2> SUFFICES ASSUME NEW i \in 1 .. M, NEW j \in 1 .. M, pos[i] = pos[j], i # j PROVE FALSE
    OBVIOUS
  <2>1. pos[i] \in Nat /\ (i < j \/ j < i)
    BY <1>6, <1>7
  <2>2. pos[i] < pos[j] \/ pos[j] < pos[i]
    BY <1>7, <2>1
  <2> QED BY <2>1, <2>2
<1>13. Picks(q, u, s, L, S \ {x})
  <2>1. q \in [1 .. M - 1 -> 1 .. L]
    BY <1>7, <1>8
  <2>2. \A i, j \in 1 .. M - 1 : i < j => q[i] < q[j]
    BY <1>7, <1>8, <1>9
  <2>3. \A i \in 1 .. M - 1 : u[i] = s[q[i]]
    BY <1>7, <1>8
  <2>4. ASSUME NEW i \in 1 .. L PROVE s[i] \in S \ {x} <=> \E j \in 1 .. M - 1 : q[j] = i
    <3>1. ASSUME NEW j \in 1 .. M - 1, q[j] = i PROVE s[i] \in S \ {x}
      <4>1. at(j) \in 1 .. M /\ at(j) # k /\ pos[at(j)] = i
        BY <1>8, <3>1
      <4>2. s[i] \in S
        BY <1>7, <4>1
      <4>3. i # pos[k]
        BY <1>4, <1>12, <4>1
      <4>4. s[i] # x
        BY <1>3, <1>11, <4>3
      <4> QED BY <4>2, <4>4
    <3>2. ASSUME s[i] \in S \ {x} PROVE \E j \in 1 .. M - 1 : q[j] = i
      <4>1. PICK m \in 1 .. M : pos[m] = i
        BY <1>7, <3>2
      <4>2. m # k
        BY <1>11, <3>2, <4>1
      <4>3. PICK j \in 1 .. M - 1 : at(j) = m
        BY <1>10, <4>2
      <4> QED BY <4>1, <4>3
    <3> QED BY <3>1, <3>2
  <2> HIDE DEF q
  <2> QED BY <1>5, <2>1, <2>2, <2>3, <2>4, Zenon DEF Picks
<1>14. Only(s, S \ {x}) \in Seq(T)
  BY OnlyPicks
<1>15. PICK p : Picks(p, Only(s, S \ {x}), s, L, S \ {x})
  BY OnlyPicks DEF L
<1> DEFINE R == S \ {x}
<1> HIDE DEF q, R
<1>16. Only(s, R) = u
  <2>1. Only(s, R) \in Seq(T) /\ Picks(p, Only(s, R), s, L, R) /\ Picks(q, u, s, L, R)
    BY <1>13, <1>14, <1>15 DEF R
  <2> QED BY <1>3, <1>5, <2>1, PicksUnique
<1> QED BY <1>16 DEF R, u, t, TakenOut

-----------------------------------------------------------------------------
(* The entries of a list that hold a message, and its number.              *)
Num(e) == e[1].id
Valid(e) == e = EntryCells(Num(e))
Holds(E, i) == \E k \in 1 .. Len(E) : E[k] = EntryCells(i)
Sorted(E) ==
  \A j, k \in 1 .. Len(E) : (j < k /\ Valid(E[j]) /\ Valid(E[k])) => Num(E[j]) < Num(E[k])

(* Messages whose enqueue is over.                                         *)
Enqueued == IF main.pc = "idle" THEN Len(msgs) ELSE Len(msgs) - 1
UpTo(E, n) == \A k \in 1 .. Len(E) : Valid(E[k]) => Num(E[k]) \in 1 .. n

Rewriting == net.pc \in {"trunc", "write"}
Pair == Cell \X Cell

(* The sizes of the file and of what its header and the threads count.     *)
Typed ==
  /\ TypeOK
  /\ net.todo \in Seq(Pair) /\ net.rest \in Seq(Pair)
  /\ Len(msgs) <= MaxMsgs
  /\ main.pc # "idle" => up = "up" /\ Len(msgs) # 0 /\ main.id = Len(msgs)
  /\ net.pc # "idle" => up = "up" /\ net.todo # <<>>
  /\ Len(file) <= 1 + 2 * Enqueued
  /\ Rewriting => Len(net.rest) <= Enqueued
  /\ (file # <<>> /\ file[1].part = "hdr")
       => file[1].id <= IF main.pc = "bumped" THEN Len(msgs) ELSE Enqueued
  /\ main.pc = "counted" => main.count <= Enqueued
  /\ up = "creating" => file = <<>> /\ msgs = <<>>
  /\ ~ exists => up = "down" /\ file = <<>> /\ msgs = <<>>

(* The messages are on file in their order; what a rewriting holds in      *)
(* memory comes before what an enqueue has appended since the truncation.  *)
Contents ==
  /\ Sorted(GetAll) /\ UpTo(GetAll, Enqueued)
  /\ Rewriting => Sorted(net.rest) /\ UpTo(net.rest, Enqueued)
  /\ net.pc = "write" =>
       \A j \in 1 .. Len(net.rest), k \in 1 .. Len(GetAll) :
         (Valid(net.rest[j]) /\ Valid(GetAll[k])) => Num(net.rest[j]) < Num(GetAll[k])

(* E holds the entries of todo from the n-th on, and no other of their     *)
(* peer but later ones.                                                    *)
ToPeer(e) == Valid(e) /\ msgs[Num(e)].dest = msgs[Num(net.todo[1])].dest
Covers(n, E) ==
  /\ \A j \in n .. Len(net.todo) : Holds(E, Num(net.todo[j]))
  /\ \A k \in 1 .. Len(E) :
       ToPeer(E[k]) => \/ \E j \in n .. Len(net.todo) : net.todo[j] = E[k]
                       \/ \A j \in 1 .. Len(net.todo) : Num(net.todo[j]) < Num(E[k])

(* What the handler has still to send is on file or in memory.             *)
Agenda ==
  net.pc # "idle" =>
    /\ \A j \in 1 .. Len(net.todo) : ToPeer(net.todo[j]) /\ Num(net.todo[j]) \in 1 .. Enqueued
    /\ Sorted(net.todo)
    /\ Covers(IF Rewriting THEN 2 ELSE 1, IF Rewriting THEN net.rest ELSE GetAll)

(* A message that waits comes after all of its peer that were handed to    *)
(* send_packet; without a crash it was not handed on itself, but for the   *)
(* one that remove_entry is about to take out.                             *)
After(e, again) ==
  Valid(e) => \A n \in DOMAIN taken :
    msgs[taken[n]].dest = msgs[Num(e)].dest =>
      taken[n] <= Num(e) /\ (crashes = 0 /\ ~ again => taken[n] # Num(e))
Fifo ==
  /\ taken \in Seq(1 .. Enqueued)
  /\ \A k \in 1 .. Len(GetAll) :
       After(GetAll[k], net.pc \in {"find", "trunc"} /\ GetAll[k] = net.todo[1])
  /\ Rewriting => \A k \in 1 .. Len(net.rest) : After(net.rest[k], FALSE)
  /\ net.pc \in {"find", "trunc"} => Num(net.todo[1]) \in Taken

(* As long as no enqueue has overlapped a rewriting.                       *)
Undisturbed ==
  ~ raced =>
    /\ main.pc # "idle" => ~ Rewriting
    /\ file = <<>> \/ Len(file) % 2 = 1
    /\ main.pc = "bumped" => file # <<>>
    /\ net.pc = "trunc" => \E k \in 1 .. Len(GetAll) :
                             GetAll[k] = net.todo[1] /\ net.rest = RemoveAt(GetAll, k)
    /\ net.pc = "write" => file = <<>>

(* And as long as the process has not crashed.                             *)
Counted ==
  (~ raced /\ crashes = 0) =>
    /\ up = "down" => ~ exists
    /\ (up = "up" /\ net.pc # "write") =>
         file # <<>> /\ file[1] = Hdr(Len(GetAll) + (IF main.pc = "bumped" THEN 1 ELSE 0))
    /\ main.pc = "counted" => main.count = Len(GetAll)

Inv == Typed /\ Contents /\ Agenda /\ Fifo /\ InOrder /\ AtMostOnce /\ Undisturbed /\ Counted /\ Kept

-----------------------------------------------------------------------------
(* Entries and the file.                                                   *)

(* An entry of a message tells its number.                                 *)
LEMMA EntryFacts ==
  ASSUME NEW i
  PROVE  /\ EntryCells(i)[1] = Head9(i) /\ EntryCells(i)[2] = Tail519(i)
         /\ Num(EntryCells(i)) = i /\ Valid(EntryCells(i))
BY DEF EntryCells, Num, Valid, Head9, Tail519

(* Entries of the same message are equal.                                  *)
LEMMA ValidEqual ==
  ASSUME NEW e, NEW f, Valid(e), Valid(f), Num(e) = Num(f)
  PROVE  e = f
BY Zenon DEF Valid

(* Two cells are no entry if the second is not a tail.                     *)
LEMMA NoEntry ==
  ASSUME NEW c, NEW i
  PROVE  ~ Valid(<<c, Head9(i)>>)
BY DEF Valid, EntryCells, Head9, Tail519, Num

(* The entries of a file with cells f.                                     *)
EntriesOf(f) ==
  IF f = <<>> THEN <<>> ELSE [k \in 1 .. (Len(f) - 1) \div 2 |-> <<f[2 * k], f[2 * k + 1]>>]

(* Division by two rounds down.                                            *)
LEMMA Halves ==
  ASSUME NEW n \in Nat
  PROVE  /\ n \div 2 \in Nat /\ 2 * (n \div 2) <= n /\ n < 2 * (n \div 2) + 2
         /\ (2 * n) \div 2 = n /\ (2 * n + 1) \div 2 = n
         /\ \A m \in Nat : 2 * m <= n => m <= n \div 2
         /\ n % 2 = n - 2 * (n \div 2)
OBVIOUS

(* What get_all returns for a file f: pairs of cells behind the header.    *)
LEMMA EntriesOfFacts ==
  ASSUME NEW f \in Seq(Cell)
  PROVE  /\ EntriesOf(f) \in Seq(Pair) /\ Len(EntriesOf(f)) \in Nat
         /\ Len(EntriesOf(f)) = (IF f = <<>> THEN 0 ELSE (Len(f) - 1) \div 2)
         /\ \A k \in 1 .. Len(EntriesOf(f)) :
              /\ 2 * k \in 1 .. Len(f) /\ 2 * k + 1 \in 1 .. Len(f)
              /\ EntriesOf(f)[k] = <<f[2 * k], f[2 * k + 1]>>
<1>1. CASE f = <<>>
  BY <1>1 DEF EntriesOf
<1>2. CASE f # <<>>
  <2> DEFINE n == (Len(f) - 1) \div 2
  <2>1. Len(f) - 1 \in Nat
    BY <1>2
  <2>2. n \in Nat /\ 2 * n <= Len(f) - 1
    BY <2>1, Halves
  <2>3. EntriesOf(f) = [k \in 1 .. n |-> <<f[2 * k], f[2 * k + 1]>>]
    BY <1>2 DEF EntriesOf
  <2> HIDE DEF n
  <2>4. \A k \in 1 .. n : 2 * k \in 1 .. Len(f) /\ 2 * k + 1 \in 1 .. Len(f)
    BY <2>1, <2>2
  <2>5. \A k \in 1 .. n : <<f[2 * k], f[2 * k + 1]>> \in Pair
    <3> HIDE DEF Cell
    <3>1. \A j \in 1 .. Len(f) : f[j] \in Cell
      OBVIOUS
    <3> QED BY <2>4, <3>1 DEF Pair
  <2>6. EntriesOf(f) \in Seq(Pair) /\ Len(EntriesOf(f)) = n
    <3> HIDE DEF Pair
    <3> QED BY <2>2, <2>3, <2>5
  <2> QED BY <1>2, <2>2, <2>3, <2>4, <2>6 DEF n
<1> QED BY <1>1, <1>2

(* get_all reads the file, before a step and after it.                     *)
LEMMA GetAllIs == GetAll = EntriesOf(file) /\ GetAll' = EntriesOf(file')
BY DEF GetAll, EntriesOf

(* The header alone is written, perhaps into an empty file.                *)
HeaderOver(g, f, c) == g = <<c>> \o SubSeq(f, 2, Len(f))

(* write_header changes the first cell; what get_all returns stays.        *)
LEMMA HeaderWritten ==
  ASSUME NEW f \in Seq(Cell), NEW c \in Cell, NEW g, HeaderOver(g, f, c)
  PROVE  /\ g \in Seq(Cell) /\ Len(g) = (IF f = <<>> THEN 1 ELSE Len(f)) /\ g[1] = c
         /\ EntriesOf(g) = EntriesOf(f)
<1> HIDE DEF Cell
<1> DEFINE t == SubSeq(f, 2, Len(f))
<1>1. /\ t \in Seq(Cell) /\ Len(t) = (IF f = <<>> THEN 0 ELSE Len(f) - 1)
      /\ \A j \in 1 .. Len(t) : t[j] = f[j + 1]
  OBVIOUS
<1> HIDE DEF t
<1>2. /\ g \in Seq(Cell) /\ Len(g) = 1 + Len(t) /\ g[1] = c
      /\ \A j \in 2 .. Len(g) : g[j] = t[j - 1]
  <2>1. g = <<c>> \o t /\ <<c>> \in Seq(Cell) /\ Len(<<c>>) = 1 /\ <<c>>[1] = c
    BY DEF t, HeaderOver
  <2> QED BY <1>1, <2>1
<1>3. CASE f = <<>>
  <2>1. Len(g) = 1 /\ (1 - 1) \div 2 = 0 /\ g # <<>>
    BY <1>1, <1>2, <1>3
  <2>2. EntriesOf(g) \in Seq(Pair) /\ Len(EntriesOf(g)) = 0
    <3> HIDE DEF Pair
    <3> QED BY <1>2, <2>1, EntriesOfFacts
  <2>3. EntriesOf(g) = <<>> /\ EntriesOf(f) = <<>>
    BY <1>3, <2>2, EmptyLen DEF EntriesOf
  <2> QED BY <1>2, <1>3, <2>1, <2>3
<1>4. CASE f # <<>>
  <2>1. Len(g) = Len(f) /\ g # <<>>
    BY <1>1, <1>2, <1>4
  <2>2. \A j \in 2 .. Len(f) : g[j] = f[j]
    BY <1>1, <1>2, <1>4, <2>1
  <2>3. Len(EntriesOf(f)) = (Len(f) - 1) \div 2 /\ Len(EntriesOf(g)) = (Len(f) - 1) \div 2
    BY <1>2, <1>4, <2>1, EntriesOfFacts
  <2>4. \A k \in 1 .. Len(EntriesOf(f)) : EntriesOf(g)[k] = EntriesOf(f)[k]
    <3> SUFFICES ASSUME NEW k \in 1 .. Len(EntriesOf(f)) PROVE EntriesOf(g)[k] = EntriesOf(f)[k]
      OBVIOUS
    <3>1. /\ 2 * k \in 1 .. Len(f) /\ 2 * k + 1 \in 1 .. Len(f)
          /\ EntriesOf(f)[k] = <<f[2 * k], f[2 * k + 1]>>
          /\ EntriesOf(g)[k] = <<g[2 * k], g[2 * k + 1]>>
      BY <1>2, <2>3, EntriesOfFacts
    <3>2. 2 * k \in 2 .. Len(f) /\ 2 * k + 1 \in 2 .. Len(f)
      <4>1. k \in Nat /\ k >= 1 /\ Len(f) \in Nat
        BY <2>3, EntriesOfFacts
      <4> QED BY <3>1, <4>1
    <3> QED BY <2>2, <3>1, <3>2
  <2>5. EntriesOf(g) \in Seq(Pair) /\ EntriesOf(f) \in Seq(Pair)
    BY <1>2, EntriesOfFacts
  <2>6. EntriesOf(g) = EntriesOf(f)
    <3> HIDE DEF EntriesOf, Pair
    <3> QED BY <2>3, <2>4, <2>5
  <2> QED BY <1>2, <1>4, <2>1, <2>6
<1> QED BY <1>3, <1>4

(* What a list of one cell and of two cells holds.                         *)
LEMMA ShortLists ==
  ASSUME NEW T, NEW x \in T, NEW y \in T
  PROVE  /\ <<x>> \in Seq(T) /\ Len(<<x>>) = 1 /\ <<x>>[1] = x
         /\ <<x, y>> \in Seq(T) /\ Len(<<x, y>>) = 2 /\ <<x, y>>[1] = x /\ <<x, y>>[2] = y
OBVIOUS

(* An entry is a list of cells.                                            *)
LEMMA PairsAreLists == Pair \subseteq Seq(Cell)
<1> HIDE DEF Cell
<1> SUFFICES ASSUME NEW e \in Pair PROVE e \in Seq(Cell)
  OBVIOUS
<1>1. e[1] \in Cell /\ e[2] \in Cell /\ e = <<e[1], e[2]>>
  BY DEF Pair
<1>2. <<e[1], e[2]>> \in Seq(Cell)
  BY <1>1, ShortLists
<1> QED BY <1>1, <1>2, Zenon

(* Two cells are appended: to a file of whole entries they are an entry,   *)
(* to an empty file nothing that is read, to another file they straddle.   *)
AtEnd(g, f, x, y) == g = f \o <<x, y>>

(* The entry at the end of enqueue is read behind all others if the file   *)
(* holds whole entries behind a header.                                    *)
LEMMA EntryAppended ==
  ASSUME NEW f \in Seq(Cell), NEW x \in Cell, NEW y \in Cell, NEW g, AtEnd(g, f, x, y)
  PROVE  /\ g \in Seq(Cell) /\ Len(g) = Len(f) + 2 /\ g[1] = (IF f = <<>> THEN x ELSE f[1])
         /\ \/ f = <<>> /\ EntriesOf(g) = EntriesOf(f)
            \/ /\ f # <<>> /\ \E c \in Cell : EntriesOf(g) = Append(EntriesOf(f), <<c, x>>)
               /\ Len(f) % 2 = 0
            \/ /\ f # <<>> /\ EntriesOf(g) = Append(EntriesOf(f), <<x, y>>)
               /\ Len(f) % 2 = 1
<1> DEFINE F == EntriesOf(f)
           G == EntriesOf(g)
           n == Len(f)
           N == Len(F)
           xy == <<x, y>>
<1>0. xy \in Seq(Cell) /\ Len(xy) = 2 /\ xy[1] = x /\ xy[2] = y
  BY ShortLists
<1> HIDE DEF Cell, xy
<1>1. /\ g \in Seq(Cell) /\ Len(g) = n + 2 /\ n \in Nat /\ g[n + 1] = x /\ g[n + 2] = y
      /\ \A j \in 1 .. n : g[j] = f[j]
  <2>1. g = f \o xy /\ xy \in Seq(Cell) /\ 2 = Len(xy)
    BY <1>0 DEF xy, AtEnd
  <2>2. /\ g \in Seq(Cell) /\ Len(g) = n + 2
        /\ \A j \in 1 .. n : g[j] = f[j]
        /\ \A j \in 1 .. 2 : g[n + j] = xy[j]
    <3> DEFINE two == 2
    <3> HIDE DEF n, two
    <3>1. g = f \o xy /\ xy \in Seq(Cell) /\ n = Len(f) /\ two = Len(xy)
      BY <2>1 DEF n, two
    <3>2. /\ g \in Seq(Cell) /\ Len(g) = n + two
          /\ \A j \in 1 .. n : g[j] = f[j]
          /\ \A j \in 1 .. two : g[n + j] = xy[j]
      BY <3>1, Joined
    <3> QED BY <3>2 DEF two
  <2>3. 1 \in 1 .. 2 /\ 2 \in 1 .. 2 /\ n \in Nat
    OBVIOUS
  <2> QED BY <1>0, <2>2, <2>3, Zenon
<1>2. /\ F \in Seq(Pair) /\ N \in Nat /\ N = (IF f = <<>> THEN 0 ELSE (n - 1) \div 2)
      /\ \A k \in 1 .. N :
           2 * k \in 1 .. n /\ 2 * k + 1 \in 1 .. n /\ F[k] = <<f[2 * k], f[2 * k + 1]>>
  BY EntriesOfFacts
<1>3. /\ G \in Seq(Pair) /\ Len(G) = (IF g = <<>> THEN 0 ELSE (Len(g) - 1) \div 2)
      /\ \A k \in 1 .. Len(G) : G[k] = <<g[2 * k], g[2 * k + 1]>>
  BY <1>1, EntriesOfFacts
<1>4. g # <<>> /\ (f = <<>> <=> n = 0)
  BY <1>1
<1>5. Len(G) = (n + 1) \div 2
  <2>1. (n + 2) - 1 = n + 1
    BY <1>1
  <2> QED BY <1>1, <1>3, <1>4, <2>1
<1> HIDE DEF F, G, n, N
<1>6. CASE n = 0
  <2>1. (0 + 1) \div 2 = 0
    OBVIOUS
  <2>2. Len(G) = 0 /\ Len(F) = 0
    BY <1>2, <1>4, <1>5, <1>6, <2>1 DEF N
  <2>3. G = F
    <3> HIDE DEF Pair
    <3> QED BY <1>2, <1>3, <2>2
  <2>4. g[1] = x
    BY <1>1, <1>6
  <2> QED BY <1>1, <1>4, <1>6, <2>3, <2>4 DEF F, G, n
<1>7. CASE n # 0
  <2>1. g[1] = f[1] /\ n - 1 \in Nat /\ n + 1 \in Nat
    BY <1>1, <1>7
  <2>2. N = (n - 1) \div 2
    BY <1>2, <1>4, <1>7
  <2>3. 2 * N <= n - 1 /\ n - 1 < 2 * N + 2
    BY <2>1, <2>2, Halves
  <2>4. Len(G) = N + 1
    <3>1. \A m \in Nat : 2 * m <= n + 1 => m <= Len(G)
      BY <1>5, <2>1, Halves
    <3>2. Len(G) \in Nat /\ 2 * Len(G) <= n + 1
      BY <1>5, <2>1, Halves
    <3>3. N + 1 <= Len(G)
      BY <1>1, <1>2, <2>3, <3>1
    <3>4. n \in Nat /\ N \in Nat
      BY <1>1, <1>2
    <3> QED BY <2>3, <3>2, <3>3, <3>4
  <2> DEFINE e == <<g[2 * (N + 1)], g[2 * (N + 1) + 1]>>
  <2>5. \A k \in 1 .. N : G[k] = F[k]
    <3> SUFFICES ASSUME NEW k \in 1 .. N PROVE G[k] = F[k]
      OBVIOUS
    <3>1. k \in 1 .. N + 1
      BY <1>2
    <3> QED BY <1>1, <1>2, <1>3, <2>4, <3>1
  <2>6. G[N + 1] = e /\ e \in Pair
    <3>1. N + 1 \in 1 .. Len(G)
      BY <1>2, <2>4
    <3>2. G[N + 1] \in Pair
      <4> HIDE DEF Pair
      <4> QED BY <1>3, <3>1
    <3> QED BY <1>3, <3>1, <3>2
  <2>7. G = Append(F, e)
    <3>1. /\ F \in Seq(Pair) /\ G \in Seq(Pair) /\ e \in Pair /\ N = Len(F) /\ Len(G) = N + 1
          /\ \A k \in 1 .. N : G[k] = F[k]
          /\ G[N + 1] = e
      BY <1>2, <1>3, <2>4, <2>5, <2>6 DEF N
    <3> HIDE DEF Pair, e
    <3>2. Append(F, e) \in Seq(Pair) /\ Len(Append(F, e)) = N + 1
          /\ Append(F, e)[N + 1] = e /\ \A k \in 1 .. N : Append(F, e)[k] = F[k]
      BY <3>1, OneAppended
    <3>3. \A k \in 1 .. N + 1 : k \in 1 .. N \/ k = N + 1
      BY <1>2
    <3>4. \A k \in 1 .. Len(G) : G[k] = Append(F, e)[k]
      BY <3>1, <3>2, <3>3
    <3> DEFINE A == Append(F, e)
    <3> HIDE DEF A
    <3>5. A \in Seq(Pair) /\ Len(A) = Len(G) /\ \A k \in 1 .. Len(G) : G[k] = A[k]
      BY <3>1, <3>2, <3>4 DEF A
    <3>6. G = A
      BY <3>1, <3>5
    <3> QED BY <3>6 DEF A
  <2>8. CASE n = 2 * N + 1
    <3>1. e = <<x, y>>
      <4>1. 2 * (N + 1) = n + 1 /\ 2 * (N + 1) + 1 = n + 2
        BY <1>2, <2>8
      <4> QED BY <1>1, <4>1
    <3>2. n % 2 = 1
      BY <1>2, <2>8
    <3> HIDE DEF e
    <3> QED BY <1>1, <1>4, <1>7, <2>1, <2>7, <3>1, <3>2 DEF F, G, n
  <2>9. CASE n = 2 * N + 2
    <3>1. e = <<f[n], x>> /\ f[n] \in Cell
      <4>1. 2 * (N + 1) = n /\ 2 * (N + 1) + 1 = n + 1 /\ n \in 1 .. n
        BY <1>1, <1>2, <2>9
      <4>2. f[n] \in Cell
        BY <4>1 DEF n
      <4> QED BY <1>1, <4>1, <4>2
    <3>2. n % 2 = 0
      <4>1. N + 1 \in Nat /\ n = 2 * (N + 1)
        BY <1>2, <2>9
      <4> QED BY <1>1, <4>1, Halves
    <3> HIDE DEF e
    <3> QED BY <1>1, <1>4, <1>7, <2>1, <2>7, <3>1, <3>2 DEF F, G, n
  <2>10. n = 2 * N + 1 \/ n = 2 * N + 2
    BY <1>1, <1>2, <2>3
  <2> QED BY <2>8, <2>9, <2>10
<1> QED BY <1>6, <1>7

(* The cells of a list of entries.                                         *)
LEMMA CellsFacts ==
  ASSUME NEW r \in Seq(Pair), NEW n, n = Len(r)
  PROVE  /\ Cells(r) \in Seq(Cell) /\ Len(Cells(r)) = 2 * n
         /\ \A k \in 1 .. n : r[k] = <<Cells(r)[2 * k - 1], Cells(r)[2 * k]>>
<1>1. n \in Nat /\ 2 * n \in Nat
  OBVIOUS
<1>2. \A k \in 1 .. n : r[k][1] \in Cell /\ r[k][2] \in Cell /\ r[k] = <<r[k][1], r[k][2]>>
  <2> SUFFICES ASSUME NEW k \in 1 .. n
               PROVE  r[k][1] \in Cell /\ r[k][2] \in Cell /\ r[k] = <<r[k][1], r[k][2]>>
    OBVIOUS
  <2>1. r[k] \in Pair
    <3> HIDE DEF Pair
    <3> QED OBVIOUS
  <2> HIDE DEF Cell
  <2> QED BY <2>1 DEF Pair
<1> DEFINE side(j) == r[(j + 1) \div 2][IF j % 2 = 1 THEN 1 ELSE 2]
           w == [j \in 1 .. 2 * n |-> side(j)]
<1>3. Cells(r) = w
  BY DEF Cells
<1>4. \A j \in 1 .. 2 * n : side(j) \in Cell
  <2> SUFFICES ASSUME NEW j \in 1 .. 2 * n PROVE side(j) \in Cell
    OBVIOUS
  <2>1. (j + 1) \div 2 \in 1 .. n
    <3>1. j + 1 \in Nat
      BY <1>1
    <3> QED BY <1>1, <3>1, Halves
  <2> HIDE DEF Cell
  <2> QED BY <1>2, <2>1
<1>5. ASSUME NEW k \in 1 .. n
      PROVE  /\ 2 * k - 1 \in 1 .. 2 * n /\ side(2 * k - 1) = r[k][1]
             /\ 2 * k \in 1 .. 2 * n /\ side(2 * k) = r[k][2]
  <2>1. /\ 2 * k - 1 \in 1 .. 2 * n /\ 2 * k \in 1 .. 2 * n /\ k \in Nat
        /\ 2 * k \in Nat /\ 2 * k - 1 \in Nat /\ (2 * k - 1) + 1 = 2 * k
    BY <1>1
  <2>2. (2 * k) \div 2 = k /\ (2 * k + 1) \div 2 = k
    BY <2>1, Halves
  <2>3. (2 * k - 1) % 2 = 1 /\ (2 * k) % 2 = 0
    BY <2>1
  <2> QED BY <2>1, <2>2, <2>3
<1> HIDE DEF side
<1>6. w \in Seq(Cell) /\ Len(w) = 2 * n
  <2> HIDE DEF Cell
  <2> QED BY <1>1, <1>4
<1>7. \A k \in 1 .. n : r[k] = <<w[2 * k - 1], w[2 * k]>>
  BY <1>2, <1>5
<1> QED BY <1>3, <1>6, <1>7, Zenon

Written(g, f, c, r) ==
  LET cells == <<c>> \o Cells(r)
  IN  g = cells \o SubSeq(f, Len(cells) + 1, Len(f))
IsLen(n, r) == n = Len(r)

(* A list of entries is written over the file behind the header: they come *)
(* first, and what is on file behind them stays.                           *)
Overwritten(g, f, c, r, n) ==
  /\ g \in Seq(Cell) /\ g # <<>> /\ g[1] = c /\ n \in Nat
  /\ Len(g) = (IF Len(f) <= 2 * n + 1 THEN 2 * n + 1 ELSE Len(f))
  /\ n <= Len(EntriesOf(g))
  /\ \A k \in 1 .. n : EntriesOf(g)[k] = r[k]
  /\ \A k \in n + 1 .. Len(EntriesOf(g)) :
       k \in 1 .. Len(EntriesOf(f)) /\ EntriesOf(g)[k] = EntriesOf(f)[k]
  /\ Len(f) <= 2 * n + 1 => EntriesOf(g) = r

(* What remove_entry writes is read back, and after it the entries that    *)
(* lay behind.                                                             *)
LEMMA EntriesWritten ==
  ASSUME NEW f \in Seq(Cell), NEW r \in Seq(Pair), NEW c \in Cell, NEW g, NEW n,
         IsLen(n, r), Written(g, f, c, r)
  PROVE  Overwritten(g, f, c, r, n)
<1> DEFINE L == Len(f)
           w == Cells(r)
           h == <<c>>
           cells == h \o w
           t == SubSeq(f, Len(cells) + 1, L)
<1>1. n = Len(r) /\ n \in Nat /\ L \in Nat /\ 2 * n \in Nat /\ 2 * n + 1 \in Nat
  BY DEF IsLen
<1>2. /\ w \in Seq(Cell) /\ 2 * n = Len(w)
      /\ \A k \in 1 .. n : r[k] = <<w[2 * k - 1], w[2 * k]>>
  BY <1>1, CellsFacts
<1>3. h \in Seq(Cell) /\ 1 = Len(h) /\ h[1] = c
  BY ShortLists
<1>0. g = cells \o t
  BY DEF Written
<1> HIDE DEF w, h, Cell
<1>4. /\ cells \in Seq(Cell) /\ 2 * n + 1 = Len(cells) /\ cells[1] = c
      /\ \A j \in 1 .. 2 * n : cells[1 + j] = w[j]
  <2>1. w \in Seq(Cell) /\ 2 * n = Len(w) /\ h \in Seq(Cell) /\ 1 = Len(h) /\ cells = h \o w
    BY <1>2, <1>3
  <2> DEFINE m == 2 * n
             one == 1
  <2> HIDE DEF cells, m, one
  <2>2. /\ cells \in Seq(Cell) /\ Len(cells) = one + m
        /\ \A j \in 1 .. one : cells[j] = h[j]
        /\ \A j \in 1 .. m : cells[one + j] = w[j]
    <3>1. m = Len(w) /\ one = Len(h)
      BY <2>1 DEF m, one
    <3> QED BY <2>1, <3>1, Joined
  <2>3. 1 \in 1 .. 1 /\ 1 + 2 * n = 2 * n + 1
    BY <1>1
  <2> QED BY <1>3, <2>2, <2>3, Zenon DEF m, one
<1> HIDE DEF cells
<1>5. /\ t \in Seq(Cell) /\ Len(t) = (IF L <= 2 * n + 1 THEN 0 ELSE L - (2 * n + 1))
      /\ \A j \in 1 .. Len(t) : t[j] = f[(2 * n + 1) + j]
  BY <1>1, <1>4
<1> DEFINE T == Len(t)
           M == Len(g)
<1>6. /\ g \in Seq(Cell) /\ M = (2 * n + 1) + T
      /\ \A j \in 1 .. 2 * n + 1 : g[j] = cells[j]
      /\ \A j \in 1 .. T : g[(2 * n + 1) + j] = t[j]
  <2>1. g = cells \o t /\ cells \in Seq(Cell) /\ t \in Seq(Cell) /\ 2 * n + 1 = Len(cells)
    BY <1>0, <1>4, <1>5
  <2> DEFINE m == 2 * n + 1
             k == Len(t)
  <2>2. m = Len(cells) /\ k = Len(t)
    BY <2>1
  <2> HIDE DEF t, m, k
  <2>3. /\ g \in Seq(Cell) /\ Len(g) = m + k
        /\ \A j \in 1 .. m : g[j] = cells[j]
        /\ \A j \in 1 .. k : g[m + j] = t[j]
    BY <2>1, <2>2, Joined
  <2> QED BY <2>2, <2>3, Zenon DEF m
<1> DEFINE G == EntriesOf(g)
           F == EntriesOf(f)
<1>7. /\ G \in Seq(Pair) /\ Len(G) = (IF g = <<>> THEN 0 ELSE (Len(g) - 1) \div 2)
      /\ \A k \in 1 .. Len(G) : G[k] = <<g[2 * k], g[2 * k + 1]>>
  BY <1>6, EntriesOfFacts
<1>8. /\ F \in Seq(Pair) /\ Len(F) = (IF f = <<>> THEN 0 ELSE (L - 1) \div 2)
      /\ \A k \in 1 .. Len(F) : F[k] = <<f[2 * k], f[2 * k + 1]>>
  BY EntriesOfFacts
<1>9. (f = <<>> <=> L = 0) /\ (g = <<>> <=> M = 0)
  BY <1>6, EmptyLen
<1> HIDE DEF L, t, G, F, M, T
<1>10. T = (IF L <= 2 * n + 1 THEN 0 ELSE L - (2 * n + 1)) /\ M = (2 * n + 1) + T
  BY <1>5, <1>6 DEF T
<1>11. M = (IF L <= 2 * n + 1 THEN 2 * n + 1 ELSE L) /\ M # 0 /\ M - 1 \in Nat /\ 2 * n <= M - 1
  <2>1. n \in Nat /\ L \in Nat
    BY <1>1
  <2> QED BY <1>10, <2>1
<1>12. g # <<>> /\ g[1] = c /\ Len(G) = (M - 1) \div 2
  <2>1. g # <<>>
    BY <1>9, <1>11
  <2>2. 1 \in 1 .. 2 * n + 1
    BY <1>1
  <2> QED BY <1>4, <1>6, <1>7, <2>1, <2>2 DEF M
<1>13. Len(G) \in Nat /\ 2 * Len(G) <= M - 1
  BY <1>11, <1>12, Halves
<1>14. n <= Len(G) /\ (L <= 2 * n + 1 => Len(G) = n)
  <2>1. \A m \in Nat : 2 * m <= M - 1 => m <= (M - 1) \div 2
    BY <1>11, Halves
  <2>2. n <= Len(G)
    BY <1>1, <1>11, <1>12, <2>1
  <2>3. CASE L <= 2 * n + 1
    BY <1>1, <1>11, <1>13, <2>2, <2>3
  <2> QED BY <2>2, <2>3
<1>15. \A k \in 1 .. n : G[k] = r[k]
  <2> SUFFICES ASSUME NEW k \in 1 .. n PROVE G[k] = r[k]
    OBVIOUS
  <2>1. /\ k \in 1 .. Len(G) /\ 2 * k \in 1 .. 2 * n + 1 /\ 2 * k + 1 \in 1 .. 2 * n + 1
        /\ 2 * k - 1 \in 1 .. 2 * n /\ 2 * k \in 1 .. 2 * n
        /\ 1 + (2 * k - 1) = 2 * k /\ 1 + 2 * k = 2 * k + 1
    BY <1>1, <1>13, <1>14
  <2>2. G[k] = <<cells[2 * k], cells[2 * k + 1]>>
    BY <1>6, <1>7, <2>1
  <2>3. cells[2 * k] = w[2 * k - 1] /\ cells[2 * k + 1] = w[2 * k]
    BY <1>4, <2>1
  <2> QED BY <1>2, <2>2, <2>3
<1>16. \A k \in n + 1 .. Len(G) : k \in 1 .. Len(F) /\ G[k] = F[k]
  <2> SUFFICES ASSUME NEW k \in n + 1 .. Len(G) PROVE k \in 1 .. Len(F) /\ G[k] = F[k]
    OBVIOUS
  <2>1. ~ (L <= 2 * n + 1) /\ M = L /\ L # 0
    BY <1>1, <1>11, <1>13, <1>14
  <2>2. Len(F) = Len(G)
    BY <1>8, <1>9, <1>12, <2>1
  <2> DEFINE a == 2 * k - (2 * n + 1)
             b == 2 * k + 1 - (2 * n + 1)
  <2>3. /\ a \in 1 .. T /\ b \in 1 .. T /\ k \in 1 .. Len(G)
        /\ (2 * n + 1) + a = 2 * k /\ (2 * n + 1) + b = 2 * k + 1
    BY <1>1, <1>10, <1>13, <2>1
  <2> HIDE DEF a, b
  <2>4. g[2 * k] = f[2 * k] /\ g[2 * k + 1] = f[2 * k + 1]
    <3>1. \A j \in 1 .. T : g[(2 * n + 1) + j] = f[(2 * n + 1) + j]
      BY <1>5, <1>6, Zenon DEF T
    <3> QED BY <2>3, <3>1, Zenon
  <2> QED BY <1>7, <1>8, <2>2, <2>3, <2>4
<1>17. L <= 2 * n + 1 => G = r
  <2> HIDE DEF Pair
  <2>1. G \in Seq(Pair) /\ r \in Seq(Pair)
    BY <1>7
  <2>2. ASSUME L <= 2 * n + 1 PROVE Len(G) = Len(r)
    BY <1>1, <1>14, <2>2
  <2>3. \A k \in 1 .. Len(r) : G[k] = r[k]
    BY <1>1, <1>15
  <2> QED BY <2>1, <2>2, <2>3
<1> QED BY <1>1, <1>6, <1>11, <1>12, <1>14, <1>15, <1>16, <1>17 DEF G, F, L, M, Overwritten

-----------------------------------------------------------------------------
(* The messages of entries.                                                *)

(* The sizes of what the variables hold.                                   *)
LEMMA Lengths ==
  ASSUME Typed
  PROVE  /\ Len(msgs) \in Nat /\ DOMAIN msgs = 1 .. Len(msgs) /\ Enqueued \in Nat
         /\ Enqueued <= Len(msgs) /\ Len(msgs) <= Enqueued + 1
         /\ \A i \in 1 .. Enqueued : i \in 1 .. Len(msgs)
         /\ GetAll \in Seq(Pair) /\ Len(GetAll) \in Nat
         /\ file \in Seq(Cell) /\ Len(file) \in Nat
<1>1. msgs \in Seq([dest : Peer, key : Key]) /\ file \in Seq(Cell)
  BY DEF Typed, TypeOK
<1>2. Len(msgs) \in Nat /\ DOMAIN msgs = 1 .. Len(msgs) /\ Len(file) \in Nat
  <2> HIDE DEF Cell
  <2> QED BY <1>1
<1>3. Enqueued \in Nat /\ Enqueued <= Len(msgs) /\ Len(msgs) <= Enqueued + 1
  BY <1>2 DEF Enqueued, Typed
<1>4. GetAll \in Seq(Pair) /\ Len(GetAll) \in Nat
  BY <1>1, GetAllIs, EntriesOfFacts
<1>5. \A i \in 1 .. Enqueued : i \in 1 .. Len(msgs)
  BY <1>2, <1>3
<1> QED BY <1>1, <1>2, <1>3, <1>4, <1>5

(* The message an entry holds is the one whose cells it has.               *)
LEMMA IdOfFacts ==
  ASSUME Typed, NEW e
  PROVE  /\ IdOf(e) # Nobody => Valid(e) /\ Num(e) = IdOf(e) /\ IdOf(e) \in 1 .. Len(msgs)
         /\ (Valid(e) /\ Num(e) \in 1 .. Len(msgs)) => IdOf(e) = Num(e) /\ IdOf(e) # Nobody
         /\ IdOf(e) \in 0 .. Len(msgs)
<1>1. Len(msgs) \in Nat /\ DOMAIN msgs = 1 .. Len(msgs)
  BY Lengths
<1>2. IdOf(e) = IF \E i \in DOMAIN msgs : e = EntryCells(i) THEN Num(e) ELSE Nobody
  BY DEF IdOf, Num
<1>3. CASE \E i \in DOMAIN msgs : e = EntryCells(i)
  <2>1. PICK i \in 1 .. Len(msgs) : e = EntryCells(i)
    BY <1>1, <1>3
  <2>2. Num(e) = i /\ Valid(e)
    BY <2>1, EntryFacts
  <2> QED BY <1>1, <1>2, <1>3, <2>1, <2>2 DEF Nobody
<1>4. CASE ~ \E i \in DOMAIN msgs : e = EntryCells(i)
  <2>1. IdOf(e) = 0
    BY <1>2, <1>4 DEF Nobody
  <2>2. ~ (Valid(e) /\ Num(e) \in 1 .. Len(msgs))
    BY <1>1, <1>4 DEF Valid
  <2> QED BY <1>1, <2>1, <2>2 DEF Nobody
<1> QED BY <1>3, <1>4

(* What was handed to send_packet are messages whose enqueue is over.      *)
LEMMA TakenType ==
  ASSUME Fifo
  PROVE  taken \in Seq(1 .. Enqueued) /\ \A n \in DOMAIN taken : taken[n] \in 1 .. Enqueued
<1> DEFINE S == 1 .. Enqueued
<1>1. taken \in Seq(S)
  BY DEF Fifo
<1> HIDE DEF S
<1>2. \A n \in DOMAIN taken : taken[n] \in S
  BY <1>1
<1> QED BY <1>1, <1>2 DEF S

(* Steps that change neither what is read from the file nor what the       *)
(* handler holds.                                                          *)
LEMMA QuietKeeps ==
  ASSUME Typed, Contents, Agenda, Fifo, InOrder, AtMostOnce,
         GetAll' = GetAll, UNCHANGED <<net, taken, crashes>>, Enqueued' = Enqueued,
         \A i \in 1 .. Enqueued : msgs'[i] = msgs[i]
  PROVE  Contents' /\ Agenda' /\ Fifo' /\ InOrder' /\ AtMostOnce'
<1>1. Contents'
  BY DEF Contents, Rewriting, UpTo
<1>2. taken \in Seq(1 .. Enqueued) /\ \A n \in DOMAIN taken : taken[n] \in 1 .. Enqueued
  BY TakenType
<1>3. InOrder'
  <2> SUFFICES ASSUME NEW i \in DOMAIN taken, NEW j \in DOMAIN taken, i < j,
                      msgs'[taken[i]].dest = msgs'[taken[j]].dest
               PROVE  taken[i] <= taken[j]
    BY DEF InOrder
  <2>1. msgs'[taken[i]] = msgs[taken[i]] /\ msgs'[taken[j]] = msgs[taken[j]]
    BY <1>2
  <2> QED BY <2>1 DEF InOrder
<1>4. AtMostOnce'
  BY DEF AtMostOnce
<1>5. Agenda'
  <2> SUFFICES ASSUME net.pc # "idle"
               PROVE  /\ \A j \in 1 .. Len(net.todo) : ToPeer(net.todo[j])' /\ Num(net.todo[j]) \in 1 .. Enqueued
                      /\ Covers(IF Rewriting THEN 2 ELSE 1, IF Rewriting THEN net.rest ELSE GetAll)'
    BY DEF Agenda, Rewriting
  <2>0. net.todo \in Seq(Pair) /\ net.todo # <<>>
    BY DEF Typed
  <2>1. 1 \in 1 .. Len(net.todo)
    <3> HIDE DEF Pair
    <3> QED BY <2>0
  <2>2. Num(net.todo[1]) \in 1 .. Enqueued
    BY <2>1 DEF Agenda
  <2>3. \A e : Num(e) \in 1 .. Enqueued => (ToPeer(e)' <=> ToPeer(e))
    BY <2>2 DEF ToPeer
  <2>4. \A E : UpTo(E, Enqueued) => \A k \in 1 .. Len(E) : ToPeer(E[k])' => ToPeer(E[k])
    BY <2>3 DEF UpTo, ToPeer
  <2> DEFINE n == IF Rewriting THEN 2 ELSE 1
             E == IF Rewriting THEN net.rest ELSE GetAll
  <2>5. UpTo(E, Enqueued) /\ Covers(n, E)
    BY DEF Contents, Agenda
  <2>6. n' = n /\ E' = E
    BY DEF Rewriting
  <2> HIDE DEF n, E
  <2>7. Covers(n, E)'
    <3>1. \A k \in 1 .. Len(E) : ToPeer(E[k])' => ToPeer(E[k])
      BY <2>4, <2>5, <2>6, Zenon
    <3> QED BY <2>5, <2>6, <3>1, Zenon DEF Covers
  <2>8. \A j \in 1 .. Len(net.todo) : ToPeer(net.todo[j])' /\ Num(net.todo[j]) \in 1 .. Enqueued
    BY <2>3 DEF Agenda
  <2> QED BY <2>7, <2>8 DEF n, E
<1>6. Fifo'
  <2>1. \A e, again : (Valid(e) => Num(e) \in 1 .. Enqueued) /\ After(e, again) => After(e, again)'
    <3> SUFFICES ASSUME NEW e, NEW again, Valid(e), Num(e) \in 1 .. Enqueued, After(e, again),
                        NEW n \in DOMAIN taken, msgs'[taken[n]].dest = msgs'[Num(e)].dest
                 PROVE  taken[n] <= Num(e) /\ (crashes = 0 /\ ~ again => taken[n] # Num(e))
      BY DEF After
    <3>1. msgs'[taken[n]] = msgs[taken[n]] /\ msgs'[Num(e)] = msgs[Num(e)]
      BY <1>2
    <3> QED BY <3>1 DEF After
  <2>2. \A k \in 1 .. Len(GetAll) :
          After(GetAll[k], net.pc \in {"find", "trunc"} /\ GetAll[k] = net.todo[1])'
    BY <2>1 DEF Fifo, Contents, UpTo
  <2>3. Rewriting => \A k \in 1 .. Len(net.rest) : After(net.rest[k], FALSE)'
    BY <2>1 DEF Fifo, Contents, UpTo
  <2> QED BY <2>2, <2>3 DEF Fifo, Rewriting, Taken
<1> QED BY <1>1, <1>3, <1>4, <1>5, <1>6

(* F is E, perhaps with one more entry at the end: of the message that is  *)
(* enqueued, or of none.                                                   *)
Grown(E, F, i) ==
  /\ \A k \in 1 .. Len(E) : k \in 1 .. Len(F) /\ F[k] = E[k]
  /\ \A k \in 1 .. Len(F) :
       \/ k \in 1 .. Len(E) /\ F[k] = E[k]
       \/ k = Len(E) + 1 /\ (Valid(F[k]) => Num(F[k]) = i)

(* A step that appends at most one entry, of the newest message, keeps the *)
(* order of the file, the handler's agenda and the order of what is sent.  *)
LEMMA GrownKeeps ==
  ASSUME Typed, Contents, Agenda, Fifo, InOrder, AtMostOnce,
         Grown(GetAll, GetAll', Enqueued + 1),
         UNCHANGED <<net, taken, crashes, msgs>>, Enqueued' = Enqueued + 1
  PROVE  Contents' /\ Agenda' /\ Fifo' /\ InOrder' /\ AtMostOnce'
<1> DEFINE G == GetAll
<1>1. Enqueued \in Nat /\ Len(G) \in Nat
  BY Lengths
<1>2. /\ \A k \in 1 .. Len(G) : k \in 1 .. Len(G') /\ G'[k] = G[k]
      /\ \A k \in 1 .. Len(G') :
           \/ k \in 1 .. Len(G) /\ G'[k] = G[k]
           \/ k = Len(G) + 1 /\ (Valid(G'[k]) => Num(G'[k]) = Enqueued + 1)
  BY DEF Grown
<1>3. Sorted(G) /\ UpTo(G, Enqueued)
  BY DEF Contents
<1>4. \A k \in 1 .. Len(G) : Valid(G[k]) => Num(G[k]) \in 1 .. Enqueued
  BY <1>3 DEF UpTo
<1>5. \A m \in 1 .. Enqueued : m \in 1 .. Enqueued + 1 /\ m < Enqueued + 1
  BY <1>1
<1> HIDE DEF G
<1>6. Sorted(G')
  <2> SUFFICES ASSUME NEW j \in 1 .. Len(G'), NEW k \in 1 .. Len(G'), j < k, Valid(G'[j]), Valid(G'[k])
               PROVE  Num(G'[j]) < Num(G'[k])
    BY DEF Sorted
  <2>1. j \in 1 .. Len(G) /\ G'[j] = G[j]
    <3>1. j # Len(G) + 1
      BY <1>1, <1>2
    <3> QED BY <1>2, <3>1
  <2>2. CASE k \in 1 .. Len(G) /\ G'[k] = G[k]
    BY <1>3, <2>1, <2>2 DEF Sorted
  <2>3. CASE Num(G'[k]) = Enqueued + 1
    BY <1>4, <1>5, <2>1, <2>3
  <2> QED BY <1>2, <2>2, <2>3
<1>7. UpTo(G', Enqueued + 1)
  <2>1. Enqueued + 1 \in 1 .. Enqueued + 1
    BY <1>1
  <2> QED BY <1>2, <1>4, <1>5, <2>1 DEF UpTo
<1>8. Contents'
  <2>1. Rewriting => Sorted(net.rest) /\ UpTo(net.rest, Enqueued) /\ UpTo(net.rest, Enqueued + 1)
    BY <1>5 DEF Contents, UpTo
  <2>2. ASSUME net.pc = "write", NEW j \in 1 .. Len(net.rest), NEW k \in 1 .. Len(G'),
               Valid(net.rest[j]), Valid(G'[k])
        PROVE  Num(net.rest[j]) < Num(G'[k])
    <3>1. Num(net.rest[j]) \in 1 .. Enqueued
      BY <2>1, <2>2 DEF UpTo, Rewriting
    <3>2. CASE k \in 1 .. Len(G) /\ G'[k] = G[k]
      BY <2>2, <3>2 DEF Contents, G
    <3>3. CASE Num(G'[k]) = Enqueued + 1
      BY <1>5, <3>1, <3>3
    <3> QED BY <1>2, <2>2, <3>2, <3>3
  <2> QED BY <1>6, <1>7, <2>1, <2>2 DEF Contents, Rewriting, G
<1>9. Agenda'
  <2> SUFFICES ASSUME net.pc # "idle" PROVE Agenda'
    BY DEF Agenda
  <2>1. /\ \A j \in 1 .. Len(net.todo) : ToPeer(net.todo[j]) /\ Num(net.todo[j]) \in 1 .. Enqueued
        /\ Sorted(net.todo)
        /\ Covers(IF Rewriting THEN 2 ELSE 1, IF Rewriting THEN net.rest ELSE G)
    BY DEF Agenda, G
  <2>2. \A e : ToPeer(e)' <=> ToPeer(e)
    BY DEF ToPeer
  <2>3. Rewriting' = Rewriting
    BY DEF Rewriting
  <2>4. \A j \in 1 .. Len(net.todo) : ToPeer(net.todo[j])' /\ Num(net.todo[j]) \in 1 .. Enqueued + 1
    BY <1>5, <2>1, <2>2
  <2>5. CASE Rewriting
    <3>1. Covers(2, net.rest)
      BY <2>1, <2>5
    <3>2. Covers(2, net.rest)'
      BY <2>2, <3>1 DEF Covers
    <3> QED BY <2>1, <2>3, <2>4, <2>5, <3>2 DEF Agenda
  <2>6. CASE ~ Rewriting
    <3>1. Covers(1, G)
      BY <2>1, <2>6
    <3>2. \A j \in 1 .. Len(net.todo) : Holds(G', Num(net.todo[j]))
      <4>1. \A i : Holds(G, i) => Holds(G', i)
        BY <1>2 DEF Holds
      <4> QED BY <3>1, <4>1 DEF Covers
    <3>3. ASSUME NEW k \in 1 .. Len(G'), ToPeer(G'[k])
          PROVE  \/ \E j \in 1 .. Len(net.todo) : net.todo[j] = G'[k]
                 \/ \A j \in 1 .. Len(net.todo) : Num(net.todo[j]) < Num(G'[k])
      <4>1. CASE k \in 1 .. Len(G) /\ G'[k] = G[k]
        BY <3>1, <3>3, <4>1 DEF Covers
      <4>2. CASE Valid(G'[k]) => Num(G'[k]) = Enqueued + 1
        BY <1>5, <2>1, <3>3, <4>2 DEF ToPeer
      <4> QED BY <1>2, <4>1, <4>2
    <3>4. Covers(1, G)'
      <4>1. \A j \in 1 .. Len(net.todo') : Holds(G', Num(net.todo'[j]))
        BY <3>2
      <4>2. \A k \in 1 .. Len(G') :
              ToPeer(G[k])' =>
                \/ \E j \in 1 .. Len(net.todo') : net.todo'[j] = G'[k]
                \/ \A j \in 1 .. Len(net.todo') : Num(net.todo'[j]) < Num(G'[k])
        <5>1. \A k : ToPeer(G[k])' => ToPeer(G'[k])
          BY DEF ToPeer
        <5> QED BY <3>3, <5>1
      <4> QED BY <4>1, <4>2, Zenon DEF Covers
    <3> QED BY <2>1, <2>3, <2>4, <2>6, <3>4 DEF Agenda, G
  <2> QED BY <2>5, <2>6
<1>10. Fifo'
  <2>1. taken \in Seq(1 .. Enqueued) /\ \A n \in DOMAIN taken : taken[n] \in 1 .. Enqueued
    BY TakenType
  <2>2. taken \in Seq(1 .. Enqueued + 1)
    BY <1>5, <2>1
  <2>3. \A e, again : After(e, again)' <=> After(e, again)
    BY DEF After
  <2>4. \A e, again : Num(e) = Enqueued + 1 => After(e, again)
    <3> SUFFICES ASSUME NEW e, Num(e) = Enqueued + 1, NEW n \in DOMAIN taken
                 PROVE  taken[n] <= Num(e) /\ taken[n] # Num(e)
      BY DEF After
    <3> QED BY <1>1, <2>1
  <2>5. ASSUME NEW k \in 1 .. Len(G')
        PROVE  After(G'[k], net.pc \in {"find", "trunc"} /\ G'[k] = net.todo[1])
    <3>1. CASE k \in 1 .. Len(G) /\ G'[k] = G[k]
      BY <3>1 DEF Fifo, G
    <3>2. CASE Valid(G'[k]) => Num(G'[k]) = Enqueued + 1
      <4>1. CASE Valid(G'[k])
        BY <2>4, <3>2, <4>1
      <4>2. CASE ~ Valid(G'[k])
        BY <4>2 DEF After
      <4> QED BY <4>1, <4>2
    <3> QED BY <1>2, <3>1, <3>2
  <2>6. Rewriting => \A k \in 1 .. Len(net.rest) : After(net.rest[k], FALSE)
    BY DEF Fifo
  <2>7. net.pc \in {"find", "trunc"} => Num(net.todo[1]) \in Taken
    BY DEF Fifo
  <2> QED BY <2>2, <2>3, <2>5, <2>6, <2>7 DEF Fifo, Rewriting, Taken, G
<1>11. InOrder' /\ AtMostOnce'
  BY DEF InOrder, AtMostOnce
<1> QED BY <1>8, <1>9, <1>10, <1>11

-----------------------------------------------------------------------------
(* The steps that leave what is read from the file as it is.               *)

(* An entry keeps its message.                                             *)
LEMMA IdOfStays ==
  ASSUME NEW e
  PROVE  /\ (DOMAIN msgs \subseteq DOMAIN msgs' /\ IdOf(e) # Nobody) => IdOf(e)' = IdOf(e)
         /\ msgs' = msgs => IdOf(e)' = IdOf(e)
BY DEF IdOf

(* Nothing is lost by a step that leaves the file and the handler alone.   *)
LEMMA QuietKept ==
  ASSUME Typed, Kept, GetAll' = GetAll, UNCHANGED <<net, taken, accepted, torn, raced>>,
         DOMAIN msgs \subseteq DOMAIN msgs'
  PROVE  Kept'
<1> SUFFICES ASSUME ~ raced PROVE Kept'
  BY DEF Kept
<1>1. accepted \subseteq OnFile \cup InRewrite \cup Taken \cup torn
  BY DEF Kept
<1>2. OnFile \subseteq OnFile'
  <2> SUFFICES ASSUME NEW i \in OnFile PROVE i \in OnFile'
    OBVIOUS
  <2>1. PICK k \in DOMAIN GetAll : i = IdOf(GetAll[k]) /\ i # Nobody
    BY DEF OnFile
  <2>2. IdOf(GetAll[k])' = IdOf(GetAll[k])
    <3> DEFINE e == GetAll[k]
    <3>1. e' = e
      OBVIOUS
    <3> QED BY <2>1, <3>1 DEF IdOf
  <2> QED BY <2>1, <2>2 DEF OnFile, Nobody
<1>3. InRewrite \ {Nobody} \subseteq InRewrite'
  <2> SUFFICES ASSUME NEW i \in InRewrite, i # Nobody PROVE i \in InRewrite'
    OBVIOUS
  <2>1. PICK k \in DOMAIN net.rest : i = IdOf(net.rest[k]) /\ net.pc = "write"
    BY DEF InRewrite
  <2>2. IdOf(net.rest[k])' = IdOf(net.rest[k])
    BY <2>1 DEF IdOf
  <2> QED BY <2>1, <2>2 DEF InRewrite
<1>4. Nobody \notin accepted
  <2>1. accepted \subseteq 1 .. Len(msgs)
    BY Lengths DEF Typed, TypeOK
  <2> QED BY <2>1 DEF Nobody
<1>5. Taken' = Taken /\ torn' = torn /\ accepted' = accepted
  BY DEF Taken
<1>6. accepted \subseteq OnFile' \cup InRewrite' \cup Taken \cup torn
  BY <1>1, <1>2, <1>3, <1>4
<1> QED BY <1>5, <1>6 DEF Kept

(* ensure_header leaves an existing file as it is.                         *)
LEMMA StartKeeps ==
  ASSUME Inv, Start
  PROVE  Inv'
<1>1. /\ up = "down" /\ exists' = TRUE /\ up' = (IF exists THEN "up" ELSE "creating")
      /\ UNCHANGED <<file, main, net, msgs, accepted, taken, torn, raced, crashes>>
  BY DEF Start
<1>2. /\ Typed /\ Contents /\ Agenda /\ Fifo /\ InOrder /\ AtMostOnce /\ Undisturbed
      /\ Counted /\ Kept
  BY DEF Inv
<1>3. GetAll' = GetAll /\ Enqueued' = Enqueued
  BY <1>1 DEF GetAll, Enqueued
<1>4. Contents' /\ Agenda' /\ Fifo' /\ InOrder' /\ AtMostOnce'
  BY <1>1, <1>2, <1>3, QuietKeeps
<1>5. main.pc = "idle" /\ net.pc = "idle"
  BY <1>1, <1>2 DEF Typed
<1>6. Typed'
  <2>1. TypeOK'
    <3> HIDE DEF Cell
    <3> QED BY <1>1, <1>2 DEF Typed, TypeOK
  <2> HIDE DEF Pair
  <2> QED BY <1>1, <1>2, <1>3, <1>5, <2>1 DEF Typed, Rewriting
<1>7. Undisturbed'
  BY <1>1, <1>2, <1>3, <1>5 DEF Undisturbed, Rewriting
<1>8. Counted'
  BY <1>1, <1>2, <1>3, <1>5 DEF Counted
<1>9. Kept'
  BY <1>1, <1>2, <1>3, QuietKept
<1> QED BY <1>4, <1>6, <1>7, <1>8, <1>9 DEF Inv

(* ensure_header writes the header of a new file.                          *)
LEMMA CreateHeaderKeeps ==
  ASSUME Inv, CreateHeader
  PROVE  Inv'
<1>1. /\ up = "creating" /\ file' = <<Hdr(0)>> /\ up' = "up"
      /\ UNCHANGED <<exists, main, net, msgs, accepted, taken, torn, raced, crashes>>
  BY DEF CreateHeader
<1>2. /\ Typed /\ Contents /\ Agenda /\ Fifo /\ InOrder /\ AtMostOnce /\ Undisturbed
      /\ Counted /\ Kept
  BY DEF Inv
<1>3. file = <<>> /\ msgs = <<>> /\ exists /\ main.pc = "idle" /\ net.pc = "idle"
  BY <1>1, <1>2 DEF Typed, TypeOK
<1>4. Hdr(0) \in Cell /\ Hdr(0).part = "hdr" /\ Hdr(0).id = 0
  <2>1. 0 \in Unknown .. MaxMsgs
    BY ConstAssumption DEF Unknown
  <2> QED BY <2>1 DEF Hdr, Cell
<1>5. /\ file' \in Seq(Cell) /\ Len(file') = 1 /\ file'[1] = Hdr(0) /\ file' # <<>>
      /\ GetAll = <<>> /\ GetAll' = <<>> /\ Len(GetAll) = 0
  <2> DEFINE h == <<Hdr(0)>>
  <2>1. h \in Seq(Cell) /\ Len(h) = 1 /\ h[1] = Hdr(0)
    BY <1>4, ShortLists
  <2> HIDE DEF h, Cell
  <2>2. h # <<>>
    BY <2>1, EmptyLen
  <2>3. GetAll = <<>> /\ Len(GetAll) = 0
    BY <1>3 DEF GetAll
  <2>4. EntriesOf(h) \in Seq(Pair) /\ Len(EntriesOf(h)) = 0
    <3>1. (1 - 1) \div 2 = 0
      OBVIOUS
    <3> HIDE DEF Pair
    <3> QED BY <2>1, <2>2, <3>1, EntriesOfFacts
  <2>5. EntriesOf(h) = <<>>
    BY <2>4, EmptyLen
  <2>6. file' = h
    BY <1>1 DEF h
  <2> QED BY <2>1, <2>2, <2>3, <2>5, <2>6, GetAllIs
<1>6. Enqueued' = Enqueued /\ Enqueued \in Nat
  BY <1>1, <1>2, Lengths DEF Enqueued
<1>7. Contents' /\ Agenda' /\ Fifo' /\ InOrder' /\ AtMostOnce'
  BY <1>1, <1>2, <1>5, <1>6, QuietKeeps
<1>8. Typed'
  <2>1. TypeOK'
    <3> HIDE DEF Cell
    <3> QED BY <1>1, <1>2, <1>5 DEF Typed, TypeOK
  <2>2. Len(file') <= 1 + 2 * Enqueued'
    BY <1>5, <1>6
  <2> HIDE DEF Pair
  <2> QED BY <1>1, <1>2, <1>3, <1>4, <1>5, <1>6, <2>1, <2>2 DEF Typed, Rewriting
<1>9. Undisturbed'
  <2>1. 1 % 2 = 1
    OBVIOUS
  <2> QED BY <1>1, <1>3, <1>5, <2>1 DEF Undisturbed, Rewriting
<1>10. Counted'
  BY <1>1, <1>3, <1>5 DEF Counted
<1>11. Kept'
  BY <1>1, <1>2, <1>5, QuietKept
<1> QED BY <1>7, <1>8, <1>9, <1>10, <1>11 DEF Inv

(* enqueue opens the file; nothing is written yet.                         *)
LEMMA OpenKeeps ==
  ASSUME Inv, NEW p \in Peer, NEW k \in Key, OpenForAppend(p, k)
  PROVE  Inv'
<1> DEFINE m == [dest |-> p, key |-> k]
           M == [dest : Peer, key : Key]
           L == Len(msgs)
<1>1. /\ up = "up" /\ main.pc = "idle" /\ L < MaxMsgs /\ msgs' = Append(msgs, m)
      /\ main' = [MainIdle EXCEPT !.pc = "opened", !.id = L + 1]
      /\ raced' = (raced \/ net.pc \in {"trunc", "write"})
      /\ UNCHANGED <<file, exists, up, net, accepted, taken, torn, crashes>>
  BY DEF OpenForAppend
<1>2. /\ Typed /\ Contents /\ Agenda /\ Fifo /\ InOrder /\ AtMostOnce /\ Undisturbed
      /\ Counted /\ Kept
  BY DEF Inv
<1>3. msgs \in Seq(M) /\ m \in M
  BY <1>2 DEF Typed, TypeOK
<1>4. /\ msgs' \in Seq(M) /\ Len(msgs') = L + 1 /\ L \in Nat /\ DOMAIN msgs = 1 .. L
      /\ \A i \in 1 .. L : msgs'[i] = msgs[i]
  <2> HIDE DEF m, M
  <2> QED BY <1>1, <1>3, OneAppended
<1>5. DOMAIN msgs' = 1 .. L + 1 /\ DOMAIN msgs \subseteq DOMAIN msgs'
  <2> HIDE DEF M
  <2> QED BY <1>4
<1>6. /\ main'.pc = "opened" /\ main'.id = L + 1 /\ main'.count = 0
      /\ main' \in [pc : {"idle", "opened", "counted", "bumped"}, id : 0 .. MaxMsgs,
                    count : Unknown .. MaxMsgs]
  <2>1. L + 1 \in 0 .. MaxMsgs /\ 0 \in -1 .. MaxMsgs
    BY <1>1, <1>4, ConstAssumption
  <2> HIDE DEF L
  <2>2. main' = [pc |-> "opened", id |-> L + 1, count |-> 0]
    BY <1>1 DEF MainIdle
  <2> QED BY <2>1, <2>2 DEF Unknown
<1> HIDE DEF m, M, L
<1>7. GetAll' = GetAll /\ Enqueued' = L /\ Enqueued = L /\ L + 1 <= MaxMsgs
  <2>1. GetAll' = GetAll
    BY <1>1 DEF GetAll
  <2>2. Enqueued' = (L + 1) - 1 /\ Enqueued = L
    BY <1>1, <1>4, <1>6 DEF Enqueued, L
  <2>3. MaxMsgs \in Nat
    BY ConstAssumption
  <2> QED BY <1>1, <1>4, <2>1, <2>2, <2>3
<1>8. Contents' /\ Agenda' /\ Fifo' /\ InOrder' /\ AtMostOnce'
  BY <1>1, <1>2, <1>4, <1>7, QuietKeeps
<1>9. Typed'
  <2>1. TypeOK'
    <3>1. raced' \in BOOLEAN
      BY <1>1
    <3>2. taken' \in Seq(DOMAIN msgs')
      <4>1. taken \in Seq(DOMAIN msgs)
        BY <1>2 DEF Typed, TypeOK
      <4> HIDE DEF M
      <4> QED BY <1>1, <1>5, <4>1
    <3>3. accepted' \subseteq DOMAIN msgs'
      BY <1>1, <1>2, <1>5 DEF Typed, TypeOK
    <3> HIDE DEF Cell
    <3> QED BY <1>1, <1>2, <1>4, <1>6, <3>1, <3>2, <3>3 DEF Typed, TypeOK, M
  <2>2. Len(msgs') <= MaxMsgs /\ Len(msgs') # 0 /\ main'.id = Len(msgs')
    BY <1>4, <1>6, <1>7
  <2>3. msgs' # <<>>
    <3> HIDE DEF M
    <3> QED BY <1>4
  <2>4. main.pc # "bumped" /\ up # "creating" /\ exists
    BY <1>1, <1>2 DEF Typed, TypeOK
  <2> HIDE DEF Pair
  <2> QED BY <1>1, <1>2, <1>6, <1>7, <2>1, <2>2, <2>3, <2>4 DEF Typed, Rewriting
<1>10. Undisturbed'
  BY <1>1, <1>2, <1>6, <1>7 DEF Undisturbed, Rewriting
<1>11. Counted'
  BY <1>1, <1>2, <1>6, <1>7 DEF Counted
<1>12. Kept'
  <2>1. CASE raced'
    BY <2>1 DEF Kept
  <2>2. CASE ~ raced'
    <3>1. raced' = raced
      BY <1>1, <1>2, <2>2 DEF Typed, TypeOK
    <3> QED BY <1>1, <1>2, <1>5, <1>7, <3>1, QuietKept
  <2> QED BY <2>1, <2>2
<1> QED BY <1>8, <1>9, <1>10, <1>11, <1>12 DEF Inv

(* enqueue reads the count.                                                *)
LEMMA ReadHeaderKeeps ==
  ASSUME Inv, ReadHeader
  PROVE  Inv'
<1>1. /\ main.pc = "opened" /\ main' = [main EXCEPT !.pc = "counted", !.count = CountRead]
      /\ UNCHANGED <<file, exists, up, net, msgs, accepted, taken, torn, raced, crashes>>
  BY DEF ReadHeader
<1>2. /\ Typed /\ Contents /\ Agenda /\ Fifo /\ InOrder /\ AtMostOnce /\ Undisturbed
      /\ Counted /\ Kept
  BY DEF Inv
<1>3. Enqueued \in Nat /\ file \in Seq(Cell)
  BY <1>2, Lengths
<1>4. CountRead \in Unknown .. MaxMsgs /\ CountRead <= Enqueued
  <2>1. CASE file # <<>> /\ file[1].part = "hdr"
    <3>1. file[1] \in Cell
      <4> HIDE DEF Cell
      <4> QED BY <1>3, <2>1
    <3>2. file[1].id <= Enqueued
      BY <1>1, <1>2, <2>1 DEF Typed
    <3> QED BY <2>1, <3>1, <3>2 DEF CountRead, Cell
  <2>2. CASE ~ (file # <<>> /\ file[1].part = "hdr")
    <3>1. CountRead = -1
      BY <2>2 DEF CountRead, Unknown
    <3> QED BY <1>3, <3>1, ConstAssumption DEF Unknown
  <2> QED BY <2>1, <2>2
<1>5. /\ main'.pc = "counted" /\ main'.id = main.id /\ main'.count = CountRead
      /\ main' \in [pc : {"idle", "opened", "counted", "bumped"}, id : 0 .. MaxMsgs,
                    count : Unknown .. MaxMsgs]
  BY <1>1, <1>2, <1>4 DEF Typed, TypeOK
<1>6. GetAll' = GetAll /\ Enqueued' = Enqueued
  BY <1>1, <1>5 DEF GetAll, Enqueued
<1>7. Contents' /\ Agenda' /\ Fifo' /\ InOrder' /\ AtMostOnce'
  BY <1>1, <1>2, <1>6, QuietKeeps
<1>8. Typed'
  <2>1. TypeOK'
    <3> HIDE DEF Cell
    <3> QED BY <1>1, <1>2, <1>5 DEF Typed, TypeOK
  <2> HIDE DEF Pair
  <2> QED BY <1>1, <1>2, <1>4, <1>5, <1>6, <2>1 DEF Typed, Rewriting
<1>9. Undisturbed'
  BY <1>1, <1>2, <1>5, <1>6 DEF Undisturbed, Rewriting
<1>10. Counted'
  <2> SUFFICES ASSUME ~ raced, crashes = 0 PROVE Counted'
    BY <1>1 DEF Counted
  <2>1. up = "up" /\ net.pc # "write"
    BY <1>1, <1>2 DEF Typed, Undisturbed, Rewriting
  <2>2. file # <<>> /\ file[1] = Hdr(Len(GetAll) + 0)
    BY <1>1, <1>2, <2>1 DEF Counted
  <2>3. Hdr(Len(GetAll)).part = "hdr" /\ Hdr(Len(GetAll)).id = Len(GetAll)
    BY DEF Hdr
  <2>4. file[1] = Hdr(Len(GetAll))
    BY <1>1, <1>2, <2>2, Lengths
  <2>5. CountRead = Len(GetAll)
    BY <2>2, <2>3, <2>4 DEF CountRead
  <2> QED BY <1>1, <1>2, <1>5, <1>6, <2>5 DEF Counted
<1>11. Kept'
  BY <1>1, <1>2, <1>6, QuietKept
<1> QED BY <1>7, <1>8, <1>9, <1>10, <1>11 DEF Inv

(* enqueue writes the raised count over the header, perhaps while a        *)
(* rewriting has emptied the file.                                         *)
LEMMA WriteHeaderKeeps ==
  ASSUME Inv, WriteHeader
  PROVE  Inv'
<1> DEFINE c == CountRaised(main.count)
<1>1. /\ main.pc = "counted" /\ file' = Overlay(<<Hdr(c)>>)
      /\ main' = [main EXCEPT !.pc = "bumped"]
      /\ UNCHANGED <<exists, up, net, msgs, accepted, taken, torn, raced, crashes>>
  BY DEF WriteHeader
<1>2. /\ Typed /\ Contents /\ Agenda /\ Fifo /\ InOrder /\ AtMostOnce /\ Undisturbed
      /\ Counted /\ Kept
  BY DEF Inv
<1>3. Enqueued \in Nat /\ file \in Seq(Cell) /\ Len(msgs) = Enqueued + 1 /\ Len(msgs) <= MaxMsgs
  BY <1>1, <1>2, Lengths DEF Enqueued, Typed
<1>4. c \in Unknown .. MaxMsgs /\ c <= Enqueued + 1
  <2>1. main.count \in Unknown .. MaxMsgs /\ main.count <= Enqueued
    BY <1>1, <1>2 DEF Typed, TypeOK
  <2>2. MaxMsgs \in Nat
    BY ConstAssumption
  <2> QED BY <1>3, <2>1, <2>2 DEF CountRaised, Unknown
<1>5. Hdr(c) \in Cell /\ Hdr(c).part = "hdr" /\ Hdr(c).id = c
  BY <1>4 DEF Cell, Hdr
<1>6. /\ file' \in Seq(Cell) /\ Len(file') = (IF file = <<>> THEN 1 ELSE Len(file))
      /\ file'[1] = Hdr(c) /\ GetAll' = GetAll
  <2> HIDE DEF c, Cell
  <2>1. Len(<<Hdr(c)>>) = 1
    OBVIOUS
  <2>2. file' = <<Hdr(c)>> \o SubSeq(file, 2, Len(file))
    BY <1>1, <2>1 DEF Overlay
  <2> DEFINE h == Hdr(c)
             g == file'
  <2> HIDE DEF g, h
  <2>3. HeaderOver(g, file, h) /\ h \in Cell
    BY <1>5, <2>2 DEF g, h, HeaderOver
  <2>4. /\ g \in Seq(Cell) /\ Len(g) = (IF file = <<>> THEN 1 ELSE Len(file)) /\ g[1] = h
        /\ EntriesOf(g) = EntriesOf(file)
    <3>1. file \in Seq(Cell)
      BY <1>3
    <3> QED BY <2>3, <3>1, HeaderWritten, Zenon
  <2> QED BY <2>4, GetAllIs DEF g, h
<1>7. main'.pc = "bumped" /\ main'.id = main.id /\ main'.count = main.count
  BY <1>1, <1>2 DEF Typed, TypeOK
<1>8. Enqueued' = Enqueued
  BY <1>1, <1>7 DEF Enqueued
<1> HIDE DEF c
<1>9. Contents' /\ Agenda' /\ Fifo' /\ InOrder' /\ AtMostOnce'
  BY <1>1, <1>2, <1>6, <1>8, QuietKeeps
<1>10. file' # <<>> /\ Len(file') \in Nat /\ Len(file) \in Nat
  <2> HIDE DEF Cell
  <2>1. Len(file) \in Nat /\ (file # <<>> => Len(file) # 0)
    BY <1>3
  <2>2. Len(file') # 0
    BY <1>6, <2>1
  <2> QED BY <1>6, <2>1, <2>2
<1>11. Typed'
  <2>1. TypeOK'
    <3>1. main' \in [pc : {"idle", "opened", "counted", "bumped"}, id : 0 .. MaxMsgs,
                     count : Unknown .. MaxMsgs]
      BY <1>1, <1>2 DEF Typed, TypeOK
    <3> HIDE DEF Cell
    <3> QED BY <1>1, <1>2, <1>6, <3>1 DEF Typed, TypeOK
  <2>2. Len(file') <= 1 + 2 * Enqueued'
    <3>1. Len(file) <= 1 + 2 * Enqueued
      BY <1>2 DEF Typed
    <3> QED BY <1>3, <1>6, <1>8, <3>1
  <2>3. file'[1].id <= Len(msgs')
    BY <1>1, <1>3, <1>4, <1>5, <1>6
  <2>4. up = "up" /\ exists
    BY <1>1, <1>2 DEF Typed, TypeOK
  <2> HIDE DEF Pair
  <2> QED BY <1>1, <1>2, <1>7, <1>8, <2>1, <2>2, <2>3, <2>4 DEF Typed, Rewriting
<1>12. Undisturbed'
  <2>1. ~ raced => net.pc # "write" /\ ~ Rewriting
    BY <1>1, <1>2 DEF Undisturbed, Rewriting
  <2>2. ~ raced => Len(file') % 2 = 1
    <3>1. 1 % 2 = 1
      OBVIOUS
    <3> QED BY <1>2, <1>6, <3>1 DEF Undisturbed
  <2> QED BY <1>1, <1>10, <2>1, <2>2 DEF Undisturbed, Rewriting
<1>13. Counted'
  <2> SUFFICES ASSUME ~ raced, crashes = 0 PROVE Counted'
    BY <1>1 DEF Counted
  <2>1. main.count = Len(GetAll) /\ Len(GetAll) \in Nat /\ up = "up" /\ net.pc # "write"
    BY <1>1, <1>2, Lengths DEF Counted, Typed, Undisturbed, Rewriting
  <2>2. file # <<>>
    BY <1>2, <2>1 DEF Counted
  <2>3. c = Len(GetAll) + 1
    BY <2>1, <2>2 DEF c, CountRaised, Unknown
  <2> QED BY <1>1, <1>6, <1>7, <1>10, <2>1, <2>3 DEF Counted
<1>14. Kept'
  BY <1>1, <1>2, <1>6, QuietKept
<1> QED BY <1>9, <1>11, <1>12, <1>13, <1>14 DEF Inv

-----------------------------------------------------------------------------
(* The entry of the message that is enqueued is appended.                  *)
LEMMA AppendKeeps ==
  ASSUME Inv, AppendEntry
  PROVE  Inv'
<1> DEFINE i == main.id
           x == Head9(i)
           y == Tail519(i)
           g == file'
           E == GetAll
           G == EntriesOf(g)
<1>1. /\ main.pc = "bumped" /\ file' = file \o <<x, y>>
      /\ accepted' = accepted \cup {i} /\ main' = MainIdle
      /\ UNCHANGED <<exists, up, net, msgs, taken, torn, raced, crashes>>
  BY DEF AppendEntry, Appended, EntryCells
<1>2. /\ Typed /\ Contents /\ Agenda /\ Fifo /\ InOrder /\ AtMostOnce /\ Undisturbed
      /\ Counted /\ Kept
  BY DEF Inv
<1>3. /\ Enqueued \in Nat /\ file \in Seq(Cell) /\ Len(file) \in Nat
      /\ i = Enqueued + 1 /\ i = Len(msgs) /\ i \in 1 .. Len(msgs) /\ i \in 1 .. MaxMsgs
      /\ DOMAIN msgs = 1 .. Len(msgs) /\ E \in Seq(Pair) /\ Len(E) \in Nat
  <2>1. i = Len(msgs) /\ Len(msgs) # 0 /\ Len(msgs) <= MaxMsgs /\ Len(msgs) = Enqueued + 1
    BY <1>1, <1>2, Lengths DEF Typed, Enqueued
  <2> QED BY <1>2, <2>1, Lengths, ConstAssumption
<1>4. x \in Cell /\ y \in Cell /\ x.part # "hdr"
  BY <1>3 DEF Cell, Head9, Tail519, Unknown
<1>5. /\ g \in Seq(Cell) /\ Len(g) = Len(file) + 2 /\ g[1] = (IF file = <<>> THEN x ELSE file[1])
      /\ \/ file = <<>> /\ G = EntriesOf(file)
         \/ /\ file # <<>> /\ \E c \in Cell : G = Append(EntriesOf(file), <<c, x>>)
            /\ Len(file) % 2 = 0
         \/ /\ file # <<>> /\ G = Append(EntriesOf(file), <<x, y>>)
            /\ Len(file) % 2 = 1
  <2> HIDE DEF x, y, g, Cell
  <2>1. AtEnd(g, file, x, y) /\ file \in Seq(Cell) /\ x \in Cell /\ y \in Cell
    BY <1>1, <1>3, <1>4 DEF g, AtEnd
  <2> QED BY <2>1, EntryAppended
<1>6. E = EntriesOf(file) /\ GetAll' = G
  BY GetAllIs
<1>7. main'.pc = "idle" /\ main'.id = 0 /\ main'.count = 0 /\ Enqueued' = Enqueued + 1
  BY <1>1, <1>3 DEF MainIdle, Enqueued
<1> HIDE DEF i, x, y, g, E, G
<1>8. \/ file = <<>> /\ G = E
      \/ \E c \in Cell : G = Append(E, <<c, x>>) /\ Len(file) % 2 = 0
      \/ file # <<>> /\ G = Append(E, EntryCells(i)) /\ Len(file) % 2 = 1
  BY <1>5, <1>6 DEF EntryCells, x, y
<1>9. \A e \in Pair : /\ Len(Append(E, e)) = Len(E) + 1 /\ Append(E, e)[Len(E) + 1] = e
                      /\ \A k \in 1 .. Len(E) : Append(E, e)[k] = E[k]
  <2> HIDE DEF Pair
  <2> QED BY <1>3, OneAppended
<1>10. EntryCells(i) \in Pair /\ \A c \in Cell : <<c, x>> \in Pair
  BY <1>4 DEF Pair, EntryCells, x, y
<1>11. Grown(E, G, i)
  <2>1. \A e \in Pair : (Valid(e) => Num(e) = i) => Grown(E, Append(E, e), i)
    <3> SUFFICES ASSUME NEW e \in Pair, Valid(e) => Num(e) = i PROVE Grown(E, Append(E, e), i)
      OBVIOUS
    <3> DEFINE F == Append(E, e)
    <3>1. Len(F) = Len(E) + 1 /\ F[Len(E) + 1] = e /\ \A k \in 1 .. Len(E) : F[k] = E[k]
      BY <1>9
    <3>2. Len(E) \in Nat
      BY <1>3
    <3> HIDE DEF F, Pair
    <3>3. \A k \in 1 .. Len(F) : k \in 1 .. Len(E) \/ k = Len(E) + 1
      BY <3>1, <3>2
    <3>4. \A k \in 1 .. Len(E) : k \in 1 .. Len(F)
      BY <3>1, <3>2
    <3>5. Grown(E, F, i)
      BY <3>1, <3>3, <3>4 DEF Grown
    <3> QED BY <3>5 DEF F
  <2>2. CASE G = E
    BY <2>2 DEF Grown
  <2>3. CASE \E c \in Cell : G = Append(E, <<c, x>>)
    <3>1. PICK c \in Cell : G = Append(E, <<c, x>>)
      BY <2>3
    <3>2. ~ Valid(<<c, x>>)
      BY NoEntry DEF x
    <3> QED BY <1>10, <2>1, <3>1, <3>2
  <2>4. CASE G = Append(E, EntryCells(i))
    <3>1. Num(EntryCells(i)) = i
      BY EntryFacts
    <3> QED BY <1>10, <2>1, <2>4, <3>1
  <2> QED BY <1>8, <2>2, <2>3, <2>4
<1>12. Contents' /\ Agenda' /\ Fifo' /\ InOrder' /\ AtMostOnce'
  <2>1. Grown(GetAll, GetAll', Enqueued + 1)
    BY <1>3, <1>6, <1>11 DEF E
  <2> QED BY <1>1, <1>2, <1>7, <2>1, GrownKeeps
<1>13. Typed'
  <2>1. main' \in [pc : {"idle", "opened", "counted", "bumped"}, id : 0 .. MaxMsgs,
                   count : Unknown .. MaxMsgs]
    BY <1>1, ConstAssumption DEF MainIdle, Unknown
  <2>2. accepted' \subseteq DOMAIN msgs'
    BY <1>1, <1>2, <1>3 DEF Typed, TypeOK
  <2>3. TypeOK'
    <3> HIDE DEF Cell
    <3> QED BY <1>1, <1>2, <1>5, <2>1, <2>2 DEF Typed, TypeOK, g
  <2>4. Len(file') <= 1 + 2 * Enqueued'
    <3>1. Len(file) <= 1 + 2 * Enqueued
      BY <1>2 DEF Typed
    <3> QED BY <1>3, <1>5, <1>7, <3>1 DEF g
  <2>5. file' # <<>> /\ (file'[1].part = "hdr" => file'[1].id <= Enqueued')
    <3>1. file' # <<>>
      <4> HIDE DEF Cell
      <4>1. Len(g) # 0
        BY <1>3, <1>5
      <4> QED BY <1>5, <4>1, EmptyLen DEF g
    <3>2. CASE file = <<>>
      BY <1>4, <1>5, <3>1, <3>2 DEF g
    <3>3. CASE file # <<>>
      <4>1. file'[1] = file[1]
        BY <1>5, <3>3 DEF g
      <4>2. file[1].part = "hdr" => file[1].id <= Len(msgs)
        BY <1>1, <1>2, <3>3 DEF Typed
      <4> QED BY <1>3, <1>7, <3>1, <4>1, <4>2
    <3> QED BY <3>2, <3>3
  <2>6. up = "up" /\ exists /\ (Rewriting => Len(net.rest) <= Enqueued')
    <3>1. up = "up" /\ exists
      BY <1>1, <1>2 DEF Typed, TypeOK
    <3>2. ASSUME Rewriting PROVE Len(net.rest) <= Enqueued'
      <4>1. Len(net.rest) <= Enqueued /\ net.rest \in Seq(Pair)
        BY <1>2, <3>2 DEF Typed
      <4>2. Len(net.rest) \in Nat
        <5> HIDE DEF Pair
        <5> QED BY <4>1
      <4> QED BY <1>3, <1>7, <4>1, <4>2
    <3> QED BY <3>1, <3>2
  <2> HIDE DEF Pair
  <2> QED BY <1>1, <1>2, <1>7, <2>3, <2>4, <2>5, <2>6 DEF Typed, Rewriting
<1>14. ~ raced => file # <<>> /\ ~ Rewriting /\ G = Append(E, EntryCells(i)) /\ Len(file) % 2 = 1
  <2>1. ~ raced => file # <<>> /\ ~ Rewriting /\ Len(file) % 2 = 1
    BY <1>1, <1>2 DEF Undisturbed
  <2> QED BY <1>8, <2>1
<1>15. file' # <<>>
  <2> HIDE DEF Cell
  <2>1. Len(g) # 0
    BY <1>3, <1>5
  <2> QED BY <1>5, <2>1, EmptyLen DEF g
<1>16. Undisturbed'
  <2>1. ~ raced => Len(file') % 2 = 1
    BY <1>3, <1>5, <1>14 DEF g
  <2> QED BY <1>1, <1>7, <1>14, <1>15, <2>1 DEF Undisturbed, Rewriting
<1>17. Counted'
  <2> SUFFICES ASSUME ~ raced, crashes = 0 PROVE Counted'
    BY <1>1 DEF Counted
  <2>1. up = "up" /\ net.pc # "write" /\ file # <<>>
    BY <1>1, <1>2, <1>14 DEF Typed, Rewriting
  <2>2. file[1] = Hdr(Len(E) + 1)
    BY <1>1, <1>2, <2>1 DEF Counted, E
  <2>3. file'[1] = file[1]
    BY <1>5, <2>1 DEF g
  <2>4. Len(GetAll') = Len(E) + 1
    BY <1>6, <1>9, <1>10, <1>14
  <2>5. (Len(E) + 1) + 0 = Len(E) + 1
    BY <1>3
  <2> QED BY <1>1, <1>7, <1>15, <2>1, <2>2, <2>3, <2>4, <2>5 DEF Counted
<1>18. Kept'
  <2> SUFFICES ASSUME ~ raced PROVE Kept'
    BY <1>1 DEF Kept
  <2>1. accepted \subseteq OnFile \cup InRewrite \cup Taken \cup torn
    BY <1>2 DEF Kept
  <2>2. G = Append(E, EntryCells(i)) /\ GetAll' = G
    BY <1>6, <1>14
  <2>3. Len(G) = Len(E) + 1 /\ G[Len(E) + 1] = EntryCells(i) /\ \A k \in 1 .. Len(E) : G[k] = E[k]
    BY <1>9, <1>10, <2>2
  <2>4. DOMAIN E = 1 .. Len(E) /\ DOMAIN G = 1 .. Len(E) + 1
    <3>1. G \in Seq(Pair)
      BY <1>5, EntriesOfFacts DEF G
    <3> HIDE DEF Pair
    <3> QED BY <1>3, <2>3, <3>1
  <2>5. \A e : IdOf(e)' = IdOf(e)
    BY <1>1 DEF IdOf
  <2>6. OnFile' = {IdOf(G[k]) : k \in DOMAIN G} \ {Nobody}
    BY <2>2, <2>5 DEF OnFile
  <2>7. OnFile \subseteq OnFile'
    <3>1. OnFile = {IdOf(E[k]) : k \in 1 .. Len(E)} \ {Nobody}
      BY <2>4 DEF OnFile, E
    <3>2. \A k \in 1 .. Len(E) : k \in DOMAIN G /\ IdOf(G[k]) = IdOf(E[k])
      BY <1>3, <2>3, <2>4
    <3> QED BY <2>6, <3>1, <3>2
  <2>8. i \in OnFile'
    <3>1. IdOf(EntryCells(i)) = i
      BY <1>2, <1>3, EntryFacts, IdOfFacts
    <3>2. i # Nobody /\ Len(E) + 1 \in DOMAIN G
      BY <1>3, <2>4 DEF Nobody
    <3> QED BY <2>3, <2>6, <3>1, <3>2
  <2>9. InRewrite' = InRewrite /\ Taken' = Taken /\ torn' = torn
    BY <1>1, <2>5 DEF InRewrite, Taken
  <2> QED BY <1>1, <2>1, <2>7, <2>8, <2>9 DEF Kept
<1> QED BY <1>12, <1>13, <1>16, <1>17, <1>18 DEF Inv

-----------------------------------------------------------------------------
(* The handler.                                                            *)

(* Nobody's entries change while the file stays as it is.                  *)
LEMMA SameOnFile ==
  ASSUME UNCHANGED <<file, msgs>>
  PROVE  GetAll' = GetAll /\ OnFile' = OnFile /\ \A e : IdOf(e)' = IdOf(e)
<1>1. GetAll' = GetAll
  BY DEF GetAll
<1>2. \A e : IdOf(e)' = IdOf(e)
  BY DEF IdOf
<1>3. OnFile' = {IdOf(GetAll[k])' : k \in DOMAIN GetAll} \ {Nobody}
  BY <1>1 DEF OnFile
<1>4. \A k \in DOMAIN GetAll : IdOf(GetAll[k])' = IdOf(GetAll[k])
  BY <1>1 DEF IdOf
<1> QED BY <1>1, <1>2, <1>3, <1>4 DEF OnFile

(* An entry that is to be sent holds a message that was enqueued.          *)
LEMMA TodoFacts ==
  ASSUME Typed, Agenda, net.pc # "idle"
  PROVE  /\ net.todo \in Seq(Pair) /\ Len(net.todo) \in Nat /\ 1 \in 1 .. Len(net.todo)
         /\ Head(net.todo) = net.todo[1]
         /\ \A j \in 1 .. Len(net.todo) :
              /\ Valid(net.todo[j]) /\ Num(net.todo[j]) \in 1 .. Enqueued
              /\ Num(net.todo[j]) \in 1 .. Len(msgs)
              /\ IdOf(net.todo[j]) = Num(net.todo[j])
              /\ msgs[Num(net.todo[j])].dest = msgs[Num(net.todo[1])].dest
         /\ \A j, k \in 1 .. Len(net.todo) : j < k => Num(net.todo[j]) < Num(net.todo[k])
<1>1. net.todo \in Seq(Pair) /\ net.todo # <<>>
  BY DEF Typed
<1>2. Len(net.todo) \in Nat /\ 1 \in 1 .. Len(net.todo) /\ Head(net.todo) = net.todo[1]
  <2> HIDE DEF Pair
  <2> QED BY <1>1
<1>3. \A j \in 1 .. Len(net.todo) :
        /\ Valid(net.todo[j]) /\ Num(net.todo[j]) \in 1 .. Enqueued
        /\ msgs[Num(net.todo[j])].dest = msgs[Num(net.todo[1])].dest
  BY DEF Agenda, ToPeer
<1>4. \A j \in 1 .. Len(net.todo) : Num(net.todo[j]) \in 1 .. Len(msgs)
  BY <1>3, Lengths
<1>5. \A j \in 1 .. Len(net.todo) : IdOf(net.todo[j]) = Num(net.todo[j])
  BY <1>3, <1>4, IdOfFacts
<1>6. \A j, k \in 1 .. Len(net.todo) : j < k => Num(net.todo[j]) < Num(net.todo[k])
  BY <1>3 DEF Agenda, Sorted
<1> QED BY <1>1, <1>2, <1>3, <1>4, <1>5, <1>6

(* The entries queued for a peer are read.                                 *)
LEMMA HearKeeps ==
  ASSUME Inv, NEW p \in Peer, HearPeer(p)
  PROVE  Inv'
<1> DEFINE E == GetAll
           S == {e \in ToSet(GetAll) : DestIs(e, p)}
           t == Only(E, S)
<1>1. /\ up = "up" /\ net.pc = "idle" /\ t # <<>>
      /\ net' = [NetIdle EXCEPT !.pc = "send", !.todo = t]
      /\ UNCHANGED <<file, exists, up, main, msgs, accepted, taken, torn, raced, crashes>>
  BY DEF HearPeer, GetPending
<1>2. /\ Typed /\ Contents /\ Agenda /\ Fifo /\ InOrder /\ AtMostOnce /\ Undisturbed
      /\ Counted /\ Kept
  BY DEF Inv
<1>3. E \in Seq(Pair) /\ Len(E) \in Nat /\ DOMAIN E = 1 .. Len(E)
  <2>1. E \in Seq(Pair) /\ Len(E) \in Nat
    BY <1>2, Lengths
  <2> HIDE DEF Pair, E
  <2> QED BY <2>1
<1>4. GetAll' = GetAll /\ Enqueued' = Enqueued /\ OnFile' = OnFile
  BY <1>1, SameOnFile DEF Enqueued
<1>5. t \in Seq(Pair) /\ OrderedAs(t, E) /\ \A x : Has(t, x) <=> Has(E, x) /\ x \in S
  <2> HIDE DEF E, S, Pair
  <2> QED BY <1>3, OnlyProps
<1>6. /\ net'.pc = "send" /\ net'.todo = t /\ net'.rest = <<>>
      /\ Len(t) \in Nat /\ 1 \in 1 .. Len(t)
  <2> HIDE DEF t, Pair
  <2>1. net' = [pc |-> "send", todo |-> t, rest |-> <<>>]
    BY <1>1 DEF NetIdle
  <2>2. Len(t) \in Nat /\ Len(t) # 0
    BY <1>1, <1>5, EmptyLen
  <2> QED BY <2>1, <2>2
<1>7. \A x : x \in S <=> Has(E, x) /\ Valid(x) /\ Num(x) \in 1 .. Enqueued /\ msgs[Num(x)].dest = p
  <2> SUFFICES ASSUME NEW x, Has(E, x)
               PROVE  DestIs(x, p) <=> /\ Valid(x) /\ Num(x) \in 1 .. Enqueued
                                       /\ msgs[Num(x)].dest = p
    <3>1. \A x : x \in ToSet(GetAll) <=> Has(E, x)
      BY <1>3 DEF ToSet, Has, E
    <3> QED BY <3>1
  <2>1. Valid(x) => Num(x) \in 1 .. Enqueued
    BY <1>2 DEF Contents, UpTo, Has
  <2>2. \A i \in 1 .. Enqueued : i \in 1 .. Len(msgs)
    BY <1>2, Lengths
  <2> QED BY <1>2, <2>1, <2>2, IdOfFacts DEF DestIs
<1> HIDE DEF t, S, E
<1>8. \A j \in 1 .. Len(t) : /\ Has(E, t[j]) /\ Valid(t[j]) /\ Num(t[j]) \in 1 .. Enqueued
                             /\ msgs[Num(t[j])].dest = p
  <2>1. \A j \in 1 .. Len(t) : Has(t, t[j])
    BY DEF Has
  <2> QED BY <1>5, <1>7, <2>1
<1>9. \A k \in 1 .. Len(E) : (Valid(E[k]) /\ msgs[Num(E[k])].dest = p) =>
        \E j \in 1 .. Len(t) : t[j] = E[k]
  <2>1. \A k \in 1 .. Len(E) : Has(E, E[k])
    BY DEF Has
  <2>2. \A k \in 1 .. Len(E) : Valid(E[k]) => Num(E[k]) \in 1 .. Enqueued
    BY <1>2 DEF Contents, UpTo, E
  <2>3. \A k \in 1 .. Len(E) : (Valid(E[k]) /\ msgs[Num(E[k])].dest = p) => Has(t, E[k])
    BY <1>5, <1>7, <2>1, <2>2
  <2> QED BY <2>3 DEF Has
<1>10. ~ Rewriting' /\ ~ Rewriting
  BY <1>1, <1>6 DEF Rewriting
<1>11. Contents'
  BY <1>2, <1>4, <1>6, <1>10 DEF Contents
<1>12. Agenda'
  <2>1. \A e : ToPeer(e)' <=> Valid(e) /\ msgs[Num(e)].dest = p
    BY <1>1, <1>6, <1>8 DEF ToPeer
  <2>2. Sorted(t)
    <3> SUFFICES ASSUME NEW j \in 1 .. Len(t), NEW k \in 1 .. Len(t), j < k
                 PROVE  Num(t[j]) < Num(t[k])
      BY DEF Sorted
    <3>1. PICK a, b \in 1 .. Len(E) : a < b /\ t[j] = E[a] /\ t[k] = E[b]
      BY <1>5 DEF OrderedAs
    <3> QED BY <1>2, <1>8, <3>1 DEF Contents, Sorted, E
  <2>3. \A j \in 1 .. Len(t) : Holds(E, Num(t[j]))
    BY <1>8 DEF Has, Holds, Valid
  <2>4. \A k \in 1 .. Len(E) : Valid(E[k]) /\ msgs[Num(E[k])].dest = p =>
          \E j \in 1 .. Len(t) : t[j] = E[k]
    BY <1>9
  <2>5. Covers(1, E)'
    <3>1. \A j \in 1 .. Len(net'.todo) : Holds(E, Num(net'.todo[j]))
      BY <1>6, <2>3
    <3>2. E' = E
      BY <1>4 DEF E
    <3>3. \A k \in 1 .. Len(E) : ToPeer(E[k])' => \E j \in 1 .. Len(net'.todo) : net'.todo[j] = E[k]
      <4> SUFFICES ASSUME NEW k \in 1 .. Len(E), ToPeer(E[k])'
                   PROVE  \E j \in 1 .. Len(t) : t[j] = E[k]
        BY <1>6
      <4>1. Valid(E[k]) /\ msgs[Num(E[k])].dest = p
        BY <1>1, <1>6, <1>8, <3>2 DEF ToPeer
      <4> QED BY <2>4, <4>1
    <3> QED BY <3>1, <3>2, <3>3, Zenon DEF Covers
  <2>6. \A j \in 1 .. Len(net'.todo) : ToPeer(net.todo[j])' /\ Num(net'.todo[j]) \in 1 .. Enqueued'
    BY <1>1, <1>4, <1>6, <1>8 DEF ToPeer
  <2> QED BY <1>6, <1>10, <2>2, <2>5, <2>6 DEF Agenda, E
<1>13. Fifo'
  <2>1. \A e, again : After(e, again)' <=> After(e, again)
    BY <1>1 DEF After
  <2>2. \A k \in 1 .. Len(E) : After(E[k], FALSE)
    <3>1. \A k \in 1 .. Len(GetAll) : After(GetAll[k], net.pc \in {"find", "trunc"} /\ GetAll[k] = net.todo[1])
      BY <1>2 DEF Fifo
    <3>2. net.pc \notin {"find", "trunc"}
      BY <1>1
    <3> QED BY <3>1, <3>2 DEF After, E
  <2>3. \A k \in 1 .. Len(E) : After(E[k], net'.pc \in {"find", "trunc"} /\ E[k] = net'.todo[1])
    BY <2>2 DEF After
  <2>4. taken' \in Seq(1 .. Enqueued')
    BY <1>1, <1>2, <1>4 DEF Fifo
  <2> QED BY <1>4, <1>6, <1>10, <2>1, <2>3, <2>4 DEF Fifo, E
<1>14. InOrder' /\ AtMostOnce'
  BY <1>1, <1>2 DEF InOrder, AtMostOnce
<1>15. Typed'
  <2>1. TypeOK'
    <3>1. t \in Seq(Seq(Cell))
      <4>1. Pair \subseteq Seq(Cell)
        BY PairsAreLists
      <4> HIDE DEF Pair, Cell
      <4> QED BY <1>5, <4>1
    <3>2. net' \in [pc : {"idle", "send", "find", "trunc", "write"},
                    todo : Seq(Seq(Cell)), rest : Seq(Seq(Cell))]
      <4> HIDE DEF Cell
      <4>1. net' = [pc |-> "send", todo |-> t, rest |-> <<>>]
        BY <1>1 DEF NetIdle
      <4> QED BY <3>1, <4>1
    <3> HIDE DEF Cell
    <3> QED BY <1>1, <1>2, <3>2 DEF Typed, TypeOK
  <2>2. net'.todo \in Seq(Pair) /\ net'.rest \in Seq(Pair)
    BY <1>5, <1>6
  <2> HIDE DEF Pair
  <2> QED BY <1>1, <1>2, <1>4, <1>6, <1>10, <2>1, <2>2 DEF Typed
<1>16. Undisturbed'
  BY <1>1, <1>2, <1>4, <1>6, <1>10 DEF Undisturbed
<1>17. Counted'
  BY <1>1, <1>2, <1>4, <1>6 DEF Counted
<1>18. Kept'
  <2>1. InRewrite = {} /\ InRewrite' = {} /\ Taken' = Taken
    BY <1>1, <1>6 DEF InRewrite, Taken
  <2> QED BY <1>1, <1>2, <1>4, <2>1 DEF Kept
<1> QED BY <1>11, <1>12, <1>13, <1>14, <1>15, <1>16, <1>17, <1>18 DEF Inv

(* The first entry that is left is handed to send_packet.                  *)
LEMMA SendKeeps ==
  ASSUME Inv, SendPacket
  PROVE  Inv'
<1> DEFINE h == Num(net.todo[1])
           N == Len(taken)
           D == 1 .. Enqueued
<1>1. /\ net.pc = "send" /\ taken' = Append(taken, IdOf(Head(net.todo)))
      /\ net' = [net EXCEPT !.pc = "find"]
      /\ UNCHANGED <<file, exists, up, main, msgs, accepted, torn, raced, crashes>>
  BY DEF SendPacket
<1>2. /\ Typed /\ Contents /\ Agenda /\ Fifo /\ InOrder /\ AtMostOnce /\ Undisturbed
      /\ Counted /\ Kept
  BY DEF Inv
<1>3. /\ net.todo \in Seq(Pair) /\ Len(net.todo) \in Nat /\ 1 \in 1 .. Len(net.todo)
      /\ Head(net.todo) = net.todo[1]
      /\ \A j \in 1 .. Len(net.todo) :
           Valid(net.todo[j]) /\ Num(net.todo[j]) \in D /\ Num(net.todo[j]) \in 1 .. Len(msgs)
      /\ \A j \in 1 .. Len(net.todo) : j # 1 => h < Num(net.todo[j])
      /\ IdOf(net.todo[1]) = h
  <2>1. net.pc # "idle"
    BY <1>1
  <2>2. \A j \in 1 .. Len(net.todo) : j # 1 => 1 < j
    BY <1>2, <2>1, TodoFacts
  <2> QED BY <1>2, <2>1, <2>2, TodoFacts
<1>4. /\ net'.pc = "find" /\ net'.todo = net.todo /\ net'.rest = net.rest
      /\ ~ Rewriting /\ ~ Rewriting'
  BY <1>1, <1>2 DEF Typed, TypeOK, Rewriting
<1>5. GetAll' = GetAll /\ Enqueued' = Enqueued /\ OnFile' = OnFile
  BY <1>1, SameOnFile DEF Enqueued
<1>6. taken \in Seq(D) /\ \A n \in DOMAIN taken : taken[n] \in D
  BY <1>2, TakenType
<1>7. h \in D /\ taken' = Append(taken, h)
  BY <1>1, <1>3
<1>8. /\ taken' \in Seq(D) /\ N \in Nat /\ DOMAIN taken = 1 .. N /\ DOMAIN taken' = 1 .. N + 1
      /\ taken'[N + 1] = h /\ \A n \in 1 .. N : taken'[n] = taken[n]
  <2> HIDE DEF D, h
  <2>1. /\ taken' \in Seq(D) /\ Len(taken') = N + 1 /\ N \in Nat
        /\ taken'[N + 1] = h /\ \A n \in 1 .. N : taken'[n] = taken[n]
    BY <1>6, <1>7, OneAppended
  <2> QED BY <1>6, <2>1
<1> HIDE DEF N
<1>9. \A n \in 1 .. N + 1 : n \in 1 .. N \/ n = N + 1
  BY <1>8
<1>10. /\ \A j \in 1 .. Len(net.todo) : Holds(GetAll, Num(net.todo[j]))
       /\ \A k \in 1 .. Len(GetAll) :
            ToPeer(GetAll[k]) => \/ \E j \in 1 .. Len(net.todo) : net.todo[j] = GetAll[k]
                                 \/ \A j \in 1 .. Len(net.todo) : Num(net.todo[j]) < Num(GetAll[k])
  <2>1. Covers(1, GetAll)
    BY <1>1, <1>2, <1>4 DEF Agenda
  <2> QED BY <2>1 DEF Covers
<1>11. \A k \in 1 .. Len(GetAll) : After(GetAll[k], FALSE)
  <2>1. \A k \in 1 .. Len(GetAll) : After(GetAll[k], net.pc \in {"find", "trunc"} /\ GetAll[k] = net.todo[1])
    BY <1>2 DEF Fifo
  <2>2. net.pc \notin {"find", "trunc"}
    BY <1>1
  <2> QED BY <2>1, <2>2 DEF After
<1>12. \A n \in 1 .. N : msgs[taken[n]].dest = msgs[h].dest =>
         taken[n] <= h /\ (crashes = 0 => taken[n] # h)
  <2>1. PICK k \in 1 .. Len(GetAll) : GetAll[k] = EntryCells(h)
    BY <1>3, <1>10 DEF Holds
  <2>2. Valid(GetAll[k]) /\ Num(GetAll[k]) = h
    BY <2>1, EntryFacts
  <2> QED BY <1>8, <1>11, <2>2 DEF After
<1>13. Contents'
  BY <1>2, <1>4, <1>5 DEF Contents
<1>14. Agenda'
  <2>1. \A e : ToPeer(e)' <=> ToPeer(e)
    BY <1>1, <1>4 DEF ToPeer
  <2>2. Covers(1, GetAll)'
    <3> DEFINE E == GetAll
    <3>1. E' = E
      BY <1>5
    <3>2. \A k : ToPeer(E[k])' => ToPeer(E[k])
      BY <1>1, <1>4, <3>1 DEF ToPeer
    <3> HIDE DEF E
    <3>3. Covers(1, E)'
      BY <1>4, <1>10, <3>1, <3>2 DEF Covers, E
    <3> QED BY <3>3 DEF E
  <2>3. \A j \in 1 .. Len(net.todo) : ToPeer(net.todo[j])' /\ Num(net.todo[j]) \in D
    BY <1>1, <1>2, <1>4 DEF ToPeer, Agenda
  <2>4. Sorted(net.todo)
    BY <1>1, <1>2 DEF Agenda
  <2> QED BY <1>4, <1>5, <2>2, <2>3, <2>4 DEF Agenda
<1>15. Fifo'
  <2>1. ASSUME NEW k \in 1 .. Len(GetAll)
        PROVE  After(GetAll[k], GetAll[k] = net.todo[1])'
    <3> DEFINE e == GetAll[k]
    <3> SUFFICES ASSUME Valid(e), NEW n \in 1 .. N + 1, msgs[taken'[n]].dest = msgs[Num(e)].dest
                 PROVE  taken'[n] <= Num(e) /\ (crashes = 0 /\ e # net.todo[1] => taken'[n] # Num(e))
      BY <1>1, <1>4, <1>5, <1>8 DEF After
    <3>1. After(e, FALSE) /\ Num(e) \in 1 .. Enqueued
      BY <1>2, <1>11 DEF Contents, UpTo
    <3>2. CASE n \in 1 .. N
      BY <1>8, <3>1, <3>2 DEF After
    <3>3. CASE n = N + 1
      <4>1. taken'[n] = h /\ ToPeer(e)
        BY <1>8, <3>3 DEF ToPeer
      <4>2. CASE \E j \in 1 .. Len(net.todo) : net.todo[j] = e
        BY <1>3, <3>1, <4>1, <4>2
      <4>3. CASE \A j \in 1 .. Len(net.todo) : Num(net.todo[j]) < Num(e)
        <5>1. h < Num(e)
          BY <1>3, <4>3
        <5> QED BY <1>7, <3>1, <4>1, <5>1
      <4> QED BY <1>10, <4>1, <4>2, <4>3
    <3> QED BY <1>9, <3>2, <3>3
  <2>2. Num(net.todo[1]) \in Taken'
    <3>1. N + 1 \in DOMAIN taken'
      BY <1>8
    <3> QED BY <1>8, <3>1 DEF Taken, Range
  <2>3. \A k \in 1 .. Len(GetAll) :
          After(GetAll[k], net.pc \in {"find", "trunc"} /\ GetAll[k] = net.todo[1])'
    BY <1>4, <2>1 DEF After
  <2> QED BY <1>4, <1>5, <1>8, <2>2, <2>3 DEF Fifo
<1>16. InOrder'
  <2> SUFFICES ASSUME NEW i \in 1 .. N + 1, NEW j \in 1 .. N + 1, i < j,
                      msgs[taken'[i]].dest = msgs[taken'[j]].dest
               PROVE  taken'[i] <= taken'[j]
    BY <1>1, <1>8 DEF InOrder
  <2>1. i \in 1 .. N
    BY <1>8
  <2>2. CASE j \in 1 .. N
    BY <1>2, <1>8, <2>1, <2>2 DEF InOrder
  <2>3. CASE j = N + 1
    BY <1>8, <1>12, <2>1, <2>3
  <2> QED BY <1>9, <2>2, <2>3
<1>17. AtMostOnce'
  <2> SUFFICES ASSUME crashes = 0, NEW i \in 1 .. N + 1, NEW j \in 1 .. N + 1, i # j,
                      taken'[i] = taken'[j]
               PROVE  FALSE
    BY <1>1, <1>8 DEF AtMostOnce
  <2>1. \A n \in 1 .. N : taken[n] # h
    BY <1>12
  <2>2. CASE i \in 1 .. N /\ j \in 1 .. N
    BY <1>2, <1>8, <2>2 DEF AtMostOnce
  <2>3. CASE i = N + 1
    BY <1>8, <1>9, <2>1, <2>3
  <2>4. CASE j = N + 1
    BY <1>8, <1>9, <2>1, <2>4
  <2> QED BY <1>9, <2>2, <2>3, <2>4
<1>18. Typed'
  <2>1. taken' \in Seq(DOMAIN msgs)
    <3>1. taken \in Seq(DOMAIN msgs) /\ h \in DOMAIN msgs
      BY <1>2, <1>3, Lengths DEF Typed, TypeOK
    <3> HIDE DEF h
    <3> QED BY <1>7, <3>1
  <2>2. TypeOK'
    <3>1. net' \in [pc : {"idle", "send", "find", "trunc", "write"},
                    todo : Seq(Seq(Cell)), rest : Seq(Seq(Cell))]
      <4> HIDE DEF Cell
      <4> QED BY <1>1, <1>2 DEF Typed, TypeOK
    <3> HIDE DEF Cell
    <3> QED BY <1>1, <1>2, <2>1, <3>1 DEF Typed, TypeOK
  <2> HIDE DEF Pair
  <2> QED BY <1>1, <1>2, <1>4, <1>5, <2>2 DEF Typed
<1>19. Undisturbed'
  BY <1>1, <1>2, <1>4, <1>5 DEF Undisturbed
<1>20. Counted'
  BY <1>1, <1>2, <1>4, <1>5 DEF Counted
<1>21. Kept'
  <2>1. InRewrite = {} /\ InRewrite' = {}
    BY <1>1, <1>4 DEF InRewrite
  <2>2. Taken \subseteq Taken'
    <3>1. \A n \in DOMAIN taken : n \in DOMAIN taken' /\ taken'[n] = taken[n]
      BY <1>8
    <3> QED BY <3>1 DEF Taken, Range
  <2> QED BY <1>1, <1>2, <1>5, <2>1, <2>2 DEF Kept
<1> QED BY <1>13, <1>14, <1>15, <1>16, <1>17, <1>18, <1>19, <1>20, <1>21 DEF Inv

(* remove_entry finds the entry that was sent, although it compares only   *)
(* address and key: whatever else matches stands behind it.                *)
LEMMA FindFacts ==
  ASSUME Typed, Contents, Agenda, net.pc = "find"
  PROVE  /\ \E k \in 1 .. Len(GetAll) :
              /\ GetAll[k] = net.todo[1]
              /\ Filtered(IdOf(Head(net.todo))) = RemoveAt(GetAll, k)
              /\ \A m \in 1 .. Len(GetAll) : m # k => GetAll[m] # net.todo[1]
         /\ Filtered(IdOf(Head(net.todo))) # GetAll
<1> DEFINE E == GetAll
           h == Num(net.todo[1])
           L == Len(E)
           hits == {k \in 1 .. L : Matches(E[k], h)}
           k0 == CHOOSE k \in hits : \A j \in hits : k <= j
<1>1. /\ net.pc # "idle" /\ ~ Rewriting
  BY DEF Rewriting
<1>2. /\ Head(net.todo) = net.todo[1] /\ IdOf(net.todo[1]) = h /\ 1 \in 1 .. Len(net.todo)
      /\ Valid(net.todo[1]) /\ h \in 1 .. Len(msgs)
      /\ \A j \in 1 .. Len(net.todo) : Num(net.todo[j]) \in Nat /\ (j # 1 => h < Num(net.todo[j]))
  <2>1. \A j \in 1 .. Len(net.todo) : (j # 1 => 1 < j) /\ 1 \in 1 .. Len(net.todo)
    BY <1>1, TodoFacts
  <2>2. \A j \in 1 .. Len(net.todo) : Num(net.todo[j]) \in 1 .. Len(msgs)
    BY <1>1, TodoFacts
  <2> QED BY <1>1, <2>1, <2>2, TodoFacts
<1>3. E \in Seq(Pair) /\ L \in Nat
  BY Lengths
<1>4. /\ Holds(E, h)
      /\ \A k \in 1 .. L : ToPeer(E[k]) =>
           \/ \E j \in 1 .. Len(net.todo) : net.todo[j] = E[k]
           \/ \A j \in 1 .. Len(net.todo) : Num(net.todo[j]) < Num(E[k])
  <2>1. Covers(1, E)
    BY <1>1 DEF Agenda
  <2> QED BY <1>2, <2>1 DEF Covers
<1>5. \A j, k \in 1 .. L : (j < k /\ Valid(E[j]) /\ Valid(E[k])) => Num(E[j]) < Num(E[k])
  BY DEF Contents, Sorted
<1>6. \A k \in 1 .. L : Valid(E[k]) => Num(E[k]) \in Nat
  <2>1. \A k \in 1 .. L : Valid(E[k]) => Num(E[k]) \in 1 .. Enqueued
    BY DEF Contents, UpTo
  <2> QED BY <2>1
<1> HIDE DEF E, L, h
<1>7. PICK kk \in 1 .. L : E[kk] = EntryCells(h)
  BY <1>4 DEF Holds, L
<1>8. E[kk] = net.todo[1]
  BY <1>2, <1>7 DEF Valid, h
<1>9. kk \in hits
  <2>1. IdOf(E[kk]) = h /\ h # Nobody
    BY <1>2, <1>8 DEF Nobody
  <2> QED BY <2>1 DEF Matches, DestIs
<1>10. k0 \in hits /\ \A j \in hits : k0 <= j
  <2>1. hits \subseteq Nat /\ hits # {}
    BY <1>3, <1>9
  <2> HIDE DEF hits
  <2>2. \E k \in hits : \A j \in hits : k <= j
    BY <2>1, Least
  <2> QED BY <2>2, Zenon
<1>11. ToPeer(E[k0]) /\ k0 \in 1 .. L /\ k0 <= kk
  <2>1. DestIs(E[k0], msgs[h].dest) /\ k0 \in 1 .. L
    BY <1>10 DEF Matches
  <2> HIDE DEF k0
  <2>2. Valid(E[k0]) /\ Num(E[k0]) = IdOf(E[k0])
    BY <2>1, IdOfFacts DEF DestIs
  <2> QED BY <1>9, <1>10, <2>1, <2>2 DEF DestIs, ToPeer, h
<1> HIDE DEF k0
<1>12. k0 = kk
  <2> SUFFICES ASSUME k0 # kk PROVE FALSE
    OBVIOUS
  <2>1. k0 < kk
    BY <1>3, <1>11
  <2>2. Num(E[k0]) < h
    <3>1. Valid(E[k0]) /\ Valid(E[kk]) /\ Num(E[kk]) = h
      BY <1>2, <1>8, <1>11 DEF ToPeer, h
    <3> QED BY <1>5, <1>11, <2>1, <3>1
  <2>3. Num(E[k0]) \in Nat /\ h \in Nat
    BY <1>2, <1>6, <1>11 DEF ToPeer
  <2>4. CASE \E j \in 1 .. Len(net.todo) : net.todo[j] = E[k0]
    <3>1. PICK j \in 1 .. Len(net.todo) : net.todo[j] = E[k0]
      BY <2>4
    <3>2. Num(E[k0]) = h \/ h < Num(E[k0])
      BY <1>2, <3>1 DEF h
    <3> QED BY <2>2, <2>3, <3>2
  <2>5. CASE \A j \in 1 .. Len(net.todo) : Num(net.todo[j]) < Num(E[k0])
    <3>1. h < Num(E[k0])
      BY <1>2, <2>5 DEF h
    <3> QED BY <2>2, <2>3, <3>1
  <2> QED BY <1>4, <1>11, <2>4, <2>5
<1>13. Filtered(h) = RemoveAt(E, k0)
  <2>1. hits # {}
    BY <1>9
  <2> QED BY <2>1, Zenon DEF Filtered, k0, E, L
<1>14. \A m \in 1 .. L : m # kk => E[m] # net.todo[1]
  <2> SUFFICES ASSUME NEW m \in 1 .. L, m # kk, E[m] = E[kk] PROVE FALSE
    BY <1>8
  <2>1. Valid(E[m]) /\ Valid(E[kk]) /\ Num(E[m]) = Num(E[kk]) /\ Num(E[m]) \in Nat
    BY <1>2, <1>6, <1>8
  <2>2. m < kk \/ kk < m
    BY <1>3
  <2>3. Num(E[m]) < Num(E[kk]) \/ Num(E[kk]) < Num(E[m])
    BY <1>5, <2>1, <2>2
  <2> QED BY <2>1, <2>3
<1>15. RemoveAt(E, kk) # E
  <2> DEFINE r == RemoveAt(E, kk)
  <2> HIDE DEF r, Pair
  <2>1. Len(r) = Len(E) - 1
    <3>1. TakenOut(r, E, kk) /\ kk \in 1 .. Len(E)
      BY <1>7 DEF r, L, TakenOut
    <3> QED BY <1>3, <3>1, OthersStay
  <2>2. Len(r) # Len(E)
    BY <1>3, <2>1 DEF L
  <2> QED BY <2>2 DEF r
<1> QED BY <1>2, <1>8, <1>12, <1>13, <1>14, <1>15 DEF E, L

(* remove_entry reads the file and finds the entry that was sent.          *)
LEMMA FindKeeps ==
  ASSUME Inv, FindEntry
  PROVE  Inv'
<1> DEFINE E == GetAll
           h == Num(net.todo[1])
           L == Len(E)
           r == net'.rest
<1>1. /\ net.pc = "find"
      /\ UNCHANGED <<file, exists, up, main, msgs, accepted, taken, torn, crashes>>
      /\ raced' = (raced \/ (net'.pc = "trunc" /\ main.pc # "idle"))
  BY DEF FindEntry
<1>2. /\ Typed /\ Contents /\ Agenda /\ Fifo /\ InOrder /\ AtMostOnce /\ Undisturbed
      /\ Counted /\ Kept
  BY DEF Inv
<1>3. PICK k0 \in 1 .. L : /\ E[k0] = net.todo[1]
                           /\ Filtered(IdOf(Head(net.todo))) = RemoveAt(E, k0)
                           /\ \A m \in 1 .. L : m # k0 => E[m] # net.todo[1]
  BY <1>1, <1>2, FindFacts
<1>4. net' = [net EXCEPT !.pc = "trunc", !.rest = RemoveAt(E, k0)]
  <2>1. Filtered(IdOf(Head(net.todo))) # GetAll
    BY <1>1, <1>2, FindFacts
  <2>2. net' = [net EXCEPT !.pc = "trunc", !.rest = Filtered(IdOf(Head(net.todo)))]
    BY <2>1, Zenon DEF FindEntry
  <2> HIDE DEF E
  <2> QED BY <1>3, <2>2
<1>5. net'.pc = "trunc" /\ net'.todo = net.todo /\ r = RemoveAt(E, k0)
  <2> DEFINE w == RemoveAt(E, k0)
  <2> HIDE DEF w, E
  <2>1. net' = [net EXCEPT !.pc = "trunc", !.rest = w]
    BY <1>4 DEF w
  <2>2. net'.pc = "trunc" /\ net'.todo = net.todo /\ net'.rest = w
    <3>1. net \in [pc : {"idle", "send", "find", "trunc", "write"},
                   todo : Seq(Seq(Cell)), rest : Seq(Seq(Cell))]
      BY <1>2 DEF Typed, TypeOK
    <3> QED BY <2>1, <3>1
  <2> QED BY <2>2 DEF w
<1>6. E \in Seq(Pair) /\ L \in Nat
  BY <1>2, Lengths
<1> HIDE DEF E, L, h, r
<1>7. /\ r \in Seq(Pair) /\ Len(r) = L - 1
      /\ \A j, k \in 1 .. Len(r) :
           j < k => \E a, b \in 1 .. L : a < b /\ r[j] = E[a] /\ r[k] = E[b]
      /\ \A j \in 1 .. Len(r) : \E m \in 1 .. L : m # k0 /\ r[j] = E[m]
      /\ \A m \in 1 .. L : m # k0 => \E j \in 1 .. Len(r) : r[j] = E[m]
  <2> HIDE DEF Pair
  <2>1. k0 \in 1 .. Len(E) /\ E \in Seq(Pair) /\ TakenOut(r, E, k0)
    BY <1>3, <1>5, <1>6 DEF L, TakenOut
  <2>2. /\ r \in Seq(Pair) /\ Len(r) = Len(E) - 1 /\ OrderedAs(r, E)
        /\ \A j \in 1 .. Len(r) : \E m \in 1 .. Len(E) : m # k0 /\ r[j] = E[m]
        /\ \A m \in 1 .. Len(E) : m # k0 => \E j \in 1 .. Len(r) : r[j] = E[m]
    BY <2>1, OthersStay
  <2> QED BY <2>2, Zenon DEF OrderedAs, L
<1>8. GetAll' = GetAll /\ Enqueued' = Enqueued /\ OnFile' = OnFile
  BY <1>1, SameOnFile DEF Enqueued
<1>9. ~ Rewriting /\ Rewriting' /\ net.pc # "idle"
  BY <1>1, <1>5 DEF Rewriting
<1>10. Contents'
  <2>1. Sorted(r)
    <3> SUFFICES ASSUME NEW j \in 1 .. Len(r), NEW k \in 1 .. Len(r), j < k, Valid(r[j]), Valid(r[k])
                 PROVE  Num(r[j]) < Num(r[k])
      BY DEF Sorted
    <3>1. PICK a, b \in 1 .. L : a < b /\ r[j] = E[a] /\ r[k] = E[b]
      BY <1>7
    <3> QED BY <1>2, <3>1 DEF Contents, Sorted, E, L
  <2>2. UpTo(r, Enqueued)
    <3>1. \A m \in 1 .. L : Valid(E[m]) => Num(E[m]) \in 1 .. Enqueued
      BY <1>2 DEF Contents, UpTo, E, L
    <3> QED BY <1>7, <3>1 DEF UpTo
  <2> QED BY <1>2, <1>5, <1>8, <2>1, <2>2 DEF Contents, r
<1>11. Agenda'
  <2>1. /\ \A j \in 1 .. Len(net.todo) : Holds(E, Num(net.todo[j]))
        /\ \A k \in 1 .. L : ToPeer(E[k]) =>
             \/ \E j \in 1 .. Len(net.todo) : net.todo[j] = E[k]
             \/ \A j \in 1 .. Len(net.todo) : Num(net.todo[j]) < Num(E[k])
    <3>1. Covers(1, E)
      BY <1>2, <1>9 DEF Agenda, E
    <3> QED BY <3>1 DEF Covers, L
  <2>2. \A j \in 1 .. Len(net.todo) :
          /\ j # 1 => j \in 2 .. Len(net.todo)
          /\ j \in 2 .. Len(net.todo) => h < Num(net.todo[j])
          /\ Num(net.todo[j]) \in Nat /\ h \in Nat
    <3>1. /\ Len(net.todo) \in Nat /\ 1 \in 1 .. Len(net.todo)
          /\ \A j \in 1 .. Len(net.todo) : Num(net.todo[j]) \in 1 .. Enqueued
          /\ \A j, k \in 1 .. Len(net.todo) : j < k => Num(net.todo[j]) < Num(net.todo[k])
      BY <1>2, <1>9, TodoFacts
    <3> QED BY <3>1 DEF h
  <2>3. ASSUME NEW j \in 2 .. Len(net.todo) PROVE Holds(r, Num(net.todo[j]))
    <3>0. j \in 1 .. Len(net.todo)
      <4>1. Len(net.todo) \in Nat
        BY <1>2, <1>9, TodoFacts
      <4> QED BY <4>1
    <3>1. PICK m \in 1 .. L : E[m] = EntryCells(Num(net.todo[j]))
      BY <2>1, <3>0 DEF Holds, L
    <3>2. Num(E[m]) # h
      BY <2>2, <3>0, <3>1, EntryFacts
    <3>3. m # k0
      BY <1>3, <3>2 DEF h
    <3>4. PICK i \in 1 .. Len(r) : r[i] = E[m]
      BY <1>7, <3>3
    <3> QED BY <3>1, <3>4 DEF Holds
  <2>4. ASSUME NEW k \in 1 .. Len(r), ToPeer(r[k])
        PROVE  \/ \E j \in 2 .. Len(net.todo) : net.todo[j] = r[k]
               \/ \A j \in 1 .. Len(net.todo) : Num(net.todo[j]) < Num(r[k])
    <3>1. PICK m \in 1 .. L : m # k0 /\ r[k] = E[m]
      BY <1>7
    <3>2. E[m] # net.todo[1]
      BY <1>3, <3>1
    <3>3. CASE \E j \in 1 .. Len(net.todo) : net.todo[j] = E[m]
      BY <2>2, <3>1, <3>2, <3>3
    <3>4. CASE \A j \in 1 .. Len(net.todo) : Num(net.todo[j]) < Num(E[m])
      BY <3>1, <3>4
    <3> QED BY <2>1, <2>4, <3>1, <3>3, <3>4
  <2>5. Covers(2, net.rest)'
    <3>1. \A j \in 2 .. Len(net'.todo) : Holds(r, Num(net'.todo[j]))
      BY <1>5, <2>3
    <3>2. \A k \in 1 .. Len(r) : ToPeer(net.rest[k])' => ToPeer(r[k])
      BY <1>1, <1>5 DEF ToPeer, r
    <3>3. \A k \in 1 .. Len(r) : ToPeer(net.rest[k])' =>
            \/ \E j \in 2 .. Len(net'.todo) : net'.todo[j] = r[k]
            \/ \A j \in 1 .. Len(net'.todo) : Num(net'.todo[j]) < Num(r[k])
      BY <1>5, <2>4, <3>2
    <3> QED BY <3>1, <3>3, Zenon DEF Covers, r
  <2>6. \A j \in 1 .. Len(net'.todo) : ToPeer(net.todo[j])' /\ Num(net'.todo[j]) \in 1 .. Enqueued'
    BY <1>1, <1>2, <1>5, <1>8, <1>9 DEF Agenda, ToPeer
  <2>7. Sorted(net'.todo)
    BY <1>2, <1>5, <1>9 DEF Agenda
  <2> QED BY <1>9, <2>5, <2>6, <2>7 DEF Agenda
<1>12. Fifo'
  <2>1. \A e, again : After(e, again)' <=> After(e, again)
    BY <1>1 DEF After
  <2>2. \A k \in 1 .. L : After(E[k], E[k] = net.todo[1])
    <3>1. \A k \in 1 .. L : After(E[k], net.pc \in {"find", "trunc"} /\ E[k] = net.todo[1])
      BY <1>2 DEF Fifo, E, L
    <3> QED BY <1>1, <3>1 DEF After
  <2>3. \A k \in 1 .. Len(GetAll') :
          After(GetAll'[k], net'.pc \in {"find", "trunc"} /\ GetAll'[k] = net'.todo[1])
    BY <1>5, <1>8, <2>2 DEF After, E, L
  <2>4. \A k \in 1 .. Len(r) : After(r[k], FALSE)
    <3> SUFFICES ASSUME NEW k \in 1 .. Len(r) PROVE After(r[k], FALSE)
      OBVIOUS
    <3>1. PICK m \in 1 .. L : m # k0 /\ r[k] = E[m]
      BY <1>7
    <3>2. E[m] # net.todo[1]
      BY <1>3, <3>1
    <3> QED BY <2>2, <3>1, <3>2 DEF After
  <2>5. taken' \in Seq(1 .. Enqueued') /\ Num(net'.todo[1]) \in Taken'
    BY <1>1, <1>2, <1>5, <1>8 DEF Fifo, Taken
  <2>6. \A k \in 1 .. Len(net'.rest) : After(net.rest[k], FALSE)'
    BY <1>1, <2>4 DEF After, r
  <2>7. \A k \in 1 .. Len(GetAll') :
          After(GetAll[k], net.pc \in {"find", "trunc"} /\ GetAll[k] = net.todo[1])'
    BY <1>1, <2>3 DEF After
  <2> QED BY <2>5, <2>6, <2>7 DEF Fifo
<1>13. InOrder' /\ AtMostOnce'
  BY <1>1, <1>2 DEF InOrder, AtMostOnce
<1>14. Typed'
  <2>1. TypeOK'
    <3>1. r \in Seq(Seq(Cell))
      <4>1. Pair \subseteq Seq(Cell)
        BY PairsAreLists
      <4> HIDE DEF Pair, Cell
      <4> QED BY <1>7, <4>1
    <3>2. net' \in [pc : {"idle", "send", "find", "trunc", "write"},
                    todo : Seq(Seq(Cell)), rest : Seq(Seq(Cell))]
      <4> HIDE DEF Cell
      <4>1. net' = [net EXCEPT !.pc = "trunc", !.rest = r]
        BY <1>4, <1>5
      <4>2. net \in [pc : {"idle", "send", "find", "trunc", "write"},
                     todo : Seq(Seq(Cell)), rest : Seq(Seq(Cell))]
        BY <1>2 DEF Typed, TypeOK
      <4> QED BY <3>1, <4>1, <4>2
    <3>3. raced' \in BOOLEAN
      BY <1>1
    <3> HIDE DEF Cell
    <3> QED BY <1>1, <1>2, <3>2, <3>3 DEF Typed, TypeOK
  <2>2. Len(r) <= Enqueued
    <3>1. file \in Seq(Cell) /\ Len(file) \in Nat /\ Enqueued \in Nat
      BY <1>2, Lengths
    <3>2. E = EntriesOf(file) /\ Len(file) <= 1 + 2 * Enqueued
      BY <1>2, GetAllIs DEF E, Typed
    <3>3. CASE file = <<>>
      <4>1. L = 0
        BY <3>1, <3>2, <3>3, EntriesOfFacts DEF L
      <4> QED BY <1>3, <4>1
    <3>4. CASE file # <<>>
      <4>1. L = (Len(file) - 1) \div 2
        BY <3>1, <3>2, <3>4, EntriesOfFacts DEF L
      <4>2. Len(file) # 0
        BY <3>1, <3>4, EmptyLen
      <4>3. Len(file) - 1 \in Nat
        BY <3>1, <4>2
      <4>4. 2 * L <= Len(file) - 1
        BY <4>1, <4>3, Halves
      <4> QED BY <1>6, <1>7, <3>1, <3>2, <4>4
    <3> QED BY <3>3, <3>4
  <2>3. up = "up" /\ net.todo \in Seq(Pair) /\ net.todo # <<>>
    BY <1>2, <1>9 DEF Typed
  <2> HIDE DEF Pair
  <2> QED BY <1>1, <1>2, <1>5, <1>7, <1>8, <2>1, <2>2, <2>3 DEF Typed, r
<1>15. ~ raced' => ~ raced /\ main.pc = "idle"
  BY <1>1, <1>5
<1>16. Undisturbed'
  <2>1. \E k \in 1 .. Len(GetAll') : GetAll'[k] = net'.todo[1] /\ net'.rest = RemoveAt(GetAll', k)
    BY <1>3, <1>5, <1>8 DEF E, L, r
  <2> QED BY <1>1, <1>2, <1>5, <1>15, <2>1 DEF Undisturbed
<1>17. Counted'
  BY <1>1, <1>2, <1>5, <1>8, <1>15 DEF Counted
<1>18. Kept'
  <2>1. InRewrite = {} /\ InRewrite' = {} /\ Taken' = Taken
    BY <1>1, <1>5 DEF InRewrite, Taken
  <2> QED BY <1>1, <1>2, <1>8, <1>15, <2>1 DEF Kept
<1> QED BY <1>10, <1>11, <1>12, <1>13, <1>14, <1>16, <1>17, <1>18 DEF Inv

(* The file is emptied: what it held is in memory, but for the entry that  *)
(* was sent.                                                               *)
LEMMA TruncateKeeps ==
  ASSUME Inv, Truncate
  PROVE  Inv'
<1>1. /\ net.pc = "trunc" /\ file' = <<>> /\ net' = [net EXCEPT !.pc = "write"]
      /\ UNCHANGED <<exists, up, main, msgs, accepted, taken, torn, raced, crashes>>
  BY DEF Truncate
<1>2. /\ Typed /\ Contents /\ Agenda /\ Fifo /\ InOrder /\ AtMostOnce /\ Undisturbed
      /\ Counted /\ Kept
  BY DEF Inv
<1>3. /\ net'.pc = "write" /\ net'.todo = net.todo /\ net'.rest = net.rest
      /\ Rewriting /\ Rewriting' /\ net.pc # "idle"
  BY <1>1, <1>2 DEF Typed, TypeOK, Rewriting
<1>4. GetAll' = <<>> /\ Len(GetAll') = 0 /\ Enqueued' = Enqueued /\ 1 .. Len(GetAll') = {}
  BY <1>1 DEF GetAll, Enqueued
<1>5. Contents'
  <2>1. Sorted(net.rest) /\ UpTo(net.rest, Enqueued)
    BY <1>2, <1>3 DEF Contents
  <2>2. Sorted(GetAll)' /\ UpTo(GetAll, Enqueued)'
    BY <1>4 DEF Sorted, UpTo
  <2> QED BY <1>3, <1>4, <2>1, <2>2 DEF Contents
<1>6. Agenda'
  <2>1. \A e : ToPeer(e)' <=> ToPeer(e)
    BY <1>1, <1>3 DEF ToPeer
  <2>2. Covers(2, net.rest)
    BY <1>2, <1>3 DEF Agenda
  <2>3. Covers(2, net.rest)'
    BY <1>1, <1>3, <2>2 DEF Covers, ToPeer
  <2>4. \A j \in 1 .. Len(net'.todo) : ToPeer(net.todo[j])' /\ Num(net'.todo[j]) \in 1 .. Enqueued'
    BY <1>1, <1>2, <1>3, <1>4 DEF Agenda, ToPeer
  <2>5. Sorted(net'.todo)
    BY <1>2, <1>3 DEF Agenda
  <2> QED BY <1>3, <2>3, <2>4, <2>5 DEF Agenda
<1>7. Fifo'
  <2>1. \A k \in 1 .. Len(net.rest) : After(net.rest[k], FALSE)
    BY <1>2, <1>3 DEF Fifo
  <2>2. \A k \in 1 .. Len(net'.rest) : After(net.rest[k], FALSE)'
    BY <1>1, <1>3, <2>1 DEF After
  <2>3. taken' \in Seq(1 .. Enqueued')
    BY <1>1, <1>2, <1>4 DEF Fifo
  <2> QED BY <1>3, <1>4, <2>2, <2>3 DEF Fifo
<1>8. InOrder' /\ AtMostOnce'
  BY <1>1, <1>2 DEF InOrder, AtMostOnce
<1>9. Typed'
  <2>1. TypeOK'
    <3>1. net' \in [pc : {"idle", "send", "find", "trunc", "write"},
                    todo : Seq(Seq(Cell)), rest : Seq(Seq(Cell))]
      <4> HIDE DEF Cell
      <4> QED BY <1>1, <1>2 DEF Typed, TypeOK
    <3>2. file' \in Seq(Cell)
      <4> HIDE DEF Cell
      <4> QED BY <1>1
    <3> HIDE DEF Cell
    <3> QED BY <1>1, <1>2, <3>1, <3>2 DEF Typed, TypeOK
  <2>2. Len(file') <= 1 + 2 * Enqueued'
    <3>1. Len(file') = 0 /\ Enqueued \in Nat
      BY <1>1, <1>2, Lengths
    <3> QED BY <1>4, <3>1
  <2> HIDE DEF Pair
  <2> QED BY <1>1, <1>2, <1>3, <1>4, <2>1, <2>2 DEF Typed
<1>10. Undisturbed'
  BY <1>1, <1>2, <1>3 DEF Undisturbed
<1>11. Counted'
  BY <1>1, <1>2, <1>3 DEF Counted, Undisturbed
<1>12. Kept'
  <2> SUFFICES ASSUME ~ raced PROVE Kept'
    BY <1>1 DEF Kept
  <2>1. accepted \subseteq OnFile \cup InRewrite \cup Taken \cup torn
    BY <1>2 DEF Kept
  <2>2. PICK k \in 1 .. Len(GetAll) : GetAll[k] = net.todo[1] /\ net.rest = RemoveAt(GetAll, k)
    BY <1>1, <1>2 DEF Undisturbed
  <2>3. \A e : IdOf(e)' = IdOf(e)
    BY <1>1 DEF IdOf
  <2>4. IdOf(GetAll[k]) \in Taken
    <3>1. IdOf(net.todo[1]) = Num(net.todo[1])
      BY <1>2, <1>3, TodoFacts
    <3> QED BY <1>1, <1>2, <2>2, <3>1 DEF Fifo
  <2> DEFINE E == GetAll
             r == net.rest
  <2>5. /\ E \in Seq(Pair) /\ Len(E) \in Nat /\ DOMAIN E = 1 .. Len(E)
        /\ r \in Seq(Pair) /\ DOMAIN r = 1 .. Len(r)
    <3>1. E \in Seq(Pair) /\ r \in Seq(Pair)
      BY <1>2, Lengths DEF Typed
    <3> HIDE DEF Pair, E, r
    <3> QED BY <3>1
  <2>6. \A m \in 1 .. Len(E) : m # k => \E j \in 1 .. Len(r) : r[j] = E[m]
    <3>1. TakenOut(r, E, k) /\ k \in 1 .. Len(E)
      BY <2>2 DEF TakenOut
    <3>2. E \in Seq(Pair)
      BY <2>5
    <3> HIDE DEF Pair, E, r
    <3> QED BY <3>1, <3>2, OthersStay, SMT
  <2>7. InRewrite' = {IdOf(r[j]) : j \in DOMAIN r}
    <3>1. InRewrite' = {IdOf(net.rest[j])' : j \in DOMAIN r}
      BY <1>3 DEF InRewrite
    <3>2. \A j \in DOMAIN r : IdOf(net.rest[j])' = IdOf(r[j])
      BY <1>1, <1>3 DEF IdOf
    <3> QED BY <3>1, <3>2
  <2>8. OnFile = {IdOf(E[m]) : m \in DOMAIN E} \ {Nobody}
    BY DEF OnFile
  <2> HIDE DEF E, r
  <2>9. OnFile \subseteq InRewrite' \cup Taken
    <3> SUFFICES ASSUME NEW m \in DOMAIN E, IdOf(E[m]) \notin Taken
                 PROVE  \E j \in DOMAIN r : IdOf(r[j]) = IdOf(E[m])
      BY <2>7, <2>8
    <3> QED BY <2>4, <2>5, <2>6 DEF E
  <2>10. InRewrite = {} /\ Taken' = Taken
    BY <1>1 DEF InRewrite, Taken
  <2> QED BY <1>1, <2>1, <2>9, <2>10 DEF Kept
<1> QED BY <1>5, <1>6, <1>7, <1>8, <1>9, <1>10, <1>11, <1>12 DEF Inv

(* What a rewriting leaves on file; nothing but what it held in memory if  *)
(* no enqueue has overlapped it.                                           *)
LEMMA Rewritten ==
  ASSUME Typed, Rewrite
  PROVE  /\ Overwritten(file', file, Hdr(Len(net.rest)), net.rest, Len(net.rest))
         /\ GetAll = EntriesOf(file) /\ GetAll' = EntriesOf(file')
         /\ Hdr(Len(net.rest)) \in Cell
         /\ file = <<>> => GetAll = <<>> /\ GetAll' = net.rest
<1> DEFINE r == net.rest
           n == Len(r)
           c == Hdr(n)
           g == file'
<1>1. net.pc = "write" /\ file' = Overlay(<<c>> \o Cells(r))
  BY DEF Rewrite, KeptEntries
<1>2. file \in Seq(Cell) /\ r \in Seq(Pair) /\ n <= Enqueued /\ Enqueued <= MaxMsgs
  <2>1. r \in Seq(Pair) /\ n <= Enqueued /\ Len(msgs) <= MaxMsgs
    BY <1>1 DEF Typed, Rewriting
  <2> QED BY <2>1, Lengths, ConstAssumption
<1>3. n \in Nat
  <2> HIDE DEF Pair, r
  <2> QED BY <1>2
<1>4. c \in Cell
  <2>1. n \in Unknown .. MaxMsgs
    BY <1>2, <1>3, Lengths, ConstAssumption DEF Unknown
  <2> QED BY <2>1 DEF Hdr, Cell
<1>5. Overwritten(g, file, c, r, n)
  <2>1. Written(g, file, c, r) /\ IsLen(n, r)
    BY <1>1 DEF Overlay, Written, IsLen
  <2> HIDE DEF g, r, n, c, Cell, Pair
  <2> QED BY <1>2, <1>4, <2>1, EntriesWritten
<1>6. GetAll = EntriesOf(file) /\ GetAll' = EntriesOf(file')
  BY GetAllIs
<1>7. ASSUME file = <<>> PROVE GetAll = <<>> /\ GetAll' = net.rest
  <2>1. Len(file) = 0 /\ GetAll = <<>>
    BY <1>7 DEF GetAll
  <2>2. 0 <= 2 * n + 1
    BY <1>3
  <2>3. EntriesOf(g) = r
    BY <1>5, <2>1, <2>2 DEF Overwritten
  <2> QED BY <1>6, <2>1, <2>3
<1> QED BY <1>4, <1>5, <1>6, <1>7

(* The stream is closed: the entries in memory are written behind the      *)
(* header, over what is on file by then.                                   *)
LEMMA RewriteKeeps ==
  ASSUME Inv, Rewrite
  PROVE  Inv'
<1> DEFINE r == net.rest
           n == Len(r)
           c == Hdr(n)
           g == file'
           E == GetAll
           G == EntriesOf(g)
           todo == net.todo
           next == net'.todo
<1>1. /\ net.pc = "write" /\ file' = Overlay(<<c>> \o Cells(r)) /\ net' = NextEntry
      /\ UNCHANGED <<exists, up, main, msgs, accepted, taken, torn, raced, crashes>>
  BY DEF Rewrite, KeptEntries
<1>2. /\ Typed /\ Contents /\ Agenda /\ Fifo /\ InOrder /\ AtMostOnce /\ Undisturbed
      /\ Counted /\ Kept
  BY DEF Inv
<1>3. /\ Rewriting /\ net.pc # "idle" /\ ~ Rewriting'
      /\ net'.pc \in {"idle", "send"} /\ (net'.pc = "send" <=> Len(todo) # 1)
      /\ (net'.pc = "send" => next = Tail(todo)) /\ (net'.pc = "idle" => next = <<>>)
      /\ net'.rest = <<>>
  BY <1>1 DEF Rewriting, NextEntry, NetIdle
<1>4. /\ todo \in Seq(Pair) /\ Len(todo) \in Nat /\ Len(todo) >= 1
      /\ \A j \in 1 .. Len(todo) :
           /\ Valid(todo[j]) /\ Num(todo[j]) \in 1 .. Enqueued
           /\ msgs[Num(todo[j])].dest = msgs[Num(todo[1])].dest
      /\ \A j, k \in 1 .. Len(todo) : j < k => Num(todo[j]) < Num(todo[k])
  BY <1>2, <1>3, TodoFacts
<1>5. net'.pc = "send" => /\ next \in Seq(Pair) /\ next # <<>> /\ Len(next) = Len(todo) - 1
                          /\ \A j \in 1 .. Len(next) : next[j] = todo[j + 1]
  <2> HIDE DEF todo, next, Pair
  <2> SUFFICES ASSUME net'.pc = "send"
               PROVE  /\ next \in Seq(Pair) /\ next # <<>> /\ Len(next) = Len(todo) - 1
                      /\ \A j \in 1 .. Len(next) : next[j] = todo[j + 1]
    OBVIOUS
  <2>1. Len(todo) # 1 /\ Len(todo) # 0
    BY <1>3, <1>4
  <2>2. todo \in Seq(Pair) /\ todo # <<>>
    BY <1>4, <2>1, EmptyLen
  <2>3. /\ next \in Seq(Pair) /\ Len(next) = Len(todo) - 1
        /\ \A j \in 1 .. Len(todo) - 1 : next[j] = todo[j + 1]
    BY <1>3, <2>2, Behind
  <2>4. Len(next) # 0
    BY <1>4, <2>1, <2>3
  <2> QED BY <2>3, <2>4, EmptyLen
<1>6. /\ file \in Seq(Cell) /\ Len(file) \in Nat /\ E \in Seq(Pair) /\ Len(E) \in Nat
      /\ r \in Seq(Pair) /\ n \in Nat /\ n <= Enqueued /\ Enqueued \in Nat
      /\ Enqueued <= Len(msgs) /\ Len(msgs) <= MaxMsgs
  <2>1. r \in Seq(Pair) /\ n <= Enqueued /\ Len(msgs) <= MaxMsgs
    BY <1>2, <1>3 DEF Typed
  <2>2. n \in Nat
    <3> HIDE DEF Pair, r
    <3> QED BY <2>1
  <2> QED BY <1>2, <2>1, <2>2, Lengths
<1>7. c \in Cell /\ c.part = "hdr" /\ c.id = n
  <2>1. n \in Unknown .. MaxMsgs
    BY <1>6, Lengths, <1>2, ConstAssumption DEF Unknown
  <2> QED BY <2>1 DEF Hdr, Cell
<1> HIDE DEF c
<1>8. /\ g \in Seq(Cell) /\ g # <<>> /\ g[1] = c
      /\ Len(g) = (IF Len(file) <= 2 * n + 1 THEN 2 * n + 1 ELSE Len(file))
      /\ n <= Len(G)
      /\ \A k \in 1 .. n : G[k] = r[k]
      /\ \A k \in n + 1 .. Len(G) : k \in 1 .. Len(E) /\ G[k] = E[k]
      /\ Len(file) <= 2 * n + 1 => G = r
  <2>1. Overwritten(g, file, c, r, n) /\ E = EntriesOf(file)
    BY <1>1, <1>2, Rewritten DEF c
  <2> HIDE DEF g, r, n, Cell, Pair, E
  <2> QED BY <2>1, Zenon DEF Overwritten
<1>9. GetAll' = G /\ Enqueued' = Enqueued /\ Len(G) \in Nat
  <2>1. g \in Seq(Cell)
    BY <1>8
  <2>2. Len(G) \in Nat
    BY <2>1, EntriesOfFacts
  <2> QED BY <1>1, <2>2, GetAllIs DEF Enqueued
<1> HIDE DEF r, n, g, E, G, next
<1>10. \A k \in 1 .. Len(G) : \/ k \in 1 .. n /\ G[k] = r[k]
                              \/ k \in n + 1 .. Len(G) /\ k \in 1 .. Len(E) /\ G[k] = E[k]
  BY <1>6, <1>8, <1>9
<1>11. /\ \A j, k \in 1 .. n : (j < k /\ Valid(r[j]) /\ Valid(r[k])) => Num(r[j]) < Num(r[k])
       /\ \A j, k \in 1 .. Len(E) : (j < k /\ Valid(E[j]) /\ Valid(E[k])) => Num(E[j]) < Num(E[k])
       /\ \A j \in 1 .. n : \A k \in 1 .. Len(E) :
            (Valid(r[j]) /\ Valid(E[k])) => Num(r[j]) < Num(E[k])
       /\ \A k \in 1 .. n : Valid(r[k]) => Num(r[k]) \in 1 .. Enqueued
       /\ \A k \in 1 .. Len(E) : Valid(E[k]) => Num(E[k]) \in 1 .. Enqueued
  BY <1>1, <1>2, <1>3 DEF Contents, Sorted, UpTo, r, n, E
<1>12. Contents'
  <2>1. Sorted(G)
    <3> SUFFICES ASSUME NEW j \in 1 .. Len(G), NEW k \in 1 .. Len(G), j < k, Valid(G[j]), Valid(G[k])
                 PROVE  Num(G[j]) < Num(G[k])
      BY DEF Sorted
    <3>1. CASE k \in 1 .. n
      <4>1. j \in 1 .. n
        BY <1>6, <1>9, <3>1
      <4> QED BY <1>8, <1>11, <3>1, <4>1
    <3>2. CASE k \in n + 1 .. Len(G)
      <4>1. k \in 1 .. Len(E) /\ G[k] = E[k]
        BY <1>8, <3>2
      <4> QED BY <1>10, <1>11, <4>1
    <3> QED BY <1>10, <3>1, <3>2
  <2>2. UpTo(G, Enqueued)
    BY <1>10, <1>11 DEF UpTo
  <2> QED BY <1>3, <1>9, <2>1, <2>2 DEF Contents, Rewriting
<1>13. Agenda'
  <2> SUFFICES ASSUME net'.pc = "send" PROVE Agenda'
    BY <1>3 DEF Agenda
  <2>1. /\ \A j \in 2 .. Len(todo) : Holds(r, Num(todo[j]))
        /\ \A k \in 1 .. n : ToPeer(r[k]) =>
             \/ \E j \in 2 .. Len(todo) : todo[j] = r[k]
             \/ \A j \in 1 .. Len(todo) : Num(todo[j]) < Num(r[k])
    <3>1. Covers(2, r)
      BY <1>2, <1>3 DEF Agenda, r
    <3> QED BY <3>1 DEF Covers, n
  <2> HIDE DEF todo
  <2>2. /\ Len(next) = Len(todo) - 1 /\ Len(next) \in Nat /\ 1 \in 1 .. Len(next)
        /\ \A j \in 1 .. Len(next) : /\ next[j] = todo[j + 1] /\ j + 1 \in 2 .. Len(todo)
                                     /\ j + 1 \in 1 .. Len(todo)
        /\ \A j \in 2 .. Len(todo) : j - 1 \in 1 .. Len(next) /\ next[j - 1] = todo[j]
    <3>1. Len(next) = Len(todo) - 1 /\ Len(todo) # 1 /\ \A j \in 1 .. Len(next) : next[j] = todo[j + 1]
      BY <1>3, <1>5
    <3>2. Len(next) \in Nat /\ 1 \in 1 .. Len(next)
      BY <1>4, <3>1
    <3>3. \A j \in 1 .. Len(next) : j + 1 \in 2 .. Len(todo) /\ j + 1 \in 1 .. Len(todo)
      BY <1>4, <3>1, <3>2
    <3>4. \A j \in 2 .. Len(todo) : j - 1 \in 1 .. Len(next) /\ (j - 1) + 1 = j
      BY <1>4, <3>1
    <3> QED BY <3>1, <3>2, <3>3, <3>4
  <2>3. msgs[Num(next[1])].dest = msgs[Num(todo[1])].dest
    BY <1>4, <2>2
  <2>4. \A j \in 1 .. Len(next) : /\ Valid(next[j]) /\ Num(next[j]) \in 1 .. Enqueued
                                  /\ msgs[Num(next[j])].dest = msgs[Num(next[1])].dest
    BY <1>4, <2>2
  <2>5. Sorted(next)
    <3> SUFFICES ASSUME NEW j \in 1 .. Len(next), NEW k \in 1 .. Len(next), j < k
                 PROVE  Num(next[j]) < Num(next[k])
      BY DEF Sorted
    <3>1. j + 1 < k + 1
      BY <2>2
    <3> QED BY <1>4, <2>2, <3>1
  <2>6. \A j \in 1 .. Len(next) : Holds(G, Num(next[j]))
    <3> SUFFICES ASSUME NEW j \in 1 .. Len(next) PROVE Holds(G, Num(next[j]))
      OBVIOUS
    <3>1. Holds(r, Num(next[j]))
      BY <2>1, <2>2
    <3>2. PICK k \in 1 .. n : r[k] = EntryCells(Num(next[j]))
      BY <3>1 DEF Holds, n
    <3>3. k \in 1 .. Len(G) /\ G[k] = r[k]
      BY <1>6, <1>8, <1>9, <3>2
    <3> QED BY <3>2, <3>3 DEF Holds
  <2>7. ASSUME NEW k \in 1 .. Len(G), Valid(G[k]), msgs[Num(G[k])].dest = msgs[Num(todo[1])].dest
        PROVE  \/ \E j \in 1 .. Len(next) : next[j] = G[k]
               \/ \A j \in 1 .. Len(next) : Num(next[j]) < Num(G[k])
    <3>1. CASE k \in 1 .. n /\ G[k] = r[k]
      <4>1. ToPeer(r[k])
        BY <2>7, <3>1 DEF ToPeer, todo
      <4> QED BY <2>1, <2>2, <3>1, <4>1
    <3>2. CASE k \in 1 .. Len(E) /\ G[k] = E[k]
      <4> SUFFICES ASSUME NEW j \in 1 .. Len(next) PROVE Num(next[j]) < Num(G[k])
        OBVIOUS
      <4>1. Holds(r, Num(next[j]))
        BY <2>1, <2>2
      <4>2. PICK m \in 1 .. n : r[m] = EntryCells(Num(next[j]))
        BY <4>1 DEF Holds, n
      <4>3. Valid(r[m]) /\ Num(r[m]) = Num(next[j])
        BY <4>2, EntryFacts
      <4> QED BY <1>11, <2>7, <3>2, <4>3
    <3> QED BY <1>10, <3>1, <3>2
  <2>8. Covers(1, GetAll)'
    <3>1. \A j \in 1 .. Len(net'.todo) : Holds(GetAll', Num(net'.todo[j]))
      BY <1>9, <2>6 DEF next
    <3>2. \A k \in 1 .. Len(GetAll') : ToPeer(GetAll[k])' =>
            \/ \E j \in 1 .. Len(net'.todo) : net'.todo[j] = GetAll'[k]
            \/ \A j \in 1 .. Len(net'.todo) : Num(net'.todo[j]) < Num(GetAll'[k])
      <4> SUFFICES ASSUME NEW k \in 1 .. Len(G), ToPeer(GetAll[k])'
                   PROVE  \/ \E j \in 1 .. Len(next) : next[j] = G[k]
                          \/ \A j \in 1 .. Len(next) : Num(next[j]) < Num(G[k])
        BY <1>9 DEF next
      <4>1. Valid(G[k]) /\ msgs[Num(G[k])].dest = msgs[Num(next[1])].dest
        BY <1>1, <1>9 DEF ToPeer, next
      <4> QED BY <2>3, <2>7, <4>1
    <3> QED BY <3>1, <3>2, Zenon DEF Covers
  <2>9. \A j \in 1 .. Len(net'.todo) : ToPeer(net.todo[j])' /\ Num(net'.todo[j]) \in 1 .. Enqueued'
    BY <1>1, <1>9, <2>4 DEF ToPeer, next
  <2>10. Sorted(net'.todo)
    BY <2>5 DEF next
  <2> QED BY <1>3, <2>8, <2>9, <2>10 DEF Agenda
<1>14. Fifo'
  <2>1. \A e, again : After(e, again)' <=> After(e, again)
    BY <1>1 DEF After
  <2>2. \A k \in 1 .. n : After(r[k], FALSE)
    BY <1>2, <1>3 DEF Fifo, r, n
  <2>3. \A k \in 1 .. Len(E) : After(E[k], FALSE)
    <3>1. \A k \in 1 .. Len(E) : After(E[k], net.pc \in {"find", "trunc"} /\ E[k] = net.todo[1])
      BY <1>2 DEF Fifo, E
    <3> QED BY <1>1, <3>1 DEF After
  <2>4. \A k \in 1 .. Len(G) : After(G[k], FALSE)
    BY <1>10, <2>2, <2>3
  <2>5. \A k \in 1 .. Len(GetAll') :
          After(GetAll[k], net.pc \in {"find", "trunc"} /\ GetAll[k] = net.todo[1])'
    BY <1>1, <1>3, <1>9, <2>4 DEF After
  <2>6. taken' \in Seq(1 .. Enqueued')
    BY <1>1, <1>2, <1>9 DEF Fifo
  <2> QED BY <1>3, <2>5, <2>6 DEF Fifo
<1>15. InOrder' /\ AtMostOnce'
  BY <1>1, <1>2 DEF InOrder, AtMostOnce
<1>16. Typed'
  <2>0. next \in Seq(Pair) /\ <<>> \in Seq(Pair)
    <3> HIDE DEF Pair
    <3>1. <<>> \in Seq(Pair)
      OBVIOUS
    <3>2. next = <<>> \/ next \in Seq(Pair)
      BY <1>3, <1>5
    <3> QED BY <3>1, <3>2
  <2>1. TypeOK'
    <3>1. next \in Seq(Pair)
      BY <2>0
    <3>2. next \in Seq(Seq(Cell)) /\ <<>> \in Seq(Seq(Cell))
      <4>1. Pair \subseteq Seq(Cell)
        BY PairsAreLists
      <4> HIDE DEF Pair, Cell
      <4> QED BY <3>1, <4>1
    <3>3. net' \in [pc : {"idle", "send", "find", "trunc", "write"},
                    todo : Seq(Seq(Cell)), rest : Seq(Seq(Cell))]
      <4>1. net' = [pc |-> net'.pc, todo |-> next, rest |-> <<>>]
        <5> HIDE DEF todo
        <5> QED BY <1>1 DEF NextEntry, NetIdle, next
      <4>2. net'.pc \in {"idle", "send", "find", "trunc", "write"}
        BY <1>3
      <4> DEFINE a == net'.pc
                 b == next
                 d == <<>>
                 V == Seq(Seq(Cell))
      <4>3. a \in {"idle", "send", "find", "trunc", "write"} /\ b \in V /\ d \in V
        BY <3>2, <4>2
      <4>4. net' = [pc |-> a, todo |-> b, rest |-> d]
        BY <4>1
      <4> HIDE DEF V, a, b, d
      <4>5. net' \in [pc : {"idle", "send", "find", "trunc", "write"}, todo : V, rest : V]
        BY <4>3, <4>4
      <4> QED BY <4>5 DEF V
    <3> HIDE DEF Cell
    <3> QED BY <1>1, <1>2, <1>8, <3>3 DEF Typed, TypeOK, g
  <2>2. Len(file') <= 1 + 2 * Enqueued'
    <3>1. Len(file) <= 1 + 2 * Enqueued
      BY <1>2 DEF Typed
    <3> QED BY <1>6, <1>8, <1>9, <3>1 DEF g
  <2>3. /\ net'.todo \in Seq(Pair) /\ net'.rest \in Seq(Pair)
        /\ net'.pc # "idle" => net'.todo # <<>>
    BY <1>3, <1>5, <2>0 DEF next
  <2>4. file'[1].id <= Enqueued' /\ file'[1].id <= Len(msgs')
    BY <1>1, <1>6, <1>7, <1>8, <1>9 DEF g
  <2>5. up = "up" /\ exists
    BY <1>1, <1>2 DEF Typed, TypeOK
  <2> HIDE DEF Pair
  <2> QED BY <1>1, <1>2, <1>3, <1>9, <2>1, <2>2, <2>3, <2>4, <2>5 DEF Typed
<1>17. ~ raced => main.pc = "idle" /\ file = <<>> /\ Len(file) = 0 /\ E = <<>> /\ G = r
  <2> SUFFICES ASSUME ~ raced
               PROVE  main.pc = "idle" /\ file = <<>> /\ Len(file) = 0 /\ E = <<>> /\ G = r
    OBVIOUS
  <2>1. main.pc = "idle" /\ file = <<>>
    BY <1>1, <1>2, <1>3 DEF Undisturbed
  <2>2. Len(file) = 0 /\ E = <<>>
    BY <2>1 DEF GetAll, E
  <2>3. 0 <= 2 * n + 1
    BY <1>6
  <2> QED BY <1>8, <2>1, <2>2, <2>3
<1>18. Undisturbed'
  <2>1. ~ raced => Len(file') % 2 = 1
    <3> SUFFICES ASSUME ~ raced PROVE Len(file') % 2 = 1
      OBVIOUS
    <3>1. Len(file') = 2 * n + 1
      BY <1>6, <1>8, <1>17 DEF g
    <3>2. 2 * n + 1 \in Nat /\ (2 * n + 1) \div 2 = n
      BY <1>6, Halves
    <3> QED BY <3>1, <3>2, Halves, <1>6
  <2> QED BY <1>1, <1>3, <1>17, <2>1 DEF Undisturbed
<1>19. Counted'
  <2> SUFFICES ASSUME ~ raced, crashes = 0 PROVE Counted'
    BY <1>1 DEF Counted
  <2>1. file' # <<>> /\ file'[1] = Hdr(Len(GetAll'))
    BY <1>8, <1>9, <1>17 DEF c, g, n
  <2>2. Len(GetAll') + 0 = Len(GetAll')
    BY <1>9
  <2>3. up = "up"
    BY <1>1, <1>2 DEF Typed
  <2> QED BY <1>1, <1>17, <2>1, <2>2, <2>3 DEF Counted
<1>20. Kept'
  <2> SUFFICES ASSUME ~ raced PROVE Kept'
    BY <1>1 DEF Kept
  <2>1. accepted \subseteq OnFile \cup InRewrite \cup Taken \cup torn
    BY <1>2 DEF Kept
  <2>2. OnFile = {}
    BY <1>17 DEF OnFile, E
  <2>3. InRewrite = {IdOf(r[j]) : j \in DOMAIN r}
    BY <1>1 DEF InRewrite, r
  <2>4. \A e : IdOf(e)' = IdOf(e)
    BY <1>1 DEF IdOf
  <2>5. OnFile' = {IdOf(r[j]) : j \in DOMAIN r} \ {Nobody}
    <3>1. GetAll' = r
      BY <1>9, <1>17
    <3> QED BY <2>4, <3>1 DEF OnFile
  <2>6. Nobody \notin accepted
    <3>1. accepted \subseteq 1 .. Len(msgs)
      BY <1>2, Lengths DEF Typed, TypeOK
    <3> QED BY <3>1 DEF Nobody
  <2>7. Taken' = Taken /\ accepted' = accepted /\ torn' = torn
    BY <1>1 DEF Taken
  <2> QED BY <2>1, <2>2, <2>3, <2>5, <2>6, <2>7 DEF Kept
<1> QED BY <1>12, <1>13, <1>14, <1>15, <1>16, <1>18, <1>19, <1>20 DEF Inv

-----------------------------------------------------------------------------
(* The process dies.                                                       *)
LEMMA CrashKeeps ==
  ASSUME Inv, Crash
  PROVE  Inv'
<1>1. /\ up # "down" /\ crashes < MaxCrashes /\ up' = "down" /\ crashes' = crashes + 1
      /\ main' = MainIdle /\ net' = NetIdle
      /\ torn' = IF net.pc = "write" THEN torn \cup {IdOf(net.rest[k]) : k \in DOMAIN net.rest}
                 ELSE torn
      /\ UNCHANGED <<file, exists, msgs, accepted, taken, raced>>
  BY DEF Crash
<1>2. /\ Typed /\ Contents /\ Agenda /\ Fifo /\ InOrder /\ AtMostOnce /\ Undisturbed
      /\ Counted /\ Kept
  BY DEF Inv
<1>3. main'.pc = "idle" /\ net'.pc = "idle" /\ net'.todo = <<>> /\ net'.rest = <<>> /\ ~ Rewriting'
  BY <1>1 DEF MainIdle, NetIdle, Rewriting
<1>4. crashes \in Nat /\ crashes' # 0 /\ crashes' \in 0 .. MaxCrashes
  BY <1>1, <1>2, ConstAssumption DEF Typed, TypeOK
<1>5. /\ Enqueued' = Len(msgs) /\ Enqueued \in Nat /\ Enqueued <= Len(msgs) /\ Len(msgs) \in Nat
      /\ \A i \in 1 .. Enqueued : i \in 1 .. Len(msgs)
  BY <1>1, <1>2, <1>3, Lengths DEF Enqueued
<1>6. GetAll' = GetAll /\ OnFile' = OnFile
  BY <1>1, SameOnFile
<1>7. Contents'
  BY <1>2, <1>3, <1>5, <1>6 DEF Contents, UpTo
<1>8. Agenda'
  BY <1>3 DEF Agenda
<1>9. Fifo'
  <2>1. \A k \in 1 .. Len(GetAll) : After(GetAll[k], FALSE)'
    <3> SUFFICES ASSUME NEW k \in 1 .. Len(GetAll), Valid(GetAll[k]), NEW n \in DOMAIN taken,
                        msgs[taken[n]].dest = msgs[Num(GetAll[k])].dest
                 PROVE  taken[n] <= Num(GetAll[k])
      BY <1>1, <1>4, <1>6 DEF After
    <3>1. After(GetAll[k], net.pc \in {"find", "trunc"} /\ GetAll[k] = net.todo[1])
      BY <1>2 DEF Fifo
    <3> QED BY <3>1 DEF After
  <2>2. taken' \in Seq(1 .. Enqueued')
    <3> DEFINE D == 1 .. Enqueued
               H == 1 .. Len(msgs)
    <3>1. taken \in Seq(D) /\ D \subseteq H
      BY <1>2, <1>5 DEF Fifo
    <3> HIDE DEF D, H
    <3>2. taken \in Seq(H)
      BY <3>1
    <3> QED BY <1>1, <1>5, <3>2 DEF H
  <2>3. \A k \in 1 .. Len(GetAll') :
          After(GetAll[k], net.pc \in {"find", "trunc"} /\ GetAll[k] = net.todo[1])'
    BY <1>3, <1>6, <2>1 DEF After
  <2> QED BY <1>3, <2>2, <2>3 DEF Fifo
<1>10. InOrder' /\ AtMostOnce'
  BY <1>1, <1>2, <1>4 DEF InOrder, AtMostOnce
<1>11. Typed'
  <2>1. torn' \subseteq 0 .. MaxMsgs
    <3>1. \A e : IdOf(e) \in 0 .. Len(msgs)
      BY <1>2, IdOfFacts
    <3>2. Len(msgs) <= MaxMsgs /\ MaxMsgs \in Nat
      BY <1>2, ConstAssumption DEF Typed
    <3>3. \A e : IdOf(e) \in 0 .. MaxMsgs
      BY <1>5, <3>1, <3>2
    <3> QED BY <1>1, <1>2, <3>3 DEF Typed, TypeOK
  <2>2. main' \in [pc : {"idle", "opened", "counted", "bumped"}, id : 0 .. MaxMsgs,
                   count : Unknown .. MaxMsgs]
    BY <1>1, ConstAssumption DEF MainIdle, Unknown
  <2>3. <<>> \in Seq(Seq(Cell)) /\ <<>> \in Seq(Pair)
    <3> HIDE DEF Cell, Pair
    <3> QED OBVIOUS
  <2>4. net' \in [pc : {"idle", "send", "find", "trunc", "write"},
                  todo : Seq(Seq(Cell)), rest : Seq(Seq(Cell))]
    <3> HIDE DEF Cell
    <3> QED BY <1>1, <2>3 DEF NetIdle
  <2>5. TypeOK'
    <3> HIDE DEF Cell
    <3> QED BY <1>1, <1>2, <1>4, <2>1, <2>2, <2>4 DEF Typed, TypeOK
  <2>6. Len(file') <= 1 + 2 * Enqueued'
    <3>1. Len(file) <= 1 + 2 * Enqueued /\ Len(file) \in Nat
      BY <1>2, Lengths DEF Typed
    <3> QED BY <1>1, <1>5, <3>1
  <2>7. (file # <<>> /\ file[1].part = "hdr") => file[1].id <= Len(msgs)
    <3> SUFFICES ASSUME file # <<>>, file[1].part = "hdr" PROVE file[1].id <= Len(msgs)
      OBVIOUS
    <3>1. file[1].id <= Len(msgs) \/ file[1].id <= Enqueued
      BY <1>2 DEF Typed
    <3>2. file[1] \in Cell
      <4> HIDE DEF Cell
      <4>1. file \in Seq(Cell)
        BY <1>2, Lengths
      <4> QED BY <4>1
    <3>3. file[1].id \in Unknown .. MaxMsgs
      BY <3>2 DEF Cell
    <3> QED BY <1>5, <3>1, <3>3, ConstAssumption DEF Unknown
  <2>8. exists
    BY <1>1, <1>2 DEF Typed, TypeOK
  <2> HIDE DEF Pair
  <2> QED BY <1>1, <1>2, <1>3, <1>5, <2>3, <2>5, <2>6, <2>7, <2>8 DEF Typed
<1>12. Undisturbed'
  BY <1>1, <1>2, <1>3 DEF Undisturbed
<1>13. Counted'
  BY <1>4 DEF Counted
<1>14. Kept'
  <2> SUFFICES ASSUME ~ raced PROVE Kept'
    BY <1>1 DEF Kept
  <2>1. accepted \subseteq OnFile \cup InRewrite \cup Taken \cup torn
    BY <1>2 DEF Kept
  <2>2. InRewrite \cup torn \subseteq torn' /\ Taken' = Taken
    BY <1>1 DEF InRewrite, Taken
  <2> QED BY <1>1, <1>6, <2>1, <2>2 DEF Kept
<1> QED BY <1>7, <1>8, <1>9, <1>10, <1>11, <1>12, <1>13, <1>14 DEF Inv

(* Nothing changes.                                                        *)
LEMMA StutterKeeps ==
  ASSUME Inv, UNCHANGED vars
  PROVE  Inv'
<1>1. UNCHANGED <<file, exists, up, main, net, msgs, accepted, taken, torn, raced, crashes>>
  BY DEF vars
<1>2. /\ Typed /\ Contents /\ Agenda /\ Fifo /\ InOrder /\ AtMostOnce /\ Undisturbed
      /\ Counted /\ Kept
  BY DEF Inv
<1>3. GetAll' = GetAll /\ Enqueued' = Enqueued
  BY <1>1 DEF GetAll, Enqueued
<1>4. Contents' /\ Agenda' /\ Fifo' /\ InOrder' /\ AtMostOnce'
  BY <1>1, <1>2, <1>3, QuietKeeps
<1>5. Typed'
  <2>1. TypeOK'
    <3> HIDE DEF Cell
    <3> QED BY <1>1, <1>2 DEF Typed, TypeOK
  <2> HIDE DEF Pair
  <2> QED BY <1>1, <1>2, <1>3, <2>1 DEF Typed, Rewriting
<1>6. Undisturbed' /\ Counted'
  BY <1>1, <1>2, <1>3 DEF Undisturbed, Counted, Rewriting
<1>7. Kept'
  BY <1>1, <1>2, <1>3, QuietKept
<1> QED BY <1>4, <1>5, <1>6, <1>7 DEF Inv

(* No file, no message, both threads idle.                                 *)
LEMMA Starts ==
  ASSUME Init
  PROVE  Inv
<1>1. /\ file = <<>> /\ exists = FALSE /\ up = "down" /\ main = MainIdle /\ net = NetIdle
      /\ msgs = <<>> /\ accepted = {} /\ taken = <<>> /\ torn = {} /\ raced = FALSE
      /\ crashes = 0
  BY DEF Init
<1>2. main.pc = "idle" /\ net.pc = "idle" /\ net.todo = <<>> /\ net.rest = <<>> /\ ~ Rewriting
  BY <1>1 DEF MainIdle, NetIdle, Rewriting
<1>3. GetAll = <<>> /\ Len(GetAll) = 0 /\ Len(file) = 0 /\ Len(msgs) = 0 /\ Enqueued = 0
  BY <1>1, <1>2 DEF GetAll, Enqueued
<1>4. DOMAIN taken = {} /\ DOMAIN msgs = {} /\ 1 .. Len(GetAll) = {}
  BY <1>1, <1>3
<1>5. \A T : <<>> \in Seq(T)
  OBVIOUS
<1>6. Typed
  <2>1. main \in [pc : {"idle", "opened", "counted", "bumped"}, id : 0 .. MaxMsgs,
                  count : Unknown .. MaxMsgs]
    BY <1>1, ConstAssumption DEF MainIdle, Unknown
  <2>2. net \in [pc : {"idle", "send", "find", "trunc", "write"},
                 todo : Seq(Seq(Cell)), rest : Seq(Seq(Cell))]
    <3> HIDE DEF Cell
    <3> QED BY <1>1, <1>5 DEF NetIdle
  <2>3. TypeOK
    <3>1. accepted \subseteq DOMAIN msgs /\ torn \subseteq 0 .. MaxMsgs /\ crashes \in 0 .. MaxCrashes
      BY <1>1, ConstAssumption
    <3> HIDE DEF Cell
    <3> QED BY <1>1, <1>5, <2>1, <2>2, <3>1 DEF TypeOK
  <2>4. Len(msgs) <= MaxMsgs /\ Len(file) <= 1 + 2 * Enqueued
    BY <1>3, ConstAssumption
  <2> HIDE DEF Pair
  <2> QED BY <1>1, <1>2, <1>5, <2>3, <2>4 DEF Typed
<1>7. Contents /\ Agenda
  BY <1>2, <1>4 DEF Contents, Agenda, Sorted, UpTo
<1>8. Fifo
  BY <1>1, <1>2, <1>4, <1>5 DEF Fifo
<1>9. InOrder /\ AtMostOnce
  BY <1>4 DEF InOrder, AtMostOnce
<1>10. Undisturbed /\ Counted
  BY <1>1, <1>2 DEF Undisturbed, Counted
<1>11. Kept
  BY <1>1 DEF Kept
<1> QED BY <1>6, <1>7, <1>8, <1>9, <1>10, <1>11 DEF Inv

-----------------------------------------------------------------------------
(* Every step keeps the inductive invariant.                               *)
LEMMA Preserved ==
  ASSUME Inv, [Next]_vars
  PROVE  Inv'
<1>1. CASE Start
  BY <1>1, StartKeeps
<1>2. CASE CreateHeader
  BY <1>2, CreateHeaderKeeps
<1>3. CASE Crash
  BY <1>3, CrashKeeps
<1>4. CASE \E p \in Peer, k \in Key : OpenForAppend(p, k)
  BY <1>4, OpenKeeps
<1>5. CASE ReadHeader
  BY <1>5, ReadHeaderKeeps
<1>6. CASE WriteHeader
  BY <1>6, WriteHeaderKeeps
<1>7. CASE AppendEntry
  BY <1>7, AppendKeeps
<1>8. CASE \E p \in Peer : HearPeer(p)
  BY <1>8, HearKeeps
<1>9. CASE SendPacket
  BY <1>9, SendKeeps
<1>10. CASE FindEntry
  BY <1>10, FindKeeps
<1>11. CASE Truncate
  BY <1>11, TruncateKeeps
<1>12. CASE Rewrite
  BY <1>12, RewriteKeeps
<1>13. CASE UNCHANGED vars
  BY <1>13, StutterKeeps
<1> QED BY <1>1, <1>2, <1>3, <1>4, <1>5, <1>6, <1>7, <1>8, <1>9, <1>10, <1>11, <1>12, <1>13
        DEF Next, Enqueue, Handle

(* The invariant holds, however the calls of the two threads overlap and   *)
(* whenever the process crashes.                                           *)
THEOREM Invariance == Spec => []Inv
<1>1. Init => Inv
  BY Starts
<1>2. Inv /\ [Next]_vars => Inv'
  BY Preserved
<1> QED BY <1>1, <1>2, PTL DEF Spec

(* The variables keep their types, and the file holds whole cells.         *)
THEOREM TypeCorrect == Spec => []TypeOK
<1>1. Inv => TypeOK
  BY DEF Inv, Typed
<1> QED BY <1>1, Invariance, PTL

(* What enqueue has accepted is on file, in the memory of a rewriting,     *)
(* handed to send_packet, or was in the memory of a rewriting when the     *)
(* process died; unless an enqueue and a rewriting have overlapped.        *)
THEOREM KeptAlways == Spec => []Kept
<1>1. Inv => Kept
  BY DEF Inv
<1> QED BY <1>1, Invariance, PTL

(* The entries of a peer go to send_packet in the order of enqueue.        *)
THEOREM InOrderAlways == Spec => []InOrder
<1>1. Inv => InOrder
  BY DEF Inv
<1> QED BY <1>1, Invariance, PTL

(* Without a crash none goes to send_packet twice.                         *)
THEOREM AtMostOnceAlways == Spec => []AtMostOnce
<1>1. Inv => AtMostOnce
  BY DEF Inv
<1> QED BY <1>1, Invariance, PTL

(* Between the operations the header counts the entries of the file.       *)
THEOREM CountMatchesAlways == Spec => []CountMatches
<1>1. Inv => CountMatches
  <2> SUFFICES ASSUME Inv, up = "up", main.pc = "idle", net.pc # "write", crashes = 0, ~ raced
               PROVE  file[1] = Hdr(Len(GetAll))
    BY DEF CountMatches
  <2>1. file[1] = Hdr(Len(GetAll) + 0)
    BY DEF Inv, Counted
  <2>2. Len(GetAll) + 0 = Len(GetAll)
    BY Lengths DEF Inv
  <2> QED BY <2>1, <2>2
<1> QED BY <1>1, Invariance, PTL

-----------------------------------------------------------------------------
(* The refinement of StoreForward.                                         *)

(* The entries that count: those on file, or those in memory while the     *)
(* file is empty; their messages; and those not handed on yet.             *)
Entries == IF net.pc = "write" THEN net.rest ELSE GetAll
Ids == [k \in DOMAIN Entries |-> IdOf(Entries[k])]
Left == Only(Ids, DOMAIN msgs \ Taken)

(* What the abstract queue holds.                                          *)
LEMMA StoredIs ==
  /\ Stored = [k \in DOMAIN Left |-> [id |-> Left[k], dest |-> msgs[Left[k]].dest]]
  /\ Stored' = [k \in DOMAIN Left' |-> [id |-> Left'[k], dest |-> msgs'[Left'[k]].dest]]
BY DEF Stored, Left, Ids, Entries

(* The entries, and the messages they hold, in their order.                *)
LEMMA IdsFacts ==
  ASSUME Typed, Contents
  PROVE  /\ Ids \in Seq(Nat) /\ Entries \in Seq(Pair) /\ Len(Ids) = Len(Entries)
         /\ DOMAIN Entries = 1 .. Len(Entries) /\ Len(Entries) \in Nat
         /\ \A k \in 1 .. Len(Entries) :
              /\ Ids[k] = IdOf(Entries[k])
              /\ Ids[k] # Nobody <=> Valid(Entries[k])
              /\ Ids[k] # Nobody => Ids[k] = Num(Entries[k]) /\ Ids[k] \in 1 .. Enqueued
         /\ \A j, k \in 1 .. Len(Entries) :
              (j < k /\ Ids[j] # Nobody /\ Ids[k] # Nobody) => Ids[j] < Ids[k]
<1>1. Entries \in Seq(Pair) /\ Sorted(Entries) /\ UpTo(Entries, Enqueued)
  <2>1. CASE net.pc = "write"
    <3>1. net.rest \in Seq(Pair) /\ Sorted(net.rest) /\ UpTo(net.rest, Enqueued)
      BY <2>1 DEF Typed, Contents, Rewriting
    <3> QED BY <2>1, <3>1 DEF Entries
  <2>2. CASE net.pc # "write"
    <3>1. GetAll \in Seq(Pair) /\ Sorted(GetAll) /\ UpTo(GetAll, Enqueued)
      BY Lengths DEF Contents
    <3> QED BY <2>2, <3>1 DEF Entries
  <2> QED BY <2>1, <2>2
<1> DEFINE E == Entries
<1> HIDE DEF E
<1>2. E \in Seq(Pair) /\ DOMAIN E = 1 .. Len(E) /\ Len(E) \in Nat
  <2>1. E \in Seq(Pair)
    BY <1>1 DEF E
  <2> HIDE DEF Pair
  <2> QED BY <2>1
<1>3. \A e : IdOf(e) \in Nat
  <2>1. \A e : IdOf(e) \in 0 .. Len(msgs)
    BY IdOfFacts
  <2> QED BY <2>1, Lengths
<1>4. Ids = [k \in 1 .. Len(E) |-> IdOf(E[k])]
  BY <1>2 DEF Ids, E
<1>5. Ids \in Seq(Nat) /\ Len(Ids) = Len(E)
  BY <1>2, <1>3, <1>4
<1>6. ASSUME NEW k \in 1 .. Len(E)
      PROVE  /\ Ids[k] = IdOf(E[k])
             /\ Ids[k] # Nobody <=> Valid(E[k])
             /\ Ids[k] # Nobody => Ids[k] = Num(E[k]) /\ Ids[k] \in 1 .. Enqueued
  <2>1. Ids[k] = IdOf(E[k])
    BY <1>4
  <2>2. Valid(E[k]) => Num(E[k]) \in 1 .. Enqueued
    BY <1>1 DEF UpTo, E
  <2>3. Valid(E[k]) => Num(E[k]) \in 1 .. Len(msgs)
    BY <2>2, Lengths
  <2> QED BY <2>1, <2>2, <2>3, IdOfFacts
<1>7. \A j, k \in 1 .. Len(E) : (j < k /\ Ids[j] # Nobody /\ Ids[k] # Nobody) => Ids[j] < Ids[k]
  BY <1>1, <1>6 DEF Sorted, E
<1> QED BY <1>2, <1>5, <1>6, <1>7 DEF E

(* The queue holds messages, in their order; which ones.                   *)
LEMMA LeftFacts ==
  ASSUME Typed, Contents
  PROVE  /\ Left \in Seq(Nat) /\ DOMAIN Left = 1 .. Len(Left) /\ Len(Left) \in Nat
         /\ \A j \in 1 .. Len(Left) : Left[j] \in 1 .. Enqueued /\ Left[j] \notin Taken
         /\ \A j, k \in 1 .. Len(Left) : j < k => Left[j] < Left[k]
         /\ \A i : Has(Left, i) <=> /\ \E k \in 1 .. Len(Entries) : Valid(Entries[k]) /\ Num(Entries[k]) = i
                                    /\ i \notin Taken
<1> DEFINE S == DOMAIN msgs \ Taken
           L == Len(Entries)
<1>1. /\ Ids \in Seq(Nat) /\ Len(Ids) = L
      /\ \A k \in 1 .. L :
           /\ Ids[k] # Nobody <=> Valid(Entries[k])
           /\ Ids[k] # Nobody => Ids[k] = Num(Entries[k]) /\ Ids[k] \in 1 .. Enqueued
      /\ \A j, k \in 1 .. L :
           (j < k /\ Ids[j] # Nobody /\ Ids[k] # Nobody) => Ids[j] < Ids[k]
  BY IdsFacts
<1>2. \A i \in DOMAIN msgs : i # Nobody
  BY Lengths DEF Nobody
<1>3. \A i \in 1 .. Enqueued : i \in DOMAIN msgs
  BY Lengths
<1> HIDE DEF S, L
<1>4. /\ Left \in Seq(Nat)
      /\ \A j, k \in 1 .. Len(Left) :
           j < k => \E a, b \in 1 .. L : a < b /\ Left[j] = Ids[a] /\ Left[k] = Ids[b]
      /\ \A x : Has(Left, x) <=> (\E k \in 1 .. L : Ids[k] = x) /\ x \in S
  <2> DEFINE t == Only(Ids, S)
  <2>1. t \in Seq(Nat) /\ OrderedAs(t, Ids) /\ \A x : Has(t, x) <=> Has(Ids, x) /\ x \in S
    BY <1>1, OnlyProps
  <2>2. Left = t
    BY DEF Left, S
  <2> HIDE DEF t
  <2>3. \A x : Has(Ids, x) <=> \E k \in 1 .. L : Ids[k] = x
    BY <1>1 DEF Has
  <2>4. \A j, k \in 1 .. Len(t) :
           j < k => \E a, b \in 1 .. L : a < b /\ t[j] = Ids[a] /\ t[k] = Ids[b]
    BY <1>1, <2>1, Zenon DEF OrderedAs
  <2> QED BY <2>1, <2>2, <2>3, <2>4
<1>5. DOMAIN Left = 1 .. Len(Left) /\ Len(Left) \in Nat
  BY <1>4
<1>6. ASSUME NEW j \in 1 .. Len(Left)
      PROVE  Left[j] \in 1 .. Enqueued /\ Left[j] \notin Taken /\ Left[j] # Nobody
  <2>1. Has(Left, Left[j])
    BY DEF Has
  <2>2. Left[j] \in S /\ \E k \in 1 .. L : Ids[k] = Left[j]
    BY <1>4, <2>1
  <2> QED BY <1>1, <1>2, <2>2 DEF S
<1>7. \A j, k \in 1 .. Len(Left) : j < k => Left[j] < Left[k]
  BY <1>1, <1>4, <1>6
<1>8. ASSUME NEW i
      PROVE  Has(Left, i) <=> /\ \E k \in 1 .. L : Valid(Entries[k]) /\ Num(Entries[k]) = i
                              /\ i \notin Taken
  <2>1. ASSUME NEW k \in 1 .. L, Ids[k] = i, i \in S
        PROVE  Valid(Entries[k]) /\ Num(Entries[k]) = i
    BY <1>1, <1>2, <2>1 DEF S
  <2>2. ASSUME NEW k \in 1 .. L, Valid(Entries[k]), Num(Entries[k]) = i
        PROVE  Ids[k] = i /\ i \in DOMAIN msgs
    BY <1>1, <1>3, <2>2
  <2> QED BY <1>4, <2>1, <2>2 DEF S
<1> QED BY <1>4, <1>5, <1>6, <1>7, <1>8 DEF L

(* The steps that the queue does not show.                                 *)
LEMMA SameStored ==
  ASSUME Typed, Contents, Entries' = Entries, taken' = taken,
         DOMAIN msgs \subseteq DOMAIN msgs', Nobody \notin DOMAIN msgs',
         \A i \in DOMAIN msgs : msgs'[i] = msgs[i],
         msgs' # msgs => main.pc = "idle"
  PROVE  Stored' = Stored
<1> DEFINE L == Len(Entries)
           S == DOMAIN msgs \ Taken
           R == DOMAIN msgs' \ Taken
<1>1. /\ Ids \in Seq(Nat) /\ Len(Ids) = L /\ DOMAIN Entries = 1 .. L
      /\ \A k \in 1 .. L :
           /\ Ids[k] = IdOf(Entries[k])
           /\ Ids[k] # Nobody <=> Valid(Entries[k])
           /\ Ids[k] # Nobody => Ids[k] = Num(Entries[k]) /\ Ids[k] \in 1 .. Enqueued
  BY IdsFacts
<1>2. /\ \A i \in 1 .. Enqueued : i \in DOMAIN msgs /\ i \in DOMAIN msgs'
      /\ DOMAIN msgs = 1 .. Len(msgs) /\ Nobody \notin DOMAIN msgs
  BY Lengths DEF Nobody
<1>3. ASSUME NEW e, IdOf(e) # Nobody <=> Valid(e), Valid(e) => Num(e) \in 1 .. Enqueued
      PROVE  IdOf(e)' = IdOf(e)
  <2>1. CASE IdOf(e) # Nobody
    BY <2>1, IdOfStays
  <2>2. CASE IdOf(e) = Nobody
    <3>1. ~ \E i \in DOMAIN msgs' : e = EntryCells(i)
      BY <1>3, <2>2, EntryFacts
    <3> QED BY <2>2, <3>1 DEF IdOf
  <2> QED BY <2>1, <2>2
<1> HIDE DEF L
<1>4. Ids' = Ids
  <2>1. Ids' = [k \in 1 .. L |-> IdOf(Entries[k])']
    BY <1>1 DEF Ids
  <2>2. ASSUME NEW k \in 1 .. L PROVE IdOf(Entries[k])' = IdOf(Entries[k])
    <3>1. PICK e : e = Entries[k]
      OBVIOUS
    <3>2. IdOf(e)' = IdOf(e)
      <4>1. Valid(e) => Num(e) \in 1 .. Enqueued
        BY <1>1, <3>1
      <4>2. IdOf(e) # Nobody <=> Valid(e)
        BY <1>1, <3>1
      <4> QED BY <1>3, <4>1, <4>2
    <3>3. IdOf(Entries[k])' = IdOf(e)'
      BY <3>1 DEF IdOf
    <3> QED BY <3>1, <3>2, <3>3
  <2>3. Ids = [k \in 1 .. L |-> IdOf(Entries[k])]
    BY <1>1 DEF Ids
  <2> QED BY <2>1, <2>2, <2>3
<1>5. Taken' = Taken
  BY DEF Taken
<1>6. Left' = Left
  <2>1. Left' = Only(Ids, R)
    BY <1>4, <1>5 DEF Left
  <2>2. \A k \in 1 .. Len(Ids) : Ids[k] \in S <=> Ids[k] \in R
    BY <1>1, <1>2
  <2> HIDE DEF S, R
  <2>3. Only(Ids, S) = Only(Ids, R)
    BY <1>1, <2>2, OnlySame
  <2> QED BY <2>1, <2>3 DEF Left, S
<1>7. \A k \in DOMAIN Left : msgs'[Left[k]] = msgs[Left[k]]
  BY <1>2, LeftFacts
<1> QED BY <1>6, <1>7, StoredIs

(* The end of enqueue stores its message.                                  *)
LEMMA Stores ==
  ASSUME Inv, AppendEntry, ~ raced
  PROVE  /\ Stored' = Append(Stored, [id |-> Enqueued + 1, dest |-> msgs[Enqueued + 1].dest])
         /\ Enqueued' = Enqueued + 1 /\ taken' = taken
         /\ msgs[Enqueued + 1].dest \in Peer
<1> DEFINE i == Enqueued + 1
           x == Head9(i)
           y == Tail519(i)
<1>1. /\ main.pc = "bumped" /\ main' = MainIdle
      /\ UNCHANGED <<exists, up, net, msgs, taken, torn, raced, crashes>>
  BY DEF AppendEntry
<1>2. Typed /\ Contents /\ Fifo /\ Undisturbed
  BY DEF Inv
<1>3. /\ Enqueued \in Nat /\ i \in 1 .. Len(msgs) /\ i = main.id /\ DOMAIN msgs = 1 .. Len(msgs)
      /\ file \in Seq(Cell) /\ Len(msgs) <= MaxMsgs /\ GetAll \in Seq(Pair)
      /\ Len(msgs) \in Nat
  <2>1. main.id = Len(msgs) /\ Len(msgs) # 0 /\ Len(msgs) <= MaxMsgs /\ Len(msgs) = Enqueued + 1
    BY <1>1, <1>2, Lengths DEF Typed, Enqueued
  <2> QED BY <1>2, <2>1, Lengths
<1>4. x \in Cell /\ y \in Cell
  BY <1>3, ConstAssumption DEF Cell, Head9, Tail519, Unknown
<1>5. file # <<>> /\ Len(file) % 2 = 1 /\ net.pc # "write"
  BY <1>1, <1>2 DEF Undisturbed, Rewriting
<1>6. GetAll' = Append(GetAll, EntryCells(i)) /\ EntryCells(i) \in Pair
  <2> DEFINE g == file'
  <2> HIDE DEF g, x, y, Cell
  <2>1. AtEnd(g, file, x, y)
    BY <1>3 DEF AppendEntry, Appended, EntryCells, AtEnd, g, x, y
  <2>2. EntriesOf(g) = Append(EntriesOf(file), <<x, y>>)
    <3>1. \/ file = <<>> /\ EntriesOf(g) = EntriesOf(file)
          \/ /\ file # <<>> /\ \E c \in Cell : EntriesOf(g) = Append(EntriesOf(file), <<c, x>>)
             /\ Len(file) % 2 = 0
          \/ /\ file # <<>> /\ EntriesOf(g) = Append(EntriesOf(file), <<x, y>>)
             /\ Len(file) % 2 = 1
      BY <1>3, <1>4, <2>1, EntryAppended
    <3> QED BY <1>5, <3>1
  <2>3. <<x, y>> = EntryCells(i) /\ <<x, y>> \in Pair
    BY <1>4 DEF EntryCells, Pair, x, y
  <2> QED BY <2>2, <2>3, GetAllIs DEF g
<1>7. Entries = GetAll /\ Entries' = GetAll'
  BY <1>1, <1>5 DEF Entries
<1> HIDE DEF i, x, y
<1>8. /\ Ids \in Seq(Nat) /\ Len(Ids) = Len(GetAll) /\ DOMAIN GetAll = 1 .. Len(GetAll)
      /\ Len(GetAll) \in Nat /\ Ids = [k \in 1 .. Len(GetAll) |-> IdOf(GetAll[k])]
  BY <1>2, <1>7, IdsFacts DEF Ids
<1>9. Ids' = Append(Ids, i)
  <2> DEFINE F == GetAll'
             N == Len(GetAll)
  <2>1. /\ Len(F) = N + 1 /\ DOMAIN F = 1 .. N + 1 /\ F[N + 1] = EntryCells(i)
        /\ \A k \in 1 .. N : F[k] = GetAll[k]
    <3> HIDE DEF Pair
    <3>1. /\ F \in Seq(Pair) /\ Len(F) = N + 1 /\ F[N + 1] = EntryCells(i)
          /\ \A k \in 1 .. N : F[k] = GetAll[k]
      BY <1>3, <1>6, OneAppended
    <3> HIDE DEF F
    <3> QED BY <3>1
  <2>2. Ids' = [k \in 1 .. N + 1 |-> IdOf(GetAll[k])']
    BY <1>7, <2>1 DEF Ids
  <2>3. \A k : IdOf(GetAll[k])' = IdOf(F[k])
    BY <1>1 DEF IdOf
  <2>4. IdOf(EntryCells(i)) = i
    BY <1>2, <1>3, EntryFacts, IdOfFacts
  <2>5. \A k \in 1 .. N : IdOf(F[k]) = Ids[k]
    BY <1>8, <2>1
  <2> HIDE DEF F, N
  <2>6. Ids' = [k \in 1 .. N + 1 |-> IF k = N + 1 THEN i ELSE Ids[k]]
    <3>1. \A k \in 1 .. N + 1 : IdOf(F[k]) = IF k = N + 1 THEN i ELSE Ids[k]
      <4>1. \A k \in 1 .. N + 1 : k = N + 1 \/ k \in 1 .. N
        BY <1>8 DEF N
      <4> QED BY <2>1, <2>4, <2>5, <4>1
    <3> QED BY <2>2, <2>3, <3>1
  <2>7. i \in Nat
    BY <1>3
  <2>8. Append(Ids, i) = [k \in 1 .. N + 1 |-> IF k = N + 1 THEN i ELSE Ids[k]]
    BY <1>8, <2>7 DEF N
  <2> QED BY <2>6, <2>8
<1> DEFINE S == DOMAIN msgs \ Taken
           t == Left
<1>10. i \in S /\ i \in Nat
  <2>1. \A n \in DOMAIN taken : taken[n] \in 1 .. Enqueued
    BY <1>2, TakenType
  <2>2. \A n \in DOMAIN taken : taken[n] # i
    BY <1>3, <2>1 DEF i
  <2> QED BY <1>3, <2>2 DEF Taken, Range
<1>11. Left' = Append(t, i) /\ t \in Seq(Nat)
  <2>1. Left' = Only(Append(Ids, i), S)
    BY <1>1, <1>9 DEF Left, Taken
  <2> HIDE DEF S
  <2>2. Only(Append(Ids, i), S) = Append(Only(Ids, S), i)
    <3>1. Ids \in Seq(Nat) /\ i \in Nat /\ i \in S
      BY <1>8, <1>10 DEF S
    <3>2. Longer(Ids, i, S)
      BY <3>1, OnlyAppend, Zenon
    <3> QED BY <3>2, Zenon DEF Longer
  <2>3. Only(Ids, S) \in Seq(Nat)
    BY <1>8, OnlyProps
  <2> QED BY <2>1, <2>2, <2>3 DEF Left, S
<1> HIDE DEF t
<1>12. Stored' = Append(Stored, [id |-> i, dest |-> msgs[i].dest])
  <2> DEFINE rec(j) == [id |-> j, dest |-> msgs[j].dest]
             N == Len(t)
  <2>1. /\ N \in Nat /\ DOMAIN t = 1 .. N /\ DOMAIN Append(t, i) = 1 .. N + 1
        /\ Append(t, i)[N + 1] = i /\ \A k \in 1 .. N : Append(t, i)[k] = t[k]
    BY <1>10, <1>11
  <2>2. Stored = [k \in 1 .. N |-> rec(t[k])]
    BY <2>1, StoredIs DEF t
  <2>3. Stored' = [k \in 1 .. N + 1 |-> rec(Append(t, i)[k])]
    <3>1. DOMAIN Left' = 1 .. N + 1
      BY <1>11, <2>1
    <3> QED BY <1>1, <1>11, <3>1, StoredIs
  <2> HIDE DEF N, rec
  <2>4. \A k \in 1 .. N + 1 : rec(Append(t, i)[k]) = IF k = N + 1 THEN rec(i) ELSE rec(t[k])
    <3>1. \A k \in 1 .. N + 1 : k = N + 1 \/ k \in 1 .. N
      BY <2>1
    <3> QED BY <2>1, <3>1
  <2>5. Stored' = Append(Stored, rec(i))
    <3> DEFINE q == [k \in 1 .. N |-> rec(t[k])]
    <3>1. /\ Append(q, rec(i)) = [k \in 1 .. N + 1 |-> IF k = N + 1 THEN rec(i) ELSE q[k]]
      BY <2>1
    <3>2. \A k \in 1 .. N + 1 : k = N + 1 \/ (k \in 1 .. N /\ q[k] = rec(t[k]))
      BY <2>1
    <3> HIDE DEF q
    <3>3. Stored' = [k \in 1 .. N + 1 |-> IF k = N + 1 THEN rec(i) ELSE q[k]]
      BY <2>3, <2>4, <3>2
    <3> QED BY <2>2, <3>1, <3>3 DEF q
  <2> QED BY <2>5 DEF rec
<1>13. Enqueued' = Enqueued + 1
  <2>1. main'.pc = "idle"
    BY <1>1 DEF MainIdle
  <2>2. Len(msgs) = Enqueued + 1
    BY <1>1, <1>3 DEF Enqueued
  <2> QED BY <1>1, <2>1, <2>2 DEF Enqueued
<1>14. msgs[i].dest \in Peer
  <2> DEFINE M == [dest : Peer, key : Key]
  <2>1. msgs \in Seq(M)
    BY <1>2 DEF Typed, TypeOK
  <2> HIDE DEF M
  <2>2. msgs[i] \in M
    BY <1>3, <2>1
  <2> QED BY <2>2 DEF M
<1> QED BY <1>1, <1>12, <1>13, <1>14 DEF i

(* If one message leaves the queue, so does its entry.                     *)
LEMMA OneLess ==
  ASSUME Typed, Contents, NEW k \in 1 .. Len(Left), TakenOut(Left', Left, k), msgs' = msgs
  PROVE  Stored' = RemoveAt(Stored, k)
<1> DEFINE t == Left
           u == Left'
           N == Len(t)
           rec(j) == [id |-> j, dest |-> msgs[j].dest]
           q == [j \in 1 .. N |-> rec(t[j])]
           R == {rec(j) : j \in Nat}
<1>1. t \in Seq(Nat) /\ N \in Nat /\ DOMAIN t = 1 .. N
  BY LeftFacts
<1>2. u = RemoveAt(t, k)
  BY DEF TakenOut
<1> HIDE DEF t, u
<1>3. /\ u \in Seq(Nat) /\ Len(u) = N - 1
      /\ \A j \in 1 .. N - 1 : u[j] = IF j < k THEN t[j] ELSE t[j + 1]
  <2>1. k \in 1 .. Len(t)
    BY DEF t
  <2> QED BY <1>1, <1>2, <2>1, Removed
<1>4. Stored = q
  BY <1>1, StoredIs DEF t
<1>5. Stored' = [j \in 1 .. N - 1 |-> rec(u[j])]
  <2>1. DOMAIN u = 1 .. N - 1
    BY <1>3
  <2> QED BY <2>1, StoredIs DEF u
<1> HIDE DEF N, rec
<1>6. q \in Seq(R) /\ Len(q) = N
  <2>1. \A j \in 1 .. N : rec(t[j]) \in R
    BY <1>1
  <2> HIDE DEF R
  <2> QED BY <1>1, <2>1
<1> HIDE DEF R
<1>7. /\ RemoveAt(q, k) \in Seq(R) /\ Len(RemoveAt(q, k)) = N - 1
      /\ \A j \in 1 .. N - 1 : RemoveAt(q, k)[j] = IF j < k THEN q[j] ELSE q[j + 1]
  <2>1. k \in 1 .. Len(q)
    BY <1>6 DEF N, t
  <2> HIDE DEF q
  <2> QED BY <1>6, <2>1, Removed
<1>8. \A j \in 1 .. N - 1 : rec(u[j]) = IF j < k THEN q[j] ELSE q[j + 1]
  <2>1. \A j \in 1 .. N - 1 : j \in 1 .. N /\ j + 1 \in 1 .. N
    BY <1>1
  <2> QED BY <1>3, <2>1
<1> DEFINE r == RemoveAt(q, k)
<1>9. r \in Seq(R) /\ Len(r) = N - 1 /\ \A j \in 1 .. N - 1 : r[j] = rec(u[j])
  BY <1>7, <1>8
<1> HIDE DEF r, q
<1>10. r = [j \in 1 .. N - 1 |-> rec(u[j])]
  BY <1>9
<1> QED BY <1>4, <1>5, <1>10 DEF r, q

(* The entries do not change although the list of them is the one in       *)
(* memory from here on: the entry it lacks was handed on before.           *)
LEMMA TruncateHidden ==
  ASSUME Inv, Truncate, ~ raced
  PROVE  Stored' = Stored
<1> DEFINE E == GetAll
           r == net.rest
           h == Num(net.todo[1])
           S == DOMAIN msgs \ Taken
<1>1. /\ net.pc = "trunc" /\ net' = [net EXCEPT !.pc = "write"]
      /\ UNCHANGED <<exists, up, main, msgs, accepted, taken, torn, raced, crashes>>
  BY DEF Truncate
<1>2. Typed /\ Contents /\ Fifo /\ Undisturbed /\ Agenda
  BY DEF Inv
<1>3. net'.pc = "write" /\ net'.rest = r
  BY <1>1, <1>2 DEF Typed, TypeOK
<1>4. PICK k \in 1 .. Len(E) : E[k] = net.todo[1] /\ r = RemoveAt(E, k)
  BY <1>1, <1>2 DEF Undisturbed
<1>5. Entries = E /\ Entries' = r
  BY <1>1, <1>3 DEF Entries
<1> HIDE DEF E, r
<1>6. /\ Ids \in Seq(Nat) /\ E \in Seq(Pair) /\ Len(Ids) = Len(E) /\ Len(E) \in Nat
      /\ \A j \in 1 .. Len(E) :
           /\ Ids[j] = IdOf(E[j])
           /\ Ids[j] # Nobody <=> Valid(E[j])
           /\ Ids[j] # Nobody => Ids[j] = Num(E[j])
  BY <1>2, <1>5, IdsFacts
<1>7. /\ r \in Seq(Pair) /\ Len(r) = Len(E) - 1
      /\ \A j \in 1 .. Len(E) - 1 : r[j] = IF j < k THEN E[j] ELSE E[j + 1]
  <2> HIDE DEF Pair
  <2> QED BY <1>4, <1>6, Removed
<1>8. Ids' = [j \in 1 .. Len(E) - 1 |-> IdOf(r[j])]
  <2>1. DOMAIN r = 1 .. Len(E) - 1
    <3> HIDE DEF Pair
    <3> QED BY <1>7
  <2>2. Ids' = [j \in DOMAIN r |-> IdOf(r[j])]
    BY <1>1, <1>5 DEF Ids, IdOf
  <2> QED BY <2>1, <2>2
<1>9. Ids' = RemoveAt(Ids, k)
  <2> DEFINE d == Ids
             u == RemoveAt(d, k)
  <2> HIDE DEF d
  <2>1. d \in Seq(Nat) /\ k \in 1 .. Len(d) /\ Len(d) = Len(E)
    BY <1>6 DEF d
  <2>2. /\ u \in Seq(Nat) /\ Len(u) = Len(E) - 1
        /\ \A j \in 1 .. Len(E) - 1 : u[j] = IF j < k THEN d[j] ELSE d[j + 1]
    BY <2>1, Removed
  <2>3. \A j \in 1 .. Len(E) - 1 : j \in 1 .. Len(E) /\ j + 1 \in 1 .. Len(E)
    BY <1>6
  <2>4. \A j \in 1 .. Len(E) - 1 : IdOf(r[j]) = IF j < k THEN d[j] ELSE d[j + 1]
    BY <1>6, <1>7, <2>3 DEF d
  <2> HIDE DEF u
  <2>5. \A j \in 1 .. Len(E) - 1 : u[j] = IdOf(r[j])
    BY <2>2, <2>4
  <2>6. u = [j \in 1 .. Len(E) - 1 |-> IdOf(r[j])]
    <3>1. u = [j \in 1 .. Len(E) - 1 |-> u[j]]
      BY <2>2
    <3> QED BY <2>5, <3>1, Zenon
  <2> QED BY <1>8, <2>6 DEF u, d
<1>10. Ids[k] = h /\ h \in Taken
  <2>1. h \in Taken
    BY <1>1, <1>2 DEF Fifo
  <2>2. net.pc # "idle"
    BY <1>1
  <2>3. Valid(net.todo[1])
    BY <1>2, <2>2, TodoFacts
  <2> QED BY <1>4, <1>6, <2>1, <2>3
<1>11. Left' = Left
  <2> HIDE DEF S
  <2>1. Left' = Only(RemoveAt(Ids, k), S)
    BY <1>1, <1>9 DEF Left, Taken, S
  <2>2. Ids[k] \notin S
    BY <1>10 DEF S
  <2>3. k \in 1 .. Len(Ids) /\ Ids \in Seq(Nat)
    BY <1>6
  <2>4. Only(RemoveAt(Ids, k), S) = Only(Ids, S)
    BY <2>2, <2>3, OnlySkip, Zenon
  <2> QED BY <2>1, <2>4 DEF Left, S
<1> QED BY <1>1, <1>11, StoredIs

(* The file holds again what was in memory.                                *)
LEMMA RewriteHidden ==
  ASSUME Inv, Rewrite, ~ raced
  PROVE  Stored' = Stored
<1>1. /\ net.pc = "write" /\ net' = NextEntry
      /\ UNCHANGED <<exists, up, main, msgs, accepted, taken, torn, raced, crashes>>
  BY DEF Rewrite
<1>2. Typed /\ Contents /\ Undisturbed
  BY DEF Inv
<1>3. net'.pc # "write"
  BY <1>1 DEF NextEntry, NetIdle
<1>4. GetAll' = net.rest
  <2>1. file = <<>>
    BY <1>1, <1>2 DEF Undisturbed
  <2> QED BY <1>2, <2>1, Rewritten
<1>5. Entries' = Entries
  BY <1>1, <1>3, <1>4 DEF Entries
<1>6. Nobody \notin DOMAIN msgs
  BY <1>2, Lengths DEF Nobody
<1> QED BY <1>1, <1>2, <1>5, <1>6, SameStored

(* An entry is sent: it is the oldest of its peer that waits, it waits no  *)
(* more, and it waited once only.                                          *)
LEMMA Forwards ==
  ASSUME Inv, SendPacket, crashes = 0
  PROVE  \E k \in 1 .. Len(Left) :
           /\ TakenOut(Left', Left, k) /\ taken' = Append(taken, Left[k])
           /\ msgs[Left[k]].dest \in Peer
           /\ \A j \in 1 .. k - 1 : msgs[Left[j]].dest # msgs[Left[k]].dest
<1> DEFINE E == GetAll
           h == Num(net.todo[1])
           S == DOMAIN msgs \ Taken
<1>1. /\ net.pc = "send" /\ taken' = Append(taken, IdOf(Head(net.todo)))
      /\ net' = [net EXCEPT !.pc = "find"]
      /\ UNCHANGED <<file, exists, up, main, msgs, accepted, torn, raced, crashes>>
  BY DEF SendPacket
<1>2. Typed /\ Contents /\ Agenda /\ Fifo
  BY DEF Inv
<1>3. net'.pc = "find" /\ net.pc # "idle" /\ net.pc # "write" /\ ~ Rewriting
  BY <1>1, <1>2 DEF Typed, TypeOK, Rewriting
<1>4. Entries = E /\ Entries' = E
  BY <1>1, <1>3 DEF Entries, GetAll
<1>5. /\ h \in 1 .. Enqueued /\ h \in 1 .. Len(msgs) /\ IdOf(Head(net.todo)) = h
      /\ 1 \in 1 .. Len(net.todo) /\ Valid(net.todo[1])
      /\ \A j \in 1 .. Len(net.todo) : Num(net.todo[j]) \in 1 .. Enqueued
      /\ \A j, k \in 1 .. Len(net.todo) : j < k => Num(net.todo[j]) < Num(net.todo[k])
      /\ Len(net.todo) \in Nat
  BY <1>2, <1>3, TodoFacts
<1>6. Covers(1, E)
  BY <1>2, <1>3 DEF Agenda
<1>7. /\ Ids \in Seq(Nat) /\ Len(Ids) = Len(E)
      /\ \A k \in 1 .. Len(E) :
           /\ Ids[k] = IdOf(E[k])
           /\ Ids[k] # Nobody <=> Valid(E[k])
           /\ Ids[k] # Nobody => Ids[k] = Num(E[k])
      /\ \A j, k \in 1 .. Len(E) : (j < k /\ Ids[j] # Nobody /\ Ids[k] # Nobody) => Ids[j] < Ids[k]
  BY <1>2, <1>4, IdsFacts
<1>8. /\ Left \in Seq(Nat) /\ Len(Left) \in Nat
      /\ \A j \in 1 .. Len(Left) : Left[j] \in 1 .. Enqueued
      /\ \A j, k \in 1 .. Len(Left) : j < k => Left[j] < Left[k]
      /\ \A i : Has(Left, i) <=> /\ \E k \in 1 .. Len(E) : Valid(E[k]) /\ Num(E[k]) = i
                                 /\ i \notin Taken
  BY <1>2, <1>4, LeftFacts
<1> HIDE DEF E, h
<1>9. PICK k0 \in 1 .. Len(E) : E[k0] = EntryCells(h)
  BY <1>5, <1>6 DEF Covers, Holds, h
<1>10. Valid(E[k0]) /\ Num(E[k0]) = h
  BY <1>9, EntryFacts
<1>11. h \notin Taken
  <2> SUFFICES ASSUME NEW n \in DOMAIN taken, taken[n] = h PROVE FALSE
    BY DEF Taken, Range
  <2>1. After(E[k0], FALSE)
    BY <1>1, <1>2 DEF Fifo, E
  <2>2. msgs[taken[n]].dest = msgs[Num(E[k0])].dest
    BY <1>10
  <2> QED BY <1>10, <2>1, <2>2 DEF After
<1>12. PICK k \in 1 .. Len(Left) : Left[k] = h
  BY <1>8, <1>10, <1>11 DEF Has
<1>13. ASSUME NEW j \in 1 .. k - 1 PROVE msgs[Left[j]].dest # msgs[Left[k]].dest
  <2>1. j \in 1 .. Len(Left) /\ j < k
    BY <1>8
  <2>2. Left[j] < h /\ Has(Left, Left[j])
    BY <1>8, <1>12, <2>1 DEF Has
  <2>3. PICK m \in 1 .. Len(E) : Valid(E[m]) /\ Num(E[m]) = Left[j]
    BY <1>8, <2>2
  <2>4. CASE ToPeer(E[m])
    <3>1. \/ \E i \in 1 .. Len(net.todo) : net.todo[i] = E[m]
          \/ \A i \in 1 .. Len(net.todo) : Num(net.todo[i]) < Num(E[m])
      BY <1>6, <2>4 DEF Covers
    <3>2. Left[j] \in Int /\ h \in Int
      BY <1>5, <1>8, <2>1
    <3>3. ASSUME NEW i \in 1 .. Len(net.todo), net.todo[i] = E[m] PROVE FALSE
      <4>1. Num(net.todo[i]) = Left[j]
        BY <2>3, <3>3
      <4>2. i = 1 \/ 1 < i
        OBVIOUS
      <4>3. h <= Num(net.todo[i])
        BY <1>5, <4>2 DEF h
      <4> QED BY <2>2, <3>2, <4>1, <4>3
    <3>4. CASE \A i \in 1 .. Len(net.todo) : Num(net.todo[i]) < Num(E[m])
      <4>1. h < Left[j]
        BY <1>5, <2>3, <3>4 DEF h
      <4> QED BY <2>2, <3>2, <4>1
    <3> QED BY <3>1, <3>3, <3>4
  <2>5. CASE ~ ToPeer(E[m])
    BY <1>12, <2>3, <2>5 DEF ToPeer, h
  <2> QED BY <2>4, <2>5
<1>14. TakenOut(Left', Left, k)
  <2>1. Taken' = Taken \cup {h}
    <3> DEFINE T == 1 .. Enqueued
               u == Append(taken, h)
               N == Len(taken)
    <3>1. taken \in Seq(T) /\ h \in T
      BY <1>2, <1>5, TakenType
    <3>2. taken' = u
      BY <1>1, <1>5
    <3> HIDE DEF T
    <3>3. /\ DOMAIN taken = 1 .. N /\ DOMAIN u = 1 .. N + 1 /\ N \in Nat
          /\ u[N + 1] = h /\ \A n \in 1 .. N : u[n] = taken[n]
      BY <3>1
    <3> HIDE DEF u, N
    <3>4. \A n \in 1 .. N + 1 : n \in 1 .. N \/ n = N + 1
      BY <3>3
    <3>5. \A n \in 1 .. N : n \in 1 .. N + 1
      BY <3>3
    <3>6. N + 1 \in 1 .. N + 1
      BY <3>3
    <3>7. Taken = {taken[n] : n \in 1 .. N} /\ Taken' = {u[n] : n \in 1 .. N + 1}
      BY <3>2, <3>3 DEF Taken, Range
    <3> QED BY <3>3, <3>4, <3>5, <3>6, <3>7
  <2>2. Ids' = Ids
    BY <1>1, <1>4 DEF Ids, IdOf
  <2>3. Left' = Only(Ids, S \ {h})
    <3>1. DOMAIN msgs' \ Taken' = S \ {h}
      BY <1>1, <2>1
    <3> QED BY <2>2, <3>1 DEF Left
  <2>4. \A i, j \in 1 .. Len(Ids) : (Ids[i] = h /\ Ids[j] = h) => i = j
    <3>1. h # Nobody /\ h \in Nat
      BY <1>5 DEF Nobody
    <3>2. \A i, j \in 1 .. Len(Ids) : i < j \/ j < i \/ i = j
      OBVIOUS
    <3> QED BY <1>7, <3>1, <3>2
  <2>5. Left = Only(Ids, S)
    BY DEF Left
  <2> HIDE DEF S
  <2>6. TakenOut(Only(Ids, S \ {h}), Only(Ids, S), k)
    <3>1. k \in 1 .. Len(Only(Ids, S)) /\ Only(Ids, S)[k] = h /\ Ids \in Seq(Nat)
      BY <1>7, <1>12, <2>5
    <3> QED BY <2>4, <3>1, OnlyLess, Zenon
  <2> QED BY <2>3, <2>5, <2>6, Zenon
<1>15. msgs[h].dest \in Peer
  <2> DEFINE M == [dest : Peer, key : Key]
  <2>1. msgs \in Seq(M)
    BY <1>2 DEF Typed, TypeOK
  <2> HIDE DEF M
  <2>2. msgs[h] \in M
    BY <1>5, <2>1
  <2> QED BY <2>2 DEF M
<1> QED BY <1>1, <1>5, <1>12, <1>13, <1>14, <1>15

(* What the queue holds and what was handed on are all messages enqueued:  *)
(* an entry gets the next number when it is stored.                        *)
Sum == (crashes = 0 /\ ~ raced) => Len(Stored) + Len(taken) = Enqueued

(* The steps the queue does not show.                                      *)
Hidden == Stored' = Stored /\ taken' = taken /\ Enqueued' = Enqueued

(* A step that leaves what get_all returns alone does not change the       *)
(* queue.                                                                  *)
LEMMA QuietHidden ==
  ASSUME Typed, Contents, GetAll' = GetAll, taken' = taken, msgs' = msgs,
         main'.pc = "idle" <=> main.pc = "idle", net.pc # "write", net'.pc # "write"
  PROVE  Hidden
<1>1. Entries' = Entries
  BY DEF Entries
<1>2. Nobody \notin DOMAIN msgs
  BY Lengths DEF Nobody
<1>3. Stored' = Stored
  BY <1>1, <1>2, SameStored
<1> QED BY <1>3 DEF Hidden, Enqueued

(* Every step but the end of enqueue and send_packet leaves the queue as   *)
(* it is.                                                                  *)
LEMMA StepHidden ==
  ASSUME Inv, [Next]_vars, ~ AppendEntry, ~ SendPacket, ~ Crash, ~ raced
  PROVE  Hidden
<1>1. Typed /\ Contents /\ Undisturbed
  BY DEF Inv
<1>2. file' = file => GetAll' = GetAll
  BY DEF GetAll
<1>3. Nobody \notin DOMAIN msgs
  BY <1>1, Lengths DEF Nobody
<1>4. ASSUME Entries' = Entries, taken' = taken, msgs' = msgs,
             main'.pc = "idle" <=> main.pc = "idle"
      PROVE  Hidden
  <2>1. Stored' = Stored
    BY <1>1, <1>3, <1>4, SameStored
  <2> QED BY <1>4, <2>1 DEF Hidden, Enqueued
<1>5. (GetAll' = GetAll /\ net'.pc = net.pc /\ net'.rest = net.rest) => Entries' = Entries
  BY DEF Entries
<1>6. CASE Start
  BY <1>2, <1>4, <1>5, <1>6 DEF Start
<1>7. CASE CreateHeader
  <2>1. up = "creating" /\ file' = <<Hdr(0)>> /\ UNCHANGED <<main, net, msgs, taken>>
    BY <1>7 DEF CreateHeader
  <2>2. file = <<>>
    BY <1>1, <2>1 DEF Typed
  <2>3. HeaderOver(file', file, Hdr(0))
    BY <2>1, <2>2 DEF HeaderOver
  <2>4. Hdr(0) \in Cell
    <3>1. 0 \in Unknown .. MaxMsgs
      BY ConstAssumption DEF Unknown
    <3> QED BY <3>1 DEF Hdr, Cell
  <2>5. EntriesOf(file') = EntriesOf(file)
    <3> DEFINE g == file'
               c == Hdr(0)
    <3>1. file \in Seq(Cell) /\ c \in Cell /\ HeaderOver(g, file, c)
      BY <1>1, <2>3, <2>4, Lengths
    <3> HIDE DEF g, c, Cell
    <3>2. EntriesOf(g) = EntriesOf(file)
      BY <3>1, HeaderWritten
    <3> QED BY <3>2 DEF g
  <2>6. GetAll' = GetAll
    BY <2>5, GetAllIs
  <2> QED BY <1>4, <1>5, <2>1, <2>6
<1>8. ASSUME NEW p \in Peer, NEW k \in Key, OpenForAppend(p, k) PROVE Hidden
  <2> DEFINE m == [dest |-> p, key |-> k]
             M == [dest : Peer, key : Key]
             L == Len(msgs)
  <2>1. /\ main.pc = "idle" /\ msgs' = Append(msgs, m)
        /\ main' = [MainIdle EXCEPT !.pc = "opened", !.id = L + 1]
        /\ UNCHANGED <<file, net, taken>>
    BY <1>8 DEF OpenForAppend
  <2>2. msgs \in Seq(M) /\ m \in M
    BY <1>1 DEF Typed, TypeOK
  <2>3. /\ Len(msgs') = L + 1 /\ L \in Nat /\ DOMAIN msgs = 1 .. L /\ DOMAIN msgs' = 1 .. L + 1
        /\ \A i \in 1 .. L : msgs'[i] = msgs[i]
    <3> HIDE DEF m, M
    <3>1. /\ msgs' \in Seq(M) /\ Len(msgs') = L + 1 /\ L \in Nat
          /\ \A i \in 1 .. L : msgs'[i] = msgs[i]
      BY <2>1, <2>2, OneAppended
    <3> QED BY <2>2, <3>1
  <2> HIDE DEF L
  <2>4. /\ DOMAIN msgs \subseteq DOMAIN msgs' /\ Nobody \notin DOMAIN msgs'
        /\ \A i \in DOMAIN msgs : msgs'[i] = msgs[i]
    BY <2>3 DEF Nobody
  <2>5. Stored' = Stored
    <3>1. Entries' = Entries
      BY <1>2, <1>5, <2>1
    <3> QED BY <1>1, <2>1, <2>4, <3>1, SameStored
  <2>6. main'.pc = "opened"
    BY <2>1 DEF MainIdle
  <2>7. Enqueued = L /\ Enqueued' = L
    BY <2>1, <2>3, <2>6 DEF Enqueued, L
  <2> QED BY <2>1, <2>5, <2>7 DEF Hidden
<1>9. CASE ReadHeader
  <2>1. /\ main.pc = "opened" /\ main'.pc = "counted" /\ UNCHANGED <<file, net, msgs, taken>>
    BY <1>1, <1>9 DEF ReadHeader, Typed, TypeOK
  <2> QED BY <1>2, <1>4, <1>5, <2>1
<1>10. CASE WriteHeader
  <2> DEFINE c == CountRaised(main.count)
  <2>1. /\ main.pc = "counted" /\ file' = Overlay(<<Hdr(c)>>) /\ UNCHANGED <<net, msgs, taken>>
        /\ main'.pc = "bumped"
    BY <1>1, <1>10 DEF WriteHeader, Typed, TypeOK
  <2>2. Hdr(c) \in Cell
    <3>1. main.count \in Unknown .. MaxMsgs /\ main.count <= Enqueued
      BY <1>1, <2>1 DEF Typed, TypeOK
    <3>2. Enqueued \in Nat /\ Len(msgs) = Enqueued + 1 /\ Len(msgs) <= MaxMsgs
      BY <1>1, <2>1, Lengths DEF Enqueued, Typed
    <3>3. c \in Unknown .. MaxMsgs
      BY <3>1, <3>2, ConstAssumption DEF CountRaised, Unknown
    <3> QED BY <3>3 DEF Hdr, Cell
  <2> HIDE DEF c
  <2>3. HeaderOver(file', file, Hdr(c))
    <3>1. Len(<<Hdr(c)>>) = 1
      OBVIOUS
    <3> QED BY <2>1, <3>1 DEF Overlay, HeaderOver
  <2>4. EntriesOf(file') = EntriesOf(file)
    <3> DEFINE g == file'
               d == Hdr(c)
    <3>1. file \in Seq(Cell) /\ d \in Cell /\ HeaderOver(g, file, d)
      BY <1>1, <2>2, <2>3, Lengths
    <3> HIDE DEF g, d, Cell
    <3>2. EntriesOf(g) = EntriesOf(file)
      BY <3>1, HeaderWritten
    <3> QED BY <3>2 DEF g
  <2>5. GetAll' = GetAll
    BY <2>4, GetAllIs
  <2> QED BY <1>4, <1>5, <2>1, <2>5
<1>11. ASSUME NEW p \in Peer, HearPeer(p) PROVE Hidden
  <2>1. /\ net.pc = "idle" /\ net'.pc = "send" /\ UNCHANGED <<file, main, msgs, taken>>
    BY <1>11 DEF HearPeer, NetIdle
  <2> QED BY <1>1, <1>2, <2>1, QuietHidden
<1>12. CASE FindEntry
  <2>1. /\ net.pc = "find" /\ UNCHANGED <<file, main, msgs, taken>>
    BY <1>12 DEF FindEntry
  <2>2. net'.pc # "write"
    <3> DEFINE i == IdOf(Head(net.todo))
    <3>1. net' = IF Filtered(i) = GetAll THEN NextEntry
                 ELSE [net EXCEPT !.pc = "trunc", !.rest = Filtered(i)]
      BY <1>12 DEF FindEntry
    <3> HIDE DEF i
    <3>2. NextEntry.pc # "write"
      BY DEF NextEntry, NetIdle
    <3>3. [net EXCEPT !.pc = "trunc", !.rest = Filtered(i)].pc = "trunc"
      BY <1>1 DEF Typed, TypeOK
    <3> QED BY <3>1, <3>2, <3>3
  <2> QED BY <1>1, <1>2, <2>1, <2>2, QuietHidden
<1>13. CASE Truncate
  <2>1. Stored' = Stored
    BY <1>13, TruncateHidden
  <2> QED BY <1>13, <2>1 DEF Truncate, Hidden, Enqueued
<1>14. CASE Rewrite
  <2>1. Stored' = Stored
    BY <1>14, RewriteHidden
  <2> QED BY <1>14, <2>1 DEF Rewrite, Hidden, Enqueued
<1>15. CASE UNCHANGED vars
  BY <1>2, <1>4, <1>5, <1>15 DEF vars
<1> QED BY <1>6, <1>7, <1>8, <1>9, <1>10, <1>11, <1>12, <1>13, <1>14, <1>15
        DEF Next, Enqueue, Handle

(* The queue lists the messages of Left.                                   *)
LEMMA StoredFacts ==
  ASSUME Typed, Contents
  PROVE  /\ Len(Stored) = Len(Left) /\ Len(Left) \in Nat /\ DOMAIN Stored = 1 .. Len(Left)
         /\ \A j \in 1 .. Len(Left) : Stored[j].id = Left[j] /\ Stored[j].dest = msgs[Left[j]].dest
<1>1. DOMAIN Left = 1 .. Len(Left) /\ Len(Left) \in Nat
  BY LeftFacts
<1>2. Stored = [j \in 1 .. Len(Left) |-> [id |-> Left[j], dest |-> msgs[Left[j]].dest]]
  BY <1>1, StoredIs
<1> QED BY <1>1, <1>2

(* Crashes and races are not undone.                                       *)
LEMMA Quiet ==
  ASSUME Inv, [Next]_vars, crashes' = 0, ~ raced'
  PROVE  crashes = 0 /\ ~ raced /\ ~ Crash
<1>1. crashes \in Nat
  BY ConstAssumption DEF Inv, Typed, TypeOK
<1>2. ASSUME Crash PROVE FALSE
  <2>1. crashes' = crashes + 1
    BY <1>2 DEF Crash
  <2> QED BY <1>1, <2>1
<1>3. crashes' = crashes
  BY <1>2 DEF Next, vars, Enqueue, Handle, Start, CreateHeader, OpenForAppend, ReadHeader,
     WriteHeader, AppendEntry, HearPeer, SendPacket, FindEntry, Truncate, Rewrite
<1>4. raced => raced'
  <2>1. CASE \E p \in Peer, k \in Key : OpenForAppend(p, k)
    BY <2>1, Zenon DEF OpenForAppend
  <2>2. CASE FindEntry
    BY <2>2, Zenon DEF FindEntry
  <2>3. CASE ~ (\E p \in Peer, k \in Key : OpenForAppend(p, k)) /\ ~ FindEntry
    BY <1>2, <2>3 DEF Next, vars, Enqueue, Handle, Start, CreateHeader, ReadHeader,
       WriteHeader, AppendEntry, HearPeer, SendPacket, Truncate, Rewrite
  <2> QED BY <2>1, <2>2, <2>3, Zenon
<1> QED BY <1>2, <1>3, <1>4

(* A step that is not hidden stores or forwards.                           *)
LEMMA Cases ==
  ASSUME Inv, Sum, [Next]_vars, crashes' = 0, ~ raced'
  PROVE  /\ Sum'
         /\ [Abstract!Next]_<<Stored, taken>>
<1>1. crashes = 0 /\ ~ raced /\ ~ Crash
  BY Quiet
<1>2. Typed /\ Contents /\ Fifo
  BY DEF Inv
<1>5. Len(Stored) + Len(taken) = Enqueued
  BY <1>1 DEF Sum
<1>6. /\ Len(Stored) = Len(Left) /\ Len(Left) \in Nat /\ DOMAIN Stored = 1 .. Len(Left)
      /\ \A j \in 1 .. Len(Left) : Stored[j].id = Left[j] /\ Stored[j].dest = msgs[Left[j]].dest
  BY <1>2, StoredFacts
<1>8. taken \in Seq(1 .. Enqueued) /\ Len(taken) \in Nat /\ Enqueued \in Nat
  BY <1>2, TakenType, Lengths
<1>9. CASE AppendEntry
  <2> DEFINE i == Enqueued + 1
             x == [id |-> i, dest |-> msgs[i].dest]
  <2>1. Stored' = Append(Stored, x) /\ Enqueued' = i /\ taken' = taken /\ msgs[i].dest \in Peer
    BY <1>1, <1>9, Stores
  <2>2. i = Len(Stored) + Len(taken) + 1
    BY <1>5, <1>6, <1>8
  <2>3. Abstract!Store(msgs[i].dest)
    BY <2>1, <2>2 DEF Abstract!Store
  <2>4. Len(Stored') = Len(Stored) + 1
    <3> DEFINE q == Stored
    <3>1. q = [j \in 1 .. Len(Left) |-> q[j]]
      BY <1>6, StoredIs
    <3> QED BY <1>6, <2>1
  <2>5. Len(Stored') + Len(taken') = Enqueued'
    <3> DEFINE a == Len(Stored)
               b == Len(taken)
               c == Enqueued
               d == Len(Stored')
               e == Len(taken')
               f == Enqueued'
    <3>1. a + b = c /\ a \in Nat /\ b \in Nat /\ c \in Nat /\ d = a + 1 /\ e = b /\ f = c + 1
      BY <1>5, <1>6, <1>8, <2>1, <2>4
    <3> HIDE DEF a, b, c, d, e, f
    <3>2. d + e = f
      BY <3>1
    <3> QED BY <3>2 DEF d, e, f
  <2> QED BY <2>1, <2>3, <2>5 DEF Abstract!Next, Sum
<1>10. CASE SendPacket
  <2>1. PICK k \in 1 .. Len(Left) :
           /\ TakenOut(Left', Left, k) /\ taken' = Append(taken, Left[k])
           /\ msgs[Left[k]].dest \in Peer
           /\ \A j \in 1 .. k - 1 : msgs[Left[j]].dest # msgs[Left[k]].dest
    BY <1>1, <1>10, Forwards
  <2>2. msgs' = msgs /\ Enqueued' = Enqueued
    BY <1>10 DEF SendPacket, Enqueued
  <2>3. Stored' = RemoveAt(Stored, k)
    BY <1>2, <2>1, <2>2, OneLess
  <2>4. Abstract!Forward(msgs[Left[k]].dest)
    <3>1. \A j \in 1 .. k - 1 : j \in 1 .. Len(Left)
      BY <1>6
    <3> QED BY <1>6, <2>1, <2>3, <3>1 DEF Abstract!Forward, RemoveAt, Abstract!RemoveAt
  <2>5. Len(Stored') = Len(Stored) - 1
    <3> DEFINE t == Stored
               T == {t[j] : j \in 1 .. Len(Left)}
    <3>1. t \in Seq(T) /\ k \in 1 .. Len(t)
      <4>1. t = [j \in 1 .. Len(Left) |-> t[j]]
        BY <1>6, StoredIs
      <4> QED BY <1>6, <4>1
    <3> HIDE DEF t, T
    <3>2. Len(RemoveAt(t, k)) = Len(t) - 1
      BY <3>1, Removed
    <3> QED BY <2>3, <3>2 DEF t
  <2>6. Len(taken') = Len(taken) + 1
    <3> DEFINE T == 1 .. Enqueued
               x == Left[k]
    <3>1. x \in T /\ taken \in Seq(T)
      BY <1>2, <1>8, LeftFacts
    <3> HIDE DEF x, T
    <3> QED BY <2>1, <3>1 DEF x
  <2>7. Len(Stored') + Len(taken') = Enqueued'
    <3> DEFINE a == Len(Stored)
               b == Len(taken)
               c == Enqueued
               d == Len(Stored')
               e == Len(taken')
               f == Enqueued'
    <3>1. a + b = c /\ a \in Nat /\ b \in Nat /\ c \in Nat /\ d = a - 1 /\ e = b + 1 /\ f = c
      BY <1>5, <1>6, <1>8, <2>2, <2>5, <2>6
    <3> HIDE DEF a, b, c, d, e, f
    <3>2. d + e = f
      BY <3>1
    <3> QED BY <3>2 DEF d, e, f
  <2> QED BY <2>1, <2>4, <2>7 DEF Abstract!Next, Sum
<1>11. CASE ~ AppendEntry /\ ~ SendPacket
  <2>1. Stored' = Stored /\ taken' = taken /\ Enqueued' = Enqueued
    BY <1>1, <1>11, StepHidden DEF Hidden
  <2>2. Sum'
    BY <1>5, <2>1 DEF Sum
  <2> QED BY <2>1, <2>2
<1> QED BY <1>9, <1>10, <1>11

(* As long as no enqueue overlaps a rewriting and the process does not     *)
(* crash, the file is the queue of StoreForward.                           *)
THEOREM Refinement == Spec => Refines
<1>1. Init => Inv /\ Sum /\ Abstract!Init
  <2> SUFFICES ASSUME Init PROVE Inv /\ Sum /\ Abstract!Init
    OBVIOUS
  <2>1. Inv
    BY Starts
  <2>2. /\ taken = <<>> /\ Enqueued = 0 /\ Entries = <<>>
    BY DEF Init, MainIdle, NetIdle, Enqueued, Entries, GetAll
  <2>3. Left \in Seq(Nat) /\ Len(Left) = 0
    <3>1. /\ Left \in Seq(Nat) /\ Len(Left) \in Nat
          /\ \A j \in 1 .. Len(Left) : Left[j] \in 1 .. Enqueued
      BY <2>1, LeftFacts DEF Inv
    <3>2. 1 .. Enqueued = {}
      BY <2>2
    <3> QED BY <3>1, <3>2
  <2>4. Stored = <<>>
    <3>1. Left = <<>>
      BY <2>3, EmptyLen
    <3> QED BY <3>1, StoredIs
  <2>5. Sum
    BY <2>2, <2>4 DEF Sum
  <2> QED BY <2>1, <2>2, <2>4, <2>5 DEF Abstract!Init
<1>2. Inv /\ [Next]_vars => Inv'
  BY Preserved
<1>3. Inv /\ Sum /\ [Next]_vars => Sum'
  <2> SUFFICES ASSUME Inv, Sum, [Next]_vars PROVE Sum'
    OBVIOUS
  <2>1. CASE crashes' = 0 /\ ~ raced'
    BY <2>1, Cases
  <2>2. CASE ~ (crashes' = 0 /\ ~ raced')
    BY <2>2 DEF Sum
  <2> QED BY <2>1, <2>2
<1>4. Inv /\ Sum /\ [Next]_vars
        => [(crashes' = 0 /\ ~ raced') => [Abstract!Next]_<<Stored, taken>>]_vars
  BY Cases
<1> QED BY <1>1, <1>2, <1>3, <1>4, PTL DEF Spec, Refines
=============================================================================
