--------------------------- MODULE DispatchProofs ---------------------------
(***************************************************************************)
(* Proofs about Dispatch, for every set of peers, every set of sizes and   *)
(* every bound. The inductive invariant Inv says, for each property, where *)
(* the fragments of the messages are (Once), in which order (QueueInOrder, *)
(* InOrder), and what the look-up of the command send may still rely on    *)
(* when main comes to a fragment (ReachableHeardOf, OneMessageWaits). Its  *)
(* parts are shown in turn for the handler (Heard), the two loops of main  *)
(* and the look-up. First what Only selects from the queue (OnlyProps):    *)
(* the fragments of the set, all of them, in the queue's order.            *)
(***************************************************************************)
EXTENDS Dispatch, FiniteSetTheorems, WellFoundedInduction, TLAPS

(* A set of natural numbers has a least element: the form of induction     *)
(* used throughout.                                                        *)
LEMMA Least ==
  ASSUME NEW T, T \subseteq Nat, T # {}
  PROVE  \E n \in T : \A m \in T : n <= m
<1> DEFINE R == OpToRel(<, Nat)
<1>1. IsWellFoundedOn(R, Nat)
  BY NatLessThanWellFounded, Zenon
<1>2. \A x, y \in Nat : y < x => <<y, x>> \in R
  BY DEF OpToRel
<1> HIDE DEF R
<1>3. PICK n \in T : \A y \in T : ~ (<<y, n>> \in R)
  BY <1>1, WFMin, Zenon
<1>4. \A m \in T : ~ (m < n)
  BY <1>2, <1>3
<1>5. n \in Nat /\ \A m \in T : m \in Nat
  OBVIOUS
<1>6. \A m \in T : n <= m
  BY <1>4, <1>5
<1> QED BY <1>6

(* g starts at x0 and goes on by step up to N.                             *)
Iterates(g, N, x0, step) ==
  g[0] = x0 /\ \A n \in 1 .. N : g[n] = step[<<n, g[n - 1]>>]

(* Such a function exists.                                                 *)
LEMMA Recursion ==
  ASSUME NEW N \in Nat, NEW T, NEW x0 \in T, NEW step \in [(1 .. N) \X T -> T]
  PROVE  \E g \in [0 .. N -> T] : Iterates(g, N, x0, step)
<1> DEFINE Starts(m) == \E g \in [0 .. m -> T] :
                          g[0] = x0 /\ \A n \in 1 .. m : g[n] = step[<<n, g[n - 1]>>]
           bad == {m \in 0 .. N : ~ Starts(m)}
<1>1. SUFFICES ASSUME bad # {} PROVE FALSE
  BY DEF Iterates
<1>2. PICK m \in bad : \A j \in bad : m <= j
  <2> HIDE DEF Starts
  <2>1. bad \subseteq Nat
    OBVIOUS
  <2> HIDE DEF bad
  <2> QED BY <1>1, <2>1, Least
<1>3. CASE m = 0
  <2> DEFINE g == [n \in 0 .. 0 |-> x0]
  <2>1. g \in [0 .. 0 -> T] /\ g[0] = x0 /\ \A n \in 1 .. 0 : g[n] = step[<<n, g[n - 1]>>]
    OBVIOUS
  <2> QED BY <1>2, <1>3, <2>1
<1>4. CASE m # 0
  <2>1. m - 1 \in 0 .. N /\ m \in 1 .. N /\ Starts(m - 1)
    BY <1>2, <1>4
  <2>2. PICK g \in [0 .. m - 1 -> T] :
               g[0] = x0 /\ \A n \in 1 .. m - 1 : g[n] = step[<<n, g[n - 1]>>]
    BY <2>1
  <2> DEFINE h == [n \in 0 .. m |-> IF n = m THEN step[<<m, g[m - 1]>>] ELSE g[n]]
  <2>3. h \in [0 .. m -> T]
    BY <2>1
  <2>4. h[0] = x0 /\ h[m] = step[<<m, h[m - 1]>>]
    <3>1. 0 \in 0 .. m /\ m \in 0 .. m /\ m - 1 \in 0 .. m /\ m - 1 # m /\ 0 # m
      BY <2>1
    <3>2. h[0] = g[0] /\ h[m - 1] = g[m - 1] /\ h[m] = step[<<m, g[m - 1]>>]
      BY <3>1
    <3> QED BY <2>2, <3>2
  <2>5. ASSUME NEW n \in 1 .. m, n # m PROVE h[n] = step[<<n, h[n - 1]>>]
    <3>1. n \in 1 .. m - 1 /\ n - 1 \in 0 .. m - 1 /\ n \in 0 .. m /\ n - 1 # m
      BY <2>1, <2>5
    <3> QED BY <2>2, <2>5, <3>1
  <2> QED BY <1>2, <2>3, <2>4, <2>5
<1> QED BY <1>3, <1>4

(* g holds what is kept of the first n elements of s, for every n.         *)
Keeps(g, s, S) ==
  /\ g[0] = << >>
  /\ \A n \in 1 .. Len(s) :
       g[n] = IF s[n] \in S THEN Append(g[n - 1], s[n]) ELSE g[n - 1]

(* Only is what its recursive equation says.                               *)
LEMMA OnlyDef ==
  ASSUME NEW T, NEW s \in Seq(T), NEW S
  PROVE  \E g \in [0 .. Len(s) -> Seq(T)] : Keeps(g, s, S) /\ Only(s, S) = g[Len(s)]
<1> DEFINE N == Len(s)
           step == [a \in (1 .. N) \X Seq(T) |->
                      IF s[a[1]] \in S THEN Append(a[2], s[a[1]]) ELSE a[2]]
           F(g) == [n \in 0 .. N |->
                      IF n = 0 THEN << >>
                      ELSE IF s[n] \in S THEN Append(g[n - 1], s[n]) ELSE g[n - 1]]
           kept == CHOOSE g : g = F(g)
<1>1. N \in Nat /\ << >> \in Seq(T) /\ \A n \in 1 .. N : s[n] \in T
  OBVIOUS
<1>2. step \in [(1 .. N) \X Seq(T) -> Seq(T)]
  BY <1>1
<1>3. \A n \in 1 .. N : \A t \in Seq(T) :
        step[<<n, t>>] = IF s[n] \in S THEN Append(t, s[n]) ELSE t
  OBVIOUS
<1>4. PICK g \in [0 .. N -> Seq(T)] :
             g[0] = << >> /\ \A n \in 1 .. N : g[n] = step[<<n, g[n - 1]>>]
  <2> HIDE DEF step, N
  <2> DEFINE V == Seq(T)
             x0 == << >>
  <2>1. N \in Nat /\ x0 \in V /\ step \in [(1 .. N) \X V -> V]
    BY <1>1, <1>2
  <2> HIDE DEF V, x0
  <2>2. \E g \in [0 .. N -> V] : Iterates(g, N, x0, step)
    BY <2>1, Recursion
  <2> QED BY <2>2, Zenon DEF V, x0, Iterates
<1>5. \A n \in 1 .. N : n # 0 /\ n - 1 \in 0 .. N
  BY <1>1
<1> HIDE DEF step, N
<1>6. g = F(g)
  <2>1. ASSUME NEW n \in 0 .. N, n # 0
        PROVE  g[n] = IF s[n] \in S THEN Append(g[n - 1], s[n]) ELSE g[n - 1]
    <3>1. n \in 1 .. N /\ g[n - 1] \in Seq(T)
      BY <1>1, <1>5, <2>1
    <3> QED BY <1>3, <1>4, <3>1
  <2> QED BY <1>4, <2>1, Zenon
<1>7. kept = F(kept)
  BY <1>6, Zenon
<1>8. Only(s, S) = kept[N]
  BY Zenon DEF Only, N
<1> HIDE DEF kept
<1>9. kept[0] = << >> /\ \A n \in 1 .. N :
        kept[n] = IF s[n] \in S THEN Append(kept[n - 1], s[n]) ELSE kept[n - 1]
  <2>1. 0 \in 0 .. N /\ \A n \in 1 .. N : n \in 0 .. N
    BY <1>1
  <2> QED BY <1>5, <1>7, <2>1, Zenon
<1>10. kept \in [0 .. N -> Seq(T)]
  <2> DEFINE bad == {n \in 0 .. N : kept[n] \notin Seq(T)}
  <2>1. SUFFICES bad = {}
    BY <1>7, Zenon
  <2>2. SUFFICES ASSUME bad # {} PROVE FALSE
    OBVIOUS
  <2>3. PICK m \in bad : \A j \in bad : m <= j
    <3>1. bad \subseteq Nat
      BY <1>1
    <3> HIDE DEF bad
    <3> QED BY <2>2, <3>1, Least
  <2>4. m \in 0 .. N /\ kept[m] \notin Seq(T)
    OBVIOUS
  <2>5. m # 0
    BY <1>1, <1>9, <2>4
  <2>6. m \in 1 .. N /\ m - 1 \in 0 .. N /\ ~ (m <= m - 1)
    BY <1>1, <2>4, <2>5
  <2>7. kept[m - 1] \in Seq(T)
    BY <2>3, <2>6
  <2>8. kept[m] = kept[m - 1] \/ kept[m] = Append(kept[m - 1], s[m])
    BY <1>9, <2>6, Zenon
  <2>9. s[m] \in T
    BY <1>1, <2>6
  <2>10. Append(kept[m - 1], s[m]) \in Seq(T)
    BY <2>7, <2>9
  <2> QED BY <2>4, <2>7, <2>8, <2>10, Zenon
<1> QED BY <1>8, <1>9, <1>10, Zenon DEF N, Keeps

(* x is an element of s.                                                   *)
Has(s, x) == \E k \in 1 .. Len(s) : s[k] = x

(* Two elements of t are in an order in which s has them.                  *)
OrderedAs(t, s) ==
  \A j, k \in 1 .. Len(t) :
    j < k => \E a, b \in 1 .. Len(s) : a < b /\ t[j] = s[a] /\ t[k] = s[b]

(* The elements of a concatenation.                                        *)
LEMMA Concatenation ==
  ASSUME NEW T, NEW s \in Seq(T), NEW t \in Seq(T)
  PROVE  /\ s \o t \in Seq(T) /\ Len(s \o t) = Len(s) + Len(t)
         /\ \A n \in 1 .. Len(s) : (s \o t)[n] = s[n]
         /\ \A k \in 1 .. Len(t) : (s \o t)[Len(s) + k] = t[k]
<1>1. s \o t \in Seq(T) /\ Len(s \o t) = Len(s) + Len(t)
  OBVIOUS
<1>2. \A n \in 1 .. Len(s) : (s \o t)[n] = s[n]
  OBVIOUS
<1>3. ASSUME NEW k \in 1 .. Len(t) PROVE (s \o t)[Len(s) + k] = t[k]
  <2>1. Len(s) + k \in 1 .. Len(s) + Len(t) /\ ~ (Len(s) + k <= Len(s)) /\ (Len(s) + k) - Len(s) = k
    OBVIOUS
  <2> QED BY <2>1
<1> QED BY <1>1, <1>2, <1>3

(* What an appended element changes.                                       *)
LEMMA OneAppended ==
  ASSUME NEW T, NEW s \in Seq(T), NEW x \in T
  PROVE  /\ Append(s, x) \in Seq(T) /\ Len(Append(s, x)) = Len(s) + 1 /\ Len(s) \in Nat
         /\ \A i \in 1 .. Len(s) : Append(s, x)[i] = s[i]
         /\ Append(s, x)[Len(s) + 1] = x
         /\ \A y : Has(Append(s, x), y) <=> Has(s, y) \/ y = x
<1> DEFINE t == Append(s, x)
<1>1. /\ t \in Seq(T) /\ Len(t) = Len(s) + 1 /\ Len(s) \in Nat
      /\ \A i \in 1 .. Len(s) : t[i] = s[i]
      /\ t[Len(s) + 1] = x
  OBVIOUS
<1> HIDE DEF t
<1>2. \A i \in 1 .. Len(t) : i \in 1 .. Len(s) \/ i = Len(s) + 1
  BY <1>1
<1>3. Len(s) + 1 \in 1 .. Len(t) /\ \A i \in 1 .. Len(s) : i \in 1 .. Len(t)
  BY <1>1
<1>4. ASSUME NEW y PROVE Has(t, y) <=> Has(s, y) \/ y = x
  BY <1>1, <1>2, <1>3 DEF Has
<1> QED BY <1>1, <1>4, Zenon DEF t

(* What is kept of the first n elements is in their order, and nothing is  *)
(* missing.                                                                *)
Kept(t, s, n, S) ==
  /\ \A j, k \in 1 .. Len(t) : j < k => \E a, b \in 1 .. n : a < b /\ t[j] = s[a] /\ t[k] = s[b]
  /\ \A x : Has(t, x) <=> x \in S /\ \E i \in 1 .. n : s[i] = x

(* One element more.                                                       *)
LEMMA KeptStep ==
  ASSUME NEW T, NEW s \in Seq(T), NEW S, NEW n \in 1 .. Len(s), NEW t \in Seq(T),
         Kept(t, s, n - 1, S)
  PROVE  Kept(IF s[n] \in S THEN Append(t, s[n]) ELSE t, s, n, S)
<1> DEFINE L == Len(t)
           u == IF s[n] \in S THEN Append(t, s[n]) ELSE t
<1>1. n \in Nat /\ n \in 1 .. n /\ s[n] \in T /\ L \in Nat
  OBVIOUS
<1>2. \A i : i \in 1 .. n <=> i = n \/ i \in 1 .. n - 1
  BY <1>1
<1>3. \A i \in 1 .. n - 1 : i < n
  BY <1>1
<1>4. /\ \A j, k \in 1 .. L : j < k =>
           \E a, b \in 1 .. n - 1 : a < b /\ t[j] = s[a] /\ t[k] = s[b]
      /\ \A x : Has(t, x) <=> x \in S /\ \E i \in 1 .. n - 1 : s[i] = x
  BY DEF Kept
<1>5. CASE s[n] \notin S
  <2>1. u = t
    BY <1>5
  <2>2. \A j, k \in 1 .. L : j < k => \E a, b \in 1 .. n : a < b /\ t[j] = s[a] /\ t[k] = s[b]
    BY <1>2, <1>4
  <2>3. \A x : Has(t, x) <=> x \in S /\ \E i \in 1 .. n : s[i] = x
    BY <1>2, <1>4, <1>5
  <2>4. Kept(t, s, n, S)
    BY <2>2, <2>3, Zenon DEF Kept
  <2> QED BY <2>1, <2>4
<1>6. CASE s[n] \in S
  <2>1. /\ u \in Seq(T) /\ Len(u) = L + 1 /\ u[L + 1] = s[n]
        /\ \A k \in 1 .. L : u[k] = t[k]
        /\ \A x : Has(u, x) <=> Has(t, x) \/ x = s[n]
    BY <1>1, <1>6, OneAppended
  <2> HIDE DEF u
  <2>2. ASSUME NEW j \in 1 .. L + 1, NEW k \in 1 .. L + 1, j < k
        PROVE  \E a, b \in 1 .. n : a < b /\ u[j] = s[a] /\ u[k] = s[b]
    <3>1. j \in 1 .. L /\ (k = L + 1 \/ k \in 1 .. L)
      BY <1>1, <2>2
    <3>2. CASE k \in 1 .. L
      <4>1. PICK a, b \in 1 .. n - 1 : a < b /\ t[j] = s[a] /\ t[k] = s[b]
        BY <1>4, <2>2, <3>1, <3>2
      <4> QED BY <1>2, <2>1, <3>1, <3>2, <4>1
    <3>3. CASE k = L + 1
      <4>1. Has(t, t[j])
        BY <3>1 DEF Has
      <4>2. PICK a \in 1 .. n - 1 : s[a] = t[j]
        BY <1>4, <4>1
      <4> QED BY <1>1, <1>2, <1>3, <2>1, <3>1, <3>3, <4>2
    <3> QED BY <3>1, <3>2, <3>3
  <2>3. \A x : Has(u, x) <=> x \in S /\ \E i \in 1 .. n : s[i] = x
    BY <1>1, <1>2, <1>4, <1>6, <2>1
  <2> QED BY <2>1, <2>2, <2>3 DEF Kept, u
<1> QED BY <1>5, <1>6

(* What is kept are the elements of s in S, in their order.                *)
LEMMA OnlyProps ==
  ASSUME NEW T, NEW s \in Seq(T), NEW S
  PROVE  /\ Only(s, S) \in Seq(T) /\ OrderedAs(Only(s, S), s)
         /\ \A x : Has(Only(s, S), x) <=> Has(s, x) /\ x \in S
<1> DEFINE N == Len(s)
<1>1. PICK g \in [0 .. N -> Seq(T)] : Keeps(g, s, S) /\ Only(s, S) = g[N]
  BY OnlyDef, Zenon
<1>2. /\ g[0] = << >>
      /\ \A n \in 1 .. N : g[n] = IF s[n] \in S THEN Append(g[n - 1], s[n]) ELSE g[n - 1]
  BY <1>1, Zenon DEF Keeps
<1> DEFINE Good(n) == Kept(g[n], s, n, S)
           bad == {n \in 0 .. N : ~ Good(n)}
<1>3. N \in Nat /\ N \in 0 .. N
  OBVIOUS
<1> HIDE DEF N
<1>4. Good(0)
  <2>1. Kept(<< >>, s, 0, S)
    BY DEF Kept, Has
  <2> QED BY <1>2, <2>1, Zenon
<1>5. ASSUME NEW n \in 1 .. N, Good(n - 1) PROVE Good(n)
  <2>1. n - 1 \in 0 .. N /\ g[n - 1] \in Seq(T)
    BY <1>3
  <2>2. Kept(IF s[n] \in S THEN Append(g[n - 1], s[n]) ELSE g[n - 1], s, n, S)
    BY <1>5, <2>1, KeptStep, Zenon DEF N
  <2> QED BY <1>2, <2>2, Zenon
<1> HIDE DEF Good
<1>6. bad = {}
  <2>1. SUFFICES ASSUME bad # {} PROVE FALSE
    OBVIOUS
  <2>2. bad \subseteq Nat
    BY <1>3
  <2>3. PICK m \in bad : \A j \in bad : m <= j
    <3> HIDE DEF bad
    <3> QED BY <2>1, <2>2, Least
  <2>4. m \in 1 .. N /\ m - 1 \in 0 .. N /\ ~ (m <= m - 1)
    BY <1>3, <1>4, <2>3
  <2>5. Good(m - 1)
    BY <2>3, <2>4
  <2> QED BY <1>5, <2>3, <2>4, <2>5
<1>7. Good(N) /\ g[N] \in Seq(T)
  BY <1>3, <1>6
<1>8. Kept(Only(s, S), s, N, S) /\ Only(s, S) \in Seq(T)
  BY <1>1, <1>7, Zenon DEF Good
<1> QED BY <1>8 DEF Kept, OrderedAs, Has, N

-----------------------------------------------------------------------------
InQueue(f) == Has(queue, f)
OnRadio(f) == \E n \in DOMAIN radio : radio[n].frag = f

Message == [to : Peer, size : Sizes, canonical : BOOLEAN]
Entry == [hops : Nat, fresh : BOOLEAN]
Transmission == [frag : Fragment, effect : Effects]

(* Types; while main is at a fragment, it is one of the last message.      *)
Typed ==
  /\ online \subseteq Peer /\ known \subseteq Peer /\ heardOf \subseteq Peer
  /\ route \in [Peer -> Entry]
  /\ msgs \in Seq(Message)
  /\ pc \in {"prompt", "transmit", "enqueue"} /\ part \in Nat
  /\ pc # "prompt" => Len(msgs) # 0 /\ part \in 1 .. msgs[Len(msgs)].size
  /\ queue \in Seq(Fragment) /\ radio \in Seq(Transmission) /\ unsaved \subseteq Fragment

(* No fragment is twice in the queue or twice on the radio, none is at two *)
(* places, and the places hold what the commands have dealt with.          *)
Once ==
  /\ \A i, j \in DOMAIN queue : queue[i] = queue[j] => i = j
  /\ \A i, j \in DOMAIN radio : radio[i].frag = radio[j].frag => i = j
  /\ \A f \in Fragment : InQueue(f) => ~ OnRadio(f) /\ f \notin unsaved
  /\ \A f \in Fragment : OnRadio(f) => f \notin unsaved
  /\ \A f \in Fragment : f \in Issued <=> InQueue(f) \/ OnRadio(f) \/ f \in unsaved

(* The queue is in order, and behind what has passed the radio; a message  *)
(* that main transmits is not in it.                                       *)
QueueInOrder ==
  /\ \A i, j \in DOMAIN queue :
       (i < j /\ queue[i][1] = queue[j][1]) => queue[i][2] < queue[j][2]
  /\ \A n \in DOMAIN radio, i \in DOMAIN queue :
       radio[n].frag[1] = queue[i][1] => radio[n].frag[2] < queue[i][2]
  /\ pc = "transmit" => \A f : InQueue(f) => f[1] # Len(msgs)

(* What makes a peer reachable is that it was heard of.                    *)
ReachableHeardOf ==
  /\ known \subseteq heardOf
  /\ \A p \in Peer : route[p].fresh => p \in heardOf
  /\ pc = "transmit" => msgs[Len(msgs)].to \in heardOf

(* What waits for a neighbour under its proper name is of one message: the *)
(* one that main is at, if that goes to the neighbour.                     *)
Straggles(p, f) == InQueue(f) /\ To(f) = p /\ msgs[f[1]].canonical
OneMessageWaits ==
  \A p \in known :
    /\ \A f, g \in Fragment : Straggles(p, f) /\ Straggles(p, g) => f[1] = g[1]
    /\ (pc = "enqueue" /\ msgs[Len(msgs)].to = p /\ msgs[Len(msgs)].canonical)
         => \A f \in Fragment : Straggles(p, f) => f[1] = Len(msgs)

Inv == Typed /\ Once /\ QueueInOrder /\ InOrder /\ ReachableHeardOf /\ MissedOnlyIfHeardOf
       /\ OneMessageWaits

-----------------------------------------------------------------------------
(* Fragments.                                                              *)

(* What it is to be a fragment.                                            *)
LEMMA FragmentDef ==
  ASSUME NEW f
  PROVE  f \in Fragment <=> \E m \in DOMAIN msgs : \E k \in 1 .. msgs[m].size : f = <<m, k>>
BY DEF Fragment

(* A fragment is a pair of message and part, and has a target.             *)
LEMMA FragmentType ==
  ASSUME Typed, NEW f \in Fragment
  PROVE  /\ f = <<f[1], f[2]>> /\ f[1] \in 1 .. Len(msgs) /\ f[2] \in 1 .. msgs[f[1]].size
         /\ f[1] \in Nat /\ f[2] \in Nat /\ Len(msgs) \in Nat /\ To(f) \in Peer
<1>0. PICK m \in DOMAIN msgs : \E k \in 1 .. msgs[m].size : f = <<m, k>>
  BY FragmentDef
<1>1. PICK k \in 1 .. msgs[m].size : f = <<m, k>>
  BY <1>0
<1>2. DOMAIN msgs = 1 .. Len(msgs) /\ Len(msgs) \in Nat
  BY DEF Typed
<1>3. msgs[m] \in Message
  BY <1>2 DEF Typed
<1> QED BY <1>1, <1>2, <1>3 DEF To, Message

(* What has passed the radio are fragments.                                *)
LEMMA OnRadioType ==
  ASSUME Typed, NEW n \in DOMAIN radio
  PROVE  radio[n] \in Transmission /\ radio[n].frag \in Fragment
<1>1. radio[n] \in Transmission
  BY DEF Typed
<1> QED BY <1>1 DEF Transmission

(* The fragments change with the messages only.                            *)
LEMMA SameFragments == ASSUME UNCHANGED msgs PROVE Fragment' = Fragment
BY DEF Fragment

(* A new message brings fragments of its own; those before keep their      *)
(* target.                                                                 *)
LEMMA MoreFragments ==
  ASSUME Typed, NEW m \in Message, msgs' = Append(msgs, m)
  PROVE  /\ Len(msgs') = Len(msgs) + 1 /\ msgs'[Len(msgs')] = m
         /\ \A i \in 1 .. Len(msgs) : msgs'[i] = msgs[i]
         /\ Fragment \subseteq Fragment'
         /\ \A f \in Fragment' : f \in Fragment \/ f[1] = Len(msgs')
         /\ \A f \in Fragment : f[1] < Len(msgs') /\ To(f)' = To(f)
<1>1. /\ Len(msgs') = Len(msgs) + 1 /\ msgs'[Len(msgs')] = m
      /\ \A i \in 1 .. Len(msgs) : msgs'[i] = msgs[i]
      /\ DOMAIN msgs = 1 .. Len(msgs) /\ DOMAIN msgs' = 1 .. Len(msgs) + 1 /\ Len(msgs) \in Nat
  BY DEF Typed
<1>2. ASSUME NEW f \in Fragment PROVE f \in Fragment' /\ f[1] < Len(msgs') /\ To(f)' = To(f)
  <2>0. PICK i \in 1 .. Len(msgs) : \E k \in 1 .. msgs[i].size : f = <<i, k>>
    BY <1>1, FragmentDef
  <2>1. PICK k \in 1 .. msgs[i].size : f = <<i, k>>
    BY <2>0
  <2>2. i \in DOMAIN msgs' /\ k \in 1 .. msgs'[i].size
    BY <1>1
  <2>3. f \in Fragment'
    BY <2>1, <2>2 DEF Fragment
  <2> QED BY <1>1, <2>1, <2>3 DEF To
<1>3. ASSUME NEW f \in Fragment' PROVE f \in Fragment \/ f[1] = Len(msgs')
  <2>0. PICK i \in 1 .. Len(msgs) + 1 : \E k \in 1 .. msgs'[i].size : f = <<i, k>>
    BY <1>1 DEF Fragment
  <2>1. PICK k \in 1 .. msgs'[i].size : f = <<i, k>>
    BY <2>0
  <2>2. CASE i = Len(msgs) + 1
    BY <1>1, <2>1, <2>2
  <2>3. CASE i \in 1 .. Len(msgs)
    BY <1>1, <2>1, <2>3 DEF Fragment
  <2> QED BY <1>1, <2>2, <2>3
<1> QED BY <1>1, <1>2, <1>3

(* The fragment that main is at is not dealt with yet; one turn of a loop  *)
(* deals with it and with no other.                                        *)
LEMMA FollowingIssues ==
  ASSUME Typed, pc # "prompt", Following
  PROVE  /\ Fragment' = Fragment
         /\ <<Len(msgs), part>> \in Fragment \ Issued
         /\ \A f \in Fragment : f \in Issued' <=> f \in Issued \/ f = <<Len(msgs), part>>
         /\ pc' \in {"prompt", pc} /\ part' \in Nat
         /\ pc' # "prompt" => part' \in 1 .. msgs[Len(msgs)].size
<1> DEFINE L == Len(msgs)
<1>1. L \in Nat /\ L \in DOMAIN msgs /\ part \in 1 .. msgs[L].size /\ Last(msgs) = msgs[L]
  BY DEF Typed, Last
<1>2. msgs[L].size \in Nat
  <2>1. msgs[L] \in Message
    BY <1>1 DEF Typed
  <2> QED BY <2>1, ConstAssumption DEF Message
<1>3. Fragment' = Fragment
  BY SameFragments DEF Following
<1>4. <<L, part>> \in Fragment
  BY <1>1 DEF Fragment
<1>5. <<L, part>> \notin Issued
  BY <1>1, <1>2 DEF Issued
<1>6. ASSUME NEW f \in Fragment
      PROVE  f \in Issued' <=> f \in Issued \/ f = <<L, part>>
  <2>1. f = <<f[1], f[2]>> /\ f[1] \in 1 .. L /\ f[2] \in 1 .. msgs[f[1]].size /\ f[2] \in Nat
    BY FragmentType
  <2>2. f \in Issued <=> f[1] < L \/ f[2] < part
    BY DEF Issued
  <2>3. f \in Issued' <=> pc' = "prompt" \/ f[1] < L \/ f[2] < part + 1
    BY <1>3 DEF Issued, Following
  <2>4. ~ (f[1] < L) => f[1] = L
    BY <1>1, <2>1
  <2>5. CASE pc' = "prompt"
    <3>1. part = msgs[L].size
      BY <1>1, <2>5 DEF Following
    <3> QED BY <1>1, <1>2, <2>1, <2>2, <2>3, <2>4, <2>5, <3>1
  <2>6. CASE pc' # "prompt"
    BY <1>1, <1>2, <2>1, <2>2, <2>3, <2>4, <2>6
  <2> QED BY <2>5, <2>6
<1>7. pc' \in {"prompt", pc} /\ part' \in Nat /\ (pc' # "prompt" => part' \in 1 .. msgs[L].size)
  BY <1>1, <1>2 DEF Following
<1> QED BY <1>3, <1>4, <1>5, <1>6, <1>7

-----------------------------------------------------------------------------
(* What a call of send_packet adds to the radio.                           *)

(* Transmit appends its fragments to the radio; those for a peer in range  *)
(* are not missed.                                                         *)
LEMMA TransmitAdds ==
  ASSUME Typed, NEW fs \in Seq(Fragment), Transmit(fs)
  PROVE  /\ radio' \in Seq(Transmission) /\ Len(radio') = Len(radio) + Len(fs)
         /\ \A n \in 1 .. Len(radio) : radio'[n] = radio[n]
         /\ \A k \in 1 .. Len(fs) :
              /\ radio'[Len(radio) + k].frag = fs[k]
              /\ radio'[Len(radio) + k].effect = "missed" => To(fs[k]) \notin online
<1>1. PICK bad \in SUBSET ToSet(fs) :
        radio' = radio \o [n \in DOMAIN fs |->
                  [frag |-> fs[n],
                   effect |-> CASE fs[n] \in bad -> "failed"
                                [] To(fs[n]) \in online -> "heard"
                                [] OTHER -> "missed"]]
  BY Zenon DEF Transmit
<1> DEFINE eff(n) == CASE fs[n] \in bad -> "failed"
                       [] To(fs[n]) \in online -> "heard"
                       [] OTHER -> "missed"
           new == [n \in DOMAIN fs |-> [frag |-> fs[n], effect |-> eff(n)]]
<1>2. \A n : eff(n) \in Effects /\ (eff(n) = "missed" => To(fs[n]) \notin online)
  BY DEF Effects
<1> HIDE DEF eff
<1>3. DOMAIN fs = 1 .. Len(fs) /\ Len(fs) \in Nat /\ \A n \in 1 .. Len(fs) : fs[n] \in Fragment
  OBVIOUS
<1>4. new \in Seq(Transmission) /\ Len(new) = Len(fs)
  BY <1>2, <1>3 DEF Transmission
<1>5. \A n \in 1 .. Len(fs) : new[n].frag = fs[n] /\ new[n].effect = eff(n)
  BY <1>3
<1>6. radio' = radio \o new
  BY <1>1, Zenon DEF eff, new
<1>7. radio \in Seq(Transmission)
  BY DEF Typed
<1> HIDE DEF new
<1>8. /\ radio' \in Seq(Transmission) /\ Len(radio') = Len(radio) + Len(new)
      /\ \A n \in 1 .. Len(radio) : radio'[n] = radio[n]
      /\ \A k \in 1 .. Len(new) : radio'[Len(radio) + k] = new[k]
  <2>1. /\ radio \o new \in Seq(Transmission) /\ Len(radio \o new) = Len(radio) + Len(new)
        /\ \A n \in 1 .. Len(radio) : (radio \o new)[n] = radio[n]
        /\ \A k \in 1 .. Len(new) : (radio \o new)[Len(radio) + k] = new[k]
    <3> DEFINE T == Transmission
               r == radio
    <3>1. r \in Seq(T) /\ new \in Seq(T)
      BY <1>4, <1>7
    <3> HIDE DEF T, r
    <3>2. /\ r \o new \in Seq(T) /\ Len(r \o new) = Len(r) + Len(new)
          /\ \A n \in 1 .. Len(r) : (r \o new)[n] = r[n]
          /\ \A k \in 1 .. Len(new) : (r \o new)[Len(r) + k] = new[k]
      BY <3>1, Concatenation
    <3> QED BY <3>2, Zenon DEF T, r
  <2> QED BY <1>6, <2>1, Zenon
<1> QED BY <1>2, <1>4, <1>5, <1>8

(* A place on the radio is an old one or one of the fragments added.       *)
LEMMA RadioPlaces ==
  ASSUME Typed, NEW fs \in Seq(Fragment), Transmit(fs), NEW n \in DOMAIN radio'
  PROVE  \/ n \in DOMAIN radio /\ radio'[n] = radio[n]
         \/ \E k \in 1 .. Len(fs) : n = Len(radio) + k /\ radio'[n].frag = fs[k]
<1>1. /\ radio' \in Seq(Transmission) /\ Len(radio') = Len(radio) + Len(fs)
      /\ \A j \in 1 .. Len(radio) : radio'[j] = radio[j]
      /\ \A k \in 1 .. Len(fs) : radio'[Len(radio) + k].frag = fs[k]
  BY TransmitAdds
<1>2. Len(radio) \in Nat /\ Len(fs) \in Nat /\ DOMAIN radio = 1 .. Len(radio)
      /\ DOMAIN radio' = 1 .. Len(radio')
  BY <1>1 DEF Typed
<1>3. n \in 1 .. Len(radio) \/ n - Len(radio) \in 1 .. Len(fs)
  BY <1>1, <1>2
<1>4. CASE n - Len(radio) \in 1 .. Len(fs)
  <2>1. PICK k \in 1 .. Len(fs) : n = Len(radio) + k
    <3>1. n = Len(radio) + (n - Len(radio))
      BY <1>1, <1>2
    <3> QED BY <1>4, <3>1
  <2> QED BY <1>1, <2>1, Zenon
<1> QED BY <1>1, <1>2, <1>3, <1>4

(* All fragments added are on the radio, and what was on it stays there.   *)
LEMMA RadioHas ==
  ASSUME Typed, NEW fs \in Seq(Fragment), Transmit(fs), NEW f
  PROVE  OnRadio(f)' <=> OnRadio(f) \/ \E k \in 1 .. Len(fs) : fs[k] = f
<1>1. /\ radio' \in Seq(Transmission) /\ Len(radio') = Len(radio) + Len(fs)
      /\ \A j \in 1 .. Len(radio) : radio'[j] = radio[j]
      /\ \A k \in 1 .. Len(fs) : radio'[Len(radio) + k].frag = fs[k]
  BY TransmitAdds
<1>2. Len(radio) \in Nat /\ Len(fs) \in Nat /\ DOMAIN radio = 1 .. Len(radio)
      /\ DOMAIN radio' = 1 .. Len(radio')
  BY <1>1 DEF Typed
<1>3. ASSUME OnRadio(f)' PROVE OnRadio(f) \/ \E k \in 1 .. Len(fs) : fs[k] = f
  <2>1. PICK n \in DOMAIN radio' : radio'[n].frag = f
    BY <1>3 DEF OnRadio
  <2> QED BY <2>1, RadioPlaces DEF OnRadio
<1>4. ASSUME OnRadio(f) PROVE OnRadio(f)'
  BY <1>1, <1>2, <1>4 DEF OnRadio
<1>5. ASSUME NEW k \in 1 .. Len(fs), fs[k] = f PROVE OnRadio(f)'
  <2>1. Len(radio) + k \in DOMAIN radio'
    BY <1>1, <1>2
  <2>2. radio'[Len(radio) + k].frag = f
    BY <1>1, <1>5, Zenon
  <2> QED BY <2>1, <2>2, Zenon DEF OnRadio
<1> QED BY <1>3, <1>4, <1>5

(* Fragments that are not on the radio yet, each given once, stay there    *)
(* once.                                                                   *)
LEMMA RadioOnce ==
  ASSUME Typed, NEW fs \in Seq(Fragment), Transmit(fs),
         \A i, j \in DOMAIN radio : radio[i].frag = radio[j].frag => i = j,
         \A i, j \in 1 .. Len(fs) : fs[i] = fs[j] => i = j,
         \A k \in 1 .. Len(fs) : ~ OnRadio(fs[k])
  PROVE  \A i, j \in DOMAIN radio' : radio'[i].frag = radio'[j].frag => i = j
<1> SUFFICES ASSUME NEW i \in DOMAIN radio', NEW j \in DOMAIN radio',
                    radio'[i].frag = radio'[j].frag
             PROVE  i = j
  OBVIOUS
<1>1. \/ i \in DOMAIN radio /\ radio'[i] = radio[i]
      \/ \E k \in 1 .. Len(fs) : i = Len(radio) + k /\ radio'[i].frag = fs[k]
  BY RadioPlaces
<1>2. \/ j \in DOMAIN radio /\ radio'[j] = radio[j]
      \/ \E k \in 1 .. Len(fs) : j = Len(radio) + k /\ radio'[j].frag = fs[k]
  BY RadioPlaces
<1> QED BY <1>1, <1>2, Zenon DEF OnRadio

-----------------------------------------------------------------------------
(* The delivery of what waits for a peer that is heard.                    *)

(* Pending are the waiting fragments of the peer, in the order of the      *)
(* queue.                                                                  *)
LEMMA PendingFacts ==
  ASSUME Typed, NEW p \in Peer
  PROVE  /\ Pending(p) \in Seq(Fragment) /\ OrderedAs(Pending(p), queue)
         /\ \A f : Has(Pending(p), f) <=> InQueue(f) /\ To(f) = p
<1> DEFINE S == {f \in Fragment : To(f) = p}
           T == Fragment
           q == queue
<1>1. q \in Seq(T) /\ Pending(p) = Only(q, S)
  BY DEF Typed, Pending
<1>2. \A f : Has(q, f) => f \in T
  BY <1>1 DEF Has
<1> HIDE DEF S, T, q
<1>3. /\ Only(q, S) \in Seq(T) /\ OrderedAs(Only(q, S), q)
      /\ \A f : Has(Only(q, S), f) <=> Has(q, f) /\ f \in S
  BY <1>1, OnlyProps
<1> QED BY <1>1, <1>2, <1>3, Zenon DEF InQueue, S, T, q

(* What is not pending stays, in the order of the queue.                   *)
LEMMA RestFacts ==
  ASSUME Typed, NEW p \in Peer
  PROVE  /\ RestOfQueue(p) \in Seq(Fragment) /\ OrderedAs(RestOfQueue(p), queue)
         /\ \A f : Has(RestOfQueue(p), f) <=> InQueue(f) /\ To(f) # p
<1> DEFINE S == Fragment \ ToSet(Pending(p))
           T == Fragment
           q == queue
<1>1. q \in Seq(T) /\ RestOfQueue(p) = Only(q, S)
  BY DEF Typed, RestOfQueue
<1>2. \A f : Has(q, f) => f \in T
  BY <1>1 DEF Has
<1>3. \A f : f \in S <=> f \in T /\ ~ (InQueue(f) /\ To(f) = p)
  <2>1. DOMAIN Pending(p) = 1 .. Len(Pending(p))
    BY PendingFacts
  <2>2. \A f : f \in ToSet(Pending(p)) <=> Has(Pending(p), f)
    BY <2>1 DEF ToSet, Has
  <2> QED BY <2>2, PendingFacts, Zenon
<1> HIDE DEF S, T, q
<1>4. /\ Only(q, S) \in Seq(T) /\ OrderedAs(Only(q, S), q)
      /\ \A f : Has(Only(q, S), f) <=> Has(q, f) /\ f \in S
  BY <1>1, OnlyProps
<1> QED BY <1>1, <1>2, <1>3, <1>4, Zenon DEF InQueue, T, q

(* The fragments of the peer go from the queue to the radio.               *)
LEMMA HeardMoves ==
  ASSUME Typed, NEW p \in Peer, Heard(p)
  PROVE  /\ Fragment' = Fragment /\ Issued' = Issued
         /\ queue' \in Seq(Fragment) /\ radio' \in Seq(Transmission)
         /\ OrderedAs(queue', queue)
         /\ \A f : InQueue(f)' <=> InQueue(f) /\ To(f) # p
         /\ \A f : OnRadio(f)' <=> OnRadio(f) \/ (InQueue(f) /\ To(f) = p)
<1>1. Fragment' = Fragment /\ Issued' = Issued
  BY SameFragments DEF Heard, main, Issued
<1>2. Transmit(Pending(p)) /\ queue' = RestOfQueue(p)
  BY DEF Heard
<1>3. radio' \in Seq(Transmission)
  BY <1>2, PendingFacts, TransmitAdds
<1>4. queue' \in Seq(Fragment) /\ OrderedAs(queue', queue)
  BY <1>2, RestFacts
<1>5. ASSUME NEW f PROVE InQueue(f)' <=> InQueue(f) /\ To(f) # p
  BY <1>2, RestFacts DEF InQueue
<1>6. ASSUME NEW f PROVE OnRadio(f)' <=> OnRadio(f) \/ (InQueue(f) /\ To(f) = p)
  <2>1. OnRadio(f)' <=> OnRadio(f) \/ Has(Pending(p), f)
    BY <1>2, PendingFacts, RadioHas DEF Has
  <2> QED BY <2>1, PendingFacts, Zenon
<1> QED BY <1>1, <1>3, <1>4, <1>5, <1>6

(* A packet moves fragments, none is lost or doubled.                      *)
LEMMA HeardOnce ==
  ASSUME Typed, Once, NEW p \in Peer, Heard(p)
  PROVE  Once'
<1>1. /\ Fragment' = Fragment /\ Issued' = Issued
      /\ queue' \in Seq(Fragment) /\ radio' \in Seq(Transmission)
      /\ OrderedAs(queue', queue)
      /\ \A f : InQueue(f)' <=> InQueue(f) /\ To(f) # p
      /\ \A f : OnRadio(f)' <=> OnRadio(f) \/ (InQueue(f) /\ To(f) = p)
  BY HeardMoves
<1>2. \A t : OrderedAs(t, queue) => \A i, j \in 1 .. Len(t) : i < j => t[i] # t[j]
  <2> SUFFICES ASSUME NEW t, OrderedAs(t, queue), NEW i \in 1 .. Len(t), NEW j \in 1 .. Len(t),
                      i < j
               PROVE  t[i] # t[j]
    OBVIOUS
  <2>1. PICK a \in 1 .. Len(queue), b \in 1 .. Len(queue) : a < b /\ t[i] = queue[a] /\ t[j] = queue[b]
    BY Zenon DEF OrderedAs
  <2>2. DOMAIN queue = 1 .. Len(queue) /\ a # b
    BY <2>1 DEF Typed
  <2> QED BY <2>1, <2>2 DEF Once
<1>3. \A i, j \in DOMAIN queue' : queue'[i] = queue'[j] => i = j
  <2>1. DOMAIN queue' = 1 .. Len(queue')
    BY <1>1
  <2>2. \A i, j \in 1 .. Len(queue') : i < j => queue'[i] # queue'[j]
    BY <1>1, <1>2
  <2> QED BY <2>1, <2>2
<1>4. \A i, j \in DOMAIN radio' : radio'[i].frag = radio'[j].frag => i = j
  <2> DEFINE fs == Pending(p)
  <2>1. fs \in Seq(Fragment) /\ Transmit(fs) /\ OrderedAs(fs, queue)
    BY PendingFacts DEF Heard
  <2>2. \A f : Has(fs, f) <=> InQueue(f) /\ To(f) = p
    BY PendingFacts
  <2> HIDE DEF fs
  <2>3. \A i, j \in 1 .. Len(fs) : fs[i] = fs[j] => i = j
    BY <1>2, <2>1
  <2>4. \A k \in 1 .. Len(fs) : ~ OnRadio(fs[k])
    <3> SUFFICES ASSUME NEW k \in 1 .. Len(fs) PROVE ~ OnRadio(fs[k])
      OBVIOUS
    <3>1. InQueue(fs[k]) /\ fs[k] \in Fragment
      BY <2>1, <2>2 DEF Has
    <3> QED BY <3>1, Zenon DEF Once
  <2>5. \A i, j \in DOMAIN radio : radio[i].frag = radio[j].frag => i = j
    BY DEF Once
  <2> QED BY <2>1, <2>3, <2>4, <2>5, RadioOnce
<1>5. /\ \A f \in Fragment' : InQueue(f)' => ~ OnRadio(f)' /\ f \notin unsaved'
      /\ \A f \in Fragment' : OnRadio(f)' => f \notin unsaved'
      /\ \A f \in Fragment' : f \in Issued' <=> InQueue(f)' \/ OnRadio(f)' \/ f \in unsaved'
  <2>1. unsaved' = unsaved
    BY DEF Heard
  <2> QED BY <1>1, <2>1, Zenon DEF Once
<1> QED BY <1>3, <1>4, <1>5, Zenon DEF Once

(* Every message keeps its order on the way: what was in order in the      *)
(* queue is appended to the radio in that order.                           *)
LEMMA HeardInOrder ==
  ASSUME Typed, QueueInOrder, InOrder, NEW p \in Peer, Heard(p)
  PROVE  QueueInOrder' /\ InOrder'
<1> DEFINE fs == Pending(p)
<1>1. /\ Fragment' = Fragment
      /\ queue' \in Seq(Fragment) /\ radio' \in Seq(Transmission)
      /\ OrderedAs(queue', queue)
      /\ \A f : InQueue(f)' <=> InQueue(f) /\ To(f) # p
      /\ \A f : OnRadio(f)' <=> OnRadio(f) \/ (InQueue(f) /\ To(f) = p)
  BY HeardMoves
<1>2. fs \in Seq(Fragment) /\ Transmit(fs) /\ OrderedAs(fs, queue)
  BY PendingFacts DEF Heard
<1>3. \A f : Has(fs, f) <=> InQueue(f) /\ To(f) = p
  BY PendingFacts
<1>4. /\ DOMAIN queue = 1 .. Len(queue) /\ DOMAIN radio = 1 .. Len(radio) /\ Len(radio) \in Nat
      /\ DOMAIN queue' = 1 .. Len(queue')
  BY <1>1 DEF Typed
<1> HIDE DEF fs
<1>5. \A t : OrderedAs(t, queue) =>
        \A i, j \in 1 .. Len(t) : i < j /\ t[i][1] = t[j][1] => t[i][2] < t[j][2]
  <2> SUFFICES ASSUME NEW t, OrderedAs(t, queue), NEW i \in 1 .. Len(t), NEW j \in 1 .. Len(t),
                      i < j, t[i][1] = t[j][1]
               PROVE  t[i][2] < t[j][2]
    OBVIOUS
  <2>1. PICK a \in 1 .. Len(queue), b \in 1 .. Len(queue) : a < b /\ t[i] = queue[a] /\ t[j] = queue[b]
    BY Zenon DEF OrderedAs
  <2> QED BY <1>4, <2>1 DEF QueueInOrder
<1>6. \A i, j \in DOMAIN queue' :
        (i < j /\ queue'[i][1] = queue'[j][1]) => queue'[i][2] < queue'[j][2]
  BY <1>1, <1>4, <1>5
<1>7. \A f, g : OnRadio(f) /\ InQueue(g) /\ f[1] = g[1] => f[2] < g[2]
  BY <1>4 DEF QueueInOrder, OnRadio, InQueue, Has
<1>8. ASSUME NEW n \in DOMAIN radio', NEW i \in DOMAIN queue',
             radio'[n].frag[1] = queue'[i][1]
      PROVE  radio'[n].frag[2] < queue'[i][2]
  <2>0. PICK f, g : f = radio'[n].frag /\ g = queue'[i]
    OBVIOUS
  <2>1. OnRadio(f)' /\ InQueue(g)'
    BY <1>4, <2>0 DEF OnRadio, InQueue, Has
  <2>2. InQueue(g) /\ To(g) # p /\ (OnRadio(f) \/ (InQueue(f) /\ To(f) = p))
    BY <1>1, <2>1, Zenon
  <2>3. f[1] = g[1]
    BY <1>8, <2>0
  <2>4. To(f) = To(g)
    BY <2>3 DEF To
  <2> QED BY <1>7, <2>0, <2>2, <2>3, <2>4
<1>9. ASSUME NEW n \in DOMAIN radio', NEW m \in DOMAIN radio', n < m,
             radio'[n].frag[1] = radio'[m].frag[1]
      PROVE  radio'[n].frag[2] < radio'[m].frag[2]
  <2>1. \/ n \in DOMAIN radio /\ radio'[n] = radio[n]
        \/ \E k \in 1 .. Len(fs) : n = Len(radio) + k /\ radio'[n].frag = fs[k]
    BY <1>2, RadioPlaces
  <2>2. \/ m \in DOMAIN radio /\ radio'[m] = radio[m]
        \/ \E k \in 1 .. Len(fs) : m = Len(radio) + k /\ radio'[m].frag = fs[k]
    BY <1>2, RadioPlaces
  <2>3. CASE n \in DOMAIN radio /\ radio'[n] = radio[n]
    <3>1. CASE m \in DOMAIN radio /\ radio'[m] = radio[m]
      BY <1>9, <2>3, <3>1 DEF InOrder
    <3>2. CASE \E k \in 1 .. Len(fs) : m = Len(radio) + k /\ radio'[m].frag = fs[k]
      <4>1. PICK k \in 1 .. Len(fs) : radio'[m].frag = fs[k]
        BY <3>2
      <4>2. InQueue(radio'[m].frag)
        BY <1>3, <4>1 DEF Has
      <4>3. OnRadio(radio'[n].frag)
        BY <2>3 DEF OnRadio
      <4> QED BY <1>7, <1>9, <4>2, <4>3
    <3> QED BY <2>2, <3>1, <3>2
  <2>4. CASE \E k \in 1 .. Len(fs) : n = Len(radio) + k /\ radio'[n].frag = fs[k]
    <3>1. PICK k \in 1 .. Len(fs) : n = Len(radio) + k /\ radio'[n].frag = fs[k]
      BY <2>4
    <3>2. Len(fs) \in Nat
      BY <1>2
    <3>3. m \notin DOMAIN radio
      BY <1>4, <1>9, <3>1, <3>2
    <3>4. PICK l \in 1 .. Len(fs) : m = Len(radio) + l /\ radio'[m].frag = fs[l]
      BY <2>2, <3>3
    <3>5. k < l
      BY <1>4, <1>9, <3>1, <3>2, <3>4
    <3> QED BY <1>2, <1>5, <1>9, <3>1, <3>4, <3>5
  <2> QED BY <2>1, <2>3, <2>4
<1>10. QueueInOrder'
  <2>1. msgs' = msgs /\ pc' = pc
    BY DEF Heard, main
  <2>2. pc' = "transmit" => \A f : InQueue(f)' => f[1] # Len(msgs')
    BY <1>1, <2>1, Zenon DEF QueueInOrder
  <2> QED BY <1>6, <1>8, <2>2, Zenon DEF QueueInOrder
<1>11. InOrder'
  BY <1>9, Zenon DEF InOrder
<1> QED BY <1>10, <1>11

(* Whoever is heard is in range: nothing is missed.                        *)
LEMMA HeardMissesNothing ==
  ASSUME Typed, MissedOnlyIfHeardOf, NEW p \in Peer, Heard(p), heardOf \subseteq heardOf'
  PROVE  MissedOnlyIfHeardOf'
<1> SUFFICES ASSUME NEW n \in DOMAIN radio', radio'[n].effect = "missed"
             PROVE  msgs'[radio'[n].frag[1]].to \in heardOf'
  BY DEF MissedOnlyIfHeardOf, To
<1> DEFINE fs == Pending(p)
<1>1. fs \in Seq(Fragment) /\ Transmit(fs) /\ p \in online /\ msgs' = msgs
  BY PendingFacts DEF Heard, main
<1>2. \A f : Has(fs, f) => To(f) = p
  BY PendingFacts
<1> HIDE DEF fs
<1>3. \A k \in 1 .. Len(fs) : radio'[Len(radio) + k].effect = "missed" => To(fs[k]) \notin online
  BY <1>1, TransmitAdds
<1>4. n \in DOMAIN radio /\ radio'[n] = radio[n]
  <2>1. ASSUME NEW k \in 1 .. Len(fs), n = Len(radio) + k PROVE FALSE
    <3>1. To(fs[k]) \notin online
      BY <1>3, <2>1
    <3> QED BY <1>1, <1>2, <3>1 DEF Has
  <2> QED BY <1>1, <2>1, RadioPlaces
<1>5. To(radio[n].frag) \in heardOf
  BY <1>4 DEF MissedOnlyIfHeardOf
<1> QED BY <1>1, <1>4, <1>5 DEF To

(* After its packet nothing waits for a peer.                              *)
LEMMA HeardStragglers ==
  ASSUME Typed, OneMessageWaits, NEW p \in Peer, Heard(p)
  PROVE  OneMessageWaits'
<1>1. /\ Fragment' = Fragment
      /\ \A f : InQueue(f)' <=> InQueue(f) /\ To(f) # p
  BY HeardMoves
<1>2. known' = known \cup {p} /\ msgs' = msgs /\ pc' = pc
  BY DEF Heard, main
<1>3. \A q, f : Straggles(q, f)' <=> Straggles(q, f) /\ q # p
  BY <1>1, <1>2 DEF Straggles, To
<1> SUFFICES ASSUME NEW q \in known \cup {p}
             PROVE  /\ \A f, g \in Fragment : Straggles(q, f)' /\ Straggles(q, g)' => f[1] = g[1]
                    /\ (pc = "enqueue" /\ msgs[Len(msgs)].to = q /\ msgs[Len(msgs)].canonical)
                         => \A f \in Fragment : Straggles(q, f)' => f[1] = Len(msgs)
  BY <1>1, <1>2 DEF OneMessageWaits
<1>4. CASE q = p
  BY <1>3, <1>4
<1>5. CASE q # p
  <2>1. q \in known
    BY <1>5
  <2> QED BY <1>3, <2>1, Zenon DEF OneMessageWaits
<1> QED BY <1>4, <1>5

-----------------------------------------------------------------------------
(* The loop of the command send that transmits.                            *)

(* The fragment that main is at goes to the radio, no other moves.         *)
LEMMA TransmitPartMoves ==
  ASSUME Typed, Once, TransmitPart, NEW f, f = <<Len(msgs), part>>
  PROVE  /\ Fragment' = Fragment /\ f \in Fragment \ Issued
         /\ \A g \in Fragment : g \in Issued' <=> g \in Issued \/ g = f
         /\ <<f>> \in Seq(Fragment) /\ Len(<<f>>) = 1 /\ <<f>>[1] = f /\ Transmit(<<f>>)
         /\ radio' \in Seq(Transmission) /\ ~ OnRadio(f) /\ ~ InQueue(f) /\ f \notin unsaved
         /\ \A g : OnRadio(g)' <=> OnRadio(g) \/ g = f
         /\ \A g : InQueue(g)' <=> InQueue(g)
<1> DEFINE fs == <<f>>
<1>1. /\ Fragment' = Fragment /\ f \in Fragment \ Issued
      /\ \A g \in Fragment : g \in Issued' <=> g \in Issued \/ g = f
  BY FollowingIssues DEF TransmitPart
<1>2. fs \in Seq(Fragment) /\ Len(fs) = 1 /\ fs[1] = f
  BY <1>1
<1>3. Transmit(fs)
  BY DEF TransmitPart
<1> HIDE DEF fs
<1>4. radio' \in Seq(Transmission)
  BY <1>2, <1>3, TransmitAdds
<1>5. \A g : OnRadio(g)' <=> OnRadio(g) \/ \E k \in 1 .. Len(fs) : fs[k] = g
  BY <1>2, <1>3, RadioHas
<1>6. \A g : OnRadio(g)' <=> OnRadio(g) \/ g = f
  BY <1>2, <1>5
<1>7. ~ OnRadio(f) /\ ~ InQueue(f) /\ f \notin unsaved
  BY <1>1, Zenon DEF Once
<1>8. \A g : InQueue(g)' <=> InQueue(g)
  BY DEF InQueue, TransmitPart, Has
<1> QED BY <1>1, <1>2, <1>3, <1>4, <1>6, <1>7, <1>8, Zenon DEF fs

(* It was nowhere before.                                                  *)
LEMMA TransmitPartOnce ==
  ASSUME Typed, Once, TransmitPart
  PROVE  Once'
<1>0. PICK f : f = <<Len(msgs), part>>
  OBVIOUS
<1>1. /\ Fragment' = Fragment /\ f \in Fragment \ Issued
      /\ \A g \in Fragment : g \in Issued' <=> g \in Issued \/ g = f
      /\ <<f>> \in Seq(Fragment) /\ Len(<<f>>) = 1 /\ <<f>>[1] = f /\ Transmit(<<f>>)
      /\ ~ OnRadio(f) /\ ~ InQueue(f) /\ f \notin unsaved
      /\ \A g : OnRadio(g)' <=> OnRadio(g) \/ g = f
      /\ \A g : InQueue(g)' <=> InQueue(g)
  BY <1>0, TransmitPartMoves
<1>2. queue' = queue /\ unsaved' = unsaved
  BY DEF TransmitPart
<1>3. \A i, j \in DOMAIN radio' : radio'[i].frag = radio'[j].frag => i = j
  <2> DEFINE fs == <<f>>
  <2>1. fs \in Seq(Fragment) /\ Len(fs) = 1 /\ fs[1] = f /\ Transmit(fs)
    BY <1>1
  <2> HIDE DEF fs
  <2>2. \A i, j \in 1 .. Len(fs) : fs[i] = fs[j] => i = j
    BY <2>1
  <2>3. \A k \in 1 .. Len(fs) : ~ OnRadio(fs[k])
    BY <1>1, <2>1
  <2>4. \A i, j \in DOMAIN radio : radio[i].frag = radio[j].frag => i = j
    BY Zenon DEF Once
  <2> QED BY <2>1, <2>2, <2>3, <2>4, RadioOnce
<1>4. \A i, j \in DOMAIN queue' : queue'[i] = queue'[j] => i = j
  BY <1>2, Zenon DEF Once
<1>5. /\ \A g \in Fragment' : InQueue(g)' => ~ OnRadio(g)' /\ g \notin unsaved'
      /\ \A g \in Fragment' : OnRadio(g)' => g \notin unsaved'
      /\ \A g \in Fragment' : g \in Issued' <=> InQueue(g)' \/ OnRadio(g)' \/ g \in unsaved'
  BY <1>1, <1>2, Zenon DEF Once
<1> QED BY <1>3, <1>4, <1>5, Zenon DEF Once

(* What was dealt with of the message that main is at comes before the     *)
(* fragment that main is at.                                               *)
LEMMA IssuedBefore ==
  ASSUME Typed, pc # "prompt", NEW g \in Fragment, g \in Issued, g[1] = Len(msgs)
  PROVE  g[2] < part
<1>1. g[1] \in Nat
  BY FragmentType
<1> QED BY <1>1 DEF Issued

(* What is before it on the radio comes before it in the message, and none *)
(* of the message waits in the queue.                                      *)
LEMMA TransmitPartInOrder ==
  ASSUME Typed, Once, QueueInOrder, InOrder, TransmitPart
  PROVE  QueueInOrder' /\ InOrder'
<1>0. PICK f : f = <<Len(msgs), part>>
  OBVIOUS
<1>1. /\ Fragment' = Fragment /\ f \in Fragment \ Issued
      /\ <<f>> \in Seq(Fragment) /\ Len(<<f>>) = 1 /\ <<f>>[1] = f /\ Transmit(<<f>>)
      /\ radio' \in Seq(Transmission)
      /\ \A g : OnRadio(g)' <=> OnRadio(g) \/ g = f
      /\ \A g : InQueue(g)' <=> InQueue(g)
  BY <1>0, TransmitPartMoves
<1>2. queue' = queue /\ msgs' = msgs /\ pc = "transmit" /\ pc' \in {"prompt", "transmit"}
  BY DEF TransmitPart, Following
<1>3. f[1] = Len(msgs) /\ f[2] = part
  BY <1>0
<1>4. \A g : OnRadio(g) => g \in Fragment
  BY OnRadioType DEF OnRadio
<1>5. \A g : OnRadio(g) /\ g[1] = f[1] => g[2] < f[2]
  BY <1>2, <1>3, <1>4, IssuedBefore DEF Once
<1>6. \A g, h : OnRadio(g) /\ InQueue(h) /\ g[1] = h[1] => g[2] < h[2]
  <2>1. DOMAIN queue = 1 .. Len(queue)
    BY DEF Typed
  <2> QED BY <2>1 DEF QueueInOrder, OnRadio, InQueue, Has
<1>7. \A h : InQueue(h) => h[1] # f[1]
  BY <1>2, <1>3 DEF QueueInOrder
<1>8. ASSUME NEW n \in DOMAIN radio', NEW i \in DOMAIN queue', radio'[n].frag[1] = queue'[i][1]
      PROVE  radio'[n].frag[2] < queue'[i][2]
  <2>0. PICK g, h : g = radio'[n].frag /\ h = queue[i]
    OBVIOUS
  <2>1. OnRadio(g)' /\ InQueue(h)
    <3>1. DOMAIN queue = 1 .. Len(queue)
      BY DEF Typed
    <3> QED BY <1>2, <2>0, <3>1 DEF OnRadio, InQueue, Has
  <2>2. g[1] = h[1]
    BY <1>2, <1>8, <2>0
  <2> QED BY <1>1, <1>2, <1>6, <1>7, <2>0, <2>1, <2>2
<1>9. ASSUME NEW n \in DOMAIN radio', NEW m \in DOMAIN radio', n < m,
             radio'[n].frag[1] = radio'[m].frag[1]
      PROVE  radio'[n].frag[2] < radio'[m].frag[2]
  <2>1. \A k \in DOMAIN radio' : \/ k \in DOMAIN radio /\ radio'[k] = radio[k]
                                 \/ k = Len(radio) + 1 /\ radio'[k].frag = f
    <3> DEFINE fs == <<f>>
    <3>1. fs \in Seq(Fragment) /\ Len(fs) = 1 /\ fs[1] = f /\ Transmit(fs)
      BY <1>1
    <3> HIDE DEF fs
    <3>2. \A k \in DOMAIN radio' : \/ k \in DOMAIN radio /\ radio'[k] = radio[k]
                                   \/ \E l \in 1 .. Len(fs) : k = Len(radio) + l /\ radio'[k].frag = fs[l]
      BY <3>1, RadioPlaces
    <3>3. \A l \in 1 .. Len(fs) : l = 1
      BY <3>1
    <3> QED BY <3>1, <3>2, <3>3
  <2>2. DOMAIN radio = 1 .. Len(radio) /\ Len(radio) \in Nat
        /\ DOMAIN radio' = 1 .. Len(radio') /\ Len(radio') \in Nat
    BY <1>1 DEF Typed
  <2>3. n \in DOMAIN radio /\ radio'[n] = radio[n]
    <3>1. n # Len(radio) + 1
      BY <1>9, <2>1, <2>2
    <3> QED BY <2>1, <3>1
  <2>4. CASE m \in DOMAIN radio /\ radio'[m] = radio[m]
    BY <1>9, <2>3, <2>4 DEF InOrder
  <2>5. CASE radio'[m].frag = f
    BY <1>5, <1>9, <2>3, <2>5 DEF OnRadio
  <2> QED BY <2>1, <2>4, <2>5
<1>10. QueueInOrder'
  BY <1>1, <1>2, <1>8, Zenon DEF QueueInOrder
<1>11. InOrder'
  BY <1>9, Zenon DEF InOrder
<1> QED BY <1>10, <1>11

(* A fragment missed is one whose target was reachable, and so heard of.   *)
LEMMA TransmitPartRest ==
  ASSUME Typed, Once, ReachableHeardOf, MissedOnlyIfHeardOf, OneMessageWaits, TransmitPart
  PROVE  ReachableHeardOf' /\ MissedOnlyIfHeardOf' /\ OneMessageWaits'
<1>0. PICK f : f = <<Len(msgs), part>>
  OBVIOUS
<1>1. /\ Fragment' = Fragment /\ f \in Fragment
      /\ <<f>> \in Seq(Fragment) /\ Len(<<f>>) = 1 /\ <<f>>[1] = f /\ Transmit(<<f>>)
  BY <1>0, TransmitPartMoves
<1>2. /\ queue' = queue /\ msgs' = msgs /\ pc = "transmit" /\ pc' \in {"prompt", "transmit"}
      /\ known' = known /\ route' = route /\ heardOf' = heardOf
  BY DEF TransmitPart, Following
<1>3. ReachableHeardOf'
  BY <1>2 DEF ReachableHeardOf
<1>4. MissedOnlyIfHeardOf'
  <2> SUFFICES ASSUME NEW n \in DOMAIN radio', radio'[n].effect = "missed"
               PROVE  msgs[radio'[n].frag[1]].to \in heardOf
    BY <1>2 DEF MissedOnlyIfHeardOf, To
  <2> DEFINE fs == <<f>>
  <2>1. fs \in Seq(Fragment) /\ Len(fs) = 1 /\ fs[1] = f /\ Transmit(fs)
    BY <1>1
  <2> HIDE DEF fs
  <2>2. CASE n \in DOMAIN radio /\ radio'[n] = radio[n]
    BY <2>2 DEF MissedOnlyIfHeardOf, To
  <2>3. ASSUME NEW k \in 1 .. Len(fs), n = Len(radio) + k, radio'[n].frag = fs[k]
        PROVE  msgs[radio'[n].frag[1]].to \in heardOf
    <3>1. radio'[n].frag = f /\ f[1] = Len(msgs)
      BY <1>0, <2>1, <2>3
    <3> QED BY <1>2, <3>1 DEF ReachableHeardOf
  <2> QED BY <2>1, <2>2, <2>3, RadioPlaces
<1>5. OneMessageWaits'
  <2>1. \A q, g : Straggles(q, g)' <=> Straggles(q, g)
    BY <1>2 DEF Straggles, InQueue, Has, To
  <2> QED BY <1>1, <1>2, <2>1, Zenon DEF OneMessageWaits
<1> QED BY <1>3, <1>4, <1>5

-----------------------------------------------------------------------------
(* The loop of the command send that enqueues.                             *)

(* The fragment that main is at goes to the end of the queue, or is        *)
(* refused.                                                                *)
LEMMA EnqueuePartMoves ==
  ASSUME Typed, Once, EnqueuePart, NEW f, f = <<Len(msgs), part>>
  PROVE  /\ Fragment' = Fragment /\ f \in Fragment \ Issued
         /\ \A g \in Fragment : g \in Issued' <=> g \in Issued \/ g = f
         /\ queue' \in Seq(Fragment) /\ ~ OnRadio(f) /\ ~ InQueue(f) /\ f \notin unsaved
         /\ radio' = radio /\ \A g : OnRadio(g)' <=> OnRadio(g)
         /\ \/ /\ unsaved' = unsaved /\ Len(queue') = Len(queue) + 1
               /\ \A i \in 1 .. Len(queue) : queue'[i] = queue[i]
               /\ queue'[Len(queue) + 1] = f
               /\ \A g : InQueue(g)' <=> InQueue(g) \/ g = f
            \/ /\ unsaved' = unsaved \cup {f} /\ queue' = queue
               /\ \A g : InQueue(g)' <=> InQueue(g)
<1>1. /\ Fragment' = Fragment /\ f \in Fragment \ Issued
      /\ \A g \in Fragment : g \in Issued' <=> g \in Issued \/ g = f
  BY FollowingIssues DEF EnqueuePart
<1>2. ~ OnRadio(f) /\ ~ InQueue(f) /\ f \notin unsaved
  BY <1>1, Zenon DEF Once
<1>3. radio' = radio /\ \A g : OnRadio(g)' <=> OnRadio(g)
  BY DEF EnqueuePart, OnRadio
<1>4. CASE queue' = Append(queue, f) /\ unsaved' = unsaved
  <2> DEFINE T == Fragment
             q == queue
  <2>1. q \in Seq(T) /\ f \in T
    BY <1>1 DEF Typed
  <2> HIDE DEF T, q
  <2>2. /\ Append(q, f) \in Seq(T) /\ Len(Append(q, f)) = Len(q) + 1
        /\ \A i \in 1 .. Len(q) : Append(q, f)[i] = q[i]
        /\ Append(q, f)[Len(q) + 1] = f
        /\ \A y : Has(Append(q, f), y) <=> Has(q, y) \/ y = f
    BY <2>1, OneAppended
  <2>3. /\ queue' \in Seq(Fragment) /\ Len(queue') = Len(queue) + 1
        /\ \A i \in 1 .. Len(queue) : queue'[i] = queue[i]
        /\ queue'[Len(queue) + 1] = f
        /\ \A g : Has(queue', g) <=> Has(queue, g) \/ g = f
    BY <1>4, <2>2, Zenon DEF T, q
  <2> QED BY <1>1, <1>2, <1>3, <1>4, <2>3, Zenon DEF InQueue
<1>5. CASE queue' = queue /\ unsaved' = unsaved \cup {f}
  <2>1. queue' \in Seq(Fragment) /\ \A g : InQueue(g)' <=> InQueue(g)
    BY <1>5 DEF Typed, InQueue, Has
  <2> QED BY <1>1, <1>2, <1>3, <1>5, <2>1, Zenon
<1> QED BY <1>4, <1>5, Zenon DEF EnqueuePart

(* It was nowhere before.                                                  *)
LEMMA EnqueuePartOnce ==
  ASSUME Typed, Once, EnqueuePart
  PROVE  Once'
<1>0. PICK f : f = <<Len(msgs), part>>
  OBVIOUS
<1>1. /\ Fragment' = Fragment /\ f \in Fragment \ Issued
      /\ \A g \in Fragment : g \in Issued' <=> g \in Issued \/ g = f
      /\ queue' \in Seq(Fragment) /\ ~ OnRadio(f) /\ ~ InQueue(f) /\ f \notin unsaved
      /\ radio' = radio /\ \A g : OnRadio(g)' <=> OnRadio(g)
      /\ \/ /\ unsaved' = unsaved /\ Len(queue') = Len(queue) + 1
            /\ \A i \in 1 .. Len(queue) : queue'[i] = queue[i]
            /\ queue'[Len(queue) + 1] = f
            /\ \A g : InQueue(g)' <=> InQueue(g) \/ g = f
         \/ /\ unsaved' = unsaved \cup {f} /\ queue' = queue
            /\ \A g : InQueue(g)' <=> InQueue(g)
  BY <1>0, EnqueuePartMoves
<1>2. DOMAIN queue' = 1 .. Len(queue') /\ DOMAIN queue = 1 .. Len(queue) /\ Len(queue) \in Nat
  BY <1>1 DEF Typed
<1>3. \A i, j \in DOMAIN queue' : queue'[i] = queue'[j] => i = j
  <2>1. CASE queue' = queue
    BY <2>1, Zenon DEF Once
  <2>2. CASE /\ Len(queue') = Len(queue) + 1
             /\ \A i \in 1 .. Len(queue) : queue'[i] = queue[i]
             /\ queue'[Len(queue) + 1] = f
    <3>1. \A i \in DOMAIN queue' : (i \in DOMAIN queue /\ queue'[i] = queue[i]) \/ i = Len(queue) + 1
      BY <1>2, <2>2
    <3>2. \A i \in DOMAIN queue : queue[i] # f
      BY <1>1, <1>2 DEF InQueue, Has
    <3>3. \A i, j \in DOMAIN queue : queue[i] = queue[j] => i = j
      BY Zenon DEF Once
    <3> QED BY <2>2, <3>1, <3>2, <3>3, Zenon
  <2> QED BY <1>1, <2>1, <2>2
<1>4. \A i, j \in DOMAIN radio' : radio'[i].frag = radio'[j].frag => i = j
  BY <1>1, Zenon DEF Once
<1>5. /\ \A g \in Fragment' : InQueue(g)' => ~ OnRadio(g)' /\ g \notin unsaved'
      /\ \A g \in Fragment' : OnRadio(g)' => g \notin unsaved'
      /\ \A g \in Fragment' : g \in Issued' <=> InQueue(g)' \/ OnRadio(g)' \/ g \in unsaved'
  <2>1. /\ \A g \in Fragment : InQueue(g) => ~ OnRadio(g) /\ g \notin unsaved
        /\ \A g \in Fragment : OnRadio(g) => g \notin unsaved
        /\ \A g \in Fragment : g \in Issued <=> InQueue(g) \/ OnRadio(g) \/ g \in unsaved
    BY Zenon DEF Once
  <2> QED BY <1>1, <2>1
<1> QED BY <1>3, <1>4, <1>5, Zenon DEF Once

(* What is before it in the queue or on the radio comes before it in the   *)
(* message.                                                                *)
LEMMA EnqueuePartInOrder ==
  ASSUME Typed, Once, QueueInOrder, InOrder, EnqueuePart
  PROVE  QueueInOrder' /\ InOrder'
<1>0. PICK f : f = <<Len(msgs), part>>
  OBVIOUS
<1>1. /\ f \in Fragment \ Issued /\ queue' \in Seq(Fragment) /\ radio' = radio
      /\ \/ /\ Len(queue') = Len(queue) + 1
            /\ \A i \in 1 .. Len(queue) : queue'[i] = queue[i]
            /\ queue'[Len(queue) + 1] = f
         \/ queue' = queue
  BY <1>0, EnqueuePartMoves
<1>2. /\ DOMAIN queue' = 1 .. Len(queue') /\ DOMAIN queue = 1 .. Len(queue) /\ Len(queue) \in Nat
      /\ DOMAIN radio = 1 .. Len(radio)
  BY <1>1 DEF Typed
<1>3. msgs' = msgs /\ pc = "enqueue" /\ pc' # "transmit" /\ f[1] = Len(msgs) /\ f[2] = part
  BY <1>0 DEF EnqueuePart, Following
<1>4. \A g : g \in Fragment /\ (InQueue(g) \/ OnRadio(g)) /\ g[1] = f[1] => g[2] < f[2]
  BY <1>3, IssuedBefore DEF Once
<1>5. \A i \in DOMAIN queue : queue[i] \in Fragment /\ InQueue(queue[i])
  BY <1>2 DEF Typed, InQueue, Has
<1>6. \A n \in DOMAIN radio : radio[n].frag \in Fragment /\ OnRadio(radio[n].frag)
  BY OnRadioType DEF OnRadio
<1>7. \A i \in DOMAIN queue' : \/ i \in DOMAIN queue /\ queue'[i] = queue[i]
                               \/ i = Len(queue) + 1 /\ queue'[i] = f
  <2>1. CASE queue' = queue
    BY <2>1
  <2>2. CASE /\ Len(queue') = Len(queue) + 1
             /\ \A i \in 1 .. Len(queue) : queue'[i] = queue[i]
             /\ queue'[Len(queue) + 1] = f
    <3>1. \A i \in 1 .. Len(queue') : i \in 1 .. Len(queue) \/ i = Len(queue) + 1
      BY <1>2, <2>2
    <3> QED BY <1>2, <2>2, <3>1, Zenon
  <2> QED BY <1>1, <2>1, <2>2
<1>8. \A i, j \in DOMAIN queue' :
        (i < j /\ queue'[i][1] = queue'[j][1]) => queue'[i][2] < queue'[j][2]
  <2> SUFFICES ASSUME NEW i \in DOMAIN queue', NEW j \in DOMAIN queue', i < j,
                      queue'[i][1] = queue'[j][1]
               PROVE  queue'[i][2] < queue'[j][2]
    OBVIOUS
  <2>1. i \in DOMAIN queue /\ queue'[i] = queue[i]
    <3>1. i # Len(queue) + 1
      BY <1>2, <1>7
    <3> QED BY <1>7, <3>1
  <2> QED BY <1>4, <1>5, <1>7, <2>1 DEF QueueInOrder
<1>9. \A n \in DOMAIN radio', i \in DOMAIN queue' :
        radio'[n].frag[1] = queue'[i][1] => radio'[n].frag[2] < queue'[i][2]
  BY <1>1, <1>4, <1>6, <1>7, Zenon DEF QueueInOrder
<1>10. QueueInOrder'
  BY <1>3, <1>8, <1>9, Zenon DEF QueueInOrder
<1>11. InOrder'
  BY <1>1, Zenon DEF InOrder
<1> QED BY <1>10, <1>11

(* It is of the message that main is at.                                   *)
LEMMA EnqueuePartRest ==
  ASSUME Typed, Once, ReachableHeardOf, MissedOnlyIfHeardOf, OneMessageWaits, EnqueuePart
  PROVE  ReachableHeardOf' /\ MissedOnlyIfHeardOf' /\ OneMessageWaits'
<1>0. PICK f : f = <<Len(msgs), part>>
  OBVIOUS
<1>1. /\ Fragment' = Fragment /\ f \in Fragment /\ radio' = radio
      /\ \A g : InQueue(g)' => InQueue(g) \/ g = f
  BY <1>0, EnqueuePartMoves
<1>2. /\ msgs' = msgs /\ pc = "enqueue" /\ pc' \in {"prompt", "enqueue"}
      /\ known' = known /\ route' = route /\ heardOf' = heardOf /\ f[1] = Len(msgs)
  BY <1>0 DEF EnqueuePart, Following
<1>3. ReachableHeardOf'
  BY <1>2 DEF ReachableHeardOf
<1>4. MissedOnlyIfHeardOf'
  BY <1>1, <1>2, Zenon DEF MissedOnlyIfHeardOf, To
<1>5. OneMessageWaits'
  <2>1. \A p, g : Straggles(p, g)' =>
          \/ Straggles(p, g)
          \/ g = f /\ msgs[Len(msgs)].to = p /\ msgs[Len(msgs)].canonical
    BY <1>1, <1>2 DEF Straggles, To
  <2> SUFFICES ASSUME NEW p \in known
               PROVE  /\ \A g, h \in Fragment : Straggles(p, g)' /\ Straggles(p, h)' => g[1] = h[1]
                      /\ (msgs[Len(msgs)].to = p /\ msgs[Len(msgs)].canonical)
                           => \A g \in Fragment : Straggles(p, g)' => g[1] = Len(msgs)
    BY <1>1, <1>2 DEF OneMessageWaits
  <2>2. \A g, h \in Fragment : Straggles(p, g) /\ Straggles(p, h) => g[1] = h[1]
    BY Zenon DEF OneMessageWaits
  <2>3. (msgs[Len(msgs)].to = p /\ msgs[Len(msgs)].canonical)
           => \A g \in Fragment : Straggles(p, g) => g[1] = Len(msgs)
    BY <1>2, Zenon DEF OneMessageWaits
  <2>4. CASE msgs[Len(msgs)].to = p /\ msgs[Len(msgs)].canonical
    <3>1. ASSUME NEW g \in Fragment, Straggles(p, g)' PROVE g[1] = Len(msgs)
      <4>1. CASE Straggles(p, g)
        BY <2>3, <2>4, <4>1
      <4>2. CASE g = f
        BY <1>2, <4>2
      <4> QED BY <2>1, <3>1, <4>1, <4>2, Zenon
    <3> QED BY <2>4, <3>1, Zenon
  <2>5. CASE ~ (msgs[Len(msgs)].to = p /\ msgs[Len(msgs)].canonical)
    BY <2>1, <2>2, <2>5, Zenon
  <2> QED BY <2>4, <2>5
<1> QED BY <1>3, <1>4, <1>5

-----------------------------------------------------------------------------
(* The look-up of the command send: a message whose fragments are nowhere  *)
(* yet.                                                                    *)

(* All fragments before are dealt with; none of the new message is, and    *)
(* none of them has moved.                                                 *)
LEMMA LookupMoves ==
  ASSUME Typed, NEW p \in Peer, NEW size \in Sizes, NEW canonical \in BOOLEAN,
         Lookup(p, size, canonical)
  PROVE  /\ msgs' \in Seq(Message) /\ Len(msgs') = Len(msgs) + 1 /\ Len(msgs) \in Nat
         /\ msgs'[Len(msgs')] = [to |-> p, size |-> size, canonical |-> canonical]
         /\ Fragment \subseteq Fragment'
         /\ \A f \in Fragment' : f \in Fragment \/ f[1] = Len(msgs')
         /\ \A f \in Fragment : /\ f[1] < Len(msgs') /\ f[1] # Len(msgs') /\ To(f)' = To(f)
                                 /\ msgs'[f[1]] = msgs[f[1]]
         /\ \A f \in Fragment' : f \in Issued' <=> f \in Fragment
         /\ Issued = Fragment
         /\ \A f : InQueue(f)' <=> InQueue(f)
         /\ \A f : OnRadio(f)' <=> OnRadio(f)
         /\ \A f : InQueue(f) \/ OnRadio(f) \/ f \in unsaved => f \in Fragment
<1> DEFINE m == [to |-> p, size |-> size, canonical |-> canonical]
<1>1. m \in Message /\ msgs' = Append(msgs, m)
  BY DEF Lookup, Message
<1>2. msgs' \in Seq(Message)
  <2> HIDE DEF m
  <2> QED BY <1>1 DEF Typed
<1>3. /\ Len(msgs') = Len(msgs) + 1 /\ msgs'[Len(msgs')] = m
      /\ \A i \in 1 .. Len(msgs) : msgs'[i] = msgs[i]
      /\ Fragment \subseteq Fragment'
      /\ \A f \in Fragment' : f \in Fragment \/ f[1] = Len(msgs')
      /\ \A f \in Fragment : f[1] < Len(msgs') /\ To(f)' = To(f)
  <2> HIDE DEF m
  <2> QED BY <1>1, MoreFragments
<1>4. Len(msgs) \in Nat
  BY DEF Typed
<1>5. \A f \in Fragment : f[1] \in 1 .. Len(msgs)
  BY FragmentType
<1>6. \A f \in Fragment : f[1] # Len(msgs') /\ msgs'[f[1]] = msgs[f[1]]
  BY <1>3, <1>4, <1>5
<1>7. ASSUME NEW f \in Fragment' PROVE f \in Issued' <=> f \in Fragment
  <2>1. pc' # "prompt" /\ part' = 1
    BY DEF Lookup
  <2>2. f \in Issued' <=> f[1] < Len(msgs') \/ f[2] < 1
    BY <2>1 DEF Issued
  <2>3. CASE f \in Fragment
    BY <1>3, <2>2, <2>3
  <2>4. CASE f \notin Fragment
    <3>1. PICK i \in DOMAIN msgs' : \E k \in 1 .. msgs'[i].size : f = <<i, k>>
      BY DEF Fragment
    <3>2. PICK k \in 1 .. msgs'[i].size : f = <<i, k>>
      BY <3>1
    <3>3. f[1] = Len(msgs') /\ ~ (f[2] < 1)
      BY <1>3, <2>4, <3>2
    <3> QED BY <1>3, <1>4, <2>2, <2>4, <3>3
  <2> QED BY <2>3, <2>4
<1>8. Issued = Fragment
  BY DEF Issued, Lookup
<1>9. (\A f : InQueue(f)' <=> InQueue(f)) /\ (\A f : OnRadio(f)' <=> OnRadio(f))
  BY DEF Lookup, InQueue, OnRadio, Has
<1>10. \A f : InQueue(f) \/ OnRadio(f) \/ f \in unsaved => f \in Fragment
  <2>1. \A f : InQueue(f) => f \in Fragment
    BY DEF Typed, InQueue, Has
  <2>2. \A f : OnRadio(f) => f \in Fragment
    BY OnRadioType DEF OnRadio
  <2> QED BY <2>1, <2>2 DEF Typed
<1> QED BY <1>2, <1>3, <1>4, <1>6, <1>7, <1>8, <1>9, <1>10

(* The fragments of the new message are nowhere.                           *)
LEMMA LookupOnce ==
  ASSUME Typed, Once, NEW p \in Peer, NEW size \in Sizes, NEW canonical \in BOOLEAN,
         Lookup(p, size, canonical)
  PROVE  Once'
<1>1. /\ Fragment \subseteq Fragment'
      /\ \A f \in Fragment' : f \in Issued' <=> f \in Fragment
      /\ Issued = Fragment
      /\ \A f : InQueue(f)' <=> InQueue(f)
      /\ \A f : OnRadio(f)' <=> OnRadio(f)
      /\ \A f : InQueue(f) \/ OnRadio(f) \/ f \in unsaved => f \in Fragment
  BY LookupMoves
<1>2. queue' = queue /\ radio' = radio /\ unsaved' = unsaved
  BY DEF Lookup
<1>3. /\ \A i, j \in DOMAIN queue' : queue'[i] = queue'[j] => i = j
      /\ \A i, j \in DOMAIN radio' : radio'[i].frag = radio'[j].frag => i = j
  BY <1>2, Zenon DEF Once
<1>4. /\ \A g \in Fragment' : InQueue(g)' => ~ OnRadio(g)' /\ g \notin unsaved'
      /\ \A g \in Fragment' : OnRadio(g)' => g \notin unsaved'
      /\ \A g \in Fragment' : g \in Issued' <=> InQueue(g)' \/ OnRadio(g)' \/ g \in unsaved'
  BY <1>1, <1>2, Zenon DEF Once
<1> QED BY <1>3, <1>4, Zenon DEF Once

(* Whoever was not a neighbour at the look-up is what the message waits    *)
(* for; a neighbour's message does not wait.                               *)
LEMMA LookupRest ==
  ASSUME Typed, Once, QueueInOrder, InOrder, ReachableHeardOf, MissedOnlyIfHeardOf, OneMessageWaits,
         NEW p \in Peer, NEW size \in Sizes, NEW canonical \in BOOLEAN,
         Lookup(p, size, canonical)
  PROVE  QueueInOrder' /\ InOrder' /\ ReachableHeardOf' /\ MissedOnlyIfHeardOf' /\ OneMessageWaits'
<1>1. /\ msgs'[Len(msgs')] = [to |-> p, size |-> size, canonical |-> canonical]
      /\ \A f \in Fragment : /\ f[1] # Len(msgs') /\ To(f)' = To(f)
                              /\ msgs'[f[1]] = msgs[f[1]]
      /\ \A f : InQueue(f)' <=> InQueue(f)
      /\ \A f : InQueue(f) \/ OnRadio(f) \/ f \in unsaved => f \in Fragment
  BY LookupMoves
<1>2. /\ queue' = queue /\ radio' = radio /\ known' = known /\ route' = route /\ heardOf' = heardOf
      /\ pc' = IF Reachable(p, canonical) THEN "transmit" ELSE "enqueue"
  BY DEF Lookup
<1>3. QueueInOrder'
  <2>1. pc' = "transmit" => \A f : InQueue(f)' => f[1] # Len(msgs')
    BY <1>1, Zenon
  <2> QED BY <1>2, <2>1, Zenon DEF QueueInOrder
<1>4. InOrder'
  BY <1>2, Zenon DEF InOrder
<1>5. ReachableHeardOf'
  BY <1>1, <1>2 DEF ReachableHeardOf, Reachable
<1>6. MissedOnlyIfHeardOf'
  BY <1>1, <1>2, OnRadioType DEF MissedOnlyIfHeardOf, To
<1>7. OneMessageWaits'
  <2>1. \A q, f : Straggles(q, f)' <=> Straggles(q, f)
    BY <1>1 DEF Straggles, To
  <2>2. \A q, f : Straggles(q, f) => f \in Fragment
    BY <1>1 DEF Straggles
  <2>3. \A q \in known' : ~ (pc' = "enqueue" /\ msgs'[Len(msgs')].to = q /\ msgs'[Len(msgs')].canonical)
    BY <1>1, <1>2 DEF Reachable
  <2>4. \A q \in known' : \A f, g \in Fragment' : Straggles(q, f)' /\ Straggles(q, g)' => f[1] = g[1]
    BY <1>2, <2>1, <2>2, Zenon DEF OneMessageWaits
  <2> QED BY <2>3, <2>4, Zenon DEF OneMessageWaits
<1> QED BY <1>3, <1>4, <1>5, <1>6, <1>7

-----------------------------------------------------------------------------
(* Types, and the steps that leave the fragments where they are.           *)

(* add_route makes no route fresh but that of its destination.             *)
LEMMA AddRouteType ==
  ASSUME NEW r \in [Peer -> Entry], NEW p \in Peer, NEW hops \in Nat
  PROVE  /\ AddRoute(r, p, hops) \in [Peer -> Entry]
         /\ \A q \in Peer : AddRoute(r, p, hops)[q].fresh => r[q].fresh \/ q = p
<1>1. [hops |-> hops, fresh |-> TRUE] \in Entry
  BY DEF Entry
<1> QED BY <1>1 DEF AddRoute

(* What the handlers of the three kinds of packet do to the routes.        *)
LEMMA ContactType ==
  ASSUME Typed, ReachableHeardOf, NEW p \in Peer
  PROVE  /\ Contact(p) \in [Peer -> Entry]
         /\ \A q \in Peer : Contact(p)[q].fresh => q \in heardOf \cup {p}
<1>1. route \in [Peer -> Entry] /\ 1 \in Nat /\ \A q \in Peer : route[q].fresh => q \in heardOf
  BY DEF Typed, ReachableHeardOf
<1>2. /\ AddRoute(route, p, 1) \in [Peer -> Entry]
      /\ \A q \in Peer : AddRoute(route, p, 1)[q].fresh => route[q].fresh \/ q = p
  BY <1>1, AddRouteType
<1> QED BY <1>1, <1>2 DEF Contact

(* Whoever has a fresh route was heard of.                                 *)
LEMMA HandlerRoutes ==
  ASSUME Typed, ReachableHeardOf, NEW p \in Peer, NEW listed \in Listed,
         HearOther(p) \/ HearData(p) \/ HearRouteAdv(p, listed)
  PROVE  /\ Heard(p) /\ route' \in [Peer -> Entry]
         /\ heardOf \cup {p} \subseteq heardOf' /\ heardOf' \subseteq Peer
         /\ \A q \in Peer : route'[q].fresh => q \in heardOf'
<1>1. /\ Contact(p) \in [Peer -> Entry]
      /\ \A q \in Peer : Contact(p)[q].fresh => q \in heardOf \cup {p}
  BY ContactType
<1>2. CASE HearOther(p) \/ HearData(p)
  BY <1>1, <1>2 DEF HearOther, HearData, Typed
<1>3. CASE HearRouteAdv(p, listed)
  <2>1. /\ route' = [q \in Peer |-> IF q \in listed THEN AddRoute(Contact(p), q, 2)[q] ELSE Contact(p)[q]]
        /\ heardOf' = heardOf \cup {p} \cup listed /\ Heard(p)
    BY <1>3, Zenon DEF HearRouteAdv
  <2>2. listed \subseteq Peer /\ 2 \in Nat
    BY DEF Listed
  <2>3. \A q \in Peer : /\ AddRoute(Contact(p), q, 2) \in [Peer -> Entry]
                        /\ AddRoute(Contact(p), q, 2)[q] \in Entry
    BY <1>1, <2>2, AddRouteType
  <2>4. \A q \in Peer : Contact(p)[q] \in Entry
    BY <1>1
  <2>5. route' \in [Peer -> Entry]
    BY <2>1, <2>3, <2>4
  <2>6. \A q \in Peer : route'[q].fresh => q \in heardOf'
    <3> SUFFICES ASSUME NEW q \in Peer, route'[q].fresh PROVE q \in heardOf'
      OBVIOUS
    <3>1. CASE q \in listed
      BY <2>1, <3>1
    <3>2. CASE q \notin listed
      BY <1>1, <2>1, <3>2
    <3> QED BY <3>1, <3>2
  <2>7. heardOf' \subseteq Peer
    BY <2>1, <2>2 DEF Typed
  <2> QED BY <2>1, <2>5, <2>6, <2>7
<1> QED BY <1>2, <1>3

(* The handler of a packet.                                                *)
LEMMA HandlerKeeps ==
  ASSUME Inv, NEW p \in Peer, NEW listed \in Listed,
         HearOther(p) \/ HearData(p) \/ HearRouteAdv(p, listed)
  PROVE  Inv'
<1>0. Typed /\ Once /\ QueueInOrder /\ InOrder /\ ReachableHeardOf /\ MissedOnlyIfHeardOf /\ OneMessageWaits
  BY DEF Inv
<1>1. /\ Heard(p) /\ route' \in [Peer -> Entry]
      /\ heardOf \cup {p} \subseteq heardOf' /\ heardOf' \subseteq Peer
      /\ \A q \in Peer : route'[q].fresh => q \in heardOf'
  BY <1>0, HandlerRoutes
<1>2. /\ Fragment' = Fragment /\ queue' \in Seq(Fragment) /\ radio' \in Seq(Transmission)
  BY <1>0, <1>1, HeardMoves
<1>3. /\ msgs' = msgs /\ pc' = pc /\ part' = part /\ online' = online /\ unsaved' = unsaved
      /\ known' = known \cup {p}
  BY <1>1 DEF Heard, main
<1>4. Typed'
  <2>1. radio' \in Seq(Transmission)'
    BY <1>2 DEF Transmission
  <2> QED BY <1>0, <1>1, <1>2, <1>3, <2>1 DEF Typed
<1>5. ReachableHeardOf'
  BY <1>0, <1>1, <1>3 DEF ReachableHeardOf
<1>6. Once' /\ QueueInOrder' /\ InOrder' /\ MissedOnlyIfHeardOf' /\ OneMessageWaits'
  BY <1>0, <1>1, HeardOnce, HeardInOrder, HeardMissesNothing, HeardStragglers
<1> QED BY <1>4, <1>5, <1>6 DEF Inv

(* Steps of the environment, and stuttering.                               *)
LEMMA EnvironmentKeeps ==
  ASSUME Inv, online' \subseteq Peer, route' \in [Peer -> Entry],
         \A q \in Peer : route'[q].fresh => route[q].fresh,
         UNCHANGED <<known, heardOf, main, queue, radio, unsaved>>
  PROVE  Inv'
<1>0. Typed /\ Once /\ QueueInOrder /\ InOrder /\ ReachableHeardOf /\ MissedOnlyIfHeardOf /\ OneMessageWaits
  BY DEF Inv
<1>1. /\ known' = known /\ heardOf' = heardOf /\ msgs' = msgs /\ pc' = pc /\ part' = part
      /\ queue' = queue /\ radio' = radio /\ unsaved' = unsaved
  BY DEF main
<1>2. Fragment' = Fragment /\ Issued' = Issued
  BY <1>1, SameFragments DEF Issued
<1>3. (\A f : InQueue(f)' <=> InQueue(f)) /\ (\A f : OnRadio(f)' <=> OnRadio(f))
      /\ \A q, f : Straggles(q, f)' <=> Straggles(q, f)
  BY <1>1 DEF InQueue, OnRadio, Has, Straggles, To
<1>4. Typed'
  BY <1>0, <1>1, <1>2 DEF Typed, Transmission
<1>5. Once'
  BY <1>0, <1>1, <1>2, <1>3, Zenon DEF Once
<1>6. QueueInOrder' /\ InOrder'
  BY <1>0, <1>1, <1>3, Zenon DEF QueueInOrder, InOrder
<1>7. ReachableHeardOf'
  BY <1>0, <1>1 DEF ReachableHeardOf
<1>8. MissedOnlyIfHeardOf'
  BY <1>0, <1>1, Zenon DEF MissedOnlyIfHeardOf, To
<1>9. OneMessageWaits'
  BY <1>0, <1>1, <1>2, <1>3, Zenon DEF OneMessageWaits
<1> QED BY <1>4, <1>5, <1>6, <1>7, <1>8, <1>9 DEF Inv

(* The two loops of the command send.                                      *)
LEMMA MainKeeps ==
  ASSUME Inv, TransmitPart \/ EnqueuePart
  PROVE  Inv'
<1>0. Typed /\ Once /\ QueueInOrder /\ InOrder /\ ReachableHeardOf /\ MissedOnlyIfHeardOf /\ OneMessageWaits
  BY DEF Inv
<1>1. Following /\ pc # "prompt" /\ pc \in {"transmit", "enqueue"}
  BY DEF TransmitPart, EnqueuePart
<1>2. /\ Fragment' = Fragment
      /\ pc' \in {"prompt", pc} /\ part' \in Nat
      /\ pc' # "prompt" => part' \in 1 .. msgs[Len(msgs)].size
  BY <1>0, <1>1, FollowingIssues
<1>3. /\ queue' \in Seq(Fragment) /\ radio' \in Seq(Transmission) /\ unsaved' \subseteq Fragment
  <2>0. PICK f : f = <<Len(msgs), part>>
    OBVIOUS
  <2>1. queue \in Seq(Fragment) /\ radio \in Seq(Transmission) /\ unsaved \subseteq Fragment
    BY <1>0 DEF Typed
  <2>2. CASE TransmitPart
    <3>1. radio' \in Seq(Transmission)
      BY <1>0, <2>0, <2>2, TransmitPartMoves
    <3> QED BY <2>1, <2>2, <3>1 DEF TransmitPart
  <2>3. CASE EnqueuePart
    <3>1. /\ f \in Fragment /\ queue' \in Seq(Fragment) /\ radio' = radio
          /\ unsaved' = unsaved \/ unsaved' = unsaved \cup {f}
      BY <1>0, <2>0, <2>3, EnqueuePartMoves
    <3> QED BY <2>1, <3>1
  <2> QED BY <2>2, <2>3
<1>4. Typed'
  <2>1. Transmission' = Transmission
    BY <1>2 DEF Transmission
  <2> QED BY <1>0, <1>1, <1>2, <1>3, <2>1 DEF Typed, Following
<1>5. CASE TransmitPart
  BY <1>0, <1>4, <1>5, TransmitPartOnce, TransmitPartInOrder, TransmitPartRest DEF Inv
<1>6. CASE EnqueuePart
  BY <1>0, <1>4, <1>6, EnqueuePartOnce, EnqueuePartInOrder, EnqueuePartRest DEF Inv
<1> QED BY <1>5, <1>6

(* The look-up of the command send.                                        *)
LEMMA LookupKeeps ==
  ASSUME Inv, NEW p \in Peer, NEW size \in Sizes, NEW canonical \in BOOLEAN,
         Lookup(p, size, canonical)
  PROVE  Inv'
<1>0. Typed /\ Once /\ QueueInOrder /\ InOrder /\ ReachableHeardOf /\ MissedOnlyIfHeardOf /\ OneMessageWaits
  BY DEF Inv
<1>1. Typed'
  <2>1. /\ msgs' \in Seq(Message) /\ Len(msgs') = Len(msgs) + 1 /\ Len(msgs) \in Nat
        /\ msgs'[Len(msgs')] = [to |-> p, size |-> size, canonical |-> canonical]
        /\ Fragment \subseteq Fragment'
    BY <1>0, LookupMoves
  <2>2. /\ queue' = queue /\ radio' = radio /\ unsaved' = unsaved /\ part' = 1
        /\ online' = online /\ known' = known /\ heardOf' = heardOf /\ route' = route
        /\ pc' \in {"transmit", "enqueue"}
    BY DEF Lookup
  <2>3. Len(msgs') # 0 /\ 1 \in 1 .. msgs'[Len(msgs')].size
    BY <2>1, ConstAssumption
  <2>4. queue' \in Seq(Fragment)' /\ radio' \in Seq(Transmission)' /\ unsaved' \subseteq Fragment'
    <3>1. \A t : t \in Transmission => t \in Transmission'
      BY <2>1 DEF Transmission
    <3>2. queue' \in Seq(Fragment')
      BY <1>0, <2>1, <2>2 DEF Typed
    <3>3. radio' \in Seq(Transmission')
      <4> HIDE DEF Transmission
      <4> QED BY <1>0, <2>2, <3>1 DEF Typed
    <3> QED BY <1>0, <2>1, <2>2, <3>2, <3>3 DEF Typed
  <2> QED BY <1>0, <2>1, <2>2, <2>3, <2>4 DEF Typed
<1>2. Once'
  BY <1>0, LookupOnce
<1>3. QueueInOrder' /\ InOrder' /\ ReachableHeardOf' /\ MissedOnlyIfHeardOf' /\ OneMessageWaits'
  BY <1>0, LookupRest
<1> QED BY <1>1, <1>2, <1>3 DEF Inv

(* Nothing is sent yet.                                                    *)
LEMMA Initially == Init => Inv
<1> SUFFICES ASSUME Init PROVE Inv
  OBVIOUS
<1>1. /\ msgs = <<>> /\ queue = <<>> /\ radio = <<>> /\ unsaved = {} /\ known = {} /\ heardOf = {}
      /\ pc = "prompt" /\ part = 0 /\ route = [p \in Peer |-> NoEntry] /\ online \subseteq Peer
  BY DEF Init
<1>2. Fragment = {}
  BY <1>1 DEF Fragment
<1>3. Typed
  BY <1>1, <1>2 DEF Typed, NoEntry, Entry
<1>4. Once /\ QueueInOrder /\ InOrder /\ MissedOnlyIfHeardOf /\ OneMessageWaits
  BY <1>1, <1>2 DEF Once, QueueInOrder, InOrder, MissedOnlyIfHeardOf, OneMessageWaits, InQueue, Has
<1>5. ReachableHeardOf
  BY <1>1 DEF ReachableHeardOf, NoEntry
<1> QED BY <1>3, <1>4, <1>5 DEF Inv

(* Every step keeps the invariant.                                         *)
LEMMA Inductive == Inv /\ [Next]_vars => Inv'
<1> SUFFICES ASSUME Inv, [Next]_vars PROVE Inv'
  OBVIOUS
<1>0. online \subseteq Peer /\ route \in [Peer -> Entry]
  BY DEF Inv, Typed
<1>1. CASE Move
  BY <1>0, <1>1, EnvironmentKeeps DEF Move
<1>2. ASSUME NEW p \in Peer, Age(p) PROVE Inv'
  <2>1. route' \in [Peer -> Entry]
    BY <1>0, <1>2 DEF Age, Entry
  <2>2. \A q \in Peer : route'[q].fresh => route[q].fresh
    BY <1>0, <1>2 DEF Age
  <2>3. online' = online /\ UNCHANGED <<known, heardOf, main, queue, radio, unsaved>>
    BY <1>2 DEF Age
  <2> QED BY <1>0, <2>1, <2>2, <2>3, EnvironmentKeeps
<1>3. ASSUME NEW p \in Peer, HearOther(p) \/ HearData(p) PROVE Inv'
  <2>1. {} \in Listed
    BY DEF Listed
  <2> QED BY <1>3, <2>1, HandlerKeeps
<1>4. ASSUME NEW p \in Peer, NEW listed \in Listed, HearRouteAdv(p, listed) PROVE Inv'
  BY <1>4, HandlerKeeps
<1>5. ASSUME NEW p \in Peer, NEW size \in Sizes, NEW canonical \in BOOLEAN, Lookup(p, size, canonical)
      PROVE  Inv'
  BY <1>5, LookupKeeps
<1>6. CASE TransmitPart \/ EnqueuePart
  BY <1>6, MainKeeps
<1>7. CASE UNCHANGED vars
  <2>1. route' = route /\ online' = online /\ UNCHANGED <<known, heardOf, main, queue, radio, unsaved>>
    BY <1>7 DEF vars
  <2> QED BY <1>0, <2>1, EnvironmentKeeps
<1> QED BY <1>1, <1>2, <1>3, <1>4, <1>5, <1>6, <1>7 DEF Next

-----------------------------------------------------------------------------
(* The theorems.                                                           *)

(* The invariant holds: every fragment of the command send is where its    *)
(* loops and the handler have put it.                                      *)
THEOREM Invariance == Spec => []Inv
<1> QED BY Initially, Inductive, PTL DEF Spec

(* A set whose elements are equal has at most one.                         *)
LEMMA AtMostOne ==
  ASSUME NEW S, \A x, y \in S : x = y
  PROVE  Cardinality(S) = (IF S = {} THEN 0 ELSE 1)
<1>1. CASE S = {}
  BY <1>1, FS_EmptySet
<1>2. CASE S # {}
  <2>1. PICK x \in S : S = {x}
    BY <1>2
  <2> QED BY <1>2, <2>1, FS_Singleton
<1> QED BY <1>1, <1>2

(* A fragment that a command has dealt with is in one place, once.         *)
THEOREM OneWayAlways == Spec => []OneWay
<1>1. Inv => OneWay
  <2> SUFFICES ASSUME Typed, Once, NEW f \in Fragment
               PROVE  Cardinality({n \in DOMAIN queue : queue[n] = f}) + Attempts(f)
                        + (IF f \in unsaved THEN 1 ELSE 0) = IF f \in Issued THEN 1 ELSE 0
    BY DEF Inv, OneWay
  <2> DEFINE Q == {n \in DOMAIN queue : queue[n] = f}
             R == {n \in DOMAIN radio : radio[n].frag = f}
  <2>1. (\A x, y \in Q : x = y) /\ (\A x, y \in R : x = y)
    BY DEF Once
  <2>2. Q # {} <=> InQueue(f)
    BY DEF Typed, InQueue, Has
  <2>3. R # {} <=> OnRadio(f)
    BY DEF OnRadio
  <2>4. Attempts(f) = Cardinality(R)
    BY DEF Attempts
  <2>5. /\ InQueue(f) => ~ OnRadio(f) /\ f \notin unsaved
        /\ OnRadio(f) => f \notin unsaved
        /\ f \in Issued <=> InQueue(f) \/ OnRadio(f) \/ f \in unsaved
    BY Zenon DEF Once
  <2> HIDE DEF Q, R
  <2>6. /\ Cardinality(Q) = (IF Q = {} THEN 0 ELSE 1)
        /\ Cardinality(R) = (IF R = {} THEN 0 ELSE 1)
    BY <2>1, AtMostOne
  <2>7. Cardinality(Q) + Attempts(f) + (IF f \in unsaved THEN 1 ELSE 0)
          = IF f \in Issued THEN 1 ELSE 0
    BY <2>2, <2>3, <2>4, <2>5, <2>6
  <2> QED BY <2>7 DEF Q
<1> QED BY <1>1, Invariance, PTL

(* The fragments of a message pass the radio in order.                     *)
THEOREM InOrderAlways == Spec => []InOrder
<1>1. Inv => InOrder
  BY DEF Inv
<1> QED BY <1>1, Invariance, PTL

(* Only what goes to a peer that was heard of is transmitted into the void. *)
THEOREM MissedOnlyIfHeardOfAlways == Spec => []MissedOnlyIfHeardOf
<1>1. Inv => MissedOnlyIfHeardOf
  BY DEF Inv
<1> QED BY <1>1, Invariance, PTL

(* For a neighbour at most one message waits.                              *)
THEOREM OneStragglerAlways == Spec => []OneStraggler
<1>1. Inv => OneStraggler
  <2> SUFFICES ASSUME Typed, OneMessageWaits, NEW p \in known
               PROVE  Cardinality({f[1] : f \in {g \in Waiting(p) : msgs[g[1]].canonical}}) <= 1
    BY DEF Inv, OneStraggler
  <2> DEFINE S == {f[1] : f \in {g \in Waiting(p) : msgs[g[1]].canonical}}
  <2>1. \A f \in ToSet(queue) : InQueue(f) /\ f \in Fragment
    BY DEF Typed, InQueue, Has, ToSet
  <2>2. \A x \in S : \E f \in Fragment : Straggles(p, f) /\ x = f[1]
    BY <2>1 DEF Waiting, Straggles
  <2>3. \A f, g \in Fragment : Straggles(p, f) /\ Straggles(p, g) => f[1] = g[1]
    BY Zenon DEF OneMessageWaits
  <2> HIDE DEF S
  <2>4. \A x, y \in S : x = y
    BY <2>2, <2>3, Zenon
  <2>5. Cardinality(S) = IF S = {} THEN 0 ELSE 1
    BY <2>4, AtMostOne
  <2>6. Cardinality(S) <= 1
    BY <2>5
  <2> QED BY <2>6 DEF S
<1> QED BY <1>1, Invariance, PTL
=============================================================================
