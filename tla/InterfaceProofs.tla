-------------------------- MODULE InterfaceProofs ---------------------------
(***************************************************************************)
(* The safety of a node's way to its socket and of what it reads there     *)
(* (Interface): for any files, interfaces, packets and frames. First what  *)
(* load_config makes of a file of any length (Loaded, Loads): its loop is  *)
(* a recursive function, and what it has made of the first n lines holds   *)
(* for the least n that could refute it. Then the bytes of a frame         *)
(* (Announced), the inductive invariant Inv, one lemma per action, and the *)
(* properties.                                                             *)
(***************************************************************************)
EXTENDS Interface, WellFoundedInduction, TLAPS

(* A set of natural numbers has a least element: the form of induction     *)
(* used throughout.                                                        *)
LEMMA Least ==
  ASSUME NEW T, T \subseteq Nat, T # {}
  PROVE  \E n \in T : \A m \in T : n <= m
<1> DEFINE R == OpToRel(<, Nat)
<1>1. IsWellFoundedOn(R, Nat)
  BY NatLessThanWellFounded, Zenon
<1>2. \A x, y \in Nat : y < x => <<y, x>> \in R
  BY DEF OpToRel
<1> HIDE DEF R
<1>3. PICK n \in T : \A y \in T : ~ (<<y, n>> \in R)
  BY <1>1, WFMin, Zenon
<1>4. \A m \in T : ~ (m < n)
  BY <1>2, <1>3
<1>5. n \in Nat /\ \A m \in T : m \in Nat
  OBVIOUS
<1>6. \A m \in T : n <= m
  BY <1>4, <1>5
<1> QED BY <1>6

(* g starts at x0 and goes on by step up to N.                             *)
Iterates(g, N, x0, step) ==
  g[0] = x0 /\ \A n \in 1 .. N : g[n] = step[<<n, g[n - 1]>>]

(* Such a function exists.                                                 *)
LEMMA Recursion ==
  ASSUME NEW N \in Nat, NEW T, NEW x0 \in T, NEW step \in [(1 .. N) \X T -> T]
  PROVE  \E g \in [0 .. N -> T] : Iterates(g, N, x0, step)
<1> DEFINE Starts(m) == \E g \in [0 .. m -> T] :
                          g[0] = x0 /\ \A n \in 1 .. m : g[n] = step[<<n, g[n - 1]>>]
           bad == {m \in 0 .. N : ~ Starts(m)}
<1>1. SUFFICES ASSUME bad # {} PROVE FALSE
  BY DEF Iterates
<1>2. PICK m \in bad : \A j \in bad : m <= j
  <2> HIDE DEF Starts
  <2>1. bad \subseteq Nat
    OBVIOUS
  <2> HIDE DEF bad
  <2> QED BY <1>1, <2>1, Least
<1>3. CASE m = 0
  <2> DEFINE g == [n \in 0 .. 0 |-> x0]
  <2>1. g \in [0 .. 0 -> T] /\ g[0] = x0 /\ \A n \in 1 .. 0 : g[n] = step[<<n, g[n - 1]>>]
    OBVIOUS
  <2> QED BY <1>2, <1>3, <2>1
<1>4. CASE m # 0
  <2>1. m - 1 \in 0 .. N /\ m \in 1 .. N /\ Starts(m - 1)
    BY <1>2, <1>4
  <2>2. PICK g \in [0 .. m - 1 -> T] :
               g[0] = x0 /\ \A n \in 1 .. m - 1 : g[n] = step[<<n, g[n - 1]>>]
    BY <2>1
  <2> DEFINE h == [n \in 0 .. m |-> IF n = m THEN step[<<m, g[m - 1]>>] ELSE g[n]]
  <2>3. h \in [0 .. m -> T]
    BY <2>1
  <2>4. h[0] = x0 /\ h[m] = step[<<m, h[m - 1]>>]
    <3>1. 0 \in 0 .. m /\ m \in 0 .. m /\ m - 1 \in 0 .. m /\ m - 1 # m /\ 0 # m
      BY <2>1
    <3>2. h[0] = g[0] /\ h[m - 1] = g[m - 1] /\ h[m] = step[<<m, g[m - 1]>>]
      BY <3>1
    <3> QED BY <2>2, <3>2
  <2>5. ASSUME NEW n \in 1 .. m, n # m PROVE h[n] = step[<<n, h[n - 1]>>]
    <3>1. n \in 1 .. m - 1 /\ n - 1 \in 0 .. m - 1 /\ n \in 0 .. m /\ n - 1 # m
      BY <2>1, <2>5
    <3> QED BY <2>2, <2>5, <3>1
  <2> QED BY <1>2, <2>3, <2>4, <2>5
<1> QED BY <1>3, <1>4

-----------------------------------------------------------------------------
(* What a line sets its key to.                                            *)
Value(l) == IF l.key \in DOMAIN Width THEN l.val % Width[l.key] ELSE l.val

(* g is what the first n lines make of c: for every key the last of them   *)
(* that sets it counts.                                                    *)
LastCounts(g, lines, n, c) ==
  \A key \in Keys :
    \/ g[key] = c[key] /\ \A m \in 1 .. n : lines[m].key # key
    \/ \E m \in 1 .. n : /\ lines[m].key = key /\ g[key] = Value(lines[m])
                         /\ \A j \in 1 .. n : lines[j].key = key => j <= m

(* g[n] is what the loop of load_config has after n lines.                 *)
Loops(g, lines, c) ==
  g[0] = c /\ \A n \in 1 .. Len(lines) : g[n] = Assign(g[n - 1], lines[n])

(* load_config is the loop over the lines.                                 *)
LEMMA LoadDef ==
  ASSUME NEW lines, Len(lines) \in Nat, NEW c, c = [k \in Keys |-> c[k]]
  PROVE  \E V : \E g \in [0 .. Len(lines) -> [Keys -> V]] :
           Loops(g, lines, c) /\ load_config(lines, c) = g[Len(lines)]
<1> DEFINE N == Len(lines)
           V == {c[k] : k \in Keys} \cup {Value(lines[n]) : n \in 1 .. N}
           T == [Keys -> V]
           step == [a \in (1 .. N) \X T |-> Assign(a[2], lines[a[1]])]
           F(g) == [n \in 0 .. N |-> IF n = 0 THEN c ELSE Assign(g[n - 1], lines[n])]
           after == CHOOSE g : g = F(g)
<1>1. N \in Nat /\ c \in T
  OBVIOUS
<1>2. \A n \in 1 .. N : \A t \in T : Assign(t, lines[n]) \in T
  <2> SUFFICES ASSUME NEW n \in 1 .. N, NEW t \in T PROVE Assign(t, lines[n]) \in T
    OBVIOUS
  <2>1. Value(lines[n]) \in V
    OBVIOUS
  <2>2. Assign(t, lines[n]) = IF lines[n].key \notin Keys THEN t
                              ELSE [t EXCEPT ![lines[n].key] = Value(lines[n])]
    BY DEF Assign, Value
  <2> HIDE DEF V
  <2> QED BY <2>1, <2>2
<1> HIDE DEF V
<1>3. step \in [(1 .. N) \X T -> T]
  <2> HIDE DEF T
  <2> QED BY <1>2
<1>4. \A n \in 1 .. N : \A t \in T : step[<<n, t>>] = Assign(t, lines[n])
  <2> HIDE DEF T
  <2> QED OBVIOUS
<1>5. PICK g \in [0 .. N -> T] : g[0] = c /\ \A n \in 1 .. N : g[n] = step[<<n, g[n - 1]>>]
  <2> HIDE DEF step, N, T
  <2>1. \E g \in [0 .. N -> T] : Iterates(g, N, c, step)
    BY <1>1, <1>3, Recursion
  <2> QED BY <2>1, Zenon DEF Iterates
<1>6. \A n \in 1 .. N : n # 0 /\ n - 1 \in 0 .. N /\ n \in 0 .. N
  BY <1>1
<1> HIDE DEF step, N, T
<1>7. \A n \in 1 .. N : g[n] = Assign(g[n - 1], lines[n])
  BY <1>4, <1>5, <1>6
<1>8. g = F(g)
  <2>1. \A n \in 0 .. N : n = 0 \/ n \in 1 .. N
    BY <1>1
  <2>2. \A n \in 0 .. N : g[n] = IF n = 0 THEN c ELSE Assign(g[n - 1], lines[n])
    BY <1>5, <1>7, <2>1
  <2> QED BY <1>5, <2>2, Zenon
<1>9. after = F(after)
  BY <1>8, Zenon
<1>10. load_config(lines, c) = after[N]
  BY Zenon DEF load_config, N
<1> HIDE DEF after
<1>11. after[0] = c /\ \A n \in 1 .. N : after[n] = Assign(after[n - 1], lines[n])
  <2>1. 0 \in 0 .. N
    BY <1>1
  <2> QED BY <1>6, <1>9, <2>1, Zenon
<1>12. after \in [0 .. N -> T]
  <2> DEFINE bad == {n \in 0 .. N : after[n] \notin T}
  <2>1. SUFFICES bad = {}
    BY <1>9, Zenon
  <2>2. SUFFICES ASSUME bad # {} PROVE FALSE
    OBVIOUS
  <2>3. bad \subseteq Nat
    BY <1>1
  <2>4. PICK n \in bad : \A m \in bad : n <= m
    <3> HIDE DEF bad
    <3> QED BY <2>2, <2>3, Least
  <2>5. n # 0
    BY <1>1, <1>11
  <2>6. n \in 1 .. N /\ n - 1 \in 0 .. N /\ ~ (n <= n - 1)
    BY <1>1, <2>5
  <2>7. after[n - 1] \in T
    BY <2>4, <2>6
  <2> QED BY <1>2, <1>11, <2>6, <2>7
<1> QED BY <1>10, <1>11, <1>12 DEF Loops, N, T

(* For every key the last line that sets it counts.                        *)
LEMMA Loaded ==
  ASSUME NEW lines, Len(lines) \in Nat, NEW c, c = [k \in Keys |-> c[k]]
  PROVE  /\ LastCounts(load_config(lines, c), lines, Len(lines), c)
         /\ load_config(lines, c) = [k \in Keys |-> load_config(lines, c)[k]]
<1> DEFINE N == Len(lines)
<1>1. PICK V : \E g \in [0 .. N -> [Keys -> V]] : Loops(g, lines, c) /\ load_config(lines, c) = g[N]
  BY LoadDef, Zenon
<1>2. PICK g \in [0 .. N -> [Keys -> V]] : Loops(g, lines, c) /\ load_config(lines, c) = g[N]
  BY <1>1
<1>3. g[0] = c /\ \A n \in 1 .. N : g[n] = Assign(g[n - 1], lines[n])
  BY <1>2 DEF Loops
<1>4. N \in Nat /\ N \in 0 .. N
  OBVIOUS
<1> HIDE DEF N
<1> DEFINE bad == {n \in 0 .. N : ~ LastCounts(g[n], lines, n, c)}
<1>5. SUFFICES bad = {}
  <2>1. g[N] \in [Keys -> V]
    BY <1>4
  <2>2. g[N] = [k \in Keys |-> g[N][k]]
    BY <2>1
  <2> QED BY <1>2, <1>4, <2>2 DEF N
<1>6. SUFFICES ASSUME bad # {} PROVE FALSE
  OBVIOUS
<1>7. PICK n \in bad : \A m \in bad : n <= m
  <2>1. bad \subseteq Nat
    BY <1>4
  <2> HIDE DEF bad
  <2> QED BY <1>6, <2>1, Least
<1>8. n # 0
  <2>1. LastCounts(c, lines, 0, c)
    BY DEF LastCounts
  <2> QED BY <1>3, <1>7, <2>1
<1>9. n \in 1 .. N /\ n - 1 \in 0 .. N /\ ~ (n <= n - 1) /\ n \in 1 .. n
  BY <1>4, <1>8
<1> DEFINE h == g[n - 1]
           l == lines[n]
<1>10. LastCounts(h, lines, n - 1, c) /\ h \in [Keys -> V] /\ g[n] = Assign(h, l)
  BY <1>3, <1>7, <1>9
<1>11. \A m \in 1 .. n : m = n \/ m \in 1 .. n - 1
  BY <1>9
<1>12. \A m \in 1 .. n - 1 : m \in 1 .. n /\ m <= n
  BY <1>9
<1> HIDE DEF h
<1>13. ASSUME NEW key \in Keys
       PROVE  \/ g[n][key] = c[key] /\ \A m \in 1 .. n : lines[m].key # key
              \/ \E m \in 1 .. n : /\ lines[m].key = key /\ g[n][key] = Value(lines[m])
                                   /\ \A j \in 1 .. n : lines[j].key = key => j <= m
  <2>1. CASE l.key = key
    <3>1. g[n][key] = Value(l)
      BY <1>10, <2>1 DEF Assign, Value
    <3>2. \A j \in 1 .. n : j <= n
      BY <1>9
    <3> QED BY <1>9, <2>1, <3>1, <3>2
  <2>2. CASE l.key # key
    <3>1. g[n][key] = h[key]
      BY <1>10, <2>2 DEF Assign
    <3>2. \/ h[key] = c[key] /\ \A m \in 1 .. n - 1 : lines[m].key # key
          \/ \E m \in 1 .. n - 1 : /\ lines[m].key = key /\ h[key] = Value(lines[m])
                                   /\ \A j \in 1 .. n - 1 : lines[j].key = key => j <= m
      BY <1>10 DEF LastCounts
    <3> QED BY <1>11, <1>12, <2>2, <3>1, <3>2
  <2> QED BY <2>1, <2>2
<1> QED BY <1>7, <1>13 DEF LastCounts

(* A file the program may find, and settings it may have.                  *)
Proper(f) ==
  /\ Len(f) \in Nat /\ f = [n \in 1 .. Len(f) |-> f[n]]
  /\ \A n \in 1 .. Len(f) : f[n].key \in DOMAIN Width => f[n].val = Junk \/ f[n].val \in Nat
Settings(g) ==
  g = [k \in Keys |-> g[k]] /\ \A k \in DOMAIN Width : g[k] \in Nat /\ g[k] < Width[k]

(* The lines of f that set key, and g as the settings that f asks for.     *)
SettersIn(f, key) == {n \in DOMAIN f : f[n].key = key}
AsWritten(f, g) ==
  /\ \A key \in Keys :
       g[key] = IF SettersIn(f, key) = {} THEN Defaults[key]
                ELSE LET val == f[CHOOSE n \in SettersIn(f, key) : \A m \in SettersIn(f, key) : m <= n].val
                     IN  IF key \in DOMAIN Width THEN val % Width[key] ELSE val
  /\ f \in {Absent, save_default_config} => g = Defaults

(* ConfigAsWritten, in terms of one file and what was made of it.          *)
LEMMA AsWrittenIs ==
  /\ ConfigAsWritten <=> (pc \in {"key", "open", "index", "mac", "run"} => AsWritten(file, config))
  /\ ConfigAsWritten' <=> (pc' \in {"key", "open", "index", "mac", "run"} => AsWritten(file', config'))
BY DEF ConfigAsWritten, AsWritten, Setters, SettersIn

(* The keys and the widths.                                                *)
LEMMA KeysAre ==
  /\ Keys = {"passphrase", "interface", "log_file", "queue_file", "fragment_timeout_sec",
             "discovery_ttl", "discovery_interval_ms"}
  /\ DOMAIN Width = {"fragment_timeout_sec", "discovery_ttl", "discovery_interval_ms"}
  /\ Width["fragment_timeout_sec"] = 2147483647 /\ Width["discovery_ttl"] = 256
  /\ Width["discovery_interval_ms"] = 65536
BY DEF Keys, Defaults, Width

(* The defaults are settings.                                              *)
LEMMA DefaultsAre ==
  /\ Settings(Defaults)
  /\ Defaults["passphrase"] = "ARABA_MESH_SECRET_2026" /\ Defaults["interface"] = Empty
  /\ Defaults["log_file"] = "araba.log" /\ Defaults["queue_file"] = "pending_messages.rue"
  /\ Defaults["fragment_timeout_sec"] = 60 /\ Defaults["discovery_ttl"] = 64
  /\ Defaults["discovery_interval_ms"] = 1000
<1>1. Defaults = [k \in Keys |-> Defaults[k]]
  BY SMT DEF Keys, Defaults
<1>2. /\ Defaults["passphrase"] = "ARABA_MESH_SECRET_2026" /\ Defaults["interface"] = Empty
      /\ Defaults["log_file"] = "araba.log" /\ Defaults["queue_file"] = "pending_messages.rue"
      /\ Defaults["fragment_timeout_sec"] = 60 /\ Defaults["discovery_ttl"] = 64
      /\ Defaults["discovery_interval_ms"] = 1000
  BY DEF Defaults
<1>3. \A k \in DOMAIN Width : Defaults[k] \in Nat /\ Defaults[k] < Width[k]
  <2>1. Defaults["fragment_timeout_sec"] \in Nat /\ Defaults["fragment_timeout_sec"] < Width["fragment_timeout_sec"]
    BY <1>2, KeysAre
  <2>2. Defaults["discovery_ttl"] \in Nat /\ Defaults["discovery_ttl"] < Width["discovery_ttl"]
    BY <1>2, KeysAre
  <2>3. Defaults["discovery_interval_ms"] \in Nat /\ Defaults["discovery_interval_ms"] < Width["discovery_interval_ms"]
    BY <1>2, KeysAre
  <2>4. DOMAIN Width = {"fragment_timeout_sec", "discovery_ttl", "discovery_interval_ms"}
    BY KeysAre
  <2> QED BY <2>1, <2>2, <2>3, <2>4
<1> QED BY <1>1, <1>2, <1>3 DEF Settings

(* The two files main may make do with, if the operator wrote none.        *)
LEMMA OwnFiles ==
  /\ Proper(Absent) /\ \A n \in 1 .. Len(Absent) : Absent[n].key \notin Keys
  /\ Proper(save_default_config)
  /\ \A n \in 1 .. Len(save_default_config) :
       save_default_config[n].key \in Keys =>
         Value(save_default_config[n]) = Defaults[save_default_config[n].key]
  /\ ~ Throws(save_default_config) /\ ~ Throws(Absent)
<1>1. /\ Len(Absent) = 1 /\ DOMAIN Absent = 1 .. 1 /\ Absent[1].key = "absent"
      /\ Absent = [n \in 1 .. 1 |-> Absent[n]]
  BY DEF Absent, Line
<1>2. /\ Proper(Absent) /\ \A n \in 1 .. Len(Absent) : Absent[n].key \notin Keys
      /\ ~ Throws(Absent)
  BY <1>1, KeysAre DEF Proper, Throws
<1> DEFINE f == save_default_config
<1>3. /\ Len(f) = 9 /\ DOMAIN f = 1 .. 9 /\ f = [n \in 1 .. 9 |-> f[n]]
      /\ f[1] = Line("#", Empty) /\ f[2] = Line("#", Empty)
      /\ f[3] = Line("passphrase", "ARABA_MESH_SECRET_2026") /\ f[4] = Line("interface", Empty)
      /\ f[5] = Line("log_file", "araba.log") /\ f[6] = Line("queue_file", "pending_messages.rue")
      /\ f[7] = Line("fragment_timeout_sec", 60) /\ f[8] = Line("discovery_ttl", 64)
      /\ f[9] = Line("discovery_interval_ms", 1000)
  BY DEF save_default_config
<1> HIDE DEF f
<1>4. \A key, val : Line(key, val).key = key /\ Line(key, val).val = val
  BY DEF Line
<1>5. \A n \in 1 .. 9 : n = 1 \/ n = 2 \/ n = 3 \/ n = 4 \/ n = 5 \/ n = 6 \/ n = 7 \/ n = 8 \/ n = 9
  OBVIOUS
<1>6. /\ f[1].key = "#" /\ f[2].key = "#" /\ f[3].key = "passphrase" /\ f[4].key = "interface"
      /\ f[5].key = "log_file" /\ f[6].key = "queue_file"
      /\ f[7].key = "fragment_timeout_sec" /\ f[8].key = "discovery_ttl"
      /\ f[9].key = "discovery_interval_ms"
      /\ f[3].val = "ARABA_MESH_SECRET_2026" /\ f[4].val = Empty /\ f[5].val = "araba.log"
      /\ f[6].val = "pending_messages.rue" /\ f[7].val = 60 /\ f[8].val = 64 /\ f[9].val = 1000
  BY <1>3, <1>4
<1>7. \A n \in 1 .. 9 : f[n].key \in DOMAIN Width => f[n].val \in Nat
  BY <1>5, <1>6, KeysAre
<1>8. Proper(f)
  BY <1>3, <1>7 DEF Proper
<1>9. \A n \in 1 .. 9 : f[n].key \in Keys => Value(f[n]) = Defaults[f[n].key]
  <2>1. 60 % 2147483647 = 60 /\ 64 % 256 = 64 /\ 1000 % 65536 = 1000
    OBVIOUS
  <2> QED BY <1>5, <1>6, <2>1, KeysAre, DefaultsAre DEF Value
<1>10. ~ Throws(f)
  BY <1>3, <1>7, JunkIsNoNumber DEF Throws
<1> QED BY <1>2, <1>3, <1>8, <1>9, <1>10 DEF f

(* What load_config makes of the defaults.                                 *)
LEMMA Loads ==
  ASSUME NEW f, Proper(f), ~ Throws(f)
  PROVE  Settings(load_config(f, Defaults)) /\ AsWritten(f, load_config(f, Defaults))
<1> DEFINE g == load_config(f, Defaults)
           N == Len(f)
<1>1. /\ N \in Nat /\ DOMAIN f = 1 .. N
      /\ \A n \in 1 .. N : f[n].key \in DOMAIN Width => f[n].val \in Nat
  <2>1. /\ N \in Nat /\ f = [n \in 1 .. N |-> f[n]]
        /\ \A n \in 1 .. N : f[n].key \in DOMAIN Width => f[n].val = Junk \/ f[n].val \in Nat
    BY DEF Proper
  <2>2. DOMAIN f = 1 .. N
    BY <2>1
  <2> QED BY <2>1, <2>2 DEF Throws
<1>2. Defaults = [k \in Keys |-> Defaults[k]] /\ \A k \in DOMAIN Width : Defaults[k] \in Nat /\ Defaults[k] < Width[k]
  BY DefaultsAre DEF Settings
<1>3. LastCounts(g, f, N, Defaults) /\ g = [k \in Keys |-> g[k]]
  BY <1>1, <1>2, Loaded
<1> HIDE DEF g, N
<1>4. \A k \in DOMAIN Width : k \in Keys /\ Width[k] \in Nat \ {0}
  BY KeysAre
<1>5. ASSUME NEW k \in DOMAIN Width PROVE g[k] \in Nat /\ g[k] < Width[k]
  <2>1. CASE g[k] = Defaults[k]
    BY <1>2, <2>1
  <2>2. CASE g[k] # Defaults[k]
    <3>1. PICK m \in 1 .. N : f[m].key = k /\ g[k] = Value(f[m])
      BY <1>3, <1>4, <2>2 DEF LastCounts
    <3>2. g[k] = f[m].val % Width[k] /\ f[m].val \in Nat
      BY <1>1, <3>1 DEF Value
    <3> DEFINE v == f[m].val
               w == Width[k]
    <3>3. v \in Nat /\ w \in Nat \ {0} /\ g[k] = v % w
      BY <1>4, <3>2
    <3> HIDE DEF v, w
    <3>4. g[k] \in Nat /\ g[k] < w
      BY <3>3
    <3> QED BY <3>4 DEF w
  <2> QED BY <2>1, <2>2
<1>6. ASSUME NEW key \in Keys
      PROVE  g[key] = IF SettersIn(f, key) = {} THEN Defaults[key]
                      ELSE LET val == f[CHOOSE n \in SettersIn(f, key) :
                                          \A m \in SettersIn(f, key) : m <= n].val
                           IN  IF key \in DOMAIN Width THEN val % Width[key] ELSE val
  <2> DEFINE S == SettersIn(f, key)
             x == CHOOSE n \in S : \A m \in S : m <= n
  <2>1. S = {n \in 1 .. N : f[n].key = key}
    BY <1>1 DEF SettersIn
  <2> HIDE DEF S
  <2>2. CASE g[key] = Defaults[key] /\ \A m \in 1 .. N : f[m].key # key
    <3>1. S = {}
      BY <2>1, <2>2
    <3> QED BY <2>2, <3>1 DEF S
  <2>3. ASSUME NEW m \in 1 .. N, f[m].key = key, g[key] = Value(f[m]),
               \A j \in 1 .. N : f[j].key = key => j <= m
        PROVE  S # {} /\ g[key] = IF key \in DOMAIN Width THEN f[x].val % Width[key] ELSE f[x].val
    <3>1. m \in S /\ \A j \in S : j <= m
      BY <2>1, <2>3
    <3>2. x \in S /\ \A j \in S : j <= x
      BY <3>1
    <3>3. x = m
      <4>1. S \subseteq Nat
        BY <1>1, <2>1
      <4> HIDE DEF x
      <4> QED BY <3>1, <3>2, <4>1
    <3> HIDE DEF x
    <3> QED BY <2>3, <3>1, <3>3 DEF Value
  <2>4. \/ g[key] = Defaults[key] /\ \A m \in 1 .. N : f[m].key # key
        \/ \E m \in 1 .. N : /\ f[m].key = key /\ g[key] = Value(f[m])
                             /\ \A j \in 1 .. N : f[j].key = key => j <= m
    BY <1>3 DEF LastCounts
  <2> HIDE DEF x
  <2>5. CASE \E m \in 1 .. N : /\ f[m].key = key /\ g[key] = Value(f[m])
                               /\ \A j \in 1 .. N : f[j].key = key => j <= m
    <3>1. S # {} /\ g[key] = IF key \in DOMAIN Width THEN f[x].val % Width[key] ELSE f[x].val
      BY <2>3, <2>5
    <3> QED BY <3>1 DEF S, x
  <2> QED BY <2>2, <2>4, <2>5
<1>7. ASSUME f \in {Absent, save_default_config} PROVE g = Defaults
  <2>1. \A m \in 1 .. N : f[m].key \in Keys => Value(f[m]) = Defaults[f[m].key]
    BY <1>7, OwnFiles DEF N
  <2>2. \A key \in Keys : g[key] = Defaults[key]
    BY <1>3, <2>1 DEF LastCounts
  <2> QED BY <1>2, <1>3, <2>2, Zenon
<1> QED BY <1>3, <1>5, <1>6, <1>7 DEF Settings, AsWritten, g

-----------------------------------------------------------------------------
(* The inductive invariant. Where main is, and where it may be.            *)
Control ==
  /\ pc \in {"start", "load", "save", "key", "open", "index", "mac", "run", "exit"}
  /\ boots \in 0 .. MaxBoots /\ file \in Files \cup {Absent, save_default_config}
  /\ present \subseteq Iface /\ if_index \in Iface \cup {"none"}
  /\ status \in {"none", "ok", "error", "crash"} /\ (status = "none" <=> pc # "exit")

(* What main has settled when it comes there.                              *)
Configured ==
  /\ Proper(file) /\ Settings(config)
  /\ pc \in {"start", "load", "save"} => config = Defaults
  /\ pc = "save" => file = Absent
  /\ pc \in {"key", "open", "index", "mac", "run"} => AsWritten(file, config)
  /\ pc \in {"open", "index", "mac", "run"} => keyed = config.passphrase /\ keyed # Empty
Opened ==
  /\ pc \in {"start", "load", "save", "key", "open"} => fds = {}
  /\ pc \in {"index", "mac", "run"} => sock_fd \in fds /\ config.interface \in {Empty, name}
  /\ pc \in {"mac", "run"} => name \in Iface /\ if_index = name
  /\ pc = "run" => local_mac = Mac[name]

(* The packet the loop works on.                                           *)
Reading ==
  /\ i \in 0 .. Burst /\ frames \in 0 .. MaxFrames
  /\ header.payload_len \in 0 .. MaxPayload
  /\ origin \in [1 .. MaxPayload -> 0 .. MaxFrames] /\ handed.ok \in BOOLEAN
  /\ OwnPayload

Inv == Control /\ Configured /\ Opened /\ NoLeak /\ Reading

(* An element of a part of a sequence is one of the sequence.              *)
LEMMA Part ==
  ASSUME NEW B, NEW s \in Seq(B), NEW m \in Nat, NEW n \in Nat, NEW k \in Nat,
         1 <= m, n <= Len(s), 1 <= k, k <= n - m + 1
  PROVE  SubSeq(s, m, n)[k] \in B
<1> DEFINE b == SubSeq(s, m, n)
<1>1. m + k - 1 \in 1 .. Len(s) /\ k \in 1 .. n - m + 1 /\ m <= n
  OBVIOUS
<1>2. b[k] = s[m + k - 1]
  BY <1>1
<1>3. s[m + k - 1] \in B
  BY <1>1
<1> QED BY <1>2, <1>3

(* The length that a frame of the values B announces is made of two of     *)
(* them.                                                                   *)
LEMMA Claims ==
  ASSUME NEW B, NEW f \in Seq(B), ~ (Len(f) < EthernetHeader + HeaderLen)
  PROVE  \E x \in B, y \in B : Header(f).payload_len = x + 256 * y
<1> DEFINE lo == EthernetHeader + 1
           hi == EthernetHeader + HeaderLen
           p == 20
           q == 21
           b == SubSeq(f, lo, hi)
<1>1. Header(f).payload_len = b[20] + 256 * b[21]
  <2> HIDE DEF lo, hi
  <2> QED BY DEF Header, lo, hi
<1>2. lo = 15 /\ hi = 35
  BY DEF EthernetHeader, HeaderLen
<1>3. /\ lo \in Nat /\ hi \in Nat /\ p \in Nat /\ q \in Nat /\ 1 <= lo /\ hi <= Len(f)
      /\ 1 <= p /\ p <= hi - lo + 1 /\ 1 <= q /\ q <= hi - lo + 1
  <2> HIDE DEF lo
  <2>1. Len(f) \in Nat
    OBVIOUS
  <2>2. hi <= Len(f)
    BY <1>2, <2>1
  <2> HIDE DEF hi
  <2> QED BY <1>2, <2>2
<1> HIDE DEF lo, hi, p, q
<1>4. b[p] \in B /\ b[q] \in B
  BY <1>3, Part, Zenon
<1> HIDE DEF b
<1>5. b[20] \in B /\ b[21] \in B
  BY <1>4 DEF p, q
<1> QED BY <1>1, <1>5

(* A packet nobody has written to is as good as empty.                     *)
LEMMA Frames ==
  /\ NoHeader.payload_len = 0 /\ NoFrame.ok = FALSE
  /\ Blank \in [1 .. MaxPayload -> 0 .. MaxFrames]
<1>1. MaxFrames \in Nat /\ MaxPayload \in Nat
  BY ConstAssumption
<1>2. NoFrame.ok = FALSE
  BY DEF NoFrame
<1>3. Blank \in [1 .. MaxPayload -> 0 .. MaxFrames]
  BY <1>1 DEF Blank
<1>4. NoHeader.payload_len = 0
  <2> DEFINE O == {0}
             z == [j \in 1 .. EthernetHeader + HeaderLen |-> 0]
  <2>1. z \in Seq(O) /\ ~ (Len(z) < EthernetHeader + HeaderLen)
    BY DEF EthernetHeader, HeaderLen
  <2> HIDE DEF z, O
  <2>2. PICK x \in O, y \in O : Header(z).payload_len = x + 256 * y
    BY <2>1, Claims, SMT
  <2>3. x = 0 /\ y = 0
    BY DEF O
  <2>4. NoHeader = Header(z)
    BY DEF NoHeader, z
  <2> QED BY <2>2, <2>3, <2>4
<1> QED BY <1>2, <1>3, <1>4

(* A frame of bytes that is long enough announces a length.                *)
LEMMA Announced ==
  ASSUME NEW f \in Seq(0 .. 255), ~ (Len(f) < EthernetHeader + HeaderLen)
  PROVE  Header(f).payload_len \in Nat
<1> DEFINE B == 0 .. 255
<1>1. \A x \in B, y \in B : x + 256 * y \in Nat
  OBVIOUS
<1>2. f \in Seq(B)
  OBVIOUS
<1> HIDE DEF B
<1>3. PICK x \in B, y \in B : Header(f).payload_len = x + 256 * y
  BY <1>2, Claims, SMT
<1> QED BY <1>1, <1>3

-----------------------------------------------------------------------------
(* The constants, as the steps need them.                                  *)
LEMMA Known ==
  /\ Burst \in Nat \ {0} /\ MaxBoots \in Nat \ {0} /\ MaxFrames \in Nat /\ MaxPayload \in Nat
  /\ \A f \in Air : f \in Seq(0 .. 255)
  /\ \A f \in Files : Proper(f)
<1>1. \A f \in Air : f \in Seq(0 .. 255)
  BY ConstAssumption DEF Air
<1>2. ASSUME NEW f \in Files PROVE Proper(f)
  <2>1. /\ f = [n \in 1 .. Len(f) |-> f[n]] /\ Len(f) \in Nat
        /\ \A n \in 1 .. Len(f) : f[n].key \in DOMAIN Width => f[n].val = Junk \/ f[n].val \in Nat
    BY ConstAssumption, Zenon
  <2> QED BY <2>1, Zenon DEF Proper
<1> QED BY <1>1, <1>2, ConstAssumption

(* A turn begins with a packet that nobody has written to.                 *)
LEMMA Unread ==
  /\ i = 0 /\ frames \in 0 .. MaxFrames /\ header = NoHeader /\ origin = Blank /\ handed = NoFrame
       => Reading
  /\ i' = 0 /\ frames' \in 0 .. MaxFrames /\ header' = NoHeader /\ origin' = Blank /\ handed' = NoFrame
       => Reading'
<1>1. 0 \in 0 .. Burst /\ 0 \in 0 .. MaxPayload
  BY Known
<1>2. ASSUME i = 0, frames \in 0 .. MaxFrames, header = NoHeader, origin = Blank, handed = NoFrame
      PROVE  Reading
  <2>1. header.payload_len = 0 /\ handed.ok = FALSE /\ origin \in [1 .. MaxPayload -> 0 .. MaxFrames]
    BY <1>2, Frames, Zenon
  <2> QED BY <1>1, <1>2, <2>1 DEF Reading, OwnPayload
<1>3. ASSUME i' = 0, frames' \in 0 .. MaxFrames, header' = NoHeader, origin' = Blank, handed' = NoFrame
      PROVE  Reading'
  <2>1. header'.payload_len = 0 /\ handed'.ok = FALSE /\ origin' \in [1 .. MaxPayload -> 0 .. MaxFrames]
    BY <1>3, Frames, Zenon
  <2> QED BY <1>1, <1>3, <2>1 DEF Reading, OwnPayload
<1> QED BY <1>2, <1>3

(* A new process knows nothing but its file.                               *)
LEMMA Begins ==
  Init => Inv
<1> SUFFICES ASSUME Init PROVE Inv
  OBVIOUS
<1>1. Control
  BY Known DEF Init, Control
<1>2. Configured
  <2>1. Proper(file)
    BY Known, OwnFiles DEF Init
  <2> QED BY <2>1, DefaultsAre DEF Init, Configured
<1>3. Opened /\ NoLeak
  BY DEF Init, Opened, NoLeak
<1>4. Reading
  BY Known, Unread DEF Init
<1> QED BY <1>1, <1>2, <1>3, <1>4 DEF Inv

(* The same after Restart.                                                 *)
LEMMA BeginsAgain ==
  ASSUME Inv, Restart
  PROVE  Inv'
<1> USE DEF Inv, Restart, Fresh
<1>1. Control'
  BY Known DEF Control
<1>2. Configured'
  BY DefaultsAre DEF Configured
<1>3. Opened' /\ NoLeak'
  BY DEF Opened, NoLeak
<1>4. Reading'
  BY Known, Unread
<1> QED BY <1>1, <1>2, <1>3, <1>4

(* A step that leaves the packet alone.                                    *)
LEMMA NotReading ==
  ASSUME Reading, UNCHANGED reading
  PROVE  Reading'
BY DEF reading, Reading, OwnPayload

(* However the process ends, nothing stays open.                           *)
LEMMA Ends ==
  ASSUME Inv, NEW how \in {"ok", "error", "crash"}, End(how), UNCHANGED <<file, config, keyed>>
  PROVE  Inv'
<1>1. Control'
  BY DEF Inv, Control, End
<1>2. Configured'
  BY DEF Inv, Configured, End
<1>3. Opened' /\ NoLeak'
  BY DEF Inv, Opened, NoLeak, End, Close
<1>4. Reading'
  BY NotReading DEF Inv, End
<1> QED BY <1>1, <1>2, <1>3, <1>4 DEF Inv

(* An interface that comes or goes changes nothing that main knows.        *)
LEMMA Replugs ==
  ASSUME Inv, Replug
  PROVE  Inv'
<1>1. Control'
  BY DEF Inv, Control, Replug, socket
<1>2. Configured' /\ Opened' /\ NoLeak'
  BY DEF Inv, Configured, Opened, NoLeak, Replug, socket
<1>3. Reading'
  BY NotReading DEF Inv, Replug
<1> QED BY <1>1, <1>2, <1>3 DEF Inv

(* Without the rights for a raw socket, the process ends.                  *)
LEMMA Starts ==
  ASSUME Inv, Start
  PROVE  Inv'
<1>1. CASE Goto("load") /\ UNCHANGED <<file, config, keyed, socket, reading>>
  <2>1. Control' /\ Configured'
    BY <1>1 DEF Inv, Control, Configured, Start, Goto, socket
  <2>2. Opened' /\ NoLeak'
    BY <1>1 DEF Inv, Opened, NoLeak, Start, Goto, socket
  <2>3. Reading'
    BY <1>1, NotReading DEF Inv
  <2> QED BY <2>1, <2>2, <2>3 DEF Inv
<1>2. CASE End("error") /\ UNCHANGED <<file, config, keyed>>
  BY <1>2, Ends
<1> QED BY <1>1, <1>2 DEF Start

(* The file is read, or there is none.                                     *)
LEMMA LoadsFile ==
  ASSUME Inv, Load
  PROVE  Inv'
<1> USE DEF Load
<1>1. CASE file = Absent
  <2>1. Goto("save") /\ UNCHANGED <<file, keyed, config, socket, reading>>
    BY <1>1
  <2>2. Control' /\ Configured'
    BY <1>1, <2>1 DEF Inv, Control, Configured, Goto, socket
  <2>3. Opened' /\ NoLeak'
    BY <2>1 DEF Inv, Opened, NoLeak, Goto, socket
  <2>4. Reading'
    BY <2>1, NotReading DEF Inv
  <2> QED BY <2>2, <2>3, <2>4 DEF Inv
<1>2. CASE file # Absent /\ Throws(file)
  <2>1. End("crash") /\ UNCHANGED <<file, config, keyed>>
    BY <1>2
  <2> QED BY <2>1, Ends
<1>3. CASE file # Absent /\ ~ Throws(file)
  <2>1. /\ Goto("key") /\ config' = load_config(file, config)
        /\ UNCHANGED <<file, keyed, socket, reading>>
    BY <1>3
  <2>2. config = Defaults /\ Proper(file)
    BY DEF Inv, Configured
  <2>3. Settings(config') /\ AsWritten(file, config')
    BY <1>3, <2>1, <2>2, Loads
  <2>4. Control' /\ Configured'
    BY <2>1, <2>2, <2>3 DEF Inv, Control, Configured, Goto, socket
  <2>5. Opened' /\ NoLeak'
    BY <2>1 DEF Inv, Opened, NoLeak, Goto, socket
  <2>6. Reading'
    BY <2>1, NotReading DEF Inv
  <2> QED BY <2>4, <2>5, <2>6 DEF Inv
<1> QED BY <1>1, <1>2, <1>3

(* Whether or not the file could be written, the settings are those of it. *)
LEMMA SavesFile ==
  ASSUME Inv, Save
  PROVE  Inv'
<1>1. Goto("key") /\ UNCHANGED <<keyed, socket, reading>> /\ pc = "save"
  BY DEF Save
<1>2. config = Defaults /\ file = Absent
  BY <1>1 DEF Inv, Configured
<1>3. Proper(file') /\ Settings(config') /\ AsWritten(file', config') /\ file' \in {Absent, save_default_config}
  <2>1. CASE file' = save_default_config /\ config' = load_config(file', config)
    BY <1>2, <2>1, OwnFiles, Loads
  <2>2. CASE UNCHANGED <<file, config>>
    <3>1. AsWritten(Absent, load_config(Absent, Defaults))
      BY OwnFiles, Loads
    <3>2. load_config(Absent, Defaults) = Defaults
      BY <3>1 DEF AsWritten
    <3> QED BY <1>2, <2>2, <3>1, <3>2, OwnFiles, DefaultsAre
  <2> QED BY <2>1, <2>2 DEF Save
<1>4. Control' /\ Configured'
  BY <1>1, <1>3 DEF Inv, Control, Configured, Goto, socket
<1>5. Opened' /\ NoLeak'
  BY <1>1 DEF Inv, Opened, NoLeak, Goto, socket
<1>6. Reading'
  BY <1>1, NotReading DEF Inv
<1> QED BY <1>4, <1>5, <1>6 DEF Inv

(* There is a passphrase, or the process ends.                             *)
LEMMA DerivesKey ==
  ASSUME Inv, DeriveKey
  PROVE  Inv'
<1>1. CASE config.passphrase = Empty
  <2>1. End("crash") /\ UNCHANGED <<file, config, keyed>>
    BY <1>1 DEF DeriveKey
  <2> QED BY <2>1, Ends
<1>2. CASE config.passphrase # Empty
  <2>1. /\ Goto("open") /\ keyed' = config.passphrase /\ pc = "key"
        /\ UNCHANGED <<file, config, socket, reading>>
    BY <1>2 DEF DeriveKey
  <2>2. Control' /\ Configured'
    BY <1>2, <2>1 DEF Inv, Control, Configured, Goto, socket
  <2>3. Opened' /\ NoLeak'
    BY <2>1 DEF Inv, Opened, NoLeak, Goto, socket
  <2>4. Reading'
    BY <2>1, NotReading DEF Inv
  <2> QED BY <2>2, <2>3, <2>4 DEF Inv
<1> QED BY <1>1, <1>2

(* The socket is open, under the name of the file if it has one.           *)
LEMMA OpensSocket ==
  ASSUME Inv, OpenSocket
  PROVE  Inv'
<1>1. CASE /\ name' \in Chosen /\ fds' = fds \cup {3} /\ sock_fd' = 3
           /\ Goto("index") /\ UNCHANGED <<if_index, local_mac, reading>>
           /\ UNCHANGED <<file, config, keyed>> /\ pc = "open"
  <2>1. Control' /\ Configured'
    BY <1>1 DEF Inv, Control, Configured, Goto
  <2>2. config.interface \in {Empty, name'}
    BY <1>1 DEF Chosen
  <2>3. fds' = {3}
    BY <1>1 DEF Inv, Opened
  <2>4. Opened' /\ NoLeak'
    BY <1>1, <2>2, <2>3 DEF Opened, NoLeak, Goto
  <2>5. Reading'
    BY <1>1, NotReading DEF Inv
  <2> QED BY <2>1, <2>4, <2>5 DEF Inv
<1>2. CASE End("error") /\ UNCHANGED <<file, config, keyed>>
  BY <1>2, Ends
<1> QED BY <1>1, <1>2 DEF OpenSocket

(* The interface is there when its index is asked for.                     *)
LEMMA FindsIndex ==
  ASSUME Inv, NameToIndex
  PROVE  Inv'
<1>1. CASE name \in present
  <2>1. /\ if_index' = name /\ Goto("mac") /\ pc = "index"
        /\ UNCHANGED <<fds, name, sock_fd, local_mac, reading, file, config, keyed>>
    BY <1>1 DEF NameToIndex, IndexFound
  <2>2. name \in Iface
    BY <1>1 DEF Inv, Control
  <2>3. Control' /\ Configured'
    BY <2>1, <2>2 DEF Inv, Control, Configured, Goto
  <2>4. Opened' /\ NoLeak'
    BY <2>1, <2>2 DEF Inv, Opened, NoLeak, Goto
  <2>5. Reading'
    BY <2>1, NotReading DEF Inv
  <2> QED BY <2>3, <2>4, <2>5 DEF Inv
<1>2. CASE name \notin present
  <2>1. End("error") /\ UNCHANGED <<file, config, keyed>>
    BY <1>2 DEF NameToIndex, IndexFound
  <2> QED BY <2>1, Ends
<1> QED BY <1>1, <1>2

(* The address is that of the interface that was opened.                   *)
LEMMA FetchesMac ==
  ASSUME Inv, FetchMac
  PROVE  Inv'
<1>1. CASE /\ local_mac' = Mac[name] /\ Goto("run") /\ pc = "mac"
           /\ UNCHANGED <<fds, name, sock_fd, if_index, reading, file, config, keyed>>
  <2>1. Control' /\ Configured'
    BY <1>1 DEF Inv, Control, Configured, Goto
  <2>2. Opened' /\ NoLeak'
    BY <1>1 DEF Inv, Opened, NoLeak, Goto
  <2>3. Reading'
    BY <1>1, NotReading DEF Inv
  <2> QED BY <2>1, <2>2, <2>3 DEF Inv
<1>2. CASE End("error") /\ UNCHANGED <<file, config, keyed>>
  BY <1>2, Ends
<1> QED BY <1>1, <1>2 DEF FetchMac

(* The loop leaves the process and its socket alone.                       *)
LEMMA InTheLoop ==
  ASSUME Inv, UNCHANGED <<startup, socket>>
  PROVE  Control' /\ Configured' /\ Opened' /\ NoLeak'
BY DEF Inv, Control, Configured, Opened, NoLeak, startup, socket

(* A turn of the loop begins with an unread packet.                        *)
LEMMA Turns ==
  ASSUME Inv, Turn
  PROVE  Inv'
<1>1. Reading'
  BY Unread DEF Inv, Reading, Turn
<1> QED BY <1>1, InTheLoop DEF Inv, Turn

(* A payload_len that is kept fits, and a payload that is there is the     *)
(* frame's own.                                                            *)
LEMMA Receives ==
  ASSUME Inv, NEW f \in Air, Receive(f)
  PROVE  Inv'
<1> DEFINE n == Header(f).payload_len
           need == EthernetHeader + HeaderLen
<1>1. /\ Len(f) \in Nat /\ f \in Seq(0 .. 255)
      /\ Burst \in Nat /\ MaxFrames \in Nat /\ MaxPayload \in Nat
  BY Known
<1>2. /\ i' = i + 1 /\ frames' = frames + 1 /\ i < Burst /\ frames < MaxFrames
      /\ i \in 0 .. Burst /\ frames \in 0 .. MaxFrames
      /\ origin \in [1 .. MaxPayload -> 0 .. MaxFrames] /\ header.payload_len \in 0 .. MaxPayload
  BY DEF Inv, Reading, Receive
<1>3. i' \in 0 .. Burst /\ frames' \in 0 .. MaxFrames
  BY <1>1, <1>2
<1>4. Reading'
  <2>1. CASE Len(f) < need
    <3>1. handed' = [len |-> Len(f), ok |-> FALSE] /\ UNCHANGED <<header, origin>>
      BY <2>1 DEF Receive
    <3>2. handed'.ok = FALSE
      BY <3>1
    <3> QED BY <1>2, <1>3, <3>1, <3>2 DEF Reading, OwnPayload
  <2>2. CASE ~ (Len(f) < need)
    <3> DEFINE m == IF n > MaxPayload THEN 0 ELSE n
               fits == n <= MaxPayload /\ Len(f) >= need + n
    <3>1. n \in Nat
      BY <1>1, <2>2, Announced
    <3>2. /\ handed' = [len |-> Len(f), ok |-> ~ (n > MaxPayload)]
          /\ header' = [Header(f) EXCEPT !.payload_len = m]
          /\ origin' = IF fits THEN [j \in 1 .. MaxPayload |-> IF j <= n THEN frames' ELSE origin[j]]
                       ELSE origin
      BY <1>1, <2>2, <3>1 DEF Receive, TooLong, Fits
    <3>3. m \in 0 .. MaxPayload
      <4> HIDE DEF n
      <4> QED BY <1>1, <3>1
    <3>4. header'.payload_len = m
      <4> HIDE DEF m
      <4> QED BY <3>2 DEF Header
    <3>5. handed'.len = Len(f) /\ (handed'.ok <=> ~ (n > MaxPayload)) /\ handed'.ok \in BOOLEAN
      <4> HIDE DEF n
      <4> QED BY <3>2
    <3>6. origin' \in [1 .. MaxPayload -> 0 .. MaxFrames]
      <4> HIDE DEF n, fits
      <4> QED BY <1>2, <1>3, <3>2
    <3>7. OwnPayload'
      <4> SUFFICES ASSUME handed'.ok
                   PROVE  \/ \A j \in 1 .. header'.payload_len : origin'[j] = frames'
                          \/ handed'.len < EthernetHeader + HeaderLen + header'.payload_len
        BY DEF OwnPayload
      <4>1. ~ (n > MaxPayload) /\ m = n
        <5> HIDE DEF n
        <5> QED BY <3>5
      <4>2. CASE fits
        <5>1. \A j \in 1 .. n : j \in 1 .. MaxPayload /\ j <= n
          <6> HIDE DEF n
          <6> QED BY <1>1, <3>1, <4>1
        <5>2. origin' = [j \in 1 .. MaxPayload |-> IF j <= n THEN frames' ELSE origin[j]]
          BY <3>2, <4>2
        <5> HIDE DEF n
        <5>3. \A j \in 1 .. n : origin'[j] = frames'
          BY <5>1, <5>2
        <5> QED BY <3>4, <4>1, <5>3
      <4>3. CASE ~ fits
        <5>1. need \in Nat
          BY DEF EthernetHeader, HeaderLen
        <5> HIDE DEF n, need
        <5>2. Len(f) < need + n
          BY <1>1, <3>1, <4>1, <4>3, <5>1
        <5> QED BY <3>4, <3>5, <4>1, <5>2 DEF need
      <4> QED BY <4>2, <4>3
    <3> QED BY <1>3, <3>3, <3>4, <3>5, <3>6, <3>7 DEF Reading
  <2> QED BY <2>1, <2>2
<1> QED BY <1>4, InTheLoop DEF Inv, Receive

(* Every step keeps the invariant.                                         *)
LEMMA Preserved ==
  Inv /\ [Next]_vars => Inv'
<1> SUFFICES ASSUME Inv, [Next]_vars PROVE Inv'
  OBVIOUS
<1>1. CASE Restart
  BY <1>1, BeginsAgain
<1>2. CASE Replug
  BY <1>2, Replugs
<1>3. CASE Start
  BY <1>3, Starts
<1>4. CASE Load
  BY <1>4, LoadsFile
<1>5. CASE Save
  BY <1>5, SavesFile
<1>6. CASE DeriveKey
  BY <1>6, DerivesKey
<1>7. CASE OpenSocket
  BY <1>7, OpensSocket
<1>8. CASE NameToIndex
  BY <1>8, FindsIndex
<1>9. CASE FetchMac
  BY <1>9, FetchesMac
<1>10. CASE Turn
  BY <1>10, Turns
<1>11. ASSUME NEW f \in Air, Receive(f) PROVE Inv'
  BY <1>11, Receives
<1>12. CASE Quit
  BY <1>12, Ends DEF Quit
<1>13. CASE UNCHANGED vars
  <2>1. UNCHANGED <<startup, socket>> /\ UNCHANGED reading
    BY <1>13 DEF vars
  <2> QED BY <2>1, InTheLoop, NotReading DEF Inv
<1> QED BY <1>1, <1>2, <1>3, <1>4, <1>5, <1>6, <1>7, <1>8, <1>9, <1>10, <1>11, <1>12, <1>13 DEF Next

-----------------------------------------------------------------------------
(* The invariant holds in every state of every run, whatever the files,    *)
(* the interfaces and the frames are.                                      *)
THEOREM Invariance ==
  Spec => []Inv
BY Begins, Preserved, PTL DEF Spec

(* Every variable has its type: a length that receive_packet leaves in the *)
(* header fits the payload whatever frame came, and a setting that         *)
(* load_config took from a file fits the member it went into.              *)
THEOREM TypeCorrect ==
  Spec => []TypeOK
<1>1. Inv => TypeOK
  <2> SUFFICES ASSUME Inv PROVE TypeOK
    OBVIOUS
  <2>1. \A key \in DOMAIN Width : config[key] \in 0 .. Width[key] - 1
    <3>1. \A key \in DOMAIN Width : config[key] \in Nat /\ config[key] < Width[key]
      BY DEF Inv, Configured, Settings
    <3>2. \A key \in DOMAIN Width : Width[key] \in Nat
      BY KeysAre
    <3> QED BY <3>1, <3>2
  <2> QED BY <2>1 DEF Inv, Control, Reading, TypeOK
<1> QED BY <1>1, Invariance, PTL

(* load_config: the last line that sets a key counts, the default where    *)
(* none does, for files of any length; and when save_default_config fails  *)
(* or is read back, the settings are the defaults.                         *)
THEOREM ConfigAsWrittenAlways ==
  Spec => []ConfigAsWritten
<1>1. Inv => ConfigAsWritten
  BY AsWrittenIs DEF Inv, Configured
<1> QED BY <1>1, Invariance, PTL

(* open: however interfaces come and go between its calls, the loop runs   *)
(* on an open socket of one interface, with that interface's address.      *)
THEOREM ReadyToRunAlways ==
  Spec => []ReadyToRun
<1>1. Inv => ReadyToRun
  BY DEF Inv, Configured, Opened, ReadyToRun
<1> QED BY <1>1, Invariance, PTL

(* open, close and the destructor: no descriptor is lost.                  *)
THEOREM NoLeakAlways ==
  Spec => []NoLeak
<1>1. Inv => NoLeak
  BY DEF Inv
<1> QED BY <1>1, Invariance, PTL

(* receive_packet: a payload is the frame's own unless the frame is        *)
(* shorter than it says, for frames of any bytes and any length.           *)
THEOREM OwnPayloadAlways ==
  Spec => []OwnPayload
<1>1. Inv => OwnPayload
  BY DEF Inv, Reading
<1> QED BY <1>1, Invariance, PTL
=============================================================================
