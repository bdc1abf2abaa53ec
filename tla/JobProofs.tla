----------------------------- MODULE JobProofs -----------------------------
(***************************************************************************)
(* The jobs that run in the background: the graphs they are put in, the    *)
(* cron runners that work them off and the channels they wait in.          *)
(***************************************************************************)
EXTENDS MCJobs, Inductions, FiniteSetTheorems, TLAPS

(***************************************************************************)
(* The edges that are stored say what chain(), group() and on_done()       *)
(* promise, for graphs of any size: as long as no chain begins or ends     *)
(* with a chain.                                                           *)
(*                                                                         *)
(* Why: an object is made of older ones, so what _head() and _tail() find  *)
(* does not change later, and is some of the jobs inside it.  From every   *)
(* job inside an object the edges lead to one of its last jobs, and to it  *)
(* from one of its first; between the last jobs of one object and the      *)
(* first ones of what follows there is an edge each.                       *)
(***************************************************************************)
-----------------------------------------------------------------------------
(* The closure *)

\* One round: what two arrows, or paths, in a row connect.
Joined(found) == found \cup UNION {{<<a[1], b[2]>> : b \in {d \in found : d[1] = a[2]}} : a \in found}
Pairs == Ids \X Ids

\* A round keeps what was found, and adds what two arrows in a row connect, no more.
LEMMA JoinedPairs ==
  ASSUME NEW found \in SUBSET Pairs
  PROVE  /\ Joined(found) \in SUBSET Pairs /\ found \subseteq Joined(found)
         /\ \A x, y, z \in Ids : <<x, y>> \in found /\ <<y, z>> \in found => <<x, z>> \in Joined(found)
         /\ \A x, z \in Ids : <<x, z>> \in Joined(found) =>
               <<x, z>> \in found \/ \E y \in Ids : <<x, y>> \in found /\ <<y, z>> \in found
<1>1. ASSUME NEW x \in Ids, NEW y \in Ids, NEW z \in Ids, <<x, y>> \in found, <<y, z>> \in found
      PROVE  <<x, z>> \in Joined(found)
  <2> DEFINE a == <<x, y>>
             b == <<y, z>>
  <2>1. b \in {d \in found : d[1] = a[2]} /\ a \in found /\ <<x, z>> = <<a[1], b[2]>>
    BY <1>1
  <2> HIDE DEF a, b
  <2> QED BY <2>1 DEF Joined
<1>2. ASSUME NEW p \in Joined(found), p \notin found
      PROVE  \E x, y, z \in Ids : p = <<x, z>> /\ <<x, y>> \in found /\ <<y, z>> \in found
  <2>1. PICK a \in found : \E b \in {d \in found : d[1] = a[2]} : p = <<a[1], b[2]>>
    BY <1>2 DEF Joined
  <2>2. PICK b \in found : b[1] = a[2] /\ p = <<a[1], b[2]>>
    BY <2>1
  <2>3. a \in Pairs /\ b \in Pairs
    OBVIOUS
  <2>4. a[1] \in Ids /\ a[2] \in Ids /\ b[2] \in Ids /\ a = <<a[1], a[2]>> /\ b = <<b[1], b[2]>>
    BY <2>3 DEF Pairs
  <2> QED BY <2>2, <2>4
<1>3. found \subseteq Joined(found)
  BY DEF Joined
<1>4. Joined(found) \in SUBSET Pairs
  <2>1. ASSUME NEW p \in Joined(found) PROVE p \in Pairs
    <3>1. CASE p \in found
      BY <3>1
    <3>2. CASE p \notin found
      <4>1. PICK x \in Ids, y \in Ids, z \in Ids : p = <<x, z>>
        BY <1>2, <3>2
      <4> QED BY <4>1 DEF Pairs
    <3> QED BY <3>1, <3>2
  <2> QED BY <2>1
<1>5. ASSUME NEW x \in Ids, NEW z \in Ids, <<x, z>> \in Joined(found), <<x, z>> \notin found
      PROVE  \E y \in Ids : <<x, y>> \in found /\ <<y, z>> \in found
  BY <1>2, <1>5
<1> QED BY <1>1, <1>3, <1>4, <1>5

\* The rounds of Closure.
LEMMA ClosureDefined ==
  ASSUME NEW pairs \in SUBSET Pairs, Len(nodes) \in Nat
  PROVE  \E g \in [0..Len(nodes) -> SUBSET Pairs] :
            /\ Closure(pairs) = g[(Len(nodes) + 1) \div 2]
            /\ g[0] = pairs /\ \A n \in 1..Len(nodes) : g[n] = Joined(g[n - 1])
<1> DEFINE N == Len(nodes)
           V == SUBSET Pairs
           g == CHOOSE g : g = [n \in 0..N |-> IF n = 0 THEN pairs ELSE Joined(g[n - 1])]
           step == [n \in 1..N |-> [v \in V |-> Joined(v)]]
<1>1. N \in Nat /\ pairs \in V /\ step \in Steps(N, V)
  BY JoinedPairs DEF Steps
<1>2. PICK u \in [0..N -> V] : u[0] = pairs /\ \A n \in 1..N : u[n] = step[n][u[n - 1]]
  <2>1. \E u \in Walks(N, V) : IsWalk(u, N, pairs, step)
    <3> HIDE DEF step, N, V
    <3> QED BY <1>1, Recursion
  <2> QED BY <2>1 DEF Walks, IsWalk
<1>3. ASSUME NEW n \in 1..N PROVE u[n] = Joined(u[n - 1])
  <2>1. n - 1 \in 0..N /\ u[n - 1] \in V
    <3>1. N \in Nat
      BY <1>1
    <3> HIDE DEF N, g, step, V
    <3> QED BY <3>1
  <2> HIDE DEF V, g, N
  <2> QED BY <1>2, <2>1
<1>4. u = [n \in 0..N |-> IF n = 0 THEN pairs ELSE Joined(u[n - 1])]
  <2> HIDE DEF V, g, step, N
  <2> QED BY <1>1, <1>2, <1>3
<1>5. g = [n \in 0..N |-> IF n = 0 THEN pairs ELSE Joined(g[n - 1])]
  BY <1>4
<1>6. Closure(pairs) = g[(N + 1) \div 2]
  BY DEF Closure, Joined
<1>7. g[0] = pairs /\ \A n \in 1..N : g[n] = Joined(g[n - 1])
  <2> HIDE DEF g, N, V, step
  <2> QED BY <1>1, <1>5
<1> DEFINE S == {n \in Nat : n <= N => g[n] \in V}
<1>8. Nat \subseteq S
  <2>1. 0 \in S
    <3> HIDE DEF g
    <3> QED BY <1>1, <1>7
  <2>2. ASSUME NEW n \in Nat, n \in S PROVE n + 1 \in S
    <3> HIDE DEF g, V
    <3>1. CASE n + 1 <= N
      <4>1. n + 1 \in 1..N /\ g[n] \in V /\ (n + 1) - 1 = n
        BY <1>1, <2>2, <3>1
      <4>2. g[n + 1] = Joined(g[n])
        BY <1>7, <4>1
      <4>3. g[n + 1] \in V
        BY <4>1, <4>2, JoinedPairs DEF V
      <4> QED BY <4>3
    <3> QED BY <3>1
  <2> HIDE DEF S
  <2> QED BY <2>1, <2>2, Induction
<1>9. g \in [0..N -> V]
  <2> HIDE DEF g, V
  <2> QED BY <1>5, <1>8
<1> HIDE DEF g
<1> QED BY <1>6, <1>7, <1>9

\* A path of m arrows.
IsPath(w, m, pairs) ==
    /\ m \in Nat \ {0} /\ w \in [1..m + 1 -> Ids]
    /\ \A i \in 1..m : <<w[i], w[i + 1]>> \in pairs

\* Every path that is short enough is found.
LEMMA PathsFound ==
  ASSUME NEW pairs \in SUBSET Pairs, NEW N \in Nat, NEW g \in [0..N -> SUBSET Pairs],
         g[0] = pairs, \A n \in 1..N : g[n] = Joined(g[n - 1])
  PROVE  \A k \in 0..N : \A m, w : IsPath(w, m, pairs) /\ (m = 1 \/ m <= 2 * k) => <<w[1], w[m + 1]>> \in g[k]
<1> DEFINE Found(k) == \A m, w : IsPath(w, m, pairs) /\ (m = 1 \/ m <= 2 * k) => <<w[1], w[m + 1]>> \in g[k]
           S == {k \in Nat : k <= N => Found(k)}
<1>1. 0 \in S
  <2>1. SUFFICES ASSUME NEW m, NEW w, IsPath(w, m, pairs), m = 1 \/ m <= 2 * 0
                 PROVE  <<w[1], w[m + 1]>> \in g[0]
    OBVIOUS
  <2>2. m = 1 /\ 1 \in 1..m
    BY <2>1 DEF IsPath
  <2> QED BY <2>1, <2>2 DEF IsPath
<1>2. ASSUME NEW k \in Nat, k \in S PROVE k + 1 \in S
  <2>1. SUFFICES ASSUME k + 1 <= N, NEW m, NEW w, IsPath(w, m, pairs), m = 1 \/ m <= 2 * (k + 1)
                 PROVE  <<w[1], w[m + 1]>> \in g[k + 1]
    OBVIOUS
  <2>2. Found(k)
    BY <1>2, <2>1
  <2>3. k \in 0..N /\ k + 1 \in 1..N /\ (k + 1) - 1 = k
    BY <2>1
  <2>4. g[k + 1] = Joined(g[k]) /\ g[k] \in SUBSET Pairs
    BY <2>3
  <2>5. /\ m \in Nat \ {0} /\ w \in [1..m + 1 -> Ids]
        /\ \A i \in 1..m : <<w[i], w[i + 1]>> \in pairs
    BY <2>1 DEF IsPath
  <2>6. CASE m = 1 \/ m <= 2 * k
    <3>1. <<w[1], w[m + 1]>> \in g[k]
      BY <2>1, <2>2, <2>6
    <3> QED BY <2>4, <3>1, JoinedPairs
  <2>7. CASE ~(m = 1 \/ m <= 2 * k)
    <3> DEFINE h == k + 1
               l == m - h
               v == [i \in 1..h + 1 |-> w[i]]
               u == [i \in 1..l + 1 |-> w[h + i]]
    <3>1. h \in Nat \ {0} /\ l \in Nat \ {0} /\ h + l = m /\ (h = 1 \/ h <= 2 * k) /\ (l = 1 \/ l <= 2 * k)
      BY <2>1, <2>5, <2>7
    <3>2. IsPath(v, h, pairs) /\ v[1] = w[1] /\ v[h + 1] = w[h + 1]
      <4> HIDE DEF h, l
      <4>1. v \in [1..h + 1 -> Ids]
        BY <2>5, <3>1
      <4>2. ASSUME NEW i \in 1..h PROVE <<v[i], v[i + 1]>> \in pairs
        <5>1. i \in 1..m /\ i \in 1..h + 1 /\ i + 1 \in 1..h + 1
          BY <2>5, <3>1
        <5> QED BY <2>5, <5>1
      <4>3. v[1] = w[1] /\ v[h + 1] = w[h + 1]
        BY <3>1
      <4> HIDE DEF v
      <4> QED BY <3>1, <4>1, <4>2, <4>3 DEF IsPath
    <3>3. IsPath(u, l, pairs) /\ u[1] = w[h + 1] /\ u[l + 1] = w[m + 1]
      <4> HIDE DEF h, l
      <4>1. u \in [1..l + 1 -> Ids]
        BY <2>5, <3>1
      <4>2. ASSUME NEW i \in 1..l PROVE <<u[i], u[i + 1]>> \in pairs
        <5>1. h + i \in 1..m /\ i \in 1..l + 1 /\ i + 1 \in 1..l + 1 /\ h + (i + 1) = (h + i) + 1
          BY <2>5, <3>1
        <5>2. u[i] = w[h + i] /\ u[i + 1] = w[(h + i) + 1]
          BY <5>1
        <5> HIDE DEF u
        <5> QED BY <2>5, <5>1, <5>2
      <4>3. u[1] = w[h + 1] /\ u[l + 1] = w[h + (l + 1)] /\ h + (l + 1) = m + 1
        BY <2>5, <3>1
      <4> HIDE DEF u
      <4> QED BY <3>1, <4>1, <4>2, <4>3 DEF IsPath
    <3> HIDE DEF h, l, v, u
    <3>4. <<w[1], w[h + 1]>> \in g[k] /\ <<w[h + 1], w[m + 1]>> \in g[k]
      <4>1. <<v[1], v[h + 1]>> \in g[k] /\ <<u[1], u[l + 1]>> \in g[k]
        BY <2>2, <3>1, <3>2, <3>3
      <4> QED BY <3>2, <3>3, <4>1
    <3>5. w[1] \in Ids /\ w[h + 1] \in Ids /\ w[m + 1] \in Ids
      BY <2>5, <3>1
    <3> QED BY <2>4, <3>4, <3>5, JoinedPairs
  <2> QED BY <2>6, <2>7
<1>3. Nat \subseteq S
  <2> HIDE DEF S
  <2> QED BY <1>1, <1>2, Induction
<1> QED BY <1>3

\* Whether there is a path of m arrows from x to y.
Connects(x, y, m, pairs) == \E w : IsPath(w, m, pairs) /\ w[1] = x /\ w[m + 1] = y

\* Two paths in a row are a path.
LEMMA PathsJoin ==
  ASSUME NEW pairs, NEW x, NEW y, NEW z, NEW h, NEW l, Connects(x, y, h, pairs), Connects(y, z, l, pairs)
  PROVE  Connects(x, z, h + l, pairs) /\ h + l \in Nat \ {0}
<1>1. PICK v : IsPath(v, h, pairs) /\ v[1] = x /\ v[h + 1] = y
  BY DEF Connects
<1>2. PICK u : IsPath(u, l, pairs) /\ u[1] = y /\ u[l + 1] = z
  BY DEF Connects
<1>3. /\ h \in Nat \ {0} /\ v \in [1..h + 1 -> Ids] /\ \A i \in 1..h : <<v[i], v[i + 1]>> \in pairs
      /\ l \in Nat \ {0} /\ u \in [1..l + 1 -> Ids] /\ \A i \in 1..l : <<u[i], u[i + 1]>> \in pairs
  BY <1>1, <1>2 DEF IsPath
<1> DEFINE m == h + l
           w == [i \in 1..m + 1 |-> IF i <= h + 1 THEN v[i] ELSE u[i - h]]
<1>4. m \in Nat \ {0} /\ w[1] = x
  BY <1>1, <1>3
<1>5. w[m + 1] = z
  BY <1>2, <1>3
<1>6. w \in [1..m + 1 -> Ids]
  BY <1>3
<1>7. ASSUME NEW i \in 1..m PROVE <<w[i], w[i + 1]>> \in pairs
  <2>1. i \in 1..m + 1 /\ i + 1 \in 1..m + 1
    BY <1>4
  <2>2. CASE i <= h
    <3>1. i \in 1..h /\ w[i] = v[i] /\ w[i + 1] = v[i + 1]
      BY <1>3, <2>1, <2>2
    <3> HIDE DEF w
    <3> QED BY <1>3, <3>1
  <2>3. CASE i > h
    <3>1. i - h \in 1..l /\ (i + 1) - h = (i - h) + 1
      BY <1>3, <2>3
    <3>2. w[i + 1] = u[(i - h) + 1]
      BY <1>3, <2>1, <2>3
    <3>3. w[i] = u[i - h]
      <4>1. CASE i = h + 1
        <5>1. w[i] = v[h + 1] /\ i - h = 1
          BY <1>3, <2>1, <4>1
        <5> HIDE DEF w
        <5> QED BY <1>1, <1>2, <5>1
      <4>2. CASE i > h + 1
        BY <1>3, <2>1, <4>2
      <4> QED BY <1>3, <2>3, <4>1, <4>2
    <3> HIDE DEF w
    <3> QED BY <1>3, <3>1, <3>2, <3>3
  <2> QED BY <1>3, <2>2, <2>3
<1> HIDE DEF w
<1> QED BY <1>4, <1>5, <1>6, <1>7 DEF IsPath, Connects

\* What is found is connected.
LEMMA FoundPaths ==
  ASSUME NEW pairs \in SUBSET Pairs, NEW N \in Nat, NEW g \in [0..N -> SUBSET Pairs],
         g[0] = pairs, \A n \in 1..N : g[n] = Joined(g[n - 1])
  PROVE  \A k \in 0..N : \A x, y \in Ids : <<x, y>> \in g[k] => \E m : Connects(x, y, m, pairs)
<1> DEFINE Ok(k) == \A x, y \in Ids : <<x, y>> \in g[k] => \E m : Connects(x, y, m, pairs)
           S == {k \in Nat : k <= N => Ok(k)}
<1>1. 0 \in S
  <2>1. SUFFICES ASSUME NEW x \in Ids, NEW y \in Ids, <<x, y>> \in pairs
                 PROVE  Connects(x, y, 1, pairs)
    OBVIOUS
  <2> DEFINE w == [i \in 1..2 |-> IF i = 1 THEN x ELSE y]
  <2>2. w \in [1..1 + 1 -> Ids] /\ w[1] = x /\ w[1 + 1] = y
    OBVIOUS
  <2>3. \A i \in 1..1 : <<w[i], w[i + 1]>> \in pairs
    BY <2>1
  <2>4. 1 \in Nat \ {0}
    OBVIOUS
  <2> HIDE DEF w
  <2>5. IsPath(w, 1, pairs)
    BY <2>2, <2>3, <2>4 DEF IsPath
  <2> QED BY <2>2, <2>5 DEF Connects
<1>2. ASSUME NEW k \in Nat, k \in S PROVE k + 1 \in S
  <2>1. SUFFICES ASSUME k + 1 <= N, NEW x \in Ids, NEW y \in Ids, <<x, y>> \in g[k + 1]
                 PROVE  \E m : Connects(x, y, m, pairs)
    OBVIOUS
  <2>2. Ok(k)
    BY <1>2, <2>1
  <2>3. k \in 0..N /\ k + 1 \in 1..N /\ (k + 1) - 1 = k
    BY <2>1
  <2>4. g[k + 1] = Joined(g[k]) /\ g[k] \in SUBSET Pairs
    BY <2>3
  <2>5. <<x, y>> \in g[k] \/ \E z \in Ids : <<x, z>> \in g[k] /\ <<z, y>> \in g[k]
    BY <2>1, <2>4, JoinedPairs
  <2> HIDE DEF S
  <2>6. CASE <<x, y>> \in g[k]
    BY <2>2, <2>6
  <2>7. ASSUME NEW z \in Ids, <<x, z>> \in g[k], <<z, y>> \in g[k]
        PROVE  \E m : Connects(x, y, m, pairs)
    <3>1. PICK h : Connects(x, z, h, pairs)
      BY <2>2, <2>7
    <3>2. PICK l : Connects(z, y, l, pairs)
      BY <2>2, <2>7
    <3> QED BY <3>1, <3>2, PathsJoin
  <2> QED BY <2>5, <2>6, <2>7
<1>3. Nat \subseteq S
  <2> HIDE DEF S
  <2> QED BY <1>1, <1>2, Induction
<1> QED BY <1>3

\* A path that goes through no object twice is at most as long as there are objects.
LEMMA ShortPath ==
  ASSUME NEW pairs, Len(nodes) \in Nat, NEW x, NEW y, NEW l, Connects(x, y, l, pairs)
  PROVE  \E m \in 1..Len(nodes) : Connects(x, y, m, pairs)
<1> DEFINE T == {m \in Nat \ {0} : Connects(x, y, m, pairs)}
<1>1. l \in T
  BY DEF Connects, IsPath
<1>2. PICK m \in T : \A k \in T : m <= k
  BY <1>1, LeastNumber
<1>3. PICK w : IsPath(w, m, pairs) /\ w[1] = x /\ w[m + 1] = y
  BY <1>2 DEF Connects
<1>4. /\ m \in Nat \ {0} /\ w \in [1..m + 1 -> Ids]
      /\ \A i \in 1..m : <<w[i], w[i + 1]>> \in pairs
  BY <1>3 DEF IsPath
<1>5. m <= Len(nodes)
  <2>1. SUFFICES ASSUME m > Len(nodes) PROVE FALSE
    BY <1>4
  <2> DEFINE f == [i \in 1..m |-> w[i]]
  <2>2. f \in [1..m -> Ids]
    BY <1>4
  <2>3. IsFiniteSet(1..m) /\ IsFiniteSet(Ids) /\ Cardinality(1..m) = m /\ Cardinality(Ids) = Len(nodes)
    <3>1. 1 \in Int /\ m \in Int /\ Len(nodes) \in Int
      BY <1>4
    <3>2. IsFiniteSet(1..m) /\ Cardinality(1..m) = m
      BY <1>4, <3>1, FS_Interval
    <3>3. IsFiniteSet(1..Len(nodes)) /\ Cardinality(1..Len(nodes)) = IF 1 > Len(nodes) THEN 0 ELSE Len(nodes) - 1 + 1
      BY <3>1, FS_Interval
    <3> QED BY <3>2, <3>3 DEF Ids
  <2>4. PICK i \in 1..m, j \in 1..m : i # j /\ f[i] = f[j]
    <3> HIDE DEF f
    <3> QED BY <2>1, <2>2, <2>3, FS_PigeonHole
  <2>5. ASSUME NEW a \in 1..m, NEW b \in 1..m, a < b, w[a] = w[b] PROVE FALSE
    <3> DEFINE c == b - a
               n == m - c
               u == [k \in 1..n + 1 |-> IF k <= a THEN w[k] ELSE w[k + c]]
    <3>1. c \in Nat \ {0} /\ n \in Nat \ {0} /\ n < m /\ a + c = b /\ n + c = m /\ a <= n
      BY <1>4, <2>5
    <3> HIDE DEF c, n
    <3>2. u \in [1..n + 1 -> Ids]
      BY <1>4, <3>1
    <3>3. u[1] = x
      BY <1>3, <1>4, <2>5, <3>1
    <3>4. u[n + 1] = y
      <4>1. u[n + 1] = w[n + 1 + c] /\ n + 1 + c = m + 1
        BY <1>4, <2>5, <3>1
      <4> HIDE DEF u
      <4> QED BY <1>3, <4>1
    <3>5. ASSUME NEW k \in 1..n PROVE <<u[k], u[k + 1]>> \in pairs
      <4>1. k \in 1..n + 1 /\ k + 1 \in 1..n + 1
        BY <3>1
      <4>2. CASE k < a
        <5>1. u[k] = w[k] /\ u[k + 1] = w[k + 1] /\ k \in 1..m
          BY <1>4, <3>1, <4>1, <4>2
        <5> HIDE DEF u
        <5> QED BY <1>4, <5>1
      <4>3. CASE k >= a
        <5>1. k + c \in 1..m /\ (k + 1) + c = (k + c) + 1
          BY <1>4, <3>1, <4>3
        <5>2. u[k + 1] = w[(k + c) + 1]
          BY <3>1, <4>1, <4>3, <5>1
        <5>3. u[k] = w[k + c]
          <6>1. CASE k = a
            <7>1. u[k] = w[a] /\ k + c = b
              BY <3>1, <4>1, <6>1
            <7> HIDE DEF u
            <7> QED BY <2>5, <7>1
          <6>2. CASE k > a
            BY <4>1, <6>2
          <6> QED BY <4>3, <6>1, <6>2
        <5> HIDE DEF u
        <5> QED BY <1>4, <5>1, <5>2, <5>3
      <4> QED BY <4>2, <4>3
    <3> HIDE DEF u
    <3>6. n \in T
      BY <3>1, <3>2, <3>3, <3>4, <3>5 DEF Connects, IsPath
    <3> HIDE DEF T
    <3> QED BY <1>2, <1>4, <3>1, <3>6
  <2>6. w[i] = w[j]
    BY <2>4
  <2>7. i < j \/ j < i
    BY <2>4
  <2> HIDE DEF f
  <2> QED BY <2>4, <2>5, <2>6, <2>7
<1> QED BY <1>2, <1>4, <1>5

\* The closure is what paths connect.
LEMMA ClosureIsPaths ==
  ASSUME NEW pairs \in SUBSET Pairs, Len(nodes) \in Nat, NEW x \in Ids, NEW y \in Ids
  PROVE  <<x, y>> \in Closure(pairs) <=> \E m : Connects(x, y, m, pairs)
<1> DEFINE N == Len(nodes)
           K == (N + 1) \div 2
<1>1. PICK g \in [0..N -> SUBSET Pairs] :
         /\ Closure(pairs) = g[K]
         /\ g[0] = pairs /\ \A n \in 1..N : g[n] = Joined(g[n - 1])
  BY ClosureDefined
<1>2. N \in Nat /\ K \in 0..N /\ N <= 2 * K
  OBVIOUS
<1>3. ASSUME <<x, y>> \in Closure(pairs) PROVE \E m : Connects(x, y, m, pairs)
  <2> HIDE DEF N, K
  <2> QED BY <1>1, <1>2, <1>3, FoundPaths
<1>4. ASSUME NEW l, Connects(x, y, l, pairs) PROVE <<x, y>> \in Closure(pairs)
  <2>1. PICK m \in 1..N : Connects(x, y, m, pairs)
    BY <1>4, ShortPath
  <2>2. PICK w : IsPath(w, m, pairs) /\ w[1] = x /\ w[m + 1] = y
    BY <2>1 DEF Connects
  <2>3. m <= 2 * K
    <3> HIDE DEF K
    <3> QED BY <1>2, <2>1
  <2>4. \A k \in 0..N : \A n, v : IsPath(v, n, pairs) /\ (n = 1 \/ n <= 2 * k) => <<v[1], v[n + 1]>> \in g[k]
    <3> HIDE DEF N, K
    <3> QED BY <1>1, <1>2, PathsFound
  <2> HIDE DEF N, K
  <2>5. <<w[1], w[m + 1]>> \in g[K]
    BY <1>2, <2>2, <2>3, <2>4
  <2> QED BY <1>1, <2>2, <2>5
<1> QED BY <1>3, <1>4

\* The closure has the pairs, and is transitive.
LEMMA ClosureIsClosed ==
  ASSUME NEW pairs \in SUBSET Pairs, Len(nodes) \in Nat
  PROVE  /\ pairs \subseteq Closure(pairs)
         /\ \A x, y, z \in Ids : <<x, y>> \in Closure(pairs) /\ <<y, z>> \in Closure(pairs)
                                    => <<x, z>> \in Closure(pairs)
<1>1. ASSUME NEW x \in Ids, NEW y \in Ids, NEW z \in Ids,
             <<x, y>> \in Closure(pairs), <<y, z>> \in Closure(pairs)
      PROVE  <<x, z>> \in Closure(pairs)
  <2>1. PICK h : Connects(x, y, h, pairs)
    BY <1>1, ClosureIsPaths
  <2>2. PICK l : Connects(y, z, l, pairs)
    BY <1>1, ClosureIsPaths
  <2> QED BY <2>1, <2>2, PathsJoin, ClosureIsPaths
<1>2. ASSUME NEW p \in pairs PROVE p \in Closure(pairs)
  <2>1. PICK x \in Ids, y \in Ids : p = <<x, y>>
    BY DEF Pairs
  <2> DEFINE w == [i \in 1..2 |-> IF i = 1 THEN x ELSE y]
  <2>2. w \in [1..1 + 1 -> Ids] /\ w[1] = x /\ w[1 + 1] = y
    OBVIOUS
  <2>3. \A i \in 1..1 : <<w[i], w[i + 1]>> \in pairs
    BY <1>2, <2>1
  <2> HIDE DEF w
  <2>4. Connects(x, y, 1, pairs)
    BY <2>2, <2>3 DEF Connects, IsPath
  <2> QED BY <2>1, <2>4, ClosureIsPaths
<1> QED BY <1>1, <1>2

-----------------------------------------------------------------------------
(* What the recursive functions define *)

\* Objects as they are built: a part is older than what it is a part of.
NodeRecords == [kind : {"job", "chain", "group"}, parts : Seq(Nat)]
PartsIn(ns, n) == {ns[n].parts[i] : i \in 1..Len(ns[n].parts)}
Formed(ns) ==
    /\ ns \in Seq(NodeRecords)
    /\ \A n \in 1..Len(ns) : /\ (ns[n].kind = "job") <=> (ns[n].parts = <<>>)
                             /\ PartsIn(ns, n) \subseteq 1..n - 1

\* The kind and the parts of an object.
LEMMA FormedNode ==
  ASSUME NEW ns, Formed(ns), NEW n \in 1..Len(ns)
  PROVE  /\ ns[n].kind \in {"job", "chain", "group"} /\ ns[n].parts \in Seq(Nat)
         /\ Len(ns[n].parts) \in Nat
         /\ (ns[n].kind = "job") <=> (ns[n].parts = <<>>)
         /\ \A i \in 1..Len(ns[n].parts) : ns[n].parts[i] \in 1..n - 1
         /\ ns[n].kind # "job" => 1 \in 1..Len(ns[n].parts) /\ Len(ns[n].parts) \in 1..Len(ns[n].parts)
<1>1. ns[n] \in NodeRecords
  BY DEF Formed
<1>2. ns[n].kind \in {"job", "chain", "group"} /\ ns[n].parts \in Seq(Nat)
  BY <1>1 DEF NodeRecords
<1>3. (ns[n].kind = "job") <=> (ns[n].parts = <<>>)
  BY DEF Formed
<1>4. \A i \in 1..Len(ns[n].parts) : ns[n].parts[i] \in 1..n - 1
  BY DEF Formed, PartsIn
<1>5. Len(ns[n].parts) \in Nat
  BY <1>2
<1>6. ns[n].kind # "job" => 1 \in 1..Len(ns[n].parts) /\ Len(ns[n].parts) \in 1..Len(ns[n].parts)
  BY <1>2, <1>3
<1> QED BY <1>2, <1>3, <1>4, <1>5, <1>6

\* The ends of object n, from those of its parts: as the code has them, or as they are meant.
EndsStep(how, ns, n, f) ==
    LET parts == ns[n].parts IN
    CASE ns[n].kind = "job"   -> [head |-> {n}, tail |-> {n}]
      [] ns[n].kind = "chain" -> IF how = "drawn"
                                 THEN [head |-> f[parts[1]].tail, tail |-> f[parts[Len(parts)]].head]
                                 ELSE [head |-> f[parts[1]].head, tail |-> f[parts[Len(parts)]].tail]
      [] ns[n].kind = "group" -> [head |-> UNION {f[p].head : p \in PartsIn(ns, n)},
                                  tail |-> UNION {f[p].tail : p \in PartsIn(ns, n)}]
EndsOf(how, ns) == CHOOSE ends : ends = [n \in 1..Len(ns) |-> EndsStep(how, ns, n, ends)]
BothEnds == [head : SUBSET Nat, tail : SUBSET Nat]

\* They depend on the parts only, and are sets of jobs.
LEMMA EndsStepLocal ==
  ASSUME NEW how \in {"drawn", "meant"}, NEW ns, Formed(ns), NEW n \in 1..Len(ns), NEW f, NEW e, \A p \in 1..n - 1 : f[p] = e[p]
  PROVE  EndsStep(how, ns, n, f) = EndsStep(how, ns, n, e)
<1>1. /\ ns[n].kind \in {"job", "chain", "group"}
      /\ \A i \in 1..Len(ns[n].parts) : ns[n].parts[i] \in 1..n - 1
      /\ ns[n].kind # "job" => 1 \in 1..Len(ns[n].parts) /\ Len(ns[n].parts) \in 1..Len(ns[n].parts)
  BY FormedNode
<1>2. CASE ns[n].kind = "job"
  BY <1>2 DEF EndsStep
<1>3. CASE ns[n].kind = "chain"
  BY <1>1, <1>3 DEF EndsStep
<1>4. CASE ns[n].kind = "group"
  <2>1. \A p \in PartsIn(ns, n) : f[p] = e[p]
    BY <1>1 DEF PartsIn
  <2>2. /\ {f[p].head : p \in PartsIn(ns, n)} = {e[p].head : p \in PartsIn(ns, n)}
        /\ {f[p].tail : p \in PartsIn(ns, n)} = {e[p].tail : p \in PartsIn(ns, n)}
    BY <2>1
  <2> QED BY <1>4, <2>2 DEF EndsStep
<1> QED BY <1>1, <1>2, <1>3, <1>4

\* The ends of an object are sets of jobs, if those of its parts are.
LEMMA EndsStepType ==
  ASSUME NEW how \in {"drawn", "meant"}, NEW ns, Formed(ns), NEW n \in 1..Len(ns), NEW f, \A p \in 1..n - 1 : f[p] \in BothEnds
  PROVE  EndsStep(how, ns, n, f) \in BothEnds
<1>1. /\ ns[n].kind \in {"job", "chain", "group"}
      /\ \A i \in 1..Len(ns[n].parts) : ns[n].parts[i] \in 1..n - 1
      /\ ns[n].kind # "job" => 1 \in 1..Len(ns[n].parts) /\ Len(ns[n].parts) \in 1..Len(ns[n].parts)
  BY FormedNode
<1>2. \A p \in 1..n - 1 : f[p].head \subseteq Nat /\ f[p].tail \subseteq Nat
  BY DEF BothEnds
<1>3. CASE ns[n].kind = "job"
  <2>1. {n} \in SUBSET Nat /\ EndsStep(how, ns, n, f) = [head |-> {n}, tail |-> {n}]
    BY <1>3 DEF EndsStep
  <2> QED BY <2>1 DEF BothEnds
<1>4. CASE ns[n].kind = "chain"
  <2> DEFINE h == IF how = "drawn" THEN f[ns[n].parts[1]].tail ELSE f[ns[n].parts[1]].head
             t == IF how = "drawn" THEN f[ns[n].parts[Len(ns[n].parts)]].head ELSE f[ns[n].parts[Len(ns[n].parts)]].tail
  <2>1. h \in SUBSET Nat /\ t \in SUBSET Nat
    BY <1>1, <1>2, <1>4
  <2>2. EndsStep(how, ns, n, f) = [head |-> h, tail |-> t]
    BY <1>4 DEF EndsStep
  <2> HIDE DEF h, t
  <2> QED BY <2>1, <2>2 DEF BothEnds
<1>5. CASE ns[n].kind = "group"
  <2> DEFINE h == UNION {f[p].head : p \in PartsIn(ns, n)}
             t == UNION {f[p].tail : p \in PartsIn(ns, n)}
  <2>1. \A p \in PartsIn(ns, n) : f[p].head \subseteq Nat /\ f[p].tail \subseteq Nat
    BY <1>1, <1>2 DEF PartsIn
  <2>2. h \in SUBSET Nat /\ t \in SUBSET Nat
    BY <2>1
  <2>3. EndsStep(how, ns, n, f) = [head |-> h, tail |-> t]
    BY <1>5 DEF EndsStep
  <2> HIDE DEF h, t
  <2> QED BY <2>2, <2>3 DEF BothEnds
<1> QED BY <1>1, <1>3, <1>4, <1>5

\* The ends of every object are those made of the ends of its parts.
LEMMA EndsDefined ==
  ASSUME NEW how \in {"drawn", "meant"}, NEW ns, Formed(ns)
  PROVE  /\ EndsOf(how, ns) \in [1..Len(ns) -> BothEnds]
         /\ \A n \in 1..Len(ns) : EndsOf(how, ns)[n] = EndsStep(how, ns, n, EndsOf(how, ns))
<1> DEFINE N == Len(ns)
           V == BothEnds
           step == [n \in 1..N |-> [f \in Before(n, V) |-> EndsStep(how, ns, n, f)]]
           e == EndsOf(how, ns)
<1>1. N \in Nat
  BY DEF Formed
<1>2. AreSteps(step, N, V)
  <2>1. ASSUME NEW n \in 1..N, NEW f \in Before(n, V) PROVE EndsStep(how, ns, n, f) \in V
    <3>1. \A p \in 1..n - 1 : f[p] \in BothEnds
      BY DEF Before
    <3> QED BY <3>1, EndsStepType
  <2> HIDE DEF V, N
  <2> QED BY <2>1 DEF AreSteps
<1>3. PICK u \in Values(N, V) : Follow(u, N, step)
  <2> HIDE DEF step, N, V
  <2> QED BY <1>1, <1>2, RecursionByCreation
<1>4. ASSUME NEW n \in 1..N PROVE u[n] = EndsStep(how, ns, n, u)
  <2> DEFINE v == [p \in 1..n - 1 |-> u[p]]
  <2>1. v \in Before(n, V)
    BY <1>1, <1>3 DEF Before, Values
  <2>2. u[n] = step[n][v]
    BY <1>3 DEF Follow
  <2>3. u[n] = EndsStep(how, ns, n, v)
    <3> HIDE DEF v, N, V, e
    <3> QED BY <2>1, <2>2
  <2>4. \A p \in 1..n - 1 : v[p] = u[p]
    OBVIOUS
  <2> HIDE DEF v
  <2> QED BY <2>3, <2>4, EndsStepLocal
<1>5. u = [n \in 1..N |-> EndsStep(how, ns, n, u)]
  <2> HIDE DEF N, V, step, e
  <2> QED BY <1>3, <1>4 DEF Values
<1>6. e = [n \in 1..N |-> EndsStep(how, ns, n, e)]
  BY <1>5 DEF EndsOf
<1>7. \A n \in 1..N : e[n] = EndsStep(how, ns, n, e)
  <2> HIDE DEF e, N
  <2> QED BY <1>6
<1> DEFINE S == {n \in 1..N : e[n] \in V}
<1>8. 1..N \subseteq S
  <2>1. ASSUME NEW n \in 1..N, \A p \in 1..n - 1 : p \in S PROVE n \in S
    <3>1. \A p \in 1..n - 1 : e[p] \in BothEnds
      BY <2>1
    <3> HIDE DEF e
    <3>2. EndsStep(how, ns, n, e) \in BothEnds
      BY <3>1, EndsStepType
    <3> QED BY <1>7, <3>2
  <2> HIDE DEF S, N
  <2> QED BY <1>1, <2>1, ByCreation
<1>9. e \in [1..N -> V]
  <2> HIDE DEF e, V, N
  <2> QED BY <1>6, <1>8
<1> QED BY <1>7, <1>9

\* The jobs inside an object, from those inside its parts.
InsideStep(n, f) == IF nodes[n].kind = "job" THEN {n} ELSE UNION {f[p] : p \in PartsOf(n)}

\* The jobs inside every object are those inside its parts.
LEMMA InsideDefined ==
  ASSUME Formed(nodes)
  PROVE  /\ Inside \in [Ids -> SUBSET Ids]
         /\ \A n \in Ids : Inside[n] = InsideStep(n, Inside)
<1> DEFINE N == Len(nodes)
           V == SUBSET Ids
           step == [n \in 1..N |-> [f \in Before(n, V) |-> InsideStep(n, f)]]
           e == Inside
<1>1. N \in Nat /\ Ids = 1..N
  BY DEF Formed, Ids
<1>2. ASSUME NEW n \in 1..N PROVE PartsOf(n) \subseteq 1..n - 1
  BY <1>2, FormedNode DEF PartsOf
<1>3. ASSUME NEW n \in 1..N, NEW f, \A p \in 1..n - 1 : f[p] \in V PROVE InsideStep(n, f) \in V
  BY <1>1, <1>2, <1>3 DEF InsideStep
<1>4. AreSteps(step, N, V)
  <2>1. ASSUME NEW n \in 1..N, NEW f \in Before(n, V) PROVE InsideStep(n, f) \in V
    <3>1. \A p \in 1..n - 1 : f[p] \in V
      BY DEF Before
    <3> HIDE DEF V
    <3> QED BY <1>3, <3>1
  <2> HIDE DEF V, N
  <2> QED BY <2>1 DEF AreSteps
<1>5. PICK u \in Values(N, V) : Follow(u, N, step)
  <2> HIDE DEF step, N, V
  <2> QED BY <1>1, <1>4, RecursionByCreation
<1>6. ASSUME NEW n \in 1..N PROVE u[n] = InsideStep(n, u)
  <2> DEFINE v == [p \in 1..n - 1 |-> u[p]]
  <2>1. v \in Before(n, V)
    BY <1>1, <1>5 DEF Before, Values
  <2>2. u[n] = step[n][v]
    BY <1>5 DEF Follow
  <2>3. u[n] = InsideStep(n, v)
    <3> HIDE DEF v, N, V, e
    <3> QED BY <2>1, <2>2
  <2>4. \A p \in PartsOf(n) : v[p] = u[p]
    BY <1>2
  <2>5. {v[p] : p \in PartsOf(n)} = {u[p] : p \in PartsOf(n)}
    <3> HIDE DEF v
    <3> QED BY <2>4
  <2> HIDE DEF v
  <2> QED BY <2>3, <2>5 DEF InsideStep
<1>7. u = [n \in 1..N |-> InsideStep(n, u)]
  <2> HIDE DEF N, V, step, e
  <2> QED BY <1>5, <1>6 DEF Values
<1>8. e = [n \in Ids |-> InsideStep(n, e)]
  BY <1>1, <1>7 DEF Inside, InsideStep
<1>9. \A n \in 1..N : e[n] = InsideStep(n, e)
  <2> HIDE DEF e, N
  <2> QED BY <1>1, <1>8
<1> DEFINE S == {n \in 1..N : e[n] \in V}
<1>10. 1..N \subseteq S
  <2>1. ASSUME NEW n \in 1..N, \A p \in 1..n - 1 : p \in S PROVE n \in S
    <3>1. \A p \in 1..n - 1 : e[p] \in V
      BY <2>1
    <3> HIDE DEF e, V
    <3>2. InsideStep(n, e) \in V
      BY <1>3, <3>1
    <3> QED BY <1>9, <3>2
  <2> HIDE DEF S, N
  <2> QED BY <1>1, <2>1, ByCreation
<1>11. e \in [Ids -> V]
  <2> HIDE DEF e, V, N
  <2> QED BY <1>1, <1>8, <1>10
<1> QED BY <1>1, <1>9, <1>11

-----------------------------------------------------------------------------
(* The order *)

\* The inductive invariant.
GraphInv ==
    /\ Formed(nodes)
    /\ links \in SUBSET Pairs
    /\ delayed # 0 => delayed \in Ids /\ Visited(delayed) = Ids

\* Where edges are drawn to and from an object, and where it is meant to begin and end.
Heads(n) == EndsOf("drawn", nodes)[n].head
Tails(n) == EndsOf("drawn", nodes)[n].tail
Firsts(n) == EndsOf("meant", nodes)[n].head
Lasts(n) == EndsOf("meant", nodes)[n].tail

\* The ends of an object, by its kind.
LEMMA EndsByKind ==
  ASSUME GraphInv, NEW n \in Ids
  PROVE  LET s == nodes[n].parts IN
         /\ nodes[n].kind \in {"job", "chain", "group"}
         /\ nodes[n].kind = "job" =>
               /\ Heads(n) = {n} /\ Tails(n) = {n} /\ Firsts(n) = {n} /\ Lasts(n) = {n}
               /\ Inside[n] = {n}
         /\ nodes[n].kind = "chain" =>
               /\ s # <<>> /\ Len(s) \in Nat \ {0} /\ \A i \in 1..Len(s) : s[i] \in Ids /\ s[i] < n
               /\ Heads(n) = Tails(s[1]) /\ Tails(n) = Heads(s[Len(s)])
               /\ Firsts(n) = Firsts(s[1]) /\ Lasts(n) = Lasts(s[Len(s)])
               /\ Inside[n] = UNION {Inside[s[i]] : i \in 1..Len(s)}
         /\ nodes[n].kind = "group" =>
               /\ PartsOf(n) # {} /\ \A p \in PartsOf(n) : p \in Ids /\ p < n
               /\ Heads(n) = UNION {Heads(p) : p \in PartsOf(n)} /\ Tails(n) = UNION {Tails(p) : p \in PartsOf(n)}
               /\ Firsts(n) = UNION {Firsts(p) : p \in PartsOf(n)} /\ Lasts(n) = UNION {Lasts(p) : p \in PartsOf(n)}
               /\ Inside[n] = UNION {Inside[p] : p \in PartsOf(n)}
<1> DEFINE s == nodes[n].parts
<1>1. Formed(nodes) /\ n \in 1..Len(nodes) /\ Ids = 1..Len(nodes) /\ Len(nodes) \in Nat
  BY DEF GraphInv, Ids, Formed
<1>2. /\ nodes[n].kind \in {"job", "chain", "group"} /\ Len(s) \in Nat
      /\ (nodes[n].kind = "job") <=> (s = <<>>)
      /\ \A i \in 1..Len(s) : s[i] \in 1..n - 1
      /\ nodes[n].kind # "job" => 1 \in 1..Len(s) /\ Len(s) \in 1..Len(s)
  BY <1>1, FormedNode
<1>3. /\ EndsOf("drawn", nodes)[n] = EndsStep("drawn", nodes, n, EndsOf("drawn", nodes))
      /\ EndsOf("meant", nodes)[n] = EndsStep("meant", nodes, n, EndsOf("meant", nodes))
      /\ Inside[n] = InsideStep(n, Inside)
  BY <1>1, EndsDefined, InsideDefined
<1>4. PartsOf(n) = {s[i] : i \in 1..Len(s)} /\ PartsIn(nodes, n) = PartsOf(n)
  BY DEF PartsOf, PartsIn
<1> HIDE DEF s
<1>5. ASSUME nodes[n].kind = "job"
      PROVE  /\ Heads(n) = {n} /\ Tails(n) = {n} /\ Firsts(n) = {n} /\ Lasts(n) = {n}
             /\ Inside[n] = {n}
  BY <1>3, <1>5 DEF EndsStep, InsideStep, Heads, Tails, Firsts, Lasts
<1>6. ASSUME nodes[n].kind = "chain"
      PROVE  /\ s # <<>> /\ Len(s) \in Nat \ {0} /\ \A i \in 1..Len(s) : s[i] \in Ids /\ s[i] < n
             /\ Heads(n) = Tails(s[1]) /\ Tails(n) = Heads(s[Len(s)])
             /\ Firsts(n) = Firsts(s[1]) /\ Lasts(n) = Lasts(s[Len(s)])
             /\ Inside[n] = UNION {Inside[s[i]] : i \in 1..Len(s)}
  <2>1. Heads(n) = Tails(s[1]) /\ Tails(n) = Heads(s[Len(s)])
    BY <1>3, <1>6 DEF EndsStep, Heads, Tails, s
  <2>2. Firsts(n) = Firsts(s[1]) /\ Lasts(n) = Lasts(s[Len(s)])
    BY <1>3, <1>6 DEF EndsStep, Firsts, Lasts, s
  <2>3. Inside[n] = UNION {Inside[p] : p \in PartsOf(n)}
    BY <1>3, <1>6 DEF InsideStep
  <2>4. {Inside[p] : p \in PartsOf(n)} = {Inside[s[i]] : i \in 1..Len(s)}
    BY <1>4
  <2>5. \A i \in 1..Len(s) : s[i] \in Ids /\ s[i] < n
    BY <1>1, <1>2
  <2>6. Len(s) \in Nat \ {0} /\ s # <<>>
    BY <1>2, <1>6
  <2> QED BY <2>1, <2>2, <2>3, <2>4, <2>5, <2>6
<1>7. ASSUME nodes[n].kind = "group"
      PROVE  /\ PartsOf(n) # {} /\ \A p \in PartsOf(n) : p \in Ids /\ p < n
             /\ Heads(n) = UNION {Heads(p) : p \in PartsOf(n)} /\ Tails(n) = UNION {Tails(p) : p \in PartsOf(n)}
             /\ Firsts(n) = UNION {Firsts(p) : p \in PartsOf(n)} /\ Lasts(n) = UNION {Lasts(p) : p \in PartsOf(n)}
             /\ Inside[n] = UNION {Inside[p] : p \in PartsOf(n)}
  <2>1. s[1] \in PartsOf(n)
    BY <1>2, <1>4, <1>7
  <2>2. \A p \in PartsOf(n) : p \in Ids /\ p < n
    BY <1>1, <1>2, <1>4
  <2>3. Heads(n) = UNION {Heads(p) : p \in PartsOf(n)} /\ Tails(n) = UNION {Tails(p) : p \in PartsOf(n)}
    BY <1>3, <1>4, <1>7 DEF EndsStep, Heads, Tails
  <2>4. Firsts(n) = UNION {Firsts(p) : p \in PartsOf(n)} /\ Lasts(n) = UNION {Lasts(p) : p \in PartsOf(n)}
    BY <1>3, <1>4, <1>7 DEF EndsStep, Firsts, Lasts
  <2>5. Inside[n] = UNION {Inside[p] : p \in PartsOf(n)}
    BY <1>3, <1>7 DEF InsideStep
  <2> QED BY <2>1, <2>2, <2>3, <2>4, <2>5
<1> QED BY <1>2, <1>5, <1>6, <1>7 DEF s

\* All these ends are jobs inside the object, and there are some.
LEMMA EndsAreInside ==
  ASSUME GraphInv
  PROVE  \A n \in Ids : /\ Heads(n) \subseteq Inside[n] /\ Tails(n) \subseteq Inside[n]
                        /\ Firsts(n) \subseteq Inside[n] /\ Lasts(n) \subseteq Inside[n]
                        /\ Firsts(n) # {} /\ Lasts(n) # {} /\ Inside[n] \subseteq Ids
<1> DEFINE Fine(n) == /\ Heads(n) \subseteq Inside[n] /\ Tails(n) \subseteq Inside[n]
                      /\ Firsts(n) \subseteq Inside[n] /\ Lasts(n) \subseteq Inside[n]
                      /\ Firsts(n) # {} /\ Lasts(n) # {}
           S == {n \in Ids : Fine(n)}
<1>1. Formed(nodes) /\ Len(nodes) \in Nat /\ Ids = 1..Len(nodes)
  BY DEF GraphInv, Formed, Ids
<1>2. ASSUME NEW n \in Ids, \A p \in Ids : p < n => Fine(p) PROVE Fine(n)
  <2> DEFINE s == nodes[n].parts
  <2>1. CASE nodes[n].kind = "job"
    <3>1. /\ Heads(n) = {n} /\ Tails(n) = {n} /\ Firsts(n) = {n} /\ Lasts(n) = {n}
          /\ Inside[n] = {n}
      BY <2>1, EndsByKind
    <3> QED BY <3>1
  <2>2. CASE nodes[n].kind = "chain"
    <3>1. /\ Len(s) \in Nat \ {0} /\ \A i \in 1..Len(s) : s[i] \in Ids /\ s[i] < n
          /\ Heads(n) = Tails(s[1]) /\ Tails(n) = Heads(s[Len(s)])
          /\ Firsts(n) = Firsts(s[1]) /\ Lasts(n) = Lasts(s[Len(s)])
          /\ Inside[n] = UNION {Inside[s[i]] : i \in 1..Len(s)}
      BY <2>2, EndsByKind
    <3> HIDE DEF s
    <3>2. 1 \in 1..Len(s) /\ Len(s) \in 1..Len(s)
      BY <3>1
    <3>3. Fine(s[1]) /\ Fine(s[Len(s)])
      BY <1>2, <3>1, <3>2
    <3>4. Inside[s[1]] \subseteq Inside[n] /\ Inside[s[Len(s)]] \subseteq Inside[n]
      BY <3>1, <3>2
    <3> QED BY <3>1, <3>3, <3>4
  <2>3. CASE nodes[n].kind = "group"
    <3>1. /\ PartsOf(n) # {} /\ \A p \in PartsOf(n) : p \in Ids /\ p < n
          /\ Heads(n) = UNION {Heads(p) : p \in PartsOf(n)} /\ Tails(n) = UNION {Tails(p) : p \in PartsOf(n)}
          /\ Firsts(n) = UNION {Firsts(p) : p \in PartsOf(n)} /\ Lasts(n) = UNION {Lasts(p) : p \in PartsOf(n)}
          /\ Inside[n] = UNION {Inside[p] : p \in PartsOf(n)}
      BY <2>3, EndsByKind
    <3>2. \A p \in PartsOf(n) : Fine(p)
      BY <1>2, <3>1
    <3>3. Heads(n) \subseteq Inside[n] /\ Tails(n) \subseteq Inside[n]
      BY <3>1, <3>2
    <3>4. Firsts(n) \subseteq Inside[n] /\ Lasts(n) \subseteq Inside[n]
      BY <3>1, <3>2
    <3>5. Firsts(n) # {} /\ Lasts(n) # {}
      BY <3>1, <3>2
    <3> QED BY <3>3, <3>4, <3>5
  <2> QED BY <2>1, <2>2, <2>3, EndsByKind
<1>3. 1..Len(nodes) \subseteq S
  <2>1. ASSUME NEW n \in 1..Len(nodes), \A p \in 1..n - 1 : p \in S PROVE n \in S
    <3>1. \A p \in Ids : p < n => Fine(p)
      BY <1>1, <2>1
    <3> HIDE DEF Fine
    <3> QED BY <1>1, <1>2, <3>1
  <2> HIDE DEF S
  <2> QED BY <1>1, <2>1, ByCreation
<1>4. \A n \in Ids : Inside[n] \subseteq Ids
  BY <1>1, InsideDefined
<1> QED BY <1>1, <1>3, <1>4

\* The order is promised of objects whose chains begin and end plainly, if they are joined to others.
Regular == \A n \in Ids : Attached(n) => Plain(n)

\* Edges are drawn at the ends that are meant: of jobs, and of all objects that are joined to others.
LEMMA EndsAsMeant ==
  ASSUME GraphInv, Regular
  PROVE  \A n \in Ids : Attached(n) => Heads(n) = Firsts(n) /\ Tails(n) = Lasts(n)
<1> DEFINE Right(n) == Attached(n) => Heads(n) = Firsts(n) /\ Tails(n) = Lasts(n)
           S == {n \in Ids : Right(n)}
<1>1. Formed(nodes) /\ Len(nodes) \in Nat /\ Ids = 1..Len(nodes)
  BY DEF GraphInv, Formed, Ids
<1>2. MeantEnds = EndsOf("meant", nodes)
  BY DEF MeantEnds, MeantFrom, EndsOf, EndsStep, PartsIn, PartsOf, Ids
<1>3. ASSUME NEW n \in Ids, NEW p \in PartsOf(n) PROVE Attached(p)
  BY <1>3 DEF Attached
<1>4. ASSUME NEW n \in Ids, \A p \in Ids : p < n => Right(p), Attached(n)
      PROVE  Heads(n) = Firsts(n) /\ Tails(n) = Lasts(n)
  <2> DEFINE s == nodes[n].parts
  <2>1. CASE nodes[n].kind = "job"
    BY <2>1, EndsByKind
  <2>2. CASE nodes[n].kind = "chain"
    <3>1. /\ Len(s) \in Nat \ {0} /\ \A i \in 1..Len(s) : s[i] \in Ids /\ s[i] < n
          /\ Heads(n) = Tails(s[1]) /\ Tails(n) = Heads(s[Len(s)])
          /\ Firsts(n) = Firsts(s[1]) /\ Lasts(n) = Lasts(s[Len(s)])
      BY <2>2, EndsByKind
    <3>2. Plain(n)
      BY <1>4 DEF Regular
    <3>3. Firsts(s[1]) = Lasts(s[1]) /\ Firsts(s[Len(s)]) = Lasts(s[Len(s)])
      BY <1>2, <2>2, <3>2 DEF Plain, Firsts, Lasts
    <3>4. s[1] \in PartsOf(n) /\ s[Len(s)] \in PartsOf(n)
      BY <3>1 DEF PartsOf
    <3> HIDE DEF s
    <3>5. 1 \in 1..Len(s) /\ Len(s) \in 1..Len(s)
      BY <3>1
    <3>6. Right(s[1]) /\ Right(s[Len(s)]) /\ Attached(s[1]) /\ Attached(s[Len(s)])
      BY <1>3, <1>4, <3>1, <3>4, <3>5
    <3> QED BY <3>1, <3>3, <3>6
  <2>3. CASE nodes[n].kind = "group"
    <3>1. /\ \A p \in PartsOf(n) : p \in Ids /\ p < n
          /\ Heads(n) = UNION {Heads(p) : p \in PartsOf(n)} /\ Tails(n) = UNION {Tails(p) : p \in PartsOf(n)}
          /\ Firsts(n) = UNION {Firsts(p) : p \in PartsOf(n)} /\ Lasts(n) = UNION {Lasts(p) : p \in PartsOf(n)}
      BY <2>3, EndsByKind
    <3>2. \A p \in PartsOf(n) : Heads(p) = Firsts(p) /\ Tails(p) = Lasts(p)
      BY <1>3, <1>4, <3>1
    <3>3. /\ {Heads(p) : p \in PartsOf(n)} = {Firsts(p) : p \in PartsOf(n)}
          /\ {Tails(p) : p \in PartsOf(n)} = {Lasts(p) : p \in PartsOf(n)}
      BY <3>2
    <3> QED BY <3>1, <3>3
  <2> QED BY <2>1, <2>2, <2>3, EndsByKind
<1>5. 1..Len(nodes) \subseteq S
  <2>1. ASSUME NEW n \in 1..Len(nodes), \A p \in 1..n - 1 : p \in S PROVE n \in S
    <3>1. \A p \in Ids : p < n => Right(p)
      BY <1>1, <2>1
    <3>2. Right(n)
      BY <1>1, <1>4, <3>1
    <3> HIDE DEF Right
    <3> QED BY <1>1, <3>2
  <2> HIDE DEF S
  <2> QED BY <1>1, <2>1, ByCreation
<1> QED BY <1>1, <1>5

\* The pairs of objects one of which the callers put before the other.
Succeeds(x, y) ==
    \/ <<x, y>> \in links
    \/ \E n \in Ids : /\ nodes[n].kind = "chain"
                      /\ \E i \in 1..Len(nodes[n].parts) - 1 : x = nodes[n].parts[i] /\ y = nodes[n].parts[i + 1]

\* Only objects there are follow each other.
LEMMA SuccessionIsOfIds ==
  ASSUME GraphInv, NEW x, NEW y, Succeeds(x, y)
  PROVE  x \in Ids /\ y \in Ids
<1>1. CASE <<x, y>> \in links
  BY <1>1 DEF GraphInv, Pairs
<1>2. ASSUME NEW n \in Ids, nodes[n].kind = "chain", NEW i \in 1..Len(nodes[n].parts) - 1,
             x = nodes[n].parts[i], y = nodes[n].parts[i + 1]
      PROVE  x \in Ids /\ y \in Ids
  <2> DEFINE s == nodes[n].parts
  <2>1. Len(s) \in Nat \ {0} /\ \A k \in 1..Len(s) : s[k] \in Ids
    BY <1>2, EndsByKind
  <2>2. i \in 1..Len(s) /\ i + 1 \in 1..Len(s)
    BY <2>1
  <2> QED BY <1>2, <2>1, <2>2
<1> QED BY <1>1, <1>2 DEF Succeeds

\* What is promised is the order of the jobs inside objects that follow each other.
LEMMA PromisedPairs ==
  ASSUME GraphInv
  PROVE  \A p : p \in Promised <=> \E x, y : Succeeds(x, y) /\ p \in Inside[x] \X Inside[y]
<1> DEFINE next(s) == {<<s[i], s[i + 1]>> : i \in 1..(Len(s) - 1)}
           chains == {n \in Ids : nodes[n].kind = "chain"}
           L == links \cup UNION {next(nodes[n].parts) : n \in chains}
<1>1. Promised = UNION {Inside[l[1]] \X Inside[l[2]] : l \in L}
  BY DEF Promised
<1>2. ASSUME NEW l \in L PROVE Succeeds(l[1], l[2])
  <2>1. CASE l \in links
    <3>1. l \in Pairs
      BY <2>1 DEF GraphInv
    <3>2. l = <<l[1], l[2]>>
      BY <3>1 DEF Pairs
    <3> QED BY <2>1, <3>2 DEF Succeeds
  <2>2. CASE l \notin links
    <3>1. PICK n \in chains : l \in next(nodes[n].parts)
      BY <2>2
    <3>2. PICK i \in 1..Len(nodes[n].parts) - 1 : l = <<nodes[n].parts[i], nodes[n].parts[i + 1]>>
      BY <3>1
    <3> QED BY <3>1, <3>2 DEF Succeeds
  <2> QED BY <2>1, <2>2
<1>3. ASSUME NEW x, NEW y, Succeeds(x, y) PROVE <<x, y>> \in L
  <2>1. CASE <<x, y>> \in links
    BY <2>1
  <2>2. ASSUME NEW n \in Ids, nodes[n].kind = "chain", NEW i \in 1..Len(nodes[n].parts) - 1,
               x = nodes[n].parts[i], y = nodes[n].parts[i + 1]
        PROVE  <<x, y>> \in L
    <3>1. n \in chains /\ <<x, y>> \in next(nodes[n].parts)
      BY <2>2
    <3> HIDE DEF next
    <3> QED BY <3>1
  <2> QED BY <1>3, <2>1, <2>2 DEF Succeeds
<1> HIDE DEF L
<1>4. ASSUME NEW p \in Promised PROVE \E x, y : Succeeds(x, y) /\ p \in Inside[x] \X Inside[y]
  <2>1. PICK l \in L : p \in Inside[l[1]] \X Inside[l[2]]
    BY <1>1, <1>4
  <2> QED BY <1>2, <2>1
<1>5. ASSUME NEW x, NEW y, Succeeds(x, y), NEW p \in Inside[x] \X Inside[y] PROVE p \in Promised
  <2> DEFINE l == <<x, y>>
  <2>1. l \in L /\ l[1] = x /\ l[2] = y
    BY <1>3, <1>5
  <2> HIDE DEF l
  <2> QED BY <1>1, <1>5, <2>1
<1> QED BY <1>4, <1>5

\* What is drawn follows what the callers asked for.
LEMMA ArrowsSucceed ==
  ASSUME GraphInv, NEW n \in Ids, NEW a \in Arrows(n)
  PROVE  \E x : Succeeds(x, a[2]) /\ Tails(a[1]) \subseteq Inside[x]
<1> DEFINE s == nodes[n].parts
<1>0. \A y \in Follows(n) : Succeeds(n, y)
  <2>1. ASSUME NEW y \in Follows(n) PROVE <<n, y>> \in links
    <3>1. PICK l \in links : l[1] = n /\ l[2] = y
      BY DEF Follows
    <3>2. l \in Pairs
      BY DEF GraphInv
    <3>3. l = <<n, y>>
      BY <3>1, <3>2 DEF Pairs
    <3> QED BY <3>3
  <2> QED BY <2>1 DEF Succeeds
<1>1. CASE nodes[n].kind = "job"
  <2>1. a[1] = n /\ a[2] \in Follows(n)
    BY <1>1 DEF Arrows
  <2> QED BY <1>0, <2>1, EndsAreInside
<1>2. CASE nodes[n].kind = "chain"
  <2>1. /\ Len(s) \in Nat \ {0} /\ \A i \in 1..Len(s) : s[i] \in Ids /\ s[i] < n
        /\ Inside[n] = UNION {Inside[s[i]] : i \in 1..Len(s)}
    BY <1>2, EndsByKind
  <2>2. a \in {<<s[i], s[i + 1]>> : i \in 1..(Len(s) - 1)} \/ a \in {s[Len(s)]} \X Follows(n)
    BY <1>2 DEF Arrows
  <2>3. CASE a \in {s[Len(s)]} \X Follows(n)
    <3>1. a[1] = s[Len(s)] /\ a[2] \in Follows(n)
      BY <2>3
    <3> HIDE DEF s
    <3>2. Len(s) \in 1..Len(s)
      BY <2>1
    <3>3. Tails(a[1]) \subseteq Inside[n]
      BY <2>1, <3>1, <3>2, EndsAreInside
    <3> QED BY <1>0, <3>1, <3>3
  <2>4. CASE a \in {<<s[i], s[i + 1]>> : i \in 1..(Len(s) - 1)}
    <3>1. PICK i \in 1..(Len(s) - 1) : a = <<s[i], s[i + 1]>>
      BY <2>4
    <3>2. a[1] = s[i] /\ a[2] = s[i + 1] /\ s[i] \in Ids
      BY <2>1, <3>1
    <3>3. Succeeds(s[i], a[2])
      BY <1>2, <3>2 DEF Succeeds
    <3> QED BY <3>2, <3>3, EndsAreInside
  <2> QED BY <2>2, <2>3, <2>4
<1>3. CASE nodes[n].kind = "group"
  <2>1. a \in PartsOf(n) \X Follows(n)
    BY <1>3 DEF Arrows
  <2>2. a[1] \in PartsOf(n) /\ a[2] \in Follows(n)
    BY <2>1
  <2>3. \A p \in PartsOf(n) : p \in Ids /\ Tails(p) \subseteq Tails(n)
    BY <1>3, EndsByKind
  <2>4. Tails(a[1]) \subseteq Inside[n]
    BY <2>2, <2>3, EndsAreInside
  <2> QED BY <1>0, <2>2, <2>4
<1> QED BY <1>1, <1>2, <1>3, EndsByKind

\* Whatever is to come after something else has an arrow from each of its last jobs.
LEMMA SuccessorsHaveArrows ==
  ASSUME GraphInv, Regular, NEW x, NEW y, Succeeds(x, y), NEW t \in Lasts(x)
  PROVE  \E n \in Ids : \E a \in Arrows(n) : a[2] = y /\ t \in Tails(a[1])
<1>1. x \in Ids /\ y \in Ids
  BY SuccessionIsOfIds
<1>2. CASE <<x, y>> \in links
  <2> DEFINE s == nodes[x].parts
  <2>1. y \in Follows(x)
    <3> DEFINE l == <<x, y>>
    <3>1. l \in links /\ l[1] = x /\ l[2] = y
      BY <1>2
    <3> HIDE DEF l
    <3> QED BY <3>1 DEF Follows
  <2>2. SUFFICES \E z : <<z, y>> \in Arrows(x) /\ t \in Tails(z)
    BY <1>1
  <2>3. CASE nodes[x].kind = "job"
    <3>1. <<x, y>> \in Arrows(x)
      BY <2>1, <2>3 DEF Arrows
    <3>2. t \in Tails(x)
      BY <1>1, <2>3, EndsByKind
    <3> QED BY <3>1, <3>2
  <2>4. CASE nodes[x].kind = "chain"
    <3>1. <<s[Len(s)], y>> \in Arrows(x)
      BY <2>1, <2>4 DEF Arrows
    <3>2. t \in Lasts(s[Len(s)]) /\ Len(s) \in Nat \ {0} /\ \A i \in 1..Len(s) : s[i] \in Ids
      BY <1>1, <2>4, EndsByKind
    <3>3. s[Len(s)] \in PartsOf(x) /\ s[Len(s)] \in Ids
      BY <3>2 DEF PartsOf
    <3>4. t \in Tails(s[Len(s)])
      BY <1>1, <3>2, <3>3, EndsAsMeant DEF Attached
    <3> QED BY <3>1, <3>4
  <2>5. CASE nodes[x].kind = "group"
    <3>1. PICK p \in PartsOf(x) : t \in Lasts(p) /\ p \in Ids
      BY <1>1, <2>5, EndsByKind
    <3>3. t \in Tails(p)
      BY <1>1, <3>1, EndsAsMeant DEF Attached
    <3>2. <<p, y>> \in Arrows(x)
      BY <2>1, <2>5 DEF Arrows
    <3> QED BY <3>2, <3>3
  <2> QED BY <1>1, <2>3, <2>4, <2>5, EndsByKind
<1>3. ASSUME NEW n \in Ids, nodes[n].kind = "chain", NEW i \in 1..Len(nodes[n].parts) - 1,
             x = nodes[n].parts[i], y = nodes[n].parts[i + 1]
      PROVE  \E m \in Ids : \E a \in Arrows(m) : a[2] = y /\ t \in Tails(a[1])
  <2>1. <<x, y>> \in Arrows(n)
    BY <1>3 DEF Arrows
  <2>2. Len(nodes[n].parts) \in Nat \ {0}
    BY <1>3, EndsByKind
  <2>3. x \in PartsOf(n)
    BY <1>3, <2>2 DEF PartsOf
  <2>4. t \in Tails(x)
    BY <1>1, <2>3, EndsAsMeant DEF Attached
  <2> QED BY <2>1, <2>4
<1> QED BY <1>2, <1>3 DEF Succeeds

\* The edges that are stored lead from the last jobs of an arrow's source to the first of its target.
LEMMA EdgesByArrows ==
  ASSUME GraphInv, delayed # 0
  PROVE  /\ Edges(delayed) \in SUBSET Pairs
         /\ \A p : p \in Edges(delayed) <=>
                     \E n \in Ids : \E a \in Arrows(n) : p \in Tails(a[1]) \X Heads(a[2])
<1>1. Ends = EndsOf("drawn", nodes)
  BY DEF Ends, EndsFrom, EndsOf, EndsStep, PartsIn, PartsOf, Ids
<1>2. Visited(delayed) = Ids
  BY DEF GraphInv
<1>3. Edges(delayed) = UNION {Tails(a[1]) \X Heads(a[2]) : a \in UNION {Arrows(n) : n \in Ids}}
  BY <1>1, <1>2 DEF Edges, Tails, Heads
<1>4. \A p : p \in Edges(delayed) <=>
                     \E n \in Ids : \E a \in Arrows(n) : p \in Tails(a[1]) \X Heads(a[2])
  BY <1>3
<1>5. ASSUME NEW n \in Ids, NEW a \in Arrows(n) PROVE Tails(a[1]) \X Heads(a[2]) \subseteq Pairs
  <2>1. PICK x : Succeeds(x, a[2]) /\ Tails(a[1]) \subseteq Inside[x]
    BY ArrowsSucceed
  <2>2. x \in Ids /\ a[2] \in Ids
    BY <2>1, SuccessionIsOfIds
  <2>3. Tails(a[1]) \subseteq Ids /\ Heads(a[2]) \subseteq Ids
    BY <2>1, <2>2, EndsAreInside
  <2> QED BY <2>3 DEF Pairs
<1>6. Edges(delayed) \in SUBSET Pairs
  BY <1>4, <1>5
<1> QED BY <1>4, <1>6

\* Whether the edges, in a row, lead from one job to another.
Reaches(x, y) == x = y \/ <<x, y>> \in Closure(Edges(delayed))

\* One edge after the other.
LEMMA ReachesOn ==
  ASSUME GraphInv, delayed # 0
  PROVE  /\ \A x, y \in Ids : <<x, y>> \in Edges(delayed) => <<x, y>> \in Closure(Edges(delayed))
         /\ \A x, y, z \in Ids : Reaches(x, y) /\ Reaches(y, z) => Reaches(x, z)
         /\ \A x, y, z \in Ids : Reaches(x, y) /\ <<y, z>> \in Closure(Edges(delayed))
                                    => <<x, z>> \in Closure(Edges(delayed))
         /\ \A x, y, z \in Ids : <<x, y>> \in Closure(Edges(delayed)) /\ Reaches(y, z)
                                    => <<x, z>> \in Closure(Edges(delayed))
<1>1. Len(nodes) \in Nat /\ Edges(delayed) \in SUBSET Pairs
  BY EdgesByArrows DEF GraphInv, Formed
<1>2. /\ Edges(delayed) \subseteq Closure(Edges(delayed))
      /\ \A x, y, z \in Ids : <<x, y>> \in Closure(Edges(delayed)) /\ <<y, z>> \in Closure(Edges(delayed))
                                 => <<x, z>> \in Closure(Edges(delayed))
  BY <1>1, ClosureIsClosed
<1> QED BY <1>2 DEF Reaches

\* What follows something else is joined to it.
LEMMA SuccessorsAttached ==
  ASSUME GraphInv, NEW x, NEW y, Succeeds(x, y)
  PROVE  Attached(y)
<1>1. CASE <<x, y>> \in links
  <2> DEFINE l == <<x, y>>
  <2>1. l \in links /\ l[1] = x /\ l[2] = y
    BY <1>1
  <2> HIDE DEF l
  <2>2. y \in Follows(x)
    BY <2>1 DEF Follows
  <2> QED BY <2>2, SuccessionIsOfIds DEF Attached
<1>2. ASSUME NEW n \in Ids, nodes[n].kind = "chain", NEW i \in 1..Len(nodes[n].parts) - 1,
             y = nodes[n].parts[i + 1]
      PROVE  Attached(y)
  <2>1. Len(nodes[n].parts) \in Nat \ {0}
    BY <1>2, EndsByKind
  <2>2. i + 1 \in 1..Len(nodes[n].parts)
    BY <2>1
  <2>3. y \in PartsOf(n)
    BY <1>2, <2>2 DEF PartsOf
  <2> QED BY <2>3 DEF Attached
<1> QED BY <1>1, <1>2 DEF Succeeds

\* From every last job of an object there is an edge to every first job of what follows it.
LEMMA SuccessorsHaveEdges ==
  ASSUME GraphInv, Regular, delayed # 0, NEW x, NEW y, Succeeds(x, y), NEW t \in Lasts(x), NEW h \in Firsts(y)
  PROVE  <<t, h>> \in Closure(Edges(delayed)) /\ t \in Ids /\ h \in Ids
<1>1. x \in Ids /\ y \in Ids
  BY SuccessionIsOfIds
<1>2. t \in Ids /\ h \in Ids
  BY <1>1, EndsAreInside
<1>3. PICK n \in Ids : \E a \in Arrows(n) : a[2] = y /\ t \in Tails(a[1])
  BY SuccessorsHaveArrows
<1>7. PICK a \in Arrows(n) : a[2] = y /\ t \in Tails(a[1])
  BY <1>3
<1>6. h \in Heads(y)
  BY <1>1, SuccessorsAttached, EndsAsMeant
<1>4. <<t, h>> \in Tails(a[1]) \X Heads(a[2])
  BY <1>6, <1>7
<1>5. <<t, h>> \in Edges(delayed)
  BY <1>4, EdgesByArrows
<1> QED BY <1>2, <1>5, ReachesOn

\* Every job of an object comes before, or is, one of its last ones, and after one of its first.
Through(n) ==
    \A j \in Inside[n] : (\E t \in Lasts(n) : Reaches(j, t)) /\ (\E h \in Firsts(n) : Reaches(h, j))

\* Every job of a chain leads to its end and comes from its beginning, if that holds of its parts.
LEMMA ChainsGoThrough ==
  ASSUME GraphInv, Regular, delayed # 0, NEW n \in Ids, nodes[n].kind = "chain",
         \A p \in Ids : p < n => Through(p)
  PROVE  Through(n)
<1> DEFINE s == nodes[n].parts
           L == Len(s)
<1>1. /\ L \in Nat \ {0} /\ \A i \in 1..L : s[i] \in Ids /\ s[i] < n
      /\ Firsts(n) = Firsts(s[1]) /\ Lasts(n) = Lasts(s[L])
      /\ Inside[n] = UNION {Inside[s[i]] : i \in 1..L}
  BY EndsByKind
<1>2. ASSUME NEW i \in 1..L - 1 PROVE Succeeds(s[i], s[i + 1])
  BY <1>1, <1>2 DEF Succeeds
<1>3. \A i \in 1..L : /\ Through(s[i]) /\ Firsts(s[i]) \subseteq Inside[s[i]] /\ Lasts(s[i]) \subseteq Inside[s[i]]
                      /\ Firsts(s[i]) # {} /\ Lasts(s[i]) # {} /\ Inside[s[i]] \subseteq Ids
  BY <1>1, EndsAreInside
<1>4. Lasts(n) \subseteq Ids /\ Firsts(n) \subseteq Ids
  BY EndsAreInside
<1> HIDE DEF s, L
<1> DEFINE Leads(i) == \A j \in Inside[s[i]] : \E t \in Lasts(n) : Reaches(j, t)
           Comes(i) == \A j \in Inside[s[i]] : \E h \in Firsts(n) : Reaches(h, j)
           D == {k \in Nat : k < L => Leads(L - k)}
           U == {k \in Nat : k < L => Comes(1 + k)}
<1>5. Nat \subseteq D
  <2>1. 0 \in D
    <3>1. L \in 1..L /\ L - 0 = L
      BY <1>1
    <3>2. Leads(L)
      BY <1>1, <1>3, <3>1 DEF Through
    <3> HIDE DEF Leads
    <3> QED BY <3>1, <3>2
  <2>2. ASSUME NEW k \in Nat, k \in D PROVE k + 1 \in D
    <3> DEFINE i == L - (k + 1)
    <3>1. SUFFICES ASSUME k + 1 < L PROVE Leads(i)
      OBVIOUS
    <3>2. i \in 1..L /\ i + 1 \in 1..L /\ i \in 1..L - 1 /\ L - k = i + 1 /\ k < L
      BY <1>1, <3>1
    <3>3. Leads(i + 1)
      <4> HIDE DEF Leads
      <4> QED BY <2>2, <3>2
    <3> HIDE DEF i
    <3>4. SUFFICES ASSUME NEW j \in Inside[s[i]] PROVE \E t \in Lasts(n) : Reaches(j, t)
      OBVIOUS
    <3>5. PICK t \in Lasts(s[i]) : Reaches(j, t)
      BY <1>3, <3>2 DEF Through
    <3>6. PICK h \in Firsts(s[i + 1]) : TRUE
      BY <1>3, <3>2
    <3>7. <<t, h>> \in Closure(Edges(delayed)) /\ t \in Ids /\ h \in Ids
      BY <1>2, <3>2, SuccessorsHaveEdges
    <3>8. h \in Inside[s[i + 1]] /\ j \in Ids
      BY <1>3, <3>2
    <3>9. PICK u \in Lasts(n) : Reaches(h, u)
      BY <3>3, <3>8
    <3>10. u \in Ids
      BY <1>4
    <3>11. <<t, u>> \in Closure(Edges(delayed))
      BY <3>7, <3>9, <3>10, ReachesOn
    <3>12. <<j, u>> \in Closure(Edges(delayed))
      BY <3>5, <3>7, <3>8, <3>10, <3>11, ReachesOn
    <3> QED BY <3>12 DEF Reaches
  <2> HIDE DEF D
  <2> QED BY <2>1, <2>2, Induction
<1>6. Nat \subseteq U
  <2>1. 0 \in U
    <3>1. 1 \in 1..L /\ 1 + 0 = 1
      BY <1>1
    <3>2. Comes(1)
      BY <1>1, <1>3, <3>1 DEF Through
    <3> HIDE DEF Comes
    <3> QED BY <3>1, <3>2
  <2>2. ASSUME NEW k \in Nat, k \in U PROVE k + 1 \in U
    <3> DEFINE i == 1 + k
    <3>1. SUFFICES ASSUME k + 1 < L PROVE Comes(i + 1)
      OBVIOUS
    <3>2. i \in 1..L /\ i + 1 \in 1..L /\ i \in 1..L - 1 /\ k < L
      BY <1>1, <3>1
    <3>3. Comes(i)
      <4> HIDE DEF Comes
      <4> QED BY <2>2, <3>2
    <3> HIDE DEF i
    <3>4. SUFFICES ASSUME NEW j \in Inside[s[i + 1]] PROVE \E h \in Firsts(n) : Reaches(h, j)
      OBVIOUS
    <3>5. PICK h \in Firsts(s[i + 1]) : Reaches(h, j)
      BY <1>3, <3>2 DEF Through
    <3>6. PICK t \in Lasts(s[i]) : TRUE
      BY <1>3, <3>2
    <3>7. <<t, h>> \in Closure(Edges(delayed)) /\ t \in Ids /\ h \in Ids
      BY <1>2, <3>2, SuccessorsHaveEdges
    <3>8. t \in Inside[s[i]] /\ j \in Ids
      BY <1>3, <3>2
    <3>9. PICK u \in Firsts(n) : Reaches(u, t)
      BY <3>3, <3>8
    <3>10. u \in Ids
      BY <1>4
    <3>11. <<t, j>> \in Closure(Edges(delayed))
      BY <3>5, <3>7, <3>8, ReachesOn
    <3>12. <<u, j>> \in Closure(Edges(delayed))
      BY <3>7, <3>8, <3>9, <3>10, <3>11, ReachesOn
    <3> QED BY <3>12 DEF Reaches
  <2> HIDE DEF U
  <2> QED BY <2>1, <2>2, Induction
<1>7. ASSUME NEW i \in 1..L PROVE Leads(i) /\ Comes(i)
  <2>1. L - i \in Nat /\ L - i < L /\ i - 1 \in Nat /\ i - 1 < L /\ L - (L - i) = i /\ 1 + (i - 1) = i
    BY <1>1
  <2> HIDE DEF Leads, Comes
  <2>2. L - i \in D /\ i - 1 \in U
    BY <1>5, <1>6, <2>1
  <2> QED BY <2>1, <2>2
<1> QED BY <1>1, <1>7 DEF Through

\* Every job of an object leads to one of its last jobs and comes from one of its first.
LEMMA AllGoThrough ==
  ASSUME GraphInv, Regular, delayed # 0
  PROVE  \A n \in Ids : Through(n)
<1> DEFINE S == {n \in Ids : Through(n)}
<1>1. Len(nodes) \in Nat /\ Ids = 1..Len(nodes)
  BY DEF GraphInv, Formed, Ids
<1>2. ASSUME NEW n \in Ids, \A p \in Ids : p < n => Through(p) PROVE Through(n)
  <2>1. CASE nodes[n].kind = "job"
    <3>1. Firsts(n) = {n} /\ Lasts(n) = {n} /\ Inside[n] = {n}
      BY <2>1, EndsByKind
    <3> QED BY <3>1 DEF Through, Reaches
  <2>2. CASE nodes[n].kind = "chain"
    BY <1>2, <2>2, ChainsGoThrough
  <2>3. CASE nodes[n].kind = "group"
    <3>1. /\ \A p \in PartsOf(n) : p \in Ids /\ p < n
          /\ Firsts(n) = UNION {Firsts(p) : p \in PartsOf(n)} /\ Lasts(n) = UNION {Lasts(p) : p \in PartsOf(n)}
          /\ Inside[n] = UNION {Inside[p] : p \in PartsOf(n)}
      BY <2>3, EndsByKind
    <3>2. ASSUME NEW j \in Inside[n]
          PROVE  (\E t \in Lasts(n) : Reaches(j, t)) /\ (\E h \in Firsts(n) : Reaches(h, j))
      <4>1. PICK p \in PartsOf(n) : j \in Inside[p]
        BY <3>1
      <4>2. Through(p) /\ Firsts(p) \subseteq Firsts(n) /\ Lasts(p) \subseteq Lasts(n)
        BY <1>2, <3>1
      <4> QED BY <4>1, <4>2 DEF Through
    <3> QED BY <3>2 DEF Through
  <2> QED BY <2>1, <2>2, <2>3, EndsByKind
<1>3. 1..Len(nodes) \subseteq S
  <2>1. ASSUME NEW n \in 1..Len(nodes), \A p \in 1..n - 1 : p \in S PROVE n \in S
    <3>1. \A p \in Ids : p < n => Through(p)
      BY <1>1, <2>1
    <3> QED BY <1>1, <1>2, <3>1
  <2> HIDE DEF S
  <2> QED BY <1>1, <2>1, ByCreation
<1> QED BY <1>1, <1>3

\* What the invariant says of the edges.
LEMMA GraphInvOrders ==
  ASSUME GraphInv
  PROVE  OrderIsPromised
<1>1. SUFFICES ASSUME delayed # 0
               PROVE  /\ Edges(delayed) \subseteq Closure(Promised)
                      /\ Regular => Promised \subseteq Closure(Edges(delayed))
  BY DEF OrderIsPromised, Regular
<1>2. Promised \in SUBSET Pairs
  <2>1. ASSUME NEW p \in Promised PROVE p \in Pairs
    <3>1. PICK x, y : Succeeds(x, y) /\ p \in Inside[x] \X Inside[y]
      BY <2>1, PromisedPairs
    <3>2. Inside[x] \subseteq Ids /\ Inside[y] \subseteq Ids
      BY <3>1, SuccessionIsOfIds, EndsAreInside
    <3> QED BY <3>1, <3>2 DEF Pairs
  <2> QED BY <2>1
<1>3. ASSUME Regular, NEW p \in Promised PROVE p \in Closure(Edges(delayed))
  <2>1. PICK x, y : Succeeds(x, y) /\ p \in Inside[x] \X Inside[y]
    BY <1>3, PromisedPairs
  <2>2. x \in Ids /\ y \in Ids
    BY <2>1, SuccessionIsOfIds
  <2>3. PICK i \in Inside[x], j \in Inside[y] : p = <<i, j>>
    BY <2>1
  <2>4. i \in Ids /\ j \in Ids
    BY <2>2, EndsAreInside
  <2>5. PICK t \in Lasts(x) : Reaches(i, t)
    BY <1>1, <1>3, <2>2, AllGoThrough DEF Through
  <2>6. PICK h \in Firsts(y) : Reaches(h, j)
    BY <1>1, <1>3, <2>2, AllGoThrough DEF Through
  <2>7. <<t, h>> \in Closure(Edges(delayed)) /\ t \in Ids /\ h \in Ids
    BY <1>1, <1>3, <2>1, <2>5, <2>6, SuccessorsHaveEdges
  <2>8. <<t, j>> \in Closure(Edges(delayed))
    BY <1>1, <2>4, <2>6, <2>7, ReachesOn
  <2>9. <<i, j>> \in Closure(Edges(delayed))
    BY <1>1, <2>4, <2>5, <2>7, <2>8, ReachesOn
  <2> QED BY <2>3, <2>9
<1>4. ASSUME NEW p \in Edges(delayed) PROVE p \in Closure(Promised)
  <2>7. PICK n \in Ids : \E a \in Arrows(n) : p \in Tails(a[1]) \X Heads(a[2])
    BY <1>1, <1>4, EdgesByArrows
  <2>1. PICK a \in Arrows(n) : p \in Tails(a[1]) \X Heads(a[2])
    BY <2>7
  <2>2. PICK x : Succeeds(x, a[2]) /\ Tails(a[1]) \subseteq Inside[x]
    BY ArrowsSucceed
  <2>3. Heads(a[2]) \subseteq Inside[a[2]]
    BY <2>2, SuccessionIsOfIds, EndsAreInside
  <2>4. p \in Inside[x] \X Inside[a[2]]
    BY <2>1, <2>2, <2>3
  <2>5. p \in Promised
    BY <2>2, <2>4, PromisedPairs
  <2>6. Len(nodes) \in Nat
    BY DEF GraphInv, Formed
  <2> QED BY <1>2, <2>5, <2>6, ClosureIsClosed
<1> QED BY <1>3, <1>4

-----------------------------------------------------------------------------
(* The steps *)

\* Parts that were not part of anything: objects there are, and at least one.
LEMMA SequelsAreObjects ==
  ASSUME Formed(nodes), NEW s \in Sequels(MaxParts)
  PROVE  s # <<>> /\ s \in Seq(Nat) /\ \A i \in 1..Len(s) : s[i] \in 1..Len(nodes)
<1>1. MaxParts \in Nat /\ Len(nodes) \in Nat
  BY JobGraphAssumption DEF Formed
<1>2. PICK k \in 1..MaxParts : s \in [1..k -> Tops]
  BY DEF Sequels
<1>3. Tops \subseteq 1..Len(nodes)
  BY DEF Tops, Ids
<1>4. k \in Nat \ {0}
  BY <1>1
<1>5. s \in [1..k -> Nat] /\ \A i \in 1..k : s[i] \in 1..Len(nodes)
  <2>1. \A i \in 1..k : s[i] \in 1..Len(nodes)
    BY <1>2, <1>3
  <2>2. \A i \in 1..k : s[i] \in Nat
    BY <2>1
  <2> QED BY <1>2, <2>1, <2>2
<1>6. s \in Seq(Nat) /\ Len(s) = k
  BY <1>4, <1>5
<1>7. s # <<>>
  BY <1>4, <1>6
<1> QED BY <1>5, <1>6, <1>7

\* A new object of older ones.
LEMMA NewKeepsFormed ==
  ASSUME Formed(nodes), NEW node \in NodeRecords, (node.kind = "job") <=> (node.parts = <<>>),
         \A i \in 1..Len(node.parts) : node.parts[i] \in 1..Len(nodes), New(node)
  PROVE  /\ Formed(nodes') /\ Len(nodes') = Len(nodes) + 1 /\ Len(nodes) \in Nat
         /\ nodes'[Len(nodes) + 1] = node /\ \A n \in 1..Len(nodes) : nodes'[n] = nodes[n]
<1>1. nodes' = Append(nodes, node) /\ nodes \in Seq(NodeRecords) /\ Len(nodes) \in Nat
  BY DEF New, Formed
<1>2. /\ nodes' \in Seq(NodeRecords) /\ Len(nodes') = Len(nodes) + 1
      /\ nodes'[Len(nodes) + 1] = node /\ \A n \in 1..Len(nodes) : nodes'[n] = nodes[n]
  BY <1>1
<1>3. ASSUME NEW n \in 1..Len(nodes')
      PROVE  /\ (nodes'[n].kind = "job") <=> (nodes'[n].parts = <<>>)
             /\ PartsIn(nodes', n) \subseteq 1..n - 1
  <2>1. CASE n \in 1..Len(nodes)
    <3>1. /\ (nodes[n].kind = "job") <=> (nodes[n].parts = <<>>)
          /\ PartsIn(nodes, n) \subseteq 1..n - 1
      BY <2>1 DEF Formed
    <3>2. PartsIn(nodes', n) = PartsIn(nodes, n)
      BY <1>2, <2>1 DEF PartsIn
    <3> QED BY <1>2, <2>1, <3>1, <3>2
  <2>2. CASE n = Len(nodes) + 1
    <3>1. nodes'[n] = node /\ n - 1 = Len(nodes)
      BY <1>1, <1>2, <2>2
    <3>2. PartsIn(nodes', n) \subseteq 1..n - 1
      BY <3>1 DEF PartsIn
    <3> QED BY <3>1, <3>2
  <2> QED BY <1>1, <1>2, <2>1, <2>2
<1> QED BY <1>1, <1>2, <1>3 DEF Formed

\* A new object keeps the invariant.
LEMMA NewKeepsGraphInv ==
  ASSUME GraphInv, NEW node \in NodeRecords, (node.kind = "job") <=> (node.parts = <<>>),
         \A i \in 1..Len(node.parts) : node.parts[i] \in 1..Len(nodes), New(node)
  PROVE  GraphInv'
<1>1. Formed(nodes') /\ Len(nodes') = Len(nodes) + 1 /\ Len(nodes) \in Nat
  BY NewKeepsFormed DEF GraphInv
<1>2. delayed' = 0 /\ links' = links
  BY DEF New, Building
<1>3. Ids \subseteq Ids'
  BY <1>1 DEF Ids
<1>4. Pairs \subseteq Pairs'
  BY <1>3 DEF Pairs
<1> QED BY <1>1, <1>2, <1>4 DEF GraphInv

\* What is visited depends on the objects and their links only.
LEMMA VisitedIsOfTheGraph ==
  ASSUME NEW x, UNCHANGED <<nodes, links>>
  PROVE  Visited(x)' = Visited(x)
<1>1. nodes' = nodes /\ links' = links
  OBVIOUS
<1> QED BY <1>1 DEF Visited, Closure, VerticesOf, PartsOf, Follows, Ids

\* Every step keeps the invariant.
LEMMA GraphStep ==
  ASSUME GraphInv, [GraphNext]_graphVars
  PROVE  GraphInv'
<1>1. Formed(nodes) /\ Ids = 1..Len(nodes)
  BY DEF GraphInv, Ids
<1>3. CASE NewJob
  <2> DEFINE node == [kind |-> "job", parts |-> <<>>]
  <2>1. node \in NodeRecords /\ node.kind = "job" /\ node.parts = <<>> /\ Len(node.parts) = 0
    BY DEF NodeRecords
  <2>2. New(node)
    BY <1>3 DEF NewJob
  <2> HIDE DEF node
  <2>3. \A i \in 1..Len(node.parts) : node.parts[i] \in 1..Len(nodes)
    BY <2>1
  <2> QED BY <2>1, <2>2, <2>3, NewKeepsGraphInv
<1>4. ASSUME NEW s \in Sequels(MaxParts), NewGroup(s) PROVE GraphInv'
  <2> DEFINE node == [kind |-> "group", parts |-> s]
  <2>1. s # <<>> /\ s \in Seq(Nat) /\ \A i \in 1..Len(s) : s[i] \in 1..Len(nodes)
    BY <1>1, SequelsAreObjects
  <2>2. node \in NodeRecords /\ node.kind = "group" /\ node.parts = s
    BY <2>1 DEF NodeRecords
  <2>3. New(node)
    BY <1>4 DEF NewGroup
  <2> HIDE DEF node
  <2> QED BY <2>1, <2>2, <2>3, NewKeepsGraphInv
<1>5. ASSUME NEW s \in Sequels(MaxParts), NewChain(s) PROVE GraphInv'
  <2> DEFINE node == [kind |-> "chain", parts |-> s]
  <2>1. s # <<>> /\ s \in Seq(Nat) /\ \A i \in 1..Len(s) : s[i] \in 1..Len(nodes)
    BY <1>1, SequelsAreObjects
  <2>2. node \in NodeRecords /\ node.kind = "chain" /\ node.parts = s
    BY <2>1 DEF NodeRecords
  <2>3. New(node)
    BY <1>5 DEF NewChain
  <2> HIDE DEF node
  <2> QED BY <2>1, <2>2, <2>3, NewKeepsGraphInv
<1>6. ASSUME NEW x \in Ids, NEW y \in Ids, OnDone(x, y) PROVE GraphInv'
  <2>1. nodes' = nodes /\ links' = links \cup {<<x, y>>} /\ delayed' = 0
    BY <1>6 DEF OnDone, Building
  <2>2. <<x, y>> \in Pairs /\ Pairs' = Pairs /\ Ids' = Ids
    BY <2>1 DEF Pairs, Ids
  <2>3. links' \in SUBSET Pairs'
    BY <2>1, <2>2 DEF GraphInv
  <2> QED BY <2>1, <2>2, <2>3 DEF GraphInv
<1>7. ASSUME NEW x \in Ids, DelayGraph(x) PROVE GraphInv'
  <2>1. nodes' = nodes /\ links' = links /\ delayed' = x /\ Visited(x) = Ids
    BY <1>7 DEF DelayGraph
  <2>2. Pairs' = Pairs /\ Ids' = Ids
    BY <2>1 DEF Pairs, Ids
  <2>3. Visited(delayed)' = Ids'
    <3>1. Visited(x)' = Visited(x)
      BY <2>1, VisitedIsOfTheGraph
    <3> QED BY <2>1, <2>2, <3>1 DEF Visited
  <2> QED BY <2>1, <2>2, <2>3 DEF GraphInv
<1>8. CASE UNCHANGED graphVars
  <2>1. nodes' = nodes /\ links' = links /\ delayed' = delayed
    BY <1>8 DEF graphVars
  <2>2. Pairs' = Pairs /\ Ids' = Ids
    BY <2>1 DEF Pairs, Ids
  <2>3. Visited(delayed)' = Visited(delayed)
    BY <2>1 DEF Visited, Closure, VerticesOf, PartsOf, Follows, Ids
  <2> QED BY <2>1, <2>2, <2>3 DEF GraphInv
<1> QED BY <1>3, <1>4, <1>5, <1>6, <1>7, <1>8 DEF GraphNext

\* It holds of no objects at all.
LEMMA GraphStarts == GraphInit => GraphInv
<1>1. SUFFICES ASSUME nodes = <<>>, links = {}, delayed = 0 PROVE GraphInv
  BY DEF GraphInit
<1>2. Formed(<<>>) /\ Len(<<>>) = 0
  BY DEF Formed
<1>3. Ids = {}
  BY <1>1, <1>2 DEF Ids
<1> QED BY <1>1, <1>2, <1>3 DEF GraphInv

\* The graph that is stored keeps the promised order and adds none, whatever jobs,
\* chains and groups it is built of: the order may only lack where a chain that begins
\* or ends with a chain is itself put into or after another object.
THEOREM OrderIsKept == GraphSpec => []OrderIsPromised
<1>1. GraphInv /\ [GraphNext]_graphVars => GraphInv'
  BY GraphStep
<1>2. GraphSpec => []GraphInv
  BY <1>1, GraphStarts, PTL DEF GraphSpec
<1>3. GraphInv => OrderIsPromised
  BY GraphInvOrders
<1> QED BY <1>2, <1>3, PTL

-----------------------------------------------------------------------------
(***************************************************************************)
(* The cron runners, for any graphs of jobs, any number of runners, any    *)
(* limits, and runners that die at any point.                              *)
(***************************************************************************)
USE JobQueueAssumption

\* A runner holds children only while it performs a job, and the job it
\* performs is pending, or was until it released it itself.
Held ==
    \A r \in Runners :
        /\ phase[r] # "perform" => freed[r] = {}
        /\ phase[r] = "perform" => state[task[r]] = "pending" \/ task[r] \in freed[r]
        /\ \A c \in freed[r] : state[c] = "wait_dependencies"

\* Only jobs that are done, failed or cancelled have effects to repeat.
Unperformed ==
    \A j \in Jobs : state[j] \in {"none", "pending", "wait_dependencies"} => j \notin performed

LockInv == TypeOK /\ Held /\ OneRunnerPerJob /\ Unperformed

\* A transaction that Take starts keeps the locks apart.
LEMMA TakeKeepsLocks ==
    ASSUME LockInv, NEW r \in Runners, NEW j \in Jobs, NEW own \in SUBSET Jobs,
           phase[r] # "perform", own \cap Locked = {},
           \A c \in own : state[c] = "wait_dependencies",
           Take(r, j, own)
    PROVE  LockInv'
<1> USE DEF LockInv, Take, rows, history
<1>1. TypeOK'
  <2>1. late'[r] \in SUBSET Jobs BY DEF OpenParents, TypeOK
  <2> QED BY <2>1 DEF TypeOK, OpenParents
<1>2. Held' BY DEF Held, TypeOK, Acquirable, Locked
<1>3. OneRunnerPerJob'
  <2>1. j \notin Locked \/ j \in own BY DEF Acquirable
  <2>2. \A q \in Runners : phase[q] = "perform" => task[q] \notin own BY DEF Locked
  <2>3. \A q \in Runners : freed[q] \cap own = {} BY DEF Locked
  <2>4. \A q \in Runners : phase[q] = "perform" => task[q] # j BY <2>1, <2>2 DEF Locked
  <2>5. \A q \in Runners : j \notin freed[q] BY <2>1, <2>3 DEF Locked
  <2> QED BY <2>2, <2>3, <2>4, <2>5 DEF OneRunnerPerJob, TypeOK
<1>4. Unperformed' BY DEF Unperformed
<1> QED BY <1>1, <1>2, <1>3, <1>4

\* A commit of any outcome keeps the locks apart.
LEMMA CommitKeepsLocks ==
    ASSUME LockInv, NEW r \in Runners, NEW outcome \in States \ {"none", "deleted"},
           NEW tries \in Nat,
           Commit(r, outcome, tries),
           postponed' \subseteq Jobs, completed' \subseteq Jobs,
           \/ outcome = "done" /\ performed' = performed \cup {task[r]}
           \/ performed' = performed
    PROVE  LockInv'
<1> USE DEF LockInv, Commit
<1>0. task[r] \in Jobs BY DEF TypeOK
<1>1. TypeOK' BY <1>0 DEF TypeOK, States
<1>2. ASSUME NEW q \in Runners, q # r, phase[q] = "perform"
      PROVE  /\ task[q] # task[r] /\ task[q] \notin freed[r]
             /\ task[r] \notin freed[q] /\ freed[q] \cap freed[r] = {}
  BY <1>2 DEF OneRunnerPerJob
<1>3. Held'
  <2> SUFFICES ASSUME NEW q \in Runners
               PROVE  /\ phase'[q] # "perform" => freed'[q] = {}
                      /\ phase'[q] = "perform" => state'[task'[q]] = "pending" \/ task'[q] \in freed'[q]
                      /\ \A c \in freed'[q] : state'[c] = "wait_dependencies"
    BY DEF Held
  <2>1. CASE q = r BY <2>1 DEF TypeOK
  <2>2. CASE q # r /\ phase[q] = "perform" BY <1>2, <2>2 DEF Held, TypeOK
  <2>3. CASE q # r /\ phase[q] # "perform" BY <2>3 DEF Held, TypeOK
  <2> QED BY <2>1, <2>2, <2>3
<1>4. OneRunnerPerJob' BY DEF OneRunnerPerJob, TypeOK
<1>5. Unperformed'
  <2>1. task[r] \notin performed' \/ outcome = "done"
    BY <1>0 DEF Unperformed, Held
  <2>2. ASSUME NEW j \in Jobs, j # task[r], state'[j] \in {"none", "pending", "wait_dependencies"}
        PROVE  j \notin performed
    BY <2>2 DEF Unperformed, Held, TypeOK
  <2> QED BY <1>0, <2>1, <2>2 DEF Unperformed, TypeOK
<1> QED BY <1>1, <1>3, <1>4, <1>5

\* One runner's step keeps the locks apart.
LEMMA RunnerKeepsLocks ==
    ASSUME LockInv, NEW r \in Runners, Work(r) \/ Perform(r) \/ LoseRace(r) \/ Die(r)
    PROVE  LockInv'
<1>1. CASE Wake(r)
  <2>1. PICK j \in Jobs : Take(r, j, {}) BY <1>1 DEF Wake
  <2> QED BY <1>1, <2>1, TakeKeepsLocks DEF Wake
<1>2. CASE Continue(r)
  <2>1. PICK j \in Jobs : Take(r, j, Ready(task[r])) BY <1>2 DEF Continue
  <2>2. Ready(task[r]) \in SUBSET Jobs BY DEF Ready
  <2>3. \A c \in Ready(task[r]) : state[c] = "wait_dependencies" BY DEF Ready
  <2> QED BY <1>2, <2>1, <2>2, <2>3, TakeKeepsLocks DEF Continue
<1>3. CASE Stop(r)
  <2> USE <1>3 DEF Stop, LockInv, history
  <2>1. \A c \in Ready(task[r]) : c \in Jobs /\ state[c] = "wait_dependencies" /\ c \notin Locked BY DEF Ready
  <2>2. TypeOK' BY <2>1 DEF TypeOK, States
  <2>3. Held' BY <2>1 DEF Held, TypeOK, Locked
  <2>4. OneRunnerPerJob' BY DEF OneRunnerPerJob, TypeOK
  <2>5. Unperformed' BY <2>1 DEF Unperformed, TypeOK
  <2> QED BY <2>2, <2>3, <2>4, <2>5
<1>4. CASE Succeed(r)
  <2> USE <1>4 DEF Succeed
  <2>1. task[r] \in Jobs /\ retry[task[r]] + 1 \in Nat BY DEF LockInv, TypeOK, Commit
  <2>2. postponed' \subseteq Jobs /\ completed' \subseteq Jobs BY <2>1 DEF LockInv, TypeOK
  <2> QED BY <2>1, <2>2, CommitKeepsLocks DEF States
<1>5. CASE RaiseRetryable(r) \/ RaiseConflict(r)
  <2> USE <1>5 DEF RaiseRetryable, RaiseConflict, history
  <2>1. task[r] \in Jobs /\ retry[task[r]] + 1 \in Nat BY DEF LockInv, TypeOK
  <2>2. postponed' \subseteq Jobs /\ completed' \subseteq Jobs BY <2>1 DEF LockInv, TypeOK
  <2>3. Repended(late[r]) \in States \ {"none", "deleted"} BY DEF Repended, States
  <2>4. Commit(r, Repended(late[r]), retry[task[r]] + 1) /\ performed' = performed OBVIOUS
  <2> QED BY ONLY LockInv, r \in Runners, <2>1, <2>2, <2>3, <2>4, CommitKeepsLocks
<1>6. CASE RaiseError(r)
  <2> USE <1>6 DEF RaiseError, history
  <2>1. task[r] \in Jobs /\ retry[task[r]] + 1 \in Nat BY DEF LockInv, TypeOK, Commit
  <2>2. postponed' \subseteq Jobs /\ completed' \subseteq Jobs BY DEF LockInv, TypeOK
  <2> QED BY <2>1, <2>2, CommitKeepsLocks DEF States
<1>7. CASE LoseRace(r) \/ Die(r)
  <2> USE <1>7 DEF LoseRace, Die, LockInv, rows, history
  <2>1. TypeOK' BY DEF TypeOK
  <2>2. Held' BY DEF Held, TypeOK
  <2>3. OneRunnerPerJob' BY DEF OneRunnerPerJob, TypeOK
  <2>4. Unperformed' BY DEF Unperformed
  <2> QED BY <2>1, <2>2, <2>3, <2>4
<1> QED BY <1>1, <1>2, <1>3, <1>4, <1>5, <1>6, <1>7 DEF Work, Perform

\* The inductive invariant of the row locks.
LEMMA LockInvStep == LockInv /\ [Next]_vars => LockInv'
<1> SUFFICES ASSUME LockInv, [Next]_vars PROVE LockInv' OBVIOUS
<1>1. ASSUME NEW g \in Graphs, Delay(g) PROVE LockInv'
  <2> USE <1>1 DEF Delay, LockInv, runners, history
  <2>1. TypeOK' BY DEF TypeOK, States, Repended
  <2>2. Held' BY DEF Held, TypeOK
  <2>3. OneRunnerPerJob' BY DEF OneRunnerPerJob
  <2>4. Unperformed' BY DEF Unperformed, TypeOK
  <2> QED BY <2>1, <2>2, <2>3, <2>4
<1>2. ASSUME NEW j \in Jobs, EtaPasses(j) PROVE LockInv'
  BY <1>2 DEF EtaPasses, LockInv, TypeOK, Held, OneRunnerPerJob, Unperformed, runners, history
<1>3. ASSUME NEW r \in Runners, Work(r) \/ Perform(r) \/ LoseRace(r) \/ Die(r) PROVE LockInv'
  BY <1>3, RunnerKeepsLocks
<1>4. ASSUME NEW j \in Jobs, RequeueRead(j) PROVE LockInv'
  BY <1>4 DEF RequeueRead, Repended, LockInv, TypeOK, Held, OneRunnerPerJob, Unperformed, rows, runners, history
<1>5. ASSUME NEW j \in Jobs, RequeueWrite(j) \/ SetCancelled(j) \/ Autovacuum(j) PROVE LockInv'
  <2> USE <1>5 DEF RequeueWrite, SetCancelled, Autovacuum, LockInv, runners, history
  <2>1. TypeOK' BY DEF TypeOK, States
  <2>2. \A r \in Runners : j \notin freed[r] /\ (phase[r] = "perform" => task[r] # j) BY DEF Locked
  <2>3. Held' BY <2>2 DEF Held, TypeOK
  <2>4. OneRunnerPerJob' BY DEF OneRunnerPerJob
  <2>5. Unperformed' BY DEF Unperformed, TypeOK
  <2> QED BY <2>1, <2>3, <2>4, <2>5
<1>6. ASSUME NEW j \in Jobs, SetDone(j) PROVE LockInv'
  <2> DEFINE own == {c \in Jobs : /\ j \in Parents[c] /\ state[c] = "wait_dependencies"
                                  /\ OpenParents(c) \subseteq {j}}
  <2> USE <1>6 DEF SetDone, LockInv, runners
  <2>1. \A c \in own : c \in Jobs /\ state[c] = "wait_dependencies"
    OBVIOUS
  <2>2. ({j} \cup own) \cap Locked = {}
    OBVIOUS
  <2>3. state' = [i \in Jobs |-> IF i = j THEN "done" ELSE IF i \in own THEN "pending" ELSE state[i]]
    OBVIOUS
  <2> HIDE DEF own, SetDone
  <2>4. /\ requeueing' = [requeueing EXCEPT ![j] = "none"] /\ completed' = completed \cup {j}
        /\ UNCHANGED <<retry, postponed, runners, performed>>
    BY DEF SetDone
  <2> HIDE <1>6
  <2>5. TypeOK' BY <2>3, <2>4 DEF TypeOK, States
  <2>6. \A r \in Runners : /\ j \notin freed[r] /\ freed[r] \cap own = {}
                           /\ phase[r] = "perform" => task[r] # j /\ task[r] \notin own
    BY <2>2 DEF Locked
  <2>7. Held'
    <3>1. \A r \in Runners : phase[r] = "perform" => state'[task[r]] = state[task[r]]
      BY <2>3, <2>6 DEF TypeOK
    <3>2. \A r \in Runners : \A c \in freed[r] : state'[c] = state[c]
      BY <2>3, <2>6 DEF TypeOK
    <3> QED BY <2>4, <3>1, <3>2 DEF Held
  <2>8. OneRunnerPerJob' BY <2>4 DEF OneRunnerPerJob
  <2>9. Unperformed'
    BY <2>1, <2>3, <2>4 DEF Unperformed, TypeOK
  <2> QED BY <2>5, <2>7, <2>8, <2>9
<1>7. CASE UNCHANGED vars
  BY <1>7 DEF vars, rows, runners, history, LockInv, TypeOK, Held, OneRunnerPerJob, Unperformed
<1> QED BY <1>1, <1>2, <1>3, <1>4, <1>5, <1>6, <1>7 DEF Next, Calm, Operate

\* The invariant of the locks holds always.
LEMMA LockInvHolds == Spec => []LockInv
<1>1. Init => LockInv
  BY DEF Init, LockInv, TypeOK, States, Held, OneRunnerPerJob, Unperformed
<1> QED BY <1>1, LockInvStep, PTL DEF Spec

\* Rows keep the states of the selection, and runners jobs to perform.
THEOREM JobTypeOK == Spec => []TypeOK
BY LockInvHolds, PTL DEF LockInv

\* Two runners never perform, or release and perform, one job.
THEOREM JobOneRunner == Spec => []OneRunnerPerJob
BY LockInvHolds, PTL DEF LockInv

\* What is done is not done again unless it was requeued.
THEOREM JobNotPerformedAgain == Spec => []NotPerformedAgain
<1>1. LockInv => NotPerformedAgain
  BY DEF LockInv, TypeOK, Held, Unperformed, NotPerformedAgain
<1> QED BY <1>1, LockInvHolds, PTL
-----------------------------------------------------------------------------
\* Jobs that keep no other from being performed: done at some time, or gone.
Settled == completed \cup {p \in Jobs : state[p] = "deleted"}

\* What is pending, released, or decided to be requeued as pending has parents
\* that are all settled.
Ordered ==
    /\ \A j \in Jobs :
          /\ state[j] = "pending" \/ requeueing[j] = "pending" => Parents[j] \subseteq Settled
          /\ state[j] = "done" => j \in completed
          /\ requeueing[j] # "none" => Exists(j)
          /\ state[j] # "none" => \A p \in Parents[j] : state[p] # "none"
    /\ \A r \in Runners : \A c \in freed[r] : Parents[c] \subseteq Settled

\* A job none of whose parents is open has only settled ones.
LEMMA NoOpenParents ==
    ASSUME TypeOK, Ordered, NEW j \in Jobs, state[j] # "none", OpenParents(j) = {}
    PROVE  Parents[j] \subseteq Settled
<1>1. SUFFICES ASSUME NEW p \in Parents[j] PROVE p \in Settled OBVIOUS
<1>2. p \in Jobs /\ state[p] # "none" BY DEF Ordered
<1>3. state[p] \in {"done", "deleted"} BY <1>2 DEF OpenParents, Exists
<1> QED BY <1>2, <1>3 DEF Ordered, Settled

\* What remains settled: what was done, and what is gone and is not written.
LEMMA StaysSettled ==
    ASSUME completed \subseteq completed', \A p \in Jobs : state[p] = "deleted" => state'[p] = "deleted"
    PROVE  Settled \subseteq Settled'
BY DEF Settled

\* Taking a job with the children released before it.
LEMMA TakeKeepsOrder ==
    ASSUME LockInv, Ordered, NEW r \in Runners, NEW j \in Jobs, NEW own \in SUBSET Jobs,
           \A c \in own : Parents[c] \subseteq Settled, Take(r, j, own)
    PROVE  Ordered'
BY DEF Ordered, Settled, Exists, Take, rows, history, LockInv, TypeOK

\* Children that a runner releases.
LEMMA ReadyParents ==
    ASSUME LockInv, Ordered, NEW i \in Jobs, NEW c \in Ready(i)
    PROVE  c \in Jobs /\ state[c] = "wait_dependencies" /\ Parents[c] \subseteq Settled
<1>1. c \in Jobs /\ state[c] = "wait_dependencies" /\ OpenParents(c) = {} BY DEF Ready
<1> QED BY <1>1, NoOpenParents DEF LockInv

\* A write of rows that exist: jobs that become pending have settled parents.
LEMMA WriteKeepsOrder ==
    ASSUME LockInv, Ordered,
           completed \subseteq completed', UNCHANGED freed,
           state' \in [Jobs -> States], requeueing' \in [Jobs -> {"none", "pending", "wait_dependencies"}],
           \A j \in Jobs :
              /\ state'[j] # state[j] => Exists(j) /\ state'[j] # "none"
              /\ state'[j] = "pending" /\ state[j] # "pending" => Parents[j] \subseteq Settled
              /\ state'[j] = "done" => j \in completed'
              /\ requeueing'[j] \in {"none", requeueing[j]}
              /\ requeueing'[j] # "none" => state'[j] # "deleted"
    PROVE  Ordered'
<1>1. Settled \subseteq Settled'
  BY StaysSettled DEF Exists
<1>2. \A j \in Jobs : state'[j] # "none" <=> state[j] # "none"
  BY DEF Exists
<1>3. SUFFICES ASSUME NEW j \in Jobs
               PROVE  /\ state'[j] = "pending" \/ requeueing'[j] = "pending" => Parents[j] \subseteq Settled'
                      /\ state'[j] = "done" => j \in completed'
                      /\ requeueing'[j] # "none" => Exists(j)'
                      /\ state'[j] # "none" => \A p \in Parents[j] : state'[p] # "none"
  <2>1. \A r \in Runners : \A c \in freed'[r] : Parents[c] \subseteq Settled'
    BY <1>1 DEF Ordered
  <2> QED BY <1>3, <2>1 DEF Ordered
<1>4. state'[j] = "pending" \/ requeueing'[j] = "pending" => Parents[j] \subseteq Settled'
  <2>1. CASE state'[j] = "pending" /\ state[j] # "pending"
    BY <1>1, <2>1
  <2>2. CASE state[j] = "pending" \/ requeueing'[j] = "pending"
    <3>1. Parents[j] \subseteq Settled
      BY <2>2 DEF Ordered
    <3> QED BY <1>1, <3>1
  <2> QED BY <2>1, <2>2
<1>5. requeueing'[j] # "none" => Exists(j)'
  BY <1>2 DEF Ordered, Exists
<1>6. state'[j] # "none" => \A p \in Parents[j] : state'[p] # "none"
  <2>1. Parents[j] \subseteq Jobs OBVIOUS
  <2> QED BY <1>2, <2>1 DEF Ordered
<1> QED BY <1>4, <1>5, <1>6

\* A commit of a job that may have been performed.
LEMMA CommitKeepsOrder ==
    ASSUME LockInv, Ordered, NEW r \in Runners, NEW outcome \in States \ {"none", "deleted"},
           NEW tries, Commit(r, outcome, tries), completed \subseteq completed',
           outcome = "done" => task[r] \in completed'
    PROVE  Ordered'
<1> USE DEF Commit, LockInv
<1>1. task[r] \in Jobs /\ Exists(task[r]) BY DEF TypeOK, Held, Exists
<1>2. Parents[task[r]] \subseteq Settled BY <1>1 DEF Held, Ordered
<1>3. \A c \in freed[r] : c \in Jobs /\ state[c] = "wait_dependencies" /\ Parents[c] \subseteq Settled
  BY DEF TypeOK, Held, Ordered
<1>4. Settled \subseteq Settled'
  <2>1. \A p \in Jobs : state[p] = "deleted" => state'[p] = "deleted"
    BY <1>1, <1>3 DEF TypeOK, Exists
  <2> QED BY <2>1, StaysSettled
<1>5. \A i \in Jobs : state'[i] # "none" <=> state[i] # "none" BY <1>1, <1>3 DEF TypeOK, States, Exists
<1>6. SUFFICES ASSUME NEW j \in Jobs
               PROVE  /\ state'[j] = "pending" \/ requeueing'[j] = "pending" => Parents[j] \subseteq Settled'
                      /\ state'[j] = "done" => j \in completed'
                      /\ requeueing'[j] # "none" => Exists(j)'
                      /\ state'[j] # "none" => \A p \in Parents[j] : state'[p] # "none"
  <2>1. \A q \in Runners : \A c \in freed'[q] : Parents[c] \subseteq Settled
    BY DEF Ordered, TypeOK
  <2> QED BY <1>4, <1>6, <2>1 DEF Ordered
<1>7. state'[j] # "none" => \A p \in Parents[j] : state'[p] # "none"
  <2>1. Parents[j] \subseteq Jobs OBVIOUS
  <2> QED BY <1>5, <2>1 DEF Ordered
<1>8. CASE j = task[r] BY <1>1, <1>2, <1>4, <1>7, <1>8 DEF TypeOK
<1>9. CASE j # task[r]
  <2>1. state'[j] = (IF j \in freed[r] THEN "pending" ELSE state[j]) /\ requeueing'[j] = requeueing[j]
    BY <1>9 DEF TypeOK
  <2>2. state'[j] = "pending" \/ requeueing'[j] = "pending" => Parents[j] \subseteq Settled
    BY <1>3, <2>1 DEF Ordered
  <2> QED BY <1>3, <1>4, <1>7, <2>1, <2>2 DEF Ordered, Exists
<1> QED BY <1>8, <1>9

\* The inductive invariant of the dependencies.
LEMMA OrderedStep ==
    LockInv /\ Ordered /\ [Next]_vars => Ordered'
<1> SUFFICES ASSUME LockInv, Ordered, [Next]_vars PROVE Ordered' OBVIOUS
<1>0. /\ state \in [Jobs -> States] /\ requeueing \in [Jobs -> {"none", "pending", "wait_dependencies"}]
      /\ \A j \in Jobs : /\ state[j] = "done" => j \in completed
                         /\ requeueing[j] # "none" => Exists(j)
  BY DEF LockInv, TypeOK, Ordered
<1>1. ASSUME NEW g \in Graphs, Delay(g) PROVE Ordered'
  <2>1. Settled' = Settled
    BY <1>1 DEF Delay, Settled, Repended, LockInv, TypeOK, history
  <2> QED BY <1>1, <2>1 DEF Delay, Ordered, Repended, Exists, LockInv, TypeOK, runners, history
<1>2. ASSUME NEW j \in Jobs, EtaPasses(j) PROVE Ordered'
  BY <1>2 DEF EtaPasses, Ordered, Settled, Exists, runners, history
<1>3. ASSUME NEW r \in Runners, Wake(r) PROVE Ordered'
  <2>1. PICK j \in Jobs : Take(r, j, {}) BY <1>3 DEF Wake
  <2> QED BY <2>1, TakeKeepsOrder
<1>4. ASSUME NEW r \in Runners, Continue(r) PROVE Ordered'
  <2>1. task[r] \in Jobs BY <1>4 DEF Continue, LockInv, TypeOK
  <2>2. PICK j \in Jobs : Take(r, j, Ready(task[r])) BY <1>4 DEF Continue
  <2>3. Ready(task[r]) \in SUBSET Jobs BY DEF Ready
  <2>4. \A c \in Ready(task[r]) : Parents[c] \subseteq Settled BY <2>1, ReadyParents
  <2> QED BY <2>2, <2>3, <2>4, TakeKeepsOrder
<1>5. ASSUME NEW r \in Runners, Stop(r) PROVE Ordered'
  <2>1. task[r] \in Jobs BY <1>5 DEF Stop, LockInv, TypeOK
  <2>2. \A c \in Ready(task[r]) : c \in Jobs /\ state[c] = "wait_dependencies" /\ Parents[c] \subseteq Settled
    BY <2>1, ReadyParents
  <2>3. /\ state' = [j \in Jobs |-> IF j \in Ready(task[r]) THEN "pending" ELSE state[j]]
        /\ UNCHANGED <<freed, requeueing, completed>>
    BY <1>5 DEF Stop, history
  <2>4. state' \in [Jobs -> States]
    BY <1>0, <2>3 DEF States
  <2> QED BY <1>0, <2>2, <2>3, <2>4, WriteKeepsOrder DEF Exists
<1>6. ASSUME NEW r \in Runners, Perform(r) PROVE Ordered'
  <2>1. CASE Succeed(r)
    BY <2>1, CommitKeepsOrder DEF Succeed, States
  <2>2. CASE RaiseRetryable(r) \/ RaiseConflict(r)
    <3>1. Commit(r, Repended(late[r]), retry[task[r]] + 1) /\ completed' = completed
      BY <2>2 DEF RaiseRetryable, RaiseConflict, history
    <3>2. Repended(late[r]) \in States \ {"none", "deleted"} /\ Repended(late[r]) # "done"
      BY DEF Repended, States
    <3> QED BY <3>1, <3>2, CommitKeepsOrder
  <2>3. CASE RaiseError(r)
    BY <2>3, CommitKeepsOrder DEF RaiseError, history, States
  <2> QED BY <1>6, <2>1, <2>2, <2>3 DEF Perform
<1>7. ASSUME NEW r \in Runners, LoseRace(r) \/ Die(r) PROVE Ordered'
  BY <1>7 DEF LoseRace, Die, Ordered, Settled, Exists, LockInv, TypeOK, rows, history
<1>8. ASSUME NEW j \in Jobs, RequeueRead(j) PROVE Ordered'
  <2>1. OpenParents(j) = {} => Parents[j] \subseteq Settled
    BY <1>8, NoOpenParents DEF RequeueRead, Exists, LockInv
  <2>2. Settled' = Settled
    BY <1>8 DEF RequeueRead, Settled, rows, history
  <2> QED BY <1>8, <2>1, <2>2 DEF RequeueRead, Exists, Repended, Ordered, LockInv, TypeOK, rows, runners, history
<1>9. ASSUME NEW j \in Jobs, RequeueWrite(j) PROVE Ordered'
  <2>1. /\ state' = [state EXCEPT ![j] = requeueing[j]] /\ requeueing' = [requeueing EXCEPT ![j] = "none"]
        /\ UNCHANGED <<freed, completed>> /\ Exists(j) /\ requeueing[j] \in {"pending", "wait_dependencies"}
    BY <1>0, <1>9 DEF RequeueWrite, runners
  <2>2. requeueing[j] = "pending" => Parents[j] \subseteq Settled
    BY DEF Ordered
  <2>3. state' \in [Jobs -> States] /\ requeueing' \in [Jobs -> {"none", "pending", "wait_dependencies"}]
    BY <1>0, <2>1 DEF States
  <2> QED BY <1>0, <2>1, <2>2, <2>3, WriteKeepsOrder DEF Exists
<1>10. ASSUME NEW j \in Jobs, SetCancelled(j) \/ Autovacuum(j) PROVE Ordered'
  <2>1. PICK s \in {"cancelled", "deleted"} :
           /\ state' = [state EXCEPT ![j] = s] /\ requeueing' = [requeueing EXCEPT ![j] = "none"]
           /\ UNCHANGED <<freed, completed>> /\ Exists(j)
    BY <1>10 DEF SetCancelled, Autovacuum, Exists, runners, history
  <2>2. state' \in [Jobs -> States] /\ requeueing' \in [Jobs -> {"none", "pending", "wait_dependencies"}]
    BY <1>0, <2>1 DEF States
  <2> QED BY <1>0, <2>1, <2>2, WriteKeepsOrder DEF Exists
<1>11. ASSUME NEW j \in Jobs, SetDone(j) PROVE Ordered'
  <2> DEFINE own == {c \in Jobs : /\ j \in Parents[c] /\ state[c] = "wait_dependencies"
                                  /\ OpenParents(c) \subseteq {j}}
  <2>1. /\ state' = [i \in Jobs |-> IF i = j THEN "done" ELSE IF i \in own THEN "pending" ELSE state[i]]
        /\ requeueing' = [requeueing EXCEPT ![j] = "none"] /\ completed' = completed \cup {j}
        /\ UNCHANGED freed /\ Exists(j)
    BY <1>11 DEF SetDone, runners
  <2>2. \A c \in own : c \in Jobs /\ state[c] = "wait_dependencies"
    OBVIOUS
  <2>3. ASSUME NEW c \in own PROVE Parents[c] \subseteq Settled'
    <3>1. SUFFICES ASSUME NEW p \in Parents[c], p # j PROVE p \in Settled'
      BY <2>1 DEF Settled
    <3>2. p \in Jobs /\ state[p] # "none" BY <2>2 DEF Ordered
    <3>3. p \notin OpenParents(c) BY <3>1
    <3>4. state[p] \in {"done", "deleted"} BY <3>2, <3>3 DEF OpenParents, Exists
    <3>5. state[p] = "deleted" => p \notin own /\ state'[p] = "deleted"
      BY <2>1, <3>1, <3>2
    <3> QED BY <1>0, <2>1, <3>2, <3>4, <3>5 DEF Settled
  <2> HIDE DEF own
  <2>4. Settled \subseteq Settled'
    <3>1. \A p \in Jobs : state[p] = "deleted" => state'[p] = "deleted"
      BY <2>1, <2>2 DEF Exists
    <3> QED BY <2>1, <3>1, StaysSettled
  <2>5. \A i \in Jobs : (state'[i] # "none") <=> (state[i] # "none")
    BY <2>1, <2>2 DEF Exists
  <2>6. ASSUME NEW i \in Jobs
        PROVE  /\ state'[i] = "pending" \/ requeueing'[i] = "pending" => Parents[i] \subseteq Settled'
               /\ state'[i] = "done" => i \in completed'
               /\ requeueing'[i] # "none" => Exists(i)'
               /\ state'[i] # "none" => \A p \in Parents[i] : state'[p] # "none"
    <3>1. requeueing'[i] = (IF i = j THEN "none" ELSE requeueing[i])
      BY <1>0, <2>1
    <3>2. state'[i] = "pending" \/ requeueing'[i] = "pending" => Parents[i] \subseteq Settled'
      <4>1. CASE i \in own
        BY <2>3, <4>1
      <4>2. CASE i \notin own
        <5>1. state'[i] = "pending" \/ requeueing'[i] = "pending" => Parents[i] \subseteq Settled
          BY <2>1, <3>1, <4>2 DEF Ordered
        <5> QED BY <2>4, <5>1
      <4> QED BY <4>1, <4>2
    <3>3. state'[i] = "done" => i \in completed'
      BY <1>0, <2>1
    <3>4. requeueing'[i] # "none" => Exists(i)'
      BY <1>0, <2>1, <2>2, <3>1 DEF Exists
    <3>5. state'[i] # "none" => \A p \in Parents[i] : state'[p] # "none"
      <4>1. Parents[i] \subseteq Jobs OBVIOUS
      <4> QED BY <2>5, <4>1 DEF Ordered
    <3> QED BY <3>2, <3>3, <3>4, <3>5
  <2>7. \A r \in Runners : \A c \in freed'[r] : Parents[c] \subseteq Settled'
    BY <2>1, <2>4 DEF Ordered
  <2> QED BY <2>6, <2>7 DEF Ordered
<1>12. CASE UNCHANGED vars
  BY <1>12 DEF vars, rows, runners, history, Ordered, Settled, Exists
<1> QED BY <1>1, <1>2, <1>3, <1>4, <1>5, <1>6, <1>7, <1>8, <1>9, <1>10, <1>11, <1>12
        DEF Next, Calm, Operate, Work

\* No job is performed before each job it depends on was done at some time, or was
\* cancelled and its row deleted: whatever operators requeue, cancel, set to done or
\* the vacuum deletes, and whenever runners die.
THEOREM JobStartsAfterParents == Spec => []StartsAfterParents
<1>1. Init => Ordered
  BY DEF Init, Ordered, Exists
<1>2. Spec => []Ordered
  BY <1>1, LockInvHolds, OrderedStep, PTL DEF Spec
<1>3. LockInv /\ Ordered => StartsAfterParents
  BY DEF LockInv, TypeOK, Held, Ordered, Settled, StartsAfterParents
<1> QED BY <1>2, <1>3, LockInvHolds, PTL

HIDE JobQueueAssumption
-----------------------------------------------------------------------------
(***************************************************************************)
(* A throttled channel keeps its distance between two jobs, and a          *)
(* sequential one its order: for any channels, options, jobs and etas.     *)
(*                                                                         *)
(* Why: a pause is only ended by a pass that began after it was over, and  *)
(* a later pass does not begin earlier.  A job whose row has been read     *)
(* stands in its channel as what the row says, so that a channel with an   *)
(* empty place and no failed job has only queued ones.                     *)
(***************************************************************************)

Throttled(c) == config[c].throttle # 0 /\ last[c] # 0
RestsUntil(c) == last[c] + config[c].throttle

\* A channel that yielded a job is paused, or the pause was over when the pass
\* that is under way began.
Rests == \A c \in Channels : Throttled(c) =>
            \/ pause[c] = RestsUntil(c)
            \/ RestsUntil(c) <= clock /\ (loop = "run" => RestsUntil(c) <= at)
PassHasBegun == at <= clock

\* The inductive invariant.
ChannelsInv == ChannelsTypeOK /\ Rests /\ PassHasBegun
-----------------------------------------------------------------------------
USE JobChannelsAssumption

RowStates == {"none", "pending", "enqueued", "done", "failed", "cancelled"}
Rows == [state : RowStates, eta : Nat]

\* The options of a channel.
LEMMA OptionTypes ==
    ASSUME ChannelsTypeOK, NEW c \in Channels
    PROVE  config[c].throttle \in Nat /\ config[c].capacity \in Nat
<1> QED BY DEF ChannelsTypeOK

\* A notification that is read leaves sets of jobs in every channel.
LEMMA NotifyTypes ==
    ASSUME ChannelsTypeOK, NEW u \in notes, Notify(u)
    PROVE  /\ queue' \in [Channels -> SUBSET Uuids] /\ running' \in [Channels -> SUBSET Uuids]
           /\ failed' \in [Channels -> SUBSET Uuids]
           /\ jobEta' \in [Uuids -> Nat]
<1> DEFINE c == ChannelOf[u]
           out(sets) == IF row[u].eta = jobEta[u] THEN sets
                        ELSE [d \in Channels |-> IF d \in Up(c) THEN sets[d] \ {u} ELSE sets[d]]
           put(sets, into, from) == [d \in Channels |-> IF d \in into THEN sets[d] \cup {u}
                                                        ELSE IF d \in from THEN sets[d] \ {u} ELSE sets[d]]
           move(q, r, f) == /\ queue' = put(out(queue), q, Up(c))
                            /\ running' = put(out(running), r, Up(c))
                            /\ failed' = put(out(failed), f, Up(c))
<1>1. u \in Uuids /\ row[u] \in Rows /\ row[u].state # "none"
  BY DEF ChannelsTypeOK, Rows, RowStates
<1>2. \A sets \in [Channels -> SUBSET Uuids] : out(sets) \in [Channels -> SUBSET Uuids]
  OBVIOUS
<1>3. \A sets \in [Channels -> SUBSET Uuids] : \A into, from : put(sets, into, from) \in [Channels -> SUBSET Uuids]
  BY <1>1
<1>4. ASSUME NEW q, NEW r, NEW f, move(q, r, f)
      PROVE  /\ queue' \in [Channels -> SUBSET Uuids] /\ running' \in [Channels -> SUBSET Uuids]
             /\ failed' \in [Channels -> SUBSET Uuids]
  <2>1. /\ out(queue) \in [Channels -> SUBSET Uuids] /\ out(running) \in [Channels -> SUBSET Uuids]
        /\ out(failed) \in [Channels -> SUBSET Uuids]
    BY <1>2 DEF ChannelsTypeOK
  <2>2. /\ queue' = put(out(queue), q, Up(c)) /\ running' = put(out(running), r, Up(c))
        /\ failed' = put(out(failed), f, Up(c))
    BY <1>4
  <2> HIDE DEF out, put
  <2> QED BY <2>1, <2>2, <1>3
<1>5. CASE row[u].state \in {"done", "cancelled"}
  <2>1. move({}, {}, {})
    BY <1>5 DEF Notify
  <2> QED BY <2>1, <1>4, <1>1 DEF Notify, ChannelsTypeOK, Rows
<1>6. CASE row[u].state = "pending"
  <2>1. move({c}, {}, {}) \/ UNCHANGED <<queue, running, failed>>
    BY <1>6 DEF Notify
  <2>2. jobEta' \in [Uuids -> Nat]
    BY <1>1 DEF Notify, ChannelsTypeOK, Rows
  <2>3. CASE move({c}, {}, {})
    <3> HIDE DEF move
    <3>1. /\ queue' \in [Channels -> SUBSET Uuids] /\ running' \in [Channels -> SUBSET Uuids]
          /\ failed' \in [Channels -> SUBSET Uuids]
      BY <2>3, <1>4
    <3> QED BY <2>2, <3>1
  <2>4. CASE UNCHANGED <<queue, running, failed>>
    BY <2>2, <2>4 DEF ChannelsTypeOK
  <2> QED BY <2>1, <2>3, <2>4
<1>7. CASE row[u].state = "enqueued"
  <2>1. move({}, Up(c), {})
    BY <1>7 DEF Notify
  <2> QED BY <2>1, <1>4, <1>1 DEF Notify, ChannelsTypeOK, Rows
<1>8. CASE row[u].state = "failed"
  <2>1. move({}, {}, {c})
    BY <1>8 DEF Notify
  <2> QED BY <2>1, <1>4, <1>1 DEF Notify, ChannelsTypeOK, Rows
<1> QED BY <1>1, <1>5, <1>6, <1>7, <1>8 DEF Rows, RowStates

\* A row that is written is one of an existing job.
LEMMA WrittenTypes ==
    ASSUME ChannelsTypeOK, NEW u \in Uuids, NEW r \in Rows, r.state # "none", Written(u, r)
    PROVE  /\ row' \in [Uuids -> Rows]
           /\ notes' \subseteq {v \in Uuids : row'[v].state # "none"}
           /\ UNCHANGED <<config, runner, clock>>
<1> QED BY DEF ChannelsTypeOK, Written, Rows, RowStates

\* The times asked for are times.
LEMMA WakeupTypes ==
    ASSUME ChannelsTypeOK, NEW pauses \in [Channels -> Nat], NEW etas \in [Uuids -> Nat]
    PROVE  WakeupTimes(pauses, etas) \subseteq Nat
<1> DEFINE times(c) == IF pauses[c] # 0 THEN {pauses[c]} ELSE {etas[u] : u \in queue[c]}
<1>1. ASSUME NEW c \in Channels
      PROVE  times(c) \subseteq Nat
  <2>1. queue[c] \subseteq Uuids
    BY DEF ChannelsTypeOK
  <2> QED BY <2>1
<1>2. \A t \in WakeupTimes(pauses, etas) : \E c \in Channels : t \in times(c)
  BY DEF WakeupTimes
<1> HIDE DEF times
<1> QED BY <1>1, <1>2
-----------------------------------------------------------------------------
(* Every step keeps the invariant *)

\* A notification that is read.
LEMMA KeptByReading ==
    ASSUME ChannelsInv, NEW u \in Uuids, ProcessNotification(u)
    PROVE  ChannelsInv'
<1>1. ChannelsTypeOK'
  BY NotifyTypes DEF ChannelsInv, ProcessNotification, ChannelsTypeOK
<1>2. Rests' /\ PassHasBegun'
  BY DEF ChannelsInv, ProcessNotification, Rests, PassHasBegun, Throttled, RestsUntil
<1> QED BY <1>1, <1>2 DEF ChannelsInv

\* A row that is written.
LEMMA KeptByRows ==
    ASSUME ChannelsInv, NEW u \in Uuids, NEW r \in Rows, r.state # "none", Written(u, r), meddled' \in Nat
    PROVE  ChannelsInv'
<1>1. /\ row' \in [Uuids -> Rows]
      /\ notes' \subseteq {v \in Uuids : row'[v].state # "none"}
      /\ UNCHANGED <<config, runner, clock>>
  BY WrittenTypes DEF ChannelsInv
<1>2. ChannelsTypeOK'
  BY <1>1 DEF ChannelsInv, ChannelsTypeOK, runner, manager, Rows, RowStates
<1>3. Rests' /\ PassHasBegun'
  BY <1>1 DEF ChannelsInv, Rests, PassHasBegun, Throttled, RestsUntil, runner, manager
<1> QED BY <1>2, <1>3 DEF ChannelsInv

\* A job that is yielded: its channel rests from now on.
LEMMA KeptByYield ==
    ASSUME ChannelsInv, NEW c \in Channels, NEW u \in Uuids, Yield(c, u)
    PROVE  ChannelsInv'
<1>1. config[c].throttle \in Nat
  BY OptionTypes DEF ChannelsInv
<1>2. queue' \in [Channels -> SUBSET Uuids] /\ running' \in [Channels -> SUBSET Uuids]
  BY DEF ChannelsInv, ChannelsTypeOK, Yield
<1>3. jobEta' \in [Uuids -> Nat]
  BY DEF ChannelsInv, ChannelsTypeOK, Yield, EtasPassed
<1>4. pause' \in [Channels -> Nat] /\ last' \in [Channels -> Nat]
  BY <1>1 DEF ChannelsInv, ChannelsTypeOK, Yield
<1>5. row' \in [Uuids -> Rows] /\ notes' \subseteq {v \in Uuids : row'[v].state # "none"}
  <2>1. CASE c = Root
    <3>1. row' = [row EXCEPT ![u].state = "enqueued"] /\ notes' = notes \cup {u}
      BY <2>1 DEF Yield
    <3>2. [row[u] EXCEPT !.state = "enqueued"] \in Rows
      BY DEF ChannelsInv, ChannelsTypeOK, Rows, RowStates
    <3> QED BY <3>1, <3>2 DEF ChannelsInv, ChannelsTypeOK, Rows, RowStates
  <2>2. CASE c # Root
    BY <2>2 DEF ChannelsInv, ChannelsTypeOK, Yield, Rows, RowStates
  <2> QED BY <2>1, <2>2
<1>6. ChannelsTypeOK'
  BY <1>2, <1>3, <1>4, <1>5 DEF ChannelsInv, ChannelsTypeOK, Yield, Rows, RowStates
<1>7. Rests'
  <2> SUFFICES ASSUME NEW d \in Channels, Throttled(d)'
               PROVE  \/ pause'[d] = RestsUntil(d)'
                      \/ RestsUntil(d)' <= clock' /\ (loop' = "run" => RestsUntil(d)' <= at')
    BY DEF Rests
  <2>1. CASE d = c
    BY <2>1, <1>1 DEF Yield, Throttled, RestsUntil, ChannelsInv, ChannelsTypeOK
  <2>2. CASE d # c
    BY <2>2 DEF Yield, Throttled, RestsUntil, Rests, ChannelsInv, ChannelsTypeOK
  <2> QED BY <2>1, <2>2
<1>8. PassHasBegun'
  BY DEF ChannelsInv, PassHasBegun, Yield
<1> QED BY <1>6, <1>7, <1>8 DEF ChannelsInv

\* A pause that ends is over for the pass that ends it.
LEMMA KeptByLeave ==
    ASSUME ChannelsInv, NEW c \in Channels, Leave(c)
    PROVE  ChannelsInv'
<1>1. pause' \in [Channels -> Nat]
  BY DEF ChannelsInv, ChannelsTypeOK, Leave
<1>2. jobEta' \in [Uuids -> Nat]
  BY DEF ChannelsInv, ChannelsTypeOK, Leave, EtasPassed
<1>3. WakeupTimes(pause', jobEta') \subseteq Nat
  BY <1>1, <1>2, WakeupTypes DEF ChannelsInv
<1>4. loop' \in {"read", "run", "sleep"} /\ wakeup' \in Nat /\ at' \in Nat /\ at' <= clock
      /\ (loop' = "run" => loop = "run" /\ at' = at)
  <2>1. CASE c = Root
    <3>1. Wait(WakeupTimes(pause', jobEta'))
      BY <2>1 DEF Leave
    <3>2. CASE notes # {}
      BY <3>1, <3>2 DEF Wait, ChannelsInv, ChannelsTypeOK
    <3>3. CASE notes = {}
      BY <3>1, <3>3, <1>3 DEF Wait, ChannelsInv, ChannelsTypeOK, PassHasBegun
    <3> QED BY <3>2, <3>3
  <2>2. CASE c # Root
    BY <2>2 DEF Leave, ChannelsInv, ChannelsTypeOK, PassHasBegun
  <2> QED BY <2>1, <2>2
<1>5. ChannelsTypeOK'
  BY <1>1, <1>2, <1>4 DEF ChannelsInv, ChannelsTypeOK, Leave
<1>6. Rests'
  <2> SUFFICES ASSUME NEW d \in Channels, Throttled(d)'
               PROVE  \/ pause'[d] = RestsUntil(d)'
                      \/ RestsUntil(d)' <= clock' /\ (loop' = "run" => RestsUntil(d)' <= at')
    BY DEF Rests
  <2>1. /\ Throttled(d) /\ RestsUntil(d)' = RestsUntil(d) /\ RestsUntil(d) \in Nat
        /\ clock' = clock /\ loop = "run" /\ at <= clock /\ {clock, at, pause[d]} \subseteq Nat
    BY OptionTypes DEF Leave, Visits, Throttled, RestsUntil, ChannelsInv, ChannelsTypeOK, PassHasBegun
  <2>2. \/ pause[d] = RestsUntil(d)
        \/ RestsUntil(d) <= clock /\ RestsUntil(d) <= at
    BY <2>1 DEF ChannelsInv, Rests
  <2>3. CASE pause'[d] = pause[d]
    BY <2>1, <2>2, <2>3, <1>4
  <2>4. CASE pause'[d] # pause[d]
    <3>1. d = c /\ ~Paused(c)
      BY <2>4 DEF Leave, ChannelsInv, ChannelsTypeOK
    <3>2. pause[d] <= at
      BY <3>1, <2>1 DEF Paused, Throttled
    <3> QED BY <3>2, <2>1, <2>2, <1>4
  <2> QED BY <2>3, <2>4
<1>7. PassHasBegun'
  BY <1>4 DEF PassHasBegun, Leave
<1> QED BY <1>5, <1>6, <1>7 DEF ChannelsInv

\* Jobs that are forgotten and read again: the pauses stay.
LEMMA KeptByReinitialize ==
    ASSUME ChannelsInv, Reinitialize
    PROVE  ChannelsInv'
<1>1. /\ queue' \in [Channels -> SUBSET Uuids] /\ running' \in [Channels -> SUBSET Uuids]
      /\ failed' \in [Channels -> SUBSET Uuids]
  BY DEF Reinitialize
<1>2. jobEta' \in [Uuids -> Nat]
  BY DEF Reinitialize, ChannelsInv, ChannelsTypeOK
<1>3. ChannelsTypeOK'
  BY <1>1, <1>2 DEF Reinitialize, ChannelsInv, ChannelsTypeOK
<1>4. Rests' /\ PassHasBegun'
  BY DEF Reinitialize, ChannelsInv, ChannelsTypeOK, Rests, PassHasBegun, Throttled, RestsUntil
<1> QED BY <1>3, <1>4 DEF ChannelsInv

\* The steps of the thread and the clock that move no job.
LEMMA KeptByLoop ==
    ASSUME ChannelsInv, StartPass \/ WakeUp \/ Tick
    PROVE  ChannelsInv'
<1>1. ChannelsTypeOK'
  BY DEF StartPass, WakeUp, Tick, ChannelsInv, ChannelsTypeOK, runner, manager
<1>2. PassHasBegun'
  BY DEF StartPass, WakeUp, Tick, ChannelsInv, ChannelsTypeOK, PassHasBegun, runner
<1>3. Rests'
  <2> SUFFICES ASSUME NEW d \in Channels, Throttled(d)'
               PROVE  \/ pause'[d] = RestsUntil(d)'
                      \/ RestsUntil(d)' <= clock' /\ (loop' = "run" => RestsUntil(d)' <= at')
    BY DEF Rests
  <2>1. Throttled(d) /\ RestsUntil(d)' = RestsUntil(d) /\ RestsUntil(d) \in Nat /\ clock \in Nat
    BY OptionTypes DEF StartPass, WakeUp, Tick, Throttled, RestsUntil, ChannelsInv, ChannelsTypeOK, runner
  <2>2. \/ pause[d] = RestsUntil(d)
        \/ RestsUntil(d) <= clock /\ (loop = "run" => RestsUntil(d) <= at)
    BY <2>1 DEF ChannelsInv, Rests
  <2>3. CASE StartPass
    BY <2>1, <2>2, <2>3 DEF StartPass
  <2>4. CASE WakeUp
    BY <2>1, <2>2, <2>4 DEF WakeUp
  <2>5. CASE Tick
    BY <2>1, <2>2, <2>5 DEF Tick, runner
  <2> QED BY <2>3, <2>4, <2>5
<1> QED BY <1>1, <1>2, <1>3 DEF ChannelsInv

\* Every step keeps the invariant.
LEMMA ChannelsInductive == ChannelsInv /\ [ChannelsNext]_channelVars => ChannelsInv'
<1> SUFFICES ASSUME ChannelsInv, [ChannelsNext]_channelVars
             PROVE  ChannelsInv'
  OBVIOUS
<1>1. CASE \E u \in Uuids : ProcessNotification(u)
  BY <1>1, KeptByReading
<1>2. CASE \E u \in Uuids : Create(u)
  <2>1. PICK u \in Uuids, e \in {0} \cup Etas : Written(u, Pending(e)) /\ UNCHANGED meddled
    BY <1>2 DEF Create
  <2>2. Pending(e) \in Rows /\ Pending(e).state # "none"
    BY DEF Pending, Rows, RowStates, Etas
  <2>3. meddled' \in Nat
    BY <2>1 DEF ChannelsInv, ChannelsTypeOK
  <2> QED BY <2>1, <2>2, <2>3, KeptByRows
<1>3. CASE \E u \in Uuids : Finish(u) \/ WritePending(u) \/ WriteCancelled(u)
  <2>1. PICK u \in Uuids : Finish(u) \/ WritePending(u) \/ WriteCancelled(u)
    BY <1>3
  <2>2. row[u] \in Rows
    BY DEF ChannelsInv, ChannelsTypeOK, Rows, RowStates
  <2>3. meddled' \in Nat
    BY <2>1 DEF Finish, WritePending, WriteCancelled, Meddle, ChannelsInv, ChannelsTypeOK
  <2>4. PICK r : Written(u, r) /\ (\/ \E e \in Etas : r = Pending(e)
                                   \/ r = Pending(row[u].eta)
                                   \/ \E s \in {"done", "failed", "cancelled"} : r = [row[u] EXCEPT !.state = s])
    BY <2>1 DEF Finish, WritePending, WriteCancelled
  <2>5. r \in Rows /\ r.state # "none"
    BY <2>2, <2>4 DEF Pending, Rows, RowStates, Etas
  <2> QED BY <2>3, <2>4, <2>5, KeptByRows
<1>4. CASE \E c \in Channels : Leave(c)
  BY <1>4, KeptByLeave
<1>5. CASE \E c \in Channels, u \in Uuids : Yield(c, u)
  BY <1>5, KeptByYield
<1>6. CASE Reinitialize
  BY <1>6, KeptByReinitialize
<1>7. CASE StartPass \/ WakeUp \/ Tick
  BY <1>7, KeptByLoop
<1>8. CASE UNCHANGED channelVars
  BY <1>8 DEF channelVars, runner, manager, ChannelsInv, ChannelsTypeOK, Rests, PassHasBegun, Throttled, RestsUntil
<1> QED BY <1>1, <1>2, <1>3, <1>4, <1>5, <1>6, <1>7, <1>8 DEF ChannelsNext

\* The invariant holds always.
LEMMA ChannelsInvHolds == ChannelsSpec => []ChannelsInv
<1>1. ChannelsInit => ChannelsInv
  BY DEF ChannelsInit, ChannelsInv, ChannelsTypeOK, Rests, PassHasBegun, Throttled
<1> QED BY <1>1, ChannelsInductive, PTL DEF ChannelsSpec
-----------------------------------------------------------------------------
\* Rows, notifications and the runner's queues, sets and times keep their types,
\* and the runner only reads about jobs that exist.
THEOREM ChannelTypes == ChannelsSpec => []ChannelsTypeOK
<1> QED BY ChannelsInvHolds, PTL DEF ChannelsInv

\* A throttled channel lets its seconds pass between two jobs, whatever the
\* other channels, the rows and the connection do in between.
THEOREM ThrottlesKept == ChannelsSpec => ThrottleKept
<1>1. ASSUME ChannelsInv, NEW c \in left, NEW u \in Uuids, Yield(c, u), config[c].throttle # 0
      PROVE  last[c] = 0 \/ at >= last[c] + config[c].throttle
  <2>1. c \in Channels /\ loop = "run" /\ ~Paused(c) /\ {at, pause[c], last[c]} \subseteq Nat
    BY <1>1 DEF ChannelsInv, ChannelsTypeOK, Yield, Visits
  <2>2. config[c].throttle \in Nat
    BY <1>1, <2>1, OptionTypes DEF ChannelsInv
  <2>3. pause[c] <= at
    BY <2>1, <1>1 DEF Paused
  <2>4. last[c] # 0 => pause[c] = RestsUntil(c) \/ RestsUntil(c) <= at
    BY <1>1, <2>1 DEF ChannelsInv, Rests, Throttled
  <2> QED BY <2>1, <2>2, <2>3, <2>4 DEF RestsUntil
<1>2. ChannelsInv => \A c \in left, u \in Uuids :
          Yield(c, u) /\ config[c].throttle # 0 => last[c] = 0 \/ at >= last[c] + config[c].throttle
  BY <1>1
<1> QED BY <1>2, ChannelsInvHolds, PTL DEF ThrottleKept
-----------------------------------------------------------------------------
(* Sequential channels *)

\* What the runner has read of a row is where the job stands in its channel.
Placed == \A v \in Uuids \ notes : LET c == ChannelOf[v] IN
            /\ row[v].state = "pending" => v \in queue[c] \cup running[c] /\ jobEta[v] \in {0, row[v].eta}
            /\ row[v].state = "enqueued" => v \in running[c]
            /\ row[v].state = "failed" => v \in failed[c]

\* Of jobs that are postponed there is one that is to run first.
LEMMA SomeEarliest ==
    ASSUME ChannelsTypeOK, NEW us \in SUBSET Uuids, us # {}
    PROVE  Earliest(us) # {} /\ \A e \in Earliest(us), u \in us : e \in us /\ jobEta[e] <= jobEta[u]
<1> DEFINE soonest == {u \in us : \A v \in us : jobEta[u] <= jobEta[v]}
<1>1. soonest # {}
  <2> DEFINE T == {jobEta[u] : u \in us}
  <2>1. T \in SUBSET Nat /\ T # {}
    BY DEF ChannelsTypeOK
  <2>2. \E x \in T : \A y \in T : x <= y
    BY <2>1, LeastNumber
  <2> QED BY <2>2
<1>2. First(soonest) # {}
  <2> DEFINE T == {Rank[u] : u \in soonest}
  <2>1. T \in SUBSET Nat /\ T # {}
    BY <1>1
  <2>2. \E x \in T : \A y \in T : x <= y
    BY <2>1, LeastNumber
  <2> QED BY <2>2 DEF First
<1> QED BY <1>2 DEF Earliest, First

Unmoved(v) == \A d \in Channels : /\ (v \in queue'[d]) <=> (v \in queue[d])
                                  /\ (v \in running'[d]) <=> (v \in running[d])
                                  /\ (v \in failed'[d]) <=> (v \in failed[d])

\* A notification moves its job only, to where its row says.
LEMMA NotifyPlaces ==
    ASSUME ChannelsTypeOK, NEW u \in notes, Notify(u), NEW v \in Uuids
    PROVE  /\ v # u => Unmoved(v)
           /\ row[u].state = "pending" => u \in queue'[ChannelOf[u]]
           /\ row[u].state = "enqueued" => u \in running'[ChannelOf[u]]
           /\ row[u].state = "failed" => u \in failed'[ChannelOf[u]]
<1> DEFINE c == ChannelOf[u]
           out(sets) == IF row[u].eta = jobEta[u] THEN sets
                        ELSE [d \in Channels |-> IF d \in Up(c) THEN sets[d] \ {u} ELSE sets[d]]
           put(sets, into, from) == [d \in Channels |-> IF d \in into THEN sets[d] \cup {u}
                                                        ELSE IF d \in from THEN sets[d] \ {u} ELSE sets[d]]
           move(q, r, f) == /\ queue' = put(out(queue), q, Up(c))
                            /\ running' = put(out(running), r, Up(c))
                            /\ failed' = put(out(failed), f, Up(c))
           Same(new, old) == v # u => \A d \in Channels : v \in new[d] <=> v \in old[d]
<1>1. u \in Uuids /\ c \in Channels /\ c \in Up(c) /\ row[u].state \in RowStates \ {"none"}
  BY DEF ChannelsTypeOK, RowStates, Up
<1>2. \A sets : Same(out(sets), sets)
  OBVIOUS
<1>3. \A sets, into, from : Same(put(sets, into, from), sets)
  OBVIOUS
<1>4. \A sets, into, from : \A d \in Channels : d \in into => u \in put(sets, into, from)[d]
  OBVIOUS
<1> HIDE DEF put
<1>5. \A sets, into, from : Same(put(out(sets), into, from), sets)
  BY <1>2, <1>3
<1> HIDE DEF out, Same
<1>6. ASSUME NEW q, NEW r, NEW f, move(q, r, f)
      PROVE  /\ Same(queue', queue) /\ Same(running', running) /\ Same(failed', failed)
             /\ c \in q => u \in queue'[c]
             /\ c \in r => u \in running'[c]
             /\ c \in f => u \in failed'[c]
  BY <1>6, <1>5, <1>4, <1>1
<1>7. \/ row[u].state \in {"done", "cancelled"} /\ move({}, {}, {})
      \/ row[u].state = "pending" /\ (move({c}, {}, {}) \/ (u \in out(queue)[c] /\ UNCHANGED <<queue, running, failed>>))
      \/ row[u].state = "enqueued" /\ move({}, Up(c), {})
      \/ row[u].state = "failed" /\ move({}, {}, {c})
  <2>1. CASE row[u].state \in {"done", "cancelled"}
    BY <2>1 DEF Notify, out, put
  <2>2. CASE row[u].state = "pending"
    <3>1. CASE u \in out(queue)[c]
      BY <2>2, <3>1 DEF Notify, out, put
    <3>2. CASE u \notin out(queue)[c]
      <4>1. move({c}, {}, {})
        BY <2>2, <3>2 DEF Notify, out, put
      <4> HIDE DEF move
      <4> QED BY <2>2, <4>1
    <3> QED BY <3>1, <3>2
  <2>3. CASE row[u].state = "enqueued"
    BY <2>3 DEF Notify, out, put
  <2>4. CASE row[u].state = "failed"
    BY <2>4 DEF Notify, out, put
  <2> QED BY <2>1, <2>2, <2>3, <2>4, <1>1 DEF RowStates
<1> HIDE DEF move
<1>8. UNCHANGED <<queue, running, failed>> => Same(queue', queue) /\ Same(running', running) /\ Same(failed', failed)
  BY DEF Same
<1>9. Same(queue', queue) /\ Same(running', running) /\ Same(failed', failed)
  BY <1>6, <1>7, <1>8
<1>10. u \in out(queue)[c] => u \in queue[c]
  BY <1>1 DEF out
<1>11. /\ row[u].state = "pending" => u \in queue'[c]
       /\ row[u].state = "enqueued" => u \in running'[c]
       /\ row[u].state = "failed" => u \in failed'[c]
  <2>1. CASE row[u].state \in {"done", "cancelled"}
    BY <2>1
  <2>2. CASE row[u].state = "pending"
    BY <2>2, <1>7, <1>6, <1>10
  <2>3. CASE row[u].state = "enqueued"
    <3>1. move({}, Up(c), {})
      BY <2>3, <1>7
    <3> QED BY <2>3, <3>1, <1>6, <1>1
  <2>4. CASE row[u].state = "failed"
    <3>1. move({}, {}, {c})
      BY <2>4, <1>7
    <3> QED BY <2>4, <3>1, <1>6
  <2> QED BY <2>1, <2>2, <2>3, <2>4, <1>1 DEF RowStates
<1>12. v # u => Unmoved(v)
  BY <1>9 DEF Same, Unmoved
<1> QED BY <1>11, <1>12

\* A notification puts its job in place and leaves the others.
LEMMA PlacedByReading ==
    ASSUME ChannelsTypeOK, Placed, NEW u \in Uuids, ProcessNotification(u)
    PROVE  Placed'
<1> SUFFICES ASSUME NEW v \in Uuids \ notes'
             PROVE  LET c == ChannelOf[v] IN
                    /\ row'[v].state = "pending" => v \in queue'[c] \cup running'[c] /\ jobEta'[v] \in {0, row'[v].eta}
                    /\ row'[v].state = "enqueued" => v \in running'[c]
                    /\ row'[v].state = "failed" => v \in failed'[c]
  BY DEF Placed
<1> DEFINE c == ChannelOf[v]
<1>1. row' = row /\ c \in Channels /\ c \in Up(c) /\ Notify(u) /\ u \in notes /\ notes' = notes \ {u}
  BY DEF ProcessNotification, Up
<1>2. jobEta' = [jobEta EXCEPT ![u] = row[u].eta] /\ jobEta \in [Uuids -> Nat]
  BY <1>1 DEF Notify, ChannelsTypeOK
<1>3. CASE v = u
  <2>1. jobEta'[v] = row[v].eta
    BY <1>2, <1>3
  <2> QED BY <2>1, <1>1, <1>3, NotifyPlaces
<1>4. CASE v # u
  <2>1. jobEta'[v] = jobEta[v] /\ v \in Uuids \ notes
    BY <1>1, <1>2, <1>4
  <2>2. /\ v \in queue'[c] <=> v \in queue[c]
        /\ v \in running'[c] <=> v \in running[c]
        /\ v \in failed'[c] <=> v \in failed[c]
    <3>1. Unmoved(v)
      BY <1>1, <1>4, NotifyPlaces
    <3> QED BY <3>1, <1>1 DEF Unmoved
  <2> QED BY <2>1, <2>2, <1>1 DEF Placed
<1> QED BY <1>3, <1>4

\* Every step keeps the jobs in place.
LEMMA PlacedInductive == ChannelsInv /\ Placed /\ [ChannelsNext]_channelVars => Placed'
<1> SUFFICES ASSUME ChannelsInv, Placed, [ChannelsNext]_channelVars
             PROVE  Placed'
  OBVIOUS
<1> USE DEF ChannelsInv
<1>1. CASE \E u \in Uuids : ProcessNotification(u)
  BY <1>1, PlacedByReading
<1>2. ASSUME NEW u \in Uuids, NEW r, Written(u, r)
      PROVE  Placed'
  BY <1>2 DEF Placed, Written, runner, manager, ChannelsTypeOK
<1>3. CASE \E u \in Uuids : Create(u) \/ Finish(u) \/ WritePending(u) \/ WriteCancelled(u)
  BY <1>3, <1>2 DEF Create, Finish, WritePending, WriteCancelled
<1>4. CASE \E c \in Channels : Leave(c)
  BY <1>4 DEF Placed, Leave, EtasPassed, ChannelsTypeOK
<1>5. CASE \E c \in Channels, u \in Uuids : Yield(c, u)
  <2>1. PICK c \in Channels, u \in Uuids : Yield(c, u)
    BY <1>5
  <2>2. \A v \in Uuids, d \in Channels :
           /\ v \in queue[d] \cup running[d] => v \in queue'[d] \cup running'[d]
           /\ v \in running[d] => v \in running'[d]
           /\ jobEta'[v] \in {0, jobEta[v]} /\ failed'[d] = failed[d]
    BY <2>1 DEF Yield, EtasPassed, ChannelsTypeOK
  <2>3. \A v \in Uuids \ notes' : v \notin notes /\ row'[v] = row[v]
    BY <2>1 DEF Yield, ChannelsTypeOK
  <2> QED BY <2>2, <2>3 DEF Placed
<1>6. CASE Reinitialize
  <2> SUFFICES ASSUME NEW v \in Uuids
               PROVE  LET c == ChannelOf[v] IN
                      /\ row'[v].state = "pending" => v \in queue'[c] \cup running'[c] /\ jobEta'[v] \in {0, row'[v].eta}
                      /\ row'[v].state = "enqueued" => v \in running'[c]
                      /\ row'[v].state = "failed" => v \in failed'[c]
    BY DEF Placed
  <2> QED BY <1>6 DEF Reinitialize, Up
<1>7. CASE StartPass \/ WakeUp \/ Tick
  BY <1>7 DEF StartPass, WakeUp, Tick, Placed, runner, manager
<1>8. CASE UNCHANGED channelVars
  BY <1>8 DEF channelVars, runner, manager, Placed
<1> QED BY <1>1, <1>3, <1>4, <1>5, <1>6, <1>7, <1>8 DEF ChannelsNext

\* A sequential channel that yields a job has no other one under way, no failed
\* one, and nothing that pop finds to come first.
LEMMA InTurn ==
    ASSUME ChannelsInv, Placed, NEW c \in Channels, NEW u \in Uuids, Yield(c, u), Sequential(c),
           NEW v \in Uuids \ (notes \cup {u}), ChannelOf[v] = c
    PROVE  /\ row[v].state \notin {"enqueued", "failed"}
           /\ row[v].state = "pending" /\ Rank[v] < Rank[u] =>
                 \E w \in Postponed(c, at) : Rank[w] > Rank[u] /\ jobEta[w] <= row[v].eta
<1> USE DEF ChannelsInv
<1>1. failed[c] = {} /\ running[c] = {}
  <2>1. failed[c] = {} /\ (config[c].capacity = 0 \/ Cardinality(running[c]) < config[c].capacity)
    BY DEF Yield, HasCapacity
  <2>2. config[c].capacity = 1
    BY DEF ChannelsTypeOK, Sequential
  <2>3. IsFiniteSet(running[c])
    BY FS_Subset DEF ChannelsTypeOK
  <2>4. Cardinality(running[c]) \in Nat
    BY <2>3, FS_CardinalityType
  <2> QED BY <2>1, <2>2, <2>3, <2>4, FS_EmptySet
<1>2. row[v].state \notin {"enqueued", "failed"}
  BY <1>1 DEF Placed
<1>3. ASSUME row[v].state = "pending", Rank[v] < Rank[u]
      PROVE  \E w \in Postponed(c, at) : Rank[w] > Rank[u] /\ jobEta[w] <= row[v].eta
  <2>1. v \in queue[c] /\ jobEta[v] \in {0, row[v].eta}
    BY <1>1, <1>3 DEF Placed
  <2>2. u \in First(Due(c, at)) /\ ~WaitsForEta(c, at)
    BY DEF Yield, Pop
  <2>3. v \notin Due(c, at)
    BY <2>2, <1>3 DEF First, ChannelsTypeOK
  <2>4. v \in Postponed(c, at) /\ jobEta[v] = row[v].eta
    <3>1. ~(jobEta[v] <= at)
      BY <2>1, <2>3 DEF Due
    <3> QED BY <3>1, <2>1, <2>3 DEF Postponed, ChannelsTypeOK
  <2>5. Postponed(c, at) \in SUBSET Uuids
    BY DEF Postponed, ChannelsTypeOK
  <2>6. PICK w \in Earliest(Postponed(c, at)) : w \in Postponed(c, at) /\ jobEta[w] <= jobEta[v]
    <3>1. Postponed(c, at) # {} /\ ChannelsTypeOK
      BY <2>4
    <3>2. /\ Earliest(Postponed(c, at)) # {}
          /\ \A e \in Earliest(Postponed(c, at)), x \in Postponed(c, at) :
                e \in Postponed(c, at) /\ jobEta[e] <= jobEta[x]
      BY <2>5, <3>1, SomeEarliest
    <3> QED BY <3>2, <2>4
  <2>7. ~(Rank[w] < Rank[u])
    BY <2>2, <2>6 DEF WaitsForEta
  <2>8. w # u
    BY <2>2, <2>6 DEF Postponed, First
  <2>9. Rank[w] > Rank[u]
    <3>1. w \in Uuids
      BY <2>5, <2>6
    <3>2. Rank[w] \in Nat /\ Rank[u] \in Nat /\ (Rank[w] = Rank[u] => w = u)
      BY <3>1
    <3>3. \A m, n \in Nat : ~(m < n) /\ m # n => m > n
      OBVIOUS
    <3> QED BY <3>2, <3>3, <2>7, <2>8
  <2> QED BY <2>4, <2>6, <2>9
<1> QED BY <1>2, <1>3

\* A sequential channel runs its jobs one by one and in order, also past
\* failures and retries, up to what pop does not look at.
THEOREM SequencesKept == ChannelsSpec => SequentialKept
<1>1. ChannelsInit => Placed
  BY DEF ChannelsInit, Placed
<1>2. ChannelsSpec => []Placed
  BY <1>1, PlacedInductive, ChannelsInvHolds, PTL DEF ChannelsSpec
<1>3. ChannelsInv /\ Placed => \A c \in left, u \in Uuids : Yield(c, u) /\ Sequential(c) =>
          \A v \in Uuids \ (notes \cup {u}) : ChannelOf[v] = c /\ ChannelOf[u] = c =>
             /\ row[v].state \notin {"enqueued", "failed"}
             /\ row[v].state = "pending" /\ Rank[v] < Rank[u] =>
                   \E w \in Postponed(c, at) : Rank[w] > Rank[u] /\ jobEta[w] <= row[v].eta
  BY InTurn DEF ChannelsInv, ChannelsTypeOK
<1> QED BY <1>2, <1>3, ChannelsInvHolds, PTL DEF SequentialKept
-----------------------------------------------------------------------------
(* The time to sleep to *)

\* A channel that the pass has left is paused past the pass, full or blocked,
\* or has nothing to yield; what it still waits for comes after the pass.
HasLeft(c) ==
    IF pause[c] # 0 THEN at < pause[c]
    ELSE HasCapacity(c) => Pop(c, at) = {} /\ \A u \in queue[c] : jobEta[u] = 0 \/ at < jobEta[u]

\* Only a job that was yielded starts a pause.
PausesRun ==
    /\ 1 <= clock /\ (loop = "run" => 1 <= at)
    /\ \A c \in Channels : pause[c] # 0 => Throttled(c) /\ pause[c] = RestsUntil(c)

\* A pass leaves the channels upstream first, and none is fed after it was left.
NothingMissed ==
    /\ loop = "run" => /\ \A c \in Channels \ left : HasLeft(c)
                       /\ \A c \in left : Ancestors[c] \subseteq left
    /\ loop = "sleep" => \A c \in Channels : HasLeft(c)

Times == WakeupTimes(pause, jobEta)
SleepsToFirst ==
    loop = "sleep" => \/ Times = {} /\ wakeup = 0
                      \/ wakeup \in Times /\ \A t \in Times : wakeup <= t

SleepInv == PausesRun /\ NothingMissed /\ SleepsToFirst

\* To forget the etas that have passed changes nothing that a channel yields, or
\* waits for, at this time.
LEMMA EtasForgotten ==
    ASSUME ChannelsTypeOK, NEW d \in Channels, at' = at, config' = config,
           queue'[d] = queue[d], running'[d] = running[d], failed'[d] = failed[d], pause'[d] = pause[d],
           jobEta' \in [Uuids -> Nat],
           \A u \in Uuids : jobEta'[u] = jobEta[u] \/ (jobEta[u] <= at /\ jobEta'[u] = 0),
           HasLeft(d)
    PROVE  HasLeft(d)'
<1>1. queue[d] \subseteq Uuids /\ at \in Nat /\ \A u \in Uuids : jobEta[u] \in Nat
  BY DEF ChannelsTypeOK
<1>2. Due(d, at)' = Due(d, at)
  BY <1>1 DEF Due
<1>3. Postponed(d, at)' = Postponed(d, at) /\ \A u \in Postponed(d, at) : jobEta'[u] = jobEta[u]
  BY <1>1, <1>2 DEF Postponed, Due
<1>4. Earliest(Postponed(d, at))' = Earliest(Postponed(d, at))
  BY <1>3 DEF Earliest, First
<1>5. Pop(d, at)' = Pop(d, at)
  BY <1>2, <1>4 DEF Pop, WaitsForEta, First, Sequential
<1>6. HasCapacity(d)' <=> HasCapacity(d)
  BY DEF HasCapacity, Sequential
<1>7. ASSUME NEW u \in queue[d], jobEta[u] = 0 \/ at < jobEta[u]
      PROVE  jobEta'[u] = 0 \/ at < jobEta'[u]
  BY <1>1, <1>7
<1>8. CASE pause[d] # 0
  BY <1>8 DEF HasLeft
<1>9. CASE pause[d] = 0
  BY <1>9, <1>5, <1>6, <1>7 DEF HasLeft
<1> QED BY <1>8, <1>9

\* The steps that let the runner be: its data and the options stay.
LEMMA RunnerLetBe ==
    ASSUME SleepInv, UNCHANGED <<config, runner>>, 1 <= clock'
    PROVE  SleepInv'
<1>1. PausesRun'
  BY DEF SleepInv, PausesRun, Throttled, RestsUntil, runner
<1>2. \A c \in Channels : HasLeft(c) => HasLeft(c)'
  BY DEF HasLeft, HasCapacity, Pop, WaitsForEta, Due, Postponed, Earliest, First, Sequential,
     runner, manager
<1>3. NothingMissed'
  BY <1>2 DEF SleepInv, NothingMissed, runner
<1>4. Times' = Times
  BY DEF Times, WakeupTimes, HasCapacity, Sequential, runner, manager
<1>5. SleepsToFirst'
  BY <1>4 DEF SleepInv, SleepsToFirst, runner
<1> QED BY <1>1, <1>3, <1>5 DEF SleepInv

\* A job that is yielded pauses its channel, and goes to one not left yet.
LEMMA SleepKeptByYield ==
    ASSUME ChannelsInv, SleepInv, NEW c \in Channels, NEW u \in Uuids, Yield(c, u)
    PROVE  SleepInv'
<1>1. loop = "run" /\ loop' = "run" /\ c \in left /\ left' = left /\ at' = at /\ clock' = clock /\ config' = config
  BY DEF Yield, Visits
<1>2. 1 <= at /\ 1 <= clock /\ at \in Nat
  BY <1>1 DEF SleepInv, PausesRun, ChannelsInv, ChannelsTypeOK
<1>3. PausesRun'
  <2> SUFFICES ASSUME NEW d \in Channels, pause'[d] # 0
               PROVE  (Throttled(d) /\ pause[d] = RestsUntil(d))'
    BY <1>1, <1>2 DEF PausesRun
  <2>1. CASE d = c /\ config[c].throttle # 0
    <3>1. pause'[c] = at + config[c].throttle /\ last'[c] = at
      BY <2>1 DEF Yield, ChannelsInv, ChannelsTypeOK
    <3> QED BY <3>1, <2>1, <1>1, <1>2 DEF Throttled, RestsUntil
  <2>2. CASE ~(d = c /\ config[c].throttle # 0)
    <3>1. pause'[d] = pause[d] /\ last'[d] = last[d]
      BY <2>2 DEF Yield, ChannelsInv, ChannelsTypeOK
    <3> QED BY <3>1, <1>1 DEF SleepInv, PausesRun, Throttled, RestsUntil
  <2> QED BY <2>1, <2>2
<1>4. ASSUME NEW d \in Channels \ left
      PROVE  HasLeft(d)'
  <2>1. d # c /\ ~Downstream(c, d)
    BY <1>1 DEF SleepInv, NothingMissed, Downstream
  <2>2. queue'[d] = queue[d] /\ running'[d] = running[d] /\ failed'[d] = failed[d] /\ pause'[d] = pause[d]
    BY <2>1 DEF Yield, ChannelsInv, ChannelsTypeOK
  <2>3. \A v \in Uuids : jobEta'[v] = jobEta[v] \/ (jobEta[v] <= at /\ jobEta'[v] = 0)
    BY DEF Yield, EtasPassed, Due
  <2>4. jobEta' \in [Uuids -> Nat]
    BY KeptByYield DEF ChannelsInv, ChannelsTypeOK
  <2>5. HasLeft(d) /\ ChannelsTypeOK
    BY <1>1 DEF SleepInv, NothingMissed, ChannelsInv
  <2> QED BY <2>2, <2>3, <2>4, <2>5, <1>1, EtasForgotten
<1>5. NothingMissed'
  BY <1>1, <1>4 DEF SleepInv, NothingMissed
<1>6. SleepsToFirst'
  BY <1>1 DEF SleepsToFirst
<1> QED BY <1>3, <1>5, <1>6 DEF SleepInv

\* A channel is left for a reason that lasts as long as the pass; with the root
\* the last one is left, and the first of the times asked for is chosen.
LEMMA SleepKeptByLeave ==
    ASSUME ChannelsInv, SleepInv, NEW c \in Channels, Leave(c)
    PROVE  SleepInv'
<1>1. /\ loop = "run" /\ c \in left /\ left' = left \ {c} /\ clock' = clock /\ config' = config
      /\ queue' = queue /\ running' = running /\ failed' = failed /\ last' = last
      /\ \A d \in left : c \notin Ancestors[d]
  BY DEF Leave, Visits
<1>2. ChannelsTypeOK /\ ChannelsTypeOK'
  BY KeptByLeave DEF ChannelsInv
<1>3. \/ loop' = "run" /\ at' = at /\ c # Root
      \/ loop' = "read" /\ c = Root
      \/ loop' = "sleep" /\ at' = at /\ c = Root
  BY <1>1 DEF Leave, Wait
<1>4. \A d \in Channels : pause'[d] = IF d = c /\ ~Paused(c) THEN 0 ELSE pause[d]
  BY <1>2 DEF Leave, ChannelsTypeOK
<1>5. PausesRun'
  BY <1>1, <1>3, <1>4 DEF SleepInv, PausesRun, Throttled, RestsUntil
<1>6. \A v \in Uuids : jobEta'[v] = jobEta[v] \/ (jobEta[v] <= at /\ jobEta'[v] = 0)
  BY DEF Leave, EtasPassed, Due
<1>7. ASSUME at' = at, NEW d \in Channels \ left
      PROVE  HasLeft(d)'
  <2>1. HasLeft(d) /\ pause'[d] = pause[d]
    BY <1>1, <1>4 DEF SleepInv, NothingMissed
  <2>2. jobEta' \in [Uuids -> Nat]
    BY <1>2 DEF ChannelsTypeOK
  <2> QED BY <2>1, <2>2, <1>1, <1>2, <1>6, <1>7, EtasForgotten
<1>8. ASSUME at' = at
      PROVE  HasLeft(c)'
  <2>1. CASE Paused(c)
    <3>1. pause'[c] = pause[c] /\ at < pause[c] /\ pause[c] \in Nat /\ at \in Nat
      BY <2>1, <1>4, <1>2 DEF Paused, ChannelsTypeOK
    <3> QED BY <3>1, <1>8 DEF HasLeft
  <2>2. CASE ~Paused(c)
    <3>1. pause'[c] = 0 /\ (HasCapacity(c)' <=> HasCapacity(c))
      BY <2>2, <1>1, <1>4 DEF HasCapacity, Sequential
    <3>2. CASE ~HasCapacity(c)
      BY <3>1, <3>2 DEF HasLeft
    <3>3. CASE HasCapacity(c)
      <4>1. Pop(c, at) = {} /\ jobEta' = EtasPassed(c, at)
        BY <2>2, <3>3 DEF Leave
      <4>2. Due(c, at)' = Due(c, at) /\ queue[c] \subseteq Uuids /\ at \in Nat
            /\ \A v \in Uuids : jobEta[v] \in Nat
        BY <4>1, <1>1, <1>2, <1>6, <1>8 DEF Due, EtasPassed, ChannelsTypeOK
      <4>3. Postponed(c, at)' = Postponed(c, at) /\ \A v \in Postponed(c, at) : jobEta'[v] = jobEta[v]
        BY <4>1, <4>2, <1>1 DEF Postponed, EtasPassed
      <4>4. Earliest(Postponed(c, at))' = Earliest(Postponed(c, at))
        BY <4>3 DEF Earliest, First
      <4>5. Pop(c, at)' = Pop(c, at)
        BY <4>2, <4>4, <1>1 DEF Pop, WaitsForEta, First, Sequential
      <4>6. \A v \in queue[c] : jobEta'[v] = 0 \/ at < jobEta'[v]
        BY <4>1, <4>2 DEF EtasPassed, Due
      <4> QED BY <4>1, <4>5, <4>6, <3>1, <1>1, <1>8 DEF HasLeft
    <3> QED BY <3>2, <3>3
  <2> QED BY <2>1, <2>2
<1>9. NothingMissed'
  <2>1. CASE loop' = "run"
    <3>1. \A d \in Channels \ left' : HasLeft(d)'
      BY <2>1, <1>1, <1>3, <1>7, <1>8
    <3>2. \A d \in left' : Ancestors[d] \subseteq left'
      BY <1>1 DEF SleepInv, NothingMissed
    <3> QED BY <3>1, <3>2, <2>1 DEF NothingMissed
  <2>2. CASE loop' = "sleep"
    <3>1. c = Root /\ at' = at
      BY <2>2, <1>3
    <3>2. left \subseteq {Root}
      BY <3>1, <1>1, <1>2, ChannelsFormATree DEF ChannelsTypeOK
    <3> QED BY <3>1, <3>2, <2>2, <1>7, <1>8 DEF NothingMissed
  <2>3. CASE loop' = "read"
    BY <2>3 DEF NothingMissed
  <2> QED BY <2>1, <2>2, <2>3, <1>3
<1>10. SleepsToFirst'
  <2> SUFFICES ASSUME loop' = "sleep"
               PROVE  (\/ Times = {} /\ wakeup = 0
                       \/ wakeup \in Times /\ \A t \in Times : wakeup <= t)'
    BY DEF SleepsToFirst
  <2>1. Wait(WakeupTimes(pause', jobEta'))
    BY <1>3 DEF Leave
  <2>2. Times' = WakeupTimes(pause', jobEta')
    BY <1>1 DEF Times, WakeupTimes, HasCapacity, Sequential
  <2>3. notes = {}
    BY <2>1 DEF Wait
  <2> QED BY <2>1, <2>2, <2>3 DEF Wait
<1> QED BY <1>5, <1>9, <1>10 DEF SleepInv

\* Every step keeps what the sleep rests on.
LEMMA SleepInductive == ChannelsInv /\ SleepInv /\ [ChannelsNext]_channelVars => SleepInv'
<1> SUFFICES ASSUME ChannelsInv, SleepInv, [ChannelsNext]_channelVars
             PROVE  SleepInv'
  OBVIOUS
<1>1. 1 <= clock /\ clock \in Nat
  BY DEF SleepInv, PausesRun, ChannelsInv, ChannelsTypeOK
\* What the runner does while it reads: no pass is under way, and it is awake.
<1>2. ASSUME loop' = "read", UNCHANGED <<config, pause, last, clock>>
      PROVE  SleepInv'
  BY <1>2 DEF SleepInv, PausesRun, NothingMissed, SleepsToFirst, Throttled, RestsUntil
<1>3. CASE \E u \in Uuids : ProcessNotification(u)
  BY <1>3, <1>2 DEF ProcessNotification
<1>4. CASE \E u \in Uuids : Create(u) \/ Finish(u) \/ WritePending(u) \/ WriteCancelled(u)
  <2>1. UNCHANGED <<config, runner, clock>>
    BY <1>4 DEF Create, Finish, WritePending, WriteCancelled, Written
  <2> QED BY <2>1, <1>1, RunnerLetBe
<1>5. CASE \E c \in Channels : Leave(c)
  BY <1>5, SleepKeptByLeave
<1>6. CASE \E c \in Channels, u \in Uuids : Yield(c, u)
  BY <1>6, SleepKeptByYield
<1>7. CASE StartPass
  <2>1. PausesRun'
    BY <1>7, <1>1 DEF StartPass, SleepInv, PausesRun, Throttled, RestsUntil
  <2>2. NothingMissed'
    BY <1>7 DEF StartPass, NothingMissed
  <2>3. SleepsToFirst'
    BY <1>7 DEF StartPass, SleepsToFirst
  <2> QED BY <2>1, <2>2, <2>3 DEF SleepInv
<1>8. CASE WakeUp \/ Reinitialize
  BY <1>8, <1>2 DEF WakeUp, Reinitialize
<1>9. CASE Tick
  <2>1. UNCHANGED <<config, runner>> /\ 1 <= clock'
    BY <1>9, <1>1 DEF Tick
  <2> QED BY <2>1, RunnerLetBe
<1>10. CASE UNCHANGED channelVars
  <2>1. UNCHANGED <<config, runner>> /\ 1 <= clock'
    BY <1>10, <1>1 DEF channelVars
  <2> QED BY <2>1, RunnerLetBe
<1> QED BY <1>3, <1>4, <1>5, <1>6, <1>7, <1>8, <1>9, <1>10 DEF ChannelsNext

\* Of a set of channels, some are downstream of no other: here, of those that
\* satisfy a condition, given as their set.
LEMMA MostDownstream ==
    ASSUME NEW D \in SUBSET Channels, D # {}
    PROVE  \E d \in D : Ancestors[d] \cap D = {}
<1> DEFINE depth(d) == Cardinality(Ancestors[d])
           T == {depth(d) : d \in D}
<1>1. \A d \in Channels : IsFiniteSet(Ancestors[d]) /\ Cardinality(Ancestors[d]) \in Nat
  BY ChannelsFormATree, FS_Subset, FS_CardinalityType
<1>2. T \in SUBSET Nat /\ T # {}
  BY <1>1
<1>3. PICK d \in D : \A e \in D : depth(d) <= depth(e)
  <2> HIDE DEF depth
  <2>1. \E x \in T : \A y \in T : x <= y
    BY <1>2, LeastNumber
  <2> QED BY <2>1
<1>4. ASSUME NEW e \in Ancestors[d] \cap D
      PROVE  FALSE
  <2>1. e \in Channels /\ d \in Channels /\ Ancestors[e] \subseteq Ancestors[d] /\ e \notin Ancestors[e]
    BY ChannelsFormATree
  <2>2. Cardinality(Ancestors[e]) <= Cardinality(Ancestors[d]) /\ Cardinality(Ancestors[e]) # Cardinality(Ancestors[d])
    BY <2>1, <1>1, FS_Subset
  <2>3. Cardinality(Ancestors[d]) <= Cardinality(Ancestors[e])
    BY <1>3
  <2> QED BY <2>1, <2>2, <2>3, <1>1
<1> QED BY <1>3, <1>4

\* The times asked for, one by one: 0 is none of them, and the channels that can
\* get a job to the root ask for the end of their pause or for their etas.
LEMMA TimesAskedFor ==
    /\ 0 \notin Times
    /\ \A c \in Channels : HasCapacity(c) /\ (\A d \in Ancestors[c] : HasCapacity(d) /\ pause[d] = 0) =>
          /\ pause[c] # 0 => pause[c] \in Times
          /\ pause[c] = 0 => \A u \in queue[c] : jobEta[u] # 0 => jobEta[u] \in Times
<1> DEFINE asked == {c \in Channels : HasCapacity(c) /\ \A d \in Ancestors[c] : HasCapacity(d) /\ pause[d] = 0}
           times(c) == IF pause[c] # 0 THEN {pause[c]} ELSE {jobEta[u] : u \in queue[c]}
           wanted == {times(c) : c \in asked}
<1>1. Times = (UNION wanted) \ {0}
  BY DEF Times, WakeupTimes
<1>2. ASSUME NEW c \in asked, NEW t \in times(c), t # 0
      PROVE  t \in Times
  <2>1. times(c) \in wanted
    BY <1>2
  <2> HIDE DEF asked, times, wanted
  <2> QED BY <2>1, <1>1, <1>2
<1>3. 0 \notin Times
  <2> HIDE DEF wanted
  <2> QED BY <1>1
<1> QED BY <1>2, <1>3

\* While the runner sleeps to a time that has not come, no job could run.
LEMMA NoneCouldRun ==
    ASSUME ChannelsInv, SleepInv, loop = "sleep", wakeup # 0 => clock < wakeup,
           NEW u \in Uuids
    PROVE  ~CouldRun(u, clock)
<1> SUFFICES ASSUME NEW c \in Channels, u \in Due(c, clock), \A d \in Up(c) : OpenFor(u, d, clock)
             PROVE  FALSE
  BY DEF CouldRun
<1>1. ChannelsTypeOK /\ {at, clock, wakeup} \subseteq Nat /\ at <= clock
      /\ (\A v \in Uuids : jobEta[v] \in Nat) /\ (\A d \in Channels : pause[d] \in Nat /\ HasLeft(d))
      /\ Up(c) \subseteq Channels /\ u \in queue[c] /\ jobEta[u] <= clock /\ queue[c] \subseteq Uuids
  BY DEF ChannelsInv, ChannelsTypeOK, PassHasBegun, SleepInv, NothingMissed, Up, Due
\* Nothing that is asked for comes before the time set.
<1>2. \A t \in Times : clock < t
  <2>1. Times \subseteq Nat
    BY <1>1, WakeupTypes DEF ChannelsTypeOK, Times
  <2>2. \A t \in Times : wakeup <= t /\ wakeup \in Times
    BY DEF SleepInv, SleepsToFirst
  <2>3. 0 \notin Times
    BY TimesAskedFor
  <2> QED BY <2>1, <2>2, <2>3, <1>1
<1>3. CASE \E d \in Up(c) : pause[d] # 0
  <2> DEFINE D == {d \in Up(c) : pause[d] # 0}
  <2>1. PICK d \in D : Ancestors[d] \cap D = {}
    BY <1>1, <1>3, MostDownstream
  <2>2. d \in Channels /\ Ancestors[d] \subseteq Up(c) /\ pause[d] # 0
    BY <1>1, ChannelsFormATree DEF Up
  <2>3. \A e \in Ancestors[d] : HasCapacity(e) /\ pause[e] = 0
    BY <2>1, <2>2 DEF OpenFor
  <2>4. pause[d] \in Times
    BY <2>2, <2>3, TimesAskedFor DEF OpenFor
  <2>5. Throttled(d) /\ pause[d] = RestsUntil(d)
    BY <2>2 DEF SleepInv, PausesRun
  <2>6. RestsUntil(d) <= clock
    BY <2>2, <2>5 DEF OpenFor, Throttled, RestsUntil
  <2> QED BY <2>2, <2>4, <2>5, <2>6, <1>1, <1>2
<1>4. CASE \A d \in Up(c) : pause[d] = 0
  <2>1. pause[c] = 0 /\ HasCapacity(c) /\ \A d \in Ancestors[c] : HasCapacity(d) /\ pause[d] = 0
    BY <1>4 DEF Up, OpenFor
  <2>2. \A v \in queue[c] : jobEta[v] # 0 => jobEta[v] \in Times
    BY <2>1, TimesAskedFor
  <2>3. u \in Due(c, at)
    BY <2>2, <1>1, <1>2 DEF Due
  <2>4. Pop(c, at) = {}
    BY <2>1, <1>1 DEF HasLeft
  <2>5. \E v \in First(Due(c, at)) : TRUE
    <3> DEFINE T == {Rank[v] : v \in Due(c, at)}
    <3>1. T \in SUBSET Nat /\ T # {}
      BY <2>3, <1>1 DEF Due
    <3>2. \E x \in T : \A y \in T : x <= y
      BY <3>1, LeastNumber
    <3> QED BY <3>2 DEF First
  <2>6. WaitsForEta(c, at)
    BY <2>4, <2>5 DEF Pop
  <2>7. PICK e \in Earliest(Postponed(c, at)), v \in First(Due(c, at)) : Sequential(c) /\ Rank[e] < Rank[v]
    BY <2>6 DEF WaitsForEta
  <2>8. e \in queue[c] /\ at < jobEta[e] /\ e \in Uuids
    BY <1>1 DEF Earliest, First, Postponed, Due
  <2>9. e \in Postponed(c, clock)
    BY <2>2, <2>8, <1>1, <1>2 DEF Postponed, Due
  <2>10. Rank[v] <= Rank[u] /\ v \in Uuids
    BY <2>3, <2>7, <1>1 DEF First, Due
  <2>11. Rank[e] < Rank[u]
    BY <2>7, <2>8, <2>10
  <2> QED BY <2>7, <2>9, <2>11 DEF OpenFor, Up
<1> QED BY <1>3, <1>4

\* The runner sleeps neither past the time at which a job could run nor to a time
\* that has gone by when it goes to sleep: for any tree of channels with any
\* capacities, throttles and sequential channels, and any etas.
THEOREM NeverOversleeps == ChannelsSpec => []WakesInTime
<1>1. ChannelsInit => SleepInv
  BY DEF ChannelsInit, SleepInv, PausesRun, NothingMissed, SleepsToFirst
<1>2. ChannelsSpec => []SleepInv
  BY <1>1, SleepInductive, ChannelsInvHolds, PTL DEF ChannelsSpec
<1>3. ASSUME ChannelsInv, SleepInv, loop = "sleep", wakeup # 0
      PROVE  wakeup > at
  <2>1. wakeup \in Times
    BY <1>3 DEF SleepInv, SleepsToFirst
  <2>2. PICK c \in Channels : HasCapacity(c) /\ wakeup \in IF pause[c] # 0 THEN {pause[c]} ELSE {jobEta[u] : u \in queue[c]}
    BY <2>1 DEF Times, WakeupTimes
  <2>3. HasLeft(c)
    BY <1>3 DEF SleepInv, NothingMissed
  <2> QED BY <2>2, <2>3, <1>3 DEF HasLeft, ChannelsInv, ChannelsTypeOK
<1>4. ChannelsInv /\ SleepInv => WakesInTime
  BY <1>3, NoneCouldRun DEF WakesInTime
<1> QED BY <1>2, <1>4, ChannelsInvHolds, PTL
-----------------------------------------------------------------------------
(* Side by side *)

\* The graphs, the cron runners and the channels do side by side what each does alone.
THEOREM JobsAreIndependent == JobsSpec => Spec /\ GraphSpec /\ ChannelsSpec
<1>1. JobsInit => Init /\ GraphInit /\ ChannelsInit
  BY DEF JobsInit
<1>2. [JobsNext]_jobsVars => [Next]_vars
  BY DEF JobsNext, jobsVars
<1>3. [JobsNext]_jobsVars => [GraphNext]_graphVars
  BY DEF JobsNext, jobsVars
<1>4. [JobsNext]_jobsVars => [ChannelsNext]_channelVars
  BY DEF JobsNext, jobsVars
<1> QED BY <1>1, <1>2, <1>3, <1>4, PTL DEF JobsSpec, Spec, GraphSpec, ChannelsSpec
=============================================================================
