-------------------------- MODULE FilteringProofs --------------------------
(***************************************************************************)
(* What Retained leaves of a sequence, for every sequence and every set of *)
(* positions.  The induction over the positions is the least element of a  *)
(* set of naturals, which the library's well-founded orders give.          *)
(***************************************************************************)
EXTENDS Filtering, TLAPS, WellFoundedInduction

LEMMA LeastNumber ==
  ASSUME NEW T \in SUBSET Nat, T # {}
  PROVE  \E m \in T : \A n \in T : m <= n
<1>1. PICK m \in T : \A n \in T : ~(<<n, m>> \in OpToRel(<, Nat))
  BY NatLessThanWellFounded, WFMin
<1>2. ASSUME NEW n \in T PROVE m <= n
  <2>1. m \in Nat /\ n \in Nat /\ ~(n < m)
    BY <1>1 DEF OpToRel
  <2> QED BY <2>1
<1> QED BY <1>2

(* Induction up to N: a set that has 0 and with each number the next has them all. *)
LEMMA UpTo ==
  ASSUME NEW N \in Nat, NEW G, 0 \in G,
         \A n \in 0 .. N : n < N /\ n \in G => n + 1 \in G
  PROVE  0 .. N \subseteq G
<1> DEFINE T == {n \in 0 .. N : n \notin G}
<1> SUFFICES ASSUME T # {} PROVE FALSE
  OBVIOUS
<1>1. T \in SUBSET Nat
  OBVIOUS
<1>2. PICK m \in T : \A n \in T : m <= n
  <2> HIDE DEF T
  <2> QED BY <1>1, LeastNumber
<1>3. m \in 0 .. N /\ m \notin G /\ m # 0
  BY <1>2
<1>4. m - 1 \in 0 .. N /\ m - 1 < N /\ (m - 1) + 1 = m /\ ~(m <= m - 1)
  BY <1>3
<1>5. m - 1 \in G
  BY <1>2, <1>4
<1> QED
  BY <1>3, <1>4, <1>5

(* What the definition of upTo says of its value at n. *)
AtPosition(f, s, D, n) ==
    IF n = 0 THEN <<>> ELSE IF n \in D THEN Append(f[n - 1], s[n]) ELSE f[n - 1]

LEMMA Recursion ==
  ASSUME NEW s, NEW D, NEW N \in Nat
  PROVE  \E f : f = [n \in 0 .. N |-> AtPosition(f, s, D, n)]
<1> DEFINE G == {m \in 0 .. N : \E f : f = [n \in 0 .. m |-> AtPosition(f, s, D, n)]}
<1>1. 0 \in G
  <2> DEFINE f == [n \in 0 .. 0 |-> <<>>]
  <2>1. f = [n \in 0 .. 0 |-> AtPosition(f, s, D, n)]
    BY DEF AtPosition
  <2> QED BY <2>1
<1>2. ASSUME NEW m \in 0 .. N, m < N, m \in G PROVE m + 1 \in G
  <2>1. PICK f : f = [n \in 0 .. m |-> AtPosition(f, s, D, n)]
    BY <1>2
  <2> DEFINE g == [n \in 0 .. m + 1 |-> IF n = m + 1 THEN AtPosition(f, s, D, n) ELSE f[n]]
  <2>2. ASSUME NEW n \in 0 .. m + 1 PROVE g[n] = AtPosition(g, s, D, n)
    <3>1. n # 0 => n - 1 \in 0 .. m + 1 /\ n - 1 # m + 1 /\ g[n - 1] = f[n - 1]
      OBVIOUS
    <3>2. AtPosition(g, s, D, n) = AtPosition(f, s, D, n)
      <4> HIDE DEF g
      <4> QED BY <3>1 DEF AtPosition
    <3>3. n # m + 1 => n \in 0 .. m /\ f[n] = AtPosition(f, s, D, n)
      BY <2>1
    <3> QED BY <3>2, <3>3
  <2>3. g = [n \in 0 .. m + 1 |-> AtPosition(g, s, D, n)]
    BY <2>2
  <2>4. m + 1 \in 0 .. N
    BY <1>2
  <2> HIDE DEF g
  <2> QED BY <2>3, <2>4
<1> HIDE DEF G
<1>3. 0 .. N \subseteq G
  BY <1>1, <1>2, UpTo
<1> QED
  BY <1>3 DEF G

(* t holds the elements of s at the positions of D up to n: h says which is where. *)
Places(s, D, n, t, h) ==
    /\ h \in [1 .. Len(t) -> D \cap (1 .. n)]
    /\ \A j \in 1 .. Len(t) : t[j] = s[h[j]]
    /\ \A j, k \in 1 .. Len(t) : j < k => h[j] < h[k]
    /\ \A d \in D \cap (1 .. n) : \E j \in 1 .. Len(t) : h[j] = d

LEMMA PlacesNext ==
  ASSUME NEW S, NEW s \in Seq(S), NEW D, NEW n \in Nat, n < Len(s), NEW t \in Seq(S),
         NEW h, Places(s, D, n, t, h), NEW u,
         u = IF n + 1 \in D THEN Append(t, s[n + 1]) ELSE t
  PROVE  u \in Seq(S) /\ \E g : Places(s, D, n + 1, u, g)
<1>0. Len(t) \in Nat /\ n + 1 \in 1 .. Len(s) /\ s[n + 1] \in S
  OBVIOUS
<1>1. CASE n + 1 \notin D
  <2>1. D \cap (1 .. n + 1) = D \cap (1 .. n)
    BY <1>1
  <2> QED BY <1>1, <2>1 DEF Places
<1>2. CASE n + 1 \in D
  <2> DEFINE g == [j \in 1 .. Len(t) + 1 |-> IF j = Len(t) + 1 THEN n + 1 ELSE h[j]]
  <2>1. /\ u \in Seq(S) /\ Len(u) = Len(t) + 1 /\ u[Len(t) + 1] = s[n + 1]
        /\ \A j \in 1 .. Len(t) : u[j] = t[j]
    BY <1>0, <1>2
  <2>2. \A j \in 1 .. Len(t) : g[j] = h[j] /\ h[j] \in D /\ h[j] \in 1 .. n
    BY <1>0 DEF Places
  <2>3. g[Len(t) + 1] = n + 1 /\ g \in [1 .. Len(u) -> D \cap (1 .. n + 1)]
    <3>1. g[Len(t) + 1] = n + 1
      BY <1>0
    <3>2. n + 1 \in D \cap (1 .. n + 1)
      BY <1>0, <1>2
    <3>3. ASSUME NEW j \in 1 .. Len(t) PROVE g[j] \in D \cap (1 .. n + 1)
      <4>1. g[j] = h[j] /\ h[j] \in D /\ h[j] \in 1 .. n
        BY <2>2
      <4> HIDE DEF g
      <4> QED BY <4>1
    <3>4. \A j \in 1 .. Len(t) + 1 : j = Len(t) + 1 \/ j \in 1 .. Len(t)
      BY <1>0
    <3>5. DOMAIN g = 1 .. Len(u) /\ g = [j \in 1 .. Len(u) |-> g[j]]
      BY <2>1
    <3> HIDE DEF g
    <3>6. \A j \in 1 .. Len(u) : g[j] \in D \cap (1 .. n + 1)
      BY <2>1, <3>1, <3>2, <3>3, <3>4
    <3> QED BY <3>1, <3>5, <3>6
  <2> HIDE DEF g
  <2>4. ASSUME NEW j \in 1 .. Len(u) PROVE u[j] = s[g[j]]
    BY <1>0, <2>1, <2>2, <2>3 DEF Places
  <2>5. ASSUME NEW j \in 1 .. Len(u), NEW k \in 1 .. Len(u), j < k PROVE g[j] < g[k]
    <3>1. CASE k \in 1 .. Len(t)
      <4>1. j \in 1 .. Len(t)
        BY <1>0, <2>5, <3>1
      <4> QED BY <2>2, <2>5, <3>1, <4>1 DEF Places
    <3>2. CASE k = Len(t) + 1
      <4>1. j \in 1 .. Len(t)
        BY <1>0, <2>5, <3>2
      <4> QED BY <2>2, <2>3, <3>2, <4>1
    <3> QED BY <1>0, <2>1, <3>1, <3>2
  <2>6. ASSUME NEW d \in D \cap (1 .. n + 1) PROVE \E j \in 1 .. Len(u) : g[j] = d
    <3>1. CASE d = n + 1
      BY <1>0, <2>1, <2>3, <3>1
    <3>2. CASE d \in 1 .. n
      <4>1. PICK j \in 1 .. Len(t) : h[j] = d
        BY <3>2 DEF Places
      <4> QED BY <1>0, <2>1, <2>2, <4>1
    <3> QED BY <3>1, <3>2
  <2>7. Places(s, D, n + 1, u, g)
    BY <2>3, <2>4, <2>5, <2>6 DEF Places
  <2> QED BY <2>1, <2>7
<1> QED BY <1>1, <1>2

(* What is left: the elements at the positions of D, all of them, in their order, once each. *)
LEMMA RetainedPlaces ==
  ASSUME NEW S, NEW s \in Seq(S), NEW D
  PROVE  Retained(s, D) \in Seq(S) /\ \E h : Places(s, D, Len(s), Retained(s, D), h)
<1> DEFINE f == CHOOSE f : f = [n \in 0 .. Len(s) |-> AtPosition(f, s, D, n)]
<1>0. Len(s) \in Nat
  OBVIOUS
<1>1. f = [n \in 0 .. Len(s) |-> AtPosition(f, s, D, n)]
  BY <1>0, Recursion
<1>2. Retained(s, D) = f[Len(s)]
  BY DEF Retained, AtPosition
<1> HIDE DEF f
<1>3. /\ f[0] = <<>>
      /\ \A n \in 0 .. Len(s) : n < Len(s) =>
            f[n + 1] = IF n + 1 \in D THEN Append(f[n], s[n + 1]) ELSE f[n]
  <2>1. f[0] = <<>>
    BY <1>0, <1>1 DEF AtPosition
  <2>2. ASSUME NEW n \in 0 .. Len(s), n < Len(s)
        PROVE  f[n + 1] = IF n + 1 \in D THEN Append(f[n], s[n + 1]) ELSE f[n]
    <3>1. n + 1 \in 0 .. Len(s) /\ n + 1 # 0 /\ (n + 1) - 1 = n
      BY <1>0, <2>2
    <3> QED BY <1>1, <3>1 DEF AtPosition
  <2> QED BY <2>1, <2>2
<1> DEFINE G == {n \in 0 .. Len(s) : f[n] \in Seq(S) /\ \E h : Places(s, D, n, f[n], h)}
<1>4. 0 \in G
  <2>1. Places(s, D, 0, <<>>, <<>>)
    BY DEF Places
  <2>2. f[0] \in Seq(S) /\ \E h : Places(s, D, 0, f[0], h)
    BY <1>3, <2>1
  <2> QED BY <1>0, <2>2
<1>5. ASSUME NEW n \in 0 .. Len(s), n < Len(s), n \in G PROVE n + 1 \in G
  <2>1. PICK h : Places(s, D, n, f[n], h)
    BY <1>5
  <2>2. f[n] \in Seq(S) /\ n \in Nat /\ n + 1 \in 0 .. Len(s)
    BY <1>0, <1>5
  <2>3. f[n + 1] = IF n + 1 \in D THEN Append(f[n], s[n + 1]) ELSE f[n]
    BY <1>3, <1>5
  <2>4. f[n + 1] \in Seq(S) /\ \E g : Places(s, D, n + 1, f[n + 1], g)
    BY <1>5, <2>1, <2>2, <2>3, PlacesNext
  <2> QED BY <2>2, <2>4
<1> HIDE DEF G
<1>6. 0 .. Len(s) \subseteq G
  <2> DEFINE N == Len(s)
  <2>1. N \in Nat /\ \A n \in 0 .. N : n < N /\ n \in G => n + 1 \in G
    BY <1>0, <1>5
  <2> HIDE DEF N
  <2>2. 0 .. N \subseteq G
    BY <1>4, <2>1, UpTo
  <2> QED BY <2>2 DEF N
<1> QED BY <1>0, <1>2, <1>6 DEF G

(* The same without the places: what is left was there, what is kept is left, and an element   *)
(* that is left before another one was there before it.                                         *)
LEMMA RetainedFacts ==
  ASSUME NEW S, NEW s \in Seq(S), NEW D, NEW t, t = Retained(s, D)
  PROVE  /\ t \in Seq(S)
         /\ \A j \in DOMAIN t : \E k \in DOMAIN s : k \in D /\ t[j] = s[k]
         /\ \A k \in DOMAIN s : k \in D => \E j \in DOMAIN t : t[j] = s[k]
         /\ \A i, j \in DOMAIN t : i < j =>
               \E k, l \in DOMAIN s : k < l /\ {k, l} \subseteq D /\ t[i] = s[k] /\ t[j] = s[l]
<1>1. t \in Seq(S) /\ DOMAIN t = 1 .. Len(t) /\ DOMAIN s = 1 .. Len(s)
  BY RetainedPlaces
<1>2. PICK h : Places(s, D, Len(s), t, h)
  BY RetainedPlaces
<1>3. /\ \A j \in DOMAIN t : h[j] \in D /\ h[j] \in DOMAIN s /\ t[j] = s[h[j]]
      /\ \A i, j \in DOMAIN t : i < j => h[i] < h[j]
      /\ \A k \in DOMAIN s : k \in D => \E j \in DOMAIN t : h[j] = k
  BY <1>1, <1>2 DEF Places
<1>4. \A i, j \in DOMAIN t : i < j =>
         \E k, l \in DOMAIN s : k < l /\ {k, l} \subseteq D /\ t[i] = s[k] /\ t[j] = s[l]
  <2> SUFFICES ASSUME NEW i \in DOMAIN t, NEW j \in DOMAIN t, i < j
               PROVE  \E k, l \in DOMAIN s : k < l /\ {k, l} \subseteq D /\ t[i] = s[k] /\ t[j] = s[l]
    OBVIOUS
  <2>1. h[i] \in DOMAIN s /\ h[j] \in DOMAIN s /\ h[i] < h[j] /\ {h[i], h[j]} \subseteq D
        /\ t[i] = s[h[i]] /\ t[j] = s[h[j]]
    BY <1>3
  <2> QED BY <2>1, Zenon
<1>5. \A j \in DOMAIN t : \E k \in DOMAIN s : k \in D /\ t[j] = s[k]
  BY <1>3, Zenon
<1>6. ASSUME NEW k \in DOMAIN s, k \in D PROVE \E j \in DOMAIN t : t[j] = s[k]
  <2>1. PICK j \in DOMAIN t : h[j] = k
    BY <1>3, <1>6
  <2>2. t[j] = s[k]
    BY <1>3, <2>1
  <2> QED BY <2>2
<1> QED
  BY <1>1, <1>4, <1>5, <1>6

LEMMA NothingRetained == ASSUME NEW D PROVE Retained(<<>>, D) = <<>>
<1> DEFINE s == <<>>
           t == Retained(s, D)
<1>1. s \in Seq({}) /\ DOMAIN s = {}
  OBVIOUS
<1> HIDE DEF s
<1>2. t \in Seq({}) /\ \A j \in DOMAIN t : \E k \in DOMAIN s : k \in D /\ t[j] = s[k]
  BY <1>1, RetainedFacts
<1> HIDE DEF t
<1>3. t = <<>>
  BY <1>1, <1>2
<1> QED BY <1>3 DEF t, s
=============================================================================
