-------------------------- MODULE NodeEditorProofs --------------------------
(***************************************************************************)
(* The editor with any number of nodes, ports and links.                   *)
(*                                                                         *)
(* Two loops of the code run through a vector of links: deleteNodeByUID()  *)
(* erases from a copy of it, addContainer() divides it. They are recursive *)
(* functions here, and what they compute is found by induction on the index*)
(* (lemma Inductively, about a set of naturals). What matters is that each *)
(* link that is left, or gone, is one that was there, and none is there    *)
(* that was not: a link that is gone and still shown was shown twice.      *)
(***************************************************************************)
EXTENDS NodeEditor, TLAPS, SequenceTheorems, WellFoundedInduction

(* Links are made between nodes that exist, and nodes are born once.       *)
JoinsTheBorn ==
    \A p \in Shown(links) :
        home[Owner[p[1]]] # Unborn /\ home[Owner[p[2]]] # Unborn

LinksOK == links \in [Container -> Seq(Pair)]

IInv ==
    /\ TypeOK /\ LinksOK /\ JoinsTheBorn /\ Twice(links) \subseteq doubled
    /\ ShownIsWired /\ WiredIsShown

-----------------------------------------------------------------------------
(* Induction up to n, and that a function defined by it exists.            *)

LEMMA Inductively ==
    ASSUME NEW n \in Nat, NEW T, 0 \in T, \A k \in 0..(n - 1) : k \in T => k + 1 \in T
    PROVE  0..n \subseteq T
<1> DEFINE B == 0..n \ T
<1> SUFFICES ASSUME B # {}
             PROVE  FALSE
  OBVIOUS
<1>1. B \subseteq Nat
  OBVIOUS
<1>2. PICK x \in B : \A y \in B : ~ (<<y, x>> \in OpToRel(<, Nat))
  BY <1>1, NatLessThanWellFounded, WFMin
<1>3. x # 0 /\ x \in 0..n
  BY <1>2
<1>4. x - 1 \in 0..(n - 1) /\ (x - 1) + 1 = x /\ x - 1 < x
  BY <1>3
<1>5. x - 1 \in B
  <2>1. x - 1 \in T => x \in T
    BY <1>4
  <2>2. x \notin T
    BY <1>2
  <2>3. x - 1 \in 0..n
    BY <1>3
  <2> QED
    BY <2>1, <2>2, <2>3
<1>6. <<x - 1, x>> \in Nat \X Nat /\ <<x - 1, x>>[1] = x - 1 /\ <<x - 1, x>>[2] = x
  BY <1>3, <1>4
<1>7. <<x - 1, x>> \in OpToRel(<, Nat)
  BY <1>4, <1>6 DEF OpToRel
<1> QED
  BY <1>2, <1>5, <1>7

Grown(g, n, b, F) == g = [k \in 0..n |-> IF k = 0 THEN b ELSE F[<<g[k - 1], k>>]]

LEMMA Recursively ==
    ASSUME NEW n \in Nat, NEW b, NEW F
    PROVE  \E g : Grown(g, n, b, F)
<1> DEFINE T == {i \in 0..n : \E g : g = [k \in 0..i |-> IF k = 0 THEN b ELSE F[<<g[k - 1], k>>]]}
<1>1. 0 \in T
  <2> DEFINE g == [k \in 0..0 |-> b]
  <2>1. g = [k \in 0..0 |-> IF k = 0 THEN b ELSE F[<<g[k - 1], k>>]]
    OBVIOUS
  <2> HIDE DEF g
  <2>2. \E f : f = [k \in 0..0 |-> IF k = 0 THEN b ELSE F[<<f[k - 1], k>>]]
    BY <2>1
  <2> QED
    BY <2>2
<1>2. ASSUME NEW i \in 0..(n - 1), i \in T
      PROVE  i + 1 \in T
  <2>1. PICK g : g = [k \in 0..i |-> IF k = 0 THEN b ELSE F[<<g[k - 1], k>>]]
    BY <1>2
  <2> DEFINE h == [k \in 0..(i + 1) |-> IF k = i + 1 THEN F[<<g[i], i + 1>>] ELSE g[k]]
             e == [k \in 0..(i + 1) |-> IF k = 0 THEN b ELSE F[<<h[k - 1], k>>]]
  <2>2. ASSUME NEW k \in 0..(i + 1)
        PROVE  h[k] = e[k]
    <3>1. CASE k = i + 1
      <4>1. k - 1 = i /\ i \in 0..(i + 1) /\ i # i + 1 /\ k # 0
        BY <3>1
      <4>2. h[k - 1] = g[i]
        BY <4>1
      <4> QED
        BY <3>1, <4>1, <4>2
    <3>2. CASE k # i + 1 /\ k # 0
      <4>1. k - 1 \in 0..(i + 1) /\ k - 1 # i + 1 /\ k \in 0..i
        BY <3>2
      <4>2. h[k - 1] = g[k - 1] /\ h[k] = g[k]
        BY <3>2, <4>1
      <4>3. g[k] = F[<<g[k - 1], k>>]
        BY <2>1, <3>2, <4>1
      <4> QED
        BY <3>2, <4>2, <4>3
    <3>3. CASE k = 0
      <4>1. 0 \in 0..i /\ 0 # i + 1
        OBVIOUS
      <4>2. g[0] = b
        BY <2>1, <4>1
      <4> QED
        BY <3>3, <4>1, <4>2
    <3> QED
      BY <3>1, <3>2, <3>3
  <2>3. h = e
    <3>1. h = [k \in 0..(i + 1) |-> h[k]] /\ e = [k \in 0..(i + 1) |-> e[k]]
      OBVIOUS
    <3> HIDE DEF h, e
    <3> QED
      BY <2>2, <3>1
  <2>4. i + 1 \in 0..n
    OBVIOUS
  <2> QED
    BY <2>3, <2>4
<1>3. n \in 0..n /\ 0..n \subseteq T
  <2> HIDE DEF T
  <2> QED
    BY <1>1, <1>2, Inductively
<1> QED
  BY <1>3 DEF Grown

-----------------------------------------------------------------------------
LEMMA Removed ==
    ASSUME NEW S, NEW s \in Seq(S), NEW i \in 1..Len(s)
    PROVE  /\ RemoveAt(s, i) \in Seq(S)
           /\ Len(RemoveAt(s, i)) = Len(s) - 1
           /\ \A j \in 1..(Len(s) - 1) : RemoveAt(s, i)[j] =
                  IF j < i THEN s[j] ELSE s[j + 1]
<1> DEFINE a == SubSeq(s, 1, i - 1)
           b == SubSeq(s, i + 1, Len(s))
<1>1. Len(s) \in Nat /\ \A j \in 1..Len(s) : s[j] \in S
  OBVIOUS
<1>2. a \in Seq(S) /\ Len(a) = i - 1 /\ \A j \in 1..(i - 1) : a[j] = s[j]
  BY <1>1, SubSeqProperties
<1>3. /\ b \in Seq(S) /\ Len(b) = Len(s) - i
      /\ \A j \in 1..(Len(s) - i) : b[j] = s[i + j]
  BY <1>1, SubSeqProperties
<1> HIDE DEF a, b
<1>4. /\ a \o b \in Seq(S) /\ Len(a \o b) = Len(s) - 1
      /\ \A j \in 1..(Len(s) - 1) : (a \o b)[j] =
             IF j < i THEN a[j] ELSE b[j - i + 1]
  <2>1. /\ a \o b \in Seq(S) /\ Len(a \o b) = Len(a) + Len(b)
        /\ \A j \in 1..(Len(a) + Len(b)) : (a \o b)[j] =
               IF j <= Len(a) THEN a[j] ELSE b[j - Len(a)]
    BY <1>2, <1>3, ConcatProperties
  <2>2. Len(a) + Len(b) = Len(s) - 1 /\ \A j \in Int : j - Len(a) = j - i + 1
    BY <1>1, <1>2, <1>3
  <2>3. \A j \in Int : j <= Len(a) <=> j < i
    BY <1>2
  <2> QED
    BY <2>1, <2>2, <2>3
<1>5. RemoveAt(s, i) = a \o b
  BY DEF RemoveAt, a, b
<1>6. ASSUME NEW j \in 1..(Len(s) - 1)
      PROVE  (a \o b)[j] = IF j < i THEN s[j] ELSE s[j + 1]
  <2>1. CASE j < i
    BY <1>1, <1>2, <1>4, <2>1
  <2>2. CASE ~ (j < i)
    <3>1. j - i + 1 \in 1..(Len(s) - i) /\ i + (j - i + 1) = j + 1
      BY <1>1, <2>2
    <3> QED
      BY <1>3, <1>4, <2>2, <3>1
  <2> QED
    BY <2>1, <2>2
<1> QED
  BY <1>4, <1>5, <1>6


(* s holds what L has at the indexes of K, each once.                      *)
Sub(s, L, K) ==
    \E m \in [1..Len(s) -> K] :
        /\ \A i, j \in 1..Len(s) : m[i] = m[j] => i = j
        /\ \A k \in K : \E i \in 1..Len(s) : m[i] = k
        /\ \A i \in 1..Len(s) : s[i] = L[m[i]]

LEMMA SubAll == ASSUME NEW X, NEW L \in Seq(X) PROVE Sub(L, L, DOMAIN L)
<1> DEFINE m == [i \in 1..Len(L) |-> i]
<1>1. m \in [1..Len(L) -> DOMAIN L] /\ \A i \in 1..Len(L) : m[i] = i
  OBVIOUS
<1>2. DOMAIN L = 1..Len(L)
  OBVIOUS
<1> HIDE DEF m
<1> QED
  BY <1>1, <1>2 DEF Sub

LEMMA RemovedSub ==
    ASSUME NEW X, NEW L \in Seq(X), NEW k \in 1..Len(L)
    PROVE  RemoveAt(L, k) \in Seq(X) /\ Sub(RemoveAt(L, k), L, (DOMAIN L) \ {k})
<1> DEFINE r == RemoveAt(L, k)
           m == [j \in 1..Len(r) |-> IF j < k THEN j ELSE j + 1]
<1>1. /\ r \in Seq(X) /\ Len(r) = Len(L) - 1
      /\ \A j \in 1..(Len(L) - 1) : r[j] = IF j < k THEN L[j] ELSE L[j + 1]
  BY Removed
<1> HIDE DEF r
<1>2. Len(L) \in Nat /\ DOMAIN L = 1..Len(L)
  OBVIOUS
<1>3. m \in [1..Len(r) -> (DOMAIN L) \ {k}]
  BY <1>1, <1>2
<1>4. \A i, j \in 1..Len(r) : m[i] = m[j] => i = j
  BY <1>1, <1>2
<1>5. \A l \in (DOMAIN L) \ {k} : \E i \in 1..Len(r) : m[i] = l
  <2> SUFFICES ASSUME NEW l \in (DOMAIN L) \ {k}
               PROVE  \E i \in 1..Len(r) : m[i] = l
    OBVIOUS
  <2>1. CASE l < k
    <3>1. l \in 1..Len(r)
      BY <1>1, <1>2, <2>1
    <3>2. m[l] = l
      BY <2>1, <3>1
    <3> QED
      BY <3>1, <3>2
  <2>2. CASE ~(l < k)
    <3>1. l - 1 \in 1..Len(r) /\ ~(l - 1 < k) /\ (l - 1) + 1 = l
      BY <1>1, <1>2, <2>2
    <3>2. m[l - 1] = l
      BY <3>1
    <3> QED
      BY <3>1, <3>2
  <2> QED
    BY <2>1, <2>2
<1>6. \A i \in 1..Len(r) : r[i] = L[m[i]]
  BY <1>1, <1>2
<1> HIDE DEF m
<1> QED
  BY <1>1, <1>3, <1>4, <1>5, <1>6 DEF Sub, r

LEMMA SubWithout ==
    ASSUME NEW X, NEW L, NEW K, NEW s \in Seq(X), Sub(s, L, K), NEW i \in 1..Len(s)
    PROVE  /\ RemoveAt(s, i) \in Seq(X)
           /\ \E k \in K : s[i] = L[k] /\ Sub(RemoveAt(s, i), L, K \ {k})
<1> DEFINE r == RemoveAt(s, i)
<1>0. Len(s) \in Nat
  OBVIOUS
<1>1. /\ r \in Seq(X) /\ Len(r) = Len(s) - 1
      /\ \A j \in 1..(Len(s) - 1) : r[j] = IF j < i THEN s[j] ELSE s[j + 1]
  BY Removed
<1> HIDE DEF r
<1>2. PICK m \in [1..Len(s) -> K] :
        /\ \A h, j \in 1..Len(s) : m[h] = m[j] => h = j
        /\ \A k \in K : \E h \in 1..Len(s) : m[h] = k
        /\ \A h \in 1..Len(s) : s[h] = L[m[h]]
  BY DEF Sub
<1> DEFINE Was(j) == IF j < i THEN j ELSE j + 1
           w == [j \in 1..Len(r) |-> m[Was(j)]]
<1>3. \A j \in 1..Len(r) : Was(j) \in 1..Len(s) /\ Was(j) # i /\ r[j] = s[Was(j)]
  BY <1>0, <1>1
<1>4. \A h, j \in 1..Len(r) : Was(h) = Was(j) => h = j
  BY <1>0, <1>1
<1>5. \A h \in 1..Len(s) : h # i => \E j \in 1..Len(r) : Was(j) = h
  <2> SUFFICES ASSUME NEW h \in 1..Len(s), h # i
               PROVE  \E j \in 1..Len(r) : Was(j) = h
    OBVIOUS
  <2>1. CASE h < i
    <3>1. h \in 1..Len(r)
      BY <1>0, <1>1, <2>1
    <3> QED
      BY <2>1, <3>1
  <2>2. CASE ~(h < i)
    <3>1. h - 1 \in 1..Len(r) /\ Was(h - 1) = h
      BY <1>0, <1>1, <2>2
    <3> QED
      BY <3>1
  <2> QED
    BY <2>1, <2>2
<1> HIDE DEF Was
<1>6. w \in [1..Len(r) -> K \ {m[i]}]
  BY <1>2, <1>3
<1>7. \A h, j \in 1..Len(r) : w[h] = w[j] => h = j
  BY <1>2, <1>3, <1>4
<1>8. \A k \in K \ {m[i]} : \E j \in 1..Len(r) : w[j] = k
  BY <1>2, <1>5
<1>9. \A j \in 1..Len(r) : r[j] = L[w[j]]
  BY <1>2, <1>3
<1> HIDE DEF w
<1>10. Sub(r, L, K \ {m[i]})
  BY <1>6, <1>7, <1>8, <1>9 DEF Sub
<1> QED
  BY <1>1, <1>2, <1>10 DEF r

LEMMA SubWith ==
    ASSUME NEW X, NEW L \in Seq(X), NEW K, NEW s \in Seq(X), Sub(s, L, K),
           NEW k \in DOMAIN L, k \notin K
    PROVE  Append(s, L[k]) \in Seq(X) /\ Sub(Append(s, L[k]), L, K \union {k})
<1>0. Len(s) \in Nat /\ L[k] \in X
  OBVIOUS
<1> DEFINE r == Append(s, L[k])
<1>1. /\ r \in Seq(X) /\ Len(r) = Len(s) + 1 /\ r[Len(s) + 1] = L[k]
      /\ \A j \in 1..Len(s) : r[j] = s[j]
  BY <1>0
<1> HIDE DEF r
<1>2. PICK m \in [1..Len(s) -> K] :
        /\ \A h, j \in 1..Len(s) : m[h] = m[j] => h = j
        /\ \A l \in K : \E h \in 1..Len(s) : m[h] = l
        /\ \A h \in 1..Len(s) : s[h] = L[m[h]]
  BY DEF Sub
<1> DEFINE w == [j \in 1..Len(r) |-> IF j = Len(s) + 1 THEN k ELSE m[j]]
<1>3. /\ Len(s) + 1 \in 1..Len(r) /\ 1..Len(s) \subseteq 1..Len(r)
      /\ Len(s) + 1 \notin 1..Len(s)
      /\ \A j \in 1..Len(r) : j = Len(s) + 1 \/ j \in 1..Len(s)
  BY <1>0, <1>1
<1>4. w[Len(s) + 1] = k /\ \A j \in 1..Len(s) : w[j] = m[j] /\ m[j] \in K
  BY <1>2, <1>3
<1>5. w \in [1..Len(r) -> K \union {k}]
  BY <1>2, <1>3
<1> HIDE DEF w
<1>6. \A h, j \in 1..Len(r) : w[h] = w[j] => h = j
  BY <1>2, <1>3, <1>4
<1>7. \A l \in K \union {k} : \E h \in 1..Len(r) : w[h] = l
  BY <1>2, <1>3, <1>4
<1>8. \A j \in 1..Len(r) : r[j] = L[w[j]]
  BY <1>1, <1>2, <1>3, <1>4
<1> QED
  BY <1>1, <1>5, <1>6, <1>7, <1>8 DEF Sub, r

-----------------------------------------------------------------------------
(* The loop of addContainer().                                             *)

Picking(f, L, S) ==
    f = [k \in 0..Len(L) |-> IF k = 0 THEN <<>>
             ELSE IF k \in S THEN Append(f[k - 1], L[k]) ELSE f[k - 1]]

LEMMA PickingExists ==
    ASSUME NEW X, NEW L \in Seq(X), NEW S
    PROVE  \E f : Picking(f, L, S) /\ Picked(L, S) = f[Len(L)]
<1> DEFINE n == Len(L)
           F == [q \in Seq(X) \X (1..n) |-> IF q[2] \in S THEN Append(q[1], L[q[2]]) ELSE q[1]]
<1>1. n \in Nat /\ \A k \in 1..n : L[k] \in X
  OBVIOUS
<1>2. PICK g : g = [k \in 0..n |-> IF k = 0 THEN <<>> ELSE F[<<g[k - 1], k>>]]
  <2> HIDE DEF F, n
  <2>1. PICK g : Grown(g, n, <<>>, F)
    BY <1>1, Recursively
  <2> QED
    BY <2>1 DEF Grown
<1>3. \A s \in Seq(X), k \in 1..n :
          /\ F[<<s, k>>] = IF k \in S THEN Append(s, L[k]) ELSE s
          /\ F[<<s, k>>] \in Seq(X)
  <2> SUFFICES ASSUME NEW s \in Seq(X), NEW k \in 1..n
               PROVE  /\ F[<<s, k>>] = IF k \in S THEN Append(s, L[k]) ELSE s
                      /\ F[<<s, k>>] \in Seq(X)
    OBVIOUS
  <2>1. <<s, k>> \in Seq(X) \X (1..n) /\ <<s, k>>[1] = s /\ <<s, k>>[2] = k
    OBVIOUS
  <2>2. F[<<s, k>>] = IF k \in S THEN Append(s, L[k]) ELSE s
    BY <2>1
  <2> HIDE DEF F
  <2>3. Append(s, L[k]) \in Seq(X)
    BY <1>1
  <2> QED
    BY <2>2, <2>3
<1> HIDE DEF F, n
<1> DEFINE T == {k \in 0..n : g[k] \in Seq(X)}
<1>4. 0..n \subseteq T
  <2>1. 0 \in T
    BY <1>1, <1>2
  <2>2. ASSUME NEW k \in 0..(n - 1), k \in T
        PROVE  k + 1 \in T
    <3>1. k + 1 \in 0..n /\ k + 1 # 0 /\ (k + 1) - 1 = k /\ k + 1 \in 1..n
      BY <1>1
    <3>2. g[k + 1] = F[<<g[k], k + 1>>]
      BY <1>2, <3>1
    <3> QED
      BY <1>3, <2>2, <3>1, <3>2
  <2> HIDE DEF T
  <2> QED
    BY <1>1, <2>1, <2>2, Inductively
<1> DEFINE h == [k \in 0..n |-> IF k = 0 THEN <<>>
                     ELSE IF k \in S THEN Append(g[k - 1], L[k]) ELSE g[k - 1]]
<1>5. ASSUME NEW k \in 0..n
      PROVE  g[k] = h[k]
  <2>1. CASE k = 0
    BY <1>2, <2>1
  <2>2. CASE k # 0
    <3>1. k - 1 \in 0..n /\ k \in 1..n
      BY <1>1, <2>2
    <3>2. g[k - 1] \in Seq(X)
      BY <1>4, <3>1
    <3>3. g[k] = F[<<g[k - 1], k>>]
      BY <1>2, <2>2
    <3> QED
      BY <1>3, <2>2, <3>1, <3>2, <3>3
  <2> QED
    BY <2>1, <2>2
<1>6. g = h
  <2>1. g = [k \in 0..n |-> g[k]]
    <3> DEFINE e(k) == IF k = 0 THEN <<>> ELSE F[<<g[k - 1], k>>]
    <3>1. g = [k \in 0..n |-> e(k)]
      BY <1>2
    <3> HIDE DEF e
    <3> QED
      BY <3>1
  <2>2. h = [k \in 0..n |-> h[k]]
    OBVIOUS
  <2> HIDE DEF h
  <2> QED
    BY <1>5, <2>1, <2>2
<1>7. Picking(g, L, S)
  BY <1>6 DEF Picking, n
<1>8. Picked(L, S) = (CHOOSE f : Picking(f, L, S))[Len(L)]
  BY DEF Picked, Picking
<1> QED
  BY <1>7, <1>8

LEMMA PickedIs ==
    ASSUME NEW X, NEW L \in Seq(X), NEW S \in SUBSET DOMAIN L
    PROVE  Picked(L, S) \in Seq(X) /\ Sub(Picked(L, S), L, S)
<1>1. PICK f : Picking(f, L, S) /\ Picked(L, S) = f[Len(L)]
  BY PickingExists
<1>2. Len(L) \in Nat /\ DOMAIN L = 1..Len(L)
  OBVIOUS
<1>3. f[0] = <<>> /\ \A k \in 1..Len(L) :
          f[k] = IF k \in S THEN Append(f[k - 1], L[k]) ELSE f[k - 1]
  <2> DEFINE e(k) == IF k = 0 THEN <<>>
                     ELSE IF k \in S THEN Append(f[k - 1], L[k]) ELSE f[k - 1]
  <2>1. f = [k \in 0..Len(L) |-> e(k)]
    BY <1>1 DEF Picking
  <2>2. 0 \in 0..Len(L) /\ \A k \in 1..Len(L) : k \in 0..Len(L) /\ k # 0
    BY <1>2
  <2> HIDE DEF e
  <2>3. f[0] = e(0) /\ \A k \in 1..Len(L) : f[k] = e(k)
    BY <2>1, <2>2
  <2> QED
    BY <2>2, <2>3 DEF e
<1> DEFINE T == {k \in 0..Len(L) : f[k] \in Seq(X) /\ Sub(f[k], L, S \cap (1..k))}
<1>4. 0 \in T
  <2>1. f[0] \in Seq(X) /\ Len(f[0]) = 0 /\ S \cap (1..0) = {}
    BY <1>3
  <2>3. 1..Len(f[0]) = {}
    BY <2>1
  <2>2. PICK m : m \in [1..Len(f[0]) -> S \cap (1..0)]
    <3> DEFINE w == [i \in 1..Len(f[0]) |-> i]
    <3>1. w \in [1..Len(f[0]) -> S \cap (1..0)]
      BY <2>3
    <3> HIDE DEF w
    <3> QED
      BY <3>1
  <2>4. Sub(f[0], L, S \cap (1..0))
    BY <2>1, <2>2, <2>3 DEF Sub
  <2> QED
    BY <1>2, <2>1, <2>4
<1>5. ASSUME NEW k \in 0..(Len(L) - 1), k \in T
      PROVE  k + 1 \in T
  <2>1. k + 1 \in 1..Len(L) /\ (k + 1) - 1 = k /\ k + 1 \in 0..Len(L)
        /\ k + 1 \notin 1..k
    BY <1>2
  <2>2. f[k + 1] = IF k + 1 \in S THEN Append(f[k], L[k + 1]) ELSE f[k]
    BY <1>3, <2>1
  <2>3. CASE k + 1 \in S
    <3>1. (S \cap (1..k)) \union {k + 1} = S \cap (1..(k + 1))
      BY <1>2, <2>3
    <3>2. k + 1 \in DOMAIN L /\ k + 1 \notin S \cap (1..k)
      BY <1>2, <2>1
    <3>3. f[k] \in Seq(X) /\ Sub(f[k], L, S \cap (1..k))
      BY <1>5
    <3>4. /\ Append(f[k], L[k + 1]) \in Seq(X)
          /\ Sub(Append(f[k], L[k + 1]), L, (S \cap (1..k)) \union {k + 1})
      BY <3>2, <3>3, SubWith
    <3> QED
      BY <2>1, <2>2, <2>3, <3>1, <3>4
  <2>4. CASE k + 1 \notin S
    <3>1. S \cap (1..k) = S \cap (1..(k + 1))
      BY <1>2, <2>4
    <3> QED
      BY <1>5, <2>1, <2>2, <2>4, <3>1
  <2> QED
    BY <2>3, <2>4
<1>6. Len(L) \in T
  <2> HIDE DEF T
  <2>1. 0..Len(L) \subseteq T
    BY <1>2, <1>4, <1>5, Inductively
  <2> QED
    BY <1>2, <2>1
<1>7. S \cap (1..Len(L)) = S
  BY <1>2
<1> QED
  BY <1>1, <1>6, <1>7
-----------------------------------------------------------------------------
(* The loop of deleteNodeByUID().                                          *)

Copies(X) == [left : Seq(X), gone : SUBSET X, over : BOOLEAN]

(* Every link of L is left or gone, and nothing else is.                   *)
Parted(S, L) ==
    \E K \in SUBSET DOMAIN L :
        Sub(S.left, L, K) /\ S.gone = {L[i] : i \in (DOMAIN L) \ K}

LEMMA EraseAtParts ==
    ASSUME NEW X, NEW L \in Seq(X), NEW S \in Copies(X), NEW k \in Nat \ {0}
    PROVE  EraseAt(S, k) \in Copies(X) /\ (Parted(S, L) => Parted(EraseAt(S, k), L))
<1>1. S.left \in Seq(X) /\ S.gone \in SUBSET X /\ S.over \in BOOLEAN
  BY DEF Copies
<1>2. Len(S.left) \in Nat
  BY <1>1
<1>3. CASE k > Len(S.left)
  <2>1. EraseAt(S, k) = [S EXCEPT !.over = TRUE]
    BY <1>3 DEF EraseAt
  <2>2. /\ EraseAt(S, k) \in Copies(X)
        /\ EraseAt(S, k).left = S.left /\ EraseAt(S, k).gone = S.gone
    BY <2>1 DEF Copies
  <2> QED
    BY <2>2 DEF Parted
<1>4. CASE ~(k > Len(S.left))
  <2> DEFINE s == S.left
             r == RemoveAt(s, k)
  <2>1. k \in 1..Len(s) /\ s[k] \in X
    <3>1. k \in 1..Len(s)
      BY <1>2, <1>4
    <3> QED
      BY <1>1, <3>1
  <2>2. EraseAt(S, k) = [left |-> r, gone |-> S.gone \cup {s[k]}, over |-> S.over]
    BY <1>4 DEF EraseAt
  <2>3. r \in Seq(X)
    BY <1>1, <2>1, Removed
  <2> HIDE DEF r, s
  <2>4. EraseAt(S, k) \in Copies(X)
    BY <1>1, <2>1, <2>2, <2>3 DEF Copies
  <2>5. ASSUME Parted(S, L)
        PROVE  Parted(EraseAt(S, k), L)
    <3>1. PICK K \in SUBSET DOMAIN L :
              Sub(s, L, K) /\ S.gone = {L[i] : i \in (DOMAIN L) \ K}
      BY <2>5 DEF Parted, s
    <3>2. s \in Seq(X)
      BY <1>1 DEF s
    <3>3. PICK j \in K : s[k] = L[j] /\ Sub(r, L, K \ {j})
      BY <2>1, <3>1, <3>2, SubWithout DEF r
    <3>4. (DOMAIN L) \ (K \ {j}) = ((DOMAIN L) \ K) \cup {j}
      BY <3>1
    <3>5. S.gone \cup {s[k]} = {L[i] : i \in (DOMAIN L) \ (K \ {j})}
      BY <3>1, <3>3, <3>4
    <3>6. K \ {j} \in SUBSET DOMAIN L
      BY <3>1
    <3>7. EraseAt(S, k).left = r /\ EraseAt(S, k).gone = S.gone \cup {s[k]}
      BY <2>2
    <3> HIDE DEF Sub
    <3> QED
      BY <3>3, <3>5, <3>6, <3>7 DEF Parted
  <2> QED
    BY <2>4, <2>5
<1> QED
  BY <1>3, <1>4

LEMMA VisitedParts ==
    ASSUME NEW X, NEW L \in Seq(X), NEW S \in Copies(X), NEW k \in Nat \ {0},
           NEW p, NEW n
    PROVE  Visited(S, k, p, n) \in Copies(X)
           /\ (Parted(S, L) => Parted(Visited(S, k, p, n), L))
<1> DEFINE first == IF Owner[p[1]] = n THEN EraseAt(S, k) ELSE S
           second == IF Owner[p[2]] = n THEN EraseAt(first, k) ELSE first
<1>1. first \in Copies(X) /\ (Parted(S, L) => Parted(first, L))
  BY EraseAtParts
<1>2. Visited(S, k, p, n) = second
  BY DEF Visited
<1> HIDE DEF first
<1>3. second \in Copies(X) /\ (Parted(first, L) => Parted(second, L))
  BY <1>1, EraseAtParts
<1> QED
  BY <1>1, <1>2, <1>3

Visiting(f, L, n) ==
    f = [k \in 0..Len(L) |->
            IF k = 0 THEN [left |-> L, gone |-> {}, over |-> FALSE]
                     ELSE Visited(f[k - 1], k, L[k], n)]

LEMMA VisitingExists ==
    ASSUME NEW X, NEW L \in Seq(X), NEW n
    PROVE  \E f : Visiting(f, L, n) /\ Erased(L, n) = f[Len(L)]
<1> DEFINE z == Len(L)
           b == [left |-> L, gone |-> {}, over |-> FALSE]
           F == [q \in Copies(X) \X (1..z) |-> Visited(q[1], q[2], L[q[2]], n)]
<1>1. z \in Nat /\ b \in Copies(X)
  BY DEF Copies
<1>2. PICK g : g = [k \in 0..z |-> IF k = 0 THEN b ELSE F[<<g[k - 1], k>>]]
  <2> HIDE DEF F, z, b
  <2>1. PICK g : Grown(g, z, b, F)
    BY <1>1, Recursively
  <2> QED
    BY <2>1 DEF Grown
<1>3. \A s \in Copies(X), k \in 1..z :
          /\ F[<<s, k>>] = Visited(s, k, L[k], n)
          /\ F[<<s, k>>] \in Copies(X)
  <2> SUFFICES ASSUME NEW s \in Copies(X), NEW k \in 1..z
               PROVE  /\ F[<<s, k>>] = Visited(s, k, L[k], n)
                      /\ F[<<s, k>>] \in Copies(X)
    OBVIOUS
  <2>1. <<s, k>> \in Copies(X) \X (1..z) /\ <<s, k>>[1] = s /\ <<s, k>>[2] = k
    OBVIOUS
  <2>2. F[<<s, k>>] = Visited(s, k, L[k], n)
    BY <2>1
  <2>3. k \in Nat \ {0}
    BY <1>1
  <2> HIDE DEF F, z
  <2>4. Visited(s, k, L[k], n) \in Copies(X)
    BY <2>3, VisitedParts
  <2> QED
    BY <2>2, <2>4
<1> HIDE DEF F, z, b
<1> DEFINE T == {k \in 0..z : g[k] \in Copies(X)}
<1>4. 0..z \subseteq T
  <2>1. 0 \in T
    BY <1>1, <1>2
  <2>2. ASSUME NEW k \in 0..(z - 1), k \in T
        PROVE  k + 1 \in T
    <3>1. k + 1 \in 0..z /\ k + 1 # 0 /\ (k + 1) - 1 = k /\ k + 1 \in 1..z
      BY <1>1
    <3>2. g[k + 1] = F[<<g[k], k + 1>>]
      BY <1>2, <3>1
    <3> QED
      BY <1>3, <2>2, <3>1, <3>2
  <2> HIDE DEF T
  <2> QED
    BY <1>1, <2>1, <2>2, Inductively
<1> DEFINE h == [k \in 0..z |-> IF k = 0 THEN b ELSE Visited(g[k - 1], k, L[k], n)]
<1>5. ASSUME NEW k \in 0..z
      PROVE  g[k] = h[k]
  <2>1. CASE k = 0
    BY <1>2, <2>1
  <2>2. CASE k # 0
    <3>1. k - 1 \in 0..z /\ k \in 1..z
      BY <1>1, <2>2
    <3>2. g[k - 1] \in Copies(X)
      BY <1>4, <3>1
    <3>3. g[k] = F[<<g[k - 1], k>>]
      BY <1>2, <2>2
    <3> QED
      BY <1>3, <2>2, <3>1, <3>2, <3>3
  <2> QED
    BY <2>1, <2>2
<1>6. g = h
  <2>1. g = [k \in 0..z |-> g[k]]
    <3> DEFINE e(k) == IF k = 0 THEN b ELSE F[<<g[k - 1], k>>]
    <3>1. g = [k \in 0..z |-> e(k)]
      BY <1>2
    <3> HIDE DEF e
    <3> QED
      BY <3>1
  <2>2. h = [k \in 0..z |-> h[k]]
    OBVIOUS
  <2> HIDE DEF h
  <2> QED
    BY <1>5, <2>1, <2>2
<1>7. Visiting(g, L, n)
  BY <1>6 DEF Visiting, z, b
<1>8. Erased(L, n) = (CHOOSE f : Visiting(f, L, n))[Len(L)]
  BY DEF Erased, Visiting
<1> QED
  BY <1>7, <1>8
LEMMA VisitingSteps ==
    ASSUME NEW X, NEW L \in Seq(X), NEW n, NEW f, Visiting(f, L, n)
    PROVE  /\ f[0] = [left |-> L, gone |-> {}, over |-> FALSE]
           /\ \A k \in 1..Len(L) : f[k] = Visited(f[k - 1], k, L[k], n)
<1> DEFINE b == [left |-> L, gone |-> {}, over |-> FALSE]
           e(k) == IF k = 0 THEN b ELSE Visited(f[k - 1], k, L[k], n)
<1>1. f = [k \in 0..Len(L) |-> e(k)]
  BY DEF Visiting
<1>2. 0 \in 0..Len(L) /\ \A k \in 1..Len(L) : k \in 0..Len(L) /\ k # 0
  <2>1. Len(L) \in Nat
    OBVIOUS
  <2> QED
    BY <2>1
<1> HIDE DEF e
<1>3. f[0] = e(0) /\ \A k \in 1..Len(L) : f[k] = e(k)
  BY <1>1, <1>2
<1> HIDE DEF b
<1>4. e(0) = b /\ \A k \in 1..Len(L) : e(k) = Visited(f[k - 1], k, L[k], n)
  BY <1>2 DEF e
<1> QED
  BY <1>3, <1>4 DEF b

LEMMA ErasedParts ==
    ASSUME NEW X, NEW L \in Seq(X), NEW n
    PROVE  Erased(L, n) \in Copies(X) /\ Parted(Erased(L, n), L)
<1>1. PICK f : Visiting(f, L, n) /\ Erased(L, n) = f[Len(L)]
  BY VisitingExists
<1>2. Len(L) \in Nat /\ DOMAIN L = 1..Len(L)
  OBVIOUS
<1> DEFINE b == [left |-> L, gone |-> {}, over |-> FALSE]
<1>3. f[0] = b /\ \A k \in 1..Len(L) : f[k] = Visited(f[k - 1], k, L[k], n)
  BY <1>1, VisitingSteps
<1>4. b \in Copies(X) /\ Parted(b, L)
  <2>1. b \in Copies(X) /\ b.left = L /\ b.gone = {}
    BY DEF Copies
  <2> HIDE DEF b
  <2>2. Sub(b.left, L, DOMAIN L)
    BY <2>1, SubAll
  <2>3. b.gone = {L[i] : i \in (DOMAIN L) \ (DOMAIN L)}
    BY <2>1
  <2> QED
    BY <2>1, <2>2, <2>3 DEF Parted
<1> HIDE DEF b
<1> DEFINE T == {k \in 0..Len(L) : f[k] \in Copies(X) /\ Parted(f[k], L)}
<1>5. 0 \in T
  BY <1>2, <1>3, <1>4
<1>6. ASSUME NEW k \in 0..(Len(L) - 1), k \in T
      PROVE  k + 1 \in T
  <2>1. k + 1 \in 1..Len(L) /\ (k + 1) - 1 = k /\ k + 1 \in 0..Len(L) /\ k + 1 \in Nat \ {0}
    BY <1>2
  <2>2. f[k + 1] = Visited(f[k], k + 1, L[k + 1], n)
    BY <1>3, <2>1
  <2>3. f[k] \in Copies(X) /\ Parted(f[k], L)
    BY <1>6
  <2>4. /\ Visited(f[k], k + 1, L[k + 1], n) \in Copies(X)
        /\ Parted(Visited(f[k], k + 1, L[k + 1], n), L)
    BY <2>1, <2>3, VisitedParts
  <2> QED
    BY <2>1, <2>2, <2>4
<1> HIDE DEF T
<1>7. 0..Len(L) \subseteq T
  BY <1>2, <1>5, <1>6, Inductively
<1>8. Len(L) \in T
  BY <1>2, <1>7
<1> QED
  BY <1>1, <1>8 DEF T

-----------------------------------------------------------------------------
(* What a part of a sequence shows.                                        *)

LEMMA SubRange ==
    ASSUME NEW X, NEW L \in Seq(X), NEW K \in SUBSET DOMAIN L, NEW s \in Seq(X),
           Sub(s, L, K)
    PROVE  Range(s) = {L[k] : k \in K}
<1>1. DOMAIN s = 1..Len(s)
  OBVIOUS
<1>2. PICK m \in [1..Len(s) -> K] :
        /\ \A k \in K : \E i \in 1..Len(s) : m[i] = k
        /\ \A i \in 1..Len(s) : s[i] = L[m[i]]
  BY DEF Sub
<1> QED
  BY <1>1, <1>2 DEF Range

LEMMA PartedRange ==
    ASSUME NEW X, NEW L \in Seq(X), NEW S \in Copies(X), Parted(S, L)
    PROVE  /\ Range(S.left) \subseteq Range(L) /\ S.gone \subseteq Range(L)
           /\ Range(L) \subseteq S.gone \cup Range(S.left)
           /\ \A p \in S.gone \cap Range(S.left) :
                  \E i, j \in DOMAIN L : i # j /\ L[i] = p /\ L[j] = p
<1>1. S.left \in Seq(X)
  BY DEF Copies
<1>2. PICK K \in SUBSET DOMAIN L :
          Sub(S.left, L, K) /\ S.gone = {L[i] : i \in (DOMAIN L) \ K}
  BY DEF Parted
<1>3. Range(S.left) = {L[k] : k \in K}
  BY <1>1, <1>2, SubRange
<1>4. Range(L) = {L[k] : k \in DOMAIN L}
  BY DEF Range
<1> QED
  BY <1>2, <1>3, <1>4

LEMMA ErasedOne ==
    ASSUME NEW L \in Seq(Pair), NEW n, \A g, h \in Hits(L, n) : g = h,
           NEW p \in Pair, n \in {Owner[p[1]], Owner[p[2]]}
    PROVE  /\ p \in Range(L) => p \in Erased(L, n).gone
           /\ p \notin Range(Erased(L, n).left)
<1>1. Len(L) \in Nat /\ DOMAIN L = 1..Len(L)
  OBVIOUS
<1>2. CASE p \notin Range(L)
  <2>1. Range(Erased(L, n).left) \subseteq Range(L)
    BY ErasedParts, PartedRange
  <2> QED
    BY <1>2, <2>1
<1>3. CASE p \in Range(L)
  <2>1. PICK i \in 1..Len(L) : L[i] = p
    BY <1>1, <1>3 DEF Range
  <2>2. PICK e \in {1, 2} : Owner[p[e]] = n
    OBVIOUS
  <2>3. ASSUME NEW k \in 1..Len(L), NEW d \in {1, 2}, Owner[L[k][d]] = n
        PROVE  k = i /\ d = e
    <3>1. <<k, d>> \in Hits(L, n)
      <4> DEFINE q == <<k, d>>
      <4>1. q \in (DOMAIN L) \X {1, 2} /\ q[1] = k /\ q[2] = d
        BY <1>1
      <4> HIDE DEF q
      <4>2. q \in Hits(L, n)
        BY <2>3, <4>1 DEF Hits
      <4> QED
        BY <4>2 DEF q
    <3>2. <<i, e>> \in Hits(L, n)
      <4> DEFINE q == <<i, e>>
      <4>1. q \in (DOMAIN L) \X {1, 2} /\ q[1] = i /\ q[2] = e
        BY <1>1
      <4> HIDE DEF q
      <4>2. q \in Hits(L, n)
        BY <2>1, <2>2, <4>1 DEF Hits
      <4> QED
        BY <4>2 DEF q
    <3>3. <<k, d>> = <<i, e>>
      BY <3>1, <3>2
    <3> QED
      BY <3>3
  <2> DEFINE b == [left |-> L, gone |-> {}, over |-> FALSE]
             c == EraseAt(b, i)
  <2>4. PICK f : Visiting(f, L, n) /\ Erased(L, n) = f[Len(L)]
    BY VisitingExists
  <2>5. f[0] = b /\ \A k \in 1..Len(L) : f[k] = Visited(f[k - 1], k, L[k], n)
    BY <2>4, VisitingSteps
  <2>6. c = [left |-> RemoveAt(L, i), gone |-> {p}, over |-> FALSE]
    <3>1. b.left = L /\ b.gone = {} /\ b.over = FALSE /\ ~(i > Len(L))
      BY <1>1
    <3>2. c = [left |-> RemoveAt(b.left, i), gone |-> b.gone \cup {b.left[i]}, over |-> b.over]
      BY <3>1 DEF EraseAt
    <3> HIDE DEF b, c
    <3>3. b.gone \cup {b.left[i]} = {p}
      BY <2>1, <3>1
    <3> QED
      BY <3>1, <3>2, <3>3
  <2> HIDE DEF b, c
  <2>7. ASSUME NEW k \in 1..Len(L)
        PROVE  f[k] = IF k = i THEN EraseAt(f[k - 1], i) ELSE f[k - 1]
    <3>1. CASE k # i
      <4>1. Owner[L[k][1]] # n /\ Owner[L[k][2]] # n
        BY <2>3, <3>1
      <4> QED
        BY <2>5, <3>1, <4>1 DEF Visited
    <3>2. CASE k = i
      <4>1. (e = 1 /\ Owner[p[1]] = n /\ Owner[p[2]] # n)
            \/ (e = 2 /\ Owner[p[1]] # n /\ Owner[p[2]] = n)
        <5>1. \A d \in {1, 2} : Owner[p[d]] = n => d = e
          BY <2>1, <2>3
        <5> QED
          BY <2>2, <5>1
      <4>2. f[i] = Visited(f[i - 1], i, p, n)
        BY <2>1, <2>5
      <4> QED
        BY <3>2, <4>1, <4>2 DEF Visited
    <3> QED
      BY <3>1, <3>2
  <2> DEFINE T == {k \in 0..Len(L) : f[k] = IF k < i THEN b ELSE c}
  <2>8. 0 \in T
    BY <1>1, <2>5
  <2>9. ASSUME NEW k \in 0..(Len(L) - 1), k \in T
        PROVE  k + 1 \in T
    <3>1. k + 1 \in 1..Len(L) /\ (k + 1) - 1 = k /\ k + 1 \in 0..Len(L)
      BY <1>1
    <3>2. f[k + 1] = IF k + 1 = i THEN EraseAt(f[k], i) ELSE f[k]
      BY <2>7, <3>1
    <3>3. f[k] = IF k < i THEN b ELSE c
      BY <2>9
    <3>4. CASE k + 1 < i
      <4>1. k < i /\ k + 1 # i
        BY <3>4
      <4> QED
        BY <3>1, <3>2, <3>3, <3>4, <4>1
    <3>5. CASE k + 1 = i
      <4>1. k < i /\ ~(k + 1 < i)
        BY <3>5
      <4> QED
        BY <3>1, <3>2, <3>3, <3>5, <4>1 DEF c
    <3>6. CASE k + 1 > i
      <4>1. ~(k < i) /\ k + 1 # i /\ ~(k + 1 < i)
        BY <3>6
      <4> QED
        BY <3>1, <3>2, <3>3, <4>1
    <3> QED
      BY <3>4, <3>5, <3>6
  <2>10. f[Len(L)] = c
    <3>1. 0..Len(L) \subseteq T
      <4> HIDE DEF T
      <4> QED
        BY <1>1, <2>8, <2>9, Inductively
    <3>2. Len(L) \in 0..Len(L) /\ ~(Len(L) < i)
      BY <1>1
    <3> QED
      BY <3>1, <3>2
  <2>11. Erased(L, n).gone = {p} /\ Erased(L, n).left = RemoveAt(L, i)
    BY <2>4, <2>6, <2>10
  <2>12. p \notin Range(RemoveAt(L, i))
    <3> DEFINE r == RemoveAt(L, i)
    <3>1. /\ r \in Seq(Pair) /\ Len(r) = Len(L) - 1
          /\ \A j \in 1..(Len(L) - 1) : r[j] = IF j < i THEN L[j] ELSE L[j + 1]
      BY Removed
    <3> HIDE DEF r
    <3>2. SUFFICES ASSUME NEW j \in DOMAIN r, r[j] = p
                   PROVE  FALSE
      BY DEF Range, r
    <3>3. j \in 1..(Len(L) - 1)
      BY <3>1
    <3>4. PICK k \in 1..Len(L) : k # i /\ L[k] = p
      <4>1. CASE j < i
        BY <1>1, <3>1, <3>2, <3>3, <4>1
      <4>2. CASE ~(j < i)
        <5>1. j + 1 \in 1..Len(L) /\ j + 1 # i
          BY <1>1, <3>3, <4>2
        <5> QED
          BY <3>1, <3>2, <3>3, <4>2, <5>1
      <4> QED
        BY <4>1, <4>2
    <3> QED
      BY <2>2, <2>3, <3>4
  <2> QED
    BY <2>11, <2>12
<1> QED
  BY <1>2, <1>3
-----------------------------------------------------------------------------
(* What the containers show, and show twice.                               *)

LEMMA ShownIs ==
    ASSUME NEW ls, NEW p
    PROVE  p \in Shown(ls) <=> \E c \in Container : \E j \in DOMAIN ls[c] : ls[c][j] = p
BY DEF Shown, Range

LEMMA TwiceIs ==
    ASSUME NEW ls, NEW p
    PROVE  p \in Twice(ls) <=>
               \E c, d \in Container : \E j \in DOMAIN ls[c], k \in DOMAIN ls[d] :
                   (c # d \/ j # k) /\ ls[c][j] = p /\ ls[d][k] = p
<1>1. ASSUME NEW c \in Container, NEW d \in Container, NEW j \in DOMAIN ls[c],
             NEW k \in DOMAIN ls[d]
      PROVE  <<c, j>> # <<d, k>> <=> (c # d \/ j # k)
  OBVIOUS
<1>2. ASSUME NEW c \in Container, NEW j \in DOMAIN ls[c], ls[c][j] = p
      PROVE  p \in Shown(ls)
  BY <1>2, ShownIs
<1> QED
  BY <1>1, <1>2 DEF Twice

LEMMA ShownPairs ==
    ASSUME NEW ls \in [Container -> Seq(Pair)]
    PROVE  Shown(ls) \subseteq Pair
<1> SUFFICES ASSUME NEW p \in Shown(ls)
             PROVE  p \in Pair
  OBVIOUS
<1>1. PICK c \in Container : \E j \in DOMAIN ls[c] : ls[c][j] = p
  BY ShownIs
<1>2. ls[c] \in Seq(Pair)
  OBVIOUS
<1> QED
  BY <1>1, <1>2

(* One container keeps its links at the indexes of K.                      *)
Keeps(new, ls, c, K) ==
    /\ K \in SUBSET DOMAIN ls[c]
    /\ ls[c] \in Seq(Pair) /\ new[c] \in Seq(Pair) /\ Sub(new[c], ls[c], K)
    /\ \A d \in Container : d # c => new[d] = ls[d]

LEMMA OneKeeps ==
    ASSUME NEW ls, NEW c \in Container, NEW K, NEW new, Keeps(new, ls, c, K)
    PROVE  /\ Shown(new) \subseteq Shown(ls)
           /\ Twice(new) \subseteq Twice(ls)
           /\ \A i \in (DOMAIN ls[c]) \ K :
                  ls[c][i] \in Shown(new) => ls[c][i] \in Twice(ls)
           /\ \A p \in Shown(ls) : p \notin Shown(new) =>
                  \E i \in (DOMAIN ls[c]) \ K : p = ls[c][i]
<1> USE DEF Keeps
<1>0. DOMAIN new[c] = 1..Len(new[c])
  OBVIOUS
<1>1. PICK m \in [1..Len(new[c]) -> K] :
        /\ \A i, j \in 1..Len(new[c]) : m[i] = m[j] => i = j
        /\ \A k \in K : \E i \in 1..Len(new[c]) : m[i] = k
        /\ \A i \in 1..Len(new[c]) : new[c][i] = ls[c][m[i]]
  BY DEF Sub
<1> DEFINE W(d, j) == IF d = c THEN m[j] ELSE j
<1>2. ASSUME NEW d \in Container, NEW j \in DOMAIN new[d]
      PROVE  /\ W(d, j) \in DOMAIN ls[d] /\ ls[d][W(d, j)] = new[d][j]
             /\ (d = c => W(d, j) \in K)
             /\ \A k \in DOMAIN new[d] : W(d, j) = W(d, k) => j = k
  BY <1>0, <1>1
<1> HIDE DEF W
<1>3. Shown(new) \subseteq Shown(ls)
  BY <1>2, ShownIs
<1>4. ASSUME NEW p \in Twice(new)
      PROVE  p \in Twice(ls)
  <2>1. PICK d \in Container, e \in Container :
            \E j \in DOMAIN new[d], k \in DOMAIN new[e] :
                (d # e \/ j # k) /\ new[d][j] = p /\ new[e][k] = p
    BY TwiceIs
  <2>2. PICK j \in DOMAIN new[d], k \in DOMAIN new[e] :
            (d # e \/ j # k) /\ new[d][j] = p /\ new[e][k] = p
    BY <2>1
  <2>3. W(d, j) \in DOMAIN ls[d] /\ ls[d][W(d, j)] = p
    BY <1>2, <2>2
  <2>4. W(e, k) \in DOMAIN ls[e] /\ ls[e][W(e, k)] = p
    BY <1>2, <2>2
  <2>5. d # e \/ W(d, j) # W(e, k)
    BY <1>2, <2>2
  <2> QED
    BY <2>3, <2>4, <2>5, TwiceIs
<1>5. ASSUME NEW i \in (DOMAIN ls[c]) \ K, ls[c][i] \in Shown(new)
      PROVE  ls[c][i] \in Twice(ls)
  <2>1. PICK d \in Container : \E j \in DOMAIN new[d] : new[d][j] = ls[c][i]
    BY <1>5, ShownIs
  <2>2. PICK j \in DOMAIN new[d] : new[d][j] = ls[c][i]
    BY <2>1
  <2>3. W(d, j) \in DOMAIN ls[d] /\ ls[d][W(d, j)] = ls[c][i]
    BY <1>2, <2>2
  <2>4. d # c \/ W(d, j) # i
    BY <1>2, <2>2
  <2> QED
    BY <2>3, <2>4, TwiceIs
<1>6. ASSUME NEW p \in Shown(ls), p \notin Shown(new)
      PROVE  \E i \in (DOMAIN ls[c]) \ K : p = ls[c][i]
  <2>1. PICK d \in Container : \E j \in DOMAIN ls[d] : ls[d][j] = p
    BY ShownIs
  <2>2. PICK j \in DOMAIN ls[d] : ls[d][j] = p
    BY <2>1
  <2>3. \A e \in Container : \A k \in DOMAIN new[e] : new[e][k] # p
    BY <1>6, ShownIs
  <2>4. d = c
    BY <2>2, <2>3
  <2>5. j \notin K
    BY <1>0, <1>1, <2>2, <2>3, <2>4
  <2> QED
    BY <2>2, <2>4, <2>5
<1> QED
  BY <1>3, <1>4, <1>5, <1>6

(* The root hands some of its links to a group that has none.              *)
LEMMA RootDivides ==
    ASSUME NEW ls, NEW S \in SUBSET DOMAIN ls[Root], NEW new, Root # Group,
           ls[Root] \in Seq(Pair), ls[Group] = <<>>,
           new[Group] \in Seq(Pair), Sub(new[Group], ls[Root], S),
           new[Root] \in Seq(Pair), Sub(new[Root], ls[Root], (DOMAIN ls[Root]) \ S)
    PROVE  Shown(new) = Shown(ls) /\ Twice(new) \subseteq Twice(ls)
<1> DEFINE D == (DOMAIN ls[Root]) \ S
<1>1. PICK g \in [1..Len(new[Group]) -> S] :
        /\ \A i, j \in 1..Len(new[Group]) : g[i] = g[j] => i = j
        /\ \A k \in S : \E i \in 1..Len(new[Group]) : g[i] = k
        /\ \A i \in 1..Len(new[Group]) : new[Group][i] = ls[Root][g[i]]
  BY DEF Sub
<1>2. PICK r \in [1..Len(new[Root]) -> D] :
        /\ \A i, j \in 1..Len(new[Root]) : r[i] = r[j] => i = j
        /\ \A k \in D : \E i \in 1..Len(new[Root]) : r[i] = k
        /\ \A i \in 1..Len(new[Root]) : new[Root][i] = ls[Root][r[i]]
  BY DEF Sub
<1>3. DOMAIN new[Group] = 1..Len(new[Group]) /\ DOMAIN new[Root] = 1..Len(new[Root])
  OBVIOUS
<1>4. Container = {Root, Group} /\ DOMAIN ls[Group] = {}
  BY DEF Container
<1> DEFINE W(d, j) == IF d = Group THEN g[j] ELSE r[j]
<1>5. ASSUME NEW d \in Container, NEW j \in DOMAIN new[d]
      PROVE  /\ W(d, j) \in DOMAIN ls[Root] /\ ls[Root][W(d, j)] = new[d][j]
             /\ W(d, j) \in S <=> d = Group
             /\ \A k \in DOMAIN new[d] : W(d, j) = W(d, k) => j = k
  <2>1. CASE d = Group
    BY <1>1, <1>3, <2>1
  <2>2. CASE d = Root
    BY <1>2, <1>3, <2>2
  <2> QED
    BY <1>4, <2>1, <2>2
<1>6. \A k \in DOMAIN ls[Root] : \E d \in Container : \E j \in DOMAIN new[d] : W(d, j) = k
  <2> SUFFICES ASSUME NEW k \in DOMAIN ls[Root]
               PROVE  \E d \in Container : \E j \in DOMAIN new[d] : W(d, j) = k
    OBVIOUS
  <2>1. CASE k \in S
    <3>1. PICK j \in DOMAIN new[Group] : g[j] = k
      BY <1>1, <1>3, <2>1
    <3>2. W(Group, j) = k
      BY <3>1
    <3> QED
      BY <1>4, <3>2
  <2>2. CASE k \notin S
    <3>1. PICK j \in DOMAIN new[Root] : r[j] = k
      BY <1>2, <1>3, <2>2
    <3>2. W(Root, j) = k
      BY <3>1
    <3> QED
      BY <1>4, <3>2
  <2> QED
    BY <2>1, <2>2
<1> HIDE DEF W
<1>7. Root \in Container
  BY <1>4
<1>8. ASSUME NEW p
      PROVE  p \in Shown(new) <=> p \in Shown(ls)
  <2>1. p \in Shown(ls) <=> \E k \in DOMAIN ls[Root] : ls[Root][k] = p
    BY <1>4, ShownIs
  <2>2. p \in Shown(new) <=> \E d \in Container : \E j \in DOMAIN new[d] : new[d][j] = p
    BY ShownIs
  <2>3. ASSUME p \in Shown(ls)
        PROVE  p \in Shown(new)
    <3>1. PICK k \in DOMAIN ls[Root] : ls[Root][k] = p
      BY <2>1, <2>3
    <3>2. PICK d \in Container : \E j \in DOMAIN new[d] : W(d, j) = k
      BY <1>6
    <3>3. PICK j \in DOMAIN new[d] : W(d, j) = k
      BY <3>2
    <3>4. new[d][j] = p
      BY <1>5, <3>1, <3>3
    <3> QED
      BY <2>2, <3>4
  <2>4. ASSUME p \in Shown(new)
        PROVE  p \in Shown(ls)
    <3>1. PICK d \in Container : \E j \in DOMAIN new[d] : new[d][j] = p
      BY <2>2, <2>4
    <3>2. PICK j \in DOMAIN new[d] : new[d][j] = p
      BY <3>1
    <3>3. W(d, j) \in DOMAIN ls[Root] /\ ls[Root][W(d, j)] = p
      BY <1>5, <3>2
    <3> QED
      BY <2>1, <3>3
  <2> QED
    BY <2>3, <2>4
<1>9. ASSUME NEW p \in Twice(new)
      PROVE  p \in Twice(ls)
  <2>1. PICK d \in Container, e \in Container :
            \E j \in DOMAIN new[d], k \in DOMAIN new[e] :
                (d # e \/ j # k) /\ new[d][j] = p /\ new[e][k] = p
    BY TwiceIs
  <2>2. PICK j \in DOMAIN new[d], k \in DOMAIN new[e] :
            (d # e \/ j # k) /\ new[d][j] = p /\ new[e][k] = p
    BY <2>1
  <2>3. W(d, j) \in DOMAIN ls[Root] /\ ls[Root][W(d, j)] = p
    BY <1>5, <2>2
  <2>4. W(e, k) \in DOMAIN ls[Root] /\ ls[Root][W(e, k)] = p
    BY <1>5, <2>2
  <2>5. W(d, j) # W(e, k)
    BY <1>4, <1>5, <2>2
  <2> QED
    BY <1>7, <2>3, <2>4, <2>5, TwiceIs
<1> QED
  BY <1>8, <1>9

(* One link is added.                                                      *)
LEMMA OneMore ==
    ASSUME NEW ls, NEW c \in Container, NEW p, NEW new, ls[c] \in Seq(Pair), p \in Pair,
           new[c] = Append(ls[c], p), \A d \in Container : d # c => new[d] = ls[d]
    PROVE  Shown(new) = Shown(ls) \cup {p}
<1>1. /\ Len(ls[c]) \in Nat /\ DOMAIN ls[c] = 1..Len(ls[c])
      /\ DOMAIN new[c] = 1..(Len(ls[c]) + 1) /\ new[c][Len(ls[c]) + 1] = p
      /\ \A j \in 1..Len(ls[c]) : new[c][j] = ls[c][j]
  OBVIOUS
<1>2. /\ Len(ls[c]) + 1 \in DOMAIN new[c] /\ DOMAIN ls[c] \subseteq DOMAIN new[c]
      /\ \A j \in DOMAIN new[c] : j \in DOMAIN ls[c] \/ j = Len(ls[c]) + 1
  BY <1>1
<1>3. ASSUME NEW q
      PROVE  q \in Shown(new) <=> q \in Shown(ls) \/ q = p
  <2>1. q \in Shown(new) <=> \E d \in Container : \E j \in DOMAIN new[d] : new[d][j] = q
    BY ShownIs
  <2>2. q \in Shown(ls) <=> \E d \in Container : \E j \in DOMAIN ls[d] : ls[d][j] = q
    BY ShownIs
  <2>3. ASSUME q = p
        PROVE  q \in Shown(new)
    BY <1>1, <1>2, <2>1, <2>3
  <2>4. ASSUME q \in Shown(ls)
        PROVE  q \in Shown(new)
    BY <1>1, <1>2, <2>1, <2>2, <2>4
  <2>5. ASSUME q \in Shown(new), q # p
        PROVE  q \in Shown(ls)
    BY <1>1, <1>2, <2>1, <2>2, <2>5
  <2> QED
    BY <2>3, <2>4, <2>5
<1> QED
  BY <1>3
-----------------------------------------------------------------------------
(* The steps. No step but CreateNode and Connect adds anything; what they  *)
(* take away they must take away on both sides.                            *)

Older ==
    \A n \in Node : home[n] # Unborn =>
        home'[n] # Unborn /\ (home'[n] \in Container => home[n] \in Container)

LEMMA Owners ==
    ASSUME NEW p \in Pair
    PROVE  Owner[p[1]] \in Node /\ Owner[p[2]] \in Node
BY NodeEditorAssumption DEF Pair

LEMMA Fewer ==
    ASSUME IInv, ~undefined, Older, LinksOK',
           Shown(links') \subseteq Shown(links), Twice(links') \subseteq Twice(links),
           doubled' = doubled, lost \subseteq lost',
           \A p \in Shown(links') :
               Alive(Owner[p[1]])' /\ Alive(Owner[p[2]])' /\ p \notin doubled =>
                   listeners'[p] = listeners[p],
           \A p \in Pair : listeners'[p] > 0 => listeners[p] > 0,
           \A p \in Shown(links) :
               p \notin Shown(links') /\ listeners'[p] > 0 => p \in lost'
    PROVE  /\ JoinsTheBorn' /\ (Twice(links) \subseteq doubled)'
           /\ ShownIsWired' /\ WiredIsShown'
<1>1. Shown(links) \subseteq Pair
  BY ShownPairs DEF IInv, LinksOK
<1>2. JoinsTheBorn'
  <2> SUFFICES ASSUME NEW p \in Shown(links')
               PROVE  home'[Owner[p[1]]] # Unborn /\ home'[Owner[p[2]]] # Unborn
    BY DEF JoinsTheBorn
  <2>1. Owner[p[1]] \in Node /\ Owner[p[2]] \in Node
    BY <1>1, Owners
  <2>2. home[Owner[p[1]]] # Unborn /\ home[Owner[p[2]]] # Unborn
    BY DEF IInv, JoinsTheBorn
  <2> QED
    BY <2>1, <2>2 DEF Older
<1>3. (Twice(links) \subseteq doubled)'
  BY DEF IInv
<1>4. ShownIsWired'
  <2> SUFFICES ASSUME NEW p \in Shown(links'), Alive(Owner[p[1]])', Alive(Owner[p[2]])',
                      p \notin doubled'
               PROVE  listeners'[p] > 0
    BY DEF ShownIsWired, LivePair
  <2>1. Owner[p[1]] \in Node /\ Owner[p[2]] \in Node
    BY <1>1, Owners
  <2>2. home[Owner[p[1]]] # Unborn /\ home[Owner[p[2]]] # Unborn
    BY DEF IInv, JoinsTheBorn
  <2>3. Alive(Owner[p[1]]) /\ Alive(Owner[p[2]])
    BY <2>1, <2>2 DEF Alive, Older
  <2>4. listeners[p] > 0
    BY <2>3 DEF IInv, ShownIsWired, LivePair
  <2> QED
    BY <2>4
<1>5. WiredIsShown'
  <2> SUFFICES ASSUME NEW p \in Pair, listeners'[p] > 0, p \notin lost'
               PROVE  p \in Shown(links')
    BY DEF WiredIsShown
  <2>1. p \in Shown(links)
    BY DEF IInv, WiredIsShown
  <2> QED
    BY <2>1
<1> QED
  BY <1>2, <1>3, <1>4, <1>5

(* connect() adds one link and its listener.                               *)
LEMMA Connecting ==
    ASSUME IInv, ~undefined, NEW c \in Container, NEW p \in Pair, Connect(c, p),
           c = Group => group # "none",
           home[Owner[p[1]]] \in Container, home[Owner[p[2]]] \in Container
    PROVE  IInv'
<1> USE NodeEditorAssumption
<1>1. /\ made < MaxLinks /\ made' = made + 1
      /\ listeners' = [listeners EXCEPT ![p] = @ + 1]
      /\ links' = [links EXCEPT ![c] = Append(@, p)]
      /\ doubled' = doubled \cup Twice(links')
      /\ UNCHANGED <<home, group, undefined, lost>>
  BY DEF Connect
<1>2. links \in [Container -> Seq(Pair)] /\ links[c] \in Seq(Pair)
  BY DEF IInv, LinksOK
<1>3. /\ links'[c] = Append(links[c], p)
      /\ \A d \in Container : d # c => links'[d] = links[d]
  BY <1>1, <1>2
<1>4. Append(links[c], p) \in Seq(Pair)
  BY <1>2
<1>5. LinksOK'
  BY <1>1, <1>2, <1>4 DEF LinksOK
<1>6. Shown(links') = Shown(links) \cup {p}
  BY <1>2, <1>3, OneMore
<1>7. listeners \in [Pair -> Nat]
  BY DEF IInv, TypeOK
<1>8. /\ listeners' \in [Pair -> Nat] /\ listeners'[p] > 0
      /\ \A q \in Pair : q # p => listeners'[q] = listeners[q]
  BY <1>1, <1>7
<1>9. Shown(links') \subseteq Pair
  BY <1>5, ShownPairs DEF LinksOK
<1>10. TypeOK'
  <2>1. (group = "none" => links[Group] = <<>> /\ \A n \in Node : home[n] # Group)'
    <3> SUFFICES ASSUME group = "none"
                 PROVE  links'[Group] = <<>> /\ \A n \in Node : home[n] # Group
      BY <1>1
    <3>1. links[Group] = <<>> /\ \A n \in Node : home[n] # Group
      BY DEF IInv, TypeOK
    <3>2. Group \in Container /\ Group # c
      BY DEF Container
    <3> QED
      BY <1>3, <3>1, <3>2
  <2>2. (made \in 0..MaxLinks)'
    BY <1>1 DEF IInv, TypeOK
  <2>3. (doubled \subseteq Pair)'
    <3>1. Twice(links') \subseteq Pair
      BY <1>9 DEF Twice
    <3> QED
      BY <1>1, <3>1 DEF IInv, TypeOK
  <2>4. (/\ home \in [Node -> Container \cup {Unborn, Deleted}]
         /\ group \in {"none", "inside", "outside"}
         /\ undefined \in BOOLEAN /\ lost \subseteq Pair)'
    BY <1>1 DEF IInv, TypeOK
  <2> QED
    BY <1>8, <1>9, <2>1, <2>2, <2>3, <2>4 DEF TypeOK
<1>11. JoinsTheBorn'
  <2>1. Unborn \notin Container
    BY DEF Container
  <2>2. ASSUME NEW q \in Shown(links')
        PROVE  home[Owner[q[1]]] # Unborn /\ home[Owner[q[2]]] # Unborn
    <3>1. CASE q = p
      BY <2>1, <3>1
    <3>2. CASE q \in Shown(links)
      BY <3>2 DEF IInv, JoinsTheBorn
    <3> QED
      BY <1>6, <3>1, <3>2
  <2>3. home' = home
    BY <1>1
  <2> QED
    BY <2>2, <2>3 DEF JoinsTheBorn
<1>12. (Twice(links) \subseteq doubled)'
  BY <1>1
<1>13. ShownIsWired'
  <2> SUFFICES ASSUME NEW q \in Shown(links'), LivePair(q)', q \notin doubled', q # p
               PROVE  listeners'[q] > 0
    BY <1>8 DEF ShownIsWired
  <2>1. q \in Shown(links) /\ q \in Pair /\ q \notin doubled
    BY <1>1, <1>6, <1>9
  <2>2. LivePair(q)
    BY <1>1 DEF LivePair, Alive
  <2>3. listeners[q] > 0
    BY <2>1, <2>2 DEF IInv, ShownIsWired
  <2> QED
    BY <1>8, <2>1, <2>3
<1>14. WiredIsShown'
  <2> SUFFICES ASSUME NEW q \in Pair, listeners'[q] > 0, q \notin lost', q # p
               PROVE  q \in Shown(links')
    BY <1>6 DEF WiredIsShown
  <2>1. listeners[q] > 0 /\ q \notin lost
    BY <1>1, <1>8
  <2>2. q \in Shown(links)
    BY <2>1 DEF IInv, WiredIsShown
  <2> QED
    BY <1>6, <2>2
<1> QED
  BY <1>5, <1>10, <1>11, <1>12, <1>13, <1>14 DEF IInv
LEMMA CreatingNode ==
    ASSUME IInv, ~undefined, NEW c \in Open, NEW n \in Node, CreateNode(c, n)
    PROVE  IInv'
<1>1. /\ home[n] = Unborn /\ home' = [home EXCEPT ![n] = c]
      /\ UNCHANGED <<group, links, listeners, undefined, made, lost, doubled>>
  BY DEF CreateNode
<1>2. home \in [Node -> Container \cup {Unborn, Deleted}]
  BY DEF IInv, TypeOK
<1>3. c \in Container /\ (group = "none" => c # Group)
  BY NodeEditorAssumption DEF Open, Container
<1>4. Unborn \notin Container
  BY NodeEditorAssumption DEF Container
<1>5. TypeOK'
  <2>1. (group = "none" => links[Group] = <<>> /\ \A m \in Node : home[m] # Group)'
    BY <1>1, <1>2, <1>3 DEF IInv, TypeOK
  <2>2. (home \in [Node -> Container \cup {Unborn, Deleted}])'
    BY <1>1, <1>2, <1>3
  <2> QED
    BY <1>1, <2>1, <2>2 DEF IInv, TypeOK
<1>6. LinksOK'
  BY <1>1 DEF IInv, LinksOK
<1>7. Older
  BY <1>1, <1>2, <1>3, <1>4 DEF Older
<1> QED
  BY <1>1, <1>5, <1>6, <1>7, Fewer DEF IInv

LEMMA ChangingGroup ==
    ASSUME IInv, ~undefined, RemoveGroup \/ AddGroup
    PROVE  IInv'
<1>1. /\ group # "none" /\ group' \in {"inside", "outside"}
      /\ UNCHANGED <<home, links, listeners, undefined, made, lost, doubled>>
  BY DEF RemoveGroup, AddGroup
<1>2. TypeOK'
  BY <1>1 DEF IInv, TypeOK
<1>3. LinksOK' /\ Older
  BY <1>1 DEF IInv, LinksOK, Older
<1> QED
  BY <1>1, <1>2, <1>3, Fewer DEF IInv

(* A link that is erased and still shown was shown twice, so that its dead *)
(* listener is no surprise.                                                *)
LEMMA RemovingLink ==
    ASSUME IInv, ~undefined, NEW c \in Container, NEW k \in DOMAIN links[c],
           RemoveLink(c, k), c = Group => group # "none"
    PROVE  IInv'
<1> DEFINE p == links[c][k]
           r == RemoveAt(links[c], k)
           K == (DOMAIN links[c]) \ {k}
<1>1. /\ links' = [links EXCEPT ![c] = r]
      /\ listeners' = Unwire(c, p)
      /\ lost' = IF Within(c, p) THEN lost ELSE lost \cup {p}
      /\ UNCHANGED <<home, group, undefined, made, doubled>>
  BY DEF RemoveLink
<1>2. /\ links \in [Container -> Seq(Pair)] /\ links[c] \in Seq(Pair)
      /\ k \in 1..Len(links[c]) /\ p \in Pair
  <2>1. links \in [Container -> Seq(Pair)] /\ links[c] \in Seq(Pair)
    BY DEF IInv, LinksOK
  <2> QED
    BY <2>1
<1>3. listeners \in [Pair -> Nat]
  BY DEF IInv, TypeOK
<1>4. r \in Seq(Pair) /\ Sub(r, links[c], K)
  <2> DEFINE L == links[c]
  <2>1. L \in Seq(Pair) /\ k \in 1..Len(L)
    BY <1>2
  <2> HIDE DEF L
  <2>3. RemoveAt(L, k) \in Seq(Pair) /\ Sub(RemoveAt(L, k), L, (DOMAIN L) \ {k})
    BY <2>1, RemovedSub
  <2> QED
    BY <2>3 DEF L
<1> HIDE DEF r
<1>5. /\ links'[c] = r /\ \A d \in Container : d # c => links'[d] = links[d]
      /\ LinksOK'
  BY <1>1, <1>2, <1>4 DEF LinksOK
<1>16. K \in SUBSET DOMAIN links[c] /\ (DOMAIN links[c]) \ K = {k}
  OBVIOUS
<1> HIDE DEF p, K
<1>6. /\ Shown(links') \subseteq Shown(links) /\ Twice(links') \subseteq Twice(links)
      /\ \A i \in (DOMAIN links[c]) \ K :
             links[c][i] \in Shown(links') => links[c][i] \in Twice(links)
      /\ \A q \in Shown(links) : q \notin Shown(links') =>
             \E i \in (DOMAIN links[c]) \ K : q = links[c][i]
  <2>1. /\ links[c] \in Seq(Pair) /\ links'[c] \in Seq(Pair)
        /\ Sub(links'[c], links[c], K) /\ K \in SUBSET DOMAIN links[c]
        /\ \A d \in Container : d # c => links'[d] = links[d]
    BY <1>2, <1>4, <1>5, <1>16
  <2>2. PICK new : new = links'
    OBVIOUS
  <2>3. Keeps(new, links, c, K)
    BY <2>1, <2>2 DEF Keeps
  <2>4. /\ Shown(new) \subseteq Shown(links) /\ Twice(new) \subseteq Twice(links)
        /\ \A i \in (DOMAIN links[c]) \ K :
               links[c][i] \in Shown(new) => links[c][i] \in Twice(links)
        /\ \A q \in Shown(links) : q \notin Shown(new) =>
               \E i \in (DOMAIN links[c]) \ K : q = links[c][i]
    BY <2>3, OneKeeps
  <2> QED
    BY <2>2, <2>4
<1>7. p \in Shown(links') => p \in doubled
  BY <1>6, <1>16 DEF p, IInv
<1>8. \A q \in Shown(links) : q \notin Shown(links') => q = p
  BY <1>6, <1>16 DEF p
<1>9. /\ listeners' \in [Pair -> Nat]
      /\ \A q \in Pair : q # p => listeners'[q] = listeners[q]
      /\ \A q \in Pair : listeners'[q] > 0 => listeners[q] > 0
      /\ Within(c, p) => listeners'[p] = 0
  BY <1>1, <1>2, <1>3 DEF Unwire, Disconnected
<1>10. TypeOK'
  <2>1. (group = "none" => links[Group] = <<>> /\ \A n \in Node : home[n] # Group)'
    <3> SUFFICES ASSUME group = "none"
                 PROVE  links'[Group] = <<>> /\ \A n \in Node : home[n] # Group
      BY <1>1
    <3>1. links[Group] = <<>> /\ \A n \in Node : home[n] # Group
      BY DEF IInv, TypeOK
    <3>2. Group \in Container /\ Group # c
      BY DEF Container
    <3> QED
      BY <1>5, <3>1, <3>2
  <2>2. Shown(links') \subseteq Pair
    BY <1>5, ShownPairs DEF LinksOK
  <2>3. (lost \subseteq Pair)'
    BY <1>1, <1>2 DEF IInv, TypeOK
  <2> QED
    BY <1>1, <1>9, <2>1, <2>2, <2>3 DEF IInv, TypeOK
<1>11. Older
  BY <1>1 DEF Older
<1>12. lost \subseteq lost'
  BY <1>1
<1>13. \A q \in Shown(links') :
          Alive(Owner[q[1]])' /\ Alive(Owner[q[2]])' /\ q \notin doubled =>
              listeners'[q] = listeners[q]
  <2>1. Shown(links') \subseteq Pair
    BY <1>5, ShownPairs DEF LinksOK
  <2> QED
    BY <1>7, <1>9, <2>1
<1>14. \A q \in Shown(links) :
          q \notin Shown(links') /\ listeners'[q] > 0 => q \in lost'
  BY <1>1, <1>8, <1>9
<1>15. doubled' = doubled
  BY <1>1
<1> QED
  BY <1>5, <1>6, <1>9, <1>10, <1>11, <1>12, <1>13, <1>14, <1>15, Fewer DEF IInv
LEMMA DeletingNode ==
    ASSUME IInv, ~undefined, NEW c \in Container, NEW n \in Node, DeleteNode(c, n),
           c = Group => group # "none"
    PROVE  IInv'
<1> DEFINE L == links[c]
           E == Erased(L, n)
           cut == {p \in E.gone : Within(c, p)}
<1>1. /\ home[n] = c /\ home' = [home EXCEPT ![n] = Deleted]
      /\ undefined' = E.over
      /\ links' = [links EXCEPT ![c] = E.left]
      /\ listeners' = WithoutOutputsOf({n}, Disconnected(cut))
      /\ lost' = lost \cup (E.gone \ cut)
      /\ UNCHANGED <<group, made, doubled>>
  BY DEF DeleteNode
<1>2. links \in [Container -> Seq(Pair)] /\ L \in Seq(Pair)
  BY DEF IInv, LinksOK
<1>3. E \in Copies(Pair) /\ Parted(E, L)
  BY <1>2, ErasedParts
<1> HIDE DEF E
<1>4. E.left \in Seq(Pair) /\ E.gone \subseteq Pair /\ E.over \in BOOLEAN
  BY <1>3 DEF Copies
<1>5. PICK K \in SUBSET DOMAIN L :
          Sub(E.left, L, K) /\ E.gone = {L[i] : i \in (DOMAIN L) \ K}
  BY <1>3 DEF Parted
<1> HIDE DEF L, cut
<1>6. /\ links'[c] = E.left /\ \A d \in Container : d # c => links'[d] = links[d]
      /\ LinksOK'
  BY <1>1, <1>2, <1>4 DEF LinksOK
<1>7. /\ Shown(links') \subseteq Shown(links) /\ Twice(links') \subseteq Twice(links)
      /\ \A i \in (DOMAIN L) \ K : L[i] \in Shown(links') => L[i] \in Twice(links)
      /\ \A q \in Shown(links) : q \notin Shown(links') =>
             \E i \in (DOMAIN L) \ K : q = L[i]
  <2>1. /\ links[c] \in Seq(Pair) /\ links'[c] \in Seq(Pair)
        /\ Sub(links'[c], links[c], K) /\ K \in SUBSET DOMAIN links[c]
        /\ \A d \in Container : d # c => links'[d] = links[d]
    BY <1>2, <1>4, <1>5, <1>6 DEF L
  <2>2. PICK new : new = links'
    OBVIOUS
  <2>3. Keeps(new, links, c, K)
    BY <2>1, <2>2 DEF Keeps
  <2>4. /\ Shown(new) \subseteq Shown(links) /\ Twice(new) \subseteq Twice(links)
        /\ \A i \in (DOMAIN links[c]) \ K :
               links[c][i] \in Shown(new) => links[c][i] \in Twice(links)
        /\ \A q \in Shown(links) : q \notin Shown(new) =>
               \E i \in (DOMAIN links[c]) \ K : q = links[c][i]
    BY <2>3, OneKeeps
  <2> QED
    BY <2>2, <2>4 DEF L
<1>8. \A q \in E.gone : q \in Shown(links') => q \in doubled
  BY <1>5, <1>7 DEF IInv
<1>9. \A q \in Shown(links) : q \notin Shown(links') => q \in E.gone
  BY <1>5, <1>7
<1>10. listeners \in [Pair -> Nat]
  BY DEF IInv, TypeOK
<1>11. listeners' = [p \in Pair |-> IF Owner[p[1]] = n \/ p \in cut THEN 0 ELSE listeners[p]]
  BY <1>1, <1>10 DEF WithoutOutputsOf, Disconnected
<1>12. /\ listeners' \in [Pair -> Nat]
       /\ \A q \in Pair : listeners'[q] > 0 => listeners[q] > 0
       /\ \A q \in Pair : q \in cut => ~(listeners'[q] > 0)
       /\ \A q \in Pair : q \notin cut /\ Owner[q[1]] # n => listeners'[q] = listeners[q]
  BY <1>10, <1>11
<1>13. Shown(links') \subseteq Pair /\ Shown(links) \subseteq Pair
  BY <1>2, <1>6, ShownPairs DEF LinksOK
<1>14. home \in [Node -> Container \cup {Unborn, Deleted}]
  BY DEF IInv, TypeOK
<1>15. Deleted \notin Container /\ Deleted # Unborn /\ Deleted # Group
  BY NodeEditorAssumption DEF Container
<1>16. TypeOK'
  <2>1. (group = "none" => links[Group] = <<>> /\ \A m \in Node : home[m] # Group)'
    <3> SUFFICES ASSUME group = "none"
                 PROVE  links'[Group] = <<>> /\ \A m \in Node : home'[m] # Group
      BY <1>1
    <3>1. links[Group] = <<>> /\ \A m \in Node : home[m] # Group
      BY DEF IInv, TypeOK
    <3>2. Group \in Container /\ Group # c
      BY DEF Container
    <3> QED
      BY <1>1, <1>6, <1>14, <1>15, <3>1, <3>2
  <2>2. (home \in [Node -> Container \cup {Unborn, Deleted}])'
    BY <1>1, <1>14
  <2>3. (lost \subseteq Pair)'
    BY <1>1, <1>4 DEF IInv, TypeOK
  <2>4. (undefined \in BOOLEAN)'
    BY <1>1, <1>4
  <2> QED
    BY <1>1, <1>12, <1>13, <2>1, <2>2, <2>3, <2>4 DEF IInv, TypeOK
<1>17. Older
  BY <1>1, <1>14, <1>15 DEF Older
<1>18. \A q \in Shown(links') :
          Alive(Owner[q[1]])' /\ Alive(Owner[q[2]])' /\ q \notin doubled =>
              listeners'[q] = listeners[q]
  <2> SUFFICES ASSUME NEW q \in Shown(links'), Alive(Owner[q[1]])', q \notin doubled
               PROVE  listeners'[q] = listeners[q]
    OBVIOUS
  <2>1. q \notin cut
    BY <1>8 DEF cut
  <2>2. Owner[q[1]] # n
    <3>1. home'[n] = Deleted
      BY <1>1, <1>14
    <3> QED
      BY <1>15, <3>1 DEF Alive
  <2> QED
    BY <1>12, <1>13, <2>1, <2>2
<1>19. \A q \in Shown(links) :
          q \notin Shown(links') /\ listeners'[q] > 0 => q \in lost'
  BY <1>1, <1>9, <1>12, <1>13
<1>20. doubled' = doubled /\ lost \subseteq lost'
  BY <1>1
<1> QED
  BY <1>6, <1>7, <1>12, <1>16, <1>17, <1>18, <1>19, <1>20, Fewer DEF IInv

LEMMA Clearing ==
    ASSUME IInv, ~undefined, NEW c \in Container, Clear(c)
    PROVE  IInv'
<1> DEFINE gone == {n \in Node : home[n] = c}
<1>1. /\ home' = [n \in Node |-> IF n \in gone THEN Deleted ELSE home[n]]
      /\ group' = IF c = Root /\ group = "inside" THEN "outside" ELSE group
      /\ links' = [links EXCEPT ![c] = <<>>]
      /\ listeners' = WithoutOutputsOf(gone, listeners)
      /\ lost' = lost \cup Range(links[c])
      /\ UNCHANGED <<undefined, made, doubled>>
  BY DEF Clear
<1>2. links \in [Container -> Seq(Pair)] /\ links[c] \in Seq(Pair)
  BY DEF IInv, LinksOK
<1>3. /\ links'[c] = <<>> /\ \A d \in Container : d # c => links'[d] = links[d]
      /\ LinksOK'
  BY <1>1, <1>2 DEF LinksOK
<1>4. /\ Shown(links') \subseteq Shown(links) /\ Twice(links') \subseteq Twice(links)
      /\ \A q \in Shown(links) : q \notin Shown(links') => q \in Range(links[c])
  <2>1. PICK new : new = links'
    OBVIOUS
  <2>2. /\ DOMAIN new[c] = {}
        /\ \A d \in Container : d # c => new[d] = links[d]
    BY <1>3, <2>1
  <2>3. \A q : q \in Shown(new) => q \in Shown(links)
    BY <2>2, ShownIs
  <2>4. \A q : q \in Twice(new) => q \in Twice(links)
    BY <2>2, TwiceIs
  <2>5. \A q : q \in Shown(links) /\ q \notin Shown(new) => q \in Range(links[c])
    BY <2>2, ShownIs DEF Range
  <2> QED
    BY <2>1, <2>3, <2>4, <2>5
<1>5. listeners \in [Pair -> Nat]
  BY DEF IInv, TypeOK
<1> HIDE DEF gone
<1>6. listeners' = [p \in Pair |-> IF Owner[p[1]] \in gone THEN 0 ELSE listeners[p]]
  BY <1>1 DEF WithoutOutputsOf
<1>7. /\ listeners' \in [Pair -> Nat]
      /\ \A q \in Pair : listeners'[q] > 0 => listeners[q] > 0
      /\ \A q \in Pair : Owner[q[1]] \notin gone => listeners'[q] = listeners[q]
  BY <1>5, <1>6
<1>8. Shown(links') \subseteq Pair
  BY <1>3, ShownPairs DEF LinksOK
<1>9. home \in [Node -> Container \cup {Unborn, Deleted}]
  BY DEF IInv, TypeOK
<1>10. Deleted \notin Container /\ Deleted # Unborn /\ Deleted # Group
  BY NodeEditorAssumption DEF Container
<1>11. TypeOK'
  <2>1. (group = "none" => links[Group] = <<>> /\ \A m \in Node : home[m] # Group)'
    <3> SUFFICES ASSUME group' = "none"
                 PROVE  links'[Group] = <<>> /\ \A m \in Node : home'[m] # Group
      OBVIOUS
    <3>1. links[Group] = <<>> /\ \A m \in Node : home[m] # Group
      BY <1>1 DEF IInv, TypeOK
    <3>2. Group \in Container
      BY DEF Container
    <3> QED
      BY <1>1, <1>3, <1>10, <3>1, <3>2
  <2>2. (home \in [Node -> Container \cup {Unborn, Deleted}])'
    BY <1>1, <1>9
  <2>3. (lost \subseteq Pair)'
    BY <1>1, <1>2 DEF IInv, TypeOK, Range
  <2>4. (group \in {"none", "inside", "outside"})'
    BY <1>1 DEF IInv, TypeOK
  <2> QED
    BY <1>1, <1>7, <1>8, <2>1, <2>2, <2>3, <2>4 DEF IInv, TypeOK
<1>12. Older
  BY <1>1, <1>10 DEF Older
<1>13. \A q \in Shown(links') :
          Alive(Owner[q[1]])' /\ Alive(Owner[q[2]])' /\ q \notin doubled =>
              listeners'[q] = listeners[q]
  <2> SUFFICES ASSUME NEW q \in Shown(links'), Alive(Owner[q[1]])'
               PROVE  listeners'[q] = listeners[q]
    OBVIOUS
  <2>1. q \in Pair /\ Owner[q[1]] \in Node
    BY <1>8, Owners
  <2>2. Owner[q[1]] \notin gone
    BY <1>1, <1>10, <2>1 DEF Alive
  <2> QED
    BY <1>7, <2>1, <2>2
<1>14. \A q \in Shown(links) :
          q \notin Shown(links') /\ listeners'[q] > 0 => q \in lost'
  BY <1>1, <1>4
<1>15. doubled' = doubled /\ lost \subseteq lost'
  BY <1>1
<1> QED
  BY <1>3, <1>4, <1>7, <1>11, <1>12, <1>13, <1>14, <1>15, Fewer DEF IInv

LEMMA AddingContainer ==
    ASSUME IInv, ~undefined, NEW N \in SUBSET {n \in Node : home[n] = Root},
           NEW S \in SUBSET DOMAIN links[Root], AddContainer(N, S)
    PROVE  IInv'
<1> DEFINE L == links[Root]
           D == (DOMAIN L) \ S
<1>1. /\ group = "none" /\ group' = "inside"
      /\ home' = [n \in Node |-> IF n \in N THEN Group ELSE home[n]]
      /\ links' = [links EXCEPT ![Group] = Picked(L, S), ![Root] = Picked(L, D)]
      /\ UNCHANGED <<listeners, undefined, made, lost, doubled>>
  BY DEF AddContainer
<1>2. Container = {Root, Group} /\ Root # Group
  BY NodeEditorAssumption DEF Container
<1>3. links \in [Container -> Seq(Pair)] /\ L \in Seq(Pair)
  BY <1>2 DEF IInv, LinksOK
<1>4. /\ Picked(L, S) \in Seq(Pair) /\ Sub(Picked(L, S), L, S)
      /\ Picked(L, D) \in Seq(Pair) /\ Sub(Picked(L, D), L, D)
  <2>1. S \in SUBSET DOMAIN L /\ D \in SUBSET DOMAIN L
    OBVIOUS
  <2> HIDE DEF L, D
  <2> QED
    BY <1>3, <2>1, PickedIs
<1>5. links'[Group] = Picked(L, S) /\ links'[Root] = Picked(L, D) /\ LinksOK'
  BY <1>1, <1>2, <1>3, <1>4 DEF LinksOK
<1>6. links[Group] = <<>>
  BY <1>1 DEF IInv, TypeOK
<1>7. Shown(links') = Shown(links) /\ Twice(links') \subseteq Twice(links)
  <2>1. PICK new : new = links'
    OBVIOUS
  <2>2. /\ new[Group] \in Seq(Pair) /\ Sub(new[Group], links[Root], S)
        /\ new[Root] \in Seq(Pair)
        /\ Sub(new[Root], links[Root], (DOMAIN links[Root]) \ S)
    BY <1>4, <1>5, <2>1
  <2>3. Shown(new) = Shown(links) /\ Twice(new) \subseteq Twice(links)
    BY <1>2, <1>3, <1>6, <2>2, RootDivides
  <2> QED
    BY <2>1, <2>3
<1> HIDE DEF L, D
<1>8. home \in [Node -> Container \cup {Unborn, Deleted}]
  BY DEF IInv, TypeOK
<1>9. TypeOK'
  <2>1. (home \in [Node -> Container \cup {Unborn, Deleted}])'
    BY <1>1, <1>2, <1>8
  <2>2. Shown(links') \subseteq Pair
    BY <1>5, ShownPairs DEF LinksOK
  <2> QED
    BY <1>1, <2>1, <2>2 DEF IInv, TypeOK
<1>10. Older
  <2>1. Group # Unborn
    BY NodeEditorAssumption
  <2> QED
    BY <1>1, <1>2, <2>1 DEF Older
<1> QED
  BY <1>1, <1>5, <1>7, <1>9, <1>10, Fewer DEF IInv
-----------------------------------------------------------------------------
LEMMA Starts == Init => IInv
<1> SUFFICES ASSUME Init
             PROVE  IInv
  OBVIOUS
<1>1. /\ home = [n \in Node |-> Unborn] /\ group = "none"
      /\ links = [c \in Container |-> <<>>] /\ listeners = [p \in Pair |-> 0]
      /\ undefined = FALSE /\ made = 0 /\ lost = {} /\ doubled = {}
  BY DEF Init
<1>2. Container = {Root, Group} /\ Unborn \notin Container
  BY NodeEditorAssumption DEF Container
<1>3. \A c \in Container : links[c] = <<>> /\ DOMAIN links[c] = {}
  BY <1>1
<1>4. Shown(links) = {} /\ Twice(links) = {}
  <2>1. \A p : p \notin Shown(links) /\ p \notin Twice(links)
    BY <1>3, ShownIs, TwiceIs
  <2> QED
    BY <2>1
<1>5. LinksOK
  BY <1>1 DEF LinksOK
<1>6. TypeOK
  <2>1. links[Group] = <<>> /\ \A n \in Node : home[n] # Group
    BY <1>1, <1>2, <1>3
  <2>2. home \in [Node -> Container \cup {Unborn, Deleted}]
    BY <1>1
  <2>3. made \in 0..MaxLinks
    BY <1>1, NodeEditorAssumption
  <2>4. listeners \in [Pair -> Nat]
    BY <1>1
  <2> QED
    BY <1>1, <1>4, <2>1, <2>2, <2>3, <2>4 DEF TypeOK
<1>7. JoinsTheBorn /\ ShownIsWired /\ WiredIsShown
  BY <1>1, <1>4 DEF JoinsTheBorn, ShownIsWired, WiredIsShown
<1> QED
  BY <1>4, <1>5, <1>6, <1>7 DEF IInv

LEMMA Steps == IInv /\ [Next]_vars => IInv'
<1> SUFFICES ASSUME IInv, [Next]_vars
             PROVE  IInv'
  OBVIOUS
<1>1. CASE UNCHANGED vars
  <2>1. /\ home' = home /\ group' = group /\ links' = links /\ listeners' = listeners
        /\ undefined' = undefined /\ made' = made /\ lost' = lost /\ doubled' = doubled
    BY <1>1 DEF vars
  <2>2. TypeOK' /\ LinksOK'
    BY <2>1 DEF IInv, TypeOK, LinksOK
  <2>3. JoinsTheBorn' /\ (Twice(links) \subseteq doubled)'
    BY <2>1 DEF IInv, JoinsTheBorn
  <2>4. ShownIsWired' /\ WiredIsShown'
    BY <2>1 DEF IInv, ShownIsWired, WiredIsShown, LivePair, Alive
  <2> QED
    BY <2>2, <2>3, <2>4 DEF IInv
<1>2. CASE Next
  <2>1. ~undefined
    BY <1>2 DEF Next
  <2>2. \A c \in Open : c \in Container /\ (c = Group => group # "none")
    BY NodeEditorAssumption DEF Open, Container
  <2>3. \A c \in Container, q \in Pair : Within(c, q) \/ (Reachable(Owner[q[1]]) /\ Reachable(Owner[q[2]])) =>
            home[Owner[q[1]]] \in Container /\ home[Owner[q[2]]] \in Container
    BY DEF Within, Reachable, Container
  <2>4. ASSUME NEW c \in Open, NEW n \in Node, CreateNode(c, n)
        PROVE  IInv'
    BY <2>1, <2>4, CreatingNode
  <2>5. ASSUME NEW c \in Open, NEW n \in Node, DeleteNode(c, n)
        PROVE  IInv'
    BY <2>1, <2>2, <2>5, DeletingNode
  <2>6. ASSUME NEW c \in Open, NEW p \in Pair, CreateLink(c, p)
        PROVE  IInv'
    <3>1. Connect(c, p) /\ Within(c, p)
      BY <2>6 DEF CreateLink
    <3>2. c \in Container /\ (c = Group => group # "none")
      BY <2>2
    <3>3. home[Owner[p[1]]] \in Container /\ home[Owner[p[2]]] \in Container
      BY <2>3, <3>1, <3>2
    <3> QED
      BY <2>1, <3>1, <3>2, <3>3, Connecting
  <2>7. ASSUME NEW c \in Open, NEW k \in DOMAIN links[c], RemoveLink(c, k)
        PROVE  IInv'
    BY <2>1, <2>2, <2>7, RemovingLink
  <2>8. ASSUME NEW c \in Open, Clear(c)
        PROVE  IInv'
    BY <2>1, <2>2, <2>8, Clearing
  <2>9. ASSUME NEW p \in Pair, ConnectProcNodes(p)
        PROVE  IInv'
    <3>1. Connect(Root, p) /\ Reachable(Owner[p[1]]) /\ Reachable(Owner[p[2]])
      BY <2>9 DEF ConnectProcNodes
    <3>2. Root \in Container /\ Root # Group
      BY NodeEditorAssumption DEF Container
    <3>3. home[Owner[p[1]]] \in Container /\ home[Owner[p[2]]] \in Container
      BY <2>3, <3>1, <3>2
    <3> QED
      BY <2>1, <3>1, <3>2, <3>3, Connecting
  <2>10. ASSUME NEW N \in SUBSET {n \in Node : home[n] = Root},
                NEW S \in SUBSET DOMAIN links[Root], AddContainer(N, S)
         PROVE  IInv'
    BY <2>1, <2>10, AddingContainer
  <2>11. ASSUME RemoveGroup \/ AddGroup
         PROVE  IInv'
    BY <2>1, <2>11, ChangingGroup
  <2> QED
    BY <1>2, <2>4, <2>5, <2>6, <2>7, <2>8, <2>9, <2>10, <2>11 DEF Next
<1> QED
  BY <1>1, <1>2

LEMMA Invariant == Spec => []IInv
<1>1. Init => IInv
  BY Starts
<1>2. IInv /\ [Next]_vars => IInv'
  BY Steps
<1> QED
  BY <1>1, <1>2, PTL DEF Spec

(* Every variable keeps its type; a group that was never made is empty.    *)
THEOREM NodeEditorTypeCorrect == Spec => []TypeOK
<1>1. IInv => TypeOK
  BY DEF IInv
<1> QED
  BY <1>1, Invariant, PTL

(* A drawn link between two nodes that exist carries data, unless its pair *)
(* once had two links: disconnect() of one takes the other's listener out. *)
THEOREM ShownWired == Spec => []ShownIsWired
<1>1. IInv => ShownIsWired
  BY DEF IInv
<1> QED
  BY <1>1, Invariant, PTL

(* What carries data is drawn, unless its link was erased without both its *)
(* ports in the container, or with "clear editor".                         *)
THEOREM WiredShown == Spec => []WiredIsShown
<1>1. IInv => WiredIsShown
  BY DEF IInv
<1> QED
  BY <1>1, Invariant, PTL

(* The deletion of a node with one link, in the container where both ends  *)
(* are, leaves nothing behind. The listener of a link that was not erased  *)
(* would have to be shown (WiredIsShown), and the only one is erased.      *)
LEMMA DeletedOnce ==
    ASSUME IInv, ~undefined, NEW c \in Container, NEW n \in Node, DeleteNode(c, n),
           Single(c, n), NEW p \in PairsOf(n)
    PROVE  listeners'[p] = 0 /\ p \notin Shown(links')
<1> DEFINE L == links[c]
           E == Erased(L, n)
           cut == {q \in E.gone : Within(c, q)}
<1>1. /\ links' = [links EXCEPT ![c] = E.left]
      /\ listeners' = WithoutOutputsOf({n}, Disconnected(cut))
  BY DEF DeleteNode
<1>2. links \in [Container -> Seq(Pair)] /\ L \in Seq(Pair)
  BY DEF IInv, LinksOK
<1>3. p \in Pair /\ n \in {Owner[p[1]], Owner[p[2]]}
  BY DEF PairsOf
<1>4. \A g, h \in Hits(L, n) : g = h
  BY DEF Single
<1>5. (p \in Range(L) => p \in E.gone) /\ p \notin Range(E.left)
  BY <1>2, <1>3, <1>4, ErasedOne
<1> HIDE DEF E
<1>6. \A d \in Container : d # c => p \notin Range(links[d])
  BY DEF Single
<1>7. p \in Range(L) => Within(c, p)
  BY DEF Single
<1>8. p \notin lost
  BY DEF Single
<1> HIDE DEF L, cut
<1>9. p \notin Shown(links')
  <2>1. links'[c] = E.left /\ \A d \in Container : d # c => links'[d] = links[d]
    BY <1>1, <1>2
  <2>2. \A d \in Container : p \notin Range(links'[d])
    BY <1>5, <1>6, <2>1
  <2> QED
    BY <2>2 DEF Shown
<1>10. listeners \in [Pair -> Nat]
  BY DEF IInv, TypeOK
<1>11. listeners'[p] = IF Owner[p[1]] = n \/ p \in cut THEN 0 ELSE listeners[p]
  BY <1>1, <1>3, <1>10 DEF WithoutOutputsOf, Disconnected
<1>12. CASE p \in Range(L)
  <2>1. p \in cut
    BY <1>5, <1>7, <1>12 DEF cut
  <2> QED
    BY <1>9, <1>11, <2>1
<1>13. CASE p \notin Range(L)
  <2>1. p \notin Shown(links)
    BY <1>6, <1>13 DEF Shown, L
  <2>2. ~(listeners[p] > 0)
    BY <1>3, <1>8, <2>1 DEF IInv, WiredIsShown
  <2>3. listeners[p] = 0
    BY <1>3, <1>10, <2>2
  <2> QED
    BY <1>9, <1>11, <2>3
<1> QED
  BY <1>12, <1>13

(* Deleting a node with one link leaves no listener of it and no link.     *)
THEOREM DeletedCleanly == Spec => SingleLinkDeletedCleanly
<1> DEFINE Clean ==
        \A c \in Container, n \in Node :
            DeleteNode(c, n) /\ Single(c, n) =>
                \A p \in PairsOf(n) : listeners'[p] = 0 /\ p \notin Shown(links')
<1>1. IInv /\ [Next]_vars => [Clean]_vars
  <2> SUFFICES ASSUME IInv, Next
               PROVE  Clean
    OBVIOUS
  <2>1. ~undefined
    BY DEF Next
  <2> QED
    BY <2>1, DeletedOnce
<1> HIDE DEF Clean
<1>2. Spec => [][Clean]_vars
  BY <1>1, Invariant, PTL DEF Spec
<1> QED
  BY <1>2 DEF SingleLinkDeletedCleanly, Clean
=============================================================================
