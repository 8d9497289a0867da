----------------------------- MODULE TableFacts -----------------------------
(***************************************************************************)
(* Facts about rows and tables, as the proofs about plans use them: a row  *)
(* is a record that has its fields, a table a sequence of rows. And what   *)
(* stands in for induction, which the provers have not: that a set of      *)
(* numbers has a least one, with what follows for functions that are       *)
(* defined step by step (Iterated) or by recursion (Recursed).             *)
(***************************************************************************)
EXTENDS Sequences, Naturals, SequenceTheorems, WellFoundedInduction, TLAPS

\* r has the fields named.
Fields(r, names) == r = [f \in names |-> r[f]]

IsSeq(s) == s \in Seq({s[i] : i \in DOMAIN s})

\* A field that is written leaves the fields there.
LEMMA FieldWritten ==
  ASSUME NEW r, NEW names, Fields(r, names), NEW x, NEW f \in names
  PROVE  Fields([r EXCEPT ![f] = x], names)
  BY DEF Fields

\* What is written over the rows of a table leaves as many of them.
LEMMA SameLength ==
  ASSUME NEW s, NEW t, IsSeq(s), t = [i \in DOMAIN s |-> t[i]]
  PROVE  IsSeq(t) /\ Len(t) = Len(s)
<1> DEFINE S == {s[i] : i \in DOMAIN s}
           T == {t[i] : i \in DOMAIN s}
<1>1. s \in Seq(S)
  BY DEF IsSeq
<1>2. DOMAIN s = 1 .. Len(s) /\ Len(s) \in Nat
  BY <1>1, LenProperties
<1>3. DOMAIN t = 1 .. Len(s)
  BY <1>2
<1>4. t \in [1 .. Len(s) -> T]
  BY <1>2, <1>3
<1>5. t \in Seq(T)
  BY <1>2, <1>4, SeqDef
<1>6. Len(t) = Len(s)
  BY <1>2, <1>3, <1>5, LenProperties
<1> QED
  BY <1>2, <1>3, <1>5, <1>6 DEF IsSeq

\* Two sequences of the same rows are the same.
LEMMA SameRows ==
  ASSUME NEW s, NEW t, IsSeq(s), IsSeq(t), DOMAIN s = DOMAIN t, \A i \in DOMAIN s : s[i] = t[i]
  PROVE  s = t
<1>1. s = [i \in DOMAIN s |-> s[i]] /\ t = [i \in DOMAIN t |-> t[i]]
  BY LenProperties DEF IsSeq
<1> QED
  BY <1>1

\* One row more.
LEMMA OneMore ==
  ASSUME NEW s, NEW x, IsSeq(s)
  PROVE  /\ IsSeq(Append(s, x))
         /\ Len(Append(s, x)) = Len(s) + 1
         /\ DOMAIN Append(s, x) = DOMAIN s \cup {Len(s) + 1}
         /\ \A i \in DOMAIN s : Append(s, x)[i] = s[i]
         /\ Append(s, x)[Len(s) + 1] = x
<1> DEFINE S == {s[i] : i \in DOMAIN s} \cup {x}
           t == Append(s, x)
<1>1. s \in Seq(S)
  <2>1. s \in Seq({s[i] : i \in DOMAIN s})
    BY DEF IsSeq
  <2>2. DOMAIN s = 1 .. Len(s) /\ Len(s) \in Nat
    BY <2>1, LenProperties
  <2>3. s \in [1 .. Len(s) -> S]
    BY <2>1, <2>2, LenProperties
  <2> QED
    BY <2>2, <2>3, SeqDef
<1>2. t \in Seq(S) /\ Len(t) = Len(s) + 1
  BY <1>1, AppendProperties
<1>3. DOMAIN t = 1 .. Len(t) /\ Len(t) \in Nat
  BY <1>2, LenProperties
<1>4. t \in [1 .. Len(t) -> {t[i] : i \in DOMAIN t}]
  BY <1>2, <1>3, LenProperties
<1>5. IsSeq(t)
  <2> HIDE DEF t
  <2>1. t \in Seq({t[i] : i \in DOMAIN t})
    BY <1>3, <1>4, SeqDef
  <2> QED
    BY <2>1 DEF IsSeq
<1>6. DOMAIN s = 1 .. Len(s) /\ Len(s) \in Nat
  BY <1>1, LenProperties
<1>7. /\ \A i \in DOMAIN s : t[i] = s[i]
      /\ t[Len(s) + 1] = x
  BY <1>1, <1>6, AppendProperties
<1>8. DOMAIN t = DOMAIN s \cup {Len(s) + 1}
  BY <1>2, <1>3, <1>6
<1> QED
  BY <1>2, <1>5, <1>7, <1>8

\* The rows of a table are numbered from one.
LEMMA Numbered ==
  ASSUME NEW s, IsSeq(s)
  PROVE  DOMAIN s = 1 .. Len(s) /\ Len(s) \in Nat
  BY LenProperties DEF IsSeq

\* A set of numbers that is not empty has a least one.
LEMMA LeastNumber ==
  ASSUME NEW T \in SUBSET Nat, T # {}
  PROVE  \E n \in T : \A m \in T : n <= m
<1> DEFINE R == OpToRel(<, Nat)
<1>1. IsWellFoundedOn(R, Nat)
  BY NatLessThanWellFounded
<1>2. \A x, y \in Nat : y < x => <<y, x>> \in R
  BY DEF OpToRel
<1> HIDE DEF R
<1>3. \E n \in T : \A m \in T : <<m, n>> \notin R
  BY <1>1, WFMin
<1>4. PICK n \in T : \A m \in T : <<m, n>> \notin R
  BY <1>3
<1>5. ASSUME NEW m \in T PROVE n <= m
  <2>1. n \in Nat /\ m \in Nat
    OBVIOUS
  <2>2. ~(m < n)
    BY <1>2, <1>4, <2>1, Zenon
  <2> QED
    BY <2>1, <2>2
<1> QED
  BY <1>5

\* Induction up to a number.
LEMMA UpTo ==
  ASSUME NEW n \in Nat, NEW S, 0 \in S, \A i \in 0 .. n - 1 : i \in S => i + 1 \in S
  PROVE  0 .. n \subseteq S
<1> DEFINE T == (0 .. n) \ S
<1> SUFFICES ASSUME T # {} PROVE FALSE
  OBVIOUS
<1>1. T \in SUBSET Nat
  OBVIOUS
<1>2. PICK i \in T : \A j \in T : i <= j
  <2> HIDE DEF T
  <2> QED BY <1>1, LeastNumber
<1>3. i \in 1 .. n
  OBVIOUS
<1>4. i - 1 \in 0 .. n - 1 /\ ~(i <= i - 1) /\ (i - 1) + 1 = i
  BY <1>3
<1>5. i - 1 \in S
  BY <1>2, <1>4
<1> QED
  BY <1>3, <1>4, <1>5

\* f is made of base by G[1], G[2] and so on.
MadeOf(f, n, V, base, G) ==
  f \in [0 .. n -> V] /\ f[0] = base /\ \A i \in 1 .. n : f[i] = G[i][f[i - 1]]

\* What is made step by step is there.
LEMMA Iterated ==
  ASSUME NEW n \in Nat, NEW V, NEW base \in V, NEW G \in [1 .. n -> [V -> V]]
  PROVE  \E f : MadeOf(f, n, V, base, G)
<1> DEFINE Made(f, k) == f = [i \in 0 .. k |-> IF i = 0 THEN base ELSE G[i][f[i - 1]]]
           S == {k \in 0 .. n : \E f \in [0 .. k -> V] : Made(f, k)}
<1>1. 0 \in S
  <2> DEFINE f == [i \in 0 .. 0 |-> base]
  <2>1. f \in [0 .. 0 -> V] /\ Made(f, 0)
    OBVIOUS
  <2>2. 0 \in 0 .. n
    OBVIOUS
  <2> HIDE DEF f, Made
  <2> QED
    BY <2>1, <2>2
<1>2. ASSUME NEW k \in 0 .. n - 1, k \in S PROVE k + 1 \in S
  <2>1. PICK f \in [0 .. k -> V] : Made(f, k)
    BY <1>2
  <2> DEFINE g == [i \in 0 .. k + 1 |-> IF i = k + 1 THEN G[k + 1][f[k]] ELSE f[i]]
  <2>2. k \in Nat /\ k + 1 \in 1 .. n /\ k + 1 \in 0 .. n
    OBVIOUS
  <2>3. G[k + 1] \in [V -> V] /\ f[k] \in V
    BY <2>1, <2>2
  <2>4. g \in [0 .. k + 1 -> V]
    BY <2>1, <2>2, <2>3
  <2>5. \A i \in 0 .. k : f[i] = IF i = 0 THEN base ELSE G[i][f[i - 1]]
    BY <2>1
  <2>6. ASSUME NEW i \in 0 .. k + 1 PROVE g[i] = IF i = 0 THEN base ELSE G[i][g[i - 1]]
    <3>1. CASE i = k + 1
      BY <3>1, <2>2
    <3>2. CASE i # k + 1
      <4>1. i \in 0 .. k /\ g[i] = f[i] /\ (i # 0 => i - 1 \in 0 .. k /\ g[i - 1] = f[i - 1])
        BY <3>2, <2>2
      <4> QED
        BY <4>1, <2>5
    <3> QED
      BY <3>1, <3>2
  <2>7. Made(g, k + 1)
    BY <2>6
  <2> QED
    BY <2>2, <2>4, <2>7
<1>3. n \in S
  <2> HIDE DEF S
  <2>1. 0 .. n \subseteq S
    BY <1>1, <1>2, UpTo
  <2> QED
    BY <2>1
<1>4. PICK f \in [0 .. n -> V] : Made(f, n)
  BY <1>3
<1>5. MadeOf(f, n, V, base, G)
  BY <1>4 DEF MadeOf
<1> QED
  BY <1>5

\* What holds wherever it holds for all that measures less holds everywhere.
LEMMA ByMeasure ==
  ASSUME NEW D, NEW mu \in [D -> Nat], NEW S,
         \A x \in D : (\A y \in D : mu[y] < mu[x] => y \in S) => x \in S
  PROVE  D \subseteq S
<1> DEFINE T == {mu[x] : x \in D \ S}
<1> SUFFICES ASSUME T # {} PROVE FALSE
  OBVIOUS
<1>1. T \in SUBSET Nat
  OBVIOUS
<1>2. PICK k \in T : \A j \in T : k <= j
  <2> HIDE DEF T
  <2> QED BY <1>1, LeastNumber
<1>3. PICK x \in D \ S : k = mu[x]
  OBVIOUS
<1>4. ASSUME NEW y \in D, mu[y] < mu[x] PROVE y \in S
  <2>1. mu[y] \in Nat /\ mu[x] \in Nat /\ ~(mu[x] <= mu[y])
    BY <1>4
  <2> QED
    BY <1>2, <1>3, <2>1
<1> QED
  BY <1>3, <1>4

\* f is what G makes of it.
MadeBy(f, D, V, G) == f \in [D -> V] /\ f = G[f]

\* A recursion that asks only for what measures less is that of a function.
LEMMA Recursed ==
  ASSUME NEW D, NEW V, NEW o \in V, NEW K \in Nat, NEW mu \in [D -> 0 .. K],
         NEW G \in [[D -> V] -> [D -> V]],
         \A f, g \in [D -> V] : \A x \in D :
            (\A y \in D : mu[y] < mu[x] => f[y] = g[y]) => G[f][x] = G[g][x]
  PROVE  \E f : MadeBy(f, D, V, G)
<1> DEFINE W == [D -> V]
           n == K + 2
           base == [x \in D |-> o]
           H == [i \in 1 .. n |-> G]
           Same(F, k) == \A x \in D : mu[x] < k => F[k + 1][x] = F[k][x]
<1>1. n \in Nat /\ base \in W
  OBVIOUS
<1>2. H \in [1 .. n -> [W -> W]]
  OBVIOUS
<1>3. PICK F : MadeOf(F, n, W, base, H)
  <2> HIDE DEF n, W, base, H
  <2> QED
    BY <1>1, <1>2, Iterated
<1>4. /\ \A i \in 0 .. n : F[i] \in W
      /\ \A i \in 1 .. n : F[i] = G[F[i - 1]]
  BY <1>3 DEF MadeOf
<1> DEFINE S == {k \in 0 .. K + 1 : Same(F, k)}
<1> HIDE DEF base, H
<1>5. 0 \in S
  BY <1>1
<1>6. ASSUME NEW k \in 0 .. (K + 1) - 1, k \in S PROVE k + 1 \in S
  <2>1. /\ k + 1 \in 0 .. K + 1 /\ k \in 0 .. n /\ k + 1 \in 0 .. n /\ k + 2 \in 0 .. n
        /\ k + 1 \in 1 .. n /\ k + 2 \in 1 .. n /\ (k + 2) - 1 = k + 1 /\ (k + 1) - 1 = k
        /\ (k + 1) + 1 = k + 2
    OBVIOUS
  <2>2. F[k + 2] = G[F[k + 1]] /\ F[k + 1] = G[F[k]] /\ F[k] \in W /\ F[k + 1] \in W
    BY <1>4, <2>1
  <2>3. ASSUME NEW x \in D, mu[x] < k + 1 PROVE F[k + 2][x] = F[k + 1][x]
    <3>1. ASSUME NEW y \in D, mu[y] < mu[x] PROVE F[k + 1][y] = F[k][y]
      <4>1. mu[y] < k
        <5>1. mu[y] \in 0 .. K /\ mu[x] \in 0 .. K
          OBVIOUS
        <5> QED
          BY <2>3, <3>1, <5>1
      <4> QED
        BY <1>6, <4>1
    <3>2. G[F[k + 1]][x] = G[F[k]][x]
      BY <2>2, <3>1
    <3> QED
      BY <2>2, <3>2
  <2> QED
    BY <2>1, <2>3
<1>7. K + 1 \in S
  <2>1. 0 .. K + 1 \subseteq S
    <3> HIDE DEF S
    <3>1. K + 1 \in Nat
      OBVIOUS
    <3> QED
      BY <1>5, <1>6, <3>1, UpTo
  <2> QED
    BY <2>1
<1>8. F[K + 2] = F[K + 1]
  <2>1. K + 1 \in 0 .. n /\ K + 2 \in 0 .. n /\ (K + 1) + 1 = K + 2
    OBVIOUS
  <2>2. \A x \in D : F[K + 2][x] = F[K + 1][x]
    BY <1>7, <2>1
  <2>3. F[K + 2] \in W /\ F[K + 1] \in W
    BY <1>4, <2>1
  <2> QED
    BY <2>2, <2>3
<1>9. F[K + 2] = G[F[K + 1]] /\ F[K + 1] \in W
  <2>1. K + 2 \in 1 .. n /\ (K + 2) - 1 = K + 1 /\ K + 1 \in 0 .. n
    OBVIOUS
  <2> QED
    BY <1>4, <2>1
<1>10. MadeBy(F[K + 1], D, V, G)
  BY <1>8, <1>9 DEF MadeBy
<1> QED
  BY <1>10
=============================================================================
