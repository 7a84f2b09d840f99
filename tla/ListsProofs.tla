----------------------------- MODULE ListsProofs -----------------------------
(***************************************************************************)
(* Lemmas about lists and numbers that the proofs of several components     *)
(* need.  Induction is over sets, for a set of numbers can be given to a    *)
(* lemma, where a predicate cannot.                                         *)
(***************************************************************************)
EXTENDS Lists, SequencesExt, TLAPS, NaturalsInduction, WellFoundedInduction, SequenceTheorems,
        FiniteSetTheorems

\* A function on the first n numbers is a list of n elements.
LEMMA ListOf ==
  ASSUME NEW S, NEW n \in Nat, NEW s \in [1..n -> S]
  PROVE  s \in Seq(S) /\ Len(s) = n
<1>1. s \in Seq(S)
  BY SeqDef
<1>2. DOMAIN s = 1..n
  OBVIOUS
<1>3. QED
  BY <1>1, <1>2, LenProperties

\* A list of elements of a set is one of elements of a larger set.
LEMMA SeqWider ==
  ASSUME NEW S, NEW T, S \subseteq T, NEW s \in Seq(S)
  PROVE  s \in Seq(T)
<1>1. PICK n \in Nat : s \in [1..n -> S]
  BY SeqDef
<1>2. s \in [1..n -> T]
  BY <1>1
<1>3. QED
  BY <1>2, ListOf

\* A set that has 0, and with a number the next, has every natural number.
LEMMA SetInduction ==
  ASSUME NEW S, 0 \in S, \A n \in Nat : n \in S => n + 1 \in S
  PROVE  Nat \subseteq S
<1>. DEFINE R == {ss \in Nat \X Nat : ss[1] < ss[2]}
            T == Nat \ S
<1>1. SUFFICES ASSUME T # {} PROVE FALSE
  OBVIOUS
<1>2. IsWellFoundedOn(R, Nat)
  BY NatLessThanWellFounded DEF OpToRel
<1>3. PICK x \in T : \A y \in T : ~(<<y, x>> \in R)
  <2>. HIDE DEF R
  <2>1. T \subseteq Nat
    OBVIOUS
  <2>2. QED
    BY <1>1, <1>2, <2>1, WFMin, Zenon
<1>4. x \in Nat /\ x # 0
  OBVIOUS
<1>5. PICK y \in Nat : x = y + 1
  <2>1. x - 1 \in Nat /\ x = (x - 1) + 1
    BY <1>4
  <2>2. QED
    BY <2>1
<1>6. y \notin T
  <2>1. <<y, x>> \in R
    BY <1>4, <1>5
  <2>2. QED
    BY <1>3, <2>1
<1>7. QED
  BY <1>5, <1>6

\* The first and the last of some places in a list.
LEMMA FirstIsIn ==
  ASSUME NEW S \in SUBSET Nat, S # {}
  PROVE  Min(S) \in S /\ \A x \in S : Min(S) <= x
<1>. DEFINE I == {n \in Nat : (\E x \in S : x <= n) => \E m \in S : \A x \in S : m <= x}
<1>1. 0 \in I
  <2>1. ASSUME NEW x \in S, x <= 0 PROVE \A y \in S : x <= y
    BY <2>1
  <2>2. QED
    BY <2>1
<1>2. ASSUME NEW n \in Nat, n \in I PROVE n + 1 \in I
  <2>1. CASE \E x \in S : x <= n
    BY <1>2, <2>1
  <2>2. CASE \A x \in S : ~(x <= n)
    <3>1. \A x \in S : n + 1 <= x
      BY <2>2
    <3>2. ASSUME NEW x \in S, x <= n + 1 PROVE \A y \in S : x <= y
      BY <3>1, <3>2
    <3>3. QED
      BY <3>2
  <2>3. QED
    BY <2>1, <2>2
<1>3. PICK x \in S : x \in I
  <2>. HIDE DEF I
  <2>1. Nat \subseteq I
    BY <1>1, <1>2, SetInduction
  <2>2. QED
    BY <2>1
<1>4. \E m \in S : \A y \in S : m <= y
  BY <1>3
<1>5. QED
  BY <1>4 DEF Min

LEMMA LastIsIn ==
  ASSUME NEW n \in Nat, NEW S \in SUBSET (1..n), S # {}
  PROVE  Max(S) \in S /\ \A x \in S : x <= Max(S)
<1>. DEFINE T == {n - x : x \in S}
<1>0. ASSUME NEW x \in S PROVE x \in Nat /\ n - x \in Nat
  <2>1. x \in 1..n
    OBVIOUS
  <2>2. QED
    BY <2>1
<1>1. T \in SUBSET Nat /\ T # {}
  BY <1>0
<1>2. Min(T) \in T /\ \A y \in T : Min(T) <= y
  <2>. HIDE DEF T
  <2>1. QED
    BY <1>1, FirstIsIn
<1>3. PICK m \in S : n - m = Min(T)
  BY <1>2
<1>4. ASSUME NEW x \in S PROVE x <= m
  <2>1. n - m <= n - x
    BY <1>2, <1>3
  <2>2. x \in Nat /\ m \in Nat
    BY <1>0
  <2>3. QED
    BY <2>1, <2>2
<1>5. QED
  BY <1>4 DEF Max

\* One entry of the recursion, from the entry before it.
Entry(s, T, f, n) ==
  IF n = 0 THEN <<>> ELSE IF s[n] \in T THEN Append(f[n - 1], s[n]) ELSE f[n - 1]

\* The recursion of Only has a solution, so Only is one of its entries.
LEMMA OnlyDefined ==
  ASSUME NEW S, NEW s \in Seq(S), NEW T
  PROVE  \E f : /\ f = [n \in 0..Len(s) |-> Entry(s, T, f, n)]
                /\ Only(s, T) = f[Len(s)]
<1>. DEFINE Solves(f, m) == f = [n \in 0..m |-> Entry(s, T, f, n)]
            only[n \in 0..Len(s)] ==
              IF n = 0 THEN <<>>
              ELSE IF s[n] \in T THEN Append(only[n - 1], s[n]) ELSE only[n - 1]
            I == {m \in Nat : \E f : Solves(f, m)}
<1>1. 0 \in I
  <2>1. Solves([n \in 0..0 |-> <<>>], 0)
    BY DEF Entry
  <2>2. QED
    BY <2>1
<1>2. ASSUME NEW m \in Nat, m \in I
      PROVE  m + 1 \in I
  <2>1. PICK f : Solves(f, m)
    BY <1>2
  <2>2. PICK g : g = [n \in 0..(m + 1) |-> IF n = m + 1 THEN Entry(s, T, f, n) ELSE f[n]]
    OBVIOUS
  <2>3. ASSUME NEW n \in 0..(m + 1)
        PROVE  g[n] = Entry(s, T, g, n)
    <3>1. CASE n = 0
      BY <2>1, <2>2, <3>1 DEF Entry
    <3>2. CASE n # 0
      <4>1. n - 1 \in 0..m /\ g[n - 1] = f[n - 1]
        BY <2>2, <3>2
      <4>2. CASE n = m + 1
        BY <2>2, <4>1, <4>2 DEF Entry
      <4>3. CASE n # m + 1
        <5>1. n \in 0..m /\ g[n] = f[n]
          BY <2>2, <4>3
        <5>2. f[n] = Entry(s, T, f, n)
          BY <2>1, <5>1
        <5>3. QED
          BY <4>1, <5>1, <5>2 DEF Entry
      <4>4. QED
        BY <4>2, <4>3
    <3>3. QED
      BY <3>1, <3>2
  <2>4. Solves(g, m + 1)
    BY <2>2, <2>3
  <2>5. QED
    BY <2>4
<1>3. Len(s) \in I
  <2>. HIDE DEF I
  <2>1. Nat \subseteq I
    BY <1>1, <1>2, SetInduction
  <2>2. QED
    BY <2>1
<1>4. PICK f : Solves(f, Len(s))
  BY <1>3
<1>5. \E g : g = [n \in 0..Len(s) |-> IF n = 0 THEN <<>>
                                     ELSE IF s[n] \in T THEN Append(g[n - 1], s[n]) ELSE g[n - 1]]
  BY <1>4 DEF Entry
<1>6. Solves(only, Len(s))
  BY <1>5 DEF Entry
<1>7. Only(s, T) = only[Len(s)]
  BY DEF Only
<1>8. QED
  BY <1>6, <1>7

\* What Only returns: a list of elements of T.
LEMMA OnlyType ==
  ASSUME NEW S, NEW s \in Seq(S), NEW T
  PROVE  Only(s, T) \in Seq(S \cap T)
<1>1. PICK f : f = [n \in 0..Len(s) |-> Entry(s, T, f, n)] /\ Only(s, T) = f[Len(s)]
  BY OnlyDefined
<1>. DEFINE I == {n \in Nat : n <= Len(s) => f[n] \in Seq(S \cap T)}
<1>2. 0 \in I
  BY <1>1 DEF Entry
<1>3. ASSUME NEW n \in Nat, n \in I
      PROVE  n + 1 \in I
  <2>1. SUFFICES ASSUME n + 1 <= Len(s) PROVE f[n + 1] \in Seq(S \cap T)
    OBVIOUS
  <2>2. n \in 0..Len(s) /\ n + 1 \in 0..Len(s) /\ n + 1 \in 1..Len(s) /\ f[n] \in Seq(S \cap T)
    BY <1>3, <2>1
  <2>3. f[n + 1] = Entry(s, T, f, n + 1)
    BY <1>1, <2>2
  <2>4. f[n + 1] = IF s[n + 1] \in T THEN Append(f[n], s[n + 1]) ELSE f[n]
    BY <2>2, <2>3 DEF Entry
  <2>5. s[n + 1] \in S
    BY <2>2
  <2>6. QED
    BY <2>2, <2>4, <2>5
<1>4. Len(s) \in I
  <2>. HIDE DEF I
  <2>1. Nat \subseteq I
    BY <1>2, <1>3, SetInduction
  <2>2. QED
    BY <2>1
<1>5. QED
  BY <1>1, <1>4

\* Nothing of T is left out.
LEMMA OnlyComplete ==
  ASSUME NEW S, NEW s \in Seq(S), NEW T, NEW i \in 1..Len(s), s[i] \in T
  PROVE  \E k \in 1..Len(Only(s, T)) : Only(s, T)[k] = s[i]
<1>1. PICK f : f = [n \in 0..Len(s) |-> Entry(s, T, f, n)] /\ Only(s, T) = f[Len(s)]
  BY OnlyDefined
<1>. DEFINE Holds(n) == f[n] \in Seq(S) /\ (i <= n => \E k \in 1..Len(f[n]) : f[n][k] = s[i])
            I == {n \in Nat : n <= Len(s) => Holds(n)}
<1>2. 0 \in I
  BY <1>1 DEF Entry
<1>3. ASSUME NEW n \in Nat, n \in I
      PROVE  n + 1 \in I
  <2>1. SUFFICES ASSUME n + 1 <= Len(s) PROVE Holds(n + 1)
    OBVIOUS
  <2>2. n \in 0..Len(s) /\ n + 1 \in 0..Len(s) /\ n + 1 \in 1..Len(s) /\ Holds(n)
    BY <1>3, <2>1
  <2>3. f[n + 1] = Entry(s, T, f, n + 1)
    BY <1>1, <2>2
  <2>4. f[n + 1] = IF s[n + 1] \in T THEN Append(f[n], s[n + 1]) ELSE f[n]
    BY <2>2, <2>3 DEF Entry
  <2>5. s[n + 1] \in S
    BY <2>2
  <2>6. CASE s[n + 1] \in T
    <3>1. f[n + 1] = Append(f[n], s[n + 1]) /\ f[n] \in Seq(S)
      BY <2>2, <2>4, <2>6
    <3>2. /\ f[n + 1] \in Seq(S) /\ Len(f[n + 1]) = Len(f[n]) + 1 /\ f[n + 1][Len(f[n]) + 1] = s[n + 1]
          /\ \A k \in 1..Len(f[n]) : f[n + 1][k] = f[n][k]
      BY <2>5, <3>1, AppendProperties
    <3>3. CASE i <= n
      <4>1. PICK k \in 1..Len(f[n]) : f[n][k] = s[i]
        BY <2>2, <3>3
      <4>2. k \in 1..Len(f[n + 1]) /\ f[n + 1][k] = s[i]
        BY <3>1, <3>2, <4>1
      <4>3. QED
        BY <3>2, <4>2
    <3>4. CASE i = n + 1
      <4>1. Len(f[n]) + 1 \in 1..Len(f[n + 1])
        BY <3>1, <3>2
      <4>2. QED
        BY <3>2, <3>4, <4>1
    <3>5. QED
      BY <3>2, <3>3, <3>4
  <2>7. CASE s[n + 1] \notin T
    <3>1. i # n + 1
      BY <2>7
    <3>2. i <= n + 1 => i <= n
      BY <3>1
    <3>3. QED
      BY <2>2, <2>4, <2>7, <3>2
  <2>8. QED
    BY <2>6, <2>7
<1>4. Len(s) \in I
  <2>. HIDE DEF I
  <2>1. Nat \subseteq I
    BY <1>2, <1>3, SetInduction
  <2>2. QED
    BY <2>1
<1>5. QED
  BY <1>1, <1>4

-----------------------------------------------------------------------------
(* Lists of which each element stands in a relation to each later one.      *)

\* What was kept first: one entry of the recursion, from the entry before it.
FirstEntry(s, R, f, n) ==
  IF n = 0 THEN <<>>
  ELSE IF \E k \in 1..Len(f[n - 1]) : <<f[n - 1][k], s[n]>> \in R THEN f[n - 1]
  ELSE Append(f[n - 1], s[n])

\* The recursion of FirstOnly has a solution, so FirstOnly is one of its entries.
LEMMA FirstDefined ==
  ASSUME NEW S, NEW s \in Seq(S), NEW R
  PROVE  \E f : /\ f = [n \in 0..Len(s) |-> FirstEntry(s, R, f, n)]
                /\ FirstOnly(s, R) = f[Len(s)]
<1>. DEFINE Solves(f, m) == f = [n \in 0..m |-> FirstEntry(s, R, f, n)]
            first[n \in 0..Len(s)] ==
              IF n = 0 THEN <<>>
              ELSE IF \E k \in 1..Len(first[n - 1]) : <<first[n - 1][k], s[n]>> \in R
                THEN first[n - 1] ELSE Append(first[n - 1], s[n])
            I == {m \in Nat : \E f : Solves(f, m)}
<1>1. 0 \in I
  <2>1. Solves([n \in 0..0 |-> <<>>], 0)
    BY DEF FirstEntry
  <2>2. QED
    BY <2>1
<1>2. ASSUME NEW m \in Nat, m \in I
      PROVE  m + 1 \in I
  <2>1. PICK f : Solves(f, m)
    BY <1>2
  <2>2. PICK g : g = [n \in 0..(m + 1) |-> IF n = m + 1 THEN FirstEntry(s, R, f, n) ELSE f[n]]
    OBVIOUS
  <2>3. ASSUME NEW n \in 0..(m + 1)
        PROVE  g[n] = FirstEntry(s, R, g, n)
    <3>1. CASE n = 0
      BY <2>1, <2>2, <3>1 DEF FirstEntry
    <3>2. CASE n # 0
      <4>1. n - 1 \in 0..m /\ g[n - 1] = f[n - 1]
        BY <2>2, <3>2
      <4>2. FirstEntry(s, R, g, n) = FirstEntry(s, R, f, n)
        BY <4>1 DEF FirstEntry
      <4>3. CASE n = m + 1
        BY <2>2, <4>2, <4>3
      <4>4. CASE n # m + 1
        <5>1. n \in 0..m /\ g[n] = f[n]
          BY <2>2, <4>4
        <5>2. f[n] = FirstEntry(s, R, f, n)
          BY <2>1, <5>1
        <5>3. QED
          BY <4>2, <5>1, <5>2
      <4>5. QED
        BY <4>3, <4>4
    <3>3. QED
      BY <3>1, <3>2
  <2>4. Solves(g, m + 1)
    BY <2>2, <2>3
  <2>5. QED
    BY <2>4
<1>3. Len(s) \in I
  <2>. HIDE DEF I
  <2>1. Nat \subseteq I
    BY <1>1, <1>2, SetInduction
  <2>2. QED
    BY <2>1
<1>4. PICK f : Solves(f, Len(s))
  BY <1>3
<1>5. \E g : g = [n \in 0..Len(s) |->
                    IF n = 0 THEN <<>>
                    ELSE IF \E k \in 1..Len(g[n - 1]) : <<g[n - 1][k], s[n]>> \in R
                      THEN g[n - 1] ELSE Append(g[n - 1], s[n])]
  BY <1>4 DEF FirstEntry
<1>6. Solves(first, Len(s))
  BY <1>5 DEF FirstEntry
<1>7. FirstOnly(s, R) = first[Len(s)]
  BY DEF FirstOnly
<1>8. QED
  BY <1>6, <1>7

Pairwise(s, Q) == \A i \in 1..Len(s), j \in 1..Len(s) : i < j => <<s[i], s[j]>> \in Q

\* One more element, which all before it are related to.
LEMMA PairwiseAppend ==
  ASSUME NEW S, NEW Q, NEW s \in Seq(S), NEW e \in S, Pairwise(s, Q),
         \A k \in 1..Len(s) : <<s[k], e>> \in Q
  PROVE  Pairwise(Append(s, e), Q)
<1>p. PICK t, m : t = Append(s, e) /\ m = Len(s)
  OBVIOUS
<1>1. /\ Len(t) = m + 1 /\ m \in Nat /\ t[m + 1] = e
      /\ \A i \in 1..m : t[i] = s[i]
  BY <1>p, AppendProperties, LenProperties
<1>2. ASSUME NEW i \in 1..(m + 1), NEW j \in 1..(m + 1), i < j PROVE <<t[i], t[j]>> \in Q
  <2>1. i \in 1..m /\ t[i] = s[i]
    BY <1>1, <1>2
  <2>2. CASE j = m + 1
    BY <1>1, <1>p, <2>1, <2>2
  <2>3. CASE j # m + 1
    <3>1. j \in 1..m /\ t[j] = s[j]
      BY <1>1, <2>3
    <3>2. QED
      BY <1>2, <1>p, <2>1, <3>1 DEF Pairwise
  <2>4. QED
    BY <2>2, <2>3
<1>3. Pairwise(t, Q)
  BY <1>1, <1>2 DEF Pairwise
<1>4. QED
  BY <1>3, <1>p

\* A list of the elements at some of the first n places of s, related by Q.
PickedFrom(S, s, Q, n, o) ==
  /\ o \in Seq(S) /\ Pairwise(o, Q)
  /\ \A k \in 1..Len(o) : \E i \in 1..n : o[k] = s[i]

\* They are related to the next element as they are in s.
LEMMA PickedBefore ==
  ASSUME NEW S, NEW Q, NEW P, NEW s \in Seq(S), Pairwise(s, P), NEW n \in Nat, n + 1 \in 1..Len(s),
         NEW o, PickedFrom(S, s, Q, n, o)
  PROVE  \A k \in 1..Len(o) : <<o[k], s[n + 1]>> \in P
<1>1. SUFFICES ASSUME NEW k \in 1..Len(o) PROVE <<o[k], s[n + 1]>> \in P
  OBVIOUS
<1>2. PICK i \in 1..n : o[k] = s[i]
  BY DEF PickedFrom
<1>3. i \in 1..Len(s) /\ i < n + 1
  BY LenProperties
<1>4. QED
  BY <1>2, <1>3 DEF Pairwise

\* The next place is passed over, or its element is picked.
LEMMA PickedNext ==
  ASSUME NEW S, NEW Q, NEW s \in Seq(S), NEW n \in Nat, n + 1 \in 1..Len(s),
         NEW o, PickedFrom(S, s, Q, n, o)
  PROVE  /\ PickedFrom(S, s, Q, n + 1, o)
         /\ (\A k \in 1..Len(o) : <<o[k], s[n + 1]>> \in Q)
              => PickedFrom(S, s, Q, n + 1, Append(o, s[n + 1]))
<1>p. PICK e, m : e = s[n + 1] /\ m = Len(o)
  OBVIOUS
<1>1. o \in Seq(S) /\ Pairwise(o, Q) /\ e \in S /\ m \in Nat
  BY <1>p, ElementOfSeq, LenProperties DEF PickedFrom
<1>2. ASSUME NEW k \in 1..m PROVE \E i \in 1..(n + 1) : o[k] = s[i]
  <2>1. PICK i \in 1..n : o[k] = s[i]
    BY <1>p DEF PickedFrom
  <2>2. i \in 1..(n + 1)
    OBVIOUS
  <2>3. QED
    BY <2>1, <2>2
<1>3. PickedFrom(S, s, Q, n + 1, o)
  BY <1>1, <1>2, <1>p DEF PickedFrom
<1>4. ASSUME \A k \in 1..m : <<o[k], e>> \in Q
      PROVE  PickedFrom(S, s, Q, n + 1, Append(o, e))
  <2>p. PICK u : u = Append(o, e)
    OBVIOUS
  <2>1. /\ u \in Seq(S) /\ Len(u) = m + 1 /\ u[m + 1] = e
        /\ \A k \in 1..m : u[k] = o[k]
    BY <1>1, <1>p, <2>p, AppendProperties
  <2>2. Pairwise(u, Q)
    BY <1>1, <1>4, <1>p, <2>p, PairwiseAppend
  <2>3. ASSUME NEW k \in 1..(m + 1) PROVE \E i \in 1..(n + 1) : u[k] = s[i]
    <3>1. CASE k = m + 1
      <4>1. n + 1 \in 1..(n + 1) /\ u[k] = s[n + 1]
        BY <1>p, <2>1, <3>1
      <4>2. QED
        BY <4>1
    <3>2. CASE k # m + 1
      <4>1. k \in 1..m
        BY <1>1, <3>2
      <4>2. QED
        BY <1>2, <2>1, <4>1
    <3>3. QED
      BY <3>1, <3>2
  <2>4. QED
    BY <2>1, <2>2, <2>3, <2>p DEF PickedFrom
<1>5. QED
  BY <1>3, <1>4, <1>p

\* A selection keeps how its elements are related.
LEMMA OnlyPairwise ==
  ASSUME NEW S, NEW Q, NEW s \in Seq(S), Pairwise(s, Q), NEW T
  PROVE  Pairwise(Only(s, T), Q)
<1>1. PICK f : f = [n \in 0..Len(s) |-> Entry(s, T, f, n)] /\ Only(s, T) = f[Len(s)]
  BY OnlyDefined
<1>. DEFINE I == {n \in Nat : n <= Len(s) => PickedFrom(S, s, Q, n, f[n])}
<1>2. 0 \in I
  <2>1. f[0] = <<>>
    BY <1>1 DEF Entry
  <2>2. PickedFrom(S, s, Q, 0, <<>>)
    BY EmptySeq DEF PickedFrom, Pairwise
  <2>3. QED
    BY <2>1, <2>2
<1>3. ASSUME NEW n \in Nat, n \in I
      PROVE  n + 1 \in I
  <2>1. SUFFICES ASSUME n + 1 <= Len(s) PROVE PickedFrom(S, s, Q, n + 1, f[n + 1])
    OBVIOUS
  <2>2. n \in 0..Len(s) /\ n + 1 \in 0..Len(s) /\ n + 1 \in 1..Len(s) /\ PickedFrom(S, s, Q, n, f[n])
    BY <1>3, <2>1
  <2>3. f[n + 1] = Entry(s, T, f, n + 1)
    BY <1>1, <2>2
  <2>4. f[n + 1] = IF s[n + 1] \in T THEN Append(f[n], s[n + 1]) ELSE f[n]
    BY <2>2, <2>3 DEF Entry
  <2>p. PICK o : o = f[n]
    OBVIOUS
  <2>5. \A k \in 1..Len(o) : <<o[k], s[n + 1]>> \in Q
    BY <2>2, <2>p, PickedBefore
  <2>6. PickedFrom(S, s, Q, n + 1, o) /\ PickedFrom(S, s, Q, n + 1, Append(o, s[n + 1]))
    BY <2>2, <2>5, <2>p, PickedNext
  <2>7. QED
    BY <2>4, <2>6, <2>p
<1>4. PickedFrom(S, s, Q, Len(s), f[Len(s)])
  <2>. HIDE DEF I
  <2>1. Nat \subseteq I
    BY <1>2, <1>3, SetInduction
  <2>2. Len(s) \in I
    BY <2>1, LenProperties
  <2>3. QED
    BY <2>2 DEF I
<1>5. QED
  BY <1>1, <1>4 DEF PickedFrom

\* What is kept first is related as before, and none of it is like another.
LEMMA FirstOnlyIs ==
  ASSUME NEW S, NEW Q, NEW s \in Seq(S), Pairwise(s, Q), NEW R
  PROVE  FirstOnly(s, R) \in Seq(S) /\ Pairwise(FirstOnly(s, R), Q \ R)
<1>1. PICK f : f = [n \in 0..Len(s) |-> FirstEntry(s, R, f, n)] /\ FirstOnly(s, R) = f[Len(s)]
  BY FirstDefined
<1>. DEFINE I == {n \in Nat : n <= Len(s) => PickedFrom(S, s, Q \ R, n, f[n])}
<1>2. 0 \in I
  <2>1. f[0] = <<>>
    BY <1>1 DEF FirstEntry
  <2>2. PickedFrom(S, s, Q \ R, 0, <<>>)
    BY EmptySeq DEF PickedFrom, Pairwise
  <2>3. QED
    BY <2>1, <2>2
<1>3. ASSUME NEW n \in Nat, n \in I
      PROVE  n + 1 \in I
  <2>1. SUFFICES ASSUME n + 1 <= Len(s) PROVE PickedFrom(S, s, Q \ R, n + 1, f[n + 1])
    OBVIOUS
  <2>2. /\ n \in 0..Len(s) /\ n + 1 \in 0..Len(s) /\ n + 1 \in 1..Len(s)
        /\ PickedFrom(S, s, Q \ R, n, f[n])
    BY <1>3, <2>1
  <2>3. f[n + 1] = FirstEntry(s, R, f, n + 1)
    BY <1>1, <2>2
  <2>p. PICK o, e, new, P : o = f[n] /\ e = s[n + 1] /\ new = f[n + 1] /\ P = Q \ R
    OBVIOUS
  <2>4. new = IF \E k \in 1..Len(o) : <<o[k], e>> \in R THEN o ELSE Append(o, e)
    <3>1. n + 1 # 0 /\ (n + 1) - 1 = n
      OBVIOUS
    <3>2. QED
      BY <2>3, <2>p, <3>1 DEF FirstEntry
  <2>5. \A k \in 1..Len(o) : <<o[k], e>> \in Q
    BY <2>2, <2>p, PickedBefore
  <2>6. /\ PickedFrom(S, s, P, n + 1, o)
        /\ (\A k \in 1..Len(o) : <<o[k], e>> \in P) => PickedFrom(S, s, P, n + 1, Append(o, e))
    BY <2>2, <2>p, PickedNext
  <2>7. CASE \E k \in 1..Len(o) : <<o[k], e>> \in R
    BY <2>4, <2>6, <2>7, <2>p
  <2>8. CASE ~\E k \in 1..Len(o) : <<o[k], e>> \in R
    <3>1. \A k \in 1..Len(o) : <<o[k], e>> \in P
      BY <2>5, <2>8, <2>p
    <3>2. QED
      BY <2>4, <2>6, <2>8, <2>p, <3>1
  <2>9. QED
    BY <2>7, <2>8
<1>4. PickedFrom(S, s, Q \ R, Len(s), f[Len(s)])
  <2>. HIDE DEF I
  <2>1. Nat \subseteq I
    BY <1>2, <1>3, SetInduction
  <2>2. Len(s) \in I
    BY <2>1, LenProperties
  <2>3. QED
    BY <2>2 DEF I
<1>5. QED
  BY <1>1, <1>4 DEF PickedFrom

\* A selection from a growing list grows.
Growing(s) == \A i \in 1..Len(s), j \in 1..Len(s) : i < j => s[i] < s[j]

LEMMA OnlyGrows ==
  ASSUME NEW s \in Seq(Int), Growing(s), NEW T
  PROVE  Growing(Only(s, T))
<1>p. PICK o : o = Only(s, T)
  OBVIOUS
<1>. DEFINE Below == {p \in Int \X Int : p[1] < p[2]}
<1>1. Pairwise(s, Below)
  BY DEF Growing, Pairwise
<1>2. Pairwise(o, Below)
  <2>. HIDE DEF Below
  <2>1. QED
    BY <1>1, <1>p, OnlyPairwise
<1>3. QED
  BY <1>2, <1>p DEF Growing, Pairwise

-----------------------------------------------------------------------------
(* Lists that grow at their end.                                           *)

\* A set of lists that has the empty one, and with a list its extensions, has
\* every list.
LEMMA SeqInduction ==
  ASSUME NEW S, NEW I, <<>> \in I, \A s \in Seq(S), e \in S : s \in I => Append(s, e) \in I
  PROVE  Seq(S) \subseteq I
<1>. DEFINE N == {n \in Nat : \A s \in Seq(S) : Len(s) = n => s \in I}
<1>1. 0 \in N
  <2>1. ASSUME NEW s \in Seq(S), Len(s) = 0 PROVE s = <<>>
    BY <2>1, EmptySeq
  <2>2. QED
    BY <2>1
<1>2. ASSUME NEW n \in Nat, n \in N PROVE n + 1 \in N
  <2>1. ASSUME NEW s \in Seq(S), Len(s) = n + 1 PROVE s \in I
    <3>1. s # <<>>
      BY <2>1, EmptySeq
    <3>2. PICK t \in Seq(S), e \in S : s = Append(t, e)
      BY <3>1, SequenceEmptyOrAppend
    <3>3. Len(t) \in Nat /\ Len(s) = Len(t) + 1
      BY <3>2, AppendProperties, LenProperties
    <3>4. t \in I
      BY <1>2, <2>1, <3>3
    <3>5. QED
      BY <3>2, <3>4
  <2>2. QED
    BY <2>1
<1>3. ASSUME NEW s \in Seq(S) PROVE s \in I
  <2>. HIDE DEF N
  <2>1. Nat \subseteq N
    BY <1>1, <1>2, SetInduction
  <2>2. Len(s) \in Nat /\ Len(s) \in N
    BY <2>1, LenProperties
  <2>3. QED
    BY <2>2 DEF N
<1>4. QED
  BY <1>3

LEMMA Assoc ==
  ASSUME NEW s \in Seq(Nat), NEW t \in Seq(Nat), NEW u \in Seq(Nat)
  PROVE  (s \o t) \o u = s \o (t \o u)
<1>1. PICK a, b, c : a = s \o t /\ b = t \o u /\ c = a \o u
  OBVIOUS
<1>2. PICK d : d = s \o b
  OBVIOUS
<1>3. a \in Seq(Nat) /\ b \in Seq(Nat) /\ Len(a) = Len(s) + Len(t) /\ Len(b) = Len(t) + Len(u)
  BY <1>1
<1>4. c \in Seq(Nat) /\ d \in Seq(Nat) /\ Len(c) = Len(a) + Len(u) /\ Len(d) = Len(s) + Len(b)
  BY <1>1, <1>2, <1>3
<1>5. Len(s) \in Nat /\ Len(t) \in Nat /\ Len(u) \in Nat
  OBVIOUS
<1>6. Len(c) = Len(d)
  BY <1>3, <1>4, <1>5
<1>7. ASSUME NEW i \in 1..Len(c) PROVE c[i] = d[i]
  BY <1>1, <1>2, <1>3, <1>4, <1>5, <1>6
<1>8. c = d
  BY <1>4, <1>6, <1>7, SeqEqual
<1>9. QED
  BY <1>1, <1>2, <1>8

LEMMA AppendConcat ==
  ASSUME NEW S, NEW s \in Seq(S), NEW t \in Seq(S), NEW e \in S
  PROVE  s \o Append(t, e) = Append(s \o t, e)
<1>1. /\ Append(t, e) = t \o <<e>> /\ s \o t \in Seq(S) /\ <<e>> \in Seq(S)
      /\ Append(s \o t, e) = (s \o t) \o <<e>>
  <2>1. s \o t \in Seq(S)
    BY ConcatProperties
  <2>2. QED
    BY <2>1, AppendIsConcat
<1>2. s \o (t \o <<e>>) = (s \o t) \o <<e>>
  BY <1>1, ConcatAssociative
<1>3. QED
  BY <1>1, <1>2

\* What is selected from a list that grows.
LEMMA OnlyEmpty == \A T : Only(<<>>, T) = <<>>
<1>. SUFFICES ASSUME NEW T PROVE Only(<<>>, T) = <<>>
  OBVIOUS
<1>p. PICK s, none : s = <<>> /\ none = {}
  OBVIOUS
<1>1. s \in Seq(none) /\ Len(s) = 0
  BY <1>p, EmptySeq
<1>2. PICK f : f = [n \in 0..Len(s) |-> Entry(s, T, f, n)] /\ Only(s, T) = f[Len(s)]
  BY <1>1, OnlyDefined
<1>3. f[0] = Entry(s, T, f, 0)
  BY <1>1, <1>p, <1>2
<1>4. QED
  BY <1>1, <1>p, <1>2, <1>3 DEF Entry

LEMMA OnlyAppend ==
  ASSUME NEW S, NEW s \in Seq(S), NEW e \in S, NEW T
  PROVE  Only(Append(s, e), T) = IF e \in T THEN Append(Only(s, T), e) ELSE Only(s, T)
<1>1. PICK f : f = [n \in 0..Len(s) |-> Entry(s, T, f, n)] /\ Only(s, T) = f[Len(s)]
  BY OnlyDefined
<1>p. PICK t, m : t = Append(s, e) /\ m = Len(s)
  OBVIOUS
<1>2. /\ t \in Seq(S) /\ Len(t) = m + 1 /\ m \in Nat /\ t[m + 1] = e
      /\ \A i \in 1..m : t[i] = s[i]
  BY <1>p, AppendProperties, LenProperties
<1>3. PICK g : g = [n \in 0..Len(t) |-> Entry(t, T, g, n)] /\ Only(t, T) = g[Len(t)]
  BY <1>2, OnlyDefined
<1>4. /\ \A n \in 0..m : f[n] = Entry(s, T, f, n)
      /\ \A n \in 0..(m + 1) : g[n] = Entry(t, T, g, n)
  BY <1>p, <1>1, <1>2, <1>3
<1>. DEFINE I == {n \in Nat : n <= m => g[n] = f[n]}
<1>5. 0 \in I
  BY <1>2, <1>4 DEF Entry
<1>6. ASSUME NEW n \in Nat, n \in I PROVE n + 1 \in I
  <2>1. SUFFICES ASSUME n + 1 <= m PROVE g[n + 1] = f[n + 1]
    OBVIOUS
  <2>2. /\ n + 1 \in 0..m /\ n + 1 \in 0..(m + 1) /\ n + 1 \in 1..m /\ n + 1 # 0
        /\ (n + 1) - 1 = n /\ g[n] = f[n]
    BY <1>2, <1>6, <2>1
  <2>3. t[n + 1] = s[n + 1]
    BY <1>2, <2>2
  <2>4. g[n + 1] = Entry(t, T, g, n + 1) /\ f[n + 1] = Entry(s, T, f, n + 1)
    BY <1>4, <2>2
  <2>5. QED
    BY <2>2, <2>3, <2>4 DEF Entry
<1>7. g[m] = f[m]
  <2>. HIDE DEF I
  <2>1. Nat \subseteq I
    BY <1>5, <1>6, SetInduction
  <2>2. QED
    BY <1>2, <2>1 DEF I
<1>8. g[m + 1] = IF e \in T THEN Append(g[m], e) ELSE g[m]
  <2>1. m + 1 \in 0..(m + 1) /\ m + 1 # 0 /\ (m + 1) - 1 = m
    BY <1>2
  <2>2. g[m + 1] = Entry(t, T, g, m + 1)
    BY <1>4, <2>1
  <2>3. QED
    BY <1>2, <2>1, <2>2 DEF Entry
<1>9. QED
  BY <1>p, <1>1, <1>2, <1>3, <1>7, <1>8

-----------------------------------------------------------------------------
(* Lists of lists, flattened.                                              *)

Joined(s, f, n) == IF n = 1 THEN s[n] ELSE f[n - 1] \o s[n]

\* The recursion of FlattenSeq has a solution, so FlattenSeq is its last entry.
LEMMA FlattenDefined ==
  ASSUME NEW s, Len(s) \in Nat, Len(s) # 0
  PROVE  \E f : /\ f = [n \in 1..Len(s) |-> Joined(s, f, n)]
                /\ FlattenSeq(s) = f[Len(s)]
<1>. DEFINE Solves(f, m) == f = [n \in 1..m |-> Joined(s, f, n)]
            flatten[n \in 1..Len(s)] == IF n = 1 THEN s[n] ELSE flatten[n - 1] \o s[n]
            I == {m \in Nat : \E f : Solves(f, m)}
<1>1. 0 \in I
  <2>1. Solves([n \in 1..0 |-> <<>>], 0)
    OBVIOUS
  <2>2. QED
    BY <2>1
<1>2. ASSUME NEW m \in Nat, m \in I
      PROVE  m + 1 \in I
  <2>1. PICK f : Solves(f, m)
    BY <1>2
  <2>2. PICK g : g = [n \in 1..(m + 1) |-> IF n = m + 1 THEN Joined(s, f, n) ELSE f[n]]
    OBVIOUS
  <2>3. ASSUME NEW n \in 1..(m + 1)
        PROVE  g[n] = Joined(s, g, n)
    <3>1. g[n] = Joined(s, f, n)
      BY <2>1, <2>2
    <3>2. CASE n = 1
      BY <3>1, <3>2 DEF Joined
    <3>3. CASE n # 1
      <4>1. n - 1 \in 1..m /\ g[n - 1] = f[n - 1]
        BY <2>2, <3>3
      <4>2. QED
        BY <3>1, <4>1 DEF Joined
    <3>4. QED
      BY <3>2, <3>3
  <2>4. Solves(g, m + 1)
    BY <2>2, <2>3
  <2>5. QED
    BY <2>4
<1>3. Len(s) \in I
  <2>. HIDE DEF I
  <2>1. Nat \subseteq I
    BY <1>1, <1>2, SetInduction
  <2>2. QED
    BY <2>1
<1>4. PICK f : Solves(f, Len(s))
  BY <1>3
<1>5. \E g : g = [n \in 1..Len(s) |-> IF n = 1 THEN s[n] ELSE g[n - 1] \o s[n]]
  BY <1>4 DEF Joined
<1>6. Solves(flatten, Len(s))
  BY <1>5 DEF Joined
<1>7. FlattenSeq(s) = flatten[Len(s)]
  BY DEF FlattenSeq
<1>8. QED
  BY <1>6, <1>7

LEMMA FlattenEmpty == FlattenSeq(<<>>) = <<>>
BY DEF FlattenSeq

LEMMA FlattenAppend ==
  ASSUME NEW S, NEW s \in Seq(Seq(S)), NEW e \in Seq(S)
  PROVE  FlattenSeq(Append(s, e)) = FlattenSeq(s) \o e
<1>p. PICK t, m : t = Append(s, e) /\ m = Len(s)
  OBVIOUS
<1>1. /\ t \in Seq(Seq(S)) /\ Len(t) = m + 1 /\ m \in Nat /\ t[m + 1] = e
      /\ \A i \in 1..m : t[i] = s[i]
  BY <1>p, AppendProperties, LenProperties
<1>2. PICK g : g = [n \in 1..Len(t) |-> Joined(t, g, n)] /\ FlattenSeq(t) = g[Len(t)]
  <2>1. Len(t) \in Nat /\ Len(t) # 0
    BY <1>1
  <2>2. QED
    BY <2>1, FlattenDefined
<1>3. /\ FlattenSeq(t) = g[m + 1]
      /\ \A n \in 1..(m + 1) : g[n] = Joined(t, g, n)
  BY <1>1, <1>2
<1>4. CASE m = 0
  <2>1. s = <<>>
    BY <1>p, <1>4, EmptySeq
  <2>2. FlattenSeq(t) = e
    BY <1>1, <1>3, <1>4 DEF Joined
  <2>3. <<>> \o e = e
    BY ConcatEmptySeq
  <2>4. QED
    BY <1>p, <2>1, <2>2, <2>3, FlattenEmpty
<1>5. CASE m # 0
  <2>1. PICK f : f = [n \in 1..Len(s) |-> Joined(s, f, n)] /\ FlattenSeq(s) = f[Len(s)]
    BY <1>p, <1>1, <1>5, FlattenDefined
  <2>2. FlattenSeq(s) = f[m] /\ \A n \in 1..m : f[n] = Joined(s, f, n)
    BY <1>p, <2>1
  <2>. DEFINE I == {n \in Nat : n \in 1..m => g[n] = f[n]}
  <2>3. 0 \in I
    OBVIOUS
  <2>4. ASSUME NEW n \in Nat, n \in I PROVE n + 1 \in I
    <3>1. SUFFICES ASSUME n + 1 \in 1..m PROVE g[n + 1] = f[n + 1]
      OBVIOUS
    <3>2. n + 1 \in 1..(m + 1) /\ t[n + 1] = s[n + 1] /\ (n + 1) - 1 = n
      BY <1>1, <3>1
    <3>3. g[n + 1] = Joined(t, g, n + 1) /\ f[n + 1] = Joined(s, f, n + 1)
      BY <1>3, <2>2, <3>1, <3>2
    <3>4. ASSUME n + 1 # 1 PROVE g[n] = f[n]
      <4>1. n \in 1..m
        BY <1>1, <3>1, <3>4
      <4>2. QED
        BY <2>4, <4>1
    <3>5. QED
      BY <3>2, <3>3, <3>4 DEF Joined
  <2>5. g[m] = f[m]
    <3>. HIDE DEF I
    <3>1. Nat \subseteq I
      BY <2>3, <2>4, SetInduction
    <3>2. m \in 1..m
      BY <1>1, <1>5
    <3>3. QED
      BY <1>1, <3>1, <3>2 DEF I
  <2>6. g[m + 1] = g[m] \o e
    <3>1. m + 1 \in 1..(m + 1) /\ m + 1 # 1 /\ (m + 1) - 1 = m
      BY <1>1, <1>5
    <3>2. QED
      BY <1>1, <1>3, <3>1 DEF Joined
  <2>7. QED
    BY <1>p, <1>3, <2>2, <2>5, <2>6
<1>6. QED
  BY <1>4, <1>5

LEMMA FlattenType ==
  ASSUME NEW S, NEW s \in Seq(Seq(S))
  PROVE  FlattenSeq(s) \in Seq(S)
<1>. DEFINE I == {l \in Seq(Seq(S)) : FlattenSeq(l) \in Seq(S)}
<1>1. <<>> \in I
  <2>1. \A R : <<>> \in Seq(R)
    BY EmptySeq
  <2>2. FlattenSeq(<<>>) \in Seq(S)
    BY <2>1, FlattenEmpty
  <2>3. <<>> \in Seq(Seq(S))
    BY <2>1
  <2>4. QED
    BY <2>2, <2>3, Zenon
<1>2. ASSUME NEW l \in Seq(Seq(S)), NEW e \in Seq(S), l \in I PROVE Append(l, e) \in I
  <2>1. FlattenSeq(Append(l, e)) = FlattenSeq(l) \o e /\ FlattenSeq(l) \in Seq(S)
    BY <1>2, FlattenAppend
  <2>2. FlattenSeq(l) \o e \in Seq(S)
    BY <2>1, ConcatProperties
  <2>3. Append(l, e) \in Seq(Seq(S))
    BY AppendProperties
  <2>4. FlattenSeq(Append(l, e)) \in Seq(S)
    BY <2>1, <2>2
  <2>5. QED
    BY <2>3, <2>4, Zenon
<1>3. Seq(Seq(S)) \subseteq I
  <2>. HIDE DEF I
  <2>1. QED
    BY <1>1, <1>2, SeqInduction
<1>4. QED
  BY <1>3
-----------------------------------------------------------------------------
(* The elements of a list, and lists that have each element once.          *)

Distinct(s) == \A i \in 1..Len(s), j \in 1..Len(s) : s[i] = s[j] => i = j

LEMMA SetOf ==
  ASSUME NEW S, NEW s \in Seq(S)
  PROVE  ToSet(s) = {s[i] : i \in 1..Len(s)} /\ ToSet(s) \subseteq S /\ s \in Seq(ToSet(s))
<1>1. Len(s) \in Nat /\ DOMAIN s = 1..Len(s) /\ \A i \in 1..Len(s) : s[i] \in S
  BY LenProperties, ElementOfSeq
<1>2. ToSet(s) = {s[i] : i \in 1..Len(s)} /\ ToSet(s) \subseteq S
  BY <1>1 DEF ToSet
<1>3. s \in [1..Len(s) -> ToSet(s)]
  <2>1. s = [i \in 1..Len(s) |-> s[i]]
    BY <1>1
  <2>2. \A i \in 1..Len(s) : s[i] \in ToSet(s)
    BY <1>2
  <2>3. QED
    BY <2>1, <2>2
<1>4. s \in Seq(ToSet(s))
  BY <1>1, <1>3, ListOf
<1>5. QED
  BY <1>2, <1>4

LEMMA SetOfAppend ==
  ASSUME NEW S, NEW s \in Seq(S), NEW e \in S
  PROVE  ToSet(Append(s, e)) = ToSet(s) \cup {e}
<1>p. PICK t, m : t = Append(s, e) /\ m = Len(s)
  OBVIOUS
<1>1. /\ t \in Seq(S) /\ Len(t) = m + 1 /\ m \in Nat /\ t[m + 1] = e
      /\ \A i \in 1..m : t[i] = s[i]
  BY <1>p, AppendProperties, LenProperties
<1>2. ToSet(t) = {t[i] : i \in 1..(m + 1)} /\ ToSet(s) = {s[i] : i \in 1..m}
  BY <1>1, <1>p, SetOf
<1>3. 1..(m + 1) = 1..m \cup {m + 1}
  BY <1>1
<1>4. QED
  BY <1>1, <1>2, <1>3, <1>p

\* A selection has exactly the elements of the list that are selected.
LEMMA OnlySet ==
  ASSUME NEW S, NEW s \in Seq(S), NEW T
  PROVE  ToSet(Only(s, T)) = ToSet(s) \cap T
<1>p. PICK o : o = Only(s, T)
  OBVIOUS
<1>1. s \in Seq(ToSet(s)) /\ ToSet(s) = {s[i] : i \in 1..Len(s)}
  BY SetOf
<1>2. o \in Seq(ToSet(s) \cap T)
  BY <1>1, <1>p, OnlyType
<1>3. ToSet(o) \subseteq ToSet(s) \cap T /\ ToSet(o) = {o[i] : i \in 1..Len(o)}
  BY <1>2, SetOf
<1>4. ASSUME NEW x \in ToSet(s) \cap T PROVE x \in ToSet(o)
  <2>1. PICK i \in 1..Len(s) : x = s[i]
    BY <1>1
  <2>2. \E k \in 1..Len(Only(s, T)) : Only(s, T)[k] = s[i]
    BY <2>1, OnlyComplete
  <2>3. QED
    BY <1>p, <1>3, <2>1, <2>2
<1>5. QED
  BY <1>3, <1>4, <1>p

\* A selected element is in the selection, and behind it there only elements
\* that are behind it in the list.
KeptInOrder(s, o, i) ==
  \E k \in 1..Len(o) :
    /\ o[k] = s[i]
    /\ \A m \in (k + 1)..Len(o) : \E j \in (i + 1)..Len(s) : o[m] = s[j]

\* One more element leaves what was kept in order.
LEMMA KeptGrows ==
  ASSUME NEW S, NEW s \in Seq(S), NEW o \in Seq(S), NEW e \in S, NEW i \in 1..Len(s),
         KeptInOrder(s, o, i)
  PROVE  /\ KeptInOrder(Append(s, e), o, i)
         /\ KeptInOrder(Append(s, e), Append(o, e), i)
<1>p. PICK t, u, m, n : t = Append(s, e) /\ u = Append(o, e) /\ m = Len(s) /\ n = Len(o)
  OBVIOUS
<1>1. /\ t \in Seq(S) /\ Len(t) = m + 1 /\ m \in Nat /\ t[m + 1] = e
      /\ \A j \in 1..m : t[j] = s[j]
  BY <1>p, AppendProperties, LenProperties
<1>2. /\ u \in Seq(S) /\ Len(u) = n + 1 /\ n \in Nat /\ u[n + 1] = e
      /\ \A j \in 1..n : u[j] = o[j]
  BY <1>p, AppendProperties, LenProperties
<1>3. PICK k \in 1..n : /\ o[k] = s[i]
                        /\ \A x \in (k + 1)..n : \E j \in (i + 1)..m : o[x] = s[j]
  BY <1>p DEF KeptInOrder
<1>4. i \in 1..m /\ t[i] = s[i]
  BY <1>1, <1>p
<1>5. ASSUME NEW x \in (k + 1)..n PROVE \E j \in (i + 1)..(m + 1) : o[x] = t[j]
  <2>1. PICK j \in (i + 1)..m : o[x] = s[j]
    BY <1>3, <1>5
  <2>2. j \in 1..m /\ j \in (i + 1)..(m + 1)
    BY <1>1, <1>4
  <2>3. QED
    BY <1>1, <2>1, <2>2
<1>6. \A x \in (k + 1)..(n + 1) : \E j \in (i + 1)..(m + 1) : u[x] = t[j]
  <2>1. ASSUME NEW x \in (k + 1)..(n + 1) PROVE \E j \in (i + 1)..(m + 1) : u[x] = t[j]
    <3>1. CASE x = n + 1
      <4>1. m + 1 \in (i + 1)..(m + 1)
        BY <1>1, <1>4
      <4>2. QED
        BY <1>1, <1>2, <3>1, <4>1
    <3>2. CASE x # n + 1
      <4>1. x \in (k + 1)..n /\ x \in 1..n
        BY <1>2, <1>3, <2>1, <3>2
      <4>2. u[x] = o[x]
        BY <1>2, <4>1
      <4>3. QED
        BY <1>5, <4>1, <4>2
    <3>3. QED
      BY <3>1, <3>2
  <2>2. QED
    BY <2>1
<1>7. k \in 1..(n + 1) /\ u[k] = t[i] /\ o[k] = t[i]
  BY <1>2, <1>3, <1>4
<1>8. KeptInOrder(t, o, i)
  <2>1. k \in 1..n /\ \A x \in (k + 1)..n : \E j \in (i + 1)..(m + 1) : o[x] = t[j]
    BY <1>3, <1>5
  <2>2. Len(t) = m + 1 /\ Len(o) = n
    BY <1>1, <1>p
  <2>3. QED
    BY <1>7, <2>1, <2>2 DEF KeptInOrder
<1>9. KeptInOrder(t, u, i)
  BY <1>1, <1>2, <1>6, <1>7 DEF KeptInOrder
<1>10. QED
  BY <1>8, <1>9, <1>p

LEMMA OnlyInOrder ==
  ASSUME NEW S, NEW s \in Seq(S), NEW T, NEW i \in 1..Len(s), s[i] \in T
  PROVE  KeptInOrder(s, Only(s, T), i)
<1>. DEFINE I == {x \in Seq(S) : \A y \in 1..Len(x) : x[y] \in T => KeptInOrder(x, Only(x, T), y)}
<1>1. <<>> \in I
  BY EmptySeq
<1>2. ASSUME NEW x \in Seq(S), NEW e \in S, x \in I PROVE Append(x, e) \in I
  <2>p. PICK t, o, n : t = Append(x, e) /\ o = Only(x, T) /\ n = Len(x)
    OBVIOUS
  <2>1. /\ t \in Seq(S) /\ Len(t) = n + 1 /\ n \in Nat /\ t[n + 1] = e
        /\ \A j \in 1..n : t[j] = x[j]
    BY <2>p, AppendProperties, LenProperties
  <2>2. o \in Seq(S \cap T)
    BY <2>p, OnlyType
  <2>3. o \in Seq(S)
    BY <2>2, SeqWider
  <2>4. Only(t, T) = IF e \in T THEN Append(o, e) ELSE o
    BY <2>p, OnlyAppend
  <2>5. ASSUME NEW y \in 1..(n + 1), t[y] \in T PROVE KeptInOrder(t, Only(t, T), y)
    <3>1. CASE y = n + 1
      <4>u. PICK u, m : u = Append(o, e) /\ m = Len(o)
        OBVIOUS
      <4>1. u \in Seq(S) /\ Len(u) = m + 1 /\ m \in Nat /\ u[m + 1] = e
        BY <2>3, <4>u, AppendProperties, LenProperties
      <4>2. Only(t, T) = u
        BY <2>1, <2>4, <2>5, <3>1, <4>u
      <4>3. m + 1 \in 1..Len(u) /\ (m + 1) + 1 > Len(u)
        BY <4>1
      <4>4. \A z \in ((m + 1) + 1)..Len(u) : FALSE
        BY <4>1
      <4>5. QED
        BY <2>1, <3>1, <4>1, <4>2, <4>3, <4>4 DEF KeptInOrder
    <3>2. CASE y # n + 1
      <4>1. y \in 1..Len(x) /\ x[y] \in T
        BY <2>1, <2>5, <2>p, <3>2
      <4>2. KeptInOrder(x, o, y)
        BY <1>2, <2>p, <4>1
      <4>3. KeptInOrder(t, o, y) /\ KeptInOrder(t, Append(o, e), y)
        BY <2>3, <2>p, <4>1, <4>2, KeptGrows
      <4>4. QED
        BY <2>4, <4>3
    <3>3. QED
      BY <3>1, <3>2
  <2>6. t \in I
    BY <2>1, <2>5
  <2>7. QED
    BY <2>6, <2>p
<1>3. s \in I
  <2>. HIDE DEF I
  <2>1. Seq(S) \subseteq I
    BY <1>1, <1>2, SeqInduction
  <2>2. QED
    BY <2>1
<1>4. QED
  BY <1>3

LEMMA DistinctAppend ==
  ASSUME NEW S, NEW s \in Seq(S), NEW e \in S
  PROVE  Distinct(Append(s, e)) <=> Distinct(s) /\ e \notin ToSet(s)
<1>p. PICK t, m : t = Append(s, e) /\ m = Len(s)
  OBVIOUS
<1>1. /\ t \in Seq(S) /\ Len(t) = m + 1 /\ m \in Nat /\ t[m + 1] = e
      /\ \A i \in 1..m : t[i] = s[i]
  BY <1>p, AppendProperties, LenProperties
<1>2. ToSet(s) = {s[i] : i \in 1..m}
  BY <1>p, SetOf
<1>3. ASSUME Distinct(t) PROVE Distinct(s) /\ e \notin ToSet(s)
  <2>1. \A i \in 1..(m + 1), j \in 1..(m + 1) : t[i] = t[j] => i = j
    BY <1>1, <1>3 DEF Distinct
  <2>2. \A i \in 1..m, j \in 1..m : s[i] = s[j] => i = j
    BY <1>1, <2>1
  <2>3. \A i \in 1..m : t[i] # t[m + 1]
    BY <1>1, <2>1
  <2>4. QED
    BY <1>1, <1>2, <2>2, <2>3, <1>p DEF Distinct
<1>4. ASSUME Distinct(s), e \notin ToSet(s) PROVE Distinct(t)
  <2>1. \A i \in 1..m, j \in 1..m : s[i] = s[j] => i = j
    BY <1>4, <1>p DEF Distinct
  <2>2. \A i \in 1..m : s[i] # e
    BY <1>2, <1>4
  <2>3. \A i \in 1..(m + 1), j \in 1..(m + 1) : t[i] = t[j] => i = j
    BY <1>1, <2>1, <2>2
  <2>4. QED
    BY <1>1, <2>3 DEF Distinct
<1>5. QED
  BY <1>3, <1>4, <1>p

LEMMA OnlyDistinct ==
  ASSUME NEW S, NEW s \in Seq(S), NEW T, Distinct(s)
  PROVE  Distinct(Only(s, T))
<1>. DEFINE I == {l \in Seq(S) : Distinct(l) => Distinct(Only(l, T))}
<1>1. <<>> \in I
  <2>1. Distinct(<<>>)
    BY DEF Distinct
  <2>2. Distinct(Only(<<>>, T)) /\ <<>> \in Seq(S)
    BY <2>1, OnlyEmpty, EmptySeq
  <2>3. QED
    BY <2>2
<1>2. ASSUME NEW l \in Seq(S), NEW e \in S, l \in I PROVE Append(l, e) \in I
  <2>1. Append(l, e) \in Seq(S)
    BY AppendProperties
  <2>2. SUFFICES ASSUME Distinct(Append(l, e)) PROVE Distinct(Only(Append(l, e), T))
    BY <2>1
  <2>3. Distinct(l) /\ e \notin ToSet(l) /\ Distinct(Only(l, T))
    BY <1>2, <2>2, DistinctAppend
  <2>4. CASE e \in T
    <3>1. Only(Append(l, e), T) = Append(Only(l, T), e)
      BY <2>4, OnlyAppend
    <3>2. Only(l, T) \in Seq(S \cap T) /\ e \in S \cap T /\ e \notin ToSet(Only(l, T))
      BY <2>3, <2>4, OnlyType, OnlySet
    <3>3. QED
      BY <2>3, <3>1, <3>2, DistinctAppend
  <2>5. CASE e \notin T
    BY <2>3, <2>5, OnlyAppend
  <2>6. QED
    BY <2>4, <2>5
<1>3. Seq(S) \subseteq I
  <2>. HIDE DEF I
  <2>1. QED
    BY <1>1, <1>2, SeqInduction
<1>4. QED
  BY <1>3

\* A list that ends with another one.
LEMMA SuffixIs ==
  ASSUME NEW S, NEW a \in Seq(S), NEW b \in Seq(S)
  PROVE  IsSuffix(a, b) <=> /\ Len(a) <= Len(b)
                            /\ \A i \in 1..Len(a) : a[i] = b[Len(b) - Len(a) + i]
<1>p. PICK m, n, x, y : m = Len(a) /\ n = Len(b) /\ x = Reverse(a) /\ y = Reverse(b)
  OBVIOUS
<1>1. m \in Nat /\ n \in Nat
  BY <1>p, LenProperties
<1>2. x = [i \in 1..m |-> a[(m - i) + 1]] /\ y = [i \in 1..n |-> b[(n - i) + 1]]
  BY <1>p DEF Reverse
<1>3. Len(x) = m /\ Len(y) = n
  BY <1>1, <1>2
<1>4. IsSuffix(a, b) <=> m <= n /\ SubSeq(x, 1, m) = SubSeq(y, 1, m)
  BY <1>p, <1>3 DEF IsSuffix, IsPrefix
<1>5. ASSUME m <= n
      PROVE  SubSeq(x, 1, m) = SubSeq(y, 1, m) <=> \A i \in 1..m : a[i] = b[n - m + i]
  <2>1. SubSeq(x, 1, m) = [i \in 1..m |-> x[i]] /\ SubSeq(y, 1, m) = [i \in 1..m |-> y[i]]
    <3>1. \A l : SubSeq(l, 1, m) = [i \in 1..(1 + m - 1) |-> l[i + 1 - 1]]
      BY <1>1
    <3>2. 1 + m - 1 = m /\ \A i \in 1..m : i + 1 - 1 = i
      BY <1>1
    <3>3. QED
      BY <3>1, <3>2
  <2>2. SubSeq(x, 1, m) = SubSeq(y, 1, m) <=> \A i \in 1..m : x[i] = y[i]
    BY <2>1
  <2>3. \A i \in 1..m : x[i] = a[(m - i) + 1] /\ y[i] = b[(n - i) + 1]
    BY <1>1, <1>2, <1>5
  <2>4. (\A i \in 1..m : a[(m - i) + 1] = b[(n - i) + 1]) <=> \A i \in 1..m : a[i] = b[n - m + i]
    <3>1. ASSUME \A i \in 1..m : a[(m - i) + 1] = b[(n - i) + 1], NEW i \in 1..m
          PROVE  a[i] = b[n - m + i]
      <4>1. (m - i) + 1 \in 1..m
        BY <1>1
      <4>2. a[(m - ((m - i) + 1)) + 1] = b[(n - ((m - i) + 1)) + 1]
        BY <3>1, <4>1
      <4>3. (m - ((m - i) + 1)) + 1 = i /\ (n - ((m - i) + 1)) + 1 = n - m + i
        BY <1>1
      <4>4. QED
        BY <4>2, <4>3
    <3>2. ASSUME \A i \in 1..m : a[i] = b[n - m + i], NEW i \in 1..m
          PROVE  a[(m - i) + 1] = b[(n - i) + 1]
      <4>1. (m - i) + 1 \in 1..m
        BY <1>1
      <4>2. a[(m - i) + 1] = b[n - m + ((m - i) + 1)]
        BY <3>2, <4>1
      <4>3. n - m + ((m - i) + 1) = (n - i) + 1
        BY <1>1
      <4>4. QED
        BY <4>2, <4>3
    <3>3. QED
      BY <3>1, <3>2
  <2>5. QED
    BY <2>2, <2>3, <2>4
<1>6. QED
  BY <1>p, <1>4, <1>5

\* A list without repetition is as long as it has elements.
LEMMA DistinctLen ==
  ASSUME NEW S, NEW s \in Seq(S), Distinct(s)
  PROVE  IsFiniteSet(ToSet(s)) /\ Cardinality(ToSet(s)) = Len(s)
<1>p. PICK n, T : n = Len(s) /\ T = ToSet(s)
  OBVIOUS
<1>1. n \in Nat /\ DOMAIN s = 1..n /\ T = {s[i] : i \in 1..n} /\ s \in [1..n -> T]
  <2>1. n \in Nat /\ T = {s[i] : i \in 1..n} /\ s \in Seq(T) /\ DOMAIN s = 1..n
    BY <1>p, SetOf, LenProperties
  <2>2. s \in [1..n -> T]
    BY <1>p, <2>1, LenProperties
  <2>3. QED
    BY <2>1, <2>2
<1>2. \A i \in 1..n, j \in 1..n : s[i] = s[j] => i = j
  BY <1>p DEF Distinct
<1>3. s \in Bijection(1..n, T)
  BY <1>1, <1>2 DEF Bijection, Injection, Surjection, IsInjective
<1>4. IsFiniteSet(1..n) /\ Cardinality(1..n) = n
  <2>1. 1 \in Int /\ n \in Int /\ n - 1 + 1 = n /\ (1 > n => n = 0)
    BY <1>1
  <2>2. IsFiniteSet(1..n) /\ Cardinality(1..n) = IF 1 > n THEN 0 ELSE n - 1 + 1
    BY <2>1, FS_Interval
  <2>3. QED
    BY <2>1, <2>2
<1>5. ExistsBijection(1..n, T)
  BY <1>3 DEF ExistsBijection
<1>6. IsFiniteSet(T) /\ Cardinality(T) = Cardinality(1..n)
  BY <1>4, <1>5, FS_Bijection
<1>7. QED
  BY <1>p, <1>4, <1>6

\* The elements of a finite set in some order, each once.
LEMMA ListedOnce ==
  ASSUME NEW T, IsFiniteSet(T)
  PROVE  SetToSeq(T) \in Seq(T) /\ ToSet(SetToSeq(T)) = T /\ Distinct(SetToSeq(T))
<1>p. PICK n, l : n = Cardinality(T) /\ l = SetToSeq(T)
  OBVIOUS
<1>1. n \in Nat /\ ExistsBijection(1..n, T)
  BY <1>p, FS_CardinalityType
<1>2. \E f \in [1..n -> T] : IsInjective(f)
  BY <1>1 DEF ExistsBijection, Bijection, Injection, IsInjective
<1>3. l \in [1..n -> T] /\ IsInjective(l)
  BY <1>p, <1>2 DEF SetToSeq
<1>4. l \in Seq(T) /\ Len(l) = n
  BY <1>1, <1>3, ListOf
<1>5. Distinct(l)
  BY <1>3, <1>4 DEF Distinct, IsInjective
<1>6. ToSet(l) \subseteq T /\ IsFiniteSet(ToSet(l)) /\ Cardinality(ToSet(l)) = n
  BY <1>4, <1>5, SetOf, DistinctLen
<1>7. ToSet(l) = T
  BY <1>p, <1>6, FS_Subset
<1>8. QED
  BY <1>p, <1>4, <1>5, <1>7

-----------------------------------------------------------------------------
(* Lists that are related, put together.                                   *)

LEMMA PairwiseConcat ==
  ASSUME NEW S, NEW Q, NEW s \in Seq(S), NEW t \in Seq(S), Pairwise(s, Q), Pairwise(t, Q),
         \A a \in ToSet(s), b \in ToSet(t) : <<a, b>> \in Q
  PROVE  Pairwise(s \o t, Q)
<1>p. PICK u, m, n : u = s \o t /\ m = Len(s) /\ n = Len(t)
  OBVIOUS
<1>1. /\ m \in Nat /\ n \in Nat /\ Len(u) = m + n
      /\ \A i \in 1..(m + n) : u[i] = IF i <= m THEN s[i] ELSE t[i - m]
  BY <1>p, ConcatProperties, LenProperties
<1>2. ToSet(s) = {s[i] : i \in 1..m} /\ ToSet(t) = {t[i] : i \in 1..n}
  BY <1>p, SetOf
<1>3. ASSUME NEW i \in 1..(m + n), NEW j \in 1..(m + n), i < j PROVE <<u[i], u[j]>> \in Q
  <2>1. CASE j <= m
    <3>1. i \in 1..m /\ j \in 1..m /\ u[i] = s[i] /\ u[j] = s[j]
      BY <1>1, <1>3, <2>1
    <3>2. QED
      BY <1>3, <1>p, <3>1 DEF Pairwise
  <2>2. CASE i <= m /\ ~(j <= m)
    <3>1. i \in 1..m /\ j - m \in 1..n /\ u[i] = s[i] /\ u[j] = t[j - m]
      BY <1>1, <2>2
    <3>2. u[i] \in ToSet(s) /\ u[j] \in ToSet(t)
      BY <1>2, <3>1
    <3>3. QED
      BY <3>2
  <2>3. CASE ~(i <= m)
    <3>1. i - m \in 1..n /\ j - m \in 1..n /\ i - m < j - m /\ u[i] = t[i - m] /\ u[j] = t[j - m]
      BY <1>1, <1>3, <2>3
    <3>2. QED
      BY <1>p, <3>1 DEF Pairwise
  <2>4. QED
    BY <1>1, <1>3, <2>1, <2>2, <2>3
<1>4. QED
  BY <1>1, <1>3, <1>p DEF Pairwise

LEMMA SetOfConcat ==
  ASSUME NEW S, NEW s \in Seq(S), NEW t \in Seq(S)
  PROVE  ToSet(s \o t) = ToSet(s) \cup ToSet(t)
<1>p. PICK u, m, n : u = s \o t /\ m = Len(s) /\ n = Len(t)
  OBVIOUS
<1>1. /\ u \in Seq(S) /\ m \in Nat /\ n \in Nat /\ Len(u) = m + n
      /\ \A i \in 1..(m + n) : u[i] = IF i <= m THEN s[i] ELSE t[i - m]
  BY <1>p, ConcatProperties, LenProperties
<1>2. /\ ToSet(s) = {s[i] : i \in 1..m} /\ ToSet(t) = {t[i] : i \in 1..n}
      /\ ToSet(u) = {u[i] : i \in 1..(m + n)}
  <2>1. ToSet(u) = {u[i] : i \in 1..Len(u)}
    BY <1>1, SetOf
  <2>2. QED
    BY <1>1, <1>p, <2>1, SetOf
<1>3. \A i \in 1..m : i \in 1..(m + n) /\ u[i] = s[i]
  BY <1>1
<1>4. \A i \in 1..n : i + m \in 1..(m + n) /\ u[i + m] = t[i]
  BY <1>1
<1>5. \A i \in 1..(m + n) : u[i] \in ToSet(s) \/ u[i] \in ToSet(t)
  <2>1. SUFFICES ASSUME NEW i \in 1..(m + n) PROVE u[i] \in ToSet(s) \/ u[i] \in ToSet(t)
    OBVIOUS
  <2>2. CASE i <= m
    BY <1>1, <1>2, <2>2
  <2>3. CASE ~(i <= m)
    <3>1. i - m \in 1..n /\ u[i] = t[i - m]
      BY <1>1, <2>3
    <3>2. QED
      BY <1>2, <3>1
  <2>4. QED
    BY <2>2, <2>3
<1>6. ToSet(u) \subseteq ToSet(s) \cup ToSet(t)
  BY <1>2, <1>5
<1>7. ToSet(s) \subseteq ToSet(u)
  BY <1>2, <1>3
<1>8. ASSUME NEW a \in ToSet(t) PROVE a \in ToSet(u)
  <2>1. PICK i \in 1..n : a = t[i]
    BY <1>2
  <2>2. QED
    BY <1>2, <1>4, <2>1
<1>9. QED
  BY <1>6, <1>7, <1>8, <1>p

\* Lists joined: related within each, and across them.
Related(ls, Q) ==
  /\ \A i \in 1..Len(ls) : Pairwise(ls[i], Q)
  /\ \A i \in 1..Len(ls), j \in 1..Len(ls) :
       i < j => \A a \in ToSet(ls[i]), b \in ToSet(ls[j]) : <<a, b>> \in Q

FlattenFrom(ls, Q) ==
  /\ Related(ls, Q) => Pairwise(FlattenSeq(ls), Q)
  /\ \A a \in ToSet(FlattenSeq(ls)) : \E i \in 1..Len(ls) : a \in ToSet(ls[i])

LEMMA FlattenStep ==
  ASSUME NEW S, NEW Q, NEW l \in Seq(Seq(S)), NEW e \in Seq(S), FlattenFrom(l, Q)
  PROVE  FlattenFrom(Append(l, e), Q)
<1>p. PICK t, m, flat : t = Append(l, e) /\ m = Len(l) /\ flat = FlattenSeq(l)
  OBVIOUS
<1>1. /\ Len(t) = m + 1 /\ m \in Nat /\ t[m + 1] = e
      /\ \A i \in 1..m : t[i] = l[i]
  BY <1>p, AppendProperties, LenProperties
<1>2. flat \in Seq(S) /\ FlattenSeq(t) = flat \o e
  BY <1>p, FlattenType, FlattenAppend
<1>3. ToSet(flat \o e) = ToSet(flat) \cup ToSet(e)
  BY <1>2, SetOfConcat
<1>4. \A a \in ToSet(flat) : \E i \in 1..m : a \in ToSet(l[i])
  BY <1>p DEF FlattenFrom
<1>5. ASSUME NEW a \in ToSet(flat \o e) PROVE \E i \in 1..(m + 1) : a \in ToSet(t[i])
  <2>1. CASE a \in ToSet(e)
    <3>1. m + 1 \in 1..(m + 1) /\ a \in ToSet(t[m + 1])
      BY <1>1, <2>1
    <3>2. QED
      BY <3>1
  <2>2. CASE a \in ToSet(flat)
    <3>1. PICK i \in 1..m : a \in ToSet(l[i])
      BY <1>4, <2>2
    <3>2. i \in 1..(m + 1) /\ a \in ToSet(t[i])
      BY <1>1, <3>1
    <3>3. QED
      BY <3>2
  <2>3. QED
    BY <1>3, <1>5, <2>1, <2>2
<1>6. ASSUME Related(t, Q) PROVE Pairwise(flat \o e, Q)
  <2>1. /\ \A i \in 1..(m + 1) : Pairwise(t[i], Q)
        /\ \A i \in 1..(m + 1), j \in 1..(m + 1) :
             i < j => \A a \in ToSet(t[i]), b \in ToSet(t[j]) : <<a, b>> \in Q
    BY <1>1, <1>6 DEF Related
  <2>2. Pairwise(e, Q)
    BY <1>1, <2>1
  <2>3. Related(l, Q)
    <3>1. \A i \in 1..m : i \in 1..(m + 1) /\ t[i] = l[i]
      BY <1>1
    <3>2. \A i \in 1..m : Pairwise(l[i], Q)
      BY <2>1, <3>1
    <3>3. \A i \in 1..m, j \in 1..m :
            i < j => \A a \in ToSet(l[i]), b \in ToSet(l[j]) : <<a, b>> \in Q
      BY <2>1, <3>1
    <3>4. QED
      BY <1>p, <3>2, <3>3 DEF Related
  <2>4. Pairwise(flat, Q)
    BY <1>p, <2>3 DEF FlattenFrom
  <2>5. ASSUME NEW a \in ToSet(flat), NEW b \in ToSet(e) PROVE <<a, b>> \in Q
    <3>1. PICK i \in 1..m : a \in ToSet(l[i])
      BY <1>4
    <3>2. i \in 1..(m + 1) /\ m + 1 \in 1..(m + 1) /\ i < m + 1 /\ t[i] = l[i] /\ t[m + 1] = e
      BY <1>1
    <3>3. QED
      BY <2>1, <3>1, <3>2
  <2>6. QED
    BY <1>2, <2>2, <2>4, <2>5, PairwiseConcat
<1>7. QED
  BY <1>1, <1>2, <1>5, <1>6, <1>p DEF FlattenFrom

LEMMA FlattenPairwise ==
  ASSUME NEW S, NEW Q, NEW ls \in Seq(Seq(S)), Related(ls, Q)
  PROVE  /\ FlattenSeq(ls) \in Seq(S) /\ Pairwise(FlattenSeq(ls), Q)
         /\ \A a \in ToSet(FlattenSeq(ls)) : \E i \in 1..Len(ls) : a \in ToSet(ls[i])
<1>. DEFINE I == {l \in Seq(Seq(S)) : FlattenFrom(l, Q)}
<1>1. <<>> \in I
  <2>1. Pairwise(<<>>, Q) /\ ToSet(<<>>) = {}
    BY DEF Pairwise, ToSet
  <2>2. FlattenFrom(<<>>, Q)
    BY <2>1, FlattenEmpty DEF FlattenFrom
  <2>3. <<>> \in Seq(Seq(S))
    BY EmptySeq
  <2>4. QED
    BY <2>2, <2>3
<1>2. ASSUME NEW l \in Seq(Seq(S)), NEW e \in Seq(S), l \in I PROVE Append(l, e) \in I
  <2>1. FlattenFrom(Append(l, e), Q)
    BY <1>2, FlattenStep
  <2>2. Append(l, e) \in Seq(Seq(S))
    BY AppendProperties
  <2>3. QED
    BY <2>1, <2>2
<1>3. FlattenFrom(ls, Q)
  <2>. HIDE DEF I
  <2>1. Seq(Seq(S)) \subseteq I
    BY <1>1, <1>2, SeqInduction
  <2>2. ls \in I
    BY <2>1
  <2>3. QED
    BY <2>2 DEF I
<1>4. FlattenSeq(ls) \in Seq(S)
  BY FlattenType
<1>5. QED
  BY <1>3, <1>4 DEF FlattenFrom

-----------------------------------------------------------------------------
(* A finite set that is sorted.                                            *)

\* Of two elements one comes first.
SortedBy(S, R) ==
  /\ \A x \in S : <<x, x>> \notin R
  /\ \A x, y, z \in S : <<x, y>> \in R /\ <<y, z>> \in R => <<x, z>> \in R
  /\ \A x, y \in S : x # y => <<x, y>> \in R \/ <<y, x>> \in R

\* How many elements come before one.
Place(S, R, e) == Cardinality({x \in S : <<x, e>> \in R})

LEMMA PlaceIs ==
  ASSUME NEW S, IsFiniteSet(S), NEW R, SortedBy(S, R), NEW e \in S
  PROVE  /\ Place(S, R, e) \in 0..(Cardinality(S) - 1)
         /\ \A x \in S : <<x, e>> \in R => Place(S, R, x) < Place(S, R, e)
<1>. DEFINE Below(x) == {y \in S : <<y, x>> \in R}
<1>1. ASSUME NEW x \in S
      PROVE  IsFiniteSet(Below(x)) /\ Cardinality(Below(x)) \in Nat
  <2>1. Below(x) \in SUBSET S
    OBVIOUS
  <2>. HIDE DEF Below
  <2>2. QED
    BY <2>1, FS_Subset, FS_CardinalityType
<1>2. Cardinality(Below(e)) < Cardinality(S)
  <2>1. Below(e) \in SUBSET S /\ e \notin Below(e)
    BY DEF SortedBy
  <2>2. Cardinality(S) \in Nat /\ Cardinality(Below(e)) \in Nat
    BY <1>1, FS_CardinalityType
  <2>. HIDE DEF Below
  <2>3. Cardinality(Below(e)) <= Cardinality(S) /\ Cardinality(S) # Cardinality(Below(e))
    BY <2>1, FS_Subset
  <2>4. QED
    BY <2>2, <2>3
<1>3. ASSUME NEW x \in S, <<x, e>> \in R PROVE Cardinality(Below(x)) < Cardinality(Below(e))
  <2>1. Below(x) \in SUBSET Below(e) /\ x \in Below(e) /\ x \notin Below(x)
    BY <1>3 DEF SortedBy
  <2>2. /\ Cardinality(Below(x)) \in Nat /\ Cardinality(Below(e)) \in Nat
        /\ IsFiniteSet(Below(e))
    BY <1>1
  <2>. HIDE DEF Below
  <2>3. /\ Cardinality(Below(x)) <= Cardinality(Below(e))
        /\ Cardinality(Below(e)) # Cardinality(Below(x))
    BY <2>1, <2>2, FS_Subset
  <2>4. QED
    BY <2>2, <2>3
<1>4. Cardinality(S) \in Nat /\ Cardinality(Below(e)) \in Nat
  BY <1>1, FS_CardinalityType
<1>5. QED
  BY <1>2, <1>3, <1>4 DEF Place

\* The sorted list has every element once, and of two the first before.
LEMMA InOrderIs ==
  ASSUME NEW S, IsFiniteSet(S), NEW R, SortedBy(S, R)
  PROVE  /\ InOrderOf(S, R) \in Seq(S) /\ Len(InOrderOf(S, R)) = Cardinality(S)
         /\ ToSet(InOrderOf(S, R)) = S
         /\ Pairwise(InOrderOf(S, R), R) /\ Distinct(InOrderOf(S, R))
<1>p. PICK n, o : n = Cardinality(S) /\ o = InOrderOf(S, R)
  OBVIOUS
<1>. DEFINE f == [e \in S |-> Place(S, R, e)]
<1>1. n \in Nat
  BY <1>p, FS_CardinalityType
<1>2. f \in [S -> 0..(n - 1)]
  BY <1>p, PlaceIs
<1>3. \A x, y \in S : <<x, y>> \in R => f[x] < f[y]
  BY PlaceIs
<1>4. \A x, y \in S : f[x] = f[y] => x = y
  <2>1. SUFFICES ASSUME NEW x \in S, NEW y \in S, f[x] = f[y], x # y PROVE FALSE
    OBVIOUS
  <2>2. <<x, y>> \in R \/ <<y, x>> \in R
    BY <2>1 DEF SortedBy
  <2>3. f[x] \in Int /\ f[y] \in Int
    BY <1>2
  <2>. HIDE DEF f
  <2>4. f[x] < f[y] \/ f[y] < f[x]
    BY <1>3, <2>2
  <2>5. QED
    BY <2>1, <2>3, <2>4
<1>5. f \in Injection(S, 0..(n - 1))
  BY <1>2, <1>4 DEF Injection, IsInjective
<1>6. IsFiniteSet(0..(n - 1)) /\ Cardinality(0..(n - 1)) = n
  <2>1. 0 \in Int /\ n - 1 \in Int /\ (n - 1) - 0 + 1 = n /\ (0 > n - 1 => n = 0)
    BY <1>1
  <2>2. /\ IsFiniteSet(0..(n - 1))
        /\ Cardinality(0..(n - 1)) = IF 0 > n - 1 THEN 0 ELSE (n - 1) - 0 + 1
    BY <2>1, FS_Interval
  <2>3. QED
    BY <2>1, <2>2
<1>7. \A k \in 0..(n - 1) : \E e \in S : f[e] = k
  <2>. HIDE DEF f
  <2>1. f \in Surjection(S, 0..(n - 1))
    BY <1>p, <1>5, <1>6, FS_Injection
  <2>2. QED
    BY <2>1 DEF Surjection
<1>8. ASSUME NEW k \in 1..n PROVE o[k] \in S /\ f[o[k]] = k - 1
  <2>1. k - 1 \in 0..(n - 1)
    BY <1>1
  <2>2. \E e \in S : Place(S, R, e) = k - 1
    BY <1>7, <2>1
  <2>3. o[k] = CHOOSE e \in S : Place(S, R, e) = k - 1
    BY <1>p DEF InOrderOf, Place
  <2>4. o[k] \in S /\ Place(S, R, o[k]) = k - 1
    BY <2>2, <2>3
  <2>5. QED
    BY <2>4
<1>9. o \in [1..n -> S]
  <2>. DEFINE at(k) == CHOOSE e \in S : Cardinality({x \in S : <<x, e>> \in R}) = k - 1
  <2>1. o = [k \in 1..n |-> at(k)]
    BY <1>p DEF InOrderOf
  <2>. HIDE DEF at
  <2>2. \A k \in 1..n : at(k) \in S
    BY <1>8, <2>1
  <2>3. QED
    BY <2>1, <2>2
<1>10. o \in Seq(S) /\ Len(o) = n
  BY <1>1, <1>9, ListOf
<1>11. \A e \in S : \E k \in 1..n : o[k] = e
  <2>1. SUFFICES ASSUME NEW e \in S PROVE \E k \in 1..n : o[k] = e
    OBVIOUS
  <2>2. f[e] \in 0..(n - 1)
    BY <1>2
  <2>3. f[e] + 1 \in 1..n /\ (f[e] + 1) - 1 = f[e]
    BY <1>1, <2>2
  <2>. HIDE DEF f
  <2>4. o[f[e] + 1] \in S /\ f[o[f[e] + 1]] = f[e]
    BY <1>8, <2>3
  <2>5. o[f[e] + 1] = e
    BY <1>4, <2>4
  <2>6. QED
    BY <2>3, <2>5
<1>12. ToSet(o) = S
  <2>1. ToSet(o) = {o[i] : i \in 1..n} /\ ToSet(o) \subseteq S
    BY <1>10, SetOf
  <2>2. QED
    BY <1>11, <2>1
<1>13. Pairwise(o, R) /\ Distinct(o)
  <2>1. ASSUME NEW i \in 1..n, NEW j \in 1..n, i < j PROVE <<o[i], o[j]>> \in R
    <3>1. o[i] \in S /\ o[j] \in S /\ f[o[i]] = i - 1 /\ f[o[j]] = j - 1
      BY <1>8
    <3>. HIDE DEF f
    <3>2. o[i] # o[j] /\ ~(f[o[j]] < f[o[i]])
      BY <2>1, <3>1
    <3>3. <<o[j], o[i]>> \notin R
      BY <1>3, <3>1, <3>2
    <3>4. QED
      BY <3>1, <3>2, <3>3 DEF SortedBy
  <2>2. ASSUME NEW i \in 1..n, NEW j \in 1..n, o[i] = o[j] PROVE i = j
    <3>1. f[o[i]] = i - 1 /\ f[o[j]] = j - 1
      BY <1>8
    <3>. HIDE DEF f
    <3>2. i - 1 = j - 1
      BY <2>2, <3>1
    <3>3. QED
      BY <3>2
  <2>3. QED
    BY <1>10, <2>1, <2>2 DEF Pairwise, Distinct
<1>14. QED
  BY <1>p, <1>10, <1>12, <1>13

-----------------------------------------------------------------------------
(* How much a selection keeps.                                             *)

LEMMA OnlyShort ==
  ASSUME NEW S, NEW s \in Seq(S), NEW T
  PROVE  Len(Only(s, T)) <= Len(s)
<1>. DEFINE I == {l \in Seq(S) : Len(Only(l, T)) <= Len(l)}
<1>1. <<>> \in I
  <2>1. Only(<<>>, T) = <<>> /\ <<>> \in Seq(S) /\ Len(<<>>) = 0
    BY OnlyEmpty, EmptySeq
  <2>2. QED
    BY <2>1
<1>2. ASSUME NEW l \in Seq(S), NEW e \in S, l \in I PROVE Append(l, e) \in I
  <2>p. PICK o, t : o = Only(l, T) /\ t = Append(l, e)
    OBVIOUS
  <2>1. /\ t \in Seq(S) /\ Len(t) = Len(l) + 1 /\ Len(l) \in Nat
        /\ o \in Seq(S \cap T) /\ Len(o) \in Nat /\ Len(o) <= Len(l)
    BY <1>2, <2>p, AppendProperties, LenProperties, OnlyType
  <2>2. Only(t, T) = IF e \in T THEN Append(o, e) ELSE o
    BY <2>p, OnlyAppend
  <2>3. e \in T => Len(Append(o, e)) = Len(o) + 1
    <3>1. ASSUME e \in T PROVE Len(Append(o, e)) = Len(o) + 1
      BY <2>1, <3>1, AppendProperties
    <3>2. QED
      BY <3>1
  <2>4. Len(Only(t, T)) <= Len(t)
    BY <2>1, <2>2, <2>3
  <2>5. QED
    BY <2>p, <2>1, <2>4
<1>3. QED
  <2>. HIDE DEF I
  <2>1. s \in I
    BY <1>1, <1>2, SeqInduction
  <2>2. QED
    BY <2>1 DEF I

LEMMA OnlyAll ==
  ASSUME NEW S, NEW s \in Seq(S), NEW T, ToSet(s) \subseteq T
  PROVE  Only(s, T) = s
<1>. DEFINE I == {l \in Seq(S) : ToSet(l) \subseteq T => Only(l, T) = l}
<1>1. <<>> \in I
  <2>1. Only(<<>>, T) = <<>> /\ <<>> \in Seq(S)
    BY OnlyEmpty, EmptySeq
  <2>2. QED
    BY <2>1
<1>2. ASSUME NEW l \in Seq(S), NEW e \in S, l \in I PROVE Append(l, e) \in I
  <2>p. PICK t : t = Append(l, e)
    OBVIOUS
  <2>1. /\ t \in Seq(S) /\ ToSet(t) = ToSet(l) \cup {e}
        /\ Only(t, T) = IF e \in T THEN Append(Only(l, T), e) ELSE Only(l, T)
    BY <2>p, AppendProperties, SetOfAppend, OnlyAppend
  <2>2. QED
    BY <1>2, <2>1, <2>p
<1>3. QED
  <2>. HIDE DEF I
  <2>1. s \in I
    BY <1>1, <1>2, SeqInduction
  <2>2. QED
    BY <2>1 DEF I

\* The beginning of a list.
LEMMA BeginningIs ==
  ASSUME NEW S, NEW s \in Seq(S), NEW n \in 0..Len(s)
  PROVE  /\ SubSeq(s, 1, n) \in Seq(S) /\ Len(SubSeq(s, 1, n)) = n
         /\ \A i \in 1..n : SubSeq(s, 1, n)[i] = s[i]
<1>1. Len(s) \in Nat /\ n \in Nat
  BY LenProperties
<1>p. PICK t : t = SubSeq(s, 1, n)
  OBVIOUS
<1>2. t = [i \in 1..n |-> s[i]]
  <2>1. t = [i \in 1..((n - 1) + 1) |-> s[(1 + i) - 1]]
    BY <1>p DEF SubSeq
  <2>2. \A i \in 1..n : (1 + i) - 1 = i
    BY <1>1
  <2>3. (n - 1) + 1 = n
    BY <1>1
  <2>4. QED
    BY <2>1, <2>2, <2>3
<1>3. \A i \in 1..n : s[i] \in S
  BY <1>1, ElementOfSeq
<1>4. t \in [1..n -> S]
  BY <1>2, <1>3
<1>5. t \in Seq(S) /\ Len(t) = n
  BY <1>1, <1>4, ListOf
<1>6. QED
  BY <1>p, <1>2, <1>5

\* The lesser and the greater of two numbers.
LEMMA Lesser ==
  ASSUME NEW a \in Int, NEW b \in Int
  PROVE  /\ Min({a, b}) \in {a, b} /\ Min({a, b}) <= a /\ Min({a, b}) <= b
         /\ Max({a, b}) \in {a, b} /\ Max({a, b}) >= a /\ Max({a, b}) >= b
<1>1. \E x \in {a, b} : \A y \in {a, b} : x <= y
  BY SMT
<1>2. \E x \in {a, b} : \A y \in {a, b} : x >= y
  BY SMT
<1>3. Min({a, b}) \in {a, b} /\ \A y \in {a, b} : Min({a, b}) <= y
  BY <1>1 DEF Min
<1>4. Max({a, b}) \in {a, b} /\ \A y \in {a, b} : Max({a, b}) >= y
  BY <1>2 DEF Max
<1>5. QED
  BY <1>3, <1>4

\* A set that is sorted has a first element.
LEMMA OneIsFirst ==
  ASSUME NEW S, IsFiniteSet(S), S # {}, NEW R, SortedBy(S, R)
  PROVE  \E e \in S : \A x \in S \ {e} : <<e, x>> \in R
<1>p. PICK o, n : o = InOrderOf(S, R) /\ n = Cardinality(S)
  OBVIOUS
<1>1. o \in Seq(S) /\ Len(o) = n /\ ToSet(o) = S /\ Pairwise(o, R)
  BY <1>p, InOrderIs
<1>2. n \in Nat /\ n # 0
  BY <1>p, FS_CardinalityType, FS_EmptySet
<1>3. 1 \in 1..n /\ \A i \in 1..n : i # 1 => 1 < i
  BY <1>2
<1>4. ToSet(o) = {o[i] : i \in 1..n} /\ o[1] \in S
  BY <1>1, <1>3, SetOf
<1>5. ASSUME NEW x \in S \ {o[1]} PROVE <<o[1], x>> \in R
  <2>1. PICK i \in 1..n : x = o[i]
    BY <1>1, <1>4
  <2>2. i # 1
    BY <2>1
  <2>3. QED
    BY <1>1, <1>3, <2>1, <2>2 DEF Pairwise
<1>6. QED
  BY <1>4, <1>5

\* The highest first, and of equal ones the one that is listed first.
LEMMA HighestFirstSorts ==
  ASSUME NEW D \in SUBSET Int, NEW S \in SUBSET D, NEW f \in [D -> Int]
  PROVE  SortedBy(S, HighestFirst(D, f))
<1>1. ASSUME NEW x \in S, NEW y \in S
      PROVE  <<x, y>> \in HighestFirst(D, f) <=> f[x] > f[y] \/ (f[x] = f[y] /\ x < y)
  BY DEF HighestFirst
<1>2. \A x \in S : x \in Int /\ f[x] \in Int
  OBVIOUS
<1>3. \A x \in S : <<x, x>> \notin HighestFirst(D, f)
  BY <1>1, <1>2
<1>4. ASSUME NEW x \in S, NEW y \in S, NEW z \in S,
             <<x, y>> \in HighestFirst(D, f), <<y, z>> \in HighestFirst(D, f)
      PROVE  <<x, z>> \in HighestFirst(D, f)
  <2>1. f[x] > f[y] \/ (f[x] = f[y] /\ x < y)
    BY <1>1, <1>4
  <2>2. f[y] > f[z] \/ (f[y] = f[z] /\ y < z)
    BY <1>1, <1>4
  <2>3. f[x] > f[z] \/ (f[x] = f[z] /\ x < z)
    BY <1>2, <2>1, <2>2
  <2>4. QED
    BY <1>1, <2>3
<1>5. ASSUME NEW x \in S, NEW y \in S, x # y
      PROVE  <<x, y>> \in HighestFirst(D, f) \/ <<y, x>> \in HighestFirst(D, f)
  <2>1. (f[x] > f[y] \/ (f[x] = f[y] /\ x < y)) \/ (f[y] > f[x] \/ (f[y] = f[x] /\ y < x))
    BY <1>2, <1>5
  <2>2. QED
    BY <1>1, <2>1
<1>6. QED
  BY <1>3, <1>4, <1>5 DEF SortedBy

-----------------------------------------------------------------------------
(* Recursion along a list: each entry is a step from the one before it.    *)

StepByStep(f, start, step, m) ==
  f = [n \in 0..m |-> IF n = 0 THEN start ELSE step[<<f[n - 1], n>>]]

LEMMA RecursionDefined ==
  ASSUME NEW X, NEW start \in X, NEW m \in Nat, NEW step \in [X \X (1..m) -> X]
  PROVE  \E f \in [0..m -> X] : StepByStep(f, start, step, m)
<1>. DEFINE I == {k \in Nat : k <= m => \E f \in [0..k -> X] : StepByStep(f, start, step, k)}
<1>1. 0 \in I
  <2>1. PICK f : f = [n \in 0..0 |-> start]
    OBVIOUS
  <2>2. f \in [0..0 -> X]
    BY <2>1
  <2>3. StepByStep(f, start, step, 0)
    BY <2>1 DEF StepByStep
  <2>4. QED
    BY <2>2, <2>3
<1>2. ASSUME NEW k \in Nat, k \in I PROVE k + 1 \in I
  <2>1. SUFFICES ASSUME k + 1 <= m
                 PROVE  \E f \in [0..(k + 1) -> X] : StepByStep(f, start, step, k + 1)
    OBVIOUS
  <2>2. PICK f \in [0..k -> X] : StepByStep(f, start, step, k)
    <3>1. k <= m
      BY <2>1
    <3>2. QED
      BY <1>2, <3>1
  <2>3. PICK g : g = [n \in 0..(k + 1) |-> IF n = k + 1 THEN step[<<f[k], k + 1>>] ELSE f[n]]
    OBVIOUS
  <2>4. \A n \in 0..k : g[n] = f[n] /\ f[n] \in X
    BY <2>2, <2>3
  <2>5. k + 1 \in 1..m /\ k \in 0..k /\ g[k + 1] = step[<<f[k], k + 1>>]
    BY <2>1, <2>3
  <2>6. g[k + 1] \in X
    <3>1. <<f[k], k + 1>> \in X \X (1..m)
      BY <2>4, <2>5
    <3>2. QED
      BY <2>5, <3>1
  <2>7. \A n \in 0..(k + 1) : n \in 0..k \/ n = k + 1
    OBVIOUS
  <2>8. g \in [0..(k + 1) -> X]
    <3>1. \A n \in 0..(k + 1) : g[n] \in X
      BY <2>4, <2>6, <2>7
    <3>2. g = [n \in 0..(k + 1) |-> g[n]]
      BY <2>3
    <3>3. QED
      BY <3>1, <3>2
  <2>9. ASSUME NEW n \in 0..(k + 1)
        PROVE  g[n] = IF n = 0 THEN start ELSE step[<<g[n - 1], n>>]
    <3>1. CASE n = k + 1
      BY <2>4, <2>5, <3>1
    <3>2. CASE n \in 0..k
      <4>1. f[n] = IF n = 0 THEN start ELSE step[<<f[n - 1], n>>]
        BY <2>2, <3>2 DEF StepByStep
      <4>2. n # 0 => n - 1 \in 0..k
        BY <3>2
      <4>3. QED
        BY <2>4, <3>2, <4>1, <4>2
    <3>3. QED
      BY <2>7, <3>1, <3>2
  <2>10. StepByStep(g, start, step, k + 1)
    <3>1. g = [n \in 0..(k + 1) |-> g[n]]
      BY <2>3
    <3>2. QED
      BY <2>9, <3>1 DEF StepByStep
  <2>11. QED
    BY <2>8, <2>10
<1>3. QED
  <2>. HIDE DEF I
  <2>1. m \in I
    BY <1>1, <1>2, SetInduction
  <2>2. QED
    BY <2>1 DEF I

\* Two recursions that start alike and step alike stay alike.
LEMMA RecursionAlike ==
  ASSUME NEW f, NEW g, NEW m \in Nat, f[0] = g[0],
         \A n \in 1..m : f[n - 1] = g[n - 1] => f[n] = g[n]
  PROVE  f[m] = g[m]
<1>. DEFINE I == {k \in Nat : k <= m => f[k] = g[k]}
<1>1. 0 \in I
  OBVIOUS
<1>2. ASSUME NEW k \in Nat, k \in I PROVE k + 1 \in I
  <2>1. SUFFICES ASSUME k + 1 <= m PROVE f[k + 1] = g[k + 1]
    OBVIOUS
  <2>2. k + 1 \in 1..m /\ (k + 1) - 1 = k /\ f[k] = g[k]
    BY <1>2, <2>1
  <2>3. QED
    BY <2>2
<1>3. QED
  <2>. HIDE DEF I
  <2>1. m \in I
    BY <1>1, <1>2, SetInduction
  <2>2. QED
    BY <2>1 DEF I

LEMMA DistinctConcat ==
  ASSUME NEW S, NEW a \in Seq(S), NEW b \in Seq(S), Distinct(a), Distinct(b),
         ToSet(a) \cap ToSet(b) = {}
  PROVE  Distinct(a \o b)
<1>. DEFINE Good(t) == Distinct(t) /\ ToSet(a) \cap ToSet(t) = {} => Distinct(a \o t)
            I == {t \in Seq(S) : Good(t)}
<1>1. <<>> \in I
  <2>1. a \o <<>> = a /\ <<>> \in Seq(S)
    BY ConcatEmptySeq, EmptySeq
  <2>2. QED
    BY <2>1
<1>2. ASSUME NEW t \in Seq(S), NEW e \in S, t \in I PROVE Append(t, e) \in I
  <2>p. PICK u, v : u = Append(t, e) /\ v = a \o t
    OBVIOUS
  <2>1. /\ u \in Seq(S) /\ v \in Seq(S) /\ a \o u = Append(v, e)
        /\ ToSet(u) = ToSet(t) \cup {e} /\ ToSet(v) = ToSet(a) \cup ToSet(t)
    BY <2>p, AppendProperties, ConcatProperties, AppendConcat, SetOfAppend, SetOfConcat
  <2>2. /\ Distinct(u) <=> Distinct(t) /\ e \notin ToSet(t)
        /\ Distinct(Append(v, e)) <=> Distinct(v) /\ e \notin ToSet(v)
    BY <2>p, <2>1, DistinctAppend
  <2>3. ASSUME Distinct(u), ToSet(a) \cap ToSet(u) = {} PROVE Distinct(a \o u)
    <3>1. Distinct(t) /\ e \notin ToSet(t) /\ ToSet(a) \cap ToSet(t) = {} /\ e \notin ToSet(a)
      BY <2>1, <2>2, <2>3
    <3>2. Distinct(v)
      BY <1>2, <2>p, <3>1
    <3>3. QED
      BY <2>1, <2>2, <3>1, <3>2
  <2>4. QED
    BY <2>1, <2>3, <2>p
<1>3. Good(b)
  <2>. HIDE DEF I, Good
  <2>1. b \in I
    BY <1>1, <1>2, SeqInduction
  <2>2. QED
    BY <2>1 DEF I
<1>4. QED
  BY <1>3

\* The last of some places, 0 among them.
LEMMA LastOfPlaces ==
  ASSUME NEW n \in Nat, NEW S \in SUBSET (0..n), S # {}
  PROVE  Max(S) \in S /\ \A x \in S : x <= Max(S)
<1>. DEFINE T == {x + 1 : x \in S}
<1>1. \A x \in S : x \in 0..n
  OBVIOUS
<1>2. T \in SUBSET (1..(n + 1)) /\ T # {} /\ n + 1 \in Nat
  <2>1. \A x \in S : x + 1 \in 1..(n + 1)
    BY <1>1
  <2>2. T # {} /\ n + 1 \in Nat
    <3>1. PICK x : x \in S
      OBVIOUS
    <3>2. x + 1 \in T
      BY <3>1
    <3>3. QED
      BY <3>2
  <2>3. QED
    BY <2>1, <2>2
<1>3. Max(T) \in T /\ \A y \in T : y <= Max(T)
  <2>. HIDE DEF T
  <2>1. QED
    BY <1>2, LastIsIn
<1>4. PICK x \in S : x + 1 = Max(T)
  BY <1>3
<1>5. ASSUME NEW y \in S PROVE x >= y
  <2>1. y + 1 <= x + 1
    BY <1>3, <1>4
  <2>2. QED
    BY <1>1, <2>1
<1>6. Max(S) \in S /\ \A y \in S : Max(S) >= y
  BY <1>5 DEF Max
<1>7. QED
  BY <1>1, <1>6

\* A list, its elements in another order.
LEMMA ReorderedIs ==
  ASSUME NEW S, NEW s \in Seq(S), NEW o \in Seq(1..Len(s)), Len(o) = Len(s),
         ToSet(o) = 1..Len(s), Distinct(o), NEW r \in [1..Len(s) -> S],
         \A n \in 1..Len(s) : r[n] = s[o[n]]
  PROVE  r \in Seq(S) /\ Len(r) = Len(s) /\ ToSet(r) = ToSet(s) /\ (Distinct(s) => Distinct(r))
<1>p. PICK m : m = Len(s)
  OBVIOUS
<1>1. m \in Nat /\ \A i \in 1..m : o[i] \in 1..m /\ s[i] \in S
  BY <1>p, LenProperties, ElementOfSeq
<1>2. r \in [1..m -> S]
  BY <1>1, <1>p
<1>3. r \in Seq(S) /\ Len(r) = m
  BY <1>1, <1>2, ListOf
<1>4. /\ ToSet(r) = {r[i] : i \in 1..m} /\ ToSet(s) = {s[i] : i \in 1..m}
      /\ ToSet(o) = {o[i] : i \in 1..m}
  <2>1. ToSet(r) = {r[i] : i \in 1..Len(r)}
    BY <1>3, SetOf
  <2>2. ToSet(o) = {o[i] : i \in 1..Len(o)} /\ ToSet(s) = {s[i] : i \in 1..Len(s)}
    BY SetOf
  <2>3. QED
    BY <1>3, <1>p, <2>1, <2>2
<1>5. \A i \in 1..m : \E k \in 1..m : o[k] = i
  <2>1. \A i \in 1..m : i \in ToSet(o)
    BY <1>p
  <2>2. \A e \in {o[i] : i \in 1..m} : \E k \in 1..m : o[k] = e
    OBVIOUS
  <2>3. QED
    BY <1>4, <2>1, <2>2, Zenon
<1>6. ToSet(r) = ToSet(s)
  <2>1. \A i \in 1..m : r[i] = s[o[i]] /\ o[i] \in 1..m
    BY <1>1, <1>p
  <2>2. ASSUME NEW i \in 1..m PROVE \E k \in 1..m : r[k] = s[i]
    <3>1. PICK k \in 1..m : o[k] = i
      BY <1>5
    <3>2. r[k] = s[i]
      BY <2>1, <3>1
    <3>3. QED
      BY <3>2
  <2>3. ToSet(r) \subseteq ToSet(s)
    BY <1>4, <2>1
  <2>4. ToSet(s) \subseteq ToSet(r)
    BY <1>4, <2>2
  <2>5. QED
    BY <2>3, <2>4
<1>7. ASSUME Distinct(s) PROVE Distinct(r)
  <2>1. \A i, j \in 1..m : s[i] = s[j] => i = j
    BY <1>7, <1>p DEF Distinct
  <2>2. \A i, j \in 1..m : o[i] = o[j] => i = j
    BY <1>p DEF Distinct
  <2>3. ASSUME NEW i \in 1..m, NEW j \in 1..m, r[i] = r[j] PROVE i = j
    <3>1. r[i] = s[o[i]] /\ r[j] = s[o[j]]
      BY <1>p
    <3>2. s[o[i]] = s[o[j]] /\ o[i] \in 1..m /\ o[j] \in 1..m
      BY <1>1, <2>3, <3>1, Zenon
    <3>3. o[i] = o[j]
      BY <2>1, <3>2, Zenon
    <3>4. QED
      BY <2>2, <3>3
  <2>4. QED
    BY <1>3, <2>3 DEF Distinct
<1>8. QED
  BY <1>3, <1>6, <1>7, <1>p

\* The first element of a selection: one that has none selected before it.
LEMMA OnlyHead ==
  ASSUME NEW S, NEW s \in Seq(S), NEW T, NEW H,
         \A i \in 1..Len(s) : s[i] \in T => s[i] \in H \/ \E j \in 1..(i - 1) : s[j] \in T,
         Only(s, T) # <<>>
  PROVE  Only(s, T)[1] \in H
<1>. DEFINE Led(l) == \A i \in 1..Len(l) : l[i] \in T => l[i] \in H \/ \E j \in 1..(i - 1) : l[j] \in T
            I == {l \in Seq(S) : Led(l) => Only(l, T) = <<>> \/ Only(l, T)[1] \in H}
<1>1. <<>> \in I
  <2>1. Only(<<>>, T) = <<>> /\ <<>> \in Seq(S)
    BY OnlyEmpty, EmptySeq
  <2>2. QED
    BY <2>1
<1>2. ASSUME NEW l \in Seq(S), NEW e \in S, l \in I PROVE Append(l, e) \in I
  <2>p. PICK t, m, o : t = Append(l, e) /\ m = Len(l) /\ o = Only(l, T)
    OBVIOUS
  <2>1. /\ t \in Seq(S) /\ m \in Nat /\ Len(t) = m + 1 /\ t[m + 1] = e
        /\ \A i \in 1..m : t[i] = l[i]
        /\ Only(t, T) = IF e \in T THEN Append(o, e) ELSE o
    BY <2>p, AppendProperties, LenProperties, OnlyAppend
  <2>2. SUFFICES ASSUME Led(t) PROVE Only(t, T) = <<>> \/ Only(t, T)[1] \in H
    BY <2>1, <2>p
  <2>3. \A i \in 1..m : i \in 1..(m + 1) /\ \A j \in 1..(i - 1) : j \in 1..m
    BY <2>1
  <2>4. Led(l)
    <3>1. SUFFICES ASSUME NEW i \in 1..m, l[i] \in T PROVE l[i] \in H \/ \E j \in 1..(i - 1) : l[j] \in T
      BY <2>p
    <3>2. t[i] = l[i] /\ i \in 1..Len(t)
      BY <2>1, <2>3
    <3>3. t[i] \in H \/ \E j \in 1..(i - 1) : t[j] \in T
      BY <2>2, <3>1, <3>2
    <3>4. QED
      BY <2>1, <2>3, <3>2, <3>3
  <2>5. o = <<>> \/ o[1] \in H
    BY <1>2, <2>4, <2>p
  <2>6. o \in Seq(S \cap T)
    BY <2>p, OnlyType
  <2>7. CASE e \notin T
    BY <2>1, <2>5, <2>7
  <2>8. CASE e \in T /\ o # <<>>
    <3>1. Len(o) \in Nat /\ Len(o) # 0
      BY <2>6, <2>8, EmptySeq, LenProperties
    <3>2. Append(o, e)[1] = o[1]
      BY <2>6, <2>8, <3>1, AppendProperties
    <3>3. QED
      BY <2>1, <2>5, <2>8, <3>2
  <2>9. CASE e \in T /\ o = <<>>
    <3>1. ToSet(o) = ToSet(l) \cap T
      BY <2>p, OnlySet
    <3>2. ToSet(o) = {} /\ ToSet(l) = {l[i] : i \in 1..m}
      <4>1. \A z \in Seq(S) : ToSet(z) = {z[i] : i \in 1..Len(z)}
        BY SetOf
      <4>2. <<>> \in Seq(S) /\ Len(<<>>) = 0 /\ 1..0 = {}
        BY EmptySeq
      <4>3. QED
        BY <2>9, <2>p, <4>1, <4>2
    <3>3. \A j \in 1..m : t[j] \notin T
      BY <2>1, <2>9, <3>1, <3>2
    <3>4. m + 1 \in 1..Len(t) /\ (m + 1) - 1 = m
      BY <2>1
    <3>5. e \in H
      BY <2>1, <2>2, <2>9, <3>3, <3>4
    <3>6. Append(o, e)[1] = e
      BY <2>9
    <3>7. QED
      BY <2>1, <2>9, <3>5, <3>6
  <2>10. QED
    BY <2>7, <2>8, <2>9
<1>3. QED
  <2>. HIDE DEF I
  <2>1. s \in I
    BY <1>1, <1>2, SeqInduction
  <2>2. QED
    BY <2>1 DEF I

\* What is kept first begins as the list does.
LEMMA FirstOnlyHead ==
  ASSUME NEW S, NEW s \in Seq(S), s # <<>>, NEW R
  PROVE  FirstOnly(s, R) # <<>> /\ FirstOnly(s, R)[1] = s[1]
<1>1. PICK f : f = [n \in 0..Len(s) |-> FirstEntry(s, R, f, n)] /\ FirstOnly(s, R) = f[Len(s)]
  BY FirstDefined
<1>2. Len(s) \in Nat /\ Len(s) # 0 /\ 1 \in 1..Len(s) /\ s[1] \in S
  <2>1. Len(s) \in Nat /\ Len(s) # 0
    BY LenProperties, EmptySeq
  <2>2. 1 \in 1..Len(s)
    BY <2>1
  <2>3. QED
    BY <2>1, <2>2, ElementOfSeq
<1>. DEFINE Led(o) == o \in Seq(S) /\ Len(o) >= 1 /\ o[1] = s[1]
            I == {n \in Nat : n + 1 <= Len(s) => Led(f[n + 1])}
<1>3. 0 \in I
  <2>1. f[0] = <<>> /\ f[1] = FirstEntry(s, R, f, 1)
    <3>1. 0 \in 0..Len(s) /\ 1 \in 0..Len(s)
      BY <1>2
    <3>2. f[0] = FirstEntry(s, R, f, 0) /\ f[1] = FirstEntry(s, R, f, 1)
      BY <1>1, <3>1
    <3>3. FirstEntry(s, R, f, 0) = <<>>
      BY DEF FirstEntry
    <3>4. QED
      BY <3>2, <3>3
  <2>2. f[1] = Append(<<>>, s[1])
    <3>1. 1 # 0 /\ 1 - 1 = 0 /\ Len(<<>>) = 0 /\ \A k \in 1..0 : FALSE
      OBVIOUS
    <3>2. QED
      BY <2>1, <3>1 DEF FirstEntry
  <2>3. Led(Append(<<>>, s[1]))
    <3>1. <<>> \in Seq(S) /\ Len(<<>>) = 0
      BY EmptySeq
    <3>2. QED
      BY <1>2, <3>1, AppendProperties
  <2>4. 0 + 1 = 1 /\ 0 \in Nat
    OBVIOUS
  <2>5. Led(f[0 + 1])
    BY <2>2, <2>3, <2>4
  <2>6. QED
    BY <2>4, <2>5
<1>4. ASSUME NEW n \in Nat, n \in I PROVE n + 1 \in I
  <2>1. SUFFICES ASSUME (n + 1) + 1 <= Len(s) PROVE Led(f[(n + 1) + 1])
    OBVIOUS
  <2>p. PICK o, e, new : o = f[n + 1] /\ e = s[(n + 1) + 1] /\ new = f[(n + 1) + 1]
    OBVIOUS
  <2>2. n + 1 <= Len(s) /\ (n + 1) + 1 \in 1..Len(s) /\ (n + 1) + 1 \in 0..Len(s) /\ (n + 1) + 1 # 0
        /\ ((n + 1) + 1) - 1 = n + 1
    BY <1>2, <2>1
  <2>3. Led(o) /\ e \in S
    BY <1>4, <2>2, <2>p, ElementOfSeq
  <2>4. new = FirstEntry(s, R, f, (n + 1) + 1)
    BY <1>1, <2>2, <2>p
  <2>5. new = o \/ new = Append(o, e)
    BY <2>2, <2>4, <2>p DEF FirstEntry
  <2>6. Led(Append(o, e))
    <3>1. /\ Append(o, e) \in Seq(S) /\ Len(Append(o, e)) = Len(o) + 1 /\ Len(o) \in Nat
          /\ \A k \in 1..Len(o) : Append(o, e)[k] = o[k]
      BY <2>3, AppendProperties, LenProperties
    <3>2. 1 \in 1..Len(o) /\ Len(o) + 1 >= 1
      BY <2>3, <3>1
    <3>3. QED
      BY <2>3, <3>1, <3>2
  <2>7. QED
    BY <2>3, <2>5, <2>6, <2>p
<1>5. Led(FirstOnly(s, R))
  <2>. HIDE DEF I
  <2>1. Nat \subseteq I
    BY <1>3, <1>4, SetInduction
  <2>2. Len(s) - 1 \in I
    BY <1>2, <2>1
  <2>3. Led(f[(Len(s) - 1) + 1])
    BY <1>2, <2>2 DEF I
  <2>4. (Len(s) - 1) + 1 = Len(s)
    BY <1>2
  <2>5. QED
    BY <1>1, <2>3, <2>4
<1>6. QED
  BY <1>5
================================================================================
