--------------------------- MODULE SequenceLemmas ---------------------------
(***************************************************************************)
(* Facts about numbers and sequences that several proofs rest on.  A set of *)
(* numbers without a least one is empty: this is how a fact about every    *)
(* length is proved, and with it what FlattenSeq, which is defined by a    *)
(* recursive function, computes.                                           *)
(***************************************************************************)
EXTENDS SequencesExt, Integers, SequenceTheorems, WellFoundedInduction, TLAPS

\* Every set of numbers has a least one.
LEMMA LeastNumber ==
    ASSUME NEW T \in SUBSET Nat, T # {}
    PROVE  \E x \in T : \A y \in T : x <= y
<1>1. IsWellFoundedOn(OpToRel(<, Nat), Nat)
  BY NatLessThanWellFounded
<1>2. PICK x \in T : \A y \in T : ~ (<<y, x>> \in OpToRel(<, Nat))
  BY <1>1, WFMin
<1>3. \A y \in T : ~(y < x)
  BY <1>2 DEF OpToRel
<1> QED
  BY <1>3

\* Induction, as a fact about a set.
LEMMA AllNumbers ==
    ASSUME NEW T \in SUBSET Nat, 0 \in T, \A n \in T : n + 1 \in T
    PROVE  T = Nat
<1> SUFFICES ASSUME Nat \ T # {} PROVE FALSE
  OBVIOUS
<1>1. PICK x \in Nat \ T : \A y \in Nat \ T : x <= y
  <2> DEFINE U == Nat \ T
  <2>1. U \in SUBSET Nat /\ U # {}
    OBVIOUS
  <2> HIDE DEF U
  <2>2. \E x \in U : \A y \in U : x <= y
    BY <2>1, LeastNumber
  <2> QED
    BY <2>2 DEF U
<1>2. x # 0 /\ x - 1 \in Nat /\ x - 1 \in T
  BY <1>1
<1> QED
  BY <1>1, <1>2

\* f joins the first n sequences of ss.
Joins(f, ss, n) == \A i \in 1..n : f[i] = IF i = 1 THEN ss[i] ELSE f[i - 1] \o ss[i]

LEMMA JointExists ==
    ASSUME NEW S, NEW ss \in Seq(Seq(S))
    PROVE  \E f \in [1..Len(ss) -> Seq(S)] : Joins(f, ss, Len(ss))
<1> DEFINE Upto(f, n) == Joins(f, ss, n)
           P(n) == n <= Len(ss) => \E f \in [1..n -> Seq(S)] : Upto(f, n)
           T == {n \in Nat : P(n)}
<1>0. Len(ss) \in Nat /\ \A i \in 1..Len(ss) : ss[i] \in Seq(S)
  BY LenProperties, ElementOfSeq
<1>1. P(0)
  <2>1. \E f : f \in [1..0 -> Seq(S)]
    <3>1. [i \in 1..0 |-> ss] \in [1..0 -> Seq(S)]
      OBVIOUS
    <3> QED
      BY <3>1
  <2>2. \A f : Upto(f, 0)
    BY DEF Joins
  <2> HIDE DEF Upto
  <2> QED
    BY <2>1, <2>2
<1>2. ASSUME NEW n \in Nat, P(n) PROVE P(n + 1)
  <2> SUFFICES ASSUME n + 1 <= Len(ss)
               PROVE  \E g \in [1..(n + 1) -> Seq(S)] : Upto(g, n + 1)
    OBVIOUS
  <2>1. PICK f \in [1..n -> Seq(S)] : Upto(f, n)
    <3>1. n <= Len(ss)
      BY <1>0
    <3> HIDE DEF Upto
    <3> QED
      BY <1>2, <3>1
  <2> DEFINE last == IF n = 0 THEN ss[n + 1] ELSE f[n] \o ss[n + 1]
             g == [i \in 1..(n + 1) |-> IF i = n + 1 THEN last ELSE f[i]]
  <2>2. last \in Seq(S)
    <3>1. ss[n + 1] \in Seq(S)
      BY <1>0
    <3>2. n # 0 => f[n] \in Seq(S)
      OBVIOUS
    <3> QED
      BY <3>1, <3>2, ConcatProperties
  <2>3. g \in [1..(n + 1) -> Seq(S)]
    <3> HIDE DEF last
    <3> QED
      BY <2>2
  <2>4. Upto(g, n + 1)
    <3> SUFFICES ASSUME NEW i \in 1..(n + 1)
                 PROVE  g[i] = IF i = 1 THEN ss[i] ELSE g[i - 1] \o ss[i]
      BY DEF Joins
    <3>1. CASE i = n + 1
      BY <3>1
    <3>2. CASE i # n + 1
      <4>1. i \in 1..n /\ g[i] = f[i] /\ (i # 1 => g[i - 1] = f[i - 1])
        BY <3>2
      <4> QED
        BY <2>1, <4>1 DEF Joins
    <3> QED
      BY <3>1, <3>2
  <2> QED
    BY <2>3, <2>4
<1>3. T = Nat
  <2>1. 0 \in T /\ \A n \in T : n + 1 \in T
    <3> HIDE DEF P
    <3> QED
      BY <1>1, <1>2
  <2> HIDE DEF P
  <2> QED
    BY <2>1, AllNumbers
<1>4. Len(ss) \in T
  BY <1>0, <1>3
<1> QED
  BY <1>4

\* Two joints of the same sequences are alike.
LEMMA JointsAgree ==
    ASSUME NEW n \in Nat, NEW ss, NEW f, NEW g, Joins(f, ss, n), Joins(g, ss, n)
    PROVE  \A i \in 1..n : f[i] = g[i]
<1> DEFINE P(k) == k \in 1..n => f[k] = g[k]
           T == {k \in Nat : P(k)}
<1>1. P(0)
  OBVIOUS
<1>2. ASSUME NEW k \in Nat, P(k) PROVE P(k + 1)
  <2> SUFFICES ASSUME k + 1 \in 1..n PROVE f[k + 1] = g[k + 1]
    OBVIOUS
  <2>1. CASE k = 0
    BY <2>1 DEF Joins
  <2>2. CASE k # 0
    <3>1. k \in 1..n /\ k + 1 # 1 /\ (k + 1) - 1 = k
      BY <2>2
    <3> QED
      BY <1>2, <3>1 DEF Joins
  <2> QED
    BY <2>1, <2>2
<1>3. T = Nat
  <2> HIDE DEF P
  <2>1. 0 \in T /\ \A k \in T : k + 1 \in T
    BY <1>1, <1>2
  <2> QED
    BY <2>1, AllNumbers
<1> QED
  BY <1>3

\* What FlattenSeq computes, element after element.
LEMMA FlattenSteps ==
    ASSUME NEW S, NEW ss \in Seq(Seq(S)), ss # <<>>
    PROVE  \E f \in [1..Len(ss) -> Seq(S)] :
              Joins(f, ss, Len(ss)) /\ FlattenSeq(ss) = f[Len(ss)]
<1> DEFINE l == Len(ss)
           Defines(f) == f = [i \in 1..l |-> IF i = 1 THEN ss[i] ELSE f[i - 1] \o ss[i]]
           h == CHOOSE f : Defines(f)
<1>0. l \in Nat /\ l # 0
  BY LenProperties, EmptySeq
<1>1. PICK f \in [1..l -> Seq(S)] : Joins(f, ss, l)
  BY JointExists
<1>2. Defines(f)
  <2>1. f = [i \in 1..l |-> f[i]]
    OBVIOUS
  <2> QED
    BY <1>1, <2>1 DEF Joins
<1>3. Defines(h)
  <2> HIDE DEF Defines
  <2> QED
    BY <1>2
<1>4. Joins(h, ss, l)
  <2> HIDE DEF h
  <2> QED
    BY <1>3 DEF Joins
<1>5. \A i \in 1..l : h[i] = f[i]
  <2> HIDE DEF h, l
  <2> QED
    BY <1>0, <1>1, <1>4, JointsAgree
<1>6. FlattenSeq(ss) = h[l]
  BY <1>0 DEF FlattenSeq
<1>7. FlattenSeq(ss) = f[l]
  <2> HIDE DEF h, l
  <2> QED
    BY <1>0, <1>5, <1>6
<1> QED
  BY <1>1, <1>7

LEMMA FlattenType ==
    ASSUME NEW S, NEW ss \in Seq(Seq(S))
    PROVE  FlattenSeq(ss) \in Seq(S) /\ FlattenSeq(<<>>) = <<>>
<1>1. FlattenSeq(<<>>) = <<>>
  BY DEF FlattenSeq
<1>2. CASE ss = <<>>
  BY <1>1, <1>2, EmptySeq
<1>3. CASE ss # <<>>
  <2>1. PICK f \in [1..Len(ss) -> Seq(S)] : FlattenSeq(ss) = f[Len(ss)]
    BY <1>3, FlattenSteps
  <2>2. Len(ss) \in 1..Len(ss)
    BY <1>3, EmptySeq, LenProperties
  <2> QED
    BY <1>1, <2>1, <2>2
<1> QED
  BY <1>2, <1>3

\* A sequence more is joined to what was joined before.
LEMMA FlattenMore ==
    ASSUME NEW S, NEW ss \in Seq(Seq(S)), NEW s \in Seq(S)
    PROVE  FlattenSeq(Append(ss, s)) = FlattenSeq(ss) \o s
<1> DEFINE tt == Append(ss, s)
           n == Len(ss)
<1>0. /\ n \in Nat /\ tt \in Seq(Seq(S)) /\ Len(tt) = n + 1 /\ tt # <<>> /\ tt[n + 1] = s
  BY AppendProperties, LenProperties
<1>a. \A i \in 1..n : ss[i] = tt[i]
  BY AppendProperties, LenProperties
<1> HIDE DEF n, tt
<1>1. PICK g \in [1..(n + 1) -> Seq(S)] : Joins(g, tt, n + 1) /\ FlattenSeq(tt) = g[n + 1]
  BY <1>0, FlattenSteps
<1>2. g[n + 1] = IF n = 0 THEN s ELSE g[n] \o s
  <2>1. n + 1 \in 1..(n + 1) /\ (n + 1) - 1 = n /\ (n + 1 = 1 <=> n = 0)
    BY <1>0
  <2> QED
    BY <1>0, <1>1, <2>1 DEF Joins
<1>3. CASE n = 0
  <2>1. ss = <<>> /\ FlattenSeq(ss) = <<>> /\ <<>> \o s = s
    BY <1>3, EmptySeq, FlattenType, ConcatEmptySeq DEF n
  <2> QED
    BY <1>1, <1>2, <1>3, <2>1 DEF tt
<1>4. CASE n # 0
  <2>0. \A a, b : Joins(a, ss, n) /\ Joins(b, ss, n) => \A i \in 1..n : a[i] = b[i]
    <3>1. n \in Nat
      BY <1>0
    <3> QED
      BY <3>1, JointsAgree
  <2>1. PICK f \in [1..n -> Seq(S)] : Joins(f, ss, n) /\ FlattenSeq(ss) = f[n]
    BY <1>4, EmptySeq, FlattenSteps DEF n
  <2>2. Joins(g, ss, n)
    <3>1. \A i \in 1..n : i \in 1..(n + 1)
      BY <1>0
    <3> QED
      BY <1>1, <1>a, <3>1 DEF Joins
  <2>3. \A i \in 1..n : f[i] = g[i]
    BY <2>0, <2>1, <2>2
  <2>4. f[n] = g[n]
    BY <1>0, <1>4, <2>3
  <2> QED
    BY <1>1, <1>2, <1>4, <2>1, <2>4 DEF tt
<1> QED
  BY <1>3, <1>4

LEMMA JoinMore ==
    ASSUME NEW S, NEW s \in Seq(S), NEW t \in Seq(S), NEW e \in S
    PROVE  s \o Append(t, e) = Append(s \o t, e) /\ s \o t \in Seq(S)
<1>1. s \o t \in Seq(S) /\ <<e>> \in Seq(S)
  OBVIOUS
<1>2. Append(t, e) = t \o <<e>> /\ Append(s \o t, e) = (s \o t) \o <<e>>
  BY <1>1, AppendIsConcat
<1>3. (s \o t) \o <<e>> = s \o (t \o <<e>>)
  BY <1>1, ConcatAssociative
<1> QED
  BY <1>1, <1>2, <1>3

\* The joint of a sequence that goes on.
LEMMA FlattenConcat ==
    ASSUME NEW S, NEW ss \in Seq(Seq(S)), NEW tt \in Seq(Seq(S))
    PROVE  FlattenSeq(ss \o tt) = FlattenSeq(ss) \o FlattenSeq(tt)
<1> DEFINE P(n) == n <= Len(tt) =>
                     FlattenSeq(ss \o SubSeq(tt, 1, n)) = FlattenSeq(ss) \o FlattenSeq(SubSeq(tt, 1, n))
           T == {n \in Nat : P(n)}
<1>0. Len(tt) \in Nat /\ FlattenSeq(ss) \in Seq(S)
  BY LenProperties, FlattenType
<1>1. P(0)
  <2>1. SubSeq(tt, 1, 0) = <<>>
    BY SubSeqEmpty
  <2> QED
    BY <1>0, <2>1, FlattenType, ConcatEmptySeq
<1>2. ASSUME NEW n \in Nat, P(n) PROVE P(n + 1)
  <2> SUFFICES ASSUME n + 1 <= Len(tt) PROVE P(n + 1)
    OBVIOUS
  <2> DEFINE part == SubSeq(tt, 1, n)
             one == tt[n + 1]
  <2>1. part \in Seq(Seq(S)) /\ one \in Seq(S)
    BY <1>0, SubSeqProperties, ElementOfSeq
  <2>2. SubSeq(tt, 1, n + 1) = Append(part, one)
    BY <1>0, SubSeqRecursiveSecond
  <2>3. FlattenSeq(ss \o part) = FlattenSeq(ss) \o FlattenSeq(part)
    BY <1>0, <1>2
  <2>4. FlattenSeq(SubSeq(tt, 1, n + 1)) = FlattenSeq(part) \o one
    <3> HIDE DEF part, one
    <3> QED
      BY <2>1, <2>2, FlattenMore
  <2> HIDE DEF part, one
  <2>5. ss \o Append(part, one) = Append(ss \o part, one) /\ ss \o part \in Seq(Seq(S))
    BY <2>1, JoinMore
  <2>6. FlattenSeq(ss \o Append(part, one)) = (FlattenSeq(ss) \o FlattenSeq(part)) \o one
    BY <2>1, <2>3, <2>5, FlattenMore
  <2>7. (FlattenSeq(ss) \o FlattenSeq(part)) \o one = FlattenSeq(ss) \o (FlattenSeq(part) \o one)
    <3>1. FlattenSeq(part) \in Seq(S)
      BY <2>1, FlattenType
    <3> DEFINE x == FlattenSeq(ss)
               y == FlattenSeq(part)
    <3>2. x \in Seq(S) /\ y \in Seq(S) /\ one \in Seq(S)
      BY <1>0, <2>1, <3>1
    <3> HIDE DEF x, y
    <3>3. (x \o y) \o one = x \o (y \o one)
      BY <3>2
    <3> QED
      BY <3>3 DEF x, y
  <2> QED
    BY <2>2, <2>4, <2>6, <2>7
<1>3. T = Nat
  <2> HIDE DEF P
  <2>1. 0 \in T /\ \A n \in T : n + 1 \in T
    BY <1>1, <1>2
  <2> QED
    BY <2>1, AllNumbers
<1>4. P(Len(tt))
  <2>1. Len(tt) \in T
    BY <1>0, <1>3
  <2> QED
    BY <2>1
<1>5. SubSeq(tt, 1, Len(tt)) = tt
  BY SubSeqFull
<1> QED
  <2>1. FlattenSeq(ss \o SubSeq(tt, 1, Len(tt))) = FlattenSeq(ss) \o FlattenSeq(SubSeq(tt, 1, Len(tt)))
    BY <1>0, <1>4
  <2> QED
    BY <1>5, <2>1

\* Those numbers of an ascending series that belong to I.
Selected(g, n, I) == FlattenSeq([k \in 1..n |-> IF g[k] \in I THEN <<g[k]>> ELSE <<>>])

Ascends(s) == \A i, j \in DOMAIN s : i < j => s[i] < s[j]

\* s is the members of I among g[1], ..., g[n], in their order.
Selects(s, g, n, I) ==
    /\ s \in Seq(Int) /\ Ascends(s)
    /\ \A x : (\E i \in DOMAIN s : s[i] = x) <=> (x \in I /\ \E k \in 1..n : g[k] = x)

LEMMA Selection ==
    ASSUME NEW n \in Nat, NEW g \in [1..n -> Int], Ascends(g), NEW I
    PROVE  Selects(Selected(g, n, I), g, n, I)
<1> DEFINE H(m) == [k \in 1..m |-> IF g[k] \in I THEN <<g[k]>> ELSE <<>>]
           Good(m, s) == /\ s \in Seq(Int) /\ Ascends(s)
                         /\ \A x : (\E i \in DOMAIN s : s[i] = x) <=> (x \in I /\ \E k \in 1..m : g[k] = x)
           P(m) == m <= n => H(m) \in Seq(Seq(Int)) /\ Good(m, FlattenSeq(H(m)))
           T == {m \in Nat : P(m)}
<1>1. P(0)
  <2>1. H(0) = <<>> /\ <<>> \in Seq(Seq(Int)) /\ <<>> \in Seq(Int) /\ DOMAIN <<>> = {}
    OBVIOUS
  <2>2. Good(0, <<>>)
    BY <2>1 DEF Ascends
  <2>3. FlattenSeq(<<>>) = <<>>
    BY <2>1, FlattenType
  <2> HIDE DEF H, Good
  <2> QED
    BY <2>1, <2>2, <2>3
<1>2. ASSUME NEW m \in Nat, P(m) PROVE P(m + 1)
  <2> SUFFICES ASSUME m + 1 <= n PROVE P(m + 1)
    OBVIOUS
  <2> DEFINE x == IF g[m + 1] \in I THEN <<g[m + 1]>> ELSE <<>>
             s == FlattenSeq(H(m))
  <2>0. H(m) \in Seq(Seq(Int)) /\ Good(m, s)
    <3> HIDE DEF H, Good
    <3> QED
      BY <1>2
  <2>1. x \in Seq(Int) /\ g[m + 1] \in Int
    OBVIOUS
  <2>2. H(m + 1) = Append(H(m), x)
    <3>1. Len(H(m)) = m /\ \A k \in 1..m : H(m)[k] = H(m + 1)[k]
      OBVIOUS
    <3>2. H(m + 1)[m + 1] = x /\ H(m + 1) \in Seq(Seq(Int)) /\ Len(H(m + 1)) = m + 1
      <4>1. \A k \in 1..(m + 1) : H(m + 1)[k] \in Seq(Int)
        OBVIOUS
      <4> QED
        BY <4>1, IsASeq
    <3> HIDE DEF H, x
    <3>3. /\ Append(H(m), x) \in Seq(Seq(Int)) /\ Len(Append(H(m), x)) = m + 1
          /\ \A k \in 1..m : Append(H(m), x)[k] = H(m)[k]
          /\ Append(H(m), x)[m + 1] = x
      BY <2>0, <2>1, <3>1, AppendProperties, SMTT(30)
    <3>4. \A k \in 1..(m + 1) : H(m + 1)[k] = Append(H(m), x)[k]
      BY <3>1, <3>2, <3>3
    <3> QED
      BY <3>2, <3>3, <3>4, SeqEqual
  <2>3. H(m + 1) \in Seq(Seq(Int)) /\ FlattenSeq(H(m + 1)) = s \o x
    <3> HIDE DEF H, x
    <3>0. H(m) \in Seq(Seq(Int))
      BY <2>0
    <3>1. H(m + 1) \in Seq(Seq(Int))
      <4>1. \A h \in Seq(Seq(Int)) : Append(h, x) \in Seq(Seq(Int))
        BY <2>1, AppendProperties
      <4> QED
        BY <2>2, <3>0, <4>1
    <3>2. FlattenSeq(Append(H(m), x)) = FlattenSeq(H(m)) \o x
      BY <2>0, <2>1, FlattenMore
    <3> QED
      BY <2>2, <3>1, <3>2
  <2>4. Good(m + 1, s \o x)
    <3> HIDE DEF s
    <3>1. CASE g[m + 1] \notin I
      <4>1. s \o x = s
        BY <2>0, <3>1
      <4>2. Good(m + 1, s)
        <5>1. \A y : (y \in I /\ \E k \in 1..m : g[k] = y) <=> (y \in I /\ \E k \in 1..(m + 1) : g[k] = y)
          BY <3>1
        <5> QED
          BY <2>0, <5>1
      <4> QED
        BY <4>1, <4>2
    <3>2. CASE g[m + 1] \in I
      <4> DEFINE t == Append(s, g[m + 1])
                 l == Len(s)
      <4>1. s \o x = t /\ l \in Nat /\ DOMAIN s = 1..l
        BY <2>0, <2>1, <3>2
      <4>2. /\ t \in Seq(Int) /\ DOMAIN t = 1..(l + 1) /\ t[l + 1] = g[m + 1]
            /\ \A i \in 1..l : t[i] = s[i]
        BY <2>0, <2>1, <4>1
      <4> HIDE DEF t, l, x
      <4>3. \A i \in 1..l : s[i] \in Int /\ s[i] < g[m + 1]
        <5> TAKE i \in 1..l
        <5>1. PICK k \in 1..m : g[k] = s[i]
          BY <2>0, <4>1
        <5>2. k \in 1..n /\ m + 1 \in 1..n /\ k < m + 1 /\ DOMAIN g = 1..n
          OBVIOUS
        <5> QED
          BY <5>1, <5>2 DEF Ascends
      <4>4. Ascends(t)
        <5> SUFFICES ASSUME NEW i \in 1..(l + 1), NEW j \in 1..(l + 1), i < j PROVE t[i] < t[j]
          BY <4>2 DEF Ascends
        <5>1. i \in 1..l
          BY <4>1
        <5>2. CASE j = l + 1
          BY <4>2, <4>3, <5>1, <5>2
        <5>3. CASE j # l + 1
          <6>1. j \in 1..l
            BY <4>1, <5>3
          <6> QED
            BY <2>0, <4>1, <4>2, <5>1, <6>1 DEF Ascends
        <5> QED
          BY <5>2, <5>3
      <4>5. ASSUME NEW y
            PROVE  (\E i \in DOMAIN t : t[i] = y) <=> (y \in I /\ \E k \in 1..(m + 1) : g[k] = y)
        <5>1. (\E i \in DOMAIN t : t[i] = y) <=> (\E i \in DOMAIN s : s[i] = y) \/ y = g[m + 1]
          <6>1. ASSUME NEW i \in 1..(l + 1), t[i] = y, y # g[m + 1]
                PROVE  i \in 1..l /\ s[i] = y
            BY <4>1, <4>2, <6>1
          <6>2. \A i \in 1..l : i \in 1..(l + 1) /\ t[i] = s[i]
            BY <4>1, <4>2
          <6>3. l + 1 \in 1..(l + 1)
            BY <4>1
          <6> QED
            BY <4>1, <4>2, <6>1, <6>2, <6>3
        <5>2. (y \in I /\ \E k \in 1..(m + 1) : g[k] = y)
              <=> (y \in I /\ \E k \in 1..m : g[k] = y) \/ y = g[m + 1]
          BY <3>2
        <5> QED
          BY <2>0, <5>1, <5>2
      <4> QED
        BY <4>1, <4>2, <4>4, <4>5
    <3> QED
      BY <3>1, <3>2
  <2> HIDE DEF H, Good, x, s
  <2> QED
    BY <2>3, <2>4
<1>3. T = Nat
  <2> HIDE DEF P
  <2>1. 0 \in T /\ \A m \in T : m + 1 \in T
    BY <1>1, <1>2
  <2> QED
    BY <2>1, AllNumbers
<1>4. P(n)
  <2> HIDE DEF P
  <2> QED
    BY <1>3
<1>5. H(n) = [k \in 1..n |-> IF g[k] \in I THEN <<g[k]>> ELSE <<>>]
  OBVIOUS
<1>6. Good(n, Selected(g, n, I))
  <2> HIDE DEF Good
  <2> QED
    BY <1>4 DEF Selected
<1> QED
  BY <1>6 DEF Selects

\* Every element of s is replaced by the sequence h has for it.
Each(h, s) == FlattenSeq([k \in DOMAIN s |-> h[s[k]]])

LEMMA EachType ==
    ASSUME NEW S, NEW R, NEW h \in [S -> Seq(R)], NEW s \in Seq(S)
    PROVE  Each(h, s) \in Seq(R) /\ [k \in DOMAIN s |-> h[s[k]]] \in Seq(Seq(R))
<1>1. DOMAIN s = 1..Len(s) /\ Len(s) \in Nat /\ \A k \in DOMAIN s : h[s[k]] \in Seq(R)
  BY LenProperties, ElementOfSeq
<1>2. [k \in DOMAIN s |-> h[s[k]]] \in Seq(Seq(R))
  BY <1>1, IsASeq
<1> QED
  BY <1>2, FlattenType DEF Each

LEMMA EachNone ==
    ASSUME NEW h
    PROVE  Each(h, <<>>) = <<>>
<1>1. [k \in DOMAIN <<>> |-> h[<<>>[k]]] = <<>>
  OBVIOUS
<1>2. FlattenSeq(<<>>) = <<>>
  BY EmptySeq, FlattenType
<1> QED
  BY <1>1, <1>2 DEF Each

\* st is s with t behind it.
Joined(st, s, t) == st = s \o t

LEMMA EachConcat ==
    ASSUME NEW S, NEW R, NEW h \in [S -> Seq(R)], NEW s \in Seq(S), NEW t \in Seq(S),
           NEW st, Joined(st, s, t)
    PROVE  Joined(Each(h, st), Each(h, s), Each(h, t))
<1> DEFINE hs == [k \in DOMAIN s |-> h[s[k]]]
           ht == [k \in DOMAIN t |-> h[t[k]]]
           hst == [k \in DOMAIN (s \o t) |-> h[(s \o t)[k]]]
<1>1. hs \in Seq(Seq(R)) /\ ht \in Seq(Seq(R)) /\ hst \in Seq(Seq(R)) /\ s \o t \in Seq(S)
  <2>1. s \o t \in Seq(S)
    BY ConcatProperties
  <2>2. \A r \in Seq(S) : [k \in DOMAIN r |-> h[r[k]]] \in Seq(Seq(R))
    BY EachType, ZenonT(30)
  <2> QED
    BY <2>1, <2>2
<1>2. hst = hs \o ht
  <2>1. /\ Len(s) \in Nat /\ Len(t) \in Nat /\ DOMAIN s = 1..Len(s) /\ DOMAIN t = 1..Len(t)
        /\ DOMAIN (s \o t) = 1..(Len(s) + Len(t))
        /\ Len(hs) = Len(s) /\ Len(ht) = Len(t) /\ Len(hst) = Len(s) + Len(t)
    BY <1>1, LenProperties, ConcatProperties
  <2>2. hs \o ht \in Seq(Seq(R)) /\ Len(hs \o ht) = Len(s) + Len(t)
    BY <1>1, <2>1, ConcatProperties
  <2>3. \A k \in 1..Len(s) : hst[k] = (hs \o ht)[k]
    <3> TAKE k \in 1..Len(s)
    <3>1. (s \o t)[k] = s[k]
      BY <2>1, ConcatProperties
    <3>2. hst[k] = h[s[k]] /\ hs[k] = h[s[k]]
      BY <2>1, <3>1
    <3>3. (hs \o ht)[k] = hs[k]
      <4> HIDE DEF hs, ht
      <4> QED
        BY <1>1, <2>1, ConcatProperties
    <3> QED
      BY <3>2, <3>3
  <2>4. \A k \in (Len(s) + 1)..(Len(s) + Len(t)) : hst[k] = (hs \o ht)[k]
    <3> TAKE k \in (Len(s) + 1)..(Len(s) + Len(t))
    <3> DEFINE j == k - Len(s)
    <3>0. j \in 1..Len(t) /\ k \in 1..(Len(s) + Len(t)) /\ k > Len(s)
      BY <2>1
    <3>1. (s \o t)[k] = t[j]
      BY <2>1, <3>0, ConcatProperties
    <3>2. hst[k] = h[t[j]] /\ ht[j] = h[t[j]]
      BY <2>1, <3>0, <3>1
    <3>3. (hs \o ht)[k] = ht[j]
      <4> HIDE DEF hs, ht
      <4> QED
        BY <1>1, <2>1, <3>0, ConcatProperties, SMTT(30)
    <3> QED
      BY <3>2, <3>3
  <2>5. \A k \in 1..(Len(s) + Len(t)) : hst[k] = (hs \o ht)[k]
    BY <2>1, <2>3, <2>4
  <2> HIDE DEF hs, ht, hst
  <2> QED
    BY <1>1, <2>1, <2>2, <2>5, SeqEqual
<1>3. FlattenSeq(hs \o ht) = FlattenSeq(hs) \o FlattenSeq(ht)
  <2> HIDE DEF hs, ht
  <2> QED
    BY <1>1, FlattenConcat
<1>4. st = s \o t
  BY DEF Joined
<1> QED
  BY <1>2, <1>3, <1>4 DEF Each, Joined

LEMMA EachOne ==
    ASSUME NEW S, NEW R, NEW h \in [S -> Seq(R)], NEW x \in S
    PROVE  <<x>> \in Seq(S) /\ Each(h, <<x>>) = h[x]
<1> DEFINE m == [k \in DOMAIN <<x>> |-> h[<<x>>[k]]]
<1>1. m = <<h[x]>>
  OBVIOUS
<1>2. <<h[x]>> = Append(<<>>, h[x]) /\ <<>> \in Seq(Seq(R)) /\ h[x] \in Seq(R)
  OBVIOUS
<1>3. FlattenSeq(<<h[x]>>) = FlattenSeq(<<>>) \o h[x]
  BY <1>2, FlattenMore
<1>4. FlattenSeq(<<>>) \o h[x] = h[x]
  BY <1>2, FlattenType, ConcatEmptySeq
<1>5. Each(h, <<x>>) = FlattenSeq(m)
  BY DEF Each
<1> HIDE DEF m
<1> QED
  BY <1>1, <1>3, <1>4, <1>5

LEMMA EachMore ==
    ASSUME NEW S, NEW R, NEW h \in [S -> Seq(R)], NEW s \in Seq(S), NEW x \in S
    PROVE  Each(h, Append(s, x)) = Each(h, s) \o h[x]
<1>1. Append(s, x) = s \o <<x>> /\ <<x>> \in Seq(S)
  BY AppendIsConcat
<1>2. Each(h, Append(s, x)) = Each(h, s) \o Each(h, <<x>>)
  <2>1. Joined(Append(s, x), s, <<x>>)
    BY <1>1 DEF Joined
  <2>2. Joined(Each(h, Append(s, x)), Each(h, s), Each(h, <<x>>))
    BY <1>1, <2>1, EachConcat
  <2> QED
    BY <2>2 DEF Joined
<1>3. Each(h, <<x>>) = h[x]
  BY EachOne
<1> QED
  BY <1>1, <1>2, <1>3

\* What is replaced by itself stays.
LEMMA EachSame ==
    ASSUME NEW S, NEW R, NEW h \in [S -> Seq(R)], NEW s \in Seq(S), S \subseteq R,
           \A x \in S : h[x] = <<x>>
    PROVE  Each(h, s) = s
<1> DEFINE P(n) == n <= Len(s) => Each(h, SubSeq(s, 1, n)) = SubSeq(s, 1, n)
           T == {n \in Nat : P(n)}
<1>0. Len(s) \in Nat
  BY LenProperties
<1>1. P(0)
  <2>1. SubSeq(s, 1, 0) = <<>>
    BY SubSeqEmpty
  <2>2. Each(h, <<>>) = <<>>
    BY EachNone
  <2> QED
    BY <2>1, <2>2
<1>2. ASSUME NEW n \in Nat, P(n) PROVE P(n + 1)
  <2> SUFFICES ASSUME n + 1 <= Len(s) PROVE P(n + 1)
    OBVIOUS
  <2> DEFINE part == SubSeq(s, 1, n)
             one == s[n + 1]
  <2>1. part \in Seq(S) /\ one \in S
    BY <1>0, SubSeqProperties, ElementOfSeq
  <2>2. SubSeq(s, 1, n + 1) = Append(part, one)
    BY <1>0, SubSeqRecursiveSecond
  <2>3. Each(h, part) = part
    BY <1>0, <1>2
  <2> HIDE DEF part, one
  <2>4. Each(h, Append(part, one)) = Each(h, part) \o h[one]
    BY <2>1, EachMore
  <2>5. part \o <<one>> = Append(part, one)
    BY <2>1, AppendIsConcat
  <2> QED
    BY <2>1, <2>2, <2>3, <2>4, <2>5
<1>3. T = Nat
  <2> HIDE DEF P
  <2>1. 0 \in T /\ \A n \in T : n + 1 \in T
    BY <1>1, <1>2
  <2> QED
    BY <2>1, AllNumbers
<1>4. P(Len(s))
  <2> HIDE DEF P
  <2> QED
    BY <1>0, <1>3
<1> QED
  <2>1. Each(h, SubSeq(s, 1, Len(s))) = SubSeq(s, 1, Len(s))
    BY <1>0, <1>4
  <2> QED
    BY <2>1, SubSeqFull

=============================================================================
