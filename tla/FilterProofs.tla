---------------------------- MODULE FilterProofs -----------------------------
(* Lemmas about Filter, for all sequences. *)
EXTENDS Filters, WellFoundedInduction, SequenceTheorems, TLAPS

\* Each set of numbers has a least one.
LEMMA Least ==
    ASSUME NEW N \in SUBSET Nat, N # {}
    PROVE  \E i \in N : \A j \in N : i <= j
  <1>1. \E i \in N : \A j \in N : ~(<<j, i>> \in OpToRel(<, Nat))
    BY NatLessThanWellFounded, WFMin, Zenon
  <1>2. PICK i \in N : \A j \in N : ~(<<j, i>> \in OpToRel(<, Nat))
    BY <1>1, Zenon
  <1>3. \A j \in N : ~(j < i)
    BY <1>2, Zenon DEF OpToRel
  <1> QED
    BY <1>3

LEMMA Induction ==
    ASSUME NEW N \in SUBSET Nat, 0 \in N, \A n \in N : n + 1 \in N
    PROVE  N = Nat
  <1> SUFFICES ASSUME Nat \ N # {}
               PROVE  FALSE
    OBVIOUS
  <1>1. PICK i \in Nat \ N : \A j \in Nat \ N : i <= j
    BY Least
  <1>2. i - 1 \in N
    BY <1>1
  <1> QED
    BY <1>2

-----------------------------------------------------------------------------
(* The recursive function exists *)

StepOf(f, q, S, n) ==
    IF n = 0 THEN << >>
    ELSE IF q[n] \in S THEN Append(f[n - 1], q[n])
    ELSE f[n - 1]

\* f says what the first n elements of q leave, up to n = m.
Keeps(f, q, S, m) == f = [n \in 0 .. m |-> StepOf(f, q, S, n)]

LEMMA KeepsAt ==
    ASSUME NEW f, NEW q, NEW S, NEW m, Keeps(f, q, S, m), NEW n \in 0 .. m
    PROVE  f[n] = StepOf(f, q, S, n)
  BY DEF Keeps

LEMMA KeepsExists ==
    ASSUME NEW q, NEW S
    PROVE  \A m \in Nat : \E f : Keeps(f, q, S, m)
  <1> DEFINE N == {m \in Nat : \E f : Keeps(f, q, S, m)}
  <1>1. 0 \in N
    <2> DEFINE f == [n \in 0 .. 0 |-> << >>]
    <2>1. Keeps(f, q, S, 0)
      BY DEF Keeps, StepOf
    <2> QED
      BY <2>1
  <1>2. ASSUME NEW m \in N
        PROVE  m + 1 \in N
    <2>1. PICK f : Keeps(f, q, S, m)
      OBVIOUS
    <2> DEFINE g == [n \in 0 .. m + 1 |-> IF n <= m THEN f[n]
                                          ELSE StepOf(f, q, S, n)]
    <2>2. \A n \in 0 .. m + 1 : g[n] = StepOf(g, q, S, n)
      <3> SUFFICES ASSUME NEW n \in 0 .. m + 1
                   PROVE  g[n] = StepOf(g, q, S, n)
        OBVIOUS
      <3>1. n # 0 => n - 1 \in 0 .. m /\ g[n - 1] = f[n - 1]
        OBVIOUS
      <3>2. StepOf(g, q, S, n) = StepOf(f, q, S, n)
        BY <3>1 DEF StepOf
      <3>3. n <= m => f[n] = StepOf(f, q, S, n)
        BY <2>1 DEF Keeps
      <3> QED
        BY <3>2, <3>3
    <2>3. Keeps(g, q, S, m + 1)
      <3> HIDE DEF g
      <3>1. g = [n \in 0 .. m + 1 |-> g[n]]
        BY DEF g
      <3> QED
        BY <2>2, <3>1 DEF Keeps
    <2> QED
      BY <2>3
  <1>3. N = Nat
    <2> HIDE DEF N
    <2>1. N \in SUBSET Nat
      BY DEF N
    <2> QED
      BY <1>1, <1>2, <2>1, Induction
  <1> QED
    BY <1>3

LEMMA FilterIs ==
    ASSUME NEW E, NEW q \in Seq(E), NEW S
    PROVE  \E f : Keeps(f, q, S, Len(q)) /\ Filter(q, S) = f[Len(q)]
  <1> DEFINE f == CHOOSE f : Keeps(f, q, S, Len(q))
  <1>1. Keeps(f, q, S, Len(q))
    BY KeepsExists
  <1>2. Filter(q, S) = f[Len(q)]
    BY DEF Filter, Keeps, StepOf
  <1> QED
    BY <1>1, <1>2

\* A prefix of q leaves the same, whatever follows it.
LEMMA KeepsPrefix ==
    ASSUME NEW E, NEW q \in Seq(E), NEW r \in Seq(E), NEW S,
           NEW m \in Nat, NEW k \in Nat, m <= k,
           NEW f, Keeps(f, q, S, m), NEW g, Keeps(g, r, S, k),
           \A n \in 1 .. m : q[n] = r[n]
    PROVE  f[m] = g[m]
  <1> DEFINE N == {n \in Nat : n <= m => f[n] = g[n]}
  <1>1. 0 \in N
    BY DEF Keeps, StepOf
  <1>2. ASSUME NEW n \in N
        PROVE  n + 1 \in N
    <2> SUFFICES ASSUME n + 1 <= m
                 PROVE  f[n + 1] = g[n + 1]
      OBVIOUS
    <2>1. f[n] = g[n] /\ n \in Nat /\ (n + 1) - 1 = n
      OBVIOUS
    <2>2. StepOf(f, q, S, n + 1) = StepOf(g, r, S, n + 1)
      BY <2>1 DEF StepOf
    <2>3. f[n + 1] = StepOf(f, q, S, n + 1)
      <3>1. n + 1 \in 0 .. m
        OBVIOUS
      <3> QED
        BY <3>1, KeepsAt
    <2>4. g[n + 1] = StepOf(g, r, S, n + 1)
      <3>1. n + 1 \in 0 .. k
        OBVIOUS
      <3> QED
        BY <3>1, KeepsAt
    <2> QED
      BY <2>2, <2>3, <2>4
  <1>3. N = Nat
    <2> HIDE DEF N
    <2>1. N \in SUBSET Nat
      BY DEF N
    <2> QED
      BY <1>1, <1>2, <2>1, Induction
  <1> QED
    BY <1>3

LEMMA FilterEmpty ==
    ASSUME NEW S
    PROVE  Filter(<< >>, S) = << >>
  <1>1. << >> \in Seq(S) /\ Len(<< >>) = 0
    OBVIOUS
  <1>2. PICK f : Keeps(f, << >>, S, 0) /\ Filter(<< >>, S) = f[0]
    BY <1>1, FilterIs
  <1> QED
    BY <1>2 DEF Keeps, StepOf

LEMMA FilterAppend ==
    ASSUME NEW E, NEW q \in Seq(E), NEW x \in E, NEW S
    PROVE  Filter(Append(q, x), S) =
              IF x \in S THEN Append(Filter(q, S), x) ELSE Filter(q, S)
  <1> DEFINE r == Append(q, x)
             m == Len(q)
  <1>1. /\ r \in Seq(E) /\ Len(r) = m + 1 /\ m \in Nat
        /\ r[m + 1] = x /\ \A n \in 1 .. m : q[n] = r[n]
    BY AppendProperties, LenProperties
  <1> HIDE DEF r, m
  <1>2. PICK f : Keeps(f, q, S, m) /\ Filter(q, S) = f[m]
    BY FilterIs DEF m
  <1>3. PICK g : Keeps(g, r, S, m + 1) /\ Filter(r, S) = g[m + 1]
    BY FilterIs, <1>1
  <1>4. f[m] = g[m]
    BY <1>1, <1>2, <1>3, KeepsPrefix, m <= m + 1
  <1>5. g[m + 1] = StepOf(g, r, S, m + 1)
    BY <1>1, <1>3, KeepsAt, m + 1 \in 0 .. m + 1
  <1> QED
    BY <1>1, <1>2, <1>3, <1>4, <1>5 DEF StepOf, r

\* What is left lies in S, and in what q is made of.
LEMMA FilterType ==
    ASSUME NEW E, NEW q \in Seq(E), NEW S
    PROVE  /\ Filter(q, S) \in Seq(E)
           /\ Filter(q, S) \in Seq(S)
  <1> DEFINE N == {n \in Nat : \A r \in Seq(E) :
                        Len(r) = n => Filter(r, S) \in Seq(E) \intersect Seq(S)}
  <1>1. 0 \in N
    <2>1. \A r \in Seq(E) : Len(r) = 0 => r = << >>
      BY EmptySeq
    <2> QED
      BY <2>1, FilterEmpty, EmptySeq
  <1>2. ASSUME NEW n \in N
        PROVE  n + 1 \in N
    <2> SUFFICES ASSUME NEW r \in Seq(E), Len(r) = n + 1
                 PROVE  Filter(r, S) \in Seq(E) \intersect Seq(S)
      OBVIOUS
    <2>1. r # << >>
      BY EmptySeq
    <2>2. PICK s \in Seq(E), x \in E : r = Append(s, x)
      BY <2>1, SequenceEmptyOrAppend
    <2>3. Len(s) = n
      BY <2>2, AppendProperties, LenProperties
    <2>4. Filter(s, S) \in Seq(E) \intersect Seq(S)
      BY <2>3
    <2>5. x \in S => Append(Filter(s, S), x) \in Seq(E) \intersect Seq(S)
      BY <2>4
    <2> QED
      BY <2>2, <2>4, <2>5, FilterAppend
  <1>3. N = Nat
    <2> HIDE DEF N
    <2>1. N \in SUBSET Nat
      BY DEF N
    <2> QED
      BY <1>1, <1>2, <2>1, Induction
  <1> QED
    BY <1>3, LenProperties

-----------------------------------------------------------------------------
(* Concatenation, as an operator the provers take as it is *)

One(x) == <<x>>
Cat(s, t) == s \o t

LEMMA CatType ==
    ASSUME NEW E, NEW s \in Seq(E), NEW t \in Seq(E)
    PROVE  Cat(s, t) \in Seq(E)
  BY DEF Cat

LEMMA CatEmpty ==
    ASSUME NEW E, NEW s \in Seq(E)
    PROVE  Cat(s, << >>) = s /\ Cat(<< >>, s) = s
  BY ConcatEmptySeq DEF Cat

LEMMA CatEmpties ==
    Cat(<< >>, << >>) = << >>
  <1>1. << >> \in Seq({})
    OBVIOUS
  <1> QED
    BY <1>1, CatEmpty

LEMMA CatAssociates ==
    ASSUME NEW E, NEW s \in Seq(E), NEW t \in Seq(E), NEW u \in Seq(E)
    PROVE  Cat(Cat(s, t), u) = Cat(s, Cat(t, u))
  BY ConcatAssociative DEF Cat

LEMMA AppendIsCat ==
    ASSUME NEW E, NEW s \in Seq(E), NEW x \in E, NEW t, t = Append(s, x)
    PROVE  One(x) \in Seq(E) /\ t \in Seq(E) /\ t = Cat(s, One(x))
  <1>1. t = s \o <<x>> /\ <<x>> \in Seq(E)
    BY AppendIsConcat
  <1> QED
    BY <1>1 DEF Cat, One

LEMMA HeadCatTail ==
    ASSUME NEW E, NEW s \in Seq(E), s # << >>
    PROVE  /\ Head(s) \in E /\ Tail(s) \in Seq(E)
           /\ One(Head(s)) \in Seq(E)
           /\ s = Cat(One(Head(s)), Tail(s))
  <1>1. Head(s) \in E /\ Tail(s) \in Seq(E)
    BY HeadTailProperties
  <1>2. s = <<Head(s)>> \o Tail(s)
    OBVIOUS
  <1> QED
    BY <1>1, <1>2 DEF Cat, One

LEMMA FilterSingle ==
    ASSUME NEW x, NEW S
    PROVE  Filter(One(x), S) = IF x \in S THEN One(x) ELSE << >>
  <1>1. << >> \in Seq({x}) /\ One(x) = Append(<< >>, x)
    BY DEF One
  <1>2. Filter(Append(<< >>, x), S) =
           IF x \in S THEN Append(Filter(<< >>, S), x) ELSE Filter(<< >>, S)
    <2>1. x \in {x}
      OBVIOUS
    <2> QED
      BY <2>1, <1>1, FilterAppend
  <1> QED
    BY <1>1, <1>2, FilterEmpty

LEMMA FilterAdd ==
    ASSUME NEW E, NEW q \in Seq(E), NEW x \in E, NEW S
    PROVE  Filter(Cat(q, One(x)), S) = Cat(Filter(q, S), Filter(One(x), S))
  <1>1. Append(q, x) = Cat(q, One(x))
    BY AppendIsCat
  <1> DEFINE f == Filter(q, S)
  <1>2. f \in Seq(E)
    BY FilterType
  <1>3. Filter(Append(q, x), S) = IF x \in S THEN Append(f, x) ELSE f
    BY FilterAppend
  <1> HIDE DEF f
  <1>4. Append(f, x) = Cat(f, One(x)) /\ Cat(f, << >>) = f
    BY <1>2, AppendIsCat, CatEmpty
  <1> QED
    BY <1>1, <1>3, <1>4, FilterSingle DEF f

LEMMA FilterConcat ==
    ASSUME NEW E, NEW q \in Seq(E), NEW r \in Seq(E), NEW S
    PROVE  Filter(Cat(q, r), S) = Cat(Filter(q, S), Filter(r, S))
  <1> DEFINE N == {n \in Nat : \A t \in Seq(E) : Len(t) = n =>
                      Filter(Cat(q, t), S) = Cat(Filter(q, S), Filter(t, S))}
  <1>1. 0 \in N
    <2>1. \A t \in Seq(E) : Len(t) = 0 => t = << >>
      BY EmptySeq
    <2>2. Filter(q, S) \in Seq(E)
      BY FilterType
    <2> QED
      BY <2>1, <2>2, FilterEmpty, CatEmpty
  <1>2. ASSUME NEW n \in N
        PROVE  n + 1 \in N
    <2> SUFFICES ASSUME NEW t \in Seq(E), Len(t) = n + 1
                 PROVE  Filter(Cat(q, t), S) = Cat(Filter(q, S), Filter(t, S))
      OBVIOUS
    <2>1. t # << >>
      BY EmptySeq
    <2>2. PICK s \in Seq(E), x \in E : t = Append(s, x)
      BY <2>1, SequenceEmptyOrAppend
    <2>3. Len(s) = n
      BY <2>2, AppendProperties, LenProperties
    <2>4. Filter(Cat(q, s), S) = Cat(Filter(q, S), Filter(s, S))
      BY <2>3
    <2>5. One(x) \in Seq(E) /\ t = Cat(s, One(x))
      BY <2>2, AppendIsCat
    <2>6. Cat(q, t) = Cat(Cat(q, s), One(x))
      BY <2>5, CatAssociates
    <2>7. /\ Filter(Cat(Cat(q, s), One(x)), S) =
                Cat(Filter(Cat(q, s), S), Filter(One(x), S))
          /\ Filter(Cat(s, One(x)), S) = Cat(Filter(s, S), Filter(One(x), S))
      BY CatType, FilterAdd
    <2>8. /\ Filter(q, S) \in Seq(E) /\ Filter(s, S) \in Seq(E)
          /\ Filter(One(x), S) \in Seq(E)
      BY <2>5, FilterType
    <2> QED
      BY <2>4, <2>5, <2>6, <2>7, <2>8, CatAssociates
  <1>3. N = Nat
    <2> HIDE DEF N
    <2>1. N \in SUBSET Nat
      BY DEF N
    <2> QED
      BY <1>1, <1>2, <2>1, Induction
  <1> QED
    BY <1>3, LenProperties

-----------------------------------------------------------------------------
(* The elements of a sequence *)

LEMMA RangeAppended ==
    ASSUME NEW S, NEW q \in Seq(S), NEW x \in S
    PROVE  Range(Append(q, x)) = Range(q) \union {x}
  <1>1. /\ DOMAIN Append(q, x) = 1 .. Len(q) + 1
        /\ DOMAIN q = 1 .. Len(q) /\ Len(q) \in Nat
        /\ \A i \in 1 .. Len(q) : Append(q, x)[i] = q[i]
        /\ Append(q, x)[Len(q) + 1] = x
    OBVIOUS
  <1>2. \A i \in 1 .. Len(q) + 1 : i \in 1 .. Len(q) \/ i = Len(q) + 1
    BY <1>1
  <1> QED
    BY <1>1, <1>2 DEF Range

LEMMA AppendDistinct ==
    ASSUME NEW S, NEW q \in Seq(S), NEW x \in S, IsInjective(q),
           x \notin Range(q)
    PROVE  /\ IsInjective(Append(q, x))
           /\ Range(Append(q, x)) = Range(q) \union {x}
  <1>1. /\ DOMAIN Append(q, x) = 1 .. Len(q) + 1
        /\ DOMAIN q = 1 .. Len(q) /\ Len(q) \in Nat
        /\ \A i \in 1 .. Len(q) : Append(q, x)[i] = q[i]
        /\ Append(q, x)[Len(q) + 1] = x
    OBVIOUS
  <1>2. \A i \in 1 .. Len(q) + 1 : i \in 1 .. Len(q) \/ i = Len(q) + 1
    BY <1>1
  <1> QED
    BY <1>1, <1>2 DEF IsInjective, Range

\* What is left is what lies in S, each as often as before if that is once.
LEMMA FilterRange ==
    ASSUME NEW E, NEW q \in Seq(E), NEW S
    PROVE  /\ Range(Filter(q, S)) = Range(q) \intersect S
           /\ IsInjective(q) => IsInjective(Filter(q, S))
  <1> DEFINE Kept(r) == /\ Range(Filter(r, S)) = Range(r) \intersect S
                        /\ IsInjective(r) => IsInjective(Filter(r, S))
             N == {n \in Nat : \A r \in Seq(E) : Len(r) = n => Kept(r)}
  <1>1. 0 \in N
    <2>1. \A r \in Seq(E) : Len(r) = 0 => r = << >>
      BY EmptySeq
    <2>2. Range(<< >>) = {} /\ IsInjective(<< >>)
      BY DEF Range, IsInjective
    <2>3. Kept(<< >>)
      BY <2>2, FilterEmpty
    <2> HIDE DEF Kept
    <2> QED
      BY <2>1, <2>3
  <1>2. ASSUME NEW n \in N
        PROVE  n + 1 \in N
    <2> SUFFICES ASSUME NEW r \in Seq(E), Len(r) = n + 1
                 PROVE  Kept(r)
      OBVIOUS
    <2>1. r # << >>
      BY EmptySeq
    <2>2. PICK s \in Seq(E), x \in E : r = Append(s, x)
      BY <2>1, SequenceEmptyOrAppend
    <2>3. Len(s) = n
      BY <2>2, AppendProperties, LenProperties
    <2>4. Kept(s)
      BY <2>3
    <2>5. Range(r) = Range(s) \union {x}
      BY <2>2, RangeAppended
    <2>6. IsInjective(r) => IsInjective(s) /\ x \notin Range(s)
      <3>1. /\ DOMAIN r = 1 .. Len(s) + 1 /\ DOMAIN s = 1 .. Len(s)
            /\ Len(s) \in Nat /\ r[Len(s) + 1] = x
            /\ \A i \in 1 .. Len(s) : r[i] = s[i]
        BY <2>2, AppendProperties, LenProperties
      <3> QED
        BY <3>1 DEF IsInjective, Range
    <2>7. CASE x \in S
      <3> DEFINE f == Filter(s, S)
      <3>1. f \in Seq(E) /\ Filter(r, S) = Append(f, x)
        BY <2>2, <2>7, FilterAppend, FilterType
      <3>2. /\ Range(f) = Range(s) \intersect S
            /\ IsInjective(s) => IsInjective(f)
        BY <2>4
      <3> HIDE DEF f
      <3>3. Range(Append(f, x)) = Range(f) \union {x}
        BY <3>1, RangeAppended
      <3>4. ASSUME IsInjective(r)
            PROVE  IsInjective(Append(f, x))
        BY <2>6, <3>1, <3>2, <3>4, AppendDistinct
      <3> QED
        BY <2>5, <2>7, <3>1, <3>2, <3>3, <3>4
    <2>8. CASE x \notin S
      <3>1. Filter(r, S) = Filter(s, S)
        BY <2>2, <2>8, FilterAppend
      <3> QED
        BY <2>4, <2>5, <2>6, <2>8, <3>1
    <2> QED
      BY <2>7, <2>8
  <1>3. N = Nat
    <2> HIDE DEF N
    <2>1. N \in SUBSET Nat
      BY DEF N
    <2> QED
      BY <1>1, <1>2, <2>1, Induction
  <1> QED
    BY <1>3, LenProperties
=============================================================================
