----------------------------- MODULE ResultProofs -----------------------------
(***************************************************************************)
(* Theorems about what is heard and shown of a worker or wrapper, for all  *)
(* kinds of tags, all texts and every way to cut them into chunks.         *)
(***************************************************************************)
EXTENDS MarkerProofs

-----------------------------------------------------------------------------
(* Strip, and the mark of a line *)

LEMMA MaxIs ==
    ASSUME NEW S, NEW n \in S, S \subseteq Nat, \A m \in S : m <= n
    PROVE  Max(S) = n
  <1>1. Max(S) \in S /\ \A y \in S : Max(S) >= y
    BY DEF Max
  <1>2. Max(S) >= n /\ n >= Max(S) /\ n \in Nat /\ Max(S) \in Nat
    BY <1>1
  <1> QED
    BY <1>2

LEMMA StripIs ==
    ASSUME NEW t, IsText(t)
    PROVE  Strip(t) = << >> <=> \A i \in 1 .. Len(t) : t[i] \in White
  <1> DEFINE S == {i \in DOMAIN t : t[i] \notin White}
  <1>1. Len(t) \in Nat /\ DOMAIN t = 1 .. Len(t)
    BY TextIs
  <1>2. CASE S = {}
    BY <1>1, <1>2 DEF Strip
  <1>3. CASE S # {}
    <2> DEFINE m == Min(S)
               n == Max(S)
    <2>1. S \in SUBSET Nat /\ S \subseteq 1 .. Len(t)
      BY <1>1
    <2>2. m \in S /\ \A i \in S : m <= i
      BY <1>3, <2>1, MinLeast
    <2>3. n \in S
      <3> DEFINE N == {Len(t) - i : i \in S}
      <3>1. N \in SUBSET Nat /\ N # {}
        BY <1>1, <1>3
      <3>2. PICK d \in N : \A e \in N : d <= e
        BY <3>1, Least
      <3>3. PICK i \in S : d = Len(t) - i
        OBVIOUS
      <3>4. ASSUME NEW j \in S
            PROVE  j <= i
        <4>1. Len(t) - i <= Len(t) - j
          BY <3>2, <3>3
        <4> QED
          BY <1>1, <2>1, <4>1
      <3>5. S \subseteq Nat
        BY <2>1
      <3> HIDE DEF S
      <3>6. Max(S) = i
        BY <3>4, <3>5, MaxIs
      <3> QED
        BY <3>6
    <2>4. Strip(t) = SubSeq(t, m, n)
      BY <1>3 DEF Strip
    <2>5. m \in 1 .. Len(t) /\ n \in 1 .. Len(t) /\ m <= n
      BY <2>1, <2>2, <2>3
    <2>6. m \in 1 .. Len(t) + 1 /\ n \in m - 1 .. Len(t) /\ n - m + 1 > 0
      BY <1>1, <2>5
    <2> HIDE DEF m, n
    <2>7. Len(Part(t, m, n)) = n - m + 1
      BY <2>6, PartIs
    <2>8. Strip(t) # << >>
      BY <2>4, <2>6, <2>7, EmptyText DEF Part
    <2>9. ~\A i \in 1 .. Len(t) : t[i] \in White
      BY <1>1, <1>3
    <2> QED
      BY <2>8, <2>9
  <1> QED
    BY <1>2, <1>3

Ticks == {"tick", "tilde"}

\* The parts of FenceOf.
Indent(x) ==
    Min({i \in 1 .. Len(x) + 1 : i > Len(x) \/ x[i] # "space" \/ i = 4})
Run(x, m, c) ==
    Max({n \in 0 .. Len(x) + 1 - m : \A i \in m .. m + n - 1 : x[i] = c})

LEMMA IndentIs ==
    ASSUME NEW x, IsText(x), NEW m \in 1 .. 4, m <= Len(x) + 1,
           \A i \in 1 .. m - 1 : x[i] = "space",
           m <= Len(x) => x[m] # "space" \/ m = 4
    PROVE  Indent(x) = m
  <1> DEFINE S == {i \in 1 .. Len(x) + 1 :
                     i > Len(x) \/ x[i] # "space" \/ i = 4}
  <1>1. Len(x) \in Nat
    BY TextIs
  <1>2. m \in S /\ S \subseteq Nat
    BY <1>1
  <1>3. ASSUME NEW i \in S
        PROVE  m <= i
    <2> SUFFICES ASSUME i < m
                 PROVE  FALSE
      BY <1>1
    <2>1. i \in 1 .. m - 1 /\ i <= Len(x) /\ i # 4
      BY <1>1
    <2> QED
      BY <2>1
  <1> HIDE DEF S
  <1>4. Min(S) = m
    BY <1>2, <1>3, MinIs
  <1> QED
    BY <1>4 DEF Indent, S

LEMMA RunIs ==
    ASSUME NEW x, IsText(x), NEW m \in 1 .. Len(x) + 1, NEW c, NEW q \in Nat,
           m + q <= Len(x) + 1, \A i \in m .. m + q - 1 : x[i] = c,
           m + q <= Len(x) => x[m + q] # c
    PROVE  Run(x, m, c) = q
  <1> DEFINE S == {n \in 0 .. Len(x) + 1 - m : 
                     \A i \in m .. m + n - 1 : x[i] = c}
  <1>1. Len(x) \in Nat
    BY TextIs
  <1>2. q \in S /\ S \subseteq Nat
    BY <1>1
  <1>3. ASSUME NEW n \in S
        PROVE  n <= q
    <2> SUFFICES ASSUME n > q
                 PROVE  FALSE
      BY <1>1
    <2>1. m + q \in m .. m + n - 1 /\ m + q <= Len(x)
      BY <1>1
    <2> QED
      BY <2>1
  <1> HIDE DEF S
  <1>4. Max(S) = q
    BY <1>2, <1>3, MaxIs
  <1> QED
    BY <1>4 DEF Run, S

\* A line with a run of q marks c after m - 1 blanks.
Begins(x, m) ==
    /\ m \in 1 .. 4 /\ m <= Len(x) + 1
    /\ \A i \in 1 .. m - 1 : x[i] = "space"
    /\ m <= Len(x) => x[m] # "space" \/ m = 4

Marked(x, m, q, c) ==
    /\ c \in Ticks /\ q \in Nat /\ m + q <= Len(x) + 1
    /\ \A i \in m .. m + q - 1 : x[i] = c
    /\ m + q <= Len(x) => x[m + q] # c
    /\ q = 0 => (m <= Len(x) => x[m] \notin Ticks)

LEMMA FenceIs ==
    ASSUME NEW x, IsText(x), NEW m, Begins(x, m), NEW q, NEW c,
           Marked(x, m, q, c)
    PROVE  /\ FenceOf(x).length = q
           /\ q > 0 => /\ FenceOf(x).mark = c
                       /\ FenceOf(x).info = Strip(SubSeq(x, m + q, Len(x)))
  <1>0. c \in Ticks /\ q \in Nat
    BY DEF Marked
  <1>1. Len(x) \in Nat /\ m \in 1 .. Len(x) + 1
    BY TextIs DEF Begins
  <1>2. Indent(x) = m
    BY IndentIs DEF Begins
  <1> DEFINE d == IF Run(x, Indent(x), "tick") > 0 THEN "tick" ELSE "tilde"
  <1>3. FenceOf(x) =
          [mark |-> d, length |-> Run(x, Indent(x), d),
           info |-> Strip(SubSeq(x, Indent(x) + Run(x, Indent(x), d), Len(x)))]
    BY DEF FenceOf, Indent, Run
  <1>4. CASE q = 0
    <2>1. ASSUME NEW e \in Ticks
          PROVE  Run(x, m, e) = 0
      <3>1. /\ 0 \in Nat /\ m + 0 <= Len(x) + 1
            /\ \A i \in m .. m + 0 - 1 : x[i] = e
            /\ m + 0 <= Len(x) => x[m + 0] # e
        BY <1>1, <1>4 DEF Marked
      <3> QED
        BY <1>1, <3>1, RunIs
    <2>2. d \in Ticks
      BY DEF Ticks
    <2> QED
      BY <1>2, <1>3, <1>4, <2>1, <2>2
  <1>5. CASE q > 0
    <2>1. Run(x, m, c) = q
      BY <1>1, RunIs DEF Marked
    <2>2. CASE c = "tick"
      BY <1>2, <1>3, <1>5, <2>1, <2>2
    <2>3. CASE c = "tilde"
      <3>1. /\ 0 \in Nat /\ m + 0 <= Len(x) + 1
            /\ \A i \in m .. m + 0 - 1 : x[i] = "tick"
            /\ m + 0 <= Len(x) => x[m + 0] # "tick"
        <4>1. m <= Len(x) => x[m] = c
          <5>1. m \in m .. m + q - 1
            BY <1>0, <1>1, <1>5
          <5> QED
            BY <5>1 DEF Marked
        <4> QED
          BY <1>1, <2>3, <4>1
      <3>2. Run(x, m, "tick") = 0
        BY <1>1, <3>1, RunIs
      <3> QED
        BY <1>2, <1>3, <2>1, <2>3, <3>2
    <2> QED
      BY <1>0, <2>2, <2>3 DEF Ticks
  <1> QED
    BY <1>0, <1>4, <1>5

-----------------------------------------------------------------------------
(* Lines and fences *)

LEMMA PartFrom ==
    ASSUME NEW t, IsText(t), NEW n \in 0 .. Len(t), NEW s \in 0 .. n
    PROVE  /\ IsText(Part(t, s + 1, n)) /\ Len(Part(t, s + 1, n)) = n - s
           /\ \A i \in 1 .. n - s : Part(t, s + 1, n)[i] = t[s + i]
  <1> DEFINE a == s + 1
  <1>1. Len(t) \in Nat /\ n \in Nat /\ s \in Nat
    BY TextIs
  <1>2. a \in 1 .. Len(t) + 1 /\ n \in a - 1 .. Len(t) /\ n - a + 1 = n - s
        /\ \A i \in 1 .. n - s : a + i - 1 = s + i
    BY <1>1
  <1> HIDE DEF a
  <1>3. /\ IsText(Part(t, a, n)) /\ Len(Part(t, a, n)) = n - a + 1
        /\ \A i \in 1 .. n - a + 1 : Part(t, a, n)[i] = t[a + i - 1]
    BY <1>2, PartIs, ZenonT(40)
  <1> QED
    BY <1>2, <1>3 DEF a

\* The line of t behind s begins with blanks up to m.
Blanks(t, s, n, m) ==
    /\ m \in s + 1 .. s + 4 /\ m <= n + 1
    /\ \A i \in s + 1 .. m - 1 : t[i] = "space"

NoMark(t, s, n, m) ==
    m <= n => t[m] \notin Ticks /\ (t[m] # "space" \/ m = s + 4)

\* A run of q marks c begins at m, and ends before n does.
MarkRun(t, n, m, q, c) ==
    /\ c \in Ticks /\ q \in Nat /\ q > 0 /\ m + q <= n + 1
    /\ \A i \in m .. m + q - 1 : t[i] = c
    /\ m + q <= n => t[m + q] # c

Trails(t, n, i) == \E j \in i .. n : t[j] \notin White

LEMMA BlanksIn ==
    ASSUME NEW t, IsText(t), NEW n \in 0 .. Len(t), NEW s \in 0 .. n, NEW m,
           Blanks(t, s, n, m), m <= n => (t[m] # "space" \/ m = s + 4)
    PROVE  Begins(Part(t, s + 1, n), m - s)
  <1> DEFINE x == Part(t, s + 1, n)
             p == m - s
  <1>1. Len(x) = n - s /\ \A i \in 1 .. n - s : x[i] = t[s + i]
    BY PartFrom, Zenon
  <1>2. n \in Nat /\ s \in Nat /\ m \in s + 1 .. s + 4 /\ m <= n + 1
    BY TextIs DEF Blanks
  <1>3. p \in 1 .. 4 /\ s + p = m
    BY <1>2
  <1> HIDE DEF x, p
  <1>4. p <= Len(x) + 1
    BY <1>1, <1>2, <1>3
  <1>5. ASSUME NEW i \in 1 .. p - 1
        PROVE  x[i] = "space"
    <2>1. s + i \in s + 1 .. m - 1 /\ i \in 1 .. n - s
      BY <1>2, <1>3
    <2> QED
      BY <1>1, <2>1 DEF Blanks
  <1>6. ASSUME p <= Len(x)
        PROVE  x[p] # "space" \/ p = 4
    <2>1. p \in 1 .. n - s /\ m <= n /\ (m = s + 4 => p = 4)
      BY <1>1, <1>2, <1>3, <1>6
    <2> QED
      BY <1>1, <1>3, <2>1
  <1> QED
    BY <1>3, <1>4, <1>5, <1>6 DEF Begins, x, p

LEMMA NoMarkFence ==
    ASSUME NEW t, IsText(t), NEW n \in 0 .. Len(t), NEW s \in 0 .. n, NEW m,
           Blanks(t, s, n, m), NoMark(t, s, n, m)
    PROVE  FenceOf(Part(t, s + 1, n)).length = 0
  <1> DEFINE x == Part(t, s + 1, n)
             p == m - s
  <1>1. /\ IsText(x) /\ Len(x) = n - s /\ n \in Nat /\ s \in Nat
        /\ \A i \in 1 .. n - s : x[i] = t[s + i]
    BY PartFrom, TextIs
  <1>2. m <= n => (t[m] # "space" \/ m = s + 4)
    BY DEF NoMark
  <1>3. Begins(x, p)
    BY <1>2, BlanksIn, Zenon
  <1>4. p <= Len(x) => x[p] \notin Ticks
    <2> SUFFICES ASSUME p <= Len(x)
                 PROVE  x[p] \notin Ticks
      OBVIOUS
    <2>1. m \in s + 1 .. s + 4
      BY DEF Blanks
    <2>2. p \in 1 .. n - s /\ s + p = m /\ m <= n
      BY <1>1, <2>1
    <2>3. x[p] = t[m]
      BY <1>1, <2>2
    <2> QED
      BY <2>2, <2>3 DEF NoMark
  <1> HIDE DEF x, p
  <1>5. Marked(x, p, 0, "tick")
    BY <1>3, <1>4 DEF Ticks, Begins, Marked
  <1>6. FenceOf(x).length = 0
    BY <1>1, <1>3, <1>5, FenceIs
  <1> QED
    BY <1>6 DEF x

LEMMA MarkFence ==
    ASSUME NEW t, IsText(t), NEW n \in 0 .. Len(t), NEW s \in 0 .. n, NEW m,
           Blanks(t, s, n, m), NEW q, NEW c, MarkRun(t, n, m, q, c),
           NEW f, f = FenceOf(Part(t, s + 1, n))
    PROVE  /\ f.length = q /\ f.mark = c
           /\ f.info = << >> <=> ~Trails(t, n, m + q)
  <1> DEFINE x == Part(t, s + 1, n)
             p == m - s
  <1>1. /\ IsText(x) /\ Len(x) = n - s /\ n \in Nat /\ s \in Nat
        /\ \A i \in 1 .. n - s : x[i] = t[s + i]
    BY PartFrom, TextIs
  <1>2. /\ c \in Ticks /\ q \in Nat /\ q > 0 /\ m + q <= n + 1
        /\ \A i \in m .. m + q - 1 : t[i] = c
        /\ m + q <= n => t[m + q] # c
    BY DEF MarkRun
  <1>3. m \in s + 1 .. s + 4 /\ m \in Nat /\ p \in Nat /\ p > 0 /\ s + p = m
    BY <1>1 DEF Blanks
  <1>4. m <= n => (t[m] # "space" \/ m = s + 4)
    <2>1. m \in m .. m + q - 1
      BY <1>2, <1>3
    <2> QED
      BY <1>2, <2>1 DEF Ticks
  <1>5. Begins(x, p)
    BY <1>4, BlanksIn, Zenon
  <1> HIDE DEF x, p
  <1>6. p + q <= Len(x) + 1
    BY <1>1, <1>2, <1>3
  <1>7. ASSUME NEW i \in p .. p + q - 1
        PROVE  x[i] = c
    <2>1. s + i \in m .. m + q - 1 /\ i \in 1 .. n - s
      BY <1>1, <1>2, <1>3
    <2> QED
      BY <1>1, <1>2, <2>1
  <1>8. ASSUME p + q <= Len(x)
        PROVE  x[p + q] # c
    <2>1. p + q \in 1 .. n - s /\ s + (p + q) = m + q /\ m + q <= n
      BY <1>1, <1>2, <1>3, <1>8
    <2> QED
      BY <1>1, <1>2, <2>1
  <1> DEFINE b == p + q
             y == Part(x, b, Len(x))
  <1>9. /\ FenceOf(x).length = q /\ FenceOf(x).mark = c
        /\ FenceOf(x).info = Strip(y)
    <2>1. Marked(x, p, q, c)
      BY <1>2, <1>6, <1>7, <1>8 DEF Marked
    <2> QED
      BY <1>1, <1>2, <1>5, <2>1, FenceIs DEF Part
  <1>10. b \in 1 .. Len(x) + 1 /\ Len(x) \in b - 1 .. Len(x) /\ s + b = m + q
    BY <1>1, <1>2, <1>3, <1>6
  <1> HIDE DEF b
  <1>11. /\ IsText(y) /\ Len(y) = Len(x) - b + 1
         /\ \A i \in 1 .. Len(x) - b + 1 : y[i] = x[b + i - 1]
    BY <1>1, <1>10, PartIs, ZenonT(40)
  <1> HIDE DEF y
  <1>12. Strip(y) = << >> <=> \A i \in 1 .. Len(y) : y[i] \in White
    BY <1>11, StripIs
  <1> DEFINE e == m + q
  <1>13. e \in Nat /\ s + b = e
    BY <1>2, <1>3, <1>10
  <1> HIDE DEF e
  <1>14. ASSUME NEW i \in 1 .. Len(y), y[i] \notin White
         PROVE  Trails(t, n, e)
    <2>1. b + i - 1 \in 1 .. n - s /\ s + (b + i - 1) \in e .. n
          /\ i \in 1 .. Len(x) - b + 1
      BY <1>1, <1>10, <1>11, <1>13
    <2>2. y[i] = t[s + (b + i - 1)]
      BY <1>1, <1>11, <2>1
    <2> QED
      BY <1>14, <2>1, <2>2 DEF Trails
  <1>15. ASSUME NEW i \in e .. n, t[i] \notin White
         PROVE  \E j \in 1 .. Len(y) : y[j] \notin White
    <2> DEFINE j == i - s - b + 1
    <2>1. j \in 1 .. Len(y) /\ b + j - 1 = i - s
          /\ j \in 1 .. Len(x) - b + 1
          /\ i - s \in 1 .. n - s /\ s + (i - s) = i
      BY <1>1, <1>10, <1>11, <1>13
    <2> HIDE DEF j
    <2>2. y[j] = x[i - s]
      BY <1>11, <2>1
    <2>3. y[j] = t[i]
      BY <1>1, <2>1, <2>2
    <2> QED
      BY <1>15, <2>1, <2>3
  <1>16. Strip(y) = << >> <=> ~Trails(t, n, e)
    BY <1>12, <1>14, <1>15 DEF Trails
  <1> QED
    BY <1>9, <1>16 DEF x, e

\* The state l of that line, read up to n: still blank, without a mark, within
\* its mark, or behind it.
StillBlank(s, n, l, m) ==
    /\ l.stage = "leading" /\ m = n + 1 /\ l.spaces = n - s
    /\ l.length = 0 /\ ~l.tail

Unmarked(t, s, n, l, m) ==
    l.stage = "tail" /\ l.length = 0 /\ m <= n /\ NoMark(t, s, n, m)

OnMark(t, n, l, m) ==
    /\ l.stage = "fence" /\ m + l.length = n + 1 /\ ~l.tail
    /\ MarkRun(t, n, m, l.length, l.mark)

AfterMark(t, n, l, m) ==
    /\ l.stage = "tail" /\ m + l.length <= n
    /\ MarkRun(t, n, m, l.length, l.mark)
    /\ l.tail <=> Trails(t, n, m + l.length)

Reading(t, s, n, l, m) ==
    \/ StillBlank(s, n, l, m) \/ Unmarked(t, s, n, l, m)
    \/ OnMark(t, n, l, m) \/ AfterMark(t, n, l, m)

LineReads(t, s, n, l) == \E m : Blanks(t, s, n, m) /\ Reading(t, s, n, l, m)

\* What FenceOf makes of a whole line.
LEMMA LineFence ==
    ASSUME NEW t, IsText(t), NEW n \in 0 .. Len(t), NEW s \in 0 .. n,
           NEW l \in Lines, LineReads(t, s, n, l),
           NEW f, f = FenceOf(Part(t, s + 1, n))
    PROVE  /\ f.length = l.length
           /\ l.length > 0 => /\ f.mark = l.mark /\ l.mark \in Ticks
                              /\ f.info = << >> <=> ~l.tail
  <1>1. PICK m : Blanks(t, s, n, m) /\ Reading(t, s, n, l, m)
    BY DEF LineReads
  <1>2. n \in Nat /\ s \in Nat /\ m \in Nat /\ l.length \in Nat
    BY <1>1, TextIs DEF Blanks, Lines
  <1>3. CASE StillBlank(s, n, l, m) \/ Unmarked(t, s, n, l, m)
    <2>1. NoMark(t, s, n, m) /\ l.length = 0
      BY <1>2, <1>3 DEF StillBlank, Unmarked, NoMark
    <2>2. f.length = 0
      BY <1>1, <2>1, NoMarkFence
    <2> QED
      BY <2>1, <2>2
  <1>4. CASE OnMark(t, n, l, m) \/ AfterMark(t, n, l, m)
    <2>1. MarkRun(t, n, m, l.length, l.mark) /\ l.mark \in Ticks
      BY <1>4 DEF OnMark, AfterMark, MarkRun
    <2>2. /\ f.length = l.length /\ f.mark = l.mark
          /\ f.info = << >> <=> ~Trails(t, n, m + l.length)
      BY <1>1, <2>1, MarkFence
    <2>3. l.tail <=> Trails(t, n, m + l.length)
      <3>1. CASE OnMark(t, n, l, m)
        BY <1>2, <3>1 DEF OnMark, Trails
      <3>2. CASE AfterMark(t, n, l, m)
        BY <3>2 DEF AfterMark
      <3> QED
        BY <1>4, <3>1, <3>2
    <2> QED
      BY <2>1, <2>2, <2>3
  <1> QED
    BY <1>1, <1>3, <1>4 DEF Reading

LEMMA LineReadsOn ==
    ASSUME NEW t, NEW s \in Nat, NEW n \in Nat, s <= n, NEW l \in Lines,
           LineReads(t, s, n, l), NEW c, c = t[n + 1], c # "newline",
           NEW j, j = LineStep(l, c)
    PROVE  LineReads(t, s, n + 1, j)
  <1>1. PICK m : Blanks(t, s, n, m) /\ Reading(t, s, n, l, m)
    BY DEF LineReads
  <1>2. /\ m \in Nat /\ m \in s + 1 .. s + 4 /\ m <= n + 1 /\ m <= n + 1 + 1
        /\ l.length \in Nat /\ l.spaces \in Nat /\ l.tail \in BOOLEAN
    BY <1>1 DEF Lines, Blanks
  <1>3. Blanks(t, s, n + 1, m)
    BY <1>1, <1>2 DEF Blanks
  <1>4. CASE StillBlank(s, n, l, m)
    <2>1. /\ l.stage = "leading" /\ m = n + 1 /\ l.spaces = n - s
          /\ l.length = 0 /\ ~l.tail
      BY <1>4 DEF StillBlank
    <2>2. CASE c = "space" /\ l.spaces < 3
      <3>1. /\ j.stage = "leading" /\ j.spaces = l.spaces + 1 /\ j.length = 0
            /\ ~j.tail
        BY <2>1, <2>2 DEF LineStep, Lines
      <3>2. StillBlank(s, n + 1, j, n + 2)
        BY <2>1, <3>1 DEF StillBlank
      <3>3. Blanks(t, s, n + 1, n + 2)
        <4>1. n + 2 \in s + 1 .. s + 4 /\ n + 2 <= n + 1 + 1
          BY <1>2, <2>1, <2>2
        <4>2. ASSUME NEW i \in s + 1 .. n + 2 - 1
              PROVE  t[i] = "space"
          <5>1. i \in s + 1 .. m - 1 \/ i = n + 1
            BY <2>1
          <5> QED
            BY <1>1, <2>2, <5>1 DEF Blanks
        <4> QED
          BY <4>1, <4>2 DEF Blanks
      <3> QED
        BY <3>2, <3>3 DEF LineReads, Reading
    <2>3. CASE ~(c = "space" /\ l.spaces < 3) /\ c \in Ticks
      <3>1. j.stage = "fence" /\ j.length = 1 /\ j.mark = c /\ ~j.tail
        BY <2>1, <2>3 DEF LineStep, Lines, Ticks
      <3>2. m + j.length = n + 1 + 1
        BY <2>1, <3>1
      <3>3. MarkRun(t, n + 1, m, 1, c)
        BY <2>1, <2>3 DEF MarkRun
      <3> QED
        BY <1>3, <3>1, <3>2, <3>3 DEF LineReads, Reading, OnMark
    <2>4. CASE ~(c = "space" /\ l.spaces < 3) /\ c \notin Ticks
      <3>1. j.stage = "tail" /\ j.length = 0
        BY <2>1, <2>4 DEF LineStep, Lines, Ticks
      <3>2. c # "space" \/ m = s + 4
        BY <1>2, <2>1, <2>4
      <3>3. NoMark(t, s, n + 1, m) /\ m <= n + 1
        BY <2>1, <2>4, <3>2 DEF NoMark
      <3> QED
        BY <1>3, <3>1, <3>3 DEF LineReads, Reading, Unmarked
    <2> QED
      BY <2>2, <2>3, <2>4
  <1>5. CASE Unmarked(t, s, n, l, m)
    <2>1. j.stage = "tail" /\ j.length = 0
      BY <1>5 DEF LineStep, Lines, Unmarked
    <2>2. m <= n + 1 /\ NoMark(t, s, n + 1, m)
      BY <1>2, <1>5 DEF Unmarked, NoMark
    <2> QED
      BY <1>3, <2>1, <2>2 DEF LineReads, Reading, Unmarked
  <1>6. CASE OnMark(t, n, l, m)
    <2> DEFINE q == l.length
    <2>1. /\ l.stage = "fence" /\ m + q = n + 1 /\ ~l.tail /\ q \in Nat
          /\ q > 0 /\ l.mark \in Ticks
          /\ \A i \in m .. m + q - 1 : t[i] = l.mark
      BY <1>2, <1>6 DEF OnMark, MarkRun
    <2>2. CASE c = l.mark
      <3>1. /\ j.stage = "fence" /\ j.length = q + 1 /\ j.mark = l.mark
            /\ ~j.tail
        BY <2>1, <2>2 DEF LineStep, Lines
      <3> HIDE DEF q
      <3>2. m + (q + 1) = n + 1 + 1 /\ q + 1 \in Nat /\ q + 1 > 0
            /\ m + (q + 1) <= n + 1 + 1 /\ ~(m + (q + 1) <= n + 1)
        BY <1>2, <2>1
      <3>3. ASSUME NEW i \in m .. m + (q + 1) - 1
            PROVE  t[i] = l.mark
        <4>1. i \in m .. m + q - 1 \/ i = n + 1
          BY <1>2, <2>1
        <4> QED
          BY <2>1, <2>2, <4>1
      <3>4. MarkRun(t, n + 1, m, q + 1, l.mark)
        BY <2>1, <3>2, <3>3 DEF MarkRun
      <3>5. OnMark(t, n + 1, j, m)
        BY <3>1, <3>2, <3>4 DEF OnMark
      <3> QED
        BY <1>3, <3>5 DEF LineReads, Reading
    <2>3. CASE c # l.mark
      <3>1. /\ j.stage = "tail" /\ j.length = q /\ j.mark = l.mark
            /\ j.tail <=> c \notin White
        BY <2>1, <2>3 DEF LineStep, Lines
      <3> HIDE DEF q
      <3>2. m + q <= n + 1 /\ m + q <= n + 1 + 1
        BY <1>2, <2>1
      <3>3. MarkRun(t, n + 1, m, q, l.mark)
        BY <2>1, <2>3, <3>2 DEF MarkRun
      <3>4. Trails(t, n + 1, m + q) <=> c \notin White
        <4>1. \A i : i \in n + 1 .. n + 1 <=> i = n + 1
          OBVIOUS
        <4> QED
          BY <2>1, <4>1 DEF Trails
      <3>5. AfterMark(t, n + 1, j, m)
        BY <3>1, <3>2, <3>3, <3>4 DEF AfterMark
      <3> QED
        BY <1>3, <3>5 DEF LineReads, Reading
    <2> QED
      BY <2>2, <2>3
  <1>7. CASE AfterMark(t, n, l, m)
    <2> DEFINE q == l.length
    <2>1. /\ l.stage = "tail" /\ m + q <= n /\ q \in Nat
          /\ MarkRun(t, n, m, q, l.mark)
          /\ l.tail <=> Trails(t, n, m + q)
      BY <1>2, <1>7 DEF AfterMark
    <2>2. /\ j.stage = "tail" /\ j.length = q /\ j.mark = l.mark
          /\ j.tail <=> l.tail \/ c \notin White
      BY <2>1 DEF LineStep, Lines
    <2> HIDE DEF q
    <2>3. m + q <= n + 1 /\ m + q <= n + 1 + 1 /\ m + q \in Nat
      BY <1>2, <2>1
    <2>4. MarkRun(t, n + 1, m, q, l.mark)
      BY <2>1, <2>3 DEF MarkRun
    <2>5. Trails(t, n + 1, m + q) <=> Trails(t, n, m + q) \/ c \notin White
      <3>1. \A i : i \in m + q .. n + 1 <=> i \in m + q .. n \/ i = n + 1
        BY <2>3
      <3> QED
        BY <3>1 DEF Trails
    <2>6. AfterMark(t, n + 1, j, m)
      BY <2>1, <2>2, <2>3, <2>4, <2>5 DEF AfterMark
    <2> QED
      BY <1>3, <2>6 DEF LineReads, Reading
  <1> QED
    BY <1>1, <1>4, <1>5, <1>6, <1>7 DEF Reading

\* The recursive function of InFence.
OpenAt(w, t, n) ==
    IF n = 0 THEN NoFence
    ELSE IF t[n] # "newline" THEN w[n - 1]
    ELSE Toggle(w[n - 1], SubSeq(t, LineBegin(t, n), n - 1))

Opening(w, t, m) == w = [n \in 0 .. m |-> OpenAt(w, t, n)]

Fences(t) == CHOOSE w : Opening(w, t, Len(t))

LEMMA FencesExist ==
    ASSUME NEW t
    PROVE  \A m \in Nat : \E w : Opening(w, t, m)
  <1> DEFINE N == {m \in Nat : \E w : Opening(w, t, m)}
  <1>1. 0 \in N
    <2> DEFINE w == [i \in 0 .. 0 |-> NoFence]
    <2>1. Opening(w, t, 0)
      BY DEF Opening, OpenAt
    <2> QED
      BY <2>1
  <1>2. ASSUME NEW m \in N
        PROVE  m + 1 \in N
    <2>1. PICK w : Opening(w, t, m)
      OBVIOUS
    <2> DEFINE x == [i \in 0 .. m + 1 |-> IF i <= m THEN w[i]
                                          ELSE OpenAt(w, t, i)]
    <2>2. ASSUME NEW i \in 0 .. m + 1
          PROVE  x[i] = OpenAt(x, t, i)
      <3>1. i # 0 => i - 1 \in 0 .. m /\ x[i - 1] = w[i - 1]
        OBVIOUS
      <3>2. OpenAt(x, t, i) = OpenAt(w, t, i)
        BY <3>1 DEF OpenAt
      <3>3. i <= m => w[i] = OpenAt(w, t, i)
        BY <2>1 DEF Opening
      <3> QED
        BY <3>2, <3>3
    <2>3. Opening(x, t, m + 1)
      <3> HIDE DEF x
      <3>1. x = [i \in 0 .. m + 1 |-> x[i]]
        BY DEF x
      <3> QED
        BY <2>2, <3>1 DEF Opening
    <2> QED
      BY <2>3
  <1>3. N = Nat
    <2> HIDE DEF N
    <2>1. N \in SUBSET Nat
      BY DEF N
    <2> QED
      BY <1>1, <1>2, <2>1, Induction
  <1> QED
    BY <1>3

LEMMA FencesAre ==
    ASSUME NEW t, IsText(t)
    PROVE  /\ \A n \in 0 .. Len(t) : Fences(t)[n] = OpenAt(Fences(t), t, n)
           /\ \A i : InFence(t, i) <=> Fences(t)[i - 1].mark # None
  <1>1. Opening(Fences(t), t, Len(t))
    BY FencesExist, TextIs DEF Fences
  <1>2. \A i : InFence(t, i) <=> Fences(t)[i - 1].mark # None
    BY DEF InFence, Fences, Opening, OpenAt
  <1> QED
    BY <1>1, <1>2 DEF Opening

\* The state l of the line that n lies in, behind the newline s.
LineFrom(t, s, n) ==
    /\ s \in 0 .. n
    /\ s > 0 => t[s] = "newline"
    /\ \A i \in s + 1 .. n : t[i] # "newline"

LineAt(t, n, l) ==
    \E s : /\ LineFrom(t, s, n) /\ LineReads(t, s, n, l)
           /\ l.boundary <=> s = n
           /\ l.fence = Fences(t)[n].mark /\ l.size = Fences(t)[n].length

LEMMA LineBeginIs ==
    ASSUME NEW t, NEW n \in Nat, NEW s, LineFrom(t, s, n)
    PROVE  LineBegin(t, n + 1) = s + 1
  <1> DEFINE S == {0} \union {i \in 1 .. n + 1 - 1 : t[i] = "newline"}
  <1>1. s \in 0 .. n /\ s \in S /\ S \subseteq Nat
    BY DEF LineFrom
  <1>2. ASSUME NEW i \in S
        PROVE  i <= s
    BY <1>1 DEF LineFrom
  <1> HIDE DEF S
  <1>3. Max(S) = s
    BY <1>1, <1>2, MaxIs
  <1> QED
    BY <1>3 DEF LineBegin, S

LEMMA FreshLine ==
    ASSUME NEW t, NEW n \in Nat, NEW fence, NEW size
    PROVE  LineReads(t, n, n, LineStart(fence, size))
  <1> DEFINE l == LineStart(fence, size)
  <1>1. StillBlank(n, n, l, n + 1)
    BY DEF StillBlank, LineStart
  <1>2. Blanks(t, n, n, n + 1)
    BY DEF Blanks
  <1> QED
    BY <1>1, <1>2 DEF LineReads, Reading

LEMMA LineInit ==
    ASSUME NEW t, IsText(t)
    PROVE  LineAt(t, 0, LineStart(None, 0))
  <1> DEFINE l == LineStart(None, 0)
  <1>1. 0 \in 0 .. Len(t)
    BY TextIs
  <1>2. Fences(t)[0] = NoFence
    BY <1>1, FencesAre DEF OpenAt
  <1>3. l.boundary /\ l.fence = None /\ l.size = 0
    BY DEF LineStart
  <1>4. LineFrom(t, 0, 0)
    BY DEF LineFrom
  <1>5. LineReads(t, 0, 0, l)
    BY FreshLine
  <1> HIDE DEF l
  <1>6. Fences(t)[0].mark = None /\ Fences(t)[0].length = 0
    BY <1>2 DEF NoFence
  <1>7. l.boundary <=> 0 = 0
    BY <1>3
  <1> QED
    BY <1>3, <1>4, <1>5, <1>6, <1>7, Zenon DEF LineAt, l

LEMMA LineOn ==
    ASSUME NEW t, IsText(t), NEW n \in Nat, n + 1 <= Len(t),
           NEW l \in Lines, LineAt(t, n, l)
    PROVE  LineAt(t, n + 1, LineStep(l, t[n + 1]))
  <1>1. PICK s : /\ LineFrom(t, s, n) /\ LineReads(t, s, n, l)
                 /\ l.boundary <=> s = n
                 /\ l.fence = Fences(t)[n].mark /\ l.size = Fences(t)[n].length
    BY DEF LineAt
  <1> DEFINE c == t[n + 1]
             j == LineStep(l, c)
             o == Fences(t)[n]
             p == Fences(t)[n + 1]
  <1>2. n + 1 \in 0 .. Len(t) /\ n \in 0 .. Len(t) /\ n + 1 # 0
        /\ n + 1 - 1 = n /\ s \in 0 .. n /\ s \in Nat /\ s <= n
    BY <1>1, TextIs DEF LineFrom
  <1>3. p = OpenAt(Fences(t), t, n + 1)
    BY <1>2, FencesAre, Zenon
  <1>4. CASE c # "newline"
    <2>1. LineReads(t, s, n + 1, j)
      BY <1>1, <1>2, <1>4, LineReadsOn
    <2>2. j.fence = l.fence /\ j.size = l.size /\ j.boundary = FALSE
      BY <1>4 DEF LineStep, Lines
    <2>3. p = o
      BY <1>2, <1>3, <1>4 DEF OpenAt
    <2>4. LineFrom(t, s, n + 1)
      BY <1>1, <1>2, <1>4 DEF LineFrom
    <2>5. s # n + 1
      BY <1>2
    <2> HIDE DEF j, o, p
    <2>6. j.fence = p.mark /\ j.size = p.length
      BY <1>1, <2>2, <2>3 DEF o
    <2> QED
      BY <2>1, <2>2, <2>4, <2>5, <2>6 DEF LineAt, j, p
  <1>5. CASE c = "newline"
    <2> DEFINE x == Part(t, s + 1, n)
               f == FenceOf(x)
    <2>1. p = Toggle(o, x)
      <3>1. LineBegin(t, n + 1) = s + 1
        BY <1>1, LineBeginIs
      <3> QED
        BY <1>2, <1>3, <1>5, <3>1 DEF OpenAt, Part
    <2>2. /\ f.length = l.length
          /\ l.length > 0 => /\ f.mark = l.mark /\ l.mark \in Ticks
                             /\ f.info = << >> <=> ~l.tail
      BY <1>1, <1>2, LineFence
    <2>3. j = LineEnd(l)
      BY <1>5 DEF LineStep
    <2>4. p = IF f.length < 3 THEN o
              ELSE IF o.mark = None THEN f
              ELSE IF f.mark = o.mark /\ f.length >= o.length /\ f.info = << >>
              THEN NoFence ELSE o
      BY <2>1 DEF Toggle
    <2> HIDE DEF p, o, f, j
    <2>5. l.fence = o.mark /\ l.size = o.length
      BY <1>1 DEF o
    <2>6. l.length \in Nat /\ l.tail \in BOOLEAN
      BY DEF Lines
    <2>7. \E fence, size : j = LineStart(fence, size) /\ fence = p.mark
                           /\ size = p.length
      <3>1. CASE l.length < 3
        BY <2>2, <2>3, <2>4, <2>5, <3>1 DEF LineEnd
      <3>2. CASE l.length >= 3 /\ l.fence = None
        BY <2>2, <2>3, <2>4, <2>5, <2>6, <3>2 DEF LineEnd
      <3>3. CASE l.length >= 3 /\ l.fence # None /\ l.mark = l.fence
                 /\ l.length >= l.size /\ ~l.tail
        BY <2>2, <2>3, <2>4, <2>5, <2>6, <3>3 DEF LineEnd, NoFence
      <3>4. CASE /\ l.length >= 3 /\ l.fence # None
                 /\ ~(l.mark = l.fence /\ l.length >= l.size /\ ~l.tail)
        BY <2>2, <2>3, <2>4, <2>5, <2>6, <3>4 DEF LineEnd
      <3> QED
        BY <2>6, <3>1, <3>2, <3>3, <3>4
    <2>8. PICK fence, size : /\ j = LineStart(fence, size) /\ fence = p.mark
                             /\ size = p.length
      BY <2>7
    <2>9. LineReads(t, n + 1, n + 1, j)
      BY <1>2, <2>8, FreshLine
    <2>10. j.boundary /\ j.fence = p.mark /\ j.size = p.length
      BY <2>8 DEF LineStart
    <2>11. LineFrom(t, n + 1, n + 1)
      BY <1>2, <1>5 DEF LineFrom
    <2> QED
      BY <2>9, <2>10, <2>11 DEF LineAt, j, p
  <1> QED
    BY <1>4, <1>5

\* Where a line begins outside of fences.
FramedAt(t, i) == (i > 1 => t[i - 1] = "newline") /\ ~InFence(t, i)

LEMMA FramedIs ==
    ASSUME NEW t, IsText(t), NEW n \in Nat, NEW l \in Lines, LineAt(t, n, l)
    PROVE  l.boundary /\ ~Fenced(l) <=> FramedAt(t, n + 1)
  <1>1. PICK s : /\ LineFrom(t, s, n) /\ LineReads(t, s, n, l)
                 /\ l.boundary <=> s = n
                 /\ l.fence = Fences(t)[n].mark
    BY DEF LineAt
  <1>2. InFence(t, n + 1) <=> l.fence # None
    <2>1. n + 1 - 1 = n
      OBVIOUS
    <2> QED
      BY <1>1, <2>1, FencesAre
  <1>3. s = n <=> (n + 1 > 1 => t[n + 1 - 1] = "newline")
    BY <1>1 DEF LineFrom
  <1>4. s = n => l.length = 0
    <2> SUFFICES ASSUME s = n
                 PROVE  l.length = 0
      OBVIOUS
    <2>1. PICK m : Blanks(t, n, n, m) /\ Reading(t, n, n, l, m)
      BY <1>1 DEF LineReads
    <2>2. m = n + 1 /\ l.length \in Nat
      BY <2>1 DEF Blanks, Lines
    <2> QED
      BY <2>1, <2>2 DEF Reading, StillBlank, Unmarked, OnMark, AfterMark, MarkRun
  <1> QED
    BY <1>1, <1>2, <1>3, <1>4 DEF FramedAt, Fenced

-----------------------------------------------------------------------------
(* Tags that are being read *)

\* The symbols of t from j up to n begin the name k.
NamedTo(t, j, n, k) ==
    n - j + 1 <= Len(k) /\ \A m \in 1 .. n - j + 1 : t[j + m - 1] = k[m]

LEMMA PartOn ==
    ASSUME NEW t, IsText(t), NEW j \in Nat \ {0}, NEW n \in Nat, j <= n + 1,
           n + 1 <= Len(t)
    PROVE  Append(Part(t, j, n), t[n + 1]) = Part(t, j, n + 1)
  <1> DEFINE x == Part(t, j, n)
             y == Part(t, j, n + 1)
             z == Append(x, t[n + 1])
  <1>1. Len(t) \in Nat /\ n + 1 \in 1 .. Len(t) /\ t[n + 1] \in Symbol
    BY TextIs
  <1>2. /\ j \in 1 .. Len(t) + 1 /\ n \in j - 1 .. Len(t)
        /\ n + 1 \in j - 1 .. Len(t) /\ n + 1 - j + 1 = n - j + 1 + 1
    BY <1>1
  <1>3. /\ IsText(x) /\ Len(x) = n - j + 1
        /\ \A m \in 1 .. n - j + 1 : x[m] = t[j + m - 1]
    BY <1>2, PartIs, Zenon
  <1>4. /\ IsText(y) /\ Len(y) = n + 1 - j + 1
        /\ \A m \in 1 .. n + 1 - j + 1 : y[m] = t[j + m - 1]
    <2> DEFINE o == n + 1
    <2>1. o \in j - 1 .. Len(t)
      BY <1>2
    <2> HIDE DEF o
    <2>2. /\ IsText(Part(t, j, o)) /\ Len(Part(t, j, o)) = o - j + 1
          /\ \A m \in 1 .. o - j + 1 : Part(t, j, o)[m] = t[j + m - 1]
      BY <1>2, <2>1, PartIs, Zenon
    <2> QED
      BY <2>2 DEF o
  <1> HIDE DEF x, y
  <1>5. /\ IsText(z) /\ Len(z) = Len(x) + 1
        /\ \A m \in 1 .. Len(x) : z[m] = x[m]
        /\ z[Len(x) + 1] = t[n + 1]
    BY <1>1, <1>3, AppendProperties DEF IsText
  <1> HIDE DEF z
  <1>6. ASSUME NEW m \in 1 .. Len(z)
        PROVE  z[m] = y[m]
    <2>1. m \in 1 .. n - j + 1 \/ m = n - j + 1 + 1
      BY <1>2, <1>3, <1>5
    <2>2. CASE m \in 1 .. n - j + 1
      <3>1. m \in 1 .. Len(x) /\ m \in 1 .. n + 1 - j + 1
        BY <1>2, <1>3, <2>2
      <3> QED
        BY <1>3, <1>4, <1>5, <2>2, <3>1
    <2>3. CASE m = n - j + 1 + 1
      <3>1. /\ m = Len(x) + 1 /\ m \in 1 .. n + 1 - j + 1
            /\ j + m - 1 = n + 1
        BY <1>2, <1>3, <2>3
      <3> QED
        BY <1>4, <1>5, <3>1
    <2> QED
      BY <2>1, <2>2, <2>3
  <1>7. Len(z) = Len(y)
    BY <1>2, <1>3, <1>4, <1>5
  <1>8. z = y
    BY <1>4, <1>5, <1>6, <1>7, SameText
  <1> QED
    BY <1>8 DEF x, y, z

LEMMA NameIs ==
    ASSUME NEW t, IsText(t), NEW j \in Nat \ {0}, NEW n \in Nat, j <= n + 1,
           n <= Len(t), NEW k, IsText(k)
    PROVE  /\ IsPrefix(Part(t, j, n), k) <=> NamedTo(t, j, n, k)
           /\ Part(t, j, n) = k
                <=> NamedTo(t, j, n, k) /\ n - j + 1 = Len(k)
  <1> DEFINE x == Part(t, j, n)
             q == n - j + 1
             v == Part(k, 1, q)
  <1>1. /\ Len(t) \in Nat /\ Len(k) \in Nat /\ q \in Nat
        /\ j \in 1 .. Len(t) + 1 /\ n \in j - 1 .. Len(t)
    BY TextIs
  <1>2. IsText(x) /\ Len(x) = q /\ \A m \in 1 .. q : x[m] = t[j + m - 1]
    BY <1>1, PartIs, Zenon
  <1>3. Part(x, 1, q) = x
    BY <1>2, TextIs
  <1>4. IsPrefix(x, k) <=> q <= Len(k) /\ x = v
    BY <1>2, <1>3 DEF IsPrefix, Part
  <1>5. NamedTo(t, j, n, k)
          <=> q <= Len(k) /\ \A m \in 1 .. q : t[j + m - 1] = k[m]
    BY DEF NamedTo
  <1> HIDE DEF q, x
  <1>6. ASSUME q <= Len(k)
        PROVE  IsText(v) /\ Len(v) = q /\ \A m \in 1 .. q : v[m] = k[m]
    <2>1. /\ 1 \in 1 .. Len(k) + 1 /\ q \in 1 - 1 .. Len(k)
          /\ q - 1 + 1 = q /\ \A m \in 1 .. q : 1 + m - 1 = m
      BY <1>1, <1>6
    <2> QED
      BY <2>1, PartIs
  <1> HIDE DEF v
  <1>7. q <= Len(k) => (x = v <=> \A m \in 1 .. q : x[m] = k[m])
    BY <1>2, <1>6, SameText
  <1>8. x = k <=> Len(k) = q /\ \A m \in 1 .. q : x[m] = k[m]
    BY <1>2, SameText
  <1> QED
    BY <1>1, <1>2, <1>4, <1>5, <1>7, <1>8 DEF x, q

\* Between "<" at i and a name at j are blanks and at most one "/".
Gap(t, i, j) ==
    /\ i \in Nat \ {0} /\ j \in Nat /\ i < j /\ t[i] = "<"
    /\ \A n \in i + 1 .. j - 1 : t[n] \in White \union {"/"}
    /\ \A m, n \in i + 1 .. j - 1 : t[m] = "/" /\ t[n] = "/" => m = n

Slashed(t, i, j) == \E n \in i + 1 .. j - 1 : t[n] = "/"
Spaced(t, i, j) == \E n \in i + 1 .. j - 1 : t[n] \in White

\* What follows i up to n may become a tag, with a name from j on.
Alive(t, i, j, n) ==
    /\ Gap(t, i, j) /\ j <= n + 1
    /\ \E k \in Kinds : NamedTo(t, j, n, k)

\* The symbols of names.
LEMMA NameSymbols ==
    ASSUME NEW t, NEW j \in Nat, NEW n \in Nat, NEW k \in Kinds,
           NamedTo(t, j, n, k)
    PROVE  /\ \A m \in j .. n : t[m] \notin White \union {"<", "/", ">"}
           /\ j <= n => t[j] = "p"
  <1>1. Len(k) \in Nat /\ k[1] = "p"
        /\ \A m \in 1 .. Len(k) : k[m] \notin White \union {"<", "/", ">"}
    BY KindIs
  <1>2. ASSUME NEW m \in j .. n
        PROVE  m - j + 1 \in 1 .. Len(k) /\ t[m] = k[m - j + 1]
    <2>1. m - j + 1 \in 1 .. n - j + 1 /\ j + (m - j + 1) - 1 = m
          /\ n - j + 1 <= Len(k)
      BY DEF NamedTo
    <2> QED
      BY <1>1, <2>1 DEF NamedTo
  <1>3. j <= n => t[j] = "p"
    <2>1. j - j + 1 = 1 /\ (j <= n => j \in j .. n)
      OBVIOUS
    <2> QED
      BY <1>1, <1>2, <2>1
  <1> QED
    BY <1>1, <1>2, <1>3

LEMMA AliveSymbols ==
    ASSUME NEW t, NEW n \in Nat, NEW i, NEW j, Alive(t, i, j, n)
    PROVE  /\ i \in Nat /\ j \in Nat /\ 0 < i /\ i < j /\ j <= n + 1 /\ i <= n
           /\ t[i] = "<"
           /\ \A m \in i + 1 .. n : t[m] \notin {"<", ">"}
           /\ j <= n => t[j] = "p"
  <1>1. PICK k \in Kinds : NamedTo(t, j, n, k)
    BY DEF Alive
  <1>2. /\ i \in Nat /\ j \in Nat /\ 0 < i /\ i < j /\ j <= n + 1
        /\ t[i] = "<"
        /\ \A m \in i + 1 .. j - 1 : t[m] \in White \union {"/"}
    BY DEF Alive, Gap
  <1>3. /\ \A m \in j .. n : t[m] \notin White \union {"<", "/", ">"}
        /\ j <= n => t[j] = "p"
    BY <1>1, <1>2, NameSymbols
  <1>4. ASSUME NEW m \in i + 1 .. n
        PROVE  t[m] \notin {"<", ">"}
    <2>1. m \in i + 1 .. j - 1 \/ m \in j .. n
      BY <1>2
    <2> QED
      BY <1>2, <1>3, <2>1 DEF White
  <1> QED
    BY <1>2, <1>3, <1>4

\* At most one tag is being read, with at most one name.
LEMMA OneAlive ==
    ASSUME NEW t, NEW n \in Nat, NEW i, NEW j, Alive(t, i, j, n),
           NEW x, NEW y, Alive(t, x, y, n)
    PROVE  x = i /\ y = j
  <1>1. /\ i \in Nat /\ j \in Nat /\ i < j /\ j <= n + 1 /\ i <= n
        /\ t[i] = "<"
        /\ \A m \in i + 1 .. n : t[m] \notin {"<", ">"}
        /\ j <= n => t[j] = "p"
    BY AliveSymbols
  <1>2. /\ x \in Nat /\ y \in Nat /\ x < y /\ y <= n + 1 /\ x <= n
        /\ t[x] = "<"
        /\ \A m \in x + 1 .. n : t[m] \notin {"<", ">"}
        /\ y <= n => t[y] = "p"
    BY AliveSymbols
  <1>3. x = i
    <2>1. ~(i < x)
      <3> SUFFICES ASSUME i < x
                   PROVE  FALSE
        OBVIOUS
      <3>1. x \in i + 1 .. n
        BY <1>1, <1>2
      <3> QED
        BY <1>1, <1>2, <3>1
    <2>2. ~(x < i)
      <3> SUFFICES ASSUME x < i
                   PROVE  FALSE
        OBVIOUS
      <3>1. i \in x + 1 .. n
        BY <1>1, <1>2
      <3> QED
        BY <1>1, <1>2, <3>1
    <2> QED
      BY <1>1, <1>2, <2>1, <2>2
  <1>4. /\ \A m \in i + 1 .. j - 1 : t[m] \in White \union {"/"}
        /\ \A m \in i + 1 .. y - 1 : t[m] \in White \union {"/"}
    BY <1>3 DEF Alive, Gap
  <1>5. y = j
    <2>1. ~(j < y)
      <3> SUFFICES ASSUME j < y
                   PROVE  FALSE
        OBVIOUS
      <3>1. j \in i + 1 .. y - 1 /\ j <= n
        BY <1>1, <1>2
      <3> QED
        BY <1>1, <1>4, <3>1 DEF White
    <2>2. ~(y < j)
      <3> SUFFICES ASSUME y < j
                   PROVE  FALSE
        OBVIOUS
      <3>1. y \in i + 1 .. j - 1 /\ y <= n
        BY <1>1, <1>2, <1>3
      <3> QED
        BY <1>2, <1>4, <3>1 DEF White
    <2> QED
      BY <1>1, <1>2, <2>1, <2>2
  <1> QED
    BY <1>3, <1>5

\* A tag that is being read was being read before.
LEMMA AliveBefore ==
    ASSUME NEW t, NEW n \in Nat, NEW i, NEW j, Alive(t, i, j, n + 1), i <= n
    PROVE  \/ Alive(t, i, j, n) /\ j <= n + 1
           \/ Alive(t, i, n + 1, n) /\ j = n + 2
  <1>1. PICK k \in Kinds : NamedTo(t, j, n + 1, k)
    BY DEF Alive
  <1>2. Len(k) \in Nat
    BY KindIs
  <1>3. /\ i \in Nat \ {0} /\ j \in Nat /\ i < j /\ j <= n + 1 + 1
        /\ Gap(t, i, j)
    BY DEF Alive, Gap
  <1>4. CASE j <= n + 1
    <2>1. /\ (n + 1) - j + 1 <= Len(k)
          /\ \A m \in 1 .. (n + 1) - j + 1 : t[j + m - 1] = k[m]
      BY <1>1, Zenon DEF NamedTo
    <2>2. n - j + 1 <= Len(k)
          /\ \A m \in 1 .. n - j + 1 : m \in 1 .. (n + 1) - j + 1
      BY <1>2, <1>3, <2>1
    <2>3. NamedTo(t, j, n, k)
      BY <2>1, <2>2 DEF NamedTo
    <2> QED
      BY <1>3, <1>4, <2>3 DEF Alive
  <1>5. CASE j = n + 2
    <2>1. NamedTo(t, n + 1, n, k)
      BY <1>2 DEF NamedTo
    <2>2. Gap(t, i, n + 1)
      <3>1. n + 1 \in Nat /\ i < n + 1
            /\ \A m \in i + 1 .. n + 1 - 1 : m \in i + 1 .. j - 1
        BY <1>3, <1>5
      <3> QED
        BY <1>3, <3>1 DEF Gap
    <2> QED
      BY <1>5, <2>1, <2>2 DEF Alive
  <1> QED
    BY <1>3, <1>4, <1>5

NoneAlive(t, n) == \A i, j : ~Alive(t, i, j, n)

LEMMA AliveStarts ==
    ASSUME NEW t, NEW n \in Nat, t[n + 1] = "<"
    PROVE  /\ Alive(t, n + 1, n + 2, n + 1)
           /\ ~Slashed(t, n + 1, n + 2) /\ ~Spaced(t, n + 1, n + 2)
  <1>1. PICK k \in Kinds : TRUE
    BY MarkerAssumption
  <1>2. Len(k) \in Nat
    BY KindIs
  <1>3. NamedTo(t, n + 2, n + 1, k)
    BY <1>2 DEF NamedTo
  <1>4. Gap(t, n + 1, n + 2)
    BY DEF Gap
  <1> QED
    BY <1>3, <1>4 DEF Alive, Slashed, Spaced

LEMMA AliveBlank ==
    ASSUME NEW t, NEW n \in Nat, NEW i, Alive(t, i, n + 1, n),
           NEW c, c = t[n + 1], c \in White \union {"/"},
           c = "/" => ~Slashed(t, i, n + 1)
    PROVE  /\ Alive(t, i, n + 2, n + 1)
           /\ Slashed(t, i, n + 2) <=> Slashed(t, i, n + 1) \/ c = "/"
           /\ Spaced(t, i, n + 2) <=> Spaced(t, i, n + 1) \/ c \in White
  <1>1. PICK k \in Kinds : TRUE
    BY MarkerAssumption
  <1>2. Len(k) \in Nat
    BY KindIs
  <1>3. NamedTo(t, n + 2, n + 1, k)
    BY <1>2 DEF NamedTo
  <1>4. /\ i \in Nat \ {0} /\ i < n + 1 /\ t[i] = "<"
        /\ \A m \in i + 1 .. n + 1 - 1 : t[m] \in White \union {"/"}
        /\ \A l, m \in i + 1 .. n + 1 - 1 : t[l] = "/" /\ t[m] = "/" => l = m
    BY DEF Alive, Gap
  <1>5. \A m : m \in i + 1 .. n + 2 - 1 <=> m \in i + 1 .. n + 1 - 1 \/ m = n + 1
    BY <1>4
  <1>6. Gap(t, i, n + 2)
    <2>1. \A m \in i + 1 .. n + 2 - 1 : t[m] \in White \union {"/"}
      BY <1>4, <1>5
    <2>2. ASSUME NEW l \in i + 1 .. n + 2 - 1, NEW m \in i + 1 .. n + 2 - 1,
                 t[l] = "/", t[m] = "/"
          PROVE  l = m
      <3>1. c = "/" => \A r \in i + 1 .. n + 1 - 1 : t[r] # "/"
        BY DEF Slashed
      <3> QED
        BY <1>4, <1>5, <2>2, <3>1
    <2> QED
      BY <1>4, <2>1, <2>2 DEF Gap
  <1> QED
    BY <1>3, <1>5, <1>6 DEF Alive, Slashed, Spaced

LEMMA AliveNamed ==
    ASSUME NEW t, NEW n \in Nat, NEW i, Alive(t, i, n + 1, n), t[n + 1] = "p"
    PROVE  Alive(t, i, n + 1, n + 1)
  <1>1. PICK k \in Kinds : TRUE
    BY MarkerAssumption
  <1>2. Len(k) \in Nat /\ Len(k) > 1 /\ k[1] = "p"
    BY KindIs
  <1>3. NamedTo(t, n + 1, n + 1, k)
    <2>1. (n + 1) - (n + 1) + 1 = 1 /\ 1 <= Len(k) /\ n + 1 + 1 - 1 = n + 1
      BY <1>2
    <2> QED
      BY <1>2, <2>1 DEF NamedTo
  <1> QED
    BY <1>3 DEF Alive

LEMMA AliveLonger ==
    ASSUME NEW t, NEW n \in Nat, NEW i, NEW j, Alive(t, i, j, n), j <= n,
           NEW k \in Kinds, NamedTo(t, j, n + 1, k)
    PROVE  Alive(t, i, j, n + 1)
  <1>1. j \in Nat /\ j <= n + 1 + 1
    BY DEF Alive, Gap
  <1> QED
    BY <1>1 DEF Alive

\* When the tag that is being read turns out to be none.
LEMMA AliveEnds ==
    ASSUME NEW t, NEW n \in Nat, NEW i, NEW j, Alive(t, i, j, n),
           NEW c, c = t[n + 1], c # "<",
           j = n + 1 =>
              /\ c # "p" /\ c \notin White
              /\ c = "/" => Slashed(t, i, n + 1),
           j <= n => \A k \in Kinds : ~NamedTo(t, j, n + 1, k)
    PROVE  NoneAlive(t, n + 1)
  <1> SUFFICES ASSUME NEW x, NEW y, Alive(t, x, y, n + 1)
               PROVE  FALSE
    BY DEF NoneAlive
  <1>1. /\ x \in Nat /\ y \in Nat /\ x <= n + 1 /\ t[x] = "<"
        /\ y <= n + 1 => t[y] = "p"
    BY AliveSymbols
  <1>2. x <= n
    <2>1. x # n + 1
      BY <1>1
    <2> QED
      BY <1>1, <2>1
  <1>3. /\ j \in Nat /\ j <= n + 1
    BY AliveSymbols
  <1>4. CASE Alive(t, x, y, n) /\ y <= n + 1
    <2>1. x = i /\ y = j
      BY <1>4, OneAlive, Zenon
    <2>2. CASE j = n + 1
      BY <1>1, <1>4, <2>1, <2>2
    <2>3. CASE j <= n
      <3>1. \E k \in Kinds : NamedTo(t, j, n + 1, k)
        BY <2>1 DEF Alive
      <3> QED
        BY <2>3, <3>1
    <2> QED
      BY <1>3, <2>2, <2>3
  <1>5. CASE Alive(t, x, n + 1, n) /\ y = n + 2
    <2>1. x = i /\ j = n + 1
      BY <1>5, OneAlive, Zenon
    <2>2. /\ \A m \in x + 1 .. n + 2 - 1 : t[m] \in White \union {"/"}
          /\ \A l, m \in x + 1 .. n + 2 - 1 : t[l] = "/" /\ t[m] = "/" => l = m
      BY <1>5 DEF Alive, Gap
    <2>3. n + 1 \in x + 1 .. n + 2 - 1
      BY <1>1, <1>2
    <2>4. c \in White \union {"/"}
      BY <2>2, <2>3
    <2>5. c = "/" /\ Slashed(t, x, n + 1)
      BY <2>1, <2>4
    <2>6. PICK m \in x + 1 .. n + 1 - 1 : t[m] = "/"
      BY <2>5 DEF Slashed
    <2>7. m \in x + 1 .. n + 2 - 1 /\ m # n + 1
      BY <1>1, <2>6
    <2> QED
      BY <2>2, <2>3, <2>5, <2>6, <2>7
  <1> QED
    BY <1>2, <1>4, <1>5, AliveBefore, Zenon

LEMMA StillNone ==
    ASSUME NEW t, NEW n \in Nat, NoneAlive(t, n), t[n + 1] # "<"
    PROVE  NoneAlive(t, n + 1)
  <1> SUFFICES ASSUME NEW x, NEW y, Alive(t, x, y, n + 1)
               PROVE  FALSE
    BY DEF NoneAlive
  <1>1. x \in Nat /\ x <= n + 1 /\ t[x] = "<"
    BY AliveSymbols
  <1>2. x <= n
    <2>1. x # n + 1
      BY <1>1
    <2> QED
      BY <1>1, <2>1
  <1> QED
    BY <1>2, AliveBefore DEF NoneAlive

-----------------------------------------------------------------------------
(* Tags that were read *)

Tag(t, i, j, k) == k \in Kinds /\ Gap(t, i, j) /\ Reads(t, j, k)

\* An exact tag, and one with a blank or a second "/" in it.
Good(t, i, j, k) ==
    /\ Tag(t, i, j, k) /\ ~Spaced(t, i, j)
    /\ j + Len(k) <= Len(t) /\ t[j + Len(k)] = ">"

Bad(t, i, j, k) ==
    /\ Tag(t, i, j, k) /\ ~Good(t, i, j, k)
    /\ j + Len(k) <= Len(t) /\ t[j + Len(k)] \in White \union {">", "/"}

\* The exact tags that end at n or before; is there a bad one?
Exact(t, n) ==
    {i \in 1 .. Len(t) : \E j, k : Good(t, i, j, k) /\ j + Len(k) <= n}

Spoilt(t, n) == \E i, j, k : Bad(t, i, j, k) /\ j + Len(k) <= n

LEMMA TagIs ==
    ASSUME NEW t, IsText(t), NEW i, NEW j, NEW k, Tag(t, i, j, k)
    PROVE  /\ k \in Kinds /\ IsText(k) /\ Len(k) \in Nat /\ Len(k) > 1
           /\ i \in Nat /\ 0 < i /\ j \in Nat /\ i < j
           /\ i \in 1 .. Len(t) /\ j + Len(k) <= Len(t) + 1
           /\ t[i] = "<" /\ t[j] = "p"
  <1>1. /\ k \in Kinds /\ IsText(k) /\ Len(k) \in Nat /\ Len(k) > 1
        /\ k[1] = "p" /\ Len(t) \in Nat
    BY KindIs, TextIs DEF Tag
  <1>2. i \in Nat /\ 0 < i /\ j \in Nat /\ i < j /\ t[i] = "<"
    BY DEF Tag, Gap
  <1>3. /\ j + Len(k) - 1 <= Len(t)
        /\ \A n \in 1 .. Len(k) : t[j + n - 1] = k[n]
    BY DEF Tag, Reads
  <1>4. i \in 1 .. Len(t) /\ j + Len(k) <= Len(t) + 1
    BY <1>1, <1>2, <1>3
  <1>5. 1 \in 1 .. Len(k) /\ j + 1 - 1 = j
    BY <1>1, <1>2
  <1>6. t[j + 1 - 1] = k[1]
    BY <1>3, <1>5
  <1> QED
    BY <1>1, <1>2, <1>4, <1>5, <1>6

LEMMA TagAlive ==
    ASSUME NEW t, IsText(t), NEW n \in Nat, NEW i, NEW j, NEW k,
           Tag(t, i, j, k), j + Len(k) = n + 1
    PROVE  Alive(t, i, j, n) /\ j <= n /\ Part(t, j, n) = k
  <1>1. /\ k \in Kinds /\ IsText(k) /\ Len(k) \in Nat /\ Len(k) > 1
        /\ j \in Nat /\ j \in Nat \ {0} /\ n <= Len(t)
    BY TagIs, TextIs
  <1>2. j <= n /\ j <= n + 1 /\ n - j + 1 = Len(k)
    BY <1>1
  <1>3. NamedTo(t, j, n, k)
    BY <1>1, <1>2 DEF Tag, Reads, NamedTo
  <1>4. Part(t, j, n) = k
    BY <1>1, <1>2, <1>3, NameIs
  <1> QED
    BY <1>1, <1>2, <1>3, <1>4 DEF Alive, Tag

LEMMA AliveTag ==
    ASSUME NEW t, IsText(t), NEW n \in Nat, n <= Len(t), NEW i, NEW j,
           Alive(t, i, j, n), NEW k \in Kinds, k = Part(t, j, n)
    PROVE  Tag(t, i, j, k) /\ j + Len(k) = n + 1
  <1>1. /\ IsText(k) /\ Len(k) \in Nat /\ Len(t) \in Nat
        /\ j \in Nat \ {0} /\ j <= n + 1
    BY KindIs, TextIs, AliveSymbols
  <1>2. NamedTo(t, j, n, k) /\ n - j + 1 = Len(k)
    BY <1>1, NameIs
  <1>3. /\ j + Len(k) = n + 1 /\ j + Len(k) - 1 <= Len(t)
    BY <1>1, <1>2
  <1>4. Reads(t, j, k)
    BY <1>2, <1>3 DEF NamedTo, Reads
  <1> QED
    BY <1>3, <1>4 DEF Tag, Alive

LEMMA NoTagEnds ==
    ASSUME NEW t, IsText(t), NEW n \in Nat,
           \A i, j, k : Tag(t, i, j, k) => j + Len(k) # n + 1
    PROVE  Exact(t, n + 1) = Exact(t, n) /\ (Spoilt(t, n + 1) <=> Spoilt(t, n))
  <1>1. ASSUME NEW i, NEW j, NEW k, Tag(t, i, j, k)
        PROVE  j + Len(k) <= n + 1 <=> j + Len(k) <= n
    <2>1. j \in Nat /\ Len(k) \in Nat /\ j + Len(k) # n + 1
      BY <1>1, TagIs
    <2> QED
      BY <2>1
  <1>2. /\ \A i, j, k : Good(t, i, j, k) =>
              (j + Len(k) <= n + 1 <=> j + Len(k) <= n)
        /\ \A i, j, k : Bad(t, i, j, k) =>
              (j + Len(k) <= n + 1 <=> j + Len(k) <= n)
    BY <1>1, Zenon DEF Good, Bad
  <1>3. Exact(t, n + 1) = Exact(t, n)
    BY <1>2, Zenon DEF Exact
  <1>4. Spoilt(t, n + 1) <=> Spoilt(t, n)
    BY <1>2, Zenon DEF Spoilt
  <1> QED
    BY <1>3, <1>4

LEMMA TagEnds ==
    ASSUME NEW t, IsText(t), NEW n \in Nat, NEW i, NEW j, NEW k,
           Tag(t, i, j, k), j + Len(k) = n + 1
    PROVE  /\ Good(t, i, j, k) => /\ Exact(t, n + 1) = Exact(t, n) \union {i}
                                  /\ Spoilt(t, n + 1) <=> Spoilt(t, n)
           /\ ~Good(t, i, j, k) =>
                 /\ Exact(t, n + 1) = Exact(t, n)
                 /\ Spoilt(t, n + 1) <=> Spoilt(t, n) \/ Bad(t, i, j, k)
  <1>1. ASSUME NEW x, NEW y, NEW l, Tag(t, x, y, l)
        PROVE  \/ j + Len(k) <= n + 1 /\ x = i /\ y = j /\ l = k
               \/ y + Len(l) <= n + 1 <=> y + Len(l) <= n
    <2>1. y \in Nat /\ Len(l) \in Nat
      BY <1>1, TagIs
    <2>2. CASE y + Len(l) = n + 1
      <3>1. Alive(t, i, j, n) /\ Part(t, j, n) = k
        BY TagAlive
      <3>2. Alive(t, x, y, n) /\ Part(t, y, n) = l
        BY <1>1, <2>2, TagAlive
      <3>3. x = i /\ y = j
        BY <3>1, <3>2, OneAlive, Zenon
      <3> QED
        BY <3>1, <3>2, <3>3
    <2> QED
      BY <2>1, <2>2
  <1>2. i \in 1 .. Len(t) /\ j + Len(k) <= n + 1
        /\ \A x, y, l : Tag(t, x, y, l) /\ y + Len(l) <= n =>
              y + Len(l) <= n + 1
    <2>1. ASSUME NEW x, NEW y, NEW l, Tag(t, x, y, l), y + Len(l) <= n
          PROVE  y + Len(l) <= n + 1
      <3>1. y \in Nat /\ Len(l) \in Nat
        BY <2>1, TagIs
      <3> QED
        BY <2>1, <3>1
    <2> QED
      BY <2>1, TagIs
  <1>3. CASE Good(t, i, j, k)
    <2>1. Exact(t, n + 1) = Exact(t, n) \union {i}
      BY <1>1, <1>2, <1>3, Zenon DEF Exact, Good
    <2>2. Spoilt(t, n + 1) <=> Spoilt(t, n)
      BY <1>1, <1>2, <1>3, Zenon DEF Spoilt, Bad
    <2> QED
      BY <1>3, <2>1, <2>2
  <1>4. CASE ~Good(t, i, j, k)
    <2>1. Exact(t, n + 1) = Exact(t, n)
      BY <1>1, <1>2, <1>4, Zenon DEF Exact, Good
    <2>2. Spoilt(t, n + 1) <=> Spoilt(t, n) \/ Bad(t, i, j, k)
      BY <1>1, <1>2, <1>4, Zenon DEF Spoilt, Bad
    <2> QED
      BY <1>4, <2>1, <2>2
  <1> QED
    BY <1>3, <1>4

\* The exact tags lie before the one that is being read.
LEMMA GoodBefore ==
    ASSUME NEW t, IsText(t), NEW n \in Nat, NEW i, NEW j, Alive(t, i, j, n),
           NEW x, NEW y, NEW k, Good(t, x, y, k), y + Len(k) <= n
    PROVE  y + Len(k) < i /\ x < i
  <1>1. /\ i \in Nat /\ i <= n /\ t[i] = "<"
        /\ \A m \in i + 1 .. n : t[m] \notin {"<", ">"}
    BY AliveSymbols
  <1>2. /\ Tag(t, x, y, k) /\ t[y + Len(k)] = ">"
    BY DEF Good
  <1>3. x \in Nat /\ y \in Nat /\ x < y /\ Len(k) \in Nat
    BY <1>2, TagIs
  <1>4. ~(y + Len(k) >= i)
    <2> SUFFICES ASSUME y + Len(k) >= i
                 PROVE  FALSE
      OBVIOUS
    <2>1. y + Len(k) # i
      BY <1>1, <1>2
    <2>2. y + Len(k) \in i + 1 .. n
      BY <1>1, <1>3, <2>1
    <2> QED
      BY <1>1, <1>2, <2>2
  <1> QED
    BY <1>1, <1>3, <1>4

LEMMA OpenIsGood ==
    ASSUME NEW t, IsText(t), NEW i \in 1 .. Len(t), NEW k \in Kinds
    PROVE  At(t, i, Open(k)) <=> Good(t, i, i + 1, k)
  <1> DEFINE g == Open(k)
             q == Len(k)
  <1>1. /\ Len(t) \in Nat /\ i \in Nat \ {0} /\ i \in 1 .. Len(t) + 1
    BY TextIs
  <1>2. /\ q \in Nat /\ q > 1
    BY KindIs
  <1>3. /\ IsText(g) /\ Len(g) = q + 2 /\ g[1] = "<"
        /\ \A n \in 1 .. q : g[n + 1] = k[n]
        /\ g[q + 2] = ">"
    BY OpenIs DEF IsTag
  <1> HIDE DEF g, q
  <1>4. At(t, i, g) <=> Reads(t, i, g)
    BY <1>1, <1>2, <1>3, AtIs
  <1>5. ASSUME Reads(t, i, g)
        PROVE  Good(t, i, i + 1, k)
    <2>1. i + q + 1 <= Len(t) /\ \A n \in 1 .. q + 2 : t[i + n - 1] = g[n]
      BY <1>1, <1>2, <1>3, <1>5 DEF Reads
    <2>2. t[i] = "<"
      <3>1. 1 \in 1 .. q + 2 /\ i + 1 - 1 = i
        BY <1>1, <1>2
      <3> QED
        BY <1>3, <2>1, <3>1
    <2>3. t[i + 1 + q] = ">"
      <3>1. q + 2 \in 1 .. q + 2 /\ i + (q + 2) - 1 = i + 1 + q
        BY <1>1, <1>2
      <3> QED
        BY <1>3, <2>1, <3>1
    <2>4. ASSUME NEW n \in 1 .. q
          PROVE  t[i + 1 + n - 1] = k[n]
      <3>1. n + 1 \in 1 .. q + 2 /\ i + (n + 1) - 1 = i + 1 + n - 1
        BY <1>1, <1>2
      <3> QED
        BY <1>3, <2>1, <3>1
    <2>5. Reads(t, i + 1, k) /\ i + 1 + q <= Len(t)
      BY <1>1, <1>2, <2>1, <2>4 DEF Reads, q
    <2>6. Gap(t, i, i + 1) /\ ~Spaced(t, i, i + 1)
      BY <1>1, <2>2 DEF Gap, Spaced
    <2> QED
      BY <2>3, <2>5, <2>6 DEF Good, Tag, q
  <1>6. ASSUME Good(t, i, i + 1, k)
        PROVE  Reads(t, i, g)
    <2>1. /\ t[i] = "<" /\ i + 1 + q <= Len(t) /\ t[i + 1 + q] = ">"
          /\ \A n \in 1 .. q : t[i + 1 + n - 1] = k[n]
      BY <1>6 DEF Good, Tag, Gap, Reads, q
    <2>2. ASSUME NEW n \in 1 .. q + 2
          PROVE  t[i + n - 1] = g[n]
      <3>1. CASE n = 1
        <4>1. i + n - 1 = i
          BY <1>1, <3>1
        <4> QED
          BY <1>3, <2>1, <3>1, <4>1
      <3>2. CASE n = q + 2
        <4>1. i + n - 1 = i + 1 + q
          BY <1>1, <1>2, <3>2
        <4> QED
          BY <1>3, <2>1, <3>2, <4>1
      <3>3. CASE n # 1 /\ n # q + 2
        <4>1. /\ n - 1 \in 1 .. q /\ (n - 1) + 1 = n
              /\ i + n - 1 = i + 1 + (n - 1) - 1
          BY <1>1, <1>2, <3>3
        <4>2. g[(n - 1) + 1] = k[n - 1] /\ t[i + 1 + (n - 1) - 1] = k[n - 1]
          BY <1>3, <2>1, <4>1
        <4> QED
          BY <4>1, <4>2
      <3> QED
        BY <3>1, <3>2, <3>3
    <2>3. i + Len(g) - 1 <= Len(t)
      BY <1>1, <1>2, <1>3, <2>1
    <2> QED
      BY <1>3, <2>2, <2>3 DEF Reads
  <1> QED
    BY <1>4, <1>5, <1>6 DEF g

LEMMA CloseIsGood ==
    ASSUME NEW t, IsText(t), NEW i \in 1 .. Len(t), NEW k \in Kinds
    PROVE  At(t, i, Close(k)) <=> Good(t, i, i + 2, k) /\ t[i + 1] = "/"
  <1> DEFINE g == Close(k)
             q == Len(k)
  <1>1. /\ Len(t) \in Nat /\ i \in Nat \ {0} /\ i \in 1 .. Len(t) + 1
    BY TextIs
  <1>2. /\ q \in Nat /\ q > 1
    BY KindIs
  <1>3. /\ IsText(g) /\ Len(g) = q + 3 /\ g[1] = "<" /\ g[2] = "/"
        /\ \A n \in 1 .. q : g[n + 2] = k[n]
        /\ g[q + 3] = ">"
    BY CloseIs DEF IsTag
  <1> HIDE DEF g, q
  <1>4. At(t, i, g) <=> Reads(t, i, g)
    BY <1>1, <1>2, <1>3, AtIs
  <1>5. ASSUME Reads(t, i, g)
        PROVE  Good(t, i, i + 2, k) /\ t[i + 1] = "/"
    <2>1. i + q + 2 <= Len(t) /\ \A n \in 1 .. q + 3 : t[i + n - 1] = g[n]
      BY <1>1, <1>2, <1>3, <1>5 DEF Reads
    <2>2. t[i] = "<" /\ t[i + 1] = "/"
      <3>1. /\ 1 \in 1 .. q + 3 /\ i + 1 - 1 = i
            /\ 2 \in 1 .. q + 3 /\ i + 2 - 1 = i + 1
        BY <1>1, <1>2
      <3> QED
        BY <1>3, <2>1, <3>1
    <2>3. t[i + 2 + q] = ">"
      <3>1. q + 3 \in 1 .. q + 3 /\ i + (q + 3) - 1 = i + 2 + q
        BY <1>1, <1>2
      <3> QED
        BY <1>3, <2>1, <3>1
    <2>4. ASSUME NEW n \in 1 .. q
          PROVE  t[i + 2 + n - 1] = k[n]
      <3>1. n + 2 \in 1 .. q + 3 /\ i + (n + 2) - 1 = i + 2 + n - 1
        BY <1>1, <1>2
      <3> QED
        BY <1>3, <2>1, <3>1
    <2>5. Reads(t, i + 2, k) /\ i + 2 + q <= Len(t)
      BY <1>1, <1>2, <2>1, <2>4 DEF Reads, q
    <2>6. Gap(t, i, i + 2) /\ ~Spaced(t, i, i + 2)
      <3>1. \A n : n \in i + 1 .. i + 2 - 1 <=> n = i + 1
        BY <1>1
      <3> QED
        BY <1>1, <2>2, <3>1 DEF Gap, Spaced, White
    <2> QED
      BY <2>2, <2>3, <2>5, <2>6 DEF Good, Tag, q
  <1>6. ASSUME Good(t, i, i + 2, k), t[i + 1] = "/"
        PROVE  Reads(t, i, g)
    <2>1. /\ t[i] = "<" /\ i + 2 + q <= Len(t) /\ t[i + 2 + q] = ">"
          /\ \A n \in 1 .. q : t[i + 2 + n - 1] = k[n]
      BY <1>6 DEF Good, Tag, Gap, Reads, q
    <2>2. ASSUME NEW n \in 1 .. q + 3
          PROVE  t[i + n - 1] = g[n]
      <3>1. CASE n = 1
        <4>1. i + n - 1 = i
          BY <1>1, <3>1
        <4> QED
          BY <1>3, <2>1, <3>1, <4>1
      <3>2. CASE n = 2
        <4>1. i + n - 1 = i + 1
          BY <1>1, <3>2
        <4> QED
          BY <1>3, <1>6, <3>2, <4>1
      <3>3. CASE n = q + 3
        <4>1. i + n - 1 = i + 2 + q
          BY <1>1, <1>2, <3>3
        <4> QED
          BY <1>3, <2>1, <3>3, <4>1
      <3>4. CASE n # 1 /\ n # 2 /\ n # q + 3
        <4>1. /\ n - 2 \in 1 .. q /\ (n - 2) + 2 = n
              /\ i + n - 1 = i + 2 + (n - 2) - 1
          BY <1>1, <1>2, <3>4
        <4>2. g[(n - 2) + 2] = k[n - 2] /\ t[i + 2 + (n - 2) - 1] = k[n - 2]
          BY <1>3, <2>1, <4>1
        <4> QED
          BY <4>1, <4>2
      <3> QED
        BY <3>1, <3>2, <3>3, <3>4
    <2>3. i + Len(g) - 1 <= Len(t)
      BY <1>1, <1>2, <1>3, <2>1
    <2> QED
      BY <1>3, <2>2, <2>3 DEF Reads
  <1> QED
    BY <1>4, <1>5, <1>6 DEF g

\* What an exact tag is.
LEMMA GoodIs ==
    ASSUME NEW t, IsText(t), NEW i, NEW j, NEW k, Good(t, i, j, k)
    PROVE  /\ ~Slashed(t, i, j) => j = i + 1 /\ At(t, i, Open(k))
           /\ Slashed(t, i, j) => j = i + 2 /\ At(t, i, Close(k))
  <1>1. Tag(t, i, j, k)
    BY DEF Good
  <1>2. /\ i \in Nat /\ j \in Nat /\ i < j /\ i \in 1 .. Len(t)
        /\ k \in Kinds
    BY <1>1, TagIs
  <1>3. /\ \A m \in i + 1 .. j - 1 : t[m] = "/"
        /\ \A l, m \in i + 1 .. j - 1 : t[l] = "/" /\ t[m] = "/" => l = m
    BY <1>1 DEF Good, Spaced, Tag, Gap
  <1>4. j = i + 1 \/ (j = i + 2 /\ t[i + 1] = "/")
    <2>1. CASE j > i + 2
      <3>1. i + 1 \in i + 1 .. j - 1 /\ i + 2 \in i + 1 .. j - 1
            /\ i + 1 # i + 2
        BY <1>2, <2>1
      <3> QED
        BY <1>3, <3>1
    <2>2. CASE j = i + 2
      <3>1. i + 1 \in i + 1 .. j - 1
        BY <1>2, <2>2
      <3> QED
        BY <1>3, <2>2, <3>1
    <2>3. j > i + 2 \/ j = i + 2 \/ j = i + 1
      BY <1>2
    <2> QED
      BY <2>1, <2>2, <2>3, Zenon
  <1>5. CASE j = i + 1
    <2>1. ~Slashed(t, i, j)
      BY <1>2, <1>5 DEF Slashed
    <2>2. At(t, i, Open(k))
      BY <1>2, <1>5, OpenIsGood
    <2> QED
      BY <1>5, <2>1, <2>2
  <1>6. CASE j = i + 2 /\ t[i + 1] = "/"
    <2>1. Slashed(t, i, j)
      <3>1. i + 1 \in i + 1 .. j - 1
        BY <1>2, <1>6
      <3> QED
        BY <1>6, <3>1 DEF Slashed
    <2>2. At(t, i, Close(k))
      BY <1>2, <1>6, CloseIsGood
    <2> QED
      BY <1>6, <2>1, <2>2
  <1> QED
    BY <1>4, <1>5, <1>6

-----------------------------------------------------------------------------
(* Candidates *)

StageOf(k, named) ==
    IF ~named THEN IF k.closing THEN "after-slash" ELSE "after-open"
    ELSE IF k.name \in Kinds THEN "after-tag" ELSE "tag"

\* The candidate k is the tag that is being read at n: it begins at i, and
\* its name at j.
Tracks(t, i, j, n, k) ==
    /\ Alive(t, i, j, n) /\ k \in Candidates
    /\ k.read = Part(t, i, n) /\ k.name = Part(t, j, n)
    /\ k.closing <=> Slashed(t, i, j)
    /\ k.exact <=> ~Spaced(t, i, j)
    /\ k.stage = StageOf(k, j <= n)
    /\ (k.boundary /\ ~k.fenced) <=> FramedAt(t, i)

Follows(t, n, k) ==
    \/ k = None /\ NoneAlive(t, n)
    \/ \E i, j : Tracks(t, i, j, n, k)

LEMMA NoPart ==
    ASSUME NEW t, NEW n \in Nat
    PROVE  Part(t, n + 1, n) = << >>
  BY SubSeqEmpty DEF Part

LEMMA PartOne ==
    ASSUME NEW t, IsText(t), NEW n \in 1 .. Len(t)
    PROVE  Part(t, n, n) = <<t[n]>>
  <1>1. n \in 1 .. Len(t) + 1 /\ n \in n - 1 .. Len(t) /\ t[n] \in Symbol
        /\ n - n + 1 = 1 /\ n + 1 - 1 = n
    BY TextIs
  <1>2. /\ IsText(Part(t, n, n)) /\ Len(Part(t, n, n)) = n - n + 1
        /\ \A m \in 1 .. n - n + 1 : Part(t, n, n)[m] = t[n + m - 1]
    BY <1>1, PartIs, Zenon
  <1>3. IsText(<<t[n]>>) /\ Len(<<t[n]>>) = 1 /\ <<t[n]>>[1] = t[n]
    BY <1>1, OneOf DEF IsText
  <1>4. Part(t, n, n)[1] = t[n]
    BY <1>1, <1>2
  <1> QED
    BY <1>1, <1>2, <1>3, <1>4, SameText

LEMMA TrackStarts ==
    ASSUME NEW t, IsText(t), NEW n \in Nat, n + 1 <= Len(t),
           t[n + 1] = "<", NEW a, IsAccumulator(a), LineAt(t, n, a.line)
    PROVE  Tracks(t, n + 1, n + 2, n + 1, Candidate(a))
  <1> DEFINE k == Candidate(a)
  <1>1. k \in Candidates
    BY CandidateType DEF IsCandidate
  <1>2. /\ k.boundary = a.line.boundary /\ k.fenced = Fenced(a.line)
        /\ k.stage = "after-open" /\ k.closing = FALSE /\ k.name = << >>
        /\ k.exact = TRUE /\ k.read = <<"<">>
    BY DEF Candidate
  <1> HIDE DEF k
  <1>3. /\ Alive(t, n + 1, n + 2, n + 1)
        /\ ~Slashed(t, n + 1, n + 2) /\ ~Spaced(t, n + 1, n + 2)
    BY AliveStarts
  <1>4. k.read = Part(t, n + 1, n + 1)
    <2>1. n + 1 \in 1 .. Len(t)
      BY TextIs
    <2> QED
      BY <1>2, <2>1, PartOne
  <1>5. k.name = Part(t, n + 2, n + 1)
    <2>1. n + 1 \in Nat /\ n + 1 + 1 = n + 2
      OBVIOUS
    <2>2. Part(t, n + 1 + 1, n + 1) = << >>
      BY <2>1, NoPart
    <2> QED
      BY <1>2, <2>1, <2>2
  <1>6. k.stage = StageOf(k, n + 2 <= n + 1)
    BY <1>2 DEF StageOf
  <1>7. (k.boundary /\ ~k.fenced) <=> FramedAt(t, n + 1)
    <2>1. a.line \in Lines
      BY DEF IsAccumulator, Accumulators
    <2> QED
      BY <1>2, <2>1, FramedIs
  <1> QED
    BY <1>1, <1>2, <1>3, <1>4, <1>5, <1>6, <1>7 DEF Tracks, k

LEMMA TrackIs ==
    ASSUME NEW t, IsText(t), NEW n \in Nat, n <= Len(t), NEW i, NEW j, NEW k,
           Tracks(t, i, j, n, k)
    PROVE  /\ Alive(t, i, j, n) /\ k \in Candidates /\ k # None
           /\ i \in Nat /\ 0 < i /\ i <= n /\ j \in Nat /\ i < j /\ j <= n + 1
           /\ IsText(k.read) /\ Len(k.read) = n - i + 1
           /\ k.read = Part(t, i, n)
           /\ k.stage \in {"after-open", "after-slash"} <=> j = n + 1
  <1>1. /\ Alive(t, i, j, n) /\ k \in Candidates /\ k.read = Part(t, i, n)
        /\ k.stage = StageOf(k, j <= n)
    BY DEF Tracks
  <1>2. k # None
    BY <1>1, NoneAssumption
  <1>3. i \in Nat /\ 0 < i /\ i <= n /\ j \in Nat /\ i < j /\ j <= n + 1
    BY <1>1, AliveSymbols
  <1>4. i \in 1 .. Len(t) + 1 /\ n \in i - 1 .. Len(t)
    BY <1>3, TextIs
  <1>5. IsText(k.read) /\ Len(k.read) = n - i + 1
    BY <1>1, <1>4, PartIs
  <1>6. k.stage \in {"after-open", "after-slash"} <=> ~(j <= n)
    BY <1>1 DEF StageOf
  <1> QED
    BY <1>1, <1>2, <1>3, <1>5, <1>6

LEMMA TrackRead ==
    ASSUME NEW t, IsText(t), NEW n \in Nat, n + 1 <= Len(t), NEW i, NEW j,
           NEW k, Tracks(t, i, j, n, k)
    PROVE  /\ Append(k.read, t[n + 1]) = Part(t, i, n + 1)
           /\ Append(k.name, t[n + 1]) = Part(t, j, n + 1)
  <1>1. /\ i \in Nat \ {0} /\ i <= n + 1 /\ j \in Nat \ {0} /\ j <= n + 1
    <2>1. n <= Len(t)
      BY TextIs
    <2> QED
      BY <2>1, TrackIs
  <1>2. k.read = Part(t, i, n) /\ k.name = Part(t, j, n)
    BY DEF Tracks
  <1> QED
    BY <1>1, <1>2, PartOn

LEMMA TrackBlank ==
    ASSUME NEW t, IsText(t), NEW n \in Nat, n + 1 <= Len(t), NEW i, NEW j,
           NEW k, Tracks(t, i, j, n, k), j = n + 1,
           NEW c, c = t[n + 1], c \in White \union {"/"},
           c = "/" => ~k.closing,
           NEW g \in Candidates, g.read = Append(k.read, c), g.name = k.name,
           g.closing <=> k.closing \/ c = "/",
           g.exact <=> k.exact /\ c \notin White,
           g.boundary = k.boundary, g.fenced = k.fenced,
           g.stage = IF g.closing THEN "after-slash" ELSE "after-open"
    PROVE  Tracks(t, i, n + 2, n + 1, g)
  <1>1. /\ Alive(t, i, n + 1, n) /\ k.name = Part(t, n + 1, n)
        /\ k.closing <=> Slashed(t, i, n + 1)
        /\ k.exact <=> ~Spaced(t, i, n + 1)
        /\ (k.boundary /\ ~k.fenced) <=> FramedAt(t, i)
    BY DEF Tracks
  <1>2. /\ Alive(t, i, n + 2, n + 1)
        /\ Slashed(t, i, n + 2) <=> Slashed(t, i, n + 1) \/ c = "/"
        /\ Spaced(t, i, n + 2) <=> Spaced(t, i, n + 1) \/ c \in White
    BY <1>1, AliveBlank
  <1>3. g.read = Part(t, i, n + 1)
    BY TrackRead
  <1>4. g.name = Part(t, n + 2, n + 1)
    <2>1. n + 1 \in Nat /\ n + 1 + 1 = n + 2
      OBVIOUS
    <2>2. Part(t, n + 1 + 1, n + 1) = << >> /\ Part(t, n + 1, n) = << >>
      BY <2>1, NoPart
    <2> QED
      BY <1>1, <2>1, <2>2
  <1>5. g.stage = StageOf(g, n + 2 <= n + 1)
    BY DEF StageOf
  <1> QED
    BY <1>1, <1>2, <1>3, <1>4, <1>5 DEF Tracks

LEMMA TrackNamed ==
    ASSUME NEW t, IsText(t), NEW n \in Nat, n + 1 <= Len(t), NEW i, NEW j,
           NEW k, Tracks(t, i, j, n, k),
           NEW c, c = t[n + 1],
           NEW g \in Candidates, g.read = Append(k.read, c),
           g.name = Append(k.name, c),
           g.closing = k.closing, g.exact = k.exact,
           g.boundary = k.boundary, g.fenced = k.fenced, g.stage = "tag"
    PROVE  j = n + 1 /\ c = "p" => Tracks(t, i, j, n + 1, g)
  <1>0. g.read = Part(t, i, n + 1) /\ g.name = Part(t, j, n + 1)
    BY TrackRead
  <1> HAVE j = n + 1 /\ c = "p"
  <1>1. /\ Alive(t, i, n + 1, n)
        /\ k.closing <=> Slashed(t, i, n + 1)
        /\ k.exact <=> ~Spaced(t, i, n + 1)
        /\ (k.boundary /\ ~k.fenced) <=> FramedAt(t, i)
    BY DEF Tracks
  <1>2. Alive(t, i, n + 1, n + 1)
    BY <1>1, AliveNamed
  <1>3. g.read = Part(t, i, n + 1) /\ g.name = Part(t, n + 1, n + 1)
    BY <1>0
  <1>4. g.name \notin Kinds
    <2>1. n + 1 \in 1 .. Len(t) /\ t[n + 1] \in Symbol
      <3>1. Len(t) \in Nat /\ \A m \in 1 .. Len(t) : t[m] \in Symbol
        BY TextIs
      <3>2. n + 1 \in 1 .. Len(t)
        BY <3>1
      <3> QED
        BY <3>1, <3>2
    <2>2. Part(t, n + 1, n + 1) = <<t[n + 1]>>
      BY <2>1, PartOne
    <2>3. Len(g.name) = 1
      BY <1>3, <2>1, <2>2, OneOf
    <2>4. \A l \in Kinds : Len(l) # 1
      BY KindIs
    <2> QED
      BY <2>3, <2>4
  <1>5. g.stage = StageOf(g, n + 1 <= n + 1)
    BY <1>4 DEF StageOf
  <1> QED
    BY <1>1, <1>2, <1>3, <1>5 DEF Tracks

LEMMA TrackLonger ==
    ASSUME NEW t, IsText(t), NEW n \in Nat, n + 1 <= Len(t), NEW i, NEW j,
           NEW k, Tracks(t, i, j, n, k), j <= n, NEW c, c = t[n + 1],
           NEW l \in Kinds, IsPrefix(Append(k.name, c), l),
           NEW g \in Candidates, g.read = Append(k.read, c),
           g.name = Append(k.name, c),
           g.closing = k.closing, g.exact = k.exact,
           g.boundary = k.boundary, g.fenced = k.fenced,
           g.stage = IF g.name \in Kinds THEN "after-tag" ELSE "tag"
    PROVE  Tracks(t, i, j, n + 1, g)
  <1>1. /\ Alive(t, i, j, n)
        /\ k.closing <=> Slashed(t, i, j)
        /\ k.exact <=> ~Spaced(t, i, j)
        /\ (k.boundary /\ ~k.fenced) <=> FramedAt(t, i)
    BY DEF Tracks
  <1>2. g.read = Part(t, i, n + 1) /\ g.name = Part(t, j, n + 1)
    BY TrackRead
  <1>3. j \in Nat \ {0} /\ n + 1 \in Nat /\ j <= n + 1 + 1
    BY <1>1, AliveSymbols
  <1>4. NamedTo(t, j, n + 1, l)
    BY <1>2, <1>3, KindIs, NameIs
  <1>5. Alive(t, i, j, n + 1)
    BY <1>1, <1>4, AliveLonger
  <1>6. g.stage = StageOf(g, j <= n + 1)
    <2>1. j <= n + 1
      BY <1>3
    <2> QED
      BY <2>1 DEF StageOf
  <1> QED
    BY <1>1, <1>2, <1>5, <1>6 DEF Tracks

-----------------------------------------------------------------------------
(* One symbol *)

\* Where the candidate of an accumulator that read n symbols begins.
Held(k, n) == IF k = None THEN n + 1 ELSE n + 1 - Len(k.read)

\* The body goes on with what is no longer held.
Grows(t, n, a, z) ==
    \A b \in Nat \ {0} :
        /\ a.active # None /\ b <= Held(a.candidate, n)
        /\ a.body = Part(t, b, Held(a.candidate, n) - 1)
        => /\ b <= Held(z.candidate, n + 1)
           /\ z.body = Part(t, b, Held(z.candidate, n + 1) - 1)

Same(a, z) ==
    /\ z.active = a.active /\ z.done = a.done /\ z.framed = a.framed
    /\ z.blocks = a.blocks

\* No exact tag ends with symbol n + 1.
Quietly(t, n, a, z) ==
    /\ Same(a, z) /\ z.tags = a.tags /\ Grows(t, n, a, z)
    /\ Exact(t, n + 1) = Exact(t, n)
    /\ \/ z.malformed = a.malformed /\ (Spoilt(t, n + 1) <=> Spoilt(t, n))
       \/ z.malformed = TRUE /\ Spoilt(t, n + 1)

\* The exact tag that begins at i ends, and closes a block, opens one, or is
\* part of it, or of what lies before or behind it.
Closes(t, a, z, i, j, k) ==
    /\ Slashed(t, i, j) /\ a.active = k
    /\ z.done = [kind |-> k, body |-> Strip(a.body)]
    /\ z.blocks = a.blocks + 1 /\ z.active = None /\ z.framed = a.framed

Starts(t, a, z, i, j, k) ==
    /\ ~Slashed(t, i, j) /\ a.active = None
    /\ z.active = k /\ z.body = << >>
    /\ z.framed <=> FramedAt(t, i)
    /\ z.done = a.done /\ z.blocks = a.blocks

Passes(t, n, a, z, i, j, k) ==
    /\ Slashed(t, i, j) => a.active # k
    /\ ~Slashed(t, i, j) => a.active # None
    /\ Same(a, z) /\ Grows(t, n, a, z)

Ends(t, n, a, z, i, j, k) ==
    /\ Good(t, i, j, k) /\ j + Len(k) = n + 1
    /\ i = Held(a.candidate, n) /\ z.candidate = None
    /\ z.tags = a.tags + 1 /\ z.malformed = a.malformed
    /\ Exact(t, n + 1) = Exact(t, n) \union {i}
    /\ Spoilt(t, n + 1) <=> Spoilt(t, n)
    /\ \/ Closes(t, a, z, i, j, k) \/ Starts(t, a, z, i, j, k)
       \/ Passes(t, n, a, z, i, j, k)

StepsTo(t, n, a, z) ==
    /\ Follows(t, n + 1, z.candidate)
    /\ \/ Quietly(t, n, a, z) \/ \E i, j, k : Ends(t, n, a, z, i, j, k)

LEMMA HeldIs ==
    ASSUME NEW t, IsText(t), NEW n \in Nat, n <= Len(t)
    PROVE  /\ Held(None, n) = n + 1
           /\ \A i, j, k : Tracks(t, i, j, n, k) => Held(k, n) = i
  <1>1. ASSUME NEW i, NEW j, NEW k, Tracks(t, i, j, n, k)
        PROVE  Held(k, n) = i
    <2>1. k # None /\ i \in Nat /\ Len(k.read) = n - i + 1
      BY <1>1, TrackIs
    <2> QED
      BY <2>1 DEF Held
  <1> QED
    BY <1>1 DEF Held

LEMMA BodyGrows ==
    ASSUME NEW t, IsText(t), NEW n \in Nat, n + 1 <= Len(t),
           NEW a, NEW z, NEW h \in Nat \ {0}, h = Held(a.candidate, n),
           NEW m \in Nat, m = Held(z.candidate, n + 1), h <= m, m <= n + 2,
           z.body = InBody(a, Part(t, h, m - 1))
    PROVE  Grows(t, n, a, z)
  <1> SUFFICES ASSUME NEW b \in Nat \ {0}, a.active # None, b <= h,
                      a.body = Part(t, b, h - 1)
               PROVE  b <= m /\ z.body = Part(t, b, m - 1)
    BY DEF Grows
  <1>1. z.body = Cat(Part(t, b, h - 1), Part(t, h, m - 1))
    BY DEF InBody, Cat
  <1> DEFINE p == h - 1
             q == m - 1
  <1>2. /\ b \in 1 .. Len(t) + 1 /\ p \in b - 1 .. Len(t)
        /\ q \in p .. Len(t) /\ p + 1 = h
    BY TextIs, SMTT(30)
  <1> HIDE DEF p, q
  <1>3. Cat(Part(t, b, p), Part(t, p + 1, q)) = Part(t, b, q)
    BY <1>2, PartCat
  <1>4. z.body = Part(t, b, q)
    BY <1>1, <1>2, <1>3 DEF p, q
  <1>5. b <= m
    OBVIOUS
  <1> QED
    BY <1>4, <1>5 DEF q

LEMMA BodyStays ==
    ASSUME NEW t, NEW n, NEW a, NEW z, z.body = a.body,
           Held(z.candidate, n + 1) = Held(a.candidate, n)
    PROVE  Grows(t, n, a, z)
  BY DEF Grows

LEMMA NoneFollows ==
    ASSUME NEW t, NEW n, Follows(t, n, None)
    PROVE  NoneAlive(t, n)
  BY NoneAssumption DEF Follows, Tracks

LEMMA NoneEnds ==
    ASSUME NEW t, IsText(t), NEW n \in Nat,
           \/ NoneAlive(t, n)
           \/ \E i, j, k : Tracks(t, i, j, n, k) /\ k.stage # "after-tag"
    PROVE  Exact(t, n + 1) = Exact(t, n) /\ (Spoilt(t, n + 1) <=> Spoilt(t, n))
  <1>1. ASSUME NEW x, NEW y, NEW l, Tag(t, x, y, l), y + Len(l) = n + 1
        PROVE  FALSE
    <2>1. Alive(t, x, y, n) /\ y <= n /\ Part(t, y, n) = l /\ l \in Kinds
      BY <1>1, TagAlive, TagIs
    <2>2. PICK i, j, k : Tracks(t, i, j, n, k) /\ k.stage # "after-tag"
      BY <2>1 DEF NoneAlive
    <2>3. x = i /\ y = j
      <3>1. Alive(t, i, j, n)
        BY <2>2 DEF Tracks
      <3> QED
        BY <2>1, <3>1, OneAlive, Zenon
    <2>4. k.stage = StageOf(k, y <= n) /\ k.name = l
      BY <2>1, <2>2, <2>3 DEF Tracks
    <2> QED
      BY <2>1, <2>2, <2>4 DEF StageOf
  <1>2. \A i, j, k : Tag(t, i, j, k) => j + Len(k) # n + 1
    BY <1>1
  <1> QED
    BY <1>2, NoTagEnds

LEMMA PlainStep ==
    ASSUME NEW t, IsText(t), NEW n \in Nat, n + 1 <= Len(t),
           NEW a, IsAccumulator(a), a.candidate = None, NoneAlive(t, n),
           t[n + 1] # "<",
           NEW z, z = [a EXCEPT !.body = InBody(a, <<t[n + 1]>>)]
    PROVE  StepsTo(t, n, a, z)
  <1>1. a \in Accumulators
    BY DEF IsAccumulator
  <1>2. /\ z.candidate = None /\ Same(a, z) /\ z.tags = a.tags
        /\ z.malformed = a.malformed /\ z.body = InBody(a, <<t[n + 1]>>)
    BY <1>1 DEF Accumulators, Same
  <1>3. Grows(t, n, a, z)
    <2>1. n + 1 \in 1 .. Len(t) /\ n + 1 + 1 = n + 2 /\ n + 2 - 1 = n + 1
      BY TextIs
    <2>2. Part(t, n + 1, n + 1) = <<t[n + 1]>>
      BY <2>1, PartOne
    <2>3. /\ Held(a.candidate, n) = n + 1
          /\ Held(z.candidate, n + 1) = n + 2
      BY <1>2 DEF Held
    <2>4. z.body = InBody(a, Part(t, n + 1, n + 2 - 1))
      BY <1>2, <2>1, <2>2
    <2> DEFINE h == n + 1
               m == n + 2
    <2>5. /\ h \in Nat \ {0} /\ m \in Nat /\ h <= m /\ m <= n + 2
          /\ h = Held(a.candidate, n) /\ m = Held(z.candidate, n + 1)
          /\ z.body = InBody(a, Part(t, h, m - 1))
      BY <2>3, <2>4
    <2> HIDE DEF h, m
    <2> QED
      BY <2>5, BodyGrows
  <1>4. NoneAlive(t, n + 1)
    BY StillNone
  <1>5. Exact(t, n + 1) = Exact(t, n) /\ (Spoilt(t, n + 1) <=> Spoilt(t, n))
    BY NoneEnds
  <1> QED
    BY <1>2, <1>3, <1>4, <1>5 DEF StepsTo, Follows, Quietly

LEMMA StartStep ==
    ASSUME NEW t, IsText(t), NEW n \in Nat, n + 1 <= Len(t),
           NEW a, IsAccumulator(a), a.candidate = None, NoneAlive(t, n),
           LineAt(t, n, a.line), t[n + 1] = "<",
           NEW z, z = [a EXCEPT !.candidate = Candidate(a)]
    PROVE  StepsTo(t, n, a, z)
  <1>1. a \in Accumulators
    BY DEF IsAccumulator
  <1>2. /\ z.candidate = Candidate(a) /\ Same(a, z) /\ z.tags = a.tags
        /\ z.malformed = a.malformed /\ z.body = a.body
    BY <1>1 DEF Accumulators, Same
  <1>3. Tracks(t, n + 1, n + 2, n + 1, z.candidate)
    BY <1>2, TrackStarts
  <1>4. Grows(t, n, a, z)
    <2>1. n + 1 \in Nat /\ n + 1 <= Len(t)
      OBVIOUS
    <2>2. Held(z.candidate, n + 1) = n + 1
      BY <1>3, <2>1, HeldIs
    <2>3. Held(a.candidate, n) = n + 1
      BY DEF Held
    <2> QED
      BY <1>2, <2>2, <2>3, BodyStays
  <1>5. Exact(t, n + 1) = Exact(t, n) /\ (Spoilt(t, n + 1) <=> Spoilt(t, n))
    BY NoneEnds
  <1> QED
    BY <1>2, <1>3, <1>4, <1>5 DEF StepsTo, Follows, Quietly

LEMMA ContinueStep ==
    ASSUME NEW t, IsText(t), NEW n \in Nat, n + 1 <= Len(t),
           NEW a, IsAccumulator(a), NEW i, NEW j,
           Tracks(t, i, j, n, a.candidate), a.candidate.stage # "after-tag",
           NEW y, NEW g, Tracks(t, i, y, n + 1, g),
           NEW z, z = [a EXCEPT !.candidate = g]
    PROVE  StepsTo(t, n, a, z)
  <1>1. a \in Accumulators
    BY DEF IsAccumulator
  <1>2. /\ z.candidate = g /\ Same(a, z) /\ z.tags = a.tags
        /\ z.malformed = a.malformed /\ z.body = a.body
    BY <1>1 DEF Accumulators, Same
  <1>3. Grows(t, n, a, z)
    <2>1. n + 1 \in Nat /\ n <= Len(t)
      BY TextIs
    <2>2. Held(a.candidate, n) = i
      BY <2>1, HeldIs
    <2>3. Held(g, n + 1) = i
      BY <2>1, HeldIs
    <2> QED
      BY <1>2, <2>2, <2>3, BodyStays
  <1>4. Exact(t, n + 1) = Exact(t, n) /\ (Spoilt(t, n + 1) <=> Spoilt(t, n))
    BY NoneEnds
  <1>5. Follows(t, n + 1, z.candidate)
    BY <1>2 DEF Follows
  <1> QED
    BY <1>2, <1>3, <1>4, <1>5 DEF StepsTo, Quietly

\* The body with all that was held, up to symbol n + 1.
LEMMA ReleaseGrows ==
    ASSUME NEW t, IsText(t), NEW n \in Nat, n + 1 <= Len(t),
           NEW a, NEW i, NEW j, Tracks(t, i, j, n, a.candidate),
           NEW z, z.candidate = None, z.body = InBody(a, Part(t, i, n + 1))
    PROVE  Grows(t, n, a, z)
  <1> DEFINE m == n + 2
  <1>1. n <= Len(t)
    BY TextIs
  <1>2. i \in Nat /\ 0 < i /\ i <= n /\ Held(a.candidate, n) = i
    BY <1>1, TrackIs, HeldIs
  <1>3. /\ i \in Nat \ {0} /\ m \in Nat /\ i <= m /\ m <= n + 2
        /\ m - 1 = n + 1 /\ n + 1 + 1 = m
    BY <1>2
  <1>4. Held(z.candidate, n + 1) = m
    BY <1>3 DEF Held
  <1> HIDE DEF m
  <1> QED
    BY <1>2, <1>3, <1>4, BodyGrows

LEMMA FrontIs ==
    ASSUME NEW t, IsText(t), NEW n \in Nat, n + 1 <= Len(t),
           NEW i \in Nat \ {0}, i <= n
    PROVE  Front(Part(t, i, n + 1)) = Part(t, i, n)
  <1> DEFINE m == n + 1
             b == n - i + 1
  <1>1. /\ i \in 1 .. Len(t) + 1 /\ m \in i - 1 .. Len(t)
        /\ 1 \in 1 .. m - i + 2 /\ b \in 1 - 1 .. m - i + 1
        /\ m - i + 1 - 1 = b /\ i + 1 - 1 = i /\ i + b - 1 = n
    BY TextIs
  <1> HIDE DEF m, b
  <1>2. Len(Part(t, i, m)) = m - i + 1
    BY <1>1, PartIs
  <1>3. Part(Part(t, i, m), 1, b) = Part(t, i + 1 - 1, i + b - 1)
    BY <1>1, PartOfPart
  <1> QED
    BY <1>1, <1>2, <1>3 DEF Front, Part, m

LEMMA FailStep ==
    ASSUME NEW t, IsText(t), NEW n \in Nat, n + 1 <= Len(t),
           NEW a, IsAccumulator(a), LineAt(t, n, a.line), NEW i, NEW j,
           Tracks(t, i, j, n, a.candidate),
           NEW c, c = t[n + 1], c # "<" => NoneAlive(t, n + 1),
           Exact(t, n + 1) = Exact(t, n), Spoilt(t, n + 1) <=> Spoilt(t, n),
           NEW k, k.read = Part(t, i, n + 1),
           NEW z, z = FailCandidate(a, k, c)
    PROVE  StepsTo(t, n, a, z)
  <1>1. a \in Accumulators /\ n <= Len(t)
    BY TextIs DEF IsAccumulator
  <1>2. i \in Nat /\ 0 < i /\ i <= n /\ Held(a.candidate, n) = i
    BY <1>1, TrackIs, HeldIs
  <1>3. CASE c = "<"
    <2>1. z = [a EXCEPT !.candidate = Candidate(a),
                        !.body = InBody(a, Front(k.read))]
      BY <1>3 DEF FailCandidate
    <2>2. /\ z.candidate = Candidate(a) /\ Same(a, z) /\ z.tags = a.tags
          /\ z.malformed = a.malformed /\ z.body = InBody(a, Front(k.read))
      BY <1>1, <2>1 DEF Accumulators, Same
    <2>3. Tracks(t, n + 1, n + 2, n + 1, z.candidate)
      BY <1>3, <2>2, TrackStarts
    <2>4. Grows(t, n, a, z)
      <3> DEFINE m == n + 1
      <3>1. m \in Nat /\ m - 1 = n /\ i <= m /\ m <= n + 2 /\ i \in Nat \ {0}
        BY <1>2
      <3>2. Held(z.candidate, n + 1) = m
        BY <2>3, <3>1, HeldIs
      <3>3. z.body = InBody(a, Part(t, i, m - 1))
        BY <2>2, <3>1, FrontIs, <1>2
      <3> HIDE DEF m
      <3> QED
        BY <1>2, <3>1, <3>2, <3>3, BodyGrows
    <2> QED
      BY <2>2, <2>3, <2>4 DEF StepsTo, Quietly, Follows
  <1>4. CASE c # "<"
    <2>1. z = [a EXCEPT !.candidate = None, !.body = InBody(a, k.read)]
      BY <1>4 DEF FailCandidate
    <2>2. /\ z.candidate = None /\ Same(a, z) /\ z.tags = a.tags
          /\ z.malformed = a.malformed /\ z.body = InBody(a, k.read)
      BY <1>1, <2>1 DEF Accumulators, Same
    <2>3. Grows(t, n, a, z)
      BY <2>2, ReleaseGrows
    <2> QED
      BY <1>4, <2>2, <2>3 DEF StepsTo, Quietly, Follows
  <1> QED
    BY <1>3, <1>4

\* The name of a tag that is being read is complete.
LEMMA NameEnds ==
    ASSUME NEW t, IsText(t), NEW n \in Nat, n + 1 <= Len(t),
           NEW i, NEW j, NEW k, Tracks(t, i, j, n, k), k.stage = "after-tag",
           NEW c, c = t[n + 1]
    PROVE  /\ Tag(t, i, j, k.name) /\ j + Len(k.name) = n + 1
           /\ Good(t, i, j, k.name) <=> c = ">" /\ k.exact
           /\ Bad(t, i, j, k.name) <=> /\ c \in White \union {"/", ">"}
                                       /\ ~(c = ">" /\ k.exact)
           /\ c # "<" => NoneAlive(t, n + 1)
  <1> DEFINE l == k.name
  <1>1. /\ Alive(t, i, j, n) /\ l = Part(t, j, n)
        /\ k.exact <=> ~Spaced(t, i, j)
        /\ k.stage = StageOf(k, j <= n)
    BY DEF Tracks
  <1>2. l \in Kinds /\ j <= n /\ n <= Len(t)
    BY <1>1, TextIs DEF StageOf
  <1> HIDE DEF l
  <1>3. Tag(t, i, j, l) /\ j + Len(l) = n + 1
    BY <1>1, <1>2, AliveTag
  <1>4. Good(t, i, j, l) <=> c = ">" /\ k.exact
    BY <1>1, <1>3 DEF Good
  <1>5. Bad(t, i, j, l) <=> /\ c \in White \union {"/", ">"}
                            /\ ~(c = ">" /\ k.exact)
    BY <1>3, <1>4 DEF Bad
  <1>6. ASSUME NEW q \in Kinds, NamedTo(t, j, n + 1, q)
        PROVE  FALSE
    <2>1. /\ j \in Nat \ {0} /\ j <= n + 1 /\ IsText(q) /\ Len(q) \in Nat
          /\ IsText(l) /\ Len(l) \in Nat
      BY <1>1, <1>2, AliveSymbols, KindIs
    <2>2. (n + 1) - j + 1 <= Len(q)
      BY <1>6 DEF NamedTo
    <2>3. NamedTo(t, j, n, q)
      <3>1. /\ \A m \in 1 .. (n + 1) - j + 1 : t[j + m - 1] = q[m]
        BY <1>6 DEF NamedTo
      <3>2. /\ \A m \in 1 .. n - j + 1 : m \in 1 .. (n + 1) - j + 1
            /\ n - j + 1 <= Len(q)
        BY <2>1, <2>2
      <3> QED
        BY <3>1, <3>2 DEF NamedTo
    <2>4. IsPrefix(l, q)
      BY <1>1, <1>2, <2>1, <2>3, NameIs
    <2>5. l = q
      BY <1>2, <2>4, MarkerAssumption
    <2> QED
      BY <1>3, <2>1, <2>2, <2>5
  <1>7. c # "<" => NoneAlive(t, n + 1)
    <2>1. j # n + 1
      BY <1>1, <1>2, AliveSymbols
    <2>2. \A q \in Kinds : ~NamedTo(t, j, n + 1, q)
      BY <1>6
    <2> QED
      BY <1>1, <2>1, <2>2, AliveEnds
  <1> QED
    BY <1>3, <1>4, <1>5, <1>7 DEF l

LEMMA SpoilStep ==
    ASSUME NEW t, IsText(t), NEW n \in Nat, n + 1 <= Len(t),
           NEW a, IsAccumulator(a), NEW i, NEW j,
           Tracks(t, i, j, n, a.candidate), a.candidate.stage = "after-tag",
           NEW c, c = t[n + 1], c \in White \union {"/", ">"},
           ~(c = ">" /\ a.candidate.exact),
           NEW k, k.read = Part(t, i, n + 1),
           NEW z, z = [a EXCEPT !.candidate = None, !.malformed = TRUE,
                                !.body = InBody(a, k.read)]
    PROVE  StepsTo(t, n, a, z)
  <1>1. a \in Accumulators
    BY DEF IsAccumulator
  <1>2. /\ z.candidate = None /\ Same(a, z) /\ z.tags = a.tags
        /\ z.malformed = TRUE /\ z.body = InBody(a, k.read)
    BY <1>1 DEF Accumulators, Same
  <1>3. Grows(t, n, a, z)
    BY <1>2, ReleaseGrows, ZenonT(40)
  <1> DEFINE l == a.candidate.name
  <1>4. c # "<"
    BY DEF White
  <1>5. /\ Tag(t, i, j, l) /\ j + Len(l) = n + 1
        /\ ~Good(t, i, j, l) /\ Bad(t, i, j, l) /\ NoneAlive(t, n + 1)
    BY <1>4, NameEnds
  <1>6. Exact(t, n + 1) = Exact(t, n) /\ Spoilt(t, n + 1)
    BY <1>5, TagEnds
  <1> QED
    BY <1>2, <1>3, <1>5, <1>6 DEF StepsTo, Follows, Quietly

LEMMA AcceptStep ==
    ASSUME NEW t, IsText(t), NEW n \in Nat, n + 1 <= Len(t),
           NEW a, IsAccumulator(a), NEW i, NEW j,
           Tracks(t, i, j, n, a.candidate), a.candidate.stage = "after-tag",
           t[n + 1] = ">", a.candidate.exact,
           NEW k, k.read = Part(t, i, n + 1), k.name = a.candidate.name,
           k.closing = a.candidate.closing,
           k.boundary = a.candidate.boundary, k.fenced = a.candidate.fenced,
           NEW z, z = AcceptExactTag(a, k)
    PROVE  StepsTo(t, n, a, z)
  <1> DEFINE b == [a EXCEPT !.candidate = None, !.tags = @ + 1]
             l == k.name
  <1>1. a \in Accumulators
    BY DEF IsAccumulator
  <1>2. /\ b.candidate = None /\ b.tags = a.tags + 1
        /\ b.malformed = a.malformed /\ b.active = a.active
        /\ b.body = a.body /\ b.done = a.done /\ b.framed = a.framed
        /\ b.blocks = a.blocks
    BY <1>1 DEF Accumulators
  <1>3. /\ Tag(t, i, j, l) /\ j + Len(l) = n + 1 /\ Good(t, i, j, l)
        /\ NoneAlive(t, n + 1)
    BY NameEnds
  <1>4. /\ Exact(t, n + 1) = Exact(t, n) \union {i}
        /\ Spoilt(t, n + 1) <=> Spoilt(t, n)
    BY <1>3, TagEnds
  <1>5. /\ k.closing <=> Slashed(t, i, j)
        /\ (k.boundary /\ ~k.fenced) <=> FramedAt(t, i)
    BY DEF Tracks
  <1>6. Held(a.candidate, n) = i
    BY HeldIs, TextIs
  <1>7. ASSUME z.candidate = None, z.tags = a.tags + 1,
               z.malformed = a.malformed,
               \/ Closes(t, a, z, i, j, l) \/ Starts(t, a, z, i, j, l)
               \/ Passes(t, n, a, z, i, j, l)
        PROVE  StepsTo(t, n, a, z)
    BY <1>3, <1>4, <1>6, <1>7 DEF StepsTo, Follows, Ends
  <1>8. CASE k.closing /\ a.active = l
    <2> DEFINE r == [kind |-> l, body |-> Strip(a.body)]
    <2>1. z = [b EXCEPT !.done = r, !.blocks = @ + 1, !.active = None,
                        !.body = << >>]
      BY <1>8 DEF AcceptExactTag
    <2> HIDE DEF r
    <2>2. /\ z.candidate = None /\ z.tags = a.tags + 1
          /\ z.malformed = a.malformed
          /\ z.done = r /\ z.blocks = a.blocks + 1 /\ z.active = None
          /\ z.framed = a.framed
      BY <1>1, <2>1 DEF Accumulators
    <2>3. Closes(t, a, z, i, j, l)
      BY <1>5, <1>8, <2>2 DEF Closes, r
    <2> QED
      BY <1>7, <2>2, <2>3
  <1>9. CASE ~k.closing /\ a.active = None
    <2>1. z = [b EXCEPT !.active = l, !.body = << >>,
                        !.framed = k.boundary /\ ~k.fenced]
      BY <1>9 DEF AcceptExactTag
    <2>2. /\ z.candidate = None /\ z.tags = a.tags + 1
          /\ z.malformed = a.malformed
          /\ z.active = l /\ z.body = << >> /\ z.done = a.done
          /\ z.framed = (k.boundary /\ ~k.fenced) /\ z.blocks = a.blocks
      BY <1>1, <2>1 DEF Accumulators
    <2>3. Starts(t, a, z, i, j, l)
      BY <1>5, <1>9, <2>2 DEF Starts
    <2> QED
      BY <1>7, <2>2, <2>3
  <1>10. CASE ~(k.closing /\ a.active = l) /\ ~(~k.closing /\ a.active = None)
    <2>1. z = [b EXCEPT !.body = InBody(a, k.read)]
      BY <1>10 DEF AcceptExactTag
    <2>2. /\ z.candidate = None /\ z.tags = a.tags + 1
          /\ z.malformed = a.malformed
          /\ z.body = InBody(a, k.read) /\ Same(a, z)
      BY <1>1, <2>1 DEF Accumulators, Same
    <2>3. Grows(t, n, a, z)
      BY <2>2, ReleaseGrows
    <2>4. Passes(t, n, a, z, i, j, l)
      <3>1. k.closing \in BOOLEAN
        BY DEF Tracks, Candidates
      <3> QED
        BY <1>5, <1>10, <2>2, <2>3, <3>1 DEF Passes
    <2> QED
      BY <1>7, <2>2, <2>4
  <1> QED
    BY <1>8, <1>9, <1>10

LEMMA ConsumeStep ==
    ASSUME NEW t, IsText(t), NEW n \in Nat, n + 1 <= Len(t),
           NEW a, IsAccumulator(a), LineAt(t, n, a.line), NEW i, NEW j,
           Tracks(t, i, j, n, a.candidate), NEW c, c = t[n + 1],
           NEW k, k = [a.candidate EXCEPT !.read = Append(@, c)]
    PROVE  StepsTo(t, n, a, ConsumeTag(a, k, c))
  <1> DEFINE h == a.candidate
             r == Append(h.read, c)
             name == Append(h.name, c)
             z == ConsumeTag(a, k, c)
             S == {"after-open", "after-slash"}
  <1>1. n <= Len(t)
    BY TextIs
  <1>2. /\ h \in Candidates /\ Alive(t, i, j, n) /\ j \in Nat /\ j <= n + 1
        /\ h.stage \in S <=> j = n + 1
    BY <1>1, TrackIs
  <1>3. r = Part(t, i, n + 1) /\ name = Part(t, j, n + 1)
    BY TrackRead, SMTT(40)
  <1>4. c \in Symbol
    <2>1. n + 1 \in 1 .. Len(t)
      BY TextIs
    <2> QED
      BY <2>1, TextIs
  <1>5. /\ h.closing \in BOOLEAN /\ h.exact \in BOOLEAN
        /\ h.read \in Seq(Symbol) /\ h.name \in Seq(Symbol)
        /\ h.stage \in S \union {"tag", "after-tag"}
    BY <1>2 DEF Candidates
  <1>6. r \in Seq(Symbol) /\ name \in Seq(Symbol)
    BY <1>4, <1>5, AppendProperties
  <1>7. k = [h EXCEPT !.read = r]
    BY <1>2 DEF Candidates
  <1> HIDE DEF r, name
  <1>8. k \in Candidates
    BY <1>2, <1>6, <1>7 DEF Candidates
  <1>9. /\ k.read = r /\ k.name = h.name /\ k.stage = h.stage
        /\ k.closing = h.closing /\ k.exact = h.exact
        /\ k.boundary = h.boundary /\ k.fenced = h.fenced
    BY <1>2, <1>7 DEF Candidates
  <1>10. h.closing <=> Slashed(t, i, j)
    BY DEF Tracks
  <1>11. ASSUME c # "<" => NoneAlive(t, n + 1),
                Exact(t, n + 1) = Exact(t, n), Spoilt(t, n + 1) <=> Spoilt(t, n),
                z = FailCandidate(a, k, c)
         PROVE  StepsTo(t, n, a, z)
    BY <1>3, <1>9, <1>11, FailStep
  <1>12. ASSUME h.stage # "after-tag", NEW y, NEW g, Tracks(t, i, y, n + 1, g),
                z = [a EXCEPT !.candidate = g]
         PROVE  StepsTo(t, n, a, z)
    BY <1>12, ContinueStep
  <1>13. CASE h.stage \in S
    <2>0. k.stage \in S /\ j = n + 1 /\ h.stage # "after-tag"
      BY <1>2, <1>9, <1>13
    <2>1. CASE c \in White
      <3> DEFINE g == [k EXCEPT !.exact = FALSE]
      <3>1. z = [a EXCEPT !.candidate = g]
        BY <2>0, <2>1 DEF ConsumeTag
      <3>2. /\ g \in Candidates /\ g.read = r /\ g.name = h.name
            /\ g.closing = h.closing /\ g.exact = FALSE
            /\ g.boundary = h.boundary /\ g.fenced = h.fenced
            /\ g.stage = h.stage
        BY <1>8, <1>9 DEF Candidates
      <3> HIDE DEF g
      <3>3. h.stage = IF h.closing THEN "after-slash" ELSE "after-open"
        BY <1>13 DEF Tracks, StageOf
      <3>4. c # "/" /\ c \in White \union {"/"}
        BY <2>1 DEF White
      <3>5. /\ g.closing <=> h.closing \/ c = "/"
            /\ g.exact <=> h.exact /\ c \notin White
            /\ g.read = Append(h.read, c)
            /\ g.stage = IF g.closing THEN "after-slash" ELSE "after-open"
        BY <1>5, <2>1, <3>2, <3>3, <3>4 DEF r
      <3>6. Tracks(t, i, n + 2, n + 1, g)
        BY <2>0, <3>2, <3>4, <3>5, TrackBlank, Zenon
      <3> QED
        BY <1>12, <2>0, <3>1, <3>6
    <2>2. CASE c = "/" /\ h.stage = "after-open"
      <3> DEFINE g == [k EXCEPT !.closing = TRUE, !.stage = "after-slash"]
      <3>1. z = [a EXCEPT !.candidate = g]
        BY <1>9, <2>0, <2>2 DEF ConsumeTag, White
      <3>2. /\ g \in Candidates /\ g.read = r /\ g.name = h.name
            /\ g.closing = TRUE /\ g.exact = h.exact
            /\ g.boundary = h.boundary /\ g.fenced = h.fenced
            /\ g.stage = "after-slash"
        BY <1>8, <1>9 DEF Candidates
      <3> HIDE DEF g
      <3>3. ~h.closing
        BY <2>2 DEF Tracks, StageOf
      <3>4. c \notin White /\ c \in White \union {"/"}
        BY <2>2 DEF White
      <3>5. Tracks(t, i, n + 2, n + 1, g)
        BY <1>5, <2>0, <2>2, <3>2, <3>3, <3>4, TrackBlank DEF r
      <3> QED
        BY <1>12, <2>0, <3>1, <3>5
    <2>3. CASE c = "p"
      <3> DEFINE g == [k EXCEPT !.name = name, !.stage = "tag"]
      <3>1. z = [a EXCEPT !.candidate = g]
        BY <1>9, <2>0, <2>3 DEF ConsumeTag, White, name
      <3>2. /\ g \in Candidates /\ g.read = r /\ g.name = name
            /\ g.closing = h.closing /\ g.exact = h.exact
            /\ g.boundary = h.boundary /\ g.fenced = h.fenced
            /\ g.stage = "tag"
        BY <1>6, <1>8, <1>9 DEF Candidates
      <3> HIDE DEF g
      <3>3. Tracks(t, i, j, n + 1, g)
        BY <2>0, <2>3, <3>2, TrackNamed DEF r, name
      <3> QED
        BY <1>12, <2>0, <3>1, <3>3
    <2>4. CASE c \notin White /\ ~(c = "/" /\ h.stage = "after-open")
               /\ c # "p"
      <3>1. z = FailCandidate(a, k, c)
        BY <1>9, <2>0, <2>4 DEF ConsumeTag
      <3>2. c = "/" => Slashed(t, i, n + 1)
        <4>1. c = "/" => h.stage = "after-slash"
          BY <1>13, <2>4
        <4>2. h.stage = "after-slash" => h.closing
          BY DEF Tracks, StageOf
        <4> QED
          BY <1>10, <2>0, <4>1, <4>2
      <3>3. c # "<" => NoneAlive(t, n + 1)
        <4>1. ~(j <= n)
          BY <2>0
        <4> QED
          BY <1>2, <2>4, <3>2, <4>1, AliveEnds
      <3>4. Exact(t, n + 1) = Exact(t, n) /\ (Spoilt(t, n + 1) <=> Spoilt(t, n))
        BY <2>0, NoneEnds
      <3> QED
        BY <1>11, <3>1, <3>3, <3>4
    <2> QED
      BY <2>1, <2>2, <2>3, <2>4
  <1>14. CASE h.stage = "tag"
    <2>0. k.stage = "tag" /\ j <= n /\ h.stage # "after-tag"
      BY <1>2, <1>9, <1>14
    <2>1. CASE \E l \in Kinds : IsPrefix(name, l)
      <3> DEFINE next == IF name \in Kinds THEN "after-tag" ELSE "tag"
                 g == [k EXCEPT !.name = name, !.stage = next]
      <3>1. z = [a EXCEPT !.candidate = g]
        <4>1. g = [k EXCEPT !.name = name,
                            !.stage = IF name \in Kinds THEN "after-tag" ELSE @]
          BY <1>8, <2>0 DEF Candidates
        <4> QED
          BY <1>9, <2>0, <2>1, <4>1 DEF ConsumeTag, name
      <3>2. /\ g \in Candidates /\ g.read = r /\ g.name = name
            /\ g.closing = h.closing /\ g.exact = h.exact
            /\ g.boundary = h.boundary /\ g.fenced = h.fenced
            /\ g.stage = next
        BY <1>6, <1>8, <1>9 DEF Candidates
      <3> HIDE DEF g
      <3>3. PICK l \in Kinds : IsPrefix(name, l)
        BY <2>1
      <3>4. Tracks(t, i, j, n + 1, g)
        BY <2>0, <3>2, <3>3, TrackLonger DEF r, name
      <3> QED
        BY <1>12, <2>0, <3>1, <3>4
    <2>2. CASE ~\E l \in Kinds : IsPrefix(name, l)
      <3>1. z = FailCandidate(a, k, c)
        BY <1>9, <2>0, <2>2 DEF ConsumeTag, name
      <3>2. \A l \in Kinds : ~NamedTo(t, j, n + 1, l)
        <4>1. j \in Nat \ {0} /\ j <= n + 1 + 1 /\ n + 1 \in Nat
          BY <1>2, AliveSymbols
        <4> QED
          BY <1>3, <2>2, <4>1, NameIs, KindIs
      <3>3. c # "<" => NoneAlive(t, n + 1)
        <4>1. j # n + 1
          BY <1>2, <2>0
        <4> QED
          BY <1>2, <3>2, <4>1, AliveEnds
      <3>4. Exact(t, n + 1) = Exact(t, n) /\ (Spoilt(t, n + 1) <=> Spoilt(t, n))
        BY <2>0, NoneEnds
      <3> QED
        BY <1>11, <3>1, <3>3, <3>4
    <2> QED
      BY <2>1, <2>2
  <1>15. CASE h.stage = "after-tag"
    <2> DEFINE l == h.name
    <2>1. /\ Tag(t, i, j, l) /\ j + Len(l) = n + 1
          /\ Good(t, i, j, l) <=> c = ">" /\ h.exact
          /\ Bad(t, i, j, l) <=> /\ c \in White \union {"/", ">"}
                                 /\ ~(c = ">" /\ h.exact)
          /\ c # "<" => NoneAlive(t, n + 1)
      BY <1>15, NameEnds
    <2> HIDE DEF l
    <2>2. CASE c = ">" /\ h.exact
      <3>1. z = AcceptExactTag(a, k)
        BY <1>9, <1>15, <2>2 DEF ConsumeTag
      <3> QED
        BY <1>3, <1>9, <1>15, <2>2, <3>1, AcceptStep
    <2>3. CASE c \in White \union {"/", ">"} /\ ~(c = ">" /\ h.exact)
      <3>1. z = [a EXCEPT !.candidate = None, !.malformed = TRUE,
                          !.body = InBody(a, k.read)]
        BY <1>9, <1>15, <2>3 DEF ConsumeTag
      <3>2. /\ c \in White \union {"/", ">"}
            /\ ~(c = ">" /\ a.candidate.exact)
            /\ a.candidate.stage = "after-tag" /\ k.read = Part(t, i, n + 1)
        BY <1>3, <1>9, <1>15, <2>3
      <3> QED
        BY <3>1, <3>2, SpoilStep, ZenonT(40)
    <2>4. CASE c \notin White \union {"/", ">"}
      <3>1. z = FailCandidate(a, k, c)
        BY <1>9, <1>15, <2>4 DEF ConsumeTag
      <3>2. ~Good(t, i, j, l) /\ ~Bad(t, i, j, l)
        BY <2>1, <2>4
      <3>3. Exact(t, n + 1) = Exact(t, n) /\ (Spoilt(t, n + 1) <=> Spoilt(t, n))
        BY <2>1, <3>2, TagEnds
      <3> QED
        BY <1>11, <2>1, <3>1, <3>3
    <2> QED
      BY <2>2, <2>3, <2>4
  <1> QED
    BY <1>5, <1>13, <1>14, <1>15

LEMMA ConsumeKeeps ==
    ASSUME NEW a, IsAccumulator(a), NEW k, k \in Candidates, NEW c
    PROVE  ConsumeTag(a, k, c).line = a.line
           /\ ConsumeTag(a, k, c).after = a.after
  <1>1. a \in Accumulators
    BY DEF IsAccumulator
  <1>2. /\ FailCandidate(a, k, c).line = a.line
        /\ FailCandidate(a, k, c).after = a.after
    BY <1>1 DEF FailCandidate, Accumulators
  <1>3. /\ AcceptExactTag(a, k).line = a.line
        /\ AcceptExactTag(a, k).after = a.after
    <2>1. CASE k.closing /\ a.active = k.name
      BY <1>1, <2>1 DEF AcceptExactTag, Accumulators
    <2>2. CASE ~k.closing /\ a.active = None
      BY <1>1, <2>2 DEF AcceptExactTag, Accumulators
    <2>3. CASE ~(k.closing /\ a.active = k.name)
               /\ ~(~k.closing /\ a.active = None)
      BY <1>1, <2>3 DEF AcceptExactTag, Accumulators
    <2> QED
      BY <2>1, <2>2, <2>3
  <1>4. /\ \A g : [a EXCEPT !.candidate = g].line = a.line
        /\ \A g : [a EXCEPT !.candidate = g].after = a.after
        /\ \A x : [a EXCEPT !.candidate = None, !.malformed = TRUE,
                            !.body = x].line = a.line
        /\ \A x : [a EXCEPT !.candidate = None, !.malformed = TRUE,
                            !.body = x].after = a.after
    BY <1>1 DEF Accumulators
  <1>5. k.stage \in {"after-open", "after-slash", "tag", "after-tag"}
    BY DEF Candidates
  <1>6. CASE k.stage \in {"after-open", "after-slash"}
    BY <1>2, <1>4, <1>6 DEF ConsumeTag
  <1>7. CASE k.stage = "tag"
    BY <1>2, <1>4, <1>7 DEF ConsumeTag
  <1>8. CASE k.stage = "after-tag"
    BY <1>2, <1>3, <1>4, <1>8 DEF ConsumeTag
  <1> QED
    BY <1>5, <1>6, <1>7, <1>8

\* Two accumulators that differ at most in "line" and "after".
Alike(a, x) ==
    /\ x.candidate = a.candidate /\ x.active = a.active /\ x.body = a.body
    /\ x.done = a.done /\ x.framed = a.framed /\ x.tags = a.tags
    /\ x.blocks = a.blocks /\ x.malformed = a.malformed

LEMMA StepsAlike ==
    ASSUME NEW t, NEW n, NEW a, NEW z, StepsTo(t, n, a, z),
           NEW x, Alike(a, x), NEW y, Alike(z, y)
    PROVE  StepsTo(t, n, x, y)
  <1>1. /\ x.candidate = a.candidate /\ x.active = a.active /\ x.body = a.body
        /\ x.done = a.done /\ x.framed = a.framed /\ x.tags = a.tags
        /\ x.blocks = a.blocks /\ x.malformed = a.malformed
        /\ y.candidate = z.candidate /\ y.active = z.active /\ y.body = z.body
        /\ y.done = z.done /\ y.framed = z.framed /\ y.tags = z.tags
        /\ y.blocks = z.blocks /\ y.malformed = z.malformed
    BY DEF Alike
  <1>2. Same(a, z) => Same(x, y)
    BY <1>1 DEF Same
  <1>3. Grows(t, n, a, z) => Grows(t, n, x, y)
    BY <1>1, Zenon DEF Grows
  <1>4. Quietly(t, n, a, z) => Quietly(t, n, x, y)
    BY <1>1, <1>2, <1>3 DEF Quietly
  <1>5. ASSUME NEW i, NEW j, NEW k, Ends(t, n, a, z, i, j, k)
        PROVE  Ends(t, n, x, y, i, j, k)
    <2>1. Closes(t, a, z, i, j, k) => Closes(t, x, y, i, j, k)
      BY <1>1 DEF Closes
    <2>2. Starts(t, a, z, i, j, k) => Starts(t, x, y, i, j, k)
      BY <1>1 DEF Starts
    <2>3. Passes(t, n, a, z, i, j, k) => Passes(t, n, x, y, i, j, k)
      BY <1>1, <1>2, <1>3 DEF Passes
    <2> QED
      BY <1>1, <1>5, <2>1, <2>2, <2>3 DEF Ends
  <1>6. Follows(t, n + 1, z.candidate) => Follows(t, n + 1, y.candidate)
    BY <1>1
  <1> QED
    BY <1>4, <1>5, <1>6 DEF StepsTo

Late(a, c) == a.done # None /\ a.active = None /\ c \notin White

LEMMA FeedStep ==
    ASSUME NEW t, IsText(t), NEW n \in Nat, n + 1 <= Len(t),
           NEW a, IsAccumulator(a), LineAt(t, n, a.line),
           Follows(t, n, a.candidate), NEW c, c = t[n + 1],
           NEW z, z = FeedSymbol(a, c)
    PROVE  /\ StepsTo(t, n, a, z) /\ IsAccumulator(z)
           /\ LineAt(t, n + 1, z.line)
           /\ z.after <=> a.after \/ Late(a, c)
  <1> DEFINE y == a.after \/ Late(a, c)
             x == [a EXCEPT !.after = y]
             k == [x.candidate EXCEPT !.read = Append(@, c)]
             b == IF x.candidate # None THEN ConsumeTag(x, k, c)
                  ELSE IF c = "<" THEN [x EXCEPT !.candidate = Candidate(x)]
                  ELSE [x EXCEPT !.body = InBody(x, <<c>>)]
  <1>0. c \in Symbol
    <2>1. n + 1 \in 1 .. Len(t)
      BY TextIs
    <2> QED
      BY <2>1, TextIs
  <1>1. a \in Accumulators
    BY DEF IsAccumulator
  <1>2. y \in BOOLEAN
    BY <1>1 DEF Accumulators, Late
  <1>3. z = [b EXCEPT !.line = LineStep(@, c)]
    <2>1. x = [a EXCEPT !.after = @ \/ Late(a, c)]
      BY <1>1 DEF Accumulators
    <2> HIDE DEF x
    <2> QED
      BY <2>1 DEF FeedSymbol, Late
  <1>4. IsAccumulator(z)
    BY <1>0, FeedSymbolType
  <1> HIDE DEF y
  <1>5. IsAccumulator(x) /\ Alike(x, a) /\ x.line = a.line /\ x.after = y
    <2>1. x \in Accumulators
      BY <1>1, <1>2 DEF Accumulators
    <2>2. /\ x.candidate = a.candidate /\ x.blocks = a.blocks
          /\ x.done = a.done
      BY <1>1 DEF Accumulators
    <2>3. Alike(x, a) /\ x.line = a.line /\ x.after = y
      BY <1>1 DEF Accumulators, Alike
    <2> HIDE DEF x
    <2> QED
      BY <2>1, <2>2, <2>3 DEF IsAccumulator
  <1> HIDE DEF x
  <1>6. x \in Accumulators /\ LineAt(t, n, x.line)
        /\ Follows(t, n, x.candidate)
    BY <1>5 DEF IsAccumulator, Alike
  <1>7. StepsTo(t, n, x, b) /\ b.line = x.line /\ b.after = x.after
    <2>1. CASE x.candidate # None
      <3>1. PICK i, j : Tracks(t, i, j, n, x.candidate)
        BY <1>6, <2>1 DEF Follows
      <3>2. x.candidate \in Candidates
        BY <3>1 DEF Tracks
      <3>3. k \in Candidates
        <4> DEFINE u == x.candidate
                   v == Append(u.read, c)
        <4>1. u \in Candidates
          BY <3>2
        <4>2. u.read \in Seq(Symbol)
          BY <3>2 DEF Candidates
        <4>3. v \in Seq(Symbol)
          BY <1>0, <4>2, AppendProperties
        <4>4. k = [u EXCEPT !.read = v]
          BY <3>2 DEF Candidates
        <4> HIDE DEF u, v, k
        <4> QED
          BY <4>1, <4>3, <4>4 DEF Candidates
      <3>4. StepsTo(t, n, x, ConsumeTag(x, k, c))
        BY <1>5, <1>6, <3>1, ConsumeStep
      <3> QED
        BY <1>5, <2>1, <3>3, <3>4, ConsumeKeeps
    <2>2. CASE x.candidate = None /\ c = "<"
      <3>1. NoneAlive(t, n)
        BY <1>6, <2>2, NoneFollows
      <3>2. StepsTo(t, n, x, [x EXCEPT !.candidate = Candidate(x)])
        BY <1>5, <1>6, <2>2, <3>1, StartStep
      <3> QED
        BY <1>6, <2>2, <3>2 DEF Accumulators
    <2>3. CASE x.candidate = None /\ c # "<"
      <3>1. NoneAlive(t, n)
        BY <1>6, <2>3, NoneFollows
      <3>2. StepsTo(t, n, x, [x EXCEPT !.body = InBody(x, <<c>>)])
        BY <1>5, <1>6, <2>3, <3>1, PlainStep
      <3> QED
        BY <1>6, <2>3, <3>2 DEF Accumulators
    <2> QED
      BY <2>1, <2>2, <2>3
  <1>8. IsAccumulator(b)
    <2>1. CASE x.candidate # None
      <3> DEFINE u == x.candidate
                 v == Append(u.read, c)
      <3>1. IsCandidate(u)
        BY <1>5, <2>1 DEF IsAccumulator
      <3>2. u \in Candidates /\ u.read \in Seq(Symbol)
        BY <3>1 DEF IsCandidate, Candidates
      <3>3. v \in Seq(Symbol)
        BY <1>0, <3>2, AppendProperties
      <3>4. k = [u EXCEPT !.read = v]
        BY <3>2 DEF Candidates
      <3> HIDE DEF v
      <3>5. k \in Candidates /\ k.stage = u.stage /\ k.name = u.name
        BY <3>2, <3>3, <3>4 DEF Candidates
      <3> HIDE DEF k
      <3>6. IsCandidate(k)
        BY <3>1, <3>5 DEF IsCandidate
      <3> QED
        BY <1>0, <1>5, <2>1, <3>6, ConsumeType
    <2>2. CASE ~(x.candidate # None) /\ c = "<"
      BY <1>5, <2>2, CandidateType, Changes, InBodyType, EmptyText DEF IsText
    <2>3. CASE ~(x.candidate # None) /\ c # "<"
      <3>1. <<c>> \in Seq(Symbol)
        BY <1>0, OneOf
      <3>2. InBody(x, <<c>>) \in Seq(Symbol)
        BY <1>5, <3>1, InBodyType
      <3> QED
        BY <1>5, <2>3, <3>2, Changes
    <2> QED
      BY <2>1, <2>2, <2>3
  <1> HIDE DEF b
  <1>9. b \in Accumulators
    BY <1>8 DEF IsAccumulator
  <1>10. Alike(b, z) /\ z.line = LineStep(b.line, c) /\ z.after = b.after
    BY <1>3, <1>9 DEF Accumulators, Alike
  <1>11. StepsTo(t, n, a, z)
    BY <1>5, <1>7, <1>10, StepsAlike
  <1>12. LineAt(t, n + 1, z.line)
    <2>1. a.line \in Lines
      BY <1>1 DEF Accumulators
    <2>2. z.line = LineStep(a.line, t[n + 1])
      BY <1>5, <1>7, <1>10
    <2> QED
      BY <2>1, <2>2, LineOn
  <1>13. z.after <=> a.after \/ Late(a, c)
    BY <1>5, <1>7, <1>10 DEF y
  <1> QED
    BY <1>4, <1>11, <1>12, <1>13

-----------------------------------------------------------------------------
(* What an accumulator has counted *)

\* No exact tag yet; one that opened a block, or closed none; a block; two
\* that are none; more.
Empty(t, n, a) ==
    /\ a.tags = 0 /\ Exact(t, n) = {} /\ a.active = None
    /\ a.done = None /\ a.blocks = 0 /\ a.after = FALSE

Opened(t, n, a, i, k) ==
    /\ a.tags = 1 /\ Exact(t, n) = {i} /\ k \in Kinds /\ At(t, i, Open(k))
    /\ a.active = k /\ a.done = None /\ a.blocks = 0 /\ a.after = FALSE
    /\ a.framed <=> FramedAt(t, i)
    /\ i + Len(k) + 2 <= Held(a.candidate, n)
    /\ a.body = Part(t, i + Len(k) + 2, Held(a.candidate, n) - 1)

Stray(t, n, a, i) ==
    /\ a.tags = 1 /\ Exact(t, n) = {i}
    /\ \E k \in Kinds : At(t, i, Close(k))
    /\ a.active = None /\ a.done = None /\ a.blocks = 0 /\ a.after = FALSE

Block(t, n, a, i, m, k) ==
    /\ a.tags = 2 /\ Exact(t, n) = {i, m} /\ k \in Kinds
    /\ At(t, i, Open(k)) /\ At(t, m, Close(k)) /\ i + Len(k) + 2 <= m
    /\ m + Len(k) + 3 <= n + 1
    /\ a.active = None /\ a.blocks = 1
    /\ a.done = [kind |-> k, body |-> Strip(Part(t, i + Len(k) + 2, m - 1))]
    /\ a.framed <=> FramedAt(t, i)
    /\ a.after <=> Trails(t, n, m + Len(k) + 3)

Pair(t, i, m) == \E k \in Kinds : At(t, i, Open(k)) /\ At(t, m, Close(k))

Odd(t, n, a, i, m) ==
    a.tags = 2 /\ Exact(t, n) = {i, m} /\ i < m /\ a.blocks = 0 /\ ~Pair(t, i, m)

Three(S) == \E x, y, z \in S : x # y /\ x # z /\ y # z

Many(t, n, a) == a.tags > 2 /\ Three(Exact(t, n))

Counted(t, n, a) ==
    \/ Empty(t, n, a)
    \/ \E i, k : Opened(t, n, a, i, k)
    \/ \E i : Stray(t, n, a, i)
    \/ \E i, m, k : Block(t, n, a, i, m, k)
    \/ \E i, m : Odd(t, n, a, i, m)
    \/ Many(t, n, a)

LEMMA OneName ==
    ASSUME NEW t, IsText(t), NEW i, NEW j, NEW k, Tag(t, i, j, k),
           NEW l, Tag(t, i, j, l)
    PROVE  k = l
  <1>1. ASSUME NEW a, Tag(t, i, j, a), NEW b, Tag(t, i, j, b),
               Len(a) <= Len(b)
        PROVE  a = b
    <2> DEFINE n == j + Len(a) - 1
    <2>1. /\ a \in Kinds /\ IsText(a) /\ Len(a) \in Nat /\ Len(a) > 1
          /\ b \in Kinds /\ IsText(b) /\ Len(b) \in Nat
          /\ i \in Nat /\ j \in Nat /\ i < j /\ Len(t) \in Nat
          /\ j + Len(a) <= Len(t) + 1
      BY <1>1, TagIs, TextIs
    <2>2. /\ j \in Nat \ {0} /\ n \in Nat /\ j <= n + 1 /\ n <= Len(t)
          /\ n - j + 1 = Len(a) /\ j + Len(a) = n + 1
      BY <2>1
    <2>3. /\ \A m \in 1 .. Len(a) : t[j + m - 1] = a[m]
          /\ \A m \in 1 .. Len(b) : t[j + m - 1] = b[m]
      BY <1>1 DEF Tag, Reads
    <2> HIDE DEF n
    <2>4. NamedTo(t, j, n, b)
      <3>1. \A m \in 1 .. Len(a) : m \in 1 .. Len(b)
        BY <1>1, <2>1
      <3> QED
        BY <1>1, <2>2, <2>3, <3>1 DEF NamedTo
    <2>5. Part(t, j, n) = a
      BY <1>1, <2>2, TagAlive
    <2>6. IsPrefix(a, b)
      BY <2>1, <2>2, <2>4, <2>5, NameIs
    <2> QED
      BY <2>1, <2>6, MarkerAssumption
  <1>2. Len(k) \in Nat /\ Len(l) \in Nat
    BY TagIs
  <1>3. Len(k) <= Len(l) \/ Len(l) <= Len(k)
    BY <1>2
  <1> QED
    BY <1>1, <1>3

\* A place has at most one exact tag.
LEMMA OneTag ==
    ASSUME NEW t, IsText(t), NEW i \in 1 .. Len(t), NEW k \in Kinds,
           NEW l \in Kinds
    PROVE  /\ At(t, i, Open(k)) => ~At(t, i, Close(l))
           /\ At(t, i, Close(k)) /\ At(t, i, Close(l)) => k = l
  <1>1. At(t, i, Open(k)) => t[i + 1] = "p"
    <2>1. Good(t, i, i + 1, k) => t[i + 1] = "p"
      BY TagIs DEF Good
    <2> QED
      BY <2>1, OpenIsGood
  <1>2. At(t, i, Close(l)) => t[i + 1] = "/" /\ Tag(t, i, i + 2, l)
    BY CloseIsGood DEF Good
  <1>3. At(t, i, Close(k)) => Tag(t, i, i + 2, k)
    BY CloseIsGood DEF Good
  <1> QED
    BY <1>1, <1>2, <1>3, OneName

\* Where the tag that has just ended lies.
LEMMA EndsIs ==
    ASSUME NEW t, IsText(t), NEW n \in Nat, n + 1 <= Len(t),
           NEW a, NEW z, NEW i, NEW j, NEW k, Ends(t, n, a, z, i, j, k)
    PROVE  /\ i \in Nat /\ i \in 1 .. Len(t) /\ k \in Kinds /\ k # None
           /\ Len(k) \in Nat /\ i = Held(a.candidate, n)
           /\ Held(z.candidate, n + 1) = n + 2
           /\ \A x \in Exact(t, n) : x < i /\ x \in Nat
           /\ Slashed(t, i, j) => At(t, i, Close(k)) /\ i + Len(k) + 3 = n + 2
           /\ ~Slashed(t, i, j) => At(t, i, Open(k)) /\ i + Len(k) + 2 = n + 2
           /\ \A l \in Kinds : At(t, i, Close(l)) => l = k /\ Slashed(t, i, j)
  <1>1. /\ Good(t, i, j, k) /\ j + Len(k) = n + 1
        /\ i = Held(a.candidate, n) /\ z.candidate = None
    BY DEF Ends
  <1>2. Tag(t, i, j, k)
    BY <1>1 DEF Good
  <1>3. /\ i \in Nat /\ i \in 1 .. Len(t) /\ k \in Kinds /\ Len(k) \in Nat
        /\ k # None
    BY <1>2, TagIs, MarkerAssumption
  <1>4. Held(z.candidate, n + 1) = n + 2
    BY <1>1 DEF Held
  <1>5. Alive(t, i, j, n)
    BY <1>1, <1>2, TagAlive
  <1>6. ASSUME NEW x \in Exact(t, n)
        PROVE  x < i /\ x \in Nat
    <2>1. PICK y, l : Good(t, x, y, l) /\ y + Len(l) <= n
      BY DEF Exact
    <2>2. x \in Nat
      BY TextIs DEF Exact
    <2> QED
      BY <1>5, <2>1, <2>2, GoodBefore
  <1>7. Slashed(t, i, j) => At(t, i, Close(k)) /\ i + Len(k) + 3 = n + 2
    <2>1. Slashed(t, i, j) => j = i + 2 /\ At(t, i, Close(k))
      BY <1>1, GoodIs
    <2> QED
      BY <1>1, <1>3, <2>1
  <1>8. ~Slashed(t, i, j) => At(t, i, Open(k)) /\ i + Len(k) + 2 = n + 2
    <2>1. ~Slashed(t, i, j) => j = i + 1 /\ At(t, i, Open(k))
      BY <1>1, GoodIs
    <2> QED
      BY <1>1, <1>3, <2>1
  <1>9. \A l \in Kinds : At(t, i, Close(l)) => l = k /\ Slashed(t, i, j)
    BY <1>3, <1>7, <1>8, OneTag
  <1> QED
    BY <1>1, <1>3, <1>4, <1>6, <1>7, <1>8, <1>9

LEMMA ExactIs ==
    ASSUME NEW t, IsText(t), NEW n
    PROVE  \A i \in Exact(t, n) : i \in Nat /\ i \in 1 .. Len(t)
  BY TextIs DEF Exact

LEMMA AfterIs ==
    ASSUME NEW a, NEW z, IsAccumulator(z), NEW c,
           z.after <=> a.after \/ Late(a, c)
    PROVE  a.done = None /\ a.after = FALSE => z.after = FALSE
  <1>1. z.after \in BOOLEAN
    BY DEF IsAccumulator, Accumulators
  <1> QED
    BY <1>1 DEF Late

LEMMA QuietCount ==
    ASSUME NEW t, IsText(t), NEW n \in Nat, n + 1 <= Len(t),
           NEW a, IsAccumulator(a), NEW z, IsAccumulator(z),
           NEW c, c = t[n + 1], z.after <=> a.after \/ Late(a, c),
           Quietly(t, n, a, z), Counted(t, n, a)
    PROVE  Counted(t, n + 1, z)
  <1>1. /\ z.active = a.active /\ z.done = a.done /\ z.framed = a.framed
        /\ z.blocks = a.blocks /\ z.tags = a.tags /\ Grows(t, n, a, z)
        /\ Exact(t, n + 1) = Exact(t, n)
    BY DEF Quietly, Same
  <1>2. a.done = None /\ a.after = FALSE => z.after = FALSE
    BY AfterIs
  <1>3. CASE Empty(t, n, a)
    BY <1>1, <1>2, <1>3 DEF Empty, Counted
  <1>4. ASSUME NEW i, NEW k, Opened(t, n, a, i, k)
        PROVE  Opened(t, n + 1, z, i, k)
    <2> DEFINE b == i + Len(k) + 2
    <2>1. /\ a.tags = 1 /\ Exact(t, n) = {i} /\ k \in Kinds
          /\ At(t, i, Open(k)) /\ a.active = k /\ a.done = None
          /\ a.blocks = 0 /\ a.after = FALSE
          /\ a.framed <=> FramedAt(t, i)
          /\ b <= Held(a.candidate, n)
          /\ a.body = Part(t, b, Held(a.candidate, n) - 1)
      BY <1>4 DEF Opened
    <2>2. b \in Nat \ {0} /\ a.active # None
      <3>1. i \in Nat /\ Len(k) \in Nat
        <4>1. \A x \in Exact(t, n) : x \in Nat
          BY ExactIs
        <4> QED
          BY <2>1, <4>1, KindIs
      <3> QED
        BY <2>1, <3>1, MarkerAssumption
    <2> HIDE DEF b
    <2>3. /\ b <= Held(z.candidate, n + 1)
          /\ z.body = Part(t, b, Held(z.candidate, n + 1) - 1)
      BY <1>1, <2>1, <2>2, Zenon DEF Grows
    <2> QED
      BY <1>1, <1>2, <2>1, <2>3 DEF Opened, b
  <1>5. ASSUME NEW i, Stray(t, n, a, i)
        PROVE  Stray(t, n + 1, z, i)
    BY <1>1, <1>2, <1>5 DEF Stray
  <1>6. ASSUME NEW i, NEW m, NEW k, Block(t, n, a, i, m, k)
        PROVE  Block(t, n + 1, z, i, m, k)
    <2> DEFINE q == m + Len(k) + 3
               r == [kind |-> k,
                     body |-> Strip(Part(t, i + Len(k) + 2, m - 1))]
    <2>1. /\ a.tags = 2 /\ Exact(t, n) = {i, m} /\ k \in Kinds
          /\ At(t, i, Open(k)) /\ At(t, m, Close(k)) /\ i + Len(k) + 2 <= m
          /\ q <= n + 1 /\ a.active = None /\ a.blocks = 1
          /\ a.done = r
          /\ a.framed <=> FramedAt(t, i)
          /\ a.after <=> Trails(t, n, q)
      BY <1>6 DEF Block
    <2>2. q \in Nat
      <3>1. m \in Nat /\ Len(k) \in Nat
        <4>1. \A x \in Exact(t, n) : x \in Nat
          BY ExactIs
        <4> QED
          BY <2>1, <4>1, KindIs
      <3> QED
        BY <3>1
    <2>3. a.done # None
      <3>1. a.done \in Results
        BY <2>1 DEF IsAccumulator
      <3> QED
        BY <3>1, NoneAssumption
    <2> HIDE DEF q, r
    <2>4. Trails(t, n + 1, q) <=> Trails(t, n, q) \/ c \notin White
      <3>1. \A i_1 : i_1 \in q .. n + 1 <=> i_1 \in q .. n \/ i_1 = n + 1
        BY <2>1, <2>2
      <3> QED
        BY <3>1 DEF Trails
    <2>5. z.after <=> Trails(t, n + 1, q)
      BY <2>1, <2>3, <2>4 DEF Late
    <2>6. q <= n + 1 + 1
      BY <2>1, <2>2
    <2> QED
      BY <1>1, <2>1, <2>5, <2>6 DEF Block, q, r
  <1>7. ASSUME NEW i, NEW m, Odd(t, n, a, i, m)
        PROVE  Odd(t, n + 1, z, i, m)
    BY <1>1, <1>7 DEF Odd
  <1>8. Many(t, n, a) => Many(t, n + 1, z)
    BY <1>1 DEF Many
  <1> QED
    BY <1>3, <1>4, <1>5, <1>6, <1>7, <1>8, Zenon DEF Counted

LEMMA FirstTagCount ==
    ASSUME NEW t, IsText(t), NEW n \in Nat, n + 1 <= Len(t),
           NEW a, IsAccumulator(a), NEW z, IsAccumulator(z),
           z.after = FALSE, Empty(t, n, a),
           NEW i, NEW j, NEW k, Ends(t, n, a, z, i, j, k)
    PROVE  Counted(t, n + 1, z)
  <1>1. /\ a.tags = 0 /\ Exact(t, n) = {} /\ a.active = None
        /\ a.done = None /\ a.blocks = 0
    BY DEF Empty
  <1>2. /\ i \in Nat /\ k \in Kinds /\ k # None
        /\ Held(z.candidate, n + 1) = n + 2
        /\ Slashed(t, i, j) => At(t, i, Close(k))
        /\ ~Slashed(t, i, j) => At(t, i, Open(k)) /\ i + Len(k) + 2 = n + 2
    BY EndsIs
  <1>3. z.tags = 1 /\ Exact(t, n + 1) = {i}
    BY <1>1 DEF Ends
  <1>4. ~Closes(t, a, z, i, j, k)
    BY <1>1, <1>2 DEF Closes
  <1>5. CASE Starts(t, a, z, i, j, k)
    <2>1. /\ ~Slashed(t, i, j) /\ z.active = k /\ z.body = << >>
          /\ z.framed <=> FramedAt(t, i)
          /\ z.done = None /\ z.blocks = 0
      BY <1>1, <1>5 DEF Starts
    <2>2. z.body = Part(t, i + Len(k) + 2, Held(z.candidate, n + 1) - 1)
      <3>1. n + 1 \in Nat /\ n + 1 + 1 = n + 2 /\ n + 2 - 1 = n + 1
        OBVIOUS
      <3>2. Part(t, n + 1 + 1, n + 1) = << >>
        BY <3>1, NoPart
      <3> QED
        BY <1>2, <2>1, <3>1, <3>2
    <2>3. i + Len(k) + 2 <= Held(z.candidate, n + 1)
      BY <1>2, <2>1
    <2>4. Opened(t, n + 1, z, i, k)
      BY <1>2, <1>3, <2>1, <2>2, <2>3 DEF Opened
    <2> QED
      BY <2>4 DEF Counted
  <1>6. CASE Passes(t, n, a, z, i, j, k)
    <2>1. Slashed(t, i, j) /\ Same(a, z)
      BY <1>1, <1>6 DEF Passes
    <2>2. Stray(t, n + 1, z, i)
      BY <1>1, <1>2, <1>3, <2>1 DEF Stray, Same
    <2> QED
      BY <2>2 DEF Counted
  <1> QED
    BY <1>4, <1>5, <1>6 DEF Ends

LEMMA SecondTagCount ==
    ASSUME NEW t, IsText(t), NEW n \in Nat, n + 1 <= Len(t),
           NEW a, IsAccumulator(a), NEW z, IsAccumulator(z),
           z.after = FALSE, NEW x, NEW l, Opened(t, n, a, x, l),
           NEW i, NEW j, NEW k, Ends(t, n, a, z, i, j, k)
    PROVE  Counted(t, n + 1, z)
  <1> DEFINE b == x + Len(l) + 2
  <1>1. /\ a.tags = 1 /\ Exact(t, n) = {x} /\ l \in Kinds
        /\ At(t, x, Open(l)) /\ a.active = l /\ a.done = None
        /\ a.blocks = 0
        /\ a.framed <=> FramedAt(t, x)
        /\ b <= Held(a.candidate, n)
        /\ a.body = Part(t, b, Held(a.candidate, n) - 1)
    BY DEF Opened
  <1>2. /\ i \in Nat /\ k \in Kinds /\ k # None /\ Len(k) \in Nat
        /\ i = Held(a.candidate, n)
        /\ \A y \in Exact(t, n) : y < i /\ y \in Nat
        /\ Slashed(t, i, j) => At(t, i, Close(k)) /\ i + Len(k) + 3 = n + 2
        /\ \A q \in Kinds : At(t, i, Close(q)) => q = k /\ Slashed(t, i, j)
    BY EndsIs
  <1>3. l # None /\ x < i /\ x \in Nat /\ x \in 1 .. Len(t)
    BY <1>1, <1>2, MarkerAssumption DEF Exact
  <1>4. z.tags = 2 /\ Exact(t, n + 1) = {x, i}
    BY <1>1 DEF Ends
  <1>5. ~Starts(t, a, z, i, j, k)
    BY <1>1, <1>3 DEF Starts
  <1>6. CASE Closes(t, a, z, i, j, k)
    <2>6. /\ Slashed(t, i, j) /\ a.active = k
          /\ z.done = [kind |-> k, body |-> Strip(a.body)]
          /\ z.blocks = a.blocks + 1 /\ z.active = None
          /\ z.framed = a.framed
      BY <1>6 DEF Closes
    <2>1. /\ Slashed(t, i, j) /\ k = l
          /\ z.done = [kind |-> k, body |-> Strip(a.body)]
          /\ z.blocks = 1 /\ z.active = None /\ z.framed = a.framed
      <3>1. a.active = l /\ a.blocks = 0
        BY <1>1
      <3> HIDE DEF b
      <3> QED
        BY <2>6, <3>1
    <2>5. z.framed <=> FramedAt(t, x)
      BY <1>1, <2>1
    <2>2. i + Len(k) + 3 = n + 2 /\ At(t, i, Close(k))
      BY <1>2, <2>1
    <2>3. /\ i + Len(k) + 3 <= n + 1 + 1
          /\ z.after <=> Trails(t, n + 1, i + Len(k) + 3)
      BY <2>2 DEF Trails
    <2>4. Block(t, n + 1, z, x, i, k)
      BY <1>1, <1>2, <1>4, <2>1, <2>2, <2>3, <2>5 DEF Block
    <2> QED
      BY <2>4 DEF Counted
  <1>7. CASE Passes(t, n, a, z, i, j, k)
    <2>1. /\ Slashed(t, i, j) => l # k
          /\ z.blocks = 0
      BY <1>1, <1>7 DEF Passes, Same
    <2>2. ~Pair(t, x, i)
      <3> SUFFICES ASSUME NEW q \in Kinds, At(t, x, Open(q)), At(t, i, Close(q))
                   PROVE  FALSE
        BY DEF Pair
      <3>1. q = k /\ Slashed(t, i, j)
        BY <1>2
      <3>2. x \in 1 .. Len(t) + 1
        BY <1>3, TextIs
      <3>3. q = l
        BY <1>1, <3>2, OneOpen
      <3> QED
        BY <2>1, <3>1, <3>3
    <2>3. Odd(t, n + 1, z, x, i)
      BY <1>3, <1>4, <2>1, <2>2 DEF Odd
    <2> QED
      BY <2>3 DEF Counted
  <1> QED
    BY <1>5, <1>6, <1>7 DEF Ends

LEMMA StrayTagCount ==
    ASSUME NEW t, IsText(t), NEW n \in Nat, n + 1 <= Len(t),
           NEW a, IsAccumulator(a), NEW z, NEW x, Stray(t, n, a, x),
           NEW i, NEW j, NEW k, Ends(t, n, a, z, i, j, k)
    PROVE  Counted(t, n + 1, z)
  <1>1. /\ a.tags = 1 /\ Exact(t, n) = {x} /\ a.active = None /\ a.blocks = 0
        /\ \E l \in Kinds : At(t, x, Close(l))
    BY DEF Stray
  <1>2. k # None /\ \A y \in Exact(t, n) : y < i /\ y \in Nat
    BY EndsIs
  <1>3. x < i /\ x \in 1 .. Len(t)
    BY <1>1, <1>2 DEF Exact
  <1>4. z.tags = 2 /\ Exact(t, n + 1) = {x, i}
    BY <1>1 DEF Ends
  <1>5. z.blocks = 0
    <2>1. ~Closes(t, a, z, i, j, k)
      BY <1>1, <1>2 DEF Closes
    <2> QED
      BY <1>1, <2>1 DEF Ends, Starts, Passes, Same
  <1>6. ~Pair(t, x, i)
    BY <1>1, <1>3, OneTag DEF Pair
  <1>7. Odd(t, n + 1, z, x, i)
    BY <1>3, <1>4, <1>5, <1>6 DEF Odd
  <1> QED
    BY <1>7 DEF Counted

LEMMA ManyTagCount ==
    ASSUME NEW t, IsText(t), NEW n \in Nat, n + 1 <= Len(t),
           NEW a, IsAccumulator(a), NEW z,
           \/ \E x, m, l : Block(t, n, a, x, m, l)
           \/ \E x, m : Odd(t, n, a, x, m)
           \/ Many(t, n, a),
           NEW i, NEW j, NEW k, Ends(t, n, a, z, i, j, k)
    PROVE  Counted(t, n + 1, z)
  <1>1. /\ z.tags = a.tags + 1 /\ Exact(t, n + 1) = Exact(t, n) \union {i}
    BY DEF Ends
  <1>2. i \in Nat /\ \A y \in Exact(t, n) : y < i /\ y \in Nat
    BY EndsIs
  <1>3. a.tags \in Nat
    BY DEF IsAccumulator, Accumulators
  <1>4. ASSUME NEW x, NEW m, a.tags = 2, Exact(t, n) = {x, m}, x # m
        PROVE  Many(t, n + 1, z)
    <2>1. /\ x \in Exact(t, n + 1) /\ m \in Exact(t, n + 1)
          /\ i \in Exact(t, n + 1) /\ x # i /\ m # i
      BY <1>1, <1>2, <1>4
    <2>2. z.tags > 2
      BY <1>1, <1>4
    <2> QED
      BY <1>4, <2>1, <2>2 DEF Many, Three
  <1>5. ASSUME NEW x, NEW m, NEW l, Block(t, n, a, x, m, l)
        PROVE  Many(t, n + 1, z)
    <2>1. a.tags = 2 /\ Exact(t, n) = {x, m} /\ l \in Kinds
          /\ x + Len(l) + 2 <= m
      BY <1>5 DEF Block
    <2>2. x \in Nat /\ m \in Nat /\ Len(l) \in Nat
      BY <1>2, <2>1, KindIs
    <2>3. x # m
      BY <2>1, <2>2
    <2> QED
      BY <1>4, <2>1, <2>3
  <1>6. ASSUME NEW x, NEW m, Odd(t, n, a, x, m)
        PROVE  Many(t, n + 1, z)
    <2>1. a.tags = 2 /\ Exact(t, n) = {x, m} /\ x < m
      BY <1>6 DEF Odd
    <2>2. x \in Nat /\ m \in Nat
      BY <1>2, <2>1
    <2>3. x # m
      BY <2>1, <2>2
    <2> QED
      BY <1>4, <2>1, <2>3
  <1>7. Many(t, n, a) => Many(t, n + 1, z)
    <2> SUFFICES ASSUME a.tags > 2, Three(Exact(t, n))
                 PROVE  Many(t, n + 1, z)
      BY DEF Many
    <2>1. Three(Exact(t, n + 1))
      BY <1>1 DEF Three
    <2>2. z.tags > 2
      BY <1>1, <1>3
    <2> QED
      BY <2>1, <2>2 DEF Many
  <1>8. Many(t, n + 1, z)
    BY <1>5, <1>6, <1>7
  <1> QED
    BY <1>8 DEF Counted

-----------------------------------------------------------------------------
(* What an accumulator knows of the text it has read *)

Accumulated(t, n, a) ==
    /\ IsAccumulator(a) /\ LineAt(t, n, a.line) /\ Follows(t, n, a.candidate)
    /\ a.malformed <=> Spoilt(t, n)
    /\ Counted(t, n, a)

LEMMA NewKnows ==
    ASSUME NEW t, IsText(t)
    PROVE  Accumulated(t, 0, NewAccumulator)
  <1> DEFINE a == NewAccumulator
  <1>1. /\ a.candidate = None /\ a.active = None /\ a.done = None
        /\ a.tags = 0 /\ a.blocks = 0 /\ a.malformed = FALSE
        /\ a.after = FALSE /\ a.line = LineStart(None, 0)
    BY DEF NewAccumulator
  <1>2. IsAccumulator(a)
    BY NewAccumulatorType
  <1> HIDE DEF a
  <1>3. NoneAlive(t, 0)
    <2>1. ASSUME NEW i, NEW j, Alive(t, i, j, 0)
          PROVE  FALSE
      BY <2>1 DEF Alive, Gap
    <2> QED
      BY <2>1 DEF NoneAlive
  <1>4. \A i, j, k : Tag(t, i, j, k) => ~(j + Len(k) <= 0)
    <2>1. ASSUME NEW i, NEW j, NEW k, Tag(t, i, j, k)
          PROVE  ~(j + Len(k) <= 0)
      <3>1. /\ i \in Nat /\ 0 < i /\ j \in Nat /\ i < j /\ Len(k) \in Nat
        BY <2>1, TagIs
      <3> QED
        BY <3>1
    <2> QED
      BY <2>1
  <1>5. Exact(t, 0) = {} /\ ~Spoilt(t, 0)
    BY <1>4 DEF Exact, Spoilt, Good, Bad
  <1>6. LineAt(t, 0, a.line)
    BY <1>1, LineInit
  <1>7. Empty(t, 0, a)
    BY <1>1, <1>5 DEF Empty
  <1>8. a.malformed <=> Spoilt(t, 0)
    BY <1>1, <1>5
  <1>9. Follows(t, 0, a.candidate)
    BY <1>1, <1>3 DEF Follows
  <1>10. Accumulated(t, 0, a)
    BY <1>2, <1>6, <1>7, <1>8, <1>9 DEF Accumulated, Counted
  <1> QED
    BY <1>10 DEF a

LEMMA TagCount ==
    ASSUME NEW t, IsText(t), NEW n \in Nat, n + 1 <= Len(t),
           NEW a, IsAccumulator(a), NEW z, IsAccumulator(z),
           NEW c, z.after <=> a.after \/ Late(a, c), Counted(t, n, a),
           NEW i, NEW j, NEW k, Ends(t, n, a, z, i, j, k)
    PROVE  Counted(t, n + 1, z)
  <1>1. a.done = None /\ a.after = FALSE => z.after = FALSE
    BY AfterIs
  <1>2. CASE Empty(t, n, a)
    <2>1. z.after = FALSE
      BY <1>1, <1>2 DEF Empty
    <2> QED
      BY <1>2, <2>1, FirstTagCount
  <1>3. ASSUME NEW x, NEW l, Opened(t, n, a, x, l)
        PROVE  Counted(t, n + 1, z)
    <2>1. z.after = FALSE
      BY <1>1, <1>3 DEF Opened
    <2> QED
      BY <1>3, <2>1, SecondTagCount
  <1>4. ASSUME NEW x, Stray(t, n, a, x)
        PROVE  Counted(t, n + 1, z)
    BY <1>4, StrayTagCount
  <1>5. ASSUME \/ \E x, m, l : Block(t, n, a, x, m, l)
               \/ \E x, m : Odd(t, n, a, x, m)
               \/ Many(t, n, a)
        PROVE  Counted(t, n + 1, z)
    BY <1>5, ManyTagCount
  <1> QED
    BY <1>2, <1>3, <1>4, <1>5, Zenon DEF Counted

LEMMA SymbolKnown ==
    ASSUME NEW t, IsText(t), NEW n \in Nat, n + 1 <= Len(t),
           NEW a, Accumulated(t, n, a), NEW z, z = FeedSymbol(a, t[n + 1])
    PROVE  Accumulated(t, n + 1, z)
  <1> DEFINE c == t[n + 1]
  <1>1. /\ IsAccumulator(a) /\ LineAt(t, n, a.line)
        /\ Follows(t, n, a.candidate) /\ Counted(t, n, a)
        /\ a.malformed <=> Spoilt(t, n)
    BY DEF Accumulated
  <1>2. /\ StepsTo(t, n, a, z) /\ IsAccumulator(z)
        /\ LineAt(t, n + 1, z.line)
        /\ z.after <=> a.after \/ Late(a, c)
    BY <1>1, FeedStep
  <1> HIDE DEF c
  <1>3. Follows(t, n + 1, z.candidate)
    BY <1>2 DEF StepsTo
  <1>4. CASE Quietly(t, n, a, z)
    <2>1. z.malformed <=> Spoilt(t, n + 1)
      BY <1>1, <1>4 DEF Quietly
    <2>2. Counted(t, n + 1, z)
      BY <1>1, <1>2, <1>4, QuietCount DEF c
    <2> QED
      BY <1>2, <1>3, <2>1, <2>2 DEF Accumulated
  <1>5. ASSUME NEW i, NEW j, NEW k, Ends(t, n, a, z, i, j, k)
        PROVE  Accumulated(t, n + 1, z)
    <2>1. z.malformed <=> Spoilt(t, n + 1)
      BY <1>1, <1>5 DEF Ends
    <2>2. Counted(t, n + 1, z)
      BY <1>1, <1>2, <1>5, TagCount
    <2> QED
      BY <1>2, <1>3, <2>1, <2>2 DEF Accumulated
  <1> QED
    BY <1>2, <1>4, <1>5 DEF StepsTo

LEMMA ChunkKnown ==
    ASSUME NEW t, IsText(t), NEW n \in 0 .. Len(t), NEW m \in n .. Len(t),
           NEW a, Accumulated(t, n, a)
    PROVE  Accumulated(t, m, Feed(a, Part(t, n + 1, m)))
  <1> DEFINE s == Part(t, n + 1, m)
             L == Len(s)
             w == CHOOSE w : Feeds(w, a, s, L)
             N == {i \in Nat : i <= L => Accumulated(t, n + i, w[i])}
  <1>1. n \in Nat /\ m \in Nat /\ Len(t) \in Nat /\ n <= m /\ m <= Len(t)
    BY TextIs
  <1>2. /\ L = m - n /\ \A i \in 1 .. m - n : s[i] = t[n + i]
    BY <1>1, PartFrom
  <1>3. L \in Nat /\ n + L = m
    BY <1>1, <1>2, SMTT(30)
  <1>4. Feed(a, s) = w[L]
    BY DEF Feed, Feeds, FedAt
  <1>5. Feeds(w, a, s, L)
    BY <1>3, FeedsExist
  <1> HIDE DEF s, L, w
  <1>6. \A i \in 0 .. L : w[i] = FedAt(w, a, s, i)
    BY <1>5 DEF Feeds
  <1>7. 0 \in N
    <2>1. w[0] = a
      BY <1>3, <1>6 DEF FedAt
    <2>2. n + 0 = n
      BY <1>1
    <2> QED
      BY <2>1, <2>2
  <1>8. ASSUME NEW i \in N
        PROVE  i + 1 \in N
    <2>1. i \in Nat /\ (i <= L => Accumulated(t, n + i, w[i]))
      BY <1>8
    <2>2. CASE ~(i + 1 <= L)
      BY <2>1, <2>2
    <2>3. CASE i + 1 <= L
      <3>1. /\ i + 1 \in 0 .. L /\ i + 1 \in 1 .. m - n /\ i + 1 # 0
            /\ i + 1 - 1 = i /\ i <= L /\ n + (i + 1) = n + i + 1
            /\ n + i \in Nat /\ n + i + 1 <= Len(t)
        BY <1>1, <1>2, <1>3, <2>1, <2>3
      <3>2. w[i + 1] = FeedSymbol(w[i], s[i + 1])
        BY <1>6, <3>1 DEF FedAt
      <3>3. s[i + 1] = t[n + i + 1]
        BY <1>2, <3>1
      <3> DEFINE p == n + i
      <3>4. /\ p \in Nat /\ p + 1 <= Len(t) /\ Accumulated(t, p, w[i])
            /\ w[i + 1] = FeedSymbol(w[i], t[p + 1])
        BY <2>1, <3>1, <3>2, <3>3
      <3> HIDE DEF p
      <3>5. Accumulated(t, p + 1, w[i + 1])
        BY <3>4, SymbolKnown, Zenon
      <3>6. p + 1 = n + (i + 1)
        BY <3>1 DEF p
      <3> QED
        BY <2>1, <3>5, <3>6
    <2> QED
      BY <2>2, <2>3
  <1>9. N = Nat
    <2>1. N \in SUBSET Nat
      OBVIOUS
    <2> HIDE DEF N
    <2> QED
      BY <1>7, <1>8, <2>1, Induction
  <1>10. L \in N
    BY <1>3, <1>9
  <1>11. Accumulated(t, m, Feed(a, s))
    BY <1>3, <1>4, <1>10
  <1> QED
    BY <1>11 DEF s

\* A text that is read at once.
LEMMA TextKnown ==
    ASSUME NEW t, IsText(t)
    PROVE  Accumulated(t, Len(t), Feed(NewAccumulator, t))
  <1>1. Len(t) \in Nat /\ 0 + 1 = 1 /\ t = Part(t, 1, Len(t))
    BY TextIs
  <1>2. 0 \in 0 .. Len(t) /\ Len(t) \in 0 .. Len(t)
    BY <1>1
  <1>3. Accumulated(t, 0, NewAccumulator)
    BY NewKnows
  <1>4. Accumulated(t, Len(t), Feed(NewAccumulator, Part(t, 0 + 1, Len(t))))
    BY <1>2, <1>3, ChunkKnown, Zenon
  <1> QED
    BY <1>1, <1>4

-----------------------------------------------------------------------------
(* The tags of a whole text *)

\* The text ends with a tag name.
Pending(t) == \E i, j, k : Tag(t, i, j, k) /\ j + Len(k) = Len(t) + 1

Broken(t) == Spoilt(t, Len(t)) \/ Pending(t)

LEMMA ExactAre ==
    ASSUME NEW t, IsText(t)
    PROVE  ExactTags(t) = Exact(t, Len(t))
  <1>1. Len(t) \in Nat /\ DOMAIN t = 1 .. Len(t)
    BY TextIs
  <1>2. ASSUME NEW i \in Exact(t, Len(t))
        PROVE  i \in ExactTags(t)
    <2>1. PICK j, k : Good(t, i, j, k)
      BY DEF Exact
    <2>2. i \in 1 .. Len(t) /\ k \in Kinds
      BY <2>1 DEF Exact, Good, Tag
    <2>3. At(t, i, Open(k)) \/ At(t, i, Close(k))
      BY <2>1, GoodIs
    <2> QED
      BY <1>1, <2>2, <2>3 DEF ExactTags, Places
  <1>3. ASSUME NEW i \in ExactTags(t)
        PROVE  i \in Exact(t, Len(t))
    <2>1. PICK k \in Kinds : i \in Places(t, Open(k)) \union Places(t, Close(k))
      BY DEF ExactTags
    <2>2. /\ i \in 1 .. Len(t)
          /\ At(t, i, Open(k)) \/ At(t, i, Close(k))
      BY <1>1, <2>1 DEF Places
    <2>3. PICK j : Good(t, i, j, k)
      BY <2>2, OpenIsGood, CloseIsGood
    <2>4. j + Len(k) <= Len(t)
      BY <2>3 DEF Good
    <2> QED
      BY <2>2, <2>3, <2>4 DEF Exact
  <1> QED
    BY <1>2, <1>3

\* A place has at most one tag.
LEMMA OnePlace ==
    ASSUME NEW t, IsText(t), NEW i, NEW j, NEW k, Tag(t, i, j, k),
           NEW y, NEW l, Tag(t, i, y, l)
    PROVE  y = j /\ l = k
  <1>1. ASSUME NEW p, NEW a, Tag(t, i, p, a), NEW q, NEW b, Tag(t, i, q, b)
        PROVE  ~(p < q)
    <2>1. /\ i \in Nat /\ p \in Nat /\ i < p /\ q \in Nat /\ t[p] = "p"
      BY <1>1, TagIs
    <2>2. p < q => p \in i + 1 .. q - 1
      BY <2>1
    <2>3. p < q => t[p] \in White \union {"/"}
      BY <1>1, <2>2 DEF Tag, Gap
    <2> QED
      BY <2>1, <2>3 DEF White
  <1>2. j \in Nat /\ y \in Nat
    BY TagIs
  <1>3. y = j
    BY <1>1, <1>2
  <1> QED
    BY <1>3, OneName

LEMMA RecognizedIs ==
    ASSUME NEW t, IsText(t), NEW i
    PROVE  i \in Recognized(t) <=>
             \E j, k : /\ Tag(t, i, j, k)
                       /\ \/ Good(t, i, j, k) \/ Bad(t, i, j, k)
                          \/ j + Len(k) = Len(t) + 1
  <1>1. Len(t) \in Nat /\ DOMAIN t = 1 .. Len(t)
    BY TextIs
  <1>2. ASSUME i \in Recognized(t)
        PROVE  \E j, k : /\ Tag(t, i, j, k)
                         /\ \/ Good(t, i, j, k) \/ Bad(t, i, j, k)
                            \/ j + Len(k) = Len(t) + 1
    <2>1. i \in 1 .. Len(t) /\ RecognizedAt(t, i)
      BY <1>1, <1>2 DEF Recognized
    <2>2. PICK k \in Kinds, j \in i + 1 .. Len(t) :
          /\ t[i] = "<" /\ At(t, j, k)
          /\ \A n \in i + 1 .. j - 1 : t[n] \in White \union {"/"}
          /\ \A m, n \in i + 1 .. j - 1 : t[m] = "/" /\ t[n] = "/" => m = n
          /\ j + Len(k) <= Len(t) => t[j + Len(k)] \in White \union {">", "/"}
      BY <2>1 DEF RecognizedAt
    <2>3. IsText(k) /\ Len(k) \in Nat /\ Len(k) > 0
      BY KindIs
    <2>4. i \in Nat \ {0} /\ j \in Nat /\ i < j /\ j \in 1 .. Len(t) + 1
      BY <1>1, <2>1
    <2>5. Reads(t, j, k)
      BY <2>2, <2>3, <2>4, AtIs
    <2>6. Gap(t, i, j)
      BY <2>2, <2>4 DEF Gap
    <2>7. Tag(t, i, j, k)
      BY <2>5, <2>6 DEF Tag
    <2>8. j + Len(k) <= Len(t) + 1
      BY <2>7, TagIs
    <2>9. j + Len(k) <= Len(t) \/ j + Len(k) = Len(t) + 1
      BY <1>1, <2>3, <2>4, <2>8
    <2>10. j + Len(k) <= Len(t) => Good(t, i, j, k) \/ Bad(t, i, j, k)
      BY <2>2, <2>7 DEF Bad
    <2> QED
      BY <2>7, <2>9, <2>10
  <1>3. ASSUME NEW j, NEW k, Tag(t, i, j, k),
               \/ Good(t, i, j, k) \/ Bad(t, i, j, k)
               \/ j + Len(k) = Len(t) + 1
        PROVE  i \in Recognized(t)
    <2>1. /\ k \in Kinds /\ IsText(k) /\ Len(k) \in Nat /\ Len(k) > 1
          /\ i \in Nat /\ j \in Nat /\ i < j /\ i \in 1 .. Len(t)
          /\ j + Len(k) <= Len(t) + 1 /\ t[i] = "<"
      BY <1>3, TagIs
    <2>2. j \in i + 1 .. Len(t) /\ j \in 1 .. Len(t) + 1 /\ Len(k) > 0
      BY <1>1, <2>1
    <2>3. At(t, j, k)
      BY <1>3, <2>1, <2>2, AtIs DEF Tag
    <2>4. j + Len(k) <= Len(t) => t[j + Len(k)] \in White \union {">", "/"}
      <3>1. ~(Len(t) + 1 <= Len(t))
        BY <1>1
      <3> QED
        BY <1>3, <3>1 DEF Good, Bad
    <2>5. /\ \A n \in i + 1 .. j - 1 : t[n] \in White \union {"/"}
          /\ \A m, n \in i + 1 .. j - 1 : t[m] = "/" /\ t[n] = "/" => m = n
      BY <1>3 DEF Tag, Gap
    <2>6. RecognizedAt(t, i)
      BY <2>1, <2>2, <2>3, <2>4, <2>5 DEF RecognizedAt
    <2> QED
      BY <1>1, <2>1, <2>6 DEF Recognized
  <1> QED
    BY <1>2, <1>3

\* The recognized tags are the exact ones and those that break a text.
LEMMA RecognizedAre ==
    ASSUME NEW t, IsText(t)
    PROVE  /\ Exact(t, Len(t)) \subseteq Recognized(t)
           /\ Recognized(t) = Exact(t, Len(t)) <=> ~Broken(t)
  <1>1. ASSUME NEW i \in Exact(t, Len(t))
        PROVE  i \in Recognized(t)
    <2>1. PICK j, k : Good(t, i, j, k)
      BY DEF Exact
    <2> QED
      BY <2>1, RecognizedIs DEF Good
  <1>2. ASSUME NEW i \in Recognized(t), ~Broken(t)
        PROVE  i \in Exact(t, Len(t))
    <2>1. PICK j, k : /\ Tag(t, i, j, k)
                      /\ \/ Good(t, i, j, k) \/ Bad(t, i, j, k)
                         \/ j + Len(k) = Len(t) + 1
      BY RecognizedIs
    <2>2. ~Bad(t, i, j, k)
      BY <1>2 DEF Broken, Spoilt, Bad
    <2>3. Good(t, i, j, k)
      BY <1>2, <2>1, <2>2 DEF Broken, Pending
    <2>4. i \in 1 .. Len(t) /\ j + Len(k) <= Len(t)
      BY <2>1, <2>3, TagIs DEF Good
    <2> QED
      BY <2>3, <2>4 DEF Exact
  <1>3. ASSUME Broken(t)
        PROVE  \E i \in Recognized(t) : i \notin Exact(t, Len(t))
    <2>1. PICK i, j, k : /\ Tag(t, i, j, k)
                         /\ Bad(t, i, j, k) \/ j + Len(k) = Len(t) + 1
      BY <1>3 DEF Broken, Spoilt, Pending, Bad
    <2>2. i \in Recognized(t)
      BY <2>1, RecognizedIs
    <2>3. ASSUME i \in Exact(t, Len(t))
          PROVE  FALSE
      <3>1. PICK y, l : Good(t, i, y, l)
        BY <2>3 DEF Exact
      <3>2. y = j /\ l = k
        BY <2>1, <3>1, OnePlace DEF Good
      <3>3. ~Bad(t, i, j, k)
        BY <3>1, <3>2 DEF Bad
      <3>4. j + Len(k) <= Len(t)
        BY <3>1, <3>2 DEF Good
      <3>5. Len(t) \in Nat
        BY TextIs
      <3> QED
        BY <2>1, <3>3, <3>4, <3>5
    <2> QED
      BY <2>2, <2>3
  <1> QED
    BY <1>1, <1>2, <1>3

LEMMA PendingIs ==
    ASSUME NEW t, IsText(t), NEW k, Follows(t, Len(t), k)
    PROVE  k # None /\ k.stage = "after-tag" <=> Pending(t)
  <1> DEFINE n == Len(t)
  <1>1. n \in Nat /\ n <= Len(t)
    BY TextIs
  <1>2. Pending(t) <=> \E x, y, l : Tag(t, x, y, l) /\ y + Len(l) = n + 1
    BY DEF Pending
  <1>3. Follows(t, n, k)
    OBVIOUS
  <1> HIDE DEF n
  <1>4. ASSUME k = None, NoneAlive(t, n)
        PROVE  ~Pending(t)
    BY <1>1, <1>2, <1>4, TagAlive DEF NoneAlive
  <1>5. ASSUME NEW i, NEW j, Tracks(t, i, j, n, k)
        PROVE  k # None /\ (k.stage = "after-tag" <=> Pending(t))
    <2>1. /\ Alive(t, i, j, n) /\ k # None /\ j \in Nat
      BY <1>1, <1>5, TrackIs
    <2>2. k.name = Part(t, j, n) /\ k.stage = StageOf(k, j <= n)
      BY <1>5 DEF Tracks
    <2>3. ASSUME k.stage = "after-tag"
          PROVE  Pending(t)
      <3>1. k.name \in Kinds
        BY <2>2, <2>3 DEF StageOf
      <3>2. Tag(t, i, j, k.name) /\ j + Len(k.name) = n + 1
        BY <1>1, <2>1, <2>2, <3>1, AliveTag
      <3> QED
        BY <1>2, <3>2
    <2>4. ASSUME NEW x, NEW y, NEW l, Tag(t, x, y, l), y + Len(l) = n + 1
          PROVE  k.stage = "after-tag"
      <3>1. Alive(t, x, y, n) /\ y <= n /\ Part(t, y, n) = l /\ l \in Kinds
        BY <1>1, <2>4, TagAlive, TagIs
      <3>2. x = i /\ y = j
        BY <1>1, <2>1, <3>1, OneAlive, Zenon
      <3> QED
        BY <2>2, <3>1, <3>2 DEF StageOf
    <2> QED
      BY <1>2, <2>1, <2>3, <2>4
  <1> QED
    BY <1>3, <1>4, <1>5 DEF Follows

-----------------------------------------------------------------------------
(* The result of a whole text *)

Body(t, i, m, k) == Strip(Part(t, i + Len(k) + 2, m - 1))

\* The tags of k at i and m are the only ones and enclose a valid result.
Valid(t, i, m, k) ==
    /\ k \in Kinds /\ At(t, i, Open(k)) /\ At(t, m, Close(k))
    /\ i + Len(k) + 2 <= m
    /\ Exact(t, Len(t)) = {i, m} /\ ~Broken(t)
    /\ FramedAt(t, i) /\ ~Trails(t, Len(t), m + Len(k) + 3)
    /\ Body(t, i, m, k) # << >>

LEMMA TagLengths ==
    ASSUME NEW k \in Kinds
    PROVE  /\ Len(k) \in Nat /\ Len(k) > 1
           /\ Len(Open(k)) = Len(k) + 2 /\ Len(Close(k)) = Len(k) + 3
  BY KindIs, OpenIs, CloseIs

LEMMA NothingTrails ==
    ASSUME NEW t, IsText(t), NEW q \in 1 .. Len(t) + 1
    PROVE  Strip(Part(t, q, Len(t))) = << >> <=> ~Trails(t, Len(t), q)
  <1> DEFINE n == Len(t)
             s == Part(t, q, n)
  <1>1. n \in Nat /\ q \in Nat /\ n \in q - 1 .. Len(t) /\ q >= 1
    BY TextIs
  <1>2. /\ IsText(s) /\ Len(s) = n - q + 1
        /\ \A i \in 1 .. n - q + 1 : s[i] = t[q + i - 1]
    BY <1>1, PartIs
  <1>3. Strip(s) = << >> <=> \A i \in 1 .. n - q + 1 : s[i] \in White
    BY <1>2, StripIs
  <1> HIDE DEF n, s
  <1>4. \A j \in q .. n : j - q + 1 \in 1 .. n - q + 1 /\ q + (j - q + 1) - 1 = j
    BY <1>1
  <1>5. \A i \in 1 .. n - q + 1 : q + i - 1 \in q .. n
    BY <1>1
  <1>6. Strip(s) = << >> <=> \A j \in q .. n : t[j] \in White
    BY <1>2, <1>3, <1>4, <1>5
  <1> QED
    BY <1>6 DEF Trails, n, s

LEMMA ValidIs ==
    ASSUME NEW t, IsText(t), NEW i, NEW m, NEW k, Valid(t, i, m, k)
    PROVE  /\ k \in Kinds /\ Len(k) \in Nat /\ Len(t) \in Nat
           /\ i \in 1 .. Len(t) /\ m \in 1 .. Len(t) /\ i < m
           /\ m + Len(k) + 2 <= Len(t)
           /\ t[i] = "<" /\ t[m + Len(k) + 2] = ">"
  <1>1. k \in Kinds /\ Exact(t, Len(t)) = {i, m} /\ i + Len(k) + 2 <= m
    BY DEF Valid
  <1>2. /\ i \in 1 .. Len(t) /\ m \in 1 .. Len(t) /\ Len(t) \in Nat
        /\ Len(k) \in Nat
    BY <1>1, TextIs, KindIs DEF Exact
  <1>3. Good(t, i, i + 1, k) /\ Good(t, m, m + 2, k)
    BY <1>1, <1>2, OpenIsGood, CloseIsGood DEF Valid
  <1>4. t[i] = "<"
    BY <1>3, TagIs DEF Good
  <1>5. (m + 2) + Len(k) <= Len(t) /\ t[(m + 2) + Len(k)] = ">"
    BY <1>3 DEF Good
  <1>6. (m + 2) + Len(k) = m + Len(k) + 2 /\ i < m
    BY <1>1, <1>2
  <1> QED
    BY <1>1, <1>2, <1>4, <1>5, <1>6

LEMMA TwoPlaces ==
    ASSUME NEW i \in Nat, NEW m \in Nat, i < m,
           NEW x \in Nat, NEW y \in Nat, x < y, {i, m} = {x, y}
    PROVE  x = i /\ y = m
  <1>1. (i = x \/ i = y) /\ (m = x \/ m = y)
    OBVIOUS
  <1>2. (x = i \/ x = m) /\ (y = i \/ y = m)
    OBVIOUS
  <1> QED
    BY <1>1, <1>2

LEMMA OneValid ==
    ASSUME NEW t, IsText(t), NEW i, NEW m, NEW k, Valid(t, i, m, k),
           NEW x, NEW y, NEW l, Valid(t, x, y, l)
    PROVE  x = i /\ y = m /\ l = k
  <1>1. /\ i \in Nat /\ m \in Nat /\ i < m /\ i \in 1 .. Len(t) + 1
        /\ x \in Nat /\ y \in Nat /\ x < y /\ k \in Kinds /\ l \in Kinds
    BY ValidIs
  <1>2. {i, m} = {x, y}
    BY DEF Valid
  <1>3. x = i /\ y = m
    BY <1>1, <1>2, TwoPlaces
  <1>4. At(t, i, Open(k)) /\ At(t, i, Open(l))
    BY <1>3 DEF Valid
  <1> QED
    BY <1>1, <1>3, <1>4, OneOpen

\* One symbol as a tag.
LEMMA AtOne ==
    ASSUME NEW t, IsText(t), NEW i \in 1 .. Len(t), NEW c
    PROVE  At(t, i, <<c>>) <=> t[i] = c
  <1>1. Len(t) \in Nat /\ Len(<<c>>) = 1 /\ i + 1 - 1 = i
    BY TextIs
  <1>2. Part(t, i, i) = <<t[i]>>
    BY PartOne
  <1> QED
    BY <1>1, <1>2 DEF At, Part

LEMMA BlocksAre ==
    ASSUME NEW t, IsText(t), NEW b
    PROVE  b \in Blocks(t) <=>
             \E i, m, k : Valid(t, i, m, k) /\ b = <<k, i, m + Len(k) + 2>>
  <1>1. /\ Len(t) \in Nat /\ DOMAIN t = 1 .. Len(t)
        /\ ExactTags(t) = Exact(t, Len(t))
    BY TextIs, ExactAre
  <1>2. ASSUME b \in Blocks(t)
        PROVE  \E i, m, k : Valid(t, i, m, k) /\ b = <<k, i, m + Len(k) + 2>>
    <2> DEFINE k == b[1]
               i == b[2]
               last == b[3]
               m == last - Len(Close(k)) + 1
    <2>1. /\ b \in Kinds \X Places(t, <<"<">>) \X Places(t, <<">">>)
          /\ At(t, i, Open(k))
          /\ m >= i + Len(Open(k)) /\ At(t, m, Close(k))
          /\ Recognized(t) = {i, m} /\ ExactTags(t) = {i, m}
          /\ i > 1 => t[i - 1] = "newline"
          /\ ~InFence(t, i)
          /\ Strip(Part(t, last + 1, Len(t))) = << >>
          /\ Strip(Part(t, i + Len(Open(k)), m - 1)) # << >>
      BY <1>2 DEF Blocks, Part
    <2>2. /\ k \in Kinds /\ i \in 1 .. Len(t) /\ last \in 1 .. Len(t)
          /\ b = <<k, i, last>>
      BY <1>1, <2>1 DEF Places
    <2>3. /\ Len(k) \in Nat
          /\ Len(Open(k)) = Len(k) + 2 /\ Len(Close(k)) = Len(k) + 3
      BY <2>2, TagLengths
    <2> HIDE DEF k, i, last
    <2>4. /\ m + Len(k) + 3 = last + 1 /\ m + Len(k) + 2 = last
          /\ i + Len(k) + 2 <= m /\ i + Len(Open(k)) = i + Len(k) + 2
          /\ last + 1 \in 1 .. Len(t) + 1
      BY <1>1, <2>1, <2>2, <2>3
    <2> HIDE DEF m
    <2>5. Exact(t, Len(t)) = {i, m} /\ ~Broken(t)
      BY <1>1, <2>1, RecognizedAre
    <2>6. FramedAt(t, i)
      BY <2>1 DEF FramedAt
    <2>7. ~Trails(t, Len(t), m + Len(k) + 3)
      BY <2>1, <2>4, NothingTrails
    <2>8. Body(t, i, m, k) # << >>
      BY <2>1, <2>4 DEF Body
    <2>9. Valid(t, i, m, k)
      BY <2>1, <2>2, <2>4, <2>5, <2>6, <2>7, <2>8 DEF Valid
    <2> QED
      BY <2>2, <2>4, <2>9
  <1>3. ASSUME NEW i, NEW m, NEW k, Valid(t, i, m, k),
               b = <<k, i, m + Len(k) + 2>>
        PROVE  b \in Blocks(t)
    <2> DEFINE last == m + Len(k) + 2
    <2>1. /\ k \in Kinds /\ Len(k) \in Nat /\ i \in 1 .. Len(t)
          /\ m \in 1 .. Len(t) /\ last <= Len(t) /\ t[i] = "<" /\ t[last] = ">"
      BY <1>3, ValidIs
    <2>2. /\ Len(Open(k)) = Len(k) + 2 /\ Len(Close(k)) = Len(k) + 3
      BY <2>1, TagLengths
    <2>3. /\ last - Len(Close(k)) + 1 = m /\ i + Len(Open(k)) = i + Len(k) + 2
          /\ last \in 1 .. Len(t) /\ last + 1 \in 1 .. Len(t) + 1
          /\ m + Len(k) + 3 = last + 1 /\ i + Len(k) + 2 <= m
      BY <1>1, <1>3, <2>1, <2>2 DEF Valid
    <2>4. b = <<k, i, last>>
      BY <1>3
    <2> HIDE DEF last
    <2>5. i \in Places(t, <<"<">>) /\ last \in Places(t, <<">">>)
      BY <1>1, <2>1, <2>3, AtOne DEF Places
    <2>6. /\ At(t, i, Open(k)) /\ At(t, m, Close(k))
          /\ Recognized(t) = {i, m} /\ ExactTags(t) = {i, m}
      BY <1>1, <1>3, RecognizedAre DEF Valid
    <2>7. (i > 1 => t[i - 1] = "newline") /\ ~InFence(t, i)
      BY <1>3 DEF Valid, FramedAt
    <2>8. Strip(Part(t, last + 1, Len(t))) = << >>
      BY <1>3, <2>3, NothingTrails DEF Valid
    <2>9. Strip(Part(t, i + Len(Open(k)), m - 1)) # << >>
      BY <1>3, <2>3 DEF Valid, Body
    <2>10. /\ b \in Kinds \X Places(t, <<"<">>) \X Places(t, <<">">>)
           /\ b[1] = k /\ b[2] = i /\ b[3] = last
      BY <2>1, <2>4, <2>5
    <2>11. m >= i + Len(Open(k))
      BY <1>1, <2>1, <2>3
    <2> QED
      BY <2>3, <2>6, <2>7, <2>8, <2>9, <2>10, <2>11 DEF Blocks, Part
  <1> QED
    BY <1>2, <1>3

LEMMA MarkersAre ==
    ASSUME NEW t, IsText(t)
    PROVE  /\ (\A i, m, k : ~Valid(t, i, m, k)) => MarkersOf(t) = {}
           /\ \A i, m, k : Valid(t, i, m, k) =>
                 MarkersOf(t) = {[kind |-> k, body |-> Body(t, i, m, k)]}
  <1>1. ASSUME \A i, m, k : ~Valid(t, i, m, k)
        PROVE  MarkersOf(t) = {}
    <2>1. Blocks(t) = {}
      BY <1>1, BlocksAre
    <2> QED
      BY <2>1 DEF MarkersOf
  <1>2. ASSUME NEW i, NEW m, NEW k, Valid(t, i, m, k)
        PROVE  MarkersOf(t) = {[kind |-> k, body |-> Body(t, i, m, k)]}
    <2> DEFINE last == m + Len(k) + 2
               c == <<k, i, last>>
    <2>1. Blocks(t) = {c}
      <3>1. c \in Blocks(t)
        BY <1>2, BlocksAre
      <3>2. ASSUME NEW b \in Blocks(t)
            PROVE  b = c
        <4>1. PICK x, y, l : Valid(t, x, y, l) /\ b = <<l, x, y + Len(l) + 2>>
          BY BlocksAre
        <4>2. x = i /\ y = m /\ l = k
          BY <1>2, <4>1, OneValid
        <4> QED
          BY <4>1, <4>2
      <3> QED
        BY <3>1, <3>2
    <2>2. /\ k \in Kinds /\ Len(k) \in Nat /\ i \in Nat /\ m \in Nat
          /\ Len(t) \in Nat
      BY <1>2, ValidIs
    <2>3. /\ Len(Open(k)) = Len(k) + 2 /\ Len(Close(k)) = Len(k) + 3
      BY <2>2, TagLengths
    <2>4. i + Len(Open(k)) = i + Len(k) + 2 /\ last - Len(Close(k)) = m - 1
      BY <2>2, <2>3
    <2>5. c[1] = k /\ c[2] = i /\ c[3] = last
      OBVIOUS
    <2> HIDE DEF last, c
    <2>6. MarkersOf(t) =
            {[kind |-> c[1],
              body |-> Strip(SubSeq(t, c[2] + Len(Open(c[1])),
                                       c[3] - Len(Close(c[1]))))]}
      BY <2>1 DEF MarkersOf
    <2> QED
      BY <2>4, <2>5, <2>6 DEF Body, Part
  <1> QED
    BY <1>1, <1>2

LEMMA CountIs ==
    ASSUME NEW t, IsText(t), NEW n, NEW a, Counted(t, n, a)
    PROVE  /\ a.tags = 0 <=> Exact(t, n) = {}
           /\ a.tags = 0 => a.blocks = 0
           /\ a.tags = 2 /\ a.blocks = 1 => \E i, m, k : Block(t, n, a, i, m, k)
  <1>1. CASE Empty(t, n, a)
    BY <1>1 DEF Empty
  <1>2. ASSUME NEW i, NEW k, Opened(t, n, a, i, k)
        PROVE  a.tags = 1 /\ Exact(t, n) # {}
    BY <1>2 DEF Opened
  <1>3. ASSUME NEW i, Stray(t, n, a, i)
        PROVE  a.tags = 1 /\ Exact(t, n) # {}
    BY <1>3 DEF Stray
  <1>4. ASSUME NEW i, NEW m, NEW k, Block(t, n, a, i, m, k)
        PROVE  a.tags = 2 /\ Exact(t, n) # {}
    BY <1>4 DEF Block
  <1>5. ASSUME NEW i, NEW m, Odd(t, n, a, i, m)
        PROVE  a.tags = 2 /\ Exact(t, n) # {} /\ a.blocks = 0
    BY <1>5 DEF Odd
  <1>6. ASSUME Many(t, n, a)
        PROVE  a.tags > 2 /\ Exact(t, n) # {}
    BY <1>6 DEF Many, Three
  <1>7. 1 # 0 /\ 2 # 0 /\ 1 # 2 /\ ~(0 > 2) /\ ~(2 > 2)
    OBVIOUS
  <1>8. CASE \E i, k : Opened(t, n, a, i, k)
    BY <1>2, <1>7, <1>8
  <1>9. CASE \E i : Stray(t, n, a, i)
    BY <1>3, <1>7, <1>9
  <1>10. CASE \E i, m, k : Block(t, n, a, i, m, k)
    BY <1>4, <1>7, <1>10
  <1>11. CASE \E i, m : Odd(t, n, a, i, m)
    BY <1>5, <1>7, <1>11
  <1>12. CASE Many(t, n, a)
    BY <1>6, <1>7, <1>12
  <1> QED
    BY <1>1, <1>8, <1>9, <1>10, <1>11, <1>12 DEF Counted

\* A block whose two tags are the only ones is what was counted.
LEMMA ValidCount ==
    ASSUME NEW t, IsText(t), NEW a, Counted(t, Len(t), a),
           NEW i, NEW m, NEW k, Valid(t, i, m, k)
    PROVE  Block(t, Len(t), a, i, m, k)
  <1> DEFINE S == Exact(t, Len(t))
  <1>1. /\ i \in Nat /\ m \in Nat /\ i < m /\ k \in Kinds
        /\ i \in 1 .. Len(t) + 1
    BY ValidIs
  <1>2. S = {i, m}
    BY DEF Valid
  <1>3. \A x \in S : x \in Nat
    BY <1>1, <1>2
  <1>4. ~Empty(t, Len(t), a)
    BY <1>2 DEF Empty
  <1>5. ASSUME NEW x, S = {x}
        PROVE  FALSE
    <2>1. i = x /\ m = x
      BY <1>2, <1>5
    <2> QED
      BY <1>1, <2>1
  <1>6. ~Three(S)
    BY <1>2 DEF Three
  <1>7. ASSUME NEW x, NEW y, S = {x, y}, x \in Nat => (y \in Nat => x < y)
        PROVE  x = i /\ y = m
    <2>1. x \in Nat /\ y \in Nat
      BY <1>3, <1>7
    <2>2. x < y
      BY <1>7, <2>1
    <2> QED
      BY <1>1, <1>2, <1>7, <2>1, <2>2, TwoPlaces, ZenonT(40)
  <1>8. ASSUME NEW x, NEW y, Odd(t, Len(t), a, x, y)
        PROVE  FALSE
    <2>1. S = {x, y} /\ x < y /\ ~Pair(t, x, y)
      BY <1>8 DEF Odd
    <2>2. x = i /\ y = m
      BY <1>7, <2>1
    <2> QED
      BY <1>1, <2>1, <2>2 DEF Valid, Pair
  <1>9. ASSUME NEW x, NEW y, NEW l, Block(t, Len(t), a, x, y, l)
        PROVE  Block(t, Len(t), a, i, m, k)
    <2>1. /\ S = {x, y} /\ x + Len(l) + 2 <= y /\ l \in Kinds
          /\ At(t, x, Open(l))
      BY <1>9 DEF Block
    <2>2. Len(l) \in Nat
      BY <2>1, KindIs
    <2>3. x \in Nat => (y \in Nat => x < y)
      BY <2>1, <2>2
    <2>4. x = i /\ y = m
      BY <1>7, <2>1, <2>3
    <2>5. l = k
      <3>1. At(t, i, Open(k)) /\ At(t, i, Open(l))
        BY <2>1, <2>4 DEF Valid
      <3> QED
        BY <1>1, <2>1, <3>1, OneOpen
    <2> QED
      BY <1>9, <2>4, <2>5
  <1> HIDE DEF S
  <1>10. ~\E x, l : Opened(t, Len(t), a, x, l)
    BY <1>5 DEF Opened, S
  <1>11. ~\E x : Stray(t, Len(t), a, x)
    BY <1>5 DEF Stray, S
  <1>12. ~Many(t, Len(t), a)
    BY <1>6 DEF Many, S
  <1> QED
    BY <1>4, <1>8, <1>9, <1>10, <1>11, <1>12, Zenon DEF Counted

\* What makes a count an accepted result.
Accepts(a) ==
    /\ a.tags = 2 /\ a.blocks = 1 /\ a.framed /\ ~a.after
    /\ a.done.body # << >>

\* What makes an accumulator invalid.
Malformed(a) ==
    \/ a.malformed
    \/ a.candidate # None /\ a.candidate.stage = "after-tag"

LEMMA JudgeCases ==
    ASSUME NEW a, IsAccumulator(a), a.tags = 0 => a.blocks = 0
    PROVE  /\ Judge(a).verdict \in {"multiple", "invalid", "none", "accepted"}
           /\ Judge(a).verdict = "none" <=> a.tags = 0 /\ ~Malformed(a)
           /\ Judge(a).verdict = "accepted" <=> Accepts(a) /\ ~Malformed(a)
           /\ Accepts(a) /\ ~Malformed(a) => Judge(a).marker = a.done
  <1>1. a.tags \in Nat /\ a.blocks \in Nat
    BY DEF IsAccumulator, Accumulators
  <1>2. Judge(a) =
          IF a.tags > 2 \/ a.blocks > 1 THEN Verdict("multiple", None)
          ELSE IF Malformed(a) THEN Verdict("invalid", None)
          ELSE IF a.tags = 0 THEN Verdict("none", None)
          ELSE IF ~Accepts(a) THEN Verdict("invalid", None)
          ELSE Verdict("accepted", a.done)
    BY DEF Judge, Malformed, Accepts
  <1>3. Accepts(a) => a.tags = 2 /\ a.blocks = 1
    BY DEF Accepts
  <1>4. \A v, x : Verdict(v, x).verdict = v /\ Verdict(v, x).marker = x
    BY DEF Verdict
  <1> QED
    BY <1>1, <1>2, <1>3, <1>4

LEMMA BlockValid ==
    ASSUME NEW t, IsText(t), NEW a, NEW i, NEW m, NEW k,
           Block(t, Len(t), a, i, m, k)
    PROVE  /\ a.done = [kind |-> k, body |-> Body(t, i, m, k)]
           /\ Accepts(a) /\ ~Broken(t) <=> Valid(t, i, m, k)
  <1>1. /\ a.done = [kind |-> k, body |-> Body(t, i, m, k)]
        /\ a.tags = 2 /\ a.blocks = 1
        /\ a.framed <=> FramedAt(t, i)
        /\ a.after <=> Trails(t, Len(t), m + Len(k) + 3)
    BY DEF Block, Body
  <1>2. a.done.body = Body(t, i, m, k)
    BY <1>1
  <1>3. Accepts(a) <=> /\ FramedAt(t, i)
                       /\ ~Trails(t, Len(t), m + Len(k) + 3)
                       /\ Body(t, i, m, k) # << >>
    BY <1>1, <1>2 DEF Accepts
  <1>4. /\ k \in Kinds /\ At(t, i, Open(k)) /\ At(t, m, Close(k))
        /\ i + Len(k) + 2 <= m /\ Exact(t, Len(t)) = {i, m}
    BY DEF Block
  <1> QED
    BY <1>1, <1>3, <1>4 DEF Valid

\* An accumulator that has read a text says what the text means.
Judged(t, v) ==
    /\ v.verdict \in {"multiple", "invalid", "none", "accepted"}
    /\ v.verdict = "none" <=> Recognized(t) = {}
    /\ v.verdict = "accepted" => MarkersOf(t) = {v.marker}
    /\ v.verdict # "accepted" => MarkersOf(t) = {}

LEMMA JudgeIs ==
    ASSUME NEW t, IsText(t), NEW a, Accumulated(t, Len(t), a)
    PROVE  Judged(t, Judge(a))
  <1>1. /\ IsAccumulator(a) /\ Follows(t, Len(t), a.candidate)
        /\ a.malformed <=> Spoilt(t, Len(t))
        /\ Counted(t, Len(t), a)
    BY DEF Accumulated
  <1>2. Malformed(a) <=> Broken(t)
    BY <1>1, PendingIs DEF Malformed, Broken
  <1>3. a.tags = 0 => a.blocks = 0
    BY <1>1, CountIs
  <1>4. /\ Judge(a).verdict \in {"multiple", "invalid", "none", "accepted"}
        /\ Judge(a).verdict = "none" <=> a.tags = 0 /\ ~Broken(t)
        /\ Judge(a).verdict = "accepted" <=> Accepts(a) /\ ~Broken(t)
        /\ Accepts(a) /\ ~Broken(t) => Judge(a).marker = a.done
    BY <1>1, <1>2, <1>3, JudgeCases
  <1>5. a.tags = 0 /\ ~Broken(t) <=> Recognized(t) = {}
    <2>1. a.tags = 0 <=> Exact(t, Len(t)) = {}
      BY <1>1, CountIs
    <2> QED
      BY <2>1, RecognizedAre
  <1>6. ASSUME Accepts(a), ~Broken(t)
        PROVE  MarkersOf(t) = {a.done}
    <2>1. a.tags = 2 /\ a.blocks = 1
      BY <1>6 DEF Accepts
    <2>2. PICK i, m, k : Block(t, Len(t), a, i, m, k)
      BY <1>1, <2>1, CountIs
    <2>3. /\ a.done = [kind |-> k, body |-> Body(t, i, m, k)]
          /\ Valid(t, i, m, k)
      BY <1>6, <2>2, BlockValid
    <2> QED
      BY <2>3, MarkersAre
  <1>7. ASSUME ~(Accepts(a) /\ ~Broken(t))
        PROVE  MarkersOf(t) = {}
    <2>1. ASSUME NEW i, NEW m, NEW k, Valid(t, i, m, k)
          PROVE  FALSE
      <3>1. Block(t, Len(t), a, i, m, k)
        BY <1>1, <2>1, ValidCount
      <3> QED
        BY <1>7, <2>1, <3>1, BlockValid
    <2> QED
      BY <2>1, MarkersAre
  <1> QED
    BY <1>4, <1>5, <1>6, <1>7 DEF Judged

\* The two streams of a session.
LEMMA ParseIs ==
    ASSUME NEW t, NEW u, NEW out, Judged(t, out), NEW err, Judged(u, err),
           NEW r, r = Parse(out, err)
    PROVE  (IF r.verdict = "accepted" THEN {r.marker} ELSE {}) =
             (IF Recognized(u) = {} THEN MarkersOf(t) ELSE {})
               \union (IF Recognized(t) = {} THEN MarkersOf(u) ELSE {})
  <1>1. \A v, x : Verdict(v, x).verdict = v /\ Verdict(v, x).marker = x
    BY DEF Verdict
  <1>2. CASE out.verdict = "none" /\ err.verdict = "none"
    <2>1. r = Verdict("missing", None)
      BY <1>2 DEF Parse
    <2> QED
      BY <1>1, <1>2, <2>1 DEF Judged
  <1>3. CASE out.verdict = "none" /\ err.verdict # "none"
    <2>1. r = err
      BY <1>3 DEF Parse
    <2> QED
      BY <1>3, <2>1 DEF Judged
  <1>4. CASE out.verdict # "none" /\ err.verdict = "none"
    <2>1. r = out
      BY <1>4 DEF Parse
    <2> QED
      BY <1>4, <2>1 DEF Judged
  <1>5. CASE out.verdict # "none" /\ err.verdict # "none"
    <2>1. r.verdict # "accepted"
      BY <1>1, <1>5 DEF Parse, Judged
    <2> QED
      BY <1>5, <2>1 DEF Judged
  <1> QED
    BY <1>2, <1>3, <1>4, <1>5

-----------------------------------------------------------------------------
(* The session *)

AcceptInv ==
    /\ ShownInv
    /\ Accumulated(text, fed, acc)
    /\ fed = 0 => acc = NewAccumulator
    /\ Ended => /\ fed = Len(text)
                /\ result = Parse(Judge(acc),
                                  Judge(Feed(NewAccumulator, errText)))

LEMMA AcceptInit == PlainInit \/ WrappedInit => AcceptInv
  <1> SUFFICES ASSUME PlainInit \/ WrappedInit
               PROVE  AcceptInv
    OBVIOUS
  <1>1. ShownInv
    BY ShownInit
  <1>2. fed = 0 /\ acc = NewAccumulator /\ result = Unread
    BY DEF PlainInit, Init, WrappedInit
  <1>3. IsText(text)
    BY <1>1 DEF ShownInv
  <1>4. Accumulated(text, 0, NewAccumulator)
    BY <1>3, NewKnows
  <1> QED
    BY <1>1, <1>2, <1>4 DEF AcceptInv, Ended

LEMMA ReceiveAccept ==
    ASSUME AcceptInv, ShownInv', Receive
    PROVE  AcceptInv'
  <1>1. PICK size \in 1 .. Len(text) - fed :
            /\ fed' = fed + size
            /\ acc' = Feed(acc, Part(text, fed + 1, fed + size))
    BY DEF Receive, Part
  <1>2. /\ fed < Len(text)
        /\ text' = text /\ errText' = errText /\ result' = result
    BY DEF Receive
  <1>3. IsText(text) /\ fed \in 0 .. Len(text)
    BY DEF AcceptInv, ShownInv
  <1> DEFINE m == fed + size
  <1>4. Len(text) \in Nat /\ fed \in Nat /\ m \in fed .. Len(text) /\ m # 0
    BY <1>3, TextIs
  <1>5. Accumulated(text, fed, acc)
    BY DEF AcceptInv
  <1>6. fed' = m /\ acc' = Feed(acc, Part(text, fed + 1, m))
    BY <1>1
  <1> HIDE DEF m
  <1>7. Accumulated(text, m, Feed(acc, Part(text, fed + 1, m)))
    BY <1>3, <1>4, <1>5, ChunkKnown
  <1>8. Accumulated(text', fed', acc')
    BY <1>2, <1>6, <1>7
  <1>9. ~Ended /\ ~Ended'
    <2>1. fed # Len(text)
      BY <1>2, <1>4
    <2> QED
      BY <1>2, <2>1 DEF AcceptInv, Ended, Unread
  <1> QED
    BY <1>4, <1>6, <1>8, <1>9 DEF AcceptInv

LEMMA FinishAccept ==
    ASSUME AcceptInv, ShownInv', Finish
    PROVE  AcceptInv'
  <1>1. /\ fed = Len(text)
        /\ result' = Parse(Judge(acc), Judge(Feed(NewAccumulator, errText)))
        /\ text' = text /\ errText' = errText /\ fed' = fed /\ acc' = acc
    BY DEF Finish
  <1>2. Accumulated(text', fed', acc')
    BY <1>1 DEF AcceptInv
  <1> QED
    BY <1>1, <1>2 DEF AcceptInv

LEMMA WriterAccept ==
    ASSUME AcceptInv, ShownInv', WrapperStep
    PROVE  AcceptInv'
  <1>1. /\ stage \in {"relay", "emit"}
        /\ errText' = errText /\ fed' = fed /\ acc' = acc /\ result' = result
    BY DEF WrapperStep, DiagnosticsNext, RelayLine, RelayEnds, Emit
  <1>2. fed = 0 /\ result = Unread
    BY <1>1 DEF AcceptInv, ShownInv, Untouched
  <1>3. acc = NewAccumulator
    BY <1>2 DEF AcceptInv
  <1>4. Accumulated(text', 0, NewAccumulator)
    BY NewKnows DEF ShownInv
  <1> QED
    BY <1>1, <1>2, <1>3, <1>4 DEF AcceptInv, Ended, Unread

LEMMA AcceptNext ==
    AcceptInv /\ [WrapperStep \/ HandlerStep]_<<vars, wrapper>> => AcceptInv'
  <1> SUFFICES ASSUME AcceptInv, [WrapperStep \/ HandlerStep]_<<vars, wrapper>>
               PROVE  AcceptInv'
    OBVIOUS
  <1>1. ShownInv'
    BY ShownStep DEF AcceptInv
  <1>2. CASE WrapperStep
    BY <1>1, <1>2, WriterAccept
  <1>3. CASE HandlerStep
    BY <1>1, <1>3, ReceiveAccept, FinishAccept DEF HandlerStep, Next
  <1>4. CASE UNCHANGED <<vars, wrapper>>
    BY <1>1, <1>4 DEF vars, AcceptInv, Ended, Unread
  <1> QED
    BY <1>2, <1>3, <1>4

\* However a session's output is cut into chunks, by whichever worker it was
\* written, it is believed exactly when one stream is a valid result block and
\* the other holds no result tag, and then with the text between the tags.
THEOREM AcceptedIsValid == WrappedSpec => []AcceptsOneBlock
  <1>1. AcceptInv => AcceptsOneBlock
    <2> SUFFICES ASSUME AcceptInv, Ended
                 PROVE  AcceptsOneBlock
      BY DEF AcceptsOneBlock
    <2>1. IsText(text) /\ IsText(errText) /\ Accumulated(text, Len(text), acc)
      BY DEF AcceptInv, ShownInv
    <2> DEFINE out == Judge(acc)
               err == Judge(Feed(NewAccumulator, errText))
    <2>2. Judged(text, out)
      BY <2>1, JudgeIs
    <2>3. Judged(errText, err)
      BY <2>1, TextKnown, JudgeIs
    <2>4. result = Parse(out, err)
      BY DEF AcceptInv
    <2> HIDE DEF out, err
    <2>5. (IF result.verdict = "accepted" THEN {result.marker} ELSE {}) =
            (IF Recognized(errText) = {} THEN MarkersOf(text) ELSE {})
              \union (IF Recognized(text) = {} THEN MarkersOf(errText) ELSE {})
      BY <2>2, <2>3, <2>4, ParseIs, Zenon
    <2> QED
      BY <2>5 DEF AcceptsOneBlock
  <1> QED
    BY <1>1, AcceptInit, AcceptNext, PTL DEF WrappedSpec

-----------------------------------------------------------------------------
(* What a wrapper writes before the result *)

\* A text without a "<", all of whose lines are prefixed; b: it ends a line.
LineStarts(t, i) == i = 1 \/ t[i - 1] = "newline"

Neutral(t) ==
    /\ IsText(t)
    /\ \A i \in 1 .. Len(t) : t[i] # "<" /\ (LineStarts(t, i) => t[i] = "prefix")

Framing(t, b) == Neutral(t) /\ (b <=> LineStarts(t, Len(t) + 1))

\* The text z is x and the symbol c.
Added(x, c, z) ==
    /\ IsText(z) /\ Len(z) = Len(x) + 1 /\ z[Len(z)] = c
    /\ \A i \in 1 .. Len(x) : z[i] = x[i]

LEMMA AddOne ==
    ASSUME NEW x, IsText(x), NEW c \in Symbol
    PROVE  Added(x, c, Cat(x, <<c>>))
  <1> DEFINE y == <<c>>
             z == Cat(x, y)
             n == Len(x)
  <1>1. IsText(y) /\ Len(y) = 1 /\ y[1] = c /\ n \in Nat
    BY OneOf, TextIs DEF IsText
  <1>2. z = Cat(x, <<c>>)
    OBVIOUS
  <1> HIDE DEF y
  <1>3. /\ IsText(Cat(x, y)) /\ Len(Cat(x, y)) = n + Len(y)
        /\ \A i \in 1 .. n + Len(y) :
              Cat(x, y)[i] = IF i <= n THEN x[i] ELSE y[i - n]
    BY <1>1, CatText
  <1> HIDE DEF n
  <1>4. /\ IsText(z) /\ Len(z) = n + 1
        /\ \A i \in 1 .. n + 1 : z[i] = IF i <= n THEN x[i] ELSE y[i - n]
    BY <1>1, <1>3
  <1> HIDE DEF z
  <1>5. z[n + 1] = c
    <2>1. n + 1 \in 1 .. n + 1 /\ ~(n + 1 <= n) /\ n + 1 - n = 1
      BY <1>1
    <2> QED
      BY <1>1, <1>4, <2>1
  <1>6. \A i \in 1 .. n : z[i] = x[i]
    BY <1>1, <1>4
  <1> QED
    BY <1>2, <1>4, <1>5, <1>6 DEF n, Added

LEMMA AddSymbol ==
    ASSUME NEW x, Neutral(x), NEW c \in Symbol, c # "<",
           LineStarts(x, Len(x) + 1) => c = "prefix",
           NEW z, z = Cat(x, <<c>>)
    PROVE  Neutral(z) /\ (LineStarts(z, Len(z) + 1) <=> c = "newline")
  <1>1. IsText(x) /\ Len(x) \in Nat
    BY TextIs DEF Neutral
  <1>2. /\ IsText(z) /\ Len(z) = Len(x) + 1 /\ z[Len(z)] = c
        /\ \A i \in 1 .. Len(x) : z[i] = x[i]
    BY <1>1, AddOne DEF Added
  <1>3. LineStarts(z, Len(z) + 1) <=> c = "newline"
    BY <1>1, <1>2 DEF LineStarts
  <1>4. ASSUME NEW i \in 1 .. Len(z)
        PROVE  z[i] # "<" /\ (LineStarts(z, i) => z[i] = "prefix")
    <2>1. LineStarts(z, i) <=> LineStarts(x, i)
      BY <1>1, <1>2 DEF LineStarts
    <2>2. CASE i \in 1 .. Len(x)
      BY <1>2, <2>1, <2>2 DEF Neutral
    <2>3. CASE i = Len(x) + 1
      BY <1>2, <2>1, <2>3
    <2> QED
      BY <1>1, <1>2, <2>2, <2>3
  <1> QED
    BY <1>2, <1>3, <1>4 DEF Neutral

\* What Render puts for a symbol.
Escaped(c) == IF c = "<" THEN "&lt;" ELSE c

LEMMA EscapedIs ==
    ASSUME NEW c \in Symbol
    PROVE  /\ Escaped(c) \in Symbol /\ Escaped(c) # "<"
           /\ Escaped(c) = "newline" <=> c = "newline"
  BY DEF Escaped, Symbol

LEMMA RenderIs ==
    ASSUME NEW t, IsText(t), NEW r, IsText(r.text), NEW c \in Symbol,
           NEW z, z = Render(r, c)
    PROVE  /\ z.boundary <=> c = "newline"
           /\ Cat(t, z.text) =
                Cat(IF r.boundary THEN Cat(Cat(t, r.text), <<"prefix">>)
                    ELSE Cat(t, r.text),
                    <<Escaped(c)>>)
  <1> DEFINE a == IF r.boundary THEN <<"prefix">> ELSE << >>
             b == <<Escaped(c)>>
             x == r.text
  <1>1. z.text = Cat(Cat(x, a), b) /\ (z.boundary <=> c = "newline")
    BY DEF Render, Rendered, Cat, Escaped
  <1>2. IsText(x) /\ IsText(a) /\ IsText(b)
    <2>1. "prefix" \in Symbol
      BY DEF Symbol
    <2>2. IsText(<<"prefix">>)
      BY <2>1, OneOf, Zenon DEF IsText
    <2>3. Escaped(c) \in Symbol
      BY EscapedIs
    <2> HIDE DEF x
    <2>4. IsText(b)
      BY <2>3, OneOf DEF IsText
    <2>5. IsText(a)
      BY <2>2, EmptyText
    <2> QED
      BY <2>4, <2>5 DEF x
  <1>3. IF r.boundary THEN Cat(Cat(t, x), a) = Cat(Cat(t, x), <<"prefix">>)
        ELSE Cat(Cat(t, x), a) = Cat(t, x)
    <2>1. IsText(Cat(t, x))
      BY <1>2, CatText
    <2> QED
      BY <2>1, CatText
  <1> HIDE DEF a, b, x
  <1>4. Cat(t, Cat(Cat(x, a), b)) = Cat(Cat(Cat(t, x), a), b)
    <2>1. IsText(Cat(x, a)) /\ IsText(Cat(t, x))
      BY <1>2, CatText
    <2>2. Cat(Cat(t, Cat(x, a)), b) = Cat(t, Cat(Cat(x, a), b))
      BY <1>2, <2>1, CatTexts
    <2>3. Cat(Cat(t, x), a) = Cat(t, Cat(x, a))
      BY <1>2, CatTexts
    <2> QED
      BY <2>2, <2>3
  <1> QED
    BY <1>1, <1>3, <1>4 DEF b, x

LEMMA RenderFrames ==
    ASSUME NEW t, IsText(t), NEW r, IsText(r.text), NEW c \in Symbol,
           Framing(Cat(t, r.text), r.boundary), NEW z, z = Render(r, c)
    PROVE  Framing(Cat(t, z.text), z.boundary)
  <1> DEFINE x == Cat(t, r.text)
             y == IF r.boundary THEN Cat(x, <<"prefix">>) ELSE x
             e == Escaped(c)
  <1>1. Cat(t, z.text) = Cat(y, <<e>>) /\ (z.boundary <=> c = "newline")
    BY RenderIs
  <1>2. Neutral(x) /\ (r.boundary <=> LineStarts(x, Len(x) + 1))
    BY DEF Framing
  <1> HIDE DEF x
  <1>3. Neutral(y) /\ ~LineStarts(y, Len(y) + 1)
    <2>1. CASE r.boundary
      <3>1. "prefix" \in Symbol /\ "prefix" # "<" /\ "prefix" # "newline"
        BY DEF Symbol
      <3>2. y = Cat(x, <<"prefix">>)
        BY <2>1
      <3> DEFINE p == "prefix"
      <3>3. p \in Symbol /\ p # "<" /\ y = Cat(x, <<p>>) /\ p = "prefix"
            /\ p # "newline"
        BY <3>1, <3>2
      <3> HIDE DEF p, y
      <3> QED
        BY <1>2, <3>3, AddSymbol, Zenon
    <2>2. CASE ~r.boundary
      BY <1>2, <2>2
    <2> QED
      BY <2>1, <2>2
  <1>4. e \in Symbol /\ e # "<" /\ (e = "newline" <=> c = "newline")
    BY EscapedIs
  <1> HIDE DEF y, e
  <1> DEFINE u == Cat(y, <<e>>)
  <1>5. u = Cat(y, <<e>>)
    OBVIOUS
  <1> HIDE DEF u
  <1>6. Neutral(u) /\ (LineStarts(u, Len(u) + 1) <=> e = "newline")
    BY <1>3, <1>4, <1>5, AddSymbol
  <1> QED
    BY <1>1, <1>4, <1>5, <1>6 DEF Framing

\* The states of a renderer that writes s.
Stages(w, b, s) ==
    /\ w[0] = Rendered(b, << >>)
    /\ \A i \in Nat : i < Len(s) => w[i + 1] = Render(w[i], s[i + 1])
    /\ Write(b, s) = w[Len(s)]

LEMMA WriteIs ==
    ASSUME NEW b, NEW s, IsText(s)
    PROVE  \E w : Stages(w, b, s)
  <1> DEFINE L == Len(s)
             w == CHOOSE w : Writes(w, b, s, L)
  <1>1. L \in Nat
    BY TextIs
  <1>2. Write(b, s) = w[L]
    BY DEF Write, Writes, WrittenAt
  <1>3. Writes(w, b, s, L)
    BY <1>1, WritesExist
  <1> HIDE DEF w
  <1>4. \A i \in 0 .. L : w[i] = WrittenAt(w, b, s, i)
    BY <1>3 DEF Writes
  <1>5. w[0] = Rendered(b, << >>)
    BY <1>1, <1>4 DEF WrittenAt
  <1>6. ASSUME NEW i \in Nat, i < L
        PROVE  w[i + 1] = Render(w[i], s[i + 1])
    <2>1. i + 1 \in 0 .. L /\ i + 1 # 0 /\ i + 1 - 1 = i
      BY <1>1, <1>6
    <2> QED
      BY <1>4, <2>1 DEF WrittenAt
  <1> QED
    BY <1>2, <1>5, <1>6 DEF Stages

\* What follows a neutral text keeps it neutral.
LEMMA WriteFrames ==
    ASSUME NEW t, NEW b, Framing(t, b), NEW s, IsText(s),
           NEW r, r = Write(b, s)
    PROVE  IsText(r.text) /\ Framing(Cat(t, r.text), r.boundary)
  <1> DEFINE L == Len(s)
             Holds(q) == IsText(q.text) /\ Framing(Cat(t, q.text), q.boundary)
  <1>1. L \in Nat /\ \A i \in 1 .. L : s[i] \in Symbol
    BY TextIs
  <1>2. IsText(t)
    BY DEF Framing, Neutral
  <1>3. PICK w : Stages(w, b, s)
    BY WriteIs
  <1> DEFINE N == {i \in Nat : i <= L => Holds(w[i])}
  <1>4. 0 \in N
    <2>1. w[0].text = << >> /\ w[0].boundary = b
      BY <1>3 DEF Stages, Rendered
    <2>2. Cat(t, << >>) = t
      BY <1>2, CatText
    <2> QED
      BY <2>1, <2>2, EmptyText
  <1>5. ASSUME NEW i \in N
        PROVE  i + 1 \in N
    <2>1. i \in Nat /\ (i <= L => Holds(w[i]))
      BY <1>5
    <2>2. CASE i < L
      <3>1. i + 1 \in 1 .. L
        BY <1>1, <2>1, <2>2
      <3>2. w[i + 1] = Render(w[i], s[i + 1]) /\ s[i + 1] \in Symbol /\ Holds(w[i])
        BY <1>1, <1>3, <2>1, <2>2, <3>1 DEF Stages
      <3>3. IsText(w[i + 1].text)
        BY <3>2, RenderType
      <3>4. Framing(Cat(t, w[i + 1].text), w[i + 1].boundary)
        BY <1>2, <3>2, RenderFrames
      <3> QED
        BY <2>1, <3>3, <3>4
    <2>3. CASE ~(i < L)
      BY <1>1, <2>1, <2>3
    <2> QED
      BY <2>2, <2>3
  <1>6. N = Nat
    <2>1. N \in SUBSET Nat
      OBVIOUS
    <2> HIDE DEF N
    <2> QED
      BY <1>4, <1>5, <2>1, Induction
  <1>7. Holds(w[L])
    <2>1. L \in N
      BY <1>1, <1>6
    <2> QED
      BY <1>1, <2>1
  <1>8. r = w[L]
    BY <1>3 DEF Stages
  <1> QED
    BY <1>7, <1>8

LEMMA FinishFrames ==
    ASSUME NEW t, IsText(t), NEW r, IsText(r.text),
           Framing(Cat(t, r.text), r.boundary)
    PROVE  Framing(Cat(t, FinishLine(r)), TRUE)
  <1> DEFINE x == Cat(t, r.text)
             c == "newline"
             y == Cat(x, <<c>>)
  <1>1. Neutral(x) /\ (r.boundary <=> LineStarts(x, Len(x) + 1))
    BY DEF Framing
  <1>2. CASE r.boundary
    BY <1>1, <1>2 DEF FinishLine, Framing
  <1>3. CASE ~r.boundary
    <2>1. c \in Symbol /\ c # "<"
      BY DEF Symbol
    <2> HIDE DEF c
    <2>2. IsText(<<c>>)
      BY <2>1, OneOf DEF IsText
    <2>3. FinishLine(r) = Cat(r.text, <<c>>)
      <3>1. Append(r.text, c) = Cat(r.text, <<c>>)
        BY <2>1, AppendIsConcat DEF IsText, Cat
      <3> QED
        BY <1>3, <3>1 DEF FinishLine, c
    <2>4. Cat(t, FinishLine(r)) = y
      BY <2>2, <2>3, CatTexts
    <2> HIDE DEF x
    <2>5. Neutral(y) /\ (LineStarts(y, Len(y) + 1) <=> c = "newline")
      BY <1>1, <1>3, <2>1, AddSymbol
    <2> QED
      BY <2>4, <2>5 DEF Framing, c
  <1> QED
    BY <1>2, <1>3

-----------------------------------------------------------------------------
(* The result a wrapper writes *)

\* The symbols of t: those of d, from o on a block of kind k with body b, whose
\* closing tag begins at c, and a newline.
Laid(t, d, k, b, o, c) ==
    /\ o = Len(d) + 1 /\ c = o + Len(k) + 2 + Len(b)
    /\ IsText(t) /\ Len(t) = c + Len(k) + 3
    /\ \A n \in 1 .. Len(d) : t[n] = d[n]
    /\ \A n \in 1 .. Len(k) + 2 : t[o + n - 1] = Open(k)[n]
    /\ \A n \in 1 .. Len(b) : t[o + Len(k) + 1 + n] = b[n]
    /\ \A n \in 1 .. Len(k) + 3 : t[c + n - 1] = Close(k)[n]
    /\ t[c + Len(k) + 3] = "newline"

\* The symbols of z are m of s and n of t.
Joined(z, s, t, m, n) ==
    /\ IsText(z) /\ Len(z) = m + n
    /\ \A i \in 1 .. m : z[i] = s[i]
    /\ \A i \in 1 .. n : z[m + i] = t[i]

LEMMA CatAt ==
    ASSUME NEW s, NEW t, IsText(s), IsText(t),
           NEW m \in Nat, Len(s) = m, NEW n \in Nat, Len(t) = n
    PROVE  Joined(Cat(s, t), s, t, m, n)
  <1> DEFINE z == Cat(s, t)
  <1>1. /\ IsText(z) /\ Len(z) = m + n
        /\ \A i \in 1 .. m + n : z[i] = IF i <= m THEN s[i] ELSE t[i - m]
    BY CatText
  <1> HIDE DEF z
  <1>2. \A i \in 1 .. m : z[i] = s[i]
    BY <1>1
  <1>3. ASSUME NEW i \in 1 .. n
        PROVE  z[m + i] = t[i]
    <2>1. m + i \in 1 .. m + n /\ ~(m + i <= m) /\ m + i - m = i
      OBVIOUS
    <2> QED
      BY <1>1, <2>1
  <1> QED
    BY <1>1, <1>2, <1>3 DEF z, Joined

LEMMA LaidOut ==
    ASSUME NEW d, IsText(d), NEW k \in Kinds, NEW b, IsText(b), NEW t,
           t = Cat(d, Cat(Cat(Open(k), b), Append(Close(k), "newline")))
    PROVE  Laid(t, d, k, b, Len(d) + 1, Len(d) + 1 + Len(k) + 2 + Len(b))
  <1> DEFINE g == Open(k)
             h == Close(k)
             x == Cat(g, b)
             y == Append(h, "newline")
             e == Cat(x, y)
             D == Len(d)
             K == Len(k)
             B == Len(b)
  <1>1. /\ D \in Nat /\ B \in Nat /\ K \in Nat /\ K > 1
        /\ IsText(g) /\ Len(g) = K + 2 /\ IsText(h) /\ Len(h) = K + 3
    BY TextIs, KindIs, OpenIs, CloseIs DEF IsTag
  <1>2. t = Cat(d, e)
    OBVIOUS
  <1>3. /\ IsText(y) /\ Len(y) = K + 4 /\ y[K + 4] = "newline"
        /\ \A n \in 1 .. K + 3 : y[n] = h[n]
    <2>1. "newline" \in Symbol
      BY DEF Symbol
    <2> HIDE DEF g, h
    <2> QED
      BY <1>1, <2>1, AppendProperties DEF IsText
  <1> HIDE DEF g, h, x, y, e, D, K, B
  <1>4. /\ IsText(x) /\ Len(x) = K + 2 + B
        /\ \A n \in 1 .. K + 2 : x[n] = g[n]
        /\ \A n \in 1 .. B : x[K + 2 + n] = b[n]
    <2> DEFINE p == K + 2
    <2>1. p \in Nat /\ p = Len(g) /\ B = Len(b)
      BY <1>1 DEF B
    <2> HIDE DEF p
    <2>2. Joined(x, g, b, p, B)
      BY <1>1, <2>1, CatAt DEF x
    <2> QED
      BY <2>2 DEF p, Joined
  <1>5. /\ IsText(e) /\ Len(e) = K + 2 + B + (K + 4)
        /\ \A n \in 1 .. K + 2 + B : e[n] = x[n]
        /\ \A n \in 1 .. K + 4 : e[K + 2 + B + n] = y[n]
    <2> DEFINE p == K + 2 + B
               q == K + 4
    <2>1. p \in Nat /\ p = Len(x) /\ q \in Nat /\ q = Len(y)
      BY <1>1, <1>3, <1>4
    <2> HIDE DEF p, q
    <2>2. Joined(e, x, y, p, q)
      BY <1>3, <1>4, <2>1, CatAt DEF e
    <2> QED
      BY <2>2 DEF p, q, Joined
  <1>6. /\ IsText(t) /\ Len(t) = D + (K + 2 + B + (K + 4))
        /\ \A n \in 1 .. D : t[n] = d[n]
        /\ \A n \in 1 .. K + 2 + B + (K + 4) : t[D + n] = e[n]
    <2> DEFINE q == K + 2 + B + (K + 4)
    <2>1. q \in Nat /\ q = Len(e) /\ D = Len(d)
      BY <1>1, <1>5 DEF D
    <2> HIDE DEF q
    <2>2. Joined(t, d, e, D, q)
      BY <1>1, <1>2, <1>5, <2>1, CatAt
    <2> QED
      BY <2>2 DEF q, Joined
  <1> DEFINE o == D + 1
             c == o + K + 2 + B
  <1>7. ASSUME NEW n \in 1 .. K + 2
        PROVE  t[o + n - 1] = g[n]
    <2>1. /\ o + n - 1 = D + n /\ n \in 1 .. K + 2 + B + (K + 4)
          /\ n \in 1 .. K + 2 + B
      BY <1>1
    <2> QED
      BY <1>4, <1>5, <1>6, <2>1
  <1>8. ASSUME NEW n \in 1 .. B
        PROVE  t[o + K + 1 + n] = b[n]
    <2> DEFINE p == K + 2 + n
    <2>1. /\ o + K + 1 + n = D + p /\ p \in 1 .. K + 2 + B + (K + 4)
          /\ p \in 1 .. K + 2 + B
      BY <1>1
    <2>2. x[p] = b[n]
      BY <1>4
    <2> HIDE DEF p
    <2> QED
      BY <1>5, <1>6, <2>1, <2>2
  <1>9. ASSUME NEW n \in 1 .. K + 4
        PROVE  t[c + n - 1] = y[n]
    <2> DEFINE p == K + 2 + B + n
    <2>1. c + n - 1 = D + p /\ p \in 1 .. K + 2 + B + (K + 4)
      BY <1>1
    <2>2. e[p] = y[n]
      BY <1>5
    <2> HIDE DEF p
    <2> QED
      BY <1>6, <2>1, <2>2
  <1>10. ASSUME NEW n \in 1 .. K + 3
         PROVE  t[c + n - 1] = h[n]
    <2>1. n \in 1 .. K + 4
      BY <1>1
    <2> QED
      BY <1>3, <1>9, <2>1
  <1>11. t[c + K + 3] = "newline"
    <2>1. K + 4 \in 1 .. K + 4 /\ c + (K + 4) - 1 = c + K + 3
      BY <1>1
    <2>2. t[c + (K + 4) - 1] = y[K + 4]
      BY <1>9, <2>1
    <2> QED
      BY <1>3, <2>1, <2>2
  <1>12. Len(t) = c + K + 3
    BY <1>1, <1>6
  <1> HIDE DEF o, c
  <1>13. o = D + 1 /\ c = o + K + 2 + B
    BY DEF o, c
  <1>14. Laid(t, d, k, b, o, c)
    BY <1>6, <1>7, <1>8, <1>10, <1>11, <1>12, <1>13 DEF Laid, D, K, B, g, h
  <1> QED
    BY <1>14 DEF o, c, D, K, B

\* A tag that a text shares with another, where it lies s symbols further on.
LEMMA TagMoves ==
    ASSUME NEW t, IsText(t), NEW u, IsText(u), NEW x, NEW y, NEW k,
           Tag(t, x, y, k), NEW s \in Int, x + s > 0,
           y + Len(k) - 1 + s <= Len(u),
           \A n \in Nat : x <= n /\ n < y + Len(k) => u[n + s] = t[n]
    PROVE  Tag(u, x + s, y + s, k)
  <1>1. /\ k \in Kinds /\ Len(k) \in Nat /\ Len(k) > 1
        /\ x \in Nat /\ y \in Nat /\ x < y /\ t[x] = "<" /\ Len(u) \in Nat
    BY TagIs, TextIs
  <1> DEFINE p == x + s
             q == y + s
  <1>2. p \in Nat \ {0} /\ q \in Nat /\ p < q
    BY <1>1
  <1>3. ASSUME NEW n \in p + 1 .. q - 1
        PROVE  n - s \in x + 1 .. y - 1 /\ u[n] = t[n - s]
    <2>1. /\ n - s \in x + 1 .. y - 1 /\ n - s \in Nat
          /\ x <= n - s /\ n - s < y + Len(k) /\ n - s + s = n
      BY <1>1, <1>2
    <2>2. u[n - s + s] = t[n - s]
      BY <2>1
    <2> QED
      BY <2>1, <2>2
  <1>4. u[p] = "<"
    <2>1. x <= x /\ x < y + Len(k)
      BY <1>1
    <2> QED
      BY <1>1, <2>1
  <1> HIDE DEF p, q
  <1>5. Gap(t, x, y)
    BY DEF Tag
  <1>6. \A n \in p + 1 .. q - 1 : u[n] \in White \union {"/"}
    BY <1>3, <1>5 DEF Gap
  <1>7. ASSUME NEW m \in p + 1 .. q - 1, NEW n \in p + 1 .. q - 1,
               u[m] = "/", u[n] = "/"
        PROVE  m = n
    <2>1. m - s = n - s
      BY <1>3, <1>5, <1>7 DEF Gap
    <2> QED
      BY <1>2, <2>1
  <1>8. Gap(u, p, q)
    BY <1>2, <1>4, <1>6, <1>7 DEF Gap
  <1>9. ASSUME NEW n \in 1 .. Len(k)
        PROVE  u[q + n - 1] = k[n]
    <2> DEFINE j == y + n - 1
    <2>1. /\ j \in Nat /\ x <= j /\ j < y + Len(k) /\ q + n - 1 = j + s
      BY <1>1 DEF q
    <2>2. t[j] = k[n]
      BY DEF Tag, Reads
    <2> HIDE DEF j
    <2> QED
      BY <2>1, <2>2
  <1>10. q + Len(k) - 1 <= Len(u)
    BY <1>1 DEF q
  <1>11. Tag(u, p, q, k)
    BY <1>1, <1>8, <1>9, <1>10 DEF Tag, Reads
  <1> QED
    BY <1>11 DEF p, q

\* What strip returns lies between two symbols that are not blank.
LEMMA StripPart ==
    ASSUME NEW t, IsText(t), Strip(t) # << >>
    PROVE  \E a, z \in 1 .. Len(t) :
              /\ a <= z /\ Strip(t) = Part(t, a, z)
              /\ t[a] \notin White /\ t[z] \notin White
  <1> DEFINE S == {i \in DOMAIN t : t[i] \notin White}
             m == Min(S)
             n == Max(S)
  <1>1. Len(t) \in Nat /\ DOMAIN t = 1 .. Len(t)
    BY TextIs
  <1>2. S # {} /\ Strip(t) = Part(t, m, n)
    BY DEF Strip, Part
  <1>3. S \in SUBSET Nat
    BY <1>1
  <1>4. m \in S /\ \A i \in S : m <= i
    BY <1>2, <1>3, MinLeast
  <1>5. n \in S
    <2> DEFINE N == {Len(t) - i : i \in S}
    <2>1. N \in SUBSET Nat /\ N # {}
      BY <1>1, <1>2
    <2>2. PICK d \in N : \A e \in N : d <= e
      BY <2>1, Least
    <2>3. PICK i \in S : d = Len(t) - i
      OBVIOUS
    <2>4. ASSUME NEW j \in S
          PROVE  j <= i
      <3>1. Len(t) - i <= Len(t) - j
        BY <2>2, <2>3
      <3> QED
        BY <1>1, <1>3, <3>1
    <2> HIDE DEF S
    <2>5. Max(S) = i
      BY <1>3, <2>4, MaxIs
    <2> QED
      BY <2>5
  <1>6. m <= n /\ m \in 1 .. Len(t) /\ n \in 1 .. Len(t)
    BY <1>1, <1>4, <1>5
  <1>7. t[m] \notin White /\ t[n] \notin White
    BY <1>4, <1>5
  <1> HIDE DEF m, n
  <1> QED
    BY <1>2, <1>6, <1>7

LEMMA StripNone ==
    ASSUME NEW t, IsText(t), Len(t) > 0,
           t[1] \notin White, t[Len(t)] \notin White
    PROVE  Strip(t) = t
  <1> DEFINE S == {i \in DOMAIN t : t[i] \notin White}
  <1>1. /\ Len(t) \in Nat /\ DOMAIN t = 1 .. Len(t)
        /\ t = Part(t, 1, Len(t))
    BY TextIs
  <1>2. 1 \in S /\ Len(t) \in S /\ S \subseteq Nat
        /\ \A i \in S : 1 <= i /\ i <= Len(t)
    BY <1>1
  <1>3. Strip(t) = IF S = {} THEN << >> ELSE Part(t, Min(S), Max(S))
    BY DEF Strip, Part
  <1> HIDE DEF S
  <1>4. Min(S) = 1
    BY <1>2, MinIs
  <1>5. Max(S) = Len(t)
    BY <1>2, MaxIs
  <1> QED
    BY <1>1, <1>2, <1>3, <1>4, <1>5

LEMMA StripTwice ==
    ASSUME NEW t, IsText(t), Strip(t) # << >>
    PROVE  Strip(Strip(t)) = Strip(t)
  <1>1. PICK a \in 1 .. Len(t), z \in 1 .. Len(t) :
            /\ a <= z /\ Strip(t) = Part(t, a, z)
            /\ t[a] \notin White /\ t[z] \notin White
    BY StripPart
  <1> DEFINE s == Part(t, a, z)
  <1>2. /\ Len(t) \in Nat /\ a \in 1 .. Len(t) + 1 /\ z \in a - 1 .. Len(t)
    BY <1>1, TextIs
  <1>3. /\ IsText(s) /\ Len(s) = z - a + 1
        /\ \A n \in 1 .. z - a + 1 : s[n] = t[a + n - 1]
    BY <1>2, PartIs
  <1>4. s = Strip(t)
    BY <1>1
  <1> HIDE DEF s
  <1>5. /\ 1 \in 1 .. z - a + 1 /\ a + 1 - 1 = a
        /\ z - a + 1 \in 1 .. z - a + 1 /\ a + (z - a + 1) - 1 = z
    BY <1>1, <1>2
  <1>6. s[1] = t[a]
    BY <1>3, <1>5
  <1>7. s[z - a + 1] = t[z]
    <2> DEFINE n == z - a + 1
    <2>1. n \in 1 .. z - a + 1 /\ a + n - 1 = z
      BY <1>5
    <2> HIDE DEF n
    <2>2. s[n] = t[z]
      BY <1>3, <2>1
    <2> QED
      BY <2>2 DEF n
  <1>8. Len(s) > 0
    BY <1>1, <1>2, <1>3
  <1>9. Strip(s) = s
    BY <1>1, <1>3, <1>6, <1>7, <1>8, StripNone
  <1> QED
    BY <1>4, <1>9

\* The text b lies in u between i and m.
LiesIn(b, u, i, m) ==
    \E s \in Nat : /\ i <= s /\ s + Len(b) < m
                   /\ \A n \in 1 .. Len(b) : b[n] = u[s + n]

\* What the body of a valid result is.
LEMMA BodyIs ==
    ASSUME NEW u, IsText(u), NEW i, NEW m, NEW k, Valid(u, i, m, k),
           NEW b, b = Body(u, i, m, k)
    PROVE  /\ IsText(b) /\ b # << >> /\ Strip(b) = b /\ Len(b) \in Nat
           /\ LiesIn(b, u, i, m)
  <1> DEFINE f == i + Len(k) + 2
             v == Part(u, f, m - 1)
  <1>1. /\ k \in Kinds /\ Len(k) \in Nat /\ Len(u) \in Nat
        /\ i \in 1 .. Len(u) /\ m \in 1 .. Len(u) /\ f <= m
    BY ValidIs DEF Valid
  <1>2. /\ f \in 1 .. Len(u) + 1 /\ m - 1 \in f - 1 .. Len(u)
        /\ f \in Nat /\ i + 1 < f /\ m - 1 - f + 1 = m - f
    BY <1>1
  <1> DEFINE e == m - 1
  <1>3. /\ IsText(Part(u, f, e)) /\ Len(Part(u, f, e)) = e - f + 1
        /\ \A n \in 1 .. e - f + 1 : Part(u, f, e)[n] = u[f + n - 1]
    <2>1. e \in f - 1 .. Len(u)
      BY <1>2
    <2> HIDE DEF e, f
    <2> QED
      BY <1>2, <2>1, PartIs
  <1>4. /\ IsText(v) /\ Len(v) = m - f
        /\ \A n \in 1 .. m - f : v[n] = u[f + n - 1]
    BY <1>2, <1>3
  <1>5. b = Strip(v) /\ b # << >>
    BY DEF Valid, Body
  <1> HIDE DEF v, f
  <1>6. IsText(b) /\ Strip(b) = b
    BY <1>4, <1>5, StripType, StripTwice DEF IsText
  <1>7. PICK a \in 1 .. Len(v), z \in 1 .. Len(v) : a <= z /\ b = Part(v, a, z)
    BY <1>4, <1>5, StripPart
  <1>8. a \in 1 .. Len(v) + 1 /\ z \in a - 1 .. Len(v)
    BY <1>1, <1>2, <1>4, <1>7
  <1>9. /\ Len(Part(v, a, z)) = z - a + 1
        /\ \A n \in 1 .. z - a + 1 : Part(v, a, z)[n] = v[a + n - 1]
    BY <1>4, <1>8, PartIs
  <1>10. Len(b) = z - a + 1 /\ \A n \in 1 .. z - a + 1 : b[n] = v[a + n - 1]
    BY <1>7, <1>9
  <1> DEFINE s == f + a - 2
  <1>11. /\ s \in Nat /\ i <= s /\ s + Len(b) < m
    BY <1>1, <1>2, <1>4, <1>7, <1>10
  <1>12. ASSUME NEW n \in 1 .. Len(b)
         PROVE  b[n] = u[s + n]
    <2>1. /\ n \in 1 .. z - a + 1 /\ a + n - 1 \in 1 .. m - f
          /\ f + (a + n - 1) - 1 = s + n
      BY <1>1, <1>2, <1>4, <1>7, <1>10
    <2> QED
      BY <1>4, <1>10, <2>1
  <1>13. Len(b) \in Nat
    BY <1>6, TextIs
  <1> HIDE DEF s
  <1> QED
    BY <1>5, <1>6, <1>11, <1>12, <1>13 DEF LiesIn

\* What the symbol behind a recognized tag is.
LEMMA RecognizedEnds ==
    ASSUME NEW t, IsText(t), NEW x \in Recognized(t)
    PROVE  \E y, l : /\ Tag(t, x, y, l)
                     /\ \/ y + Len(l) = Len(t) + 1
                        \/ t[y + Len(l)] \in White \union {">", "/"}
  BY RecognizedIs DEF Good, Bad

LEMMA EndsRecognized ==
    ASSUME NEW t, IsText(t), NEW x, NEW y, NEW l, Tag(t, x, y, l),
           y + Len(l) <= Len(t), t[y + Len(l)] \in White \union {">", "/"}
    PROVE  x \in Recognized(t)
  BY RecognizedIs DEF Bad

\* The symbols of a tag behind its "<".
LEMMA TagSymbols ==
    ASSUME NEW t, IsText(t), NEW x, NEW y, NEW l, Tag(t, x, y, l),
           NEW n \in Nat, x < n, n < y + Len(l)
    PROVE  t[n] # "<"
  <1> DEFINE p == y + Len(l) - 1
  <1>1. /\ x \in Nat /\ y \in Nat /\ x < y /\ Len(l) \in Nat /\ Len(l) > 1
        /\ p \in Nat /\ y + Len(l) = p + 1
    BY TagIs
  <1> HIDE DEF p
  <1>2. Alive(t, x, y, p)
    BY <1>1, TagAlive
  <1>3. \A j \in x + 1 .. p : t[j] \notin {"<", ">"}
    BY <1>1, <1>2, AliveSymbols
  <1>4. n \in x + 1 .. p
    BY <1>1
  <1> QED
    BY <1>3, <1>4

\* A valid result as a wrapper writes it again: the body b of the block that u
\* has at i and m, behind the neutral text d.
Rewritten(t, o, c, u, i, m, k, d, b) ==
    /\ IsText(u) /\ Valid(u, i, m, k) /\ b = Body(u, i, m, k)
    /\ Framing(d, TRUE) /\ Laid(t, d, k, b, o, c)

LEMMA RewrittenIs ==
    ASSUME NEW t, NEW o, NEW c, NEW u, NEW i, NEW m, NEW k, NEW d, NEW b,
           Rewritten(t, o, c, u, i, m, k, d, b)
    PROVE  /\ k \in Kinds /\ Len(k) \in Nat /\ Len(b) \in Nat
           /\ Len(d) \in Nat /\ o \in Nat /\ c \in Nat /\ 0 < o
           /\ o = Len(d) + 1 /\ c = o + Len(k) + 2 + Len(b)
           /\ IsText(t) /\ Len(t) \in Nat /\ Len(t) = c + Len(k) + 3
           /\ t[Len(t)] = "newline"
           /\ At(t, o, Open(k)) /\ At(t, c, Close(k))
  <1>1. /\ k \in Kinds /\ Len(k) \in Nat
    BY ValidIs DEF Rewritten
  <1>2. Len(b) \in Nat /\ Len(d) \in Nat
    BY BodyIs, TextIs DEF Rewritten, Framing, Neutral
  <1>3. /\ o = Len(d) + 1 /\ c = o + Len(k) + 2 + Len(b)
        /\ IsText(t) /\ Len(t) = c + Len(k) + 3
        /\ t[Len(t)] = "newline"
    BY DEF Rewritten, Laid
  <1>4. /\ o \in Nat /\ c \in Nat /\ 0 < o /\ Len(t) \in Nat
        /\ o \in 1 .. Len(t) + 1 /\ c \in 1 .. Len(t) + 1
    BY <1>1, <1>2, <1>3
  <1>5. /\ IsText(Open(k)) /\ Len(Open(k)) = Len(k) + 2
        /\ IsText(Close(k)) /\ Len(Close(k)) = Len(k) + 3
    BY <1>1, OpenIs, CloseIs DEF IsTag
  <1>6. Reads(t, o, Open(k)) /\ Reads(t, c, Close(k))
    <2>1. /\ o + (Len(k) + 2) - 1 <= Len(t) /\ c + (Len(k) + 3) - 1 <= Len(t)
      BY <1>1, <1>2, <1>3, <1>4
    <2>2. /\ \A n \in 1 .. Len(k) + 2 : t[o + n - 1] = Open(k)[n]
          /\ \A n \in 1 .. Len(k) + 3 : t[c + n - 1] = Close(k)[n]
      BY DEF Rewritten, Laid
    <2> QED
      BY <1>5, <2>1, <2>2 DEF Reads
  <1>7. Len(Open(k)) > 0 /\ Len(Close(k)) > 0
    BY <1>1, <1>5
  <1>8. At(t, o, Open(k)) /\ At(t, c, Close(k))
    BY <1>3, <1>4, <1>5, <1>6, <1>7, AtIs
  <1> QED
    BY <1>1, <1>2, <1>3, <1>4, <1>8

\* There is no "<" but those of the two tags and of the body.
LEMMA OtherSymbols ==
    ASSUME NEW t, NEW o, NEW c, NEW u, NEW i, NEW m, NEW k, NEW d, NEW b,
           Rewritten(t, o, c, u, i, m, k, d, b),
           NEW x \in 1 .. Len(t), t[x] = "<"
    PROVE  x = o \/ x = c \/ (o + Len(k) + 2 <= x /\ x < c)
  <1>1. /\ k \in Kinds /\ Len(k) \in Nat /\ Len(b) \in Nat
        /\ Len(d) \in Nat /\ o \in Nat /\ c \in Nat
        /\ o = Len(d) + 1 /\ c = o + Len(k) + 2 + Len(b)
        /\ Len(t) \in Nat /\ Len(t) = c + Len(k) + 3
        /\ t[Len(t)] = "newline"
    BY RewrittenIs
  <1>2. /\ \A n \in 1 .. Len(d) : t[n] = d[n] /\ d[n] # "<"
        /\ \A n \in 1 .. Len(k) + 2 : t[o + n - 1] = Open(k)[n]
        /\ \A n \in 1 .. Len(k) + 3 : t[c + n - 1] = Close(k)[n]
    BY DEF Rewritten, Laid, Framing, Neutral
  <1>3. /\ \A n \in 2 .. Len(k) + 2 : Open(k)[n] # "<"
        /\ \A n \in 2 .. Len(k) + 3 : Close(k)[n] # "<"
    BY <1>1, OpenIs, CloseIs DEF IsTag
  <1>4. ~(x < o)
    <2>1. x < o => x \in 1 .. Len(d)
      BY <1>1
    <2> QED
      BY <1>2, <2>1
  <1>5. ~(o < x /\ x < o + Len(k) + 2)
    <2> DEFINE n == x - o + 1
    <2>1. o < x /\ x < o + Len(k) + 2 =>
            n \in 2 .. Len(k) + 2 /\ n \in 1 .. Len(k) + 2 /\ o + n - 1 = x
      BY <1>1
    <2> HIDE DEF n
    <2> QED
      BY <1>2, <1>3, <2>1
  <1>6. ~(c < x /\ x < c + Len(k) + 3)
    <2> DEFINE n == x - c + 1
    <2>1. c < x /\ x < c + Len(k) + 3 =>
            n \in 2 .. Len(k) + 3 /\ n \in 1 .. Len(k) + 3 /\ c + n - 1 = x
      BY <1>1
    <2> HIDE DEF n
    <2> QED
      BY <1>2, <1>3, <2>1
  <1>7. x # Len(t)
    BY <1>1
  <1> QED
    BY <1>1, <1>4, <1>5, <1>6, <1>7

\* The body adds no tag: it had none in the response.
LEMMA BodyTags ==
    ASSUME NEW t, NEW o, NEW c, NEW u, NEW i, NEW m, NEW k, NEW d, NEW b,
           Rewritten(t, o, c, u, i, m, k, d, b),
           NEW x, o + Len(k) + 2 <= x, x < c, NEW y, NEW l, Tag(t, x, y, l),
           \/ y + Len(l) = Len(t) + 1
           \/ t[y + Len(l)] \in White \union {">", "/"}
    PROVE  FALSE
  <1>1. /\ k \in Kinds /\ Len(k) \in Nat /\ Len(b) \in Nat
        /\ o \in Nat /\ c \in Nat
        /\ c = o + Len(k) + 2 + Len(b)
        /\ IsText(t) /\ Len(t) \in Nat /\ Len(t) = c + Len(k) + 3
        /\ At(t, c, Close(k))
    BY RewrittenIs
  <1>2. /\ x \in Nat /\ y \in Nat /\ x < y /\ Len(l) \in Nat /\ Len(l) > 1
    BY <1>1, TagIs
  <1> DEFINE e == y + Len(l)
  <1>3. t[c] = "<"
    <2>1. c \in 1 .. Len(t)
      BY <1>1, <1>2
    <2>2. Good(t, c, c + 2, k)
      BY <1>1, <2>1, CloseIsGood
    <2> QED
      BY <1>1, <2>2, TagIs DEF Good
  <1>4. e < c
    <2>1. ~(c < e)
      BY <1>1, <1>2, <1>3, TagSymbols
    <2>2. e # c
      <3> SUFFICES ASSUME e = c
                   PROVE  FALSE
        OBVIOUS
      <3>1. e # Len(t) + 1
        BY <1>1
      <3>2. t[e] \in White \union {">", "/"}
        BY <3>1
      <3> QED
        BY <1>3, <3>2 DEF White
    <2> QED
      BY <1>1, <1>2, <2>1, <2>2
  <1>5. /\ IsText(u) /\ Valid(u, i, m, k) /\ b = Body(u, i, m, k)
        /\ \A n \in 1 .. Len(b) : t[o + Len(k) + 1 + n] = b[n]
    BY DEF Rewritten, Laid
  <1>6. PICK s \in Nat : /\ i <= s /\ s + Len(b) < m
                         /\ \A n \in 1 .. Len(b) : b[n] = u[s + n]
    <2>1. LiesIn(b, u, i, m)
      BY <1>5, BodyIs
    <2> QED
      BY <2>1 DEF LiesIn
  <1> DEFINE r == s - (o + Len(k) + 1)
  <1>7. ASSUME NEW n \in Nat, x <= n, n <= e
        PROVE  u[n + r] = t[n]
    <2> DEFINE p == n - (o + Len(k) + 1)
    <2>1. p \in 1 .. Len(b) /\ o + Len(k) + 1 + p = n /\ s + p = n + r
      BY <1>1, <1>2, <1>4, <1>7
    <2> HIDE DEF p
    <2> QED
      BY <1>5, <1>6, <2>1
  <1>8. /\ i \in Nat /\ m \in Nat /\ m <= Len(u) /\ Len(u) \in Nat
    BY <1>5, ValidIs
  <1>9. /\ r \in Int /\ x + r > 0 /\ e + r <= Len(u)
        /\ y + Len(l) - 1 + r <= Len(u)
        /\ i < x + r /\ x + r < m /\ y + r + Len(l) = e + r
    BY <1>1, <1>2, <1>4, <1>6, <1>8
  <1> HIDE DEF r
  <1>10. \A n \in Nat : x <= n /\ n < y + Len(l) => u[n + r] = t[n]
    BY <1>2, <1>7
  <1>11. Tag(u, x + r, y + r, l)
    BY <1>1, <1>5, <1>9, <1>10, TagMoves
  <1>12. u[e + r] \in White \union {">", "/"}
    <2>1. e # Len(t) + 1
      BY <1>1, <1>4
    <2>2. e \in Nat /\ x <= e /\ e <= e
      BY <1>2
    <2>3. u[e + r] = t[e]
      BY <1>7, <2>2
    <2> QED
      BY <2>1, <2>3
  <1>13. x + r \in Recognized(u)
    BY <1>5, <1>9, <1>11, <1>12, EndsRecognized
  <1>14. Recognized(u) = {i, m}
    BY <1>5, RecognizedAre DEF Valid
  <1> QED
    BY <1>8, <1>9, <1>13, <1>14

LEMMA RewrittenTags ==
    ASSUME NEW t, NEW o, NEW c, NEW u, NEW i, NEW m, NEW k, NEW d, NEW b,
           Rewritten(t, o, c, u, i, m, k, d, b)
    PROVE  Exact(t, Len(t)) = {o, c} /\ ~Broken(t)
  <1>1. /\ k \in Kinds /\ IsText(t) /\ o \in Nat /\ c \in Nat
        /\ Len(t) \in Nat /\ Len(t) = c + Len(k) + 3 /\ 0 < o
        /\ c = o + Len(k) + 2 + Len(b) /\ Len(k) \in Nat /\ Len(b) \in Nat
        /\ At(t, o, Open(k)) /\ At(t, c, Close(k))
    BY RewrittenIs
  <1>2. o \in 1 .. Len(t) /\ c \in 1 .. Len(t)
    BY <1>1
  <1>3. o \in Exact(t, Len(t)) /\ c \in Exact(t, Len(t))
    <2>1. Good(t, o, o + 1, k) /\ Good(t, c, c + 2, k)
      BY <1>1, <1>2, OpenIsGood, CloseIsGood
    <2> QED
      BY <1>2, <2>1 DEF Exact, Good
  <1>4. ASSUME NEW x \in Recognized(t)
        PROVE  x \in {o, c}
    <2>1. PICK y, l : /\ Tag(t, x, y, l)
                      /\ \/ y + Len(l) = Len(t) + 1
                         \/ t[y + Len(l)] \in White \union {">", "/"}
      BY <1>1, RecognizedEnds
    <2>2. x \in 1 .. Len(t) /\ t[x] = "<"
      BY <1>1, <2>1, TagIs
    <2>3. x = o \/ x = c \/ (o + Len(k) + 2 <= x /\ x < c)
      BY <2>2, OtherSymbols
    <2> QED
      BY <2>1, <2>3, BodyTags
  <1>5. Exact(t, Len(t)) \subseteq Recognized(t)
    BY <1>1, RecognizedAre
  <1>6. Exact(t, Len(t)) = {o, c} /\ Recognized(t) = {o, c}
    BY <1>3, <1>4, <1>5
  <1> QED
    BY <1>1, <1>6, RecognizedAre

\* No line of a neutral text opens a fence.
LEMMA NeutralFences ==
    ASSUME NEW t, IsText(t), NEW d, Neutral(d), Len(d) <= Len(t),
           \A n \in 1 .. Len(d) : t[n] = d[n]
    PROVE  Fences(t)[Len(d)] = NoFence
  <1> DEFINE q == Len(d)
             N == {n \in Nat : n <= q => Fences(t)[n] = NoFence}
  <1>1. Len(t) \in Nat /\ q \in Nat
    BY TextIs DEF Neutral
  <1>2. \A n \in 0 .. Len(t) : Fences(t)[n] = OpenAt(Fences(t), t, n)
    BY FencesAre
  <1>3. 0 \in N
    BY <1>1, <1>2 DEF OpenAt
  <1>4. ASSUME NEW n \in N
        PROVE  n + 1 \in N
    <2>1. n \in Nat /\ (n <= q => Fences(t)[n] = NoFence)
      BY <1>4
    <2>2. ASSUME n + 1 <= q
          PROVE  Fences(t)[n + 1] = NoFence
      <3>1. /\ n + 1 \in 0 .. Len(t) /\ n + 1 # 0 /\ n + 1 - 1 = n
            /\ Fences(t)[n] = NoFence /\ n \in 0 .. Len(t)
        BY <1>1, <2>1, <2>2
      <3>2. Fences(t)[n + 1] =
              IF t[n + 1] # "newline" THEN NoFence
              ELSE Toggle(NoFence, Part(t, LineBegin(t, n + 1), n))
        BY <1>2, <3>1 DEF OpenAt, Part
      <3>3. PICK s : LineFrom(t, s, n)
        <4> DEFINE a == Feed(NewAccumulator, Part(t, 0 + 1, n))
        <4>1. Accumulated(t, 0, NewAccumulator)
          BY NewKnows
        <4>2. 0 \in 0 .. Len(t) /\ n \in 0 .. Len(t)
          BY <3>1
        <4>3. Accumulated(t, n, a)
          BY <4>1, <4>2, ChunkKnown, Zenon
        <4> HIDE DEF a
        <4> QED
          BY <4>3 DEF Accumulated, LineAt
      <3>4. LineBegin(t, n + 1) = s + 1 /\ s \in 0 .. n
        BY <2>1, <3>3, LineBeginIs DEF LineFrom
      <3> DEFINE m == s + 1
      <3>5. Blanks(t, s, n, m)
        BY <2>1, <3>4 DEF Blanks
      <3>6. NoMark(t, s, n, m)
        <4>1. m \in 1 .. q /\ (s > 0 => m - 1 = s)
          BY <2>1, <2>2, <3>4
        <4>2. LineStarts(d, m)
          <5>1. CASE s = 0
            BY <5>1 DEF LineStarts
          <5>2. CASE s > 0
            <6>1. s \in 1 .. q /\ m - 1 = s
              BY <2>1, <2>2, <3>4, <5>2
            <6>2. t[s] = "newline"
              BY <3>3, <5>2 DEF LineFrom
            <6>3. d[s] = "newline"
              BY <6>1, <6>2
            <6> QED
              BY <6>1, <6>3 DEF LineStarts
          <5> QED
            BY <3>4, <5>1, <5>2
        <4> HIDE DEF m
        <4>3. t[m] = "prefix"
          BY <4>1, <4>2 DEF Neutral
        <4> QED
          BY <4>3 DEF NoMark, Ticks
      <3>7. FenceOf(Part(t, s + 1, n)).length = 0
        <4> HIDE DEF m
        <4> QED
          BY <3>1, <3>4, <3>5, <3>6, NoMarkFence
      <3>8. Toggle(NoFence, Part(t, s + 1, n)) = NoFence
        BY <3>7 DEF Toggle
      <3> QED
        BY <3>2, <3>4, <3>8
    <2> QED
      BY <2>1, <2>2
  <1>5. N = Nat
    <2>1. N \in SUBSET Nat
      OBVIOUS
    <2> HIDE DEF N
    <2> QED
      BY <1>3, <1>4, <2>1, Induction
  <1> QED
    BY <1>1, <1>5

LEMMA RewrittenFramed ==
    ASSUME NEW t, NEW o, NEW c, NEW u, NEW i, NEW m, NEW k, NEW d, NEW b,
           Rewritten(t, o, c, u, i, m, k, d, b)
    PROVE  FramedAt(t, o)
  <1>1. /\ IsText(t) /\ o \in Nat /\ Len(d) \in Nat /\ o = Len(d) + 1
        /\ Len(t) \in Nat /\ Len(t) = c + Len(k) + 3 /\ Len(k) \in Nat
        /\ c = o + Len(k) + 2 + Len(b) /\ Len(b) \in Nat
    BY RewrittenIs
  <1>2. /\ Neutral(d) /\ LineStarts(d, Len(d) + 1)
        /\ \A n \in 1 .. Len(d) : t[n] = d[n]
    BY DEF Rewritten, Laid, Framing
  <1>3. Len(d) <= Len(t) /\ o - 1 = Len(d)
    BY <1>1
  <1>4. Fences(t)[o - 1] = NoFence
    BY <1>1, <1>2, <1>3, NeutralFences
  <1>5. ~InFence(t, o)
    BY <1>1, <1>4, FencesAre DEF NoFence
  <1>6. o > 1 => t[o - 1] = "newline"
    BY <1>1, <1>2, <1>3 DEF LineStarts
  <1> QED
    BY <1>5, <1>6 DEF FramedAt

LEMMA RewrittenValid ==
    ASSUME NEW t, NEW o, NEW c, NEW u, NEW i, NEW m, NEW k, NEW d, NEW b,
           Rewritten(t, o, c, u, i, m, k, d, b)
    PROVE  Valid(t, o, c, k) /\ Body(t, o, c, k) = b
  <1>1. /\ k \in Kinds /\ IsText(t) /\ o \in Nat /\ c \in Nat /\ 0 < o
        /\ Len(t) \in Nat /\ Len(t) = c + Len(k) + 3 /\ Len(k) \in Nat
        /\ c = o + Len(k) + 2 + Len(b) /\ Len(b) \in Nat
        /\ t[Len(t)] = "newline"
        /\ At(t, o, Open(k)) /\ At(t, c, Close(k))
    BY RewrittenIs
  <1>2. IsText(b) /\ b # << >> /\ Strip(b) = b
    BY BodyIs DEF Rewritten
  <1> DEFINE f == o + Len(k) + 2
             e == c - 1
             v == Part(t, f, e)
  <1>3. f \in 1 .. Len(t) + 1 /\ e \in f - 1 .. Len(t) /\ e - f + 1 = Len(b)
    BY <1>1
  <1>4. \A n \in 1 .. Len(b) : t[o + Len(k) + 1 + n] = b[n]
    BY DEF Rewritten, Laid
  <1>5. \A n \in 1 .. Len(b) : t[f + n - 1] = b[n]
    <2>1. \A n \in 1 .. Len(b) : f + n - 1 = o + Len(k) + 1 + n
      BY <1>1
    <2> QED
      BY <1>4, <2>1
  <1> HIDE DEF f, e
  <1>6. /\ IsText(v) /\ Len(v) = e - f + 1
        /\ \A n \in 1 .. e - f + 1 : v[n] = t[f + n - 1]
    BY <1>1, <1>3, PartIs
  <1> HIDE DEF v
  <1>7. v = b
    BY <1>2, <1>3, <1>5, <1>6, SameText
  <1>8. Body(t, o, c, k) = b
    BY <1>2, <1>7 DEF Body, v, f, e
  <1>9. ~Trails(t, Len(t), c + Len(k) + 3)
    <2>1. \A j \in c + Len(k) + 3 .. Len(t) : j = Len(t)
      BY <1>1
    <2> QED
      BY <1>1, <2>1 DEF Trails, White
  <1>10. o + Len(k) + 2 <= c
    BY <1>1
  <1> QED
    BY <1>1, <1>2, <1>8, <1>9, <1>10, RewrittenTags, RewrittenFramed DEF Valid

LEMMA NoneRecognized ==
    ASSUME NEW t, Neutral(t)
    PROVE  Recognized(t) = {}
  <1>1. DOMAIN t = 1 .. Len(t)
    BY TextIs DEF Neutral
  <1> QED
    BY <1>1 DEF Recognized, RecognizedAt, Neutral

LEMMA NoMarkers ==
    ASSUME NEW t, IsText(t), Recognized(t) = {}
    PROVE  MarkersOf(t) = {}
  <1>1. ASSUME NEW i, NEW m, NEW k, Valid(t, i, m, k)
        PROVE  FALSE
    BY <1>1, RecognizedAre DEF Valid
  <1> QED
    BY <1>1, MarkersAre

\* An accepted response is written again, and means what it meant.
LEMMA AcceptedMeans ==
    ASSUME NEW u, IsText(u), NEW v, v = Judge(Feed(NewAccumulator, u)),
           v.verdict = "accepted", NEW error, ~error,
           NEW d, Framing(d, TRUE), NEW t, t = Cat(d, Emission(u, error))
    PROVE  MarkersOf(t) = MarkersOf(u) /\ MarkersOf(u) # {}
  <1>1. MarkersOf(u) = {v.marker}
    BY TextKnown, JudgeIs DEF Judged
  <1>2. PICK i, m, k : Valid(u, i, m, k)
    BY <1>1, MarkersAre
  <1> DEFINE b == Body(u, i, m, k)
  <1>3. MarkersOf(u) = {[kind |-> k, body |-> b]}
    BY <1>2, MarkersAre
  <1>4. k \in Kinds /\ IsText(b) /\ IsText(d)
    <2>1. IsText(b)
      BY <1>2, BodyIs
    <2> QED
      BY <1>2, <2>1, ValidIs DEF Framing, Neutral
  <1>5. v.marker.kind = k /\ v.marker.body = b
    <2>1. v.marker = [kind |-> k, body |-> b]
      BY <1>1, <1>3
    <2> QED
      BY <2>1
  <1>6. Emission(u, error) = Cat(Cat(Open(k), b), Append(Close(k), "newline"))
    BY <1>5 DEF Emission, Normalized, Cat
  <1> DEFINE o == Len(d) + 1
             c == Len(d) + 1 + Len(k) + 2 + Len(b)
  <1> HIDE DEF b
  <1>7. t = Cat(d, Cat(Cat(Open(k), b), Append(Close(k), "newline")))
    BY <1>6
  <1>8. Laid(t, d, k, b, o, c)
    BY <1>4, <1>7, LaidOut
  <1> HIDE DEF o, c
  <1>9. Rewritten(t, o, c, u, i, m, k, d, b)
    BY <1>2, <1>8 DEF Rewritten, b
  <1>10. Valid(t, o, c, k) /\ Body(t, o, c, k) = b
    BY <1>9, RewrittenValid
  <1>11. IsText(t)
    BY <1>8 DEF Laid
  <1>12. MarkersOf(t) = {[kind |-> k, body |-> b]}
    BY <1>10, <1>11, MarkersAre
  <1> QED
    BY <1>3, <1>12

\* Any other, and every error, is written so that no tag is left in it.
LEMMA RefusedMeans ==
    ASSUME NEW u, IsText(u), NEW v, v = Judge(Feed(NewAccumulator, u)),
           NEW error, v.verdict # "accepted" \/ error, NEW d, Framing(d, TRUE),
           NEW t, t = Cat(d, Emission(u, error))
    PROVE  Recognized(t) = {} /\ Neutral(t)
  <1>1. IsText(d)
    BY DEF Framing, Neutral
  <1>2. Neutral(t)
    <2>1. CASE Strip(u) = << >>
      <3>1. Emission(u, error) = << >>
        BY <2>1 DEF Emission
      <3> QED
        BY <1>1, <3>1, CatText DEF Framing
    <2>2. CASE Strip(u) # << >>
      <3> DEFINE r == Write(TRUE, u)
      <3>1. Emission(u, error) = FinishLine(r)
        BY <2>2 DEF Emission
      <3>2. IsText(r.text) /\ Framing(Cat(d, r.text), r.boundary)
        BY WriteFrames
      <3> HIDE DEF r
      <3>3. Framing(Cat(d, FinishLine(r)), TRUE)
        BY <1>1, <3>2, FinishFrames
      <3> QED
        BY <3>1, <3>3 DEF Framing
    <2> QED
      BY <2>1, <2>2
  <1> QED
    BY <1>2, NoneRecognized DEF Neutral

-----------------------------------------------------------------------------
(* A wrapper's session *)

WrittenInv ==
    /\ AcceptInv
    /\ stage # "none" => errText = << >>
    /\ stage = "relay" => Framing(text, boundary)
    /\ stage = "emit" => Framing(text, TRUE)
    /\ stage = "ended" =>
          \E d : Framing(d, TRUE) /\ text = Cat(d, Emission(final, isError))

LEMMA WrittenInit == PlainInit \/ WrappedInit => WrittenInv
  <1>1. PlainInit \/ WrappedInit => AcceptInv
    BY AcceptInit
  <1>2. ASSUME PlainInit
        PROVE  WrittenInv
    BY <1>1, <1>2 DEF PlainInit, WrittenInv
  <1>3. ASSUME WrappedInit
        PROVE  WrittenInv
    <2>1. Framing(<< >>, TRUE)
      BY EmptyText DEF Framing, Neutral, LineStarts
    <2> QED
      BY <1>1, <1>3, <2>1 DEF WrappedInit, DiagnosticsInit, WrittenInv
  <1> QED
    BY <1>2, <1>3

LEMMA RelayLineWritten ==
    ASSUME WrittenInv, AcceptInv', RelayLine, errText' = errText
    PROVE  WrittenInv'
  <1> DEFINE r == Write(boundary, Relay.out)
  <1>1. /\ stage = "relay" /\ text' = Cat(text, r.text)
        /\ boundary' = r.boundary /\ stage' = stage
    BY DEF RelayLine, Relay, Cat
  <1>2. IsText(Relay.out)
    <2>1. ShownInv
      BY DEF WrittenInv, AcceptInv
    <2>2. PICK v : Seen(live, relayed, hidden, v)
      BY <1>1, <2>1 DEF ShownInv, Relaying
    <2> QED
      BY <2>1, <2>2, LineSeen
  <1>3. Framing(Cat(text, r.text), r.boundary)
    BY <1>1, <1>2, WriteFrames DEF WrittenInv
  <1> HIDE DEF r
  <1> QED
    BY <1>1, <1>3 DEF WrittenInv

LEMMA RelayEndsWritten ==
    ASSUME WrittenInv, AcceptInv', RelayEnds, errText' = errText
    PROVE  WrittenInv'
  <1> DEFINE r == Write(boundary, Flush(hidden))
  <1>1. /\ stage = "relay" /\ stage' = "emit"
        /\ text' = Cat(text, FinishLine(r))
    BY DEF RelayEnds, Cat
  <1>2. IsText(text) /\ IsText(Flush(hidden))
    <2>1. ShownInv
      BY DEF WrittenInv, AcceptInv
    <2>2. IsFilter(hidden)
      BY <1>1, <2>1 DEF ShownInv, Relaying, Seen, SeenAt
    <2> QED
      BY <2>1, <2>2, FlushType DEF ShownInv
  <1>3. IsText(r.text) /\ Framing(Cat(text, r.text), r.boundary)
    BY <1>1, <1>2, WriteFrames DEF WrittenInv
  <1> HIDE DEF r
  <1>4. Framing(text', TRUE)
    BY <1>1, <1>2, <1>3, FinishFrames
  <1> QED
    BY <1>1, <1>4 DEF WrittenInv

LEMMA EmitWritten ==
    ASSUME WrittenInv, AcceptInv', Emit, errText' = errText
    PROVE  WrittenInv'
  <1>1. /\ stage = "emit" /\ stage' = "ended"
        /\ final' = final /\ isError' = isError
        /\ text' = Cat(text, Emission(final, isError))
    BY DEF Emit, Cat
  <1>2. Framing(text, TRUE)
    BY <1>1 DEF WrittenInv
  <1> QED
    BY <1>1, <1>2 DEF WrittenInv

LEMMA WrittenNext ==
    WrittenInv /\ [WrapperStep \/ HandlerStep]_<<vars, wrapper>> => WrittenInv'
  <1> SUFFICES ASSUME WrittenInv,
                      [WrapperStep \/ HandlerStep]_<<vars, wrapper>>
               PROVE  WrittenInv'
    OBVIOUS
  <1>1. AcceptInv'
    BY AcceptNext DEF WrittenInv
  <1>2. CASE WrapperStep
    BY <1>1, <1>2, RelayLineWritten, RelayEndsWritten, EmitWritten
    DEF WrapperStep, DiagnosticsNext
  <1>3. CASE HandlerStep \/ UNCHANGED <<vars, wrapper>>
    <2>1. UNCHANGED <<text, errText, live, final, isError, boundary, stage>>
      BY <1>3 DEF HandlerStep, Next, Receive, Finish, vars, wrapper
    <2>2. Emission(final, isError)' = Emission(final, isError)
      BY <2>1
    <2> QED
      BY <1>1, <2>1, <2>2 DEF WrittenInv
  <1> QED
    BY <1>2, <1>3

LEMMA JudgeVerdict ==
    ASSUME NEW a
    PROVE  Judge(a) = Verdict(Judge(a).verdict, Judge(a).marker)
           /\ (Judge(a).verdict # "accepted" => Judge(a).marker = None)
  BY DEF Judge, Verdict

\* What the handler makes of a wrapper's text.
LEMMA WrittenResult ==
    ASSUME WrittenInv, Wrapped
    PROVE  result = IF Stated = {} THEN Verdict("missing", None)
                    ELSE Verdict("accepted", CHOOSE m \in Stated : TRUE)
  <1>1. /\ IsText(text) /\ IsText(final) /\ Accumulated(text, Len(text), acc)
        /\ errText = << >>
        /\ result = Parse(Judge(acc), Judge(Feed(NewAccumulator, << >>)))
    BY DEF WrittenInv, AcceptInv, ShownInv, Wrapped
  <1>2. PICK d : Framing(d, TRUE) /\ text = Cat(d, Emission(final, isError))
    BY DEF WrittenInv, Wrapped
  <1> DEFINE out == Judge(acc)
             err == Judge(Feed(NewAccumulator, << >>))
             v == Judge(Feed(NewAccumulator, final))
  <1>3. Judged(text, out) /\ out = Verdict(out.verdict, out.marker)
    BY <1>1, JudgeIs, JudgeVerdict
  <1>4. err.verdict = "none"
    <2>1. Judged(<< >>, err)
      BY EmptyText, TextKnown, JudgeIs
    <2>2. Recognized(<< >>) = {}
      BY DEF Recognized
    <2> QED
      BY <2>1, <2>2 DEF Judged
  <1>5. CASE v.verdict = "accepted" /\ ~isError
    <2>1. MarkersOf(text) = MarkersOf(final) /\ MarkersOf(final) # {}
      BY <1>1, <1>2, <1>5, AcceptedMeans
    <2> HIDE DEF v, out, err
    <2>2. Stated = MarkersOf(final)
      BY <1>5 DEF Stated
    <2>3. out.verdict = "accepted" /\ Stated = {out.marker}
      BY <1>3, <2>1, <2>2 DEF Judged
    <2>4. result = out
      BY <1>1, <1>4, <2>3 DEF Parse, out, err
    <2>5. (CHOOSE m \in Stated : TRUE) = out.marker
      BY <2>3
    <2> QED
      BY <1>3, <2>3, <2>4, <2>5
  <1>6. CASE v.verdict # "accepted" \/ isError
    <2>1. Recognized(text) = {}
      BY <1>1, <1>2, <1>6, RefusedMeans
    <2>2. Stated = {}
      <3>1. v.verdict # "accepted" => MarkersOf(final) = {}
        BY <1>1, TextKnown, JudgeIs DEF Judged
      <3> QED
        BY <1>6, <3>1 DEF Stated
    <2> HIDE DEF v, out, err
    <2>3. out.verdict = "none"
      BY <1>3, <2>1 DEF Judged
    <2>4. result = Verdict("missing", None)
      BY <1>1, <1>4, <2>3 DEF Parse, out, err
    <2> QED
      BY <2>2, <2>4
  <1> QED
    BY <1>5, <1>6

\* Whatever a provider wrote while it worked, and however all of it is cut, the
\* handler hears from the wrapper exactly the result its final response states,
\* and none when the provider calls the response an error.
THEOREM FinalIsHeard == WrappedSpec => []ResultIsFinal
  <1>1. WrittenInv => ResultIsFinal
    BY WrittenResult DEF ResultIsFinal
  <1> QED
    BY <1>1, WrittenInit, WrittenNext, PTL DEF WrappedSpec

-----------------------------------------------------------------------------
(* The original text of what is rendered *)

\* The recursive function of Unrendered.
ReadAt(f, t, i) == IF i = 0 THEN << >> ELSE Cat(f[i - 1], Original(t[i]))

ReadsTo(f, t, m) == f = [i \in 0 .. m |-> ReadAt(f, t, i)]

LEMMA ReadsExist ==
    ASSUME NEW t
    PROVE  \A m \in Nat : \E f : ReadsTo(f, t, m)
  <1> DEFINE N == {m \in Nat : \E f : ReadsTo(f, t, m)}
  <1>1. 0 \in N
    <2> DEFINE f == [i \in 0 .. 0 |-> << >>]
    <2>1. ReadsTo(f, t, 0)
      BY DEF ReadsTo, ReadAt
    <2> QED
      BY <2>1
  <1>2. ASSUME NEW m \in N
        PROVE  m + 1 \in N
    <2>1. PICK f : ReadsTo(f, t, m)
      OBVIOUS
    <2> DEFINE g == [i \in 0 .. m + 1 |-> IF i <= m THEN f[i]
                                          ELSE ReadAt(f, t, i)]
    <2>2. ASSUME NEW i \in 0 .. m + 1
          PROVE  g[i] = ReadAt(g, t, i)
      <3>1. i # 0 => i - 1 \in 0 .. m /\ g[i - 1] = f[i - 1]
        OBVIOUS
      <3>2. ReadAt(g, t, i) = ReadAt(f, t, i)
        BY <3>1 DEF ReadAt
      <3>3. i <= m => f[i] = ReadAt(f, t, i)
        BY <2>1 DEF ReadsTo
      <3> QED
        BY <3>2, <3>3
    <2>3. ReadsTo(g, t, m + 1)
      <3> HIDE DEF g
      <3>1. g = [i \in 0 .. m + 1 |-> g[i]]
        BY DEF g
      <3> QED
        BY <2>2, <3>1 DEF ReadsTo
    <2> QED
      BY <2>3
  <1>3. N = Nat
    <2> HIDE DEF N
    <2>1. N \in SUBSET Nat
      BY DEF N
    <2> QED
      BY <1>1, <1>2, <2>1, Induction
  <1> QED
    BY <1>3

\* What is read of t, symbol by symbol.
Recovers(f, t) ==
    /\ f[0] = << >>
    /\ \A i \in 1 .. Len(t) : f[i] = Cat(f[i - 1], Original(t[i]))
    /\ Unrendered(t) = f[Len(t)]

LEMMA UnrenderedIs ==
    ASSUME NEW t, IsText(t)
    PROVE  \E f : Recovers(f, t)
  <1> DEFINE L == Len(t)
             f == CHOOSE f : ReadsTo(f, t, L)
  <1>1. L \in Nat
    BY TextIs
  <1>2. Unrendered(t) = f[L]
    BY DEF Unrendered, ReadsTo, ReadAt, Cat
  <1>3. ReadsTo(f, t, L)
    BY <1>1, ReadsExist
  <1> HIDE DEF f
  <1>4. \A i \in 0 .. L : f[i] = ReadAt(f, t, i)
    BY <1>3 DEF ReadsTo
  <1>5. f[0] = << >>
    BY <1>1, <1>4 DEF ReadAt
  <1>6. ASSUME NEW i \in 1 .. L
        PROVE  f[i] = Cat(f[i - 1], Original(t[i]))
    <2>1. i \in 0 .. L /\ i # 0
      BY <1>1
    <2> QED
      BY <1>4, <2>1 DEF ReadAt
  <1> QED
    BY <1>2, <1>5, <1>6 DEF Recovers

LEMMA UnrenderedNone == Unrendered(<< >>) = << >>
  <1>1. PICK f : Recovers(f, << >>)
    BY EmptyText, UnrenderedIs
  <1> QED
    BY <1>1, EmptyText DEF Recovers

\* One symbol more is read.
LEMMA UnrenderedAdd ==
    ASSUME NEW x, IsText(x), NEW c, NEW z, Added(x, c, z)
    PROVE  Unrendered(z) = Cat(Unrendered(x), Original(c))
  <1> DEFINE n == Len(x)
  <1>1. PICK f : Recovers(f, x)
    BY UnrenderedIs
  <1>2. PICK g : Recovers(g, z)
    BY UnrenderedIs DEF Added
  <1>3. /\ n \in Nat /\ Len(z) = n + 1 /\ z[n + 1] = c
        /\ \A i \in 1 .. n : z[i] = x[i]
    BY TextIs DEF Added
  <1> DEFINE N == {i \in Nat : i <= n => f[i] = g[i]}
  <1>4. 0 \in N
    BY <1>1, <1>2 DEF Recovers
  <1>5. ASSUME NEW i \in N
        PROVE  i + 1 \in N
    <2>1. CASE ~(i + 1 <= n)
      BY <2>1
    <2>2. CASE i + 1 <= n
      <3>1. i + 1 \in 1 .. n /\ i + 1 \in 1 .. n + 1 /\ i <= n /\ i + 1 - 1 = i
        BY <1>3, <2>2
      <3>2. f[i + 1] = Cat(f[i], Original(x[i + 1]))
        BY <1>1, <3>1 DEF Recovers
      <3>3. g[i + 1] = Cat(g[i], Original(z[i + 1]))
        BY <1>2, <1>3, <3>1 DEF Recovers
      <3>4. f[i] = g[i] /\ z[i + 1] = x[i + 1]
        BY <1>3, <3>1
      <3> QED
        BY <3>2, <3>3, <3>4
    <2> QED
      BY <2>1, <2>2
  <1>6. N = Nat
    <2>1. N \in SUBSET Nat
      OBVIOUS
    <2> HIDE DEF N
    <2> QED
      BY <1>4, <1>5, <2>1, Induction
  <1>7. f[n] = g[n]
    <2>1. n \in N
      BY <1>3, <1>6
    <2> QED
      BY <1>3, <2>1
  <1>8. n + 1 \in 1 .. n + 1 /\ n + 1 - 1 = n
    BY <1>3
  <1>9. g[n + 1] = Cat(g[n], Original(c))
    BY <1>2, <1>3, <1>8 DEF Recovers
  <1> QED
    BY <1>1, <1>2, <1>3, <1>7, <1>9 DEF Recovers

\* What was rendered so far, x, is the text v; b: it ends a line.
Shows(x, b, v) ==
    /\ IsText(x) /\ IsText(v) /\ Unrendered(x) = v
    /\ b <=> LineStarts(v, Len(v) + 1)

\* A symbol that is not the renderer's own.
Own == {"prefix", "&lt;"}

LEMMA OriginalIs ==
    ASSUME NEW c \in Symbol, c \notin Own
    PROVE  Original("prefix") = << >> /\ Original(Escaped(c)) = <<c>>
  BY DEF Original, Escaped, Own

LEMMA RenderShows ==
    ASSUME NEW t, IsText(t), NEW r, IsText(r.text), NEW v,
           Shows(Cat(t, r.text), r.boundary, v),
           NEW c \in Symbol, c \notin Own, NEW z, z = Render(r, c)
    PROVE  Shows(Cat(t, z.text), z.boundary, Cat(v, <<c>>))
  <1> DEFINE x == Cat(t, r.text)
             y == IF r.boundary THEN Cat(x, <<"prefix">>) ELSE x
             e == Escaped(c)
  <1>1. Cat(t, z.text) = Cat(y, <<e>>) /\ (z.boundary <=> c = "newline")
    BY RenderIs
  <1>2. IsText(x) /\ IsText(v) /\ Unrendered(x) = v
    BY DEF Shows
  <1>3. e \in Symbol /\ Original(e) = <<c>> /\ Original("prefix") = << >>
    BY EscapedIs, OriginalIs
  <1> HIDE DEF x, e
  <1>4. IsText(y) /\ Unrendered(y) = v
    <2>1. CASE r.boundary
      <3> DEFINE p == "prefix"
      <3>1. p \in Symbol /\ Original(p) = << >> /\ y = Cat(x, <<p>>)
        BY <1>3, <2>1 DEF Symbol
      <3> HIDE DEF p, y
      <3>2. Added(x, p, y)
        BY <1>2, <3>1, AddOne
      <3>3. Unrendered(y) = Cat(v, << >>)
        BY <1>2, <3>1, <3>2, UnrenderedAdd
      <3> QED
        BY <1>2, <3>2, <3>3, CatText DEF Added
    <2>2. CASE ~r.boundary
      BY <1>2, <2>2
    <2> QED
      BY <2>1, <2>2
  <1> HIDE DEF y
  <1>5. Added(y, e, Cat(y, <<e>>)) /\ Added(v, c, Cat(v, <<c>>))
    BY <1>2, <1>3, <1>4, AddOne
  <1>6. Unrendered(Cat(y, <<e>>)) = Cat(v, <<c>>)
    BY <1>3, <1>4, <1>5, UnrenderedAdd
  <1>7. LineStarts(Cat(v, <<c>>), Len(Cat(v, <<c>>)) + 1) <=> c = "newline"
    <2> DEFINE u == Cat(v, <<c>>)
    <2>1. Added(v, c, u)
      BY <1>5
    <2> HIDE DEF u
    <2>2. Len(v) \in Nat
      BY <1>2, TextIs
    <2>3. LineStarts(u, Len(u) + 1) <=> c = "newline"
      BY <2>1, <2>2 DEF Added, LineStarts
    <2> QED
      BY <2>3 DEF u
  <1> QED
    BY <1>1, <1>5, <1>6, <1>7 DEF Shows, Added

LEMMA OnePart ==
    ASSUME NEW t, IsText(t), NEW i \in 1 .. Len(t)
    PROVE  Part(t, i, i) = <<t[i]>>
  <1> DEFINE a == Part(t, i, i)
             c == t[i]
             b == <<c>>
  <1>1. i \in 1 .. Len(t) + 1 /\ i \in i - 1 .. Len(t) /\ c \in Symbol
    BY TextIs
  <1>2. IsText(a) /\ Len(a) = i - i + 1
        /\ \A n \in 1 .. i - i + 1 : a[n] = t[i + n - 1]
    BY <1>1, PartIs
  <1>3. i - i + 1 = 1 /\ i + 1 - 1 = i
    OBVIOUS
  <1>4. IsText(a) /\ Len(a) = 1 /\ a[1] = c
    BY <1>2, <1>3
  <1>5. IsText(b) /\ Len(b) = 1 /\ b[1] = c
    BY <1>1, OneOf DEF IsText
  <1> HIDE DEF a, b
  <1>6. a = b
    BY <1>4, <1>5, SameText
  <1> QED
    BY <1>6 DEF a, b

\* A text is read as it was before it was rendered.
LEMMA WriteShows ==
    ASSUME NEW t, NEW b, NEW v, Shows(t, b, v), NEW s, IsText(s), Raw(s),
           NEW r, r = Write(b, s)
    PROVE  IsText(r.text) /\ Shows(Cat(t, r.text), r.boundary, Cat(v, s))
  <1> DEFINE L == Len(s)
             After(q, i) ==
                 /\ IsText(q.text)
                 /\ Shows(Cat(t, q.text), q.boundary, Cat(v, Part(s, 1, i)))
  <1>1. L \in Nat /\ (\A i \in 1 .. L : s[i] \in Symbol) /\ s = Part(s, 1, L)
    BY TextIs
  <1>2. IsText(t) /\ IsText(v)
    BY DEF Shows
  <1>3. PICK w : Stages(w, b, s)
    BY WriteIs
  <1> DEFINE N == {i \in Nat : i <= L => After(w[i], i)}
  <1>4. 0 \in N
    <2>1. w[0].text = << >> /\ w[0].boundary = b
      BY <1>3 DEF Stages, Rendered
    <2>2. Cat(t, << >>) = t /\ Cat(v, << >>) = v
      BY <1>2, CatText
    <2>3. Part(s, 1, 0) = << >>
      BY DEF Part
    <2> QED
      BY <2>1, <2>2, <2>3, EmptyText
  <1>5. ASSUME NEW i \in N
        PROVE  i + 1 \in N
    <2>1. i \in Nat /\ (i <= L => After(w[i], i))
      BY <1>5
    <2>2. CASE i < L
      <3> DEFINE c == s[i + 1]
                 a == Part(s, 1, i)
      <3>1. i + 1 \in 1 .. L /\ i \in 0 .. L /\ 1 \in 1 .. L + 1
        BY <1>1, <2>1, <2>2
      <3>2. w[i + 1] = Render(w[i], c) /\ c \in Symbol /\ After(w[i], i)
        BY <1>1, <1>3, <2>1, <2>2, <3>1 DEF Stages
      <3>3. c \notin Own
        BY <3>1 DEF Raw, Own
      <3>4. IsText(a) /\ Cat(a, <<c>>) = Part(s, 1, i + 1)
        <4>1. IsText(a)
          BY <3>1, PartIs
        <4>2. Part(s, i + 1, i + 1) = <<c>>
          BY <3>1, OnePart DEF c
        <4>3. Cat(Part(s, 1, i), Part(s, i + 1, i + 1)) = Part(s, 1, i + 1)
          <5>1. i \in 1 - 1 .. Len(s) /\ i + 1 \in i .. Len(s)
            BY <1>1, <3>1
          <5> QED
            BY <3>1, <5>1, PartCat
        <4> QED
          BY <4>1, <4>2, <4>3
      <3> HIDE DEF c, a
      <3>5. IsText(w[i + 1].text)
        BY <3>2, RenderType
      <3>6. IsText(w[i].text)
            /\ Shows(Cat(t, w[i].text), w[i].boundary, Cat(v, a))
        BY <3>2 DEF a
      <3>7. Shows(Cat(t, w[i + 1].text), w[i + 1].boundary,
                  Cat(Cat(v, a), <<c>>))
        BY <1>2, <3>2, <3>3, <3>6, RenderShows
      <3>8. Cat(Cat(v, a), <<c>>) = Cat(v, Part(s, 1, i + 1))
        <4>1. IsText(<<c>>)
          BY <3>2, OneOf DEF IsText
        <4> QED
          BY <1>2, <3>4, <4>1, CatTexts
      <3> QED
        BY <2>1, <3>5, <3>7, <3>8
    <2>3. CASE ~(i < L)
      BY <1>1, <2>1, <2>3
    <2> QED
      BY <2>2, <2>3
  <1>6. N = Nat
    <2>1. N \in SUBSET Nat
      OBVIOUS
    <2> HIDE DEF N
    <2> QED
      BY <1>4, <1>5, <2>1, Induction
  <1>7. After(w[L], L)
    <2>1. L \in N
      BY <1>1, <1>6
    <2> QED
      BY <1>1, <2>1
  <1>8. r = w[L]
    BY <1>3 DEF Stages
  <1> QED
    BY <1>1, <1>7, <1>8

WholeText(t) == LineStarts(t, Len(t) + 1)

LEMMA WholeLinesIs ==
    ASSUME NEW t, IsText(t)
    PROVE  WholeLines(t) = IF WholeText(t) THEN t ELSE Cat(t, <<"newline">>)
  <1>1. Len(t) \in Nat /\ Len(t) + 1 - 1 = Len(t) /\ Last(t) = t[Len(t)]
    BY TextIs DEF Last
  <1>2. t = << >> <=> Len(t) = 0
    BY EmptySeq DEF IsText
  <1>3. WholeText(t) <=> t = << >> \/ Last(t) = "newline"
    BY <1>1, <1>2 DEF LineStarts, WholeText
  <1>4. Append(t, "newline") = Cat(t, <<"newline">>)
    <2> DEFINE c == "newline"
    <2>1. c \in Symbol
      BY DEF Symbol
    <2> HIDE DEF c
    <2>2. Append(t, c) = Cat(t, <<c>>)
      BY <2>1, AppendIsConcat DEF IsText, Cat
    <2> QED
      BY <2>2 DEF c
  <1> QED
    BY <1>3, <1>4 DEF WholeLines

LEMMA WholeLinesEnd ==
    ASSUME NEW t, IsText(t)
    PROVE  IsText(WholeLines(t)) /\ WholeText(WholeLines(t))
  <1> DEFINE c == "newline"
             u == Cat(t, <<c>>)
  <1>1. c \in Symbol
    BY DEF Symbol
  <1>2. WholeLines(t) = IF WholeText(t) THEN t ELSE u
    BY WholeLinesIs
  <1>3. c = "newline"
    OBVIOUS
  <1> HIDE DEF c
  <1>4. Added(t, c, u)
    BY <1>1, AddOne
  <1> HIDE DEF u
  <1>5. Len(t) \in Nat
    BY TextIs
  <1>6. IsText(u) /\ WholeText(u)
    BY <1>3, <1>4, <1>5 DEF Added, WholeText, LineStarts
  <1> QED
    BY <1>2, <1>6

\* Whole lines stay whole before others.
LEMMA WholeLinesCat ==
    ASSUME NEW s, IsText(s), WholeText(s), NEW t, IsText(t)
    PROVE  WholeLines(Cat(s, t)) = Cat(s, WholeLines(t))
  <1> DEFINE z == Cat(s, t)
             m == Len(s)
             n == Len(t)
             c == <<"newline">>
  <1>1. m \in Nat /\ n \in Nat
    BY TextIs
  <1>2. IsText(z) /\ Len(z) = m + n
        /\ (\A i \in 1 .. m : z[i] = s[i]) /\ \A i \in 1 .. n : z[m + i] = t[i]
    BY <1>1, CatAt DEF Joined
  <1>3. IsText(c)
    <2> DEFINE d == "newline"
    <2>1. d \in Symbol
      BY DEF Symbol
    <2> HIDE DEF d
    <2>2. IsText(<<d>>)
      BY <2>1, OneOf DEF IsText
    <2> QED
      BY <2>2 DEF d
  <1>4. Cat(z, c) = Cat(s, Cat(t, c))
    BY <1>3, CatTexts
  <1> HIDE DEF c
  <1>5. /\ WholeLines(z) = IF WholeText(z) THEN z ELSE Cat(z, c)
        /\ WholeLines(t) = IF WholeText(t) THEN t ELSE Cat(t, c)
    BY <1>2, WholeLinesIs DEF c
  <1>6. WholeText(z) <=> WholeText(t)
    <2> HIDE DEF z, m, n
    <2>1. CASE n = 0
      <3>1. Len(z) = m /\ (m > 0 => z[m] = s[m])
        BY <1>1, <1>2, <2>1
      <3>2. m = Len(s) /\ n = Len(t)
        BY DEF m, n
      <3> QED
        BY <1>1, <2>1, <3>1, <3>2 DEF WholeText, LineStarts
    <2>2. CASE n > 0
      <3>1. Len(z) = m + n /\ z[m + n] = t[n]
        <4>1. n \in 1 .. n
          BY <1>1, <2>2
        <4> QED
          BY <1>2, <4>1
      <3>2. n = Len(t)
        BY DEF n
      <3> QED
        BY <1>1, <2>2, <3>1, <3>2 DEF WholeText, LineStarts
    <2> QED
      BY <1>1, <2>1, <2>2
  <1> QED
    BY <1>4, <1>5, <1>6

LEMMA FinishShows ==
    ASSUME NEW t, IsText(t), NEW r, IsText(r.text), NEW v,
           Shows(Cat(t, r.text), r.boundary, v)
    PROVE  Shows(Cat(t, FinishLine(r)), TRUE, WholeLines(v))
  <1> DEFINE x == Cat(t, r.text)
             c == "newline"
             y == Cat(x, <<c>>)
  <1>1. IsText(x) /\ IsText(v) /\ Unrendered(x) = v
        /\ (r.boundary <=> WholeText(v))
    BY DEF Shows, WholeText
  <1>2. /\ WholeLines(v) = IF WholeText(v) THEN v ELSE Cat(v, <<c>>)
        /\ IsText(WholeLines(v)) /\ WholeText(WholeLines(v))
    BY <1>1, WholeLinesIs, WholeLinesEnd
  <1>3. CASE r.boundary
    BY <1>1, <1>2, <1>3 DEF FinishLine, Shows, WholeText
  <1>4. CASE ~r.boundary
    <2>1. c \in Symbol /\ Original(c) = <<c>>
      BY DEF Symbol, Original
    <2>2. Append(r.text, c) = FinishLine(r)
      BY <1>4 DEF FinishLine
    <2> HIDE DEF c
    <2>3. IsText(<<c>>)
      BY <2>1, OneOf DEF IsText
    <2>4. FinishLine(r) = Cat(r.text, <<c>>)
      BY <2>1, <2>2, AppendIsConcat DEF IsText, Cat
    <2>5. Cat(t, FinishLine(r)) = y
      BY <2>3, <2>4, CatTexts
    <2> HIDE DEF x
    <2>6. Added(x, c, y)
      BY <1>1, <2>1, AddOne
    <2> HIDE DEF y
    <2>7. IsText(y) /\ Unrendered(y) = Cat(v, <<c>>)
      <3>1. Unrendered(y) = Cat(Unrendered(x), Original(c))
        BY <1>1, <2>6, UnrenderedAdd
      <3> QED
        BY <1>1, <2>1, <2>6, <3>1 DEF Added
    <2> QED
      BY <1>1, <1>2, <1>4, <2>5, <2>7 DEF Shows, WholeText
  <1> QED
    BY <1>3, <1>4

-----------------------------------------------------------------------------
(* What is shown of a text has only symbols of it *)

LEMMA RawCat ==
    ASSUME NEW s, NEW t, IsText(s), IsText(t)
    PROVE  Raw(Cat(s, t)) <=> Raw(s) /\ Raw(t)
  <1> DEFINE z == Cat(s, t)
             m == Len(s)
             n == Len(t)
  <1>1. m \in Nat /\ n \in Nat
    BY TextIs
  <1>2. Joined(z, s, t, m, n)
    BY <1>1, CatAt
  <1> HIDE DEF z
  <1>3. /\ Len(z) = m + n /\ (\A i \in 1 .. m : z[i] = s[i])
        /\ \A i \in 1 .. n : z[m + i] = t[i]
    BY <1>2 DEF Joined
  <1>4. ASSUME Raw(z)
        PROVE  Raw(s) /\ Raw(t)
    <2>1. ASSUME NEW i \in 1 .. m
          PROVE  s[i] \notin {"prefix", "&lt;"}
      <3>1. i \in 1 .. m + n
        BY <1>1
      <3> QED
        BY <1>3, <1>4, <3>1 DEF Raw
    <2>2. ASSUME NEW i \in 1 .. n
          PROVE  t[i] \notin {"prefix", "&lt;"}
      <3>1. m + i \in 1 .. m + n
        BY <1>1
      <3> QED
        BY <1>3, <1>4, <3>1 DEF Raw
    <2> QED
      BY <2>1, <2>2 DEF Raw
  <1>5. ASSUME Raw(s), Raw(t), NEW i \in 1 .. m + n
        PROVE  z[i] \notin {"prefix", "&lt;"}
    <2>1. CASE i \in 1 .. m
      BY <1>3, <1>5, <2>1 DEF Raw
    <2>2. CASE ~(i \in 1 .. m)
      <3>1. i - m \in 1 .. n /\ m + (i - m) = i
        BY <1>1, <2>2
      <3> QED
        BY <1>3, <1>5, <3>1 DEF Raw
    <2> QED
      BY <2>1, <2>2
  <1>6. Raw(z) <=> Raw(s) /\ Raw(t)
    BY <1>3, <1>4, <1>5 DEF Raw
  <1> QED
    BY <1>6 DEF z

LEMMA RawPart ==
    ASSUME NEW t, IsText(t), Raw(t), NEW i \in 1 .. Len(t) + 1,
           NEW j \in i - 1 .. Len(t)
    PROVE  Raw(Part(t, i, j))
  <1> DEFINE s == Part(t, i, j)
  <1>1. Len(t) \in Nat /\ i \in Nat /\ j \in Int
    BY TextIs
  <1>2. Len(s) = j - i + 1 /\ \A n \in 1 .. j - i + 1 : s[n] = t[i + n - 1]
    BY PartIs
  <1> HIDE DEF s
  <1>3. ASSUME NEW n \in 1 .. j - i + 1
        PROVE  s[n] \notin {"prefix", "&lt;"}
    <2>1. i + n - 1 \in 1 .. Len(t)
      BY <1>1
    <2> QED
      BY <1>2, <2>1 DEF Raw
  <1>4. Raw(s)
    BY <1>2, <1>3 DEF Raw
  <1> QED
    BY <1>4 DEF s

LEMMA RawFrom ==
    ASSUME NEW t, IsText(t), Raw(t), NEW i \in 1 .. Len(t) + 1,
           \A j \in i + 1 .. Len(t) + 1 : Raw(From(t)[j])
    PROVE  Raw(From(t)[i])
  <1> DEFINE F == From(t)
  <1>1. Len(t) \in Nat /\ Len(t) \in i - 1 .. Len(t)
    BY TextIs
  <1>2. F[i] = FromStep(t, F, i)
    BY FromIs
  <1>3. \A j \in i + 1 .. Len(t) + 1 : IsText(F[j]) /\ Raw(F[j])
    <2>1. \A j \in i + 1 .. Len(t) + 1 : j \in 1 .. Len(t) + 1
      BY <1>1
    <2> QED
      BY <2>1, FromIs
  <1> HIDE DEF F
  <1>4. CASE FromStep(t, F, i) = Part(t, i, Len(t))
    BY <1>1, <1>2, <1>4, RawPart DEF F
  <1>5. CASE FromStep(t, F, i) # Part(t, i, Len(t))
    <2>1. PICK q \in i .. Len(t), k \in Kinds : HasBlock(t, F, i, q, k)
      BY <1>5, FromStepIs
    <2>2. PICK x \in i + 1 .. Len(t) + 1 :
                FromStep(t, F, i) = Cat(Part(t, i, q - 1), F[x])
      BY <2>1 DEF HasBlock
    <2>3. q - 1 \in i - 1 .. Len(t)
      BY <1>1
    <2>4. IsText(Part(t, i, q - 1)) /\ Raw(Part(t, i, q - 1))
      BY <2>3, PartIs, RawPart
    <2> DEFINE a == Part(t, i, q - 1)
               b == F[x]
    <2>5. IsText(a) /\ Raw(a) /\ IsText(b) /\ Raw(b) /\ F[i] = Cat(a, b)
      BY <1>2, <1>3, <2>2, <2>4
    <2> HIDE DEF a, b
    <2>6. Raw(F[i])
      BY <2>5, RawCat
    <2> QED
      BY <2>6 DEF F
  <1> QED
    BY <1>4, <1>5

LEMMA RawVisible ==
    ASSUME NEW t, IsText(t), Raw(t)
    PROVE  Raw(From(t)[1]) /\ IsText(From(t)[1])
  <1> DEFINE L == Len(t) + 1
             F == From(t)
             N == {d \in 0 .. Len(t) : ~Raw(F[L - d])}
  <1>1. Len(t) \in Nat
    BY TextIs
  <1> HIDE DEF F
  <1>2. ASSUME N # {}
        PROVE  FALSE
    <2>1. N \in SUBSET Nat
      BY <1>1
    <2>2. PICK d \in N : \A e \in N : d <= e
      BY <1>2, <2>1, Least
    <2> DEFINE i == L - d
    <2>3. i \in 1 .. L
      BY <1>1
    <2>4. ASSUME NEW j \in i + 1 .. L
          PROVE  Raw(F[j])
      <3>1. L - j \in 0 .. Len(t) /\ L - j < d /\ L - (L - j) = j
        BY <1>1, <2>3
      <3> QED
        BY <2>2, <3>1
    <2>5. Raw(F[i])
      BY <2>3, <2>4, RawFrom DEF F
    <2> QED
      BY <2>2, <2>5
  <1>3. Len(t) \in 0 .. Len(t) /\ L - Len(t) = 1 /\ 1 \in 1 .. Len(t) + 1
    BY <1>1
  <1>4. Raw(F[1])
    BY <1>2, <1>3
  <1> QED
    BY <1>3, <1>4, FromIs DEF F

\* What a filter has shown and what it gives next.
LEMMA RawSeen ==
    ASSUME NEW t, IsText(t), Raw(t), NEW n \in 0 .. Len(t),
           NEW f, NEW v, Seen(t, n, f, v)
    PROVE  IsText(v) /\ Raw(v)
  <1>1. PICK p \in 1 .. n + 1 : SeenAt(t, n, f, v, p)
    BY DEF Seen
  <1>2. IsText(v) /\ Len(t) \in Nat
    BY <1>1, TextIs DEF SeenAt
  <1>3. \E i \in 1 .. Len(t) + 1 : Cat(v, From(t)[i]) = From(t)[1]
    <2>1. CASE Outside(t, f, v, p)
      <3>1. p \in 1 .. Len(t) + 1
        BY <1>2
      <3> QED
        BY <2>1, <3>1 DEF Outside
    <2>2. ASSUME NEW q \in 1 .. p - 1, Inside(t, f, v, p, q)
          PROVE  \E i \in 1 .. Len(t) + 1 : Cat(v, From(t)[i]) = From(t)[1]
      <3>1. q \in 1 .. Len(t) + 1
        BY <1>2
      <3> QED
        BY <2>2, <3>1 DEF Inside
    <2> QED
      BY <1>1, <2>1, <2>2 DEF SeenAt
  <1>4. PICK i \in 1 .. Len(t) + 1 : Cat(v, From(t)[i]) = From(t)[1]
    BY <1>3
  <1> DEFINE b == From(t)[i]
  <1>5. IsText(b) /\ Raw(Cat(v, b))
    BY <1>4, FromIs, RawVisible
  <1> HIDE DEF b
  <1> QED
    BY <1>2, <1>5, RawCat

\* All of a text without a "<" is shown.
LEMMA NeutralShown ==
    ASSUME NEW t, Neutral(t)
    PROVE  Visible(t) = t
  <1>1. IsText(t) /\ Len(t) \in Nat
    BY TextIs DEF Neutral
  <1>2. ASSUME NEW n \in 1 .. Len(t), NEW g, IsTag(g), At(t, n, g)
        PROVE  FALSE
    <2>1. IsText(g) /\ Len(g) \in Nat /\ Len(g) > 0 /\ g[1] = "<"
      BY <1>2, TextIs DEF IsTag
    <2>2. 1 \in 1 .. Len(g) /\ n + 1 - 1 = n /\ n \in 1 .. Len(t) + 1
      BY <1>1, <2>1
    <2>3. Reads(t, n, g)
      BY <1>1, <1>2, <2>1, <2>2, AtIs
    <2>4. t[n] = "<"
      BY <2>1, <2>2, <2>3 DEF Reads
    <2> QED
      BY <2>4 DEF Neutral
  <1>3. NoOpen(t, 1, Len(t) + 1)
    <2>1. Len(t) + 1 - 1 = Len(t)
      BY <1>1
    <2> QED
      BY <1>2, <2>1, OpenIs DEF NoOpen
  <1>4. 1 \in 1 .. Len(t) + 1
    BY <1>1
  <1>5. From(t)[1] = Part(t, 1, Len(t))
    BY <1>1, <1>3, <1>4, FromRest
  <1> QED
    BY <1>1, <1>5, TextIs, VisibleIs

-----------------------------------------------------------------------------
(* What a wrapper renders is kept *)

\* What the diagnostics amount to at the end of the relay.
Diagnosed == WholeLines(Visible(live))

KeptInv ==
    /\ WrittenInv /\ Raw(live) /\ Raw(final)
    /\ stage = "relay" =>
          \E v : /\ Seen(live, relayed, hidden, v) /\ Rests(hidden)
                 /\ Shows(text, boundary, v)
    /\ stage = "emit" => Shows(text, TRUE, Diagnosed)
    /\ stage = "ended" =>
          \E d : /\ Framing(d, TRUE) /\ text = Cat(d, Emission(final, isError))
                 /\ Shows(d, TRUE, Diagnosed)

LEMMA KeptInit == PlainInit \/ WrappedInit => KeptInv
  <1>1. PlainInit \/ WrappedInit => WrittenInv
    BY WrittenInit
  <1>2. ASSUME PlainInit
        PROVE  KeptInv
    BY <1>1, <1>2, EmptyText DEF PlainInit, KeptInv, Raw
  <1>3. ASSUME WrappedInit
        PROVE  KeptInv
    <2>1. PICK o \in Outputs : live = o[1] /\ final = o[2]
      BY <1>3 DEF WrappedInit, DiagnosticsInit
    <2>2. Raw(live) /\ Raw(final)
      BY <2>1, RawAssumption
    <2>3. /\ text = << >> /\ boundary = TRUE /\ relayed = 0
          /\ hidden = NewFilter /\ stage = "relay"
      BY <1>3 DEF WrappedInit, DiagnosticsInit
    <2>4. Seen(live, 0, NewFilter, << >>) /\ Rests(NewFilter)
      BY <1>1, <1>3, NewSeen DEF WrittenInv, AcceptInv, ShownInv
    <2>5. Shows(<< >>, TRUE, << >>)
      BY EmptyText, UnrenderedNone DEF Shows, LineStarts
    <2> QED
      BY <1>1, <1>3, <2>2, <2>3, <2>4, <2>5 DEF KeptInv
  <1> QED
    BY <1>2, <1>3

LEMMA RelayLineKept ==
    ASSUME KeptInv, WrittenInv', RelayLine, errText' = errText
    PROVE  KeptInv'
  <1> DEFINE out == Relay.out
             r == Write(boundary, out)
  <1>1. /\ stage = "relay" /\ text' = Cat(text, r.text)
        /\ boundary' = r.boundary /\ stage' = stage
        /\ live' = live /\ final' = final
    BY DEF RelayLine, Relay, Cat
  <1>2. ShownInv
    BY DEF KeptInv, WrittenInv, AcceptInv
  <1>3. PICK v : /\ Seen(live, relayed, hidden, v) /\ Rests(hidden)
                 /\ Shows(text, boundary, v)
    BY <1>1 DEF KeptInv
  <1>4. /\ relayed' \in 0 .. Len(live) /\ IsText(out)
        /\ Seen(live, relayed', hidden', Cat(v, out)) /\ Rests(hidden')
    BY <1>2, <1>3, LineSeen DEF Cat
  <1> HIDE DEF out
  <1>5. Raw(out)
    <2>1. IsText(live) /\ Raw(live) /\ IsText(v)
      BY <1>2, <1>3 DEF KeptInv, ShownInv, Shows
    <2>2. Raw(Cat(v, out))
      BY <1>4, <2>1, RawSeen
    <2> QED
      BY <1>4, <2>1, <2>2, RawCat
  <1>6. Shows(Cat(text, r.text), r.boundary, Cat(v, out))
    BY <1>3, <1>4, <1>5, WriteShows
  <1> HIDE DEF r
  <1> QED
    BY <1>1, <1>4, <1>6 DEF KeptInv

LEMMA RelayEndsKept ==
    ASSUME KeptInv, WrittenInv', RelayEnds, errText' = errText
    PROVE  KeptInv'
  <1> DEFINE f == Flush(hidden)
             r == Write(boundary, f)
  <1>1. /\ stage = "relay" /\ stage' = "emit" /\ relayed = Len(live)
        /\ text' = Cat(text, FinishLine(r))
        /\ live' = live /\ final' = final
    BY DEF RelayEnds, Cat
  <1>2. IsText(live) /\ Raw(live) /\ IsText(text)
    BY DEF KeptInv, WrittenInv, AcceptInv, ShownInv
  <1>3. PICK v : /\ Seen(live, relayed, hidden, v) /\ Rests(hidden)
                 /\ Shows(text, boundary, v)
    BY <1>1 DEF KeptInv
  <1>4. Cat(v, f) = Visible(live)
    BY <1>1, <1>2, <1>3, FlushSeen DEF Cat
  <1>5. IsText(v) /\ IsText(f)
    <2>1. IsFilter(hidden)
      BY <1>3 DEF Seen, SeenAt
    <2> QED
      BY <1>3, <2>1, FlushType DEF Shows
  <1> HIDE DEF f
  <1>6. Raw(f)
    <2>1. Raw(Visible(live))
      BY <1>2, RawVisible, VisibleIs
    <2> QED
      BY <1>4, <1>5, <2>1, RawCat
  <1>7. IsText(r.text) /\ Shows(Cat(text, r.text), r.boundary, Visible(live))
    BY <1>3, <1>4, <1>5, <1>6, WriteShows
  <1> HIDE DEF r
  <1>8. Shows(text', TRUE, Diagnosed)
    BY <1>1, <1>2, <1>7, FinishShows DEF Diagnosed
  <1>9. Diagnosed' = Diagnosed
    BY <1>1 DEF Diagnosed
  <1> QED
    BY <1>1, <1>8, <1>9 DEF KeptInv

LEMMA EmitKept ==
    ASSUME KeptInv, WrittenInv', Emit, errText' = errText
    PROVE  KeptInv'
  <1>1. /\ stage = "emit" /\ stage' = "ended"
        /\ live' = live /\ final' = final /\ isError' = isError
        /\ text' = Cat(text, Emission(final, isError))
    BY DEF Emit, Cat
  <1>2. Framing(text, TRUE) /\ Shows(text, TRUE, Diagnosed)
    BY <1>1 DEF KeptInv, WrittenInv
  <1>3. Diagnosed' = Diagnosed /\ Emission(final, isError)' = Emission(final, isError)
    BY <1>1 DEF Diagnosed
  <1> QED
    BY <1>1, <1>2, <1>3 DEF KeptInv

LEMMA KeptNext ==
    KeptInv /\ [WrapperStep \/ HandlerStep]_<<vars, wrapper>> => KeptInv'
  <1> SUFFICES ASSUME KeptInv,
                      [WrapperStep \/ HandlerStep]_<<vars, wrapper>>
               PROVE  KeptInv'
    OBVIOUS
  <1>1. WrittenInv'
    BY WrittenNext DEF KeptInv
  <1>2. CASE WrapperStep
    BY <1>1, <1>2, RelayLineKept, RelayEndsKept, EmitKept
    DEF WrapperStep, DiagnosticsNext
  <1>3. CASE HandlerStep \/ UNCHANGED <<vars, wrapper>>
    <2>1. UNCHANGED <<text, live, final, isError, relayed, hidden, boundary,
                      stage>>
      BY <1>3 DEF HandlerStep, Next, Receive, Finish, vars, wrapper
    <2>2. Emission(final, isError)' = Emission(final, isError) /\ Diagnosed' = Diagnosed
      BY <2>1 DEF Diagnosed
    <2> QED
      BY <1>1, <2>1, <2>2 DEF KeptInv
  <1> QED
    BY <1>2, <1>3

\* What the operator is shown of a wrapper's text without a result.
LEMMA KeptShown ==
    ASSUME KeptInv, Wrapped, Stated = {}
    PROVE  Unrendered(shown) =
             Cat(Diagnosed, IF Strip(final) = << >> THEN << >>
                            ELSE WholeLines(final))
  <1>1. IsText(text) /\ IsText(final) /\ Raw(final) /\ shown = Visible(text)
    BY DEF KeptInv, WrittenInv, AcceptInv, ShownInv, Wrapped, Ended
  <1>2. PICK d : /\ Framing(d, TRUE) /\ text = Cat(d, Emission(final, isError))
                 /\ Shows(d, TRUE, Diagnosed)
    BY DEF KeptInv, Wrapped
  <1> DEFINE v == Judge(Feed(NewAccumulator, final))
  <1>3. v.verdict # "accepted" \/ isError
    BY <1>1, <1>2, AcceptedMeans DEF Stated
  <1>4. Neutral(text)
    BY <1>1, <1>2, <1>3, RefusedMeans
  <1>5. shown = text
    BY <1>1, <1>4, NeutralShown
  <1>6. IsText(d) /\ IsText(Diagnosed) /\ WholeText(Diagnosed)
        /\ Unrendered(d) = Diagnosed
    BY <1>2 DEF Shows, WholeText
  <1> HIDE DEF Diagnosed
  <1>7. CASE Strip(final) = << >>
    <2>1. Emission(final, isError) = << >>
      BY <1>3, <1>7 DEF Emission
    <2>2. text = d /\ Cat(Diagnosed, << >>) = Diagnosed
      BY <1>2, <1>6, <2>1, CatText
    <2> QED
      BY <1>5, <1>6, <1>7, <2>2
  <1>8. CASE Strip(final) # << >>
    <2> DEFINE r == Write(TRUE, final)
    <2>1. Emission(final, isError) = FinishLine(r)
      BY <1>3, <1>8 DEF Emission
    <2> HIDE DEF v
    <2>2. IsText(r.text)
          /\ Shows(Cat(d, r.text), r.boundary, Cat(Diagnosed, final))
      BY <1>1, <1>2, WriteShows
    <2> HIDE DEF r
    <2>3. Shows(text, TRUE, WholeLines(Cat(Diagnosed, final)))
      BY <1>2, <1>6, <2>1, <2>2, FinishShows
    <2>4. Unrendered(text) = Cat(Diagnosed, WholeLines(final))
      BY <1>1, <1>6, <2>3, WholeLinesCat DEF Shows
    <2> QED
      BY <1>5, <1>8, <2>4
  <1> QED
    BY <1>7, <1>8

\* What a provider wrote while it worked reaches the operator through both
\* filters, but for its complete blocks, line by line; and so does a final
\* response that states no result.
THEOREM OperatorSeesDiagnostics == WrappedSpec => []DiagnosticsKept
  <1>1. KeptInv => DiagnosticsKept
    BY KeptShown DEF DiagnosticsKept, Diagnosed, Cat
  <1> QED
    BY <1>1, KeptInit, KeptNext, PTL DEF WrappedSpec
=============================================================================
