----------------------------- MODULE MarkerProofs -----------------------------
(***************************************************************************)
(* Theorems about MarkerSession and WrappedSession, for all kinds of tags, *)
(* all texts and every way to cut them into chunks.                        *)
(***************************************************************************)
EXTENDS WrappedSession, FilterProofs

-----------------------------------------------------------------------------
(* Parts of texts *)

IsText(t) == t \in Seq(Symbol)
Part(t, i, j) == SubSeq(t, i, j)

LEMMA TextIs ==
    ASSUME NEW t, IsText(t)
    PROVE  /\ Len(t) \in Nat /\ DOMAIN t = 1 .. Len(t)
           /\ t = Part(t, 1, Len(t))
           /\ \A i \in 1 .. Len(t) : t[i] \in Symbol
  BY LenProperties, ElementOfSeq, SubSeqFull DEF IsText, Part

LEMMA PartIs ==
    ASSUME NEW t, IsText(t), NEW i \in 1 .. Len(t) + 1,
           NEW j \in i - 1 .. Len(t)
    PROVE  /\ IsText(Part(t, i, j)) /\ Len(Part(t, i, j)) = j - i + 1
           /\ \A n \in 1 .. j - i + 1 : Part(t, i, j)[n] = t[i + n - 1]
  <1>1. i \in Int /\ j \in Int /\ Len(t) \in Nat
    BY TextIs
  <1>2. \A n \in i .. j : t[n] \in Symbol
    BY <1>1, TextIs
  <1>3. /\ SubSeq(t, i, j) \in Seq(Symbol)
        /\ Len(SubSeq(t, i, j)) = IF i <= j THEN j - i + 1 ELSE 0
        /\ \A n \in 1 .. j - i + 1 : SubSeq(t, i, j)[n] = t[i + n - 1]
    BY <1>1, <1>2, SubSeqProperties
  <1>4. (IF i <= j THEN j - i + 1 ELSE 0) = j - i + 1
    BY <1>1
  <1> QED
    BY <1>3, <1>4 DEF IsText, Part

LEMMA SameText ==
    ASSUME NEW s, NEW t, IsText(s), IsText(t), Len(s) = Len(t),
           \A i \in 1 .. Len(s) : s[i] = t[i]
    PROVE  s = t
  BY SeqEqual DEF IsText

LEMMA PartCat ==
    ASSUME NEW t, IsText(t), NEW i \in 1 .. Len(t) + 1,
           NEW j \in i - 1 .. Len(t), NEW k \in j .. Len(t)
    PROVE  Cat(Part(t, i, j), Part(t, j + 1, k)) = Part(t, i, k)
  BY ConcatAdjacentSubSeq DEF IsText, Part, Cat

LEMMA PartOfPart ==
    ASSUME NEW t, IsText(t), NEW i \in 1 .. Len(t) + 1,
           NEW j \in i - 1 .. Len(t),
           NEW a \in 1 .. j - i + 2, NEW b \in a - 1 .. j - i + 1
    PROVE  Part(Part(t, i, j), a, b) = Part(t, i + a - 1, i + b - 1)
  <1> DEFINE s == Part(t, i, j)
             u == Part(s, a, b)
             v == Part(t, i + a - 1, i + b - 1)
  <1>1. Len(t) \in Nat /\ i \in Nat /\ j \in Int /\ a \in Nat /\ b \in Int
    BY TextIs
  <1>2. /\ IsText(s) /\ Len(s) = j - i + 1
        /\ \A n \in 1 .. j - i + 1 : s[n] = t[i + n - 1]
    BY PartIs
  <1>3. a \in 1 .. Len(s) + 1 /\ b \in a - 1 .. Len(s)
    BY <1>1, <1>2
  <1> HIDE DEF s
  <1>4. /\ IsText(u) /\ Len(u) = b - a + 1
        /\ \A n \in 1 .. b - a + 1 : u[n] = s[a + n - 1]
    BY <1>2, <1>3, PartIs, ZenonT(40)
  <1>5. ASSUME NEW x, x = i + a - 1, NEW y, y = i + b - 1
        PROVE  /\ IsText(Part(t, x, y)) /\ Len(Part(t, x, y)) = b - a + 1
               /\ \A n \in 1 .. b - a + 1 : Part(t, x, y)[n] = t[x + n - 1]
    <2>1. /\ x \in 1 .. Len(t) + 1 /\ y \in x - 1 .. Len(t)
          /\ y - x + 1 = b - a + 1
      BY <1>1, <1>5
    <2>2. /\ IsText(Part(t, x, y)) /\ Len(Part(t, x, y)) = y - x + 1
          /\ \A n \in 1 .. y - x + 1 : Part(t, x, y)[n] = t[x + n - 1]
      BY <2>1, PartIs
    <2> QED
      BY <2>1, <2>2
  <1>6. /\ IsText(v) /\ Len(v) = b - a + 1
        /\ \A n \in 1 .. b - a + 1 : v[n] = t[i + a - 1 + n - 1]
    BY <1>5
  <1>7. ASSUME NEW n \in 1 .. b - a + 1
        PROVE  u[n] = v[n]
    <2>1. a + n - 1 \in 1 .. j - i + 1
          /\ i + (a + n - 1) - 1 = i + a - 1 + n - 1
      BY <1>1
    <2> QED
      BY <1>2, <1>4, <1>6, <2>1
  <1> HIDE DEF u, v
  <1>8. u = v
    BY <1>4, <1>6, <1>7, SameText
  <1> QED
    BY <1>8 DEF u, v, s

\* Chains of parts.
LEMMA CatText ==
    ASSUME NEW s, NEW t, IsText(s), IsText(t)
    PROVE  /\ IsText(Cat(s, t)) /\ Len(Cat(s, t)) = Len(s) + Len(t)
           /\ Cat(s, << >>) = s /\ Cat(<< >>, s) = s
           /\ \A n \in 1 .. Len(s) + Len(t) :
                 Cat(s, t)[n] = IF n <= Len(s) THEN s[n] ELSE t[n - Len(s)]
  BY ConcatProperties, CatEmpty DEF IsText, Cat

LEMMA CatTexts ==
    ASSUME NEW s, NEW t, NEW u, IsText(s), IsText(t), IsText(u)
    PROVE  Cat(Cat(s, t), u) = Cat(s, Cat(t, u))
  BY CatAssociates DEF IsText

LEMMA OneOf ==
    ASSUME NEW E, NEW x \in E
    PROVE  /\ <<x>> \in Seq(E) /\ Len(<<x>>) = 1 /\ <<x>>[1] = x
           /\ DOMAIN <<x>> = 1 .. 1
  OBVIOUS

LEMMA TwoOf ==
    ASSUME NEW E, NEW x \in E, NEW y \in E
    PROVE  /\ <<x, y>> \in Seq(E) /\ Len(<<x, y>>) = 2
           /\ <<x, y>>[1] = x /\ <<x, y>>[2] = y
  OBVIOUS

LEMMA Symbols ==
    /\ IsText(<<"<">>) /\ Len(<<"<">>) = 1 /\ <<"<">>[1] = "<"
    /\ IsText(<<">">>) /\ Len(<<">">>) = 1 /\ <<">">>[1] = ">"
    /\ IsText(<<"<", "/">>) /\ Len(<<"<", "/">>) = 2
    /\ <<"<", "/">>[1] = "<" /\ <<"<", "/">>[2] = "/"
  <1>1. "<" \in Symbol /\ ">" \in Symbol /\ "/" \in Symbol
    BY DEF Symbol
  <1>2. <<"<">> \in Seq(Symbol) /\ Len(<<"<">>) = 1 /\ <<"<">>[1] = "<"
    BY <1>1, OneOf, Zenon
  <1>3. <<">">> \in Seq(Symbol) /\ Len(<<">">>) = 1 /\ <<">">>[1] = ">"
    BY <1>1, OneOf, Zenon
  <1>4. /\ <<"<", "/">> \in Seq(Symbol) /\ Len(<<"<", "/">>) = 2
        /\ <<"<", "/">>[1] = "<" /\ <<"<", "/">>[2] = "/"
    BY <1>1, TwoOf, Zenon
  <1> QED
    BY <1>2, <1>3, <1>4, Zenon DEF IsText

LEMMA EmptyText == IsText(<< >>) /\ Len(<< >>) = 0
  BY DEF IsText

-----------------------------------------------------------------------------
(* Tags *)

\* What At says, symbol by symbol.
Reads(t, i, g) ==
    /\ i + Len(g) - 1 <= Len(t)
    /\ \A n \in 1 .. Len(g) : t[i + n - 1] = g[n]

LEMMA AtIs ==
    ASSUME NEW t, IsText(t), NEW i \in 1 .. Len(t) + 1,
           NEW g, IsText(g), Len(g) > 0
    PROVE  At(t, i, g) <=> Reads(t, i, g)
  <1> DEFINE j == i + Len(g) - 1
  <1>1. Len(t) \in Nat /\ Len(g) \in Nat /\ i \in Nat
    BY TextIs
  <1>2. CASE j <= Len(t)
    <2>1. j \in i - 1 .. Len(t) /\ j - i + 1 = Len(g)
      BY <1>1, <1>2
    <2>2. /\ IsText(Part(t, i, j)) /\ Len(Part(t, i, j)) = Len(g)
          /\ \A n \in 1 .. Len(g) : Part(t, i, j)[n] = t[i + n - 1]
      BY <2>1, PartIs
    <2>3. Part(t, i, j) = g <=> \A n \in 1 .. Len(g) : t[i + n - 1] = g[n]
      BY <2>2, SameText
    <2> QED
      BY <1>2, <2>3 DEF At, Part, Reads
  <1>3. CASE ~(j <= Len(t))
    BY <1>3 DEF At, Reads
  <1> QED
    BY <1>2, <1>3

\* What the tags have in common: "<" comes first, and not again.
IsTag(g) ==
    /\ IsText(g) /\ Len(g) > 3 /\ g[1] = "<"
    /\ \A n \in 2 .. Len(g) : g[n] # "<"

LEMMA KindIs ==
    ASSUME NEW k \in Kinds
    PROVE  /\ IsText(k) /\ Len(k) \in Nat /\ Len(k) > 1 /\ k[1] = "p"
           /\ \A n \in 1 .. Len(k) :
                 k[n] \notin White \union {"<", "/", ">"}
  <1>1. k \in Seq(STRING \ (White \union {"<", "/", ">"})) /\ Len(k) > 1
        /\ k[1] = "p"
    BY MarkerAssumption
  <1>2. \A n \in 1 .. Len(k) : k[n] \in STRING \ (White \union {"<", "/", ">"})
    BY <1>1, ElementOfSeq
  <1>3. k \in Seq(Symbol) /\ Len(k) \in Nat
    BY <1>1, SeqMonotonic, LenProperties DEF Symbol
  <1> QED
    BY <1>1, <1>2, <1>3 DEF IsText

LEMMA OpenIs ==
    ASSUME NEW k \in Kinds
    PROVE  /\ IsTag(Open(k)) /\ Len(Open(k)) = Len(k) + 2
           /\ \A n \in 1 .. Len(k) : Open(k)[n + 1] = k[n]
           /\ Open(k)[Len(k) + 2] = ">"
  <1> DEFINE n == Len(k)
             a == <<"<">>
             b == Cat(a, k)
             c == <<">">>
  <1>1. /\ IsText(k) /\ n \in Nat /\ n > 1
        /\ \A i \in 1 .. n : k[i] # "<"
    BY KindIs
  <1>2. /\ IsText(a) /\ Len(a) = 1 /\ a[1] = "<"
        /\ IsText(c) /\ Len(c) = 1 /\ c[1] = ">"
    BY Symbols, Zenon
  <1>3. Open(k) = Cat(b, c)
    BY DEF Open, Cat
  <1> HIDE DEF a, c, n
  <1>4. /\ IsText(b) /\ Len(b) = n + 1
        /\ \A i \in 1 .. n + 1 : b[i] = IF i <= 1 THEN a[i] ELSE k[i - 1]
    <2>1. Len(k) = n /\ 1 + n = n + 1
      BY <1>1 DEF n
    <2>2. /\ IsText(b) /\ Len(b) = Len(a) + Len(k)
          /\ \A i \in 1 .. Len(a) + Len(k) :
                b[i] = IF i <= Len(a) THEN a[i] ELSE k[i - Len(a)]
      BY <1>1, <1>2, CatText, Zenon
    <2> QED
      BY <1>2, <2>1, <2>2
  <1> HIDE DEF b
  <1>5. /\ IsText(Open(k)) /\ Len(Open(k)) = n + 2
        /\ \A i \in 1 .. n + 2 :
              Open(k)[i] = IF i <= n + 1 THEN b[i] ELSE c[i - (n + 1)]
    <2>1. /\ IsText(Cat(b, c)) /\ Len(Cat(b, c)) = Len(b) + Len(c)
          /\ \A i \in 1 .. Len(b) + Len(c) :
                Cat(b, c)[i] = IF i <= Len(b) THEN b[i] ELSE c[i - Len(b)]
      BY <1>2, <1>4, CatText, Zenon
    <2> QED
      BY <1>1, <1>2, <1>3, <1>4, <2>1
  <1>6. Open(k)[1] = "<" /\ Open(k)[n + 2] = ">"
    BY <1>1, <1>2, <1>4, <1>5
  <1>7. \A i \in 1 .. n : Open(k)[i + 1] = k[i]
    BY <1>1, <1>4, <1>5
  <1>8. ASSUME NEW i \in 2 .. n + 2
        PROVE  Open(k)[i] # "<"
    <2>1. i = n + 2 \/ (i - 1 \in 1 .. n /\ (i - 1) + 1 = i)
      BY <1>1
    <2> QED
      BY <1>1, <1>6, <1>7, <2>1
  <1> QED
    BY <1>1, <1>5, <1>6, <1>7, <1>8 DEF IsTag, n

LEMMA CloseIs ==
    ASSUME NEW k \in Kinds
    PROVE  /\ IsTag(Close(k)) /\ Len(Close(k)) = Len(k) + 3
           /\ Close(k)[2] = "/"
           /\ \A n \in 1 .. Len(k) : Close(k)[n + 2] = k[n]
           /\ Close(k)[Len(k) + 3] = ">"
  <1> DEFINE n == Len(k)
             a == <<"<", "/">>
             b == Cat(a, k)
             c == <<">">>
  <1>1. /\ IsText(k) /\ n \in Nat /\ n > 1
        /\ \A i \in 1 .. n : k[i] # "<"
    BY KindIs
  <1>2. /\ IsText(a) /\ Len(a) = 2 /\ a[1] = "<" /\ a[2] = "/"
        /\ IsText(c) /\ Len(c) = 1 /\ c[1] = ">"
    BY Symbols, Zenon
  <1>3. Close(k) = Cat(b, c)
    BY DEF Close, Cat
  <1> HIDE DEF a, c, n
  <1>4. /\ IsText(b) /\ Len(b) = n + 2
        /\ \A i \in 1 .. n + 2 : b[i] = IF i <= 2 THEN a[i] ELSE k[i - 2]
    <2>1. Len(k) = n /\ 2 + n = n + 2
      BY <1>1 DEF n
    <2>2. /\ IsText(b) /\ Len(b) = Len(a) + Len(k)
          /\ \A i \in 1 .. Len(a) + Len(k) :
                b[i] = IF i <= Len(a) THEN a[i] ELSE k[i - Len(a)]
      BY <1>1, <1>2, CatText, Zenon
    <2> QED
      BY <1>2, <2>1, <2>2
  <1> HIDE DEF b
  <1>5. /\ IsText(Close(k)) /\ Len(Close(k)) = n + 3
        /\ \A i \in 1 .. n + 3 :
              Close(k)[i] = IF i <= n + 2 THEN b[i] ELSE c[i - (n + 2)]
    <2>1. /\ IsText(Cat(b, c)) /\ Len(Cat(b, c)) = Len(b) + Len(c)
          /\ \A i \in 1 .. Len(b) + Len(c) :
                Cat(b, c)[i] = IF i <= Len(b) THEN b[i] ELSE c[i - Len(b)]
      BY <1>2, <1>4, CatText, Zenon
    <2> QED
      BY <1>1, <1>2, <1>3, <1>4, <2>1
  <1>6. Close(k)[1] = "<" /\ Close(k)[2] = "/" /\ Close(k)[n + 3] = ">"
    BY <1>1, <1>2, <1>4, <1>5
  <1>7. \A i \in 1 .. n : Close(k)[i + 2] = k[i]
    BY <1>1, <1>4, <1>5
  <1>8. ASSUME NEW i \in 2 .. n + 3
        PROVE  Close(k)[i] # "<"
    <2>1. i = n + 3 \/ i = 2 \/ (i - 2 \in 1 .. n /\ (i - 2) + 2 = i)
      BY <1>1
    <2> QED
      BY <1>1, <1>6, <1>7, <2>1
  <1> QED
    BY <1>1, <1>5, <1>6, <1>7, <1>8 DEF IsTag, n

\* Two tags do not overlap.
LEMMA NoOverlap ==
    ASSUME NEW t, IsText(t), NEW i \in 1 .. Len(t) + 1,
           NEW j \in 1 .. Len(t) + 1, i < j,
           NEW g, IsTag(g), At(t, i, g), NEW h, IsTag(h), At(t, j, h)
    PROVE  i + Len(g) <= j
  <1>1. /\ Len(t) \in Nat
        /\ IsText(g) /\ Len(g) \in Nat /\ Len(g) > 0
        /\ IsText(h) /\ Len(h) \in Nat /\ Len(h) > 0
    BY TextIs DEF IsTag
  <1>2. \A n \in 1 .. Len(g) : t[i + n - 1] = g[n]
    BY <1>1, AtIs DEF Reads
  <1>3. t[j] = "<"
    <2>1. \A n \in 1 .. Len(h) : t[j + n - 1] = h[n]
      BY <1>1, AtIs DEF Reads
    <2>2. 1 \in 1 .. Len(h) /\ j + 1 - 1 = j
      BY <1>1
    <2>3. t[j + 1 - 1] = h[1]
      BY <2>1, <2>2
    <2> QED
      BY <2>2, <2>3 DEF IsTag
  <1> SUFFICES ASSUME j < i + Len(g)
               PROVE  FALSE
    BY <1>1
  <1> DEFINE n == j - i + 1
  <1>4. n \in 2 .. Len(g) /\ n \in 1 .. Len(g) /\ i + n - 1 = j
    BY <1>1
  <1>5. g[n] = t[j]
    BY <1>2, <1>4
  <1> QED
    BY <1>3, <1>4, <1>5 DEF IsTag

\* Two opening tags at one place are the same.
LEMMA OneOpen ==
    ASSUME NEW t, IsText(t), NEW i \in 1 .. Len(t) + 1,
           NEW k \in Kinds, At(t, i, Open(k)),
           NEW l \in Kinds, At(t, i, Open(l))
    PROVE  k = l
  <1>1. ASSUME NEW a \in Kinds, At(t, i, Open(a)),
               NEW b \in Kinds, At(t, i, Open(b)), Len(a) <= Len(b)
        PROVE  a = b
    <2>1. IsText(a) /\ IsText(b) /\ Len(a) \in Nat /\ Len(b) \in Nat
          /\ Len(t) \in Nat
      BY KindIs, TextIs
    <2>2. /\ IsText(Open(a)) /\ Len(Open(a)) = Len(a) + 2
          /\ \A n \in 1 .. Len(a) : Open(a)[n + 1] = a[n]
      BY OpenIs DEF IsTag
    <2>3. /\ IsText(Open(b)) /\ Len(Open(b)) = Len(b) + 2
          /\ \A n \in 1 .. Len(b) : Open(b)[n + 1] = b[n]
      BY OpenIs DEF IsTag
    <2>4. /\ \A n \in 1 .. Len(a) + 2 : t[i + n - 1] = Open(a)[n]
          /\ \A n \in 1 .. Len(b) + 2 : t[i + n - 1] = Open(b)[n]
      <3>1. Reads(t, i, Open(a))
        <4>1. Len(Open(a)) > 0
          BY <2>1, <2>2
        <4> QED
          BY <4>1, <2>2, <1>1, AtIs, Zenon
      <3>2. Reads(t, i, Open(b))
        <4>1. Len(Open(b)) > 0
          BY <2>1, <2>3
        <4> QED
          BY <4>1, <2>3, <1>1, AtIs, Zenon
      <3> QED
        BY <3>1, <3>2, <2>2, <2>3 DEF Reads
    <2>5. ASSUME NEW n \in 1 .. Len(a)
          PROVE  a[n] = b[n]
      <3>1. n + 1 \in 1 .. Len(a) + 2 /\ n + 1 \in 1 .. Len(b) + 2
            /\ n \in 1 .. Len(b)
        BY <2>1, <1>1
      <3>2. Open(a)[n + 1] = Open(b)[n + 1]
        BY <3>1, <2>4
      <3> QED
        BY <3>1, <3>2, <2>2, <2>3
    <2>6. Part(b, 1, Len(a)) = a
      <3>1. /\ IsText(Part(b, 1, Len(a)))
            /\ Len(Part(b, 1, Len(a))) = Len(a)
            /\ \A n \in 1 .. Len(a) : Part(b, 1, Len(a))[n] = b[n]
        <4>1. 1 \in 1 .. Len(b) + 1 /\ Len(a) \in 1 - 1 .. Len(b)
              /\ Len(a) - 1 + 1 = Len(a) /\ \A n \in Nat : 1 + n - 1 = n
          BY <2>1, <1>1
        <4> QED
          BY <4>1, <2>1, PartIs
      <3> QED
        BY <3>1, <2>5, <2>1, SameText
    <2>7. Part(a, 1, Len(a)) = a
      BY <2>1, TextIs
    <2>8. IsPrefix(a, b)
      BY <2>6, <2>7, <1>1 DEF IsPrefix, Part
    <2> QED
      BY <2>8, MarkerAssumption
  <1>2. Len(k) \in Nat /\ Len(l) \in Nat
    BY KindIs
  <1>3. Len(k) <= Len(l) \/ Len(l) <= Len(k)
    BY <1>2
  <1> QED
    BY <1>1, <1>3

\* A tag in a part is a tag in the whole.
LEMMA AtPart ==
    ASSUME NEW t, IsText(t), NEW p \in 1 .. Len(t) + 1,
           NEW n \in p - 1 .. Len(t), NEW i \in p .. n + 1,
           NEW g, IsText(g), Len(g) > 0
    PROVE  At(Part(t, p, n), i - p + 1, g)
             <=> i + Len(g) - 1 <= n /\ At(t, i, g)
  <1> DEFINE s == Part(t, p, n)
             a == i - p + 1
  <1>1. Len(t) \in Nat /\ Len(g) \in Nat /\ i \in Nat /\ p \in Nat /\ n \in Int
    BY TextIs
  <1>2. /\ IsText(s) /\ Len(s) = n - p + 1
        /\ \A m \in 1 .. n - p + 1 : s[m] = t[p + m - 1]
    BY PartIs
  <1>3. a \in 1 .. Len(s) + 1 /\ i \in 1 .. Len(t) + 1
    BY <1>1, <1>2
  <1> HIDE DEF s
  <1>4. At(s, a, g) <=> Reads(s, a, g)
    BY <1>2, <1>3, AtIs
  <1>5. At(t, i, g) <=> Reads(t, i, g)
    BY <1>3, AtIs
  <1>6. /\ a + Len(g) - 1 <= Len(s) <=> i + Len(g) - 1 <= n
        /\ i + Len(g) - 1 <= n => i + Len(g) - 1 <= Len(t)
    BY <1>1, <1>2
  <1>7. ASSUME i + Len(g) - 1 <= n, NEW m \in 1 .. Len(g)
        PROVE  s[a + m - 1] = t[i + m - 1]
    <2>1. a + m - 1 \in 1 .. n - p + 1 /\ p + (a + m - 1) - 1 = i + m - 1
      BY <1>1, <1>7
    <2> QED
      BY <1>2, <2>1
  <1>8. At(s, a, g) <=> i + Len(g) - 1 <= n /\ At(t, i, g)
    BY <1>4, <1>5, <1>6, <1>7 DEF Reads
  <1> QED
    BY <1>8 DEF s

-----------------------------------------------------------------------------
(* Visible *)

\* No opening tag begins between i and j - 1, or no closing tag of k.
NoOpen(t, i, j) ==
    \A n \in i .. j - 1 : \A k \in Kinds : ~At(t, n, Open(k))
NoClose(t, k, i, j) == \A n \in i .. j - 1 : ~At(t, n, Close(k))

LEMMA MinIs ==
    ASSUME NEW S, NEW n \in S, S \subseteq Nat, \A m \in S : n <= m
    PROVE  Min(S) = n
  <1>1. Min(S) \in S /\ \A y \in S : Min(S) <= y
    BY DEF Min
  <1>2. Min(S) <= n /\ n <= Min(S) /\ n \in Nat /\ Min(S) \in Nat
    BY <1>1
  <1> QED
    BY <1>2

LEMMA MinLeast ==
    ASSUME NEW S \in SUBSET Nat, S # {}
    PROVE  Min(S) \in S /\ \A m \in S : Min(S) <= m
  BY Least DEF Min

LEMMA OpensAre ==
    ASSUME NEW t, NEW i, NEW o
    PROVE  o \in OpensFrom(t, i) <=>
             \E q \in i .. Len(t), k \in Kinds :
                o = <<q, k>> /\ At(t, q, Open(k))
  BY DEF OpensFrom

LEMMA FirstOpenIs ==
    ASSUME NEW t, IsText(t), NEW i \in 1 .. Len(t) + 1, OpensFrom(t, i) # {}
    PROVE  \E q \in i .. Len(t), k \in Kinds :
              /\ FirstOpen(t, i) = <<q, k>>
              /\ At(t, q, Open(k)) /\ NoOpen(t, i, q)
  <1> DEFINE O == OpensFrom(t, i)
             N == {o[1] : o \in O}
  <1>1. Len(t) \in Nat /\ i \in Nat
    BY TextIs
  <1>2. \A o \in O : /\ o[1] \in i .. Len(t) /\ o[2] \in Kinds
                     /\ o = <<o[1], o[2]>> /\ At(t, o[1], Open(o[2]))
    BY DEF OpensFrom
  <1>3. N \in SUBSET Nat /\ N # {}
    BY <1>1, <1>2
  <1>4. PICK n \in N : \A m \in N : n <= m
    BY <1>3, Least
  <1>5. \E o \in O : \A p \in O : o[1] <= p[1]
    BY <1>4
  <1> DEFINE f == FirstOpen(t, i)
  <1>6. f \in O /\ \A p \in O : f[1] <= p[1]
    BY <1>5 DEF FirstOpen
  <1> HIDE DEF f
  <1>7. NoOpen(t, i, f[1])
    <2> SUFFICES ASSUME NEW m \in i .. f[1] - 1, NEW k \in Kinds,
                        At(t, m, Open(k))
                 PROVE  FALSE
      BY DEF NoOpen
    <2>1. f[1] \in i .. Len(t)
      BY <1>2, <1>6
    <2>2. m \in i .. Len(t)
      BY <1>1, <2>1
    <2>3. <<m, k>> \in O
      BY <2>2, OpensAre
    <2>4. f[1] <= m
      BY <1>6, <2>3
    <2> QED
      BY <1>1, <2>1, <2>4
  <1> QED
    BY <1>2, <1>6, <1>7 DEF f

LEMMA FirstOpenAt ==
    ASSUME NEW t, IsText(t), NEW i \in 1 .. Len(t) + 1,
           NEW q \in i .. Len(t), NEW k \in Kinds,
           At(t, q, Open(k)), NoOpen(t, i, q)
    PROVE  OpensFrom(t, i) # {} /\ FirstOpen(t, i) = <<q, k>>
  <1>1. OpensFrom(t, i) # {}
    BY OpensAre
  <1>2. PICK r \in i .. Len(t), l \in Kinds :
              /\ FirstOpen(t, i) = <<r, l>>
              /\ At(t, r, Open(l)) /\ NoOpen(t, i, r)
    BY <1>1, FirstOpenIs
  <1>3. r = q
    <2>1. ~(r < q)
      BY <1>2, TextIs DEF NoOpen
    <2>2. ~(q < r)
      BY <1>2, TextIs DEF NoOpen
    <2> QED
      BY <2>1, <2>2, TextIs
  <1>4. q \in 1 .. Len(t) + 1
    BY TextIs
  <1>5. l = k
    BY <1>2, <1>3, <1>4, OneOpen
  <1> QED
    BY <1>1, <1>2, <1>3, <1>5

\* What lies before i does not matter.
LEMMA SkipOpens ==
    ASSUME NEW t, IsText(t), NEW i \in 1 .. Len(t) + 1,
           NEW j \in i .. Len(t) + 1, NoOpen(t, i, j)
    PROVE  OpensFrom(t, i) = OpensFrom(t, j) /\ FirstOpen(t, i) = FirstOpen(t, j)
  <1>1. Len(t) \in Nat
    BY TextIs
  <1>2. \A q \in i .. Len(t), k \in Kinds :
            At(t, q, Open(k)) => q \in j .. Len(t)
    BY <1>1 DEF NoOpen
  <1>3. j .. Len(t) \subseteq i .. Len(t)
    BY <1>1
  <1>4. \A o : o \in OpensFrom(t, i) <=> o \in OpensFrom(t, j)
    BY <1>2, <1>3, OpensAre
  <1>5. OpensFrom(t, i) = OpensFrom(t, j)
    BY <1>4
  <1> QED
    BY <1>5 DEF FirstOpen

LEMMA AfterBlockIs ==
    ASSUME NEW t, IsText(t), NEW q \in 1 .. Len(t), NEW k \in Kinds, NEW x
    PROVE  x \in AfterBlock(t, <<q, k>>) <=>
             \E c \in q + Len(k) + 2 .. Len(t) :
                At(t, c, Close(k)) /\ x = c + Len(k) + 3
  <1>1. Len(t) \in Nat /\ Len(k) \in Nat
    BY TextIs, KindIs
  <1>2. Len(Open(k)) = Len(k) + 2 /\ Len(Close(k)) = Len(k) + 3
    BY OpenIs, CloseIs
  <1>3. AfterBlock(t, <<q, k>>)
          = {c + (Len(k) + 3) : c \in {c \in Places(t, Close(k)) :
                                         c >= q + (Len(k) + 2)}}
    BY <1>2 DEF AfterBlock
  <1>4. \A c : c \in Places(t, Close(k)) <=>
                 c \in 1 .. Len(t) /\ At(t, c, Close(k))
    BY TextIs DEF Places
  <1>5. \A c : c \in 1 .. Len(t) /\ c >= q + (Len(k) + 2)
                <=> c \in q + Len(k) + 2 .. Len(t)
    BY <1>1
  <1>6. \A c \in 1 .. Len(t) : c + (Len(k) + 3) = c + Len(k) + 3
    BY <1>1
  <1> QED
    BY <1>3, <1>4, <1>5, <1>6

LEMMA AfterBlockRange ==
    ASSUME NEW t, IsText(t), NEW q \in 1 .. Len(t), NEW k \in Kinds,
           NEW x \in AfterBlock(t, <<q, k>>)
    PROVE  x \in q + 1 .. Len(t) + 1
  <1>0. x \in AfterBlock(t, <<q, k>>) =>
          \E c \in q + Len(k) + 2 .. Len(t) :
             At(t, c, Close(k)) /\ x = c + Len(k) + 3
    <2>1. \A y : y \in AfterBlock(t, <<q, k>>) <=>
            \E c \in q + Len(k) + 2 .. Len(t) :
               At(t, c, Close(k)) /\ y = c + Len(k) + 3
      BY AfterBlockIs
    <2> QED
      BY <2>1, Zenon
  <1>1. PICK c \in q + Len(k) + 2 .. Len(t) :
           At(t, c, Close(k)) /\ x = c + Len(k) + 3
    BY <1>0, Zenon
  <1>2. /\ Len(t) \in Nat /\ Len(k) \in Nat /\ c \in 1 .. Len(t) + 1
        /\ Len(Close(k)) = Len(k) + 3 /\ IsText(Close(k)) /\ Len(Close(k)) > 0
    BY TextIs, KindIs, CloseIs DEF IsTag
  <1>3. c + Len(Close(k)) - 1 <= Len(t)
    BY <1>1, <1>2, AtIs DEF Reads
  <1> QED
    BY <1>1, <1>2, <1>3

LEMMA AfterFirstClose ==
    ASSUME NEW t, IsText(t), NEW q \in 1 .. Len(t), NEW k \in Kinds,
           NEW c \in q + Len(k) + 2 .. Len(t),
           At(t, c, Close(k)), NoClose(t, k, q + Len(k) + 2, c)
    PROVE  /\ AfterBlock(t, <<q, k>>) # {}
           /\ Min(AfterBlock(t, <<q, k>>)) = c + Len(k) + 3
  <1> DEFINE A == AfterBlock(t, <<q, k>>)
             x == c + Len(k) + 3
  <1>1. Len(t) \in Nat /\ Len(k) \in Nat
    BY TextIs, KindIs
  <1>2. x \in A
    BY AfterBlockIs
  <1>3. A \subseteq Nat
    BY <1>1, AfterBlockRange
  <1>4. \A y \in A : x <= y
    <2> SUFFICES ASSUME NEW y \in A
                 PROVE  x <= y
      OBVIOUS
    <2>1. PICK d \in q + Len(k) + 2 .. Len(t) :
              At(t, d, Close(k)) /\ y = d + Len(k) + 3
      BY AfterBlockIs
    <2>2. ~(d < c)
      BY <1>1, <2>1 DEF NoClose
    <2> QED
      BY <1>1, <2>1, <2>2
  <1> HIDE DEF A, x
  <1>5. A # {} /\ Min(A) = x
    BY <1>2, <1>3, <1>4, MinIs
  <1> QED
    BY <1>5 DEF A, x

LEMMA NoAfterBlock ==
    ASSUME NEW t, IsText(t), NEW q \in 1 .. Len(t), NEW k \in Kinds,
           NoClose(t, k, q + Len(k) + 2, Len(t) + 1)
    PROVE  AfterBlock(t, <<q, k>>) = {}
  <1>1. Len(t) \in Nat /\ Len(k) \in Nat
    BY TextIs, KindIs
  <1>2. Len(t) + 1 - 1 = Len(t)
    BY <1>1
  <1>3. \A c \in q + Len(k) + 2 .. Len(t) : ~At(t, c, Close(k))
    BY <1>2 DEF NoClose
  <1> QED
    BY <1>3, AfterBlockIs

\* The parts shown: f[i] is what is shown of t from i on.
FromStep(t, f, i) ==
    IF OpensFrom(t, i) = {} \/ AfterBlock(t, FirstOpen(t, i)) = {}
    THEN SubSeq(t, i, Len(t))
    ELSE SubSeq(t, i, FirstOpen(t, i)[1] - 1)
           \o f[Min(AfterBlock(t, FirstOpen(t, i)))]

FromOn(t, f, n) ==
    /\ f \in [n .. Len(t) + 1 -> Seq(Symbol)]
    /\ \A i \in n .. Len(t) + 1 : f[i] = FromStep(t, f, i)

\* The recursive function of Visible, and its value at 1.
From(t) == CHOOSE f : FromOn(t, f, 1)

\* The only two forms of FromStep.
HasBlock(t, f, i, q, k) ==
    LET x == Min(AfterBlock(t, <<q, k>>)) IN
    /\ FirstOpen(t, i) = <<q, k>>
    /\ OpensFrom(t, i) # {} /\ AfterBlock(t, <<q, k>>) # {}
    /\ x \in i + 1 .. Len(t) + 1
    /\ FromStep(t, f, i) = Cat(Part(t, i, q - 1), f[x])

LEMMA FromStepIs ==
    ASSUME NEW t, IsText(t), NEW i \in 1 .. Len(t) + 1, NEW f
    PROVE  \/ /\ OpensFrom(t, i) = {} \/ AfterBlock(t, FirstOpen(t, i)) = {}
              /\ FromStep(t, f, i) = Part(t, i, Len(t))
           \/ \E q \in i .. Len(t), k \in Kinds : HasBlock(t, f, i, q, k)
  <1>1. CASE OpensFrom(t, i) = {} \/ AfterBlock(t, FirstOpen(t, i)) = {}
    BY <1>1 DEF FromStep, Part
  <1>2. CASE ~(OpensFrom(t, i) = {} \/ AfterBlock(t, FirstOpen(t, i)) = {})
    <2>1. PICK q \in i .. Len(t), k \in Kinds : FirstOpen(t, i) = <<q, k>>
      BY <1>2, FirstOpenIs
    <2> DEFINE A == AfterBlock(t, <<q, k>>)
    <2>2. A # {}
      BY <1>2, <2>1
    <2>3. Len(t) \in Nat /\ q \in 1 .. Len(t)
      BY TextIs
    <2>4. \A x \in A : x \in q + 1 .. Len(t) + 1
      BY <2>3, AfterBlockRange
    <2>5. A \in SUBSET Nat
      BY <2>3, <2>4
    <2>6. Min(A) \in A
      BY <2>2, <2>5, MinLeast
    <2>7. Min(A) \in i + 1 .. Len(t) + 1
      BY <2>3, <2>4, <2>6
    <2>8. <<q, k>>[1] = q
      OBVIOUS
    <2>9. FromStep(t, f, i) = SubSeq(t, i, q - 1) \o f[Min(A)]
      BY <1>2, <2>1, <2>8 DEF FromStep
    <2> QED
      BY <1>2, <2>1, <2>2, <2>7, <2>9 DEF HasBlock, Cat, Part
  <1> QED
    BY <1>1, <1>2

LEMMA FromStepSame ==
    ASSUME NEW t, IsText(t), NEW i \in 1 .. Len(t) + 1, NEW f, NEW g,
           \A j \in i + 1 .. Len(t) + 1 : f[j] = g[j]
    PROVE  FromStep(t, f, i) = FromStep(t, g, i)
  <1>1. CASE OpensFrom(t, i) = {} \/ AfterBlock(t, FirstOpen(t, i)) = {}
    BY <1>1 DEF FromStep
  <1>2. CASE ~(OpensFrom(t, i) = {} \/ AfterBlock(t, FirstOpen(t, i)) = {})
    <2>1. PICK q \in i .. Len(t), k \in Kinds :
                 /\ FirstOpen(t, i) = <<q, k>>
                 /\ Min(AfterBlock(t, <<q, k>>)) \in i + 1 .. Len(t) + 1
      BY <1>2, FromStepIs DEF HasBlock
    <2> QED
      BY <1>2, <2>1 DEF FromStep
  <1> QED
    BY <1>1, <1>2

LEMMA FromStepType ==
    ASSUME NEW t, IsText(t), NEW i \in 1 .. Len(t) + 1, NEW f,
           \A j \in i + 1 .. Len(t) + 1 : f[j] \in Seq(Symbol)
    PROVE  FromStep(t, f, i) \in Seq(Symbol)
  <1>1. Len(t) \in Nat /\ Len(t) \in i - 1 .. Len(t)
    BY TextIs
  <1>2. Part(t, i, Len(t)) \in Seq(Symbol)
    BY <1>1, PartIs DEF IsText
  <1>3. ASSUME NEW q \in i .. Len(t), NEW s \in Seq(Symbol)
        PROVE  Cat(Part(t, i, q - 1), s) \in Seq(Symbol)
    <2>1. q - 1 \in i - 1 .. Len(t)
      BY <1>1
    <2>2. Part(t, i, q - 1) \in Seq(Symbol)
      BY <2>1, PartIs DEF IsText
    <2> QED
      BY <2>2, CatType
  <1>4. CASE FromStep(t, f, i) = Part(t, i, Len(t))
    BY <1>2, <1>4
  <1>5. CASE FromStep(t, f, i) # Part(t, i, Len(t))
    <2>1. PICK q \in i .. Len(t), k \in Kinds : HasBlock(t, f, i, q, k)
      BY <1>5, FromStepIs
    <2> QED
      BY <1>3, <2>1 DEF HasBlock
  <1> QED
    BY <1>4, <1>5

LEMMA FromExists ==
    ASSUME NEW t, IsText(t)
    PROVE  FromOn(t, From(t), 1)
  <1> DEFINE L == Len(t) + 1
             N == {d \in Nat : d <= Len(t) => \E f : FromOn(t, f, L - d)}
  <1>1. Len(t) \in Nat
    BY TextIs
  <1>2. ASSUME NEW n \in 1 .. L, NEW g \in [n + 1 .. L -> Seq(Symbol)],
               \A i \in n + 1 .. L : g[i] = FromStep(t, g, i)
        PROVE  \E f : FromOn(t, f, n)
    <2> DEFINE v == FromStep(t, g, n)
               f == [i \in n .. L |-> IF i = n THEN v ELSE g[i]]
    <2>1. v \in Seq(Symbol)
      BY <1>2, FromStepType
    <2> HIDE DEF v
    <2>2. f \in [n .. L -> Seq(Symbol)]
      BY <1>1, <2>1
    <2>3. f[n] = v /\ \A i \in n + 1 .. L : f[i] = g[i]
      BY <1>1
    <2> HIDE DEF f
    <2>4. ASSUME NEW i \in n .. L
          PROVE  f[i] = FromStep(t, f, i)
      <3>1. i \in 1 .. Len(t) + 1
        BY <1>1
      <3>2. \A j \in i + 1 .. Len(t) + 1 : f[j] = g[j]
        BY <1>1, <2>3
      <3>3. FromStep(t, f, i) = FromStep(t, g, i)
        BY <3>1, <3>2, FromStepSame
      <3>4. i = n \/ i \in n + 1 .. L
        BY <1>1
      <3>5. CASE i = n
        BY <2>3, <3>3, <3>5 DEF v
      <3>6. CASE i \in n + 1 .. L
        BY <1>2, <2>3, <3>3, <3>6
      <3> QED
        BY <3>4, <3>5, <3>6
    <2> QED
      BY <2>2, <2>4 DEF FromOn
  <1>3. 0 \in N
    <2> DEFINE g == [i \in L + 1 .. L |-> << >>]
    <2>1. g \in [L + 1 .. L -> Seq(Symbol)]
      BY <1>1
    <2>2. \A i \in L + 1 .. L : g[i] = FromStep(t, g, i)
      BY <1>1
    <2>3. L \in 1 .. L /\ L - 0 = L
      BY <1>1
    <2> HIDE DEF g
    <2>4. \E f : FromOn(t, f, L)
      BY <1>2, <2>1, <2>2, <2>3
    <2> QED
      BY <2>3, <2>4
  <1>4. ASSUME NEW d \in N
        PROVE  d + 1 \in N
    <2>1. CASE ~(d + 1 <= Len(t))
      BY <2>1
    <2>2. CASE d + 1 <= Len(t)
      <3> DEFINE n == L - (d + 1)
      <3>1. d <= Len(t) /\ n \in 1 .. L /\ n + 1 = L - d
        BY <1>1, <2>2
      <3>2. PICK g : FromOn(t, g, n + 1)
        BY <3>1
      <3> HIDE DEF n
      <3>3. \E f : FromOn(t, f, n)
        BY <1>2, <3>1, <3>2 DEF FromOn
      <3> QED
        BY <3>3 DEF n
    <2> QED
      BY <2>1, <2>2
  <1>5. N = Nat
    <2>1. N \in SUBSET Nat
      OBVIOUS
    <2> HIDE DEF N
    <2> QED
      BY <1>3, <1>4, <2>1, Induction
  <1>6. \E f : FromOn(t, f, 1)
    <2>1. Len(t) \in N /\ L - Len(t) = 1
      BY <1>1, <1>5
    <2> QED
      BY <1>1, <2>1
  <1> QED
    BY <1>6 DEF From

LEMMA VisibleIs ==
    ASSUME NEW t, IsText(t)
    PROVE  Visible(t) = From(t)[1]
  <1> DEFINE L == Len(t) + 1
             F == From(t)
             C == CHOOSE f : f = [i \in 1 .. L |-> FromStep(t, f, i)]
  <1>1. Len(t) \in Nat
    BY TextIs
  <1>2. FromOn(t, F, 1)
    BY FromExists
  <1> HIDE DEF F
  <1>3. F = [i \in 1 .. L |-> FromStep(t, F, i)]
    BY <1>2 DEF FromOn
  <1>4. C = [i \in 1 .. L |-> FromStep(t, C, i)]
    BY <1>3
  <1>5. Visible(t) = C[1]
    BY DEF Visible, FromStep
  <1> HIDE DEF C
  <1> DEFINE N == {d \in 0 .. Len(t) : C[L - d] # F[L - d]}
  <1>6. ASSUME N # {}
        PROVE  FALSE
    <2>1. N \in SUBSET Nat
      BY <1>1
    <2>2. PICK d \in N : \A e \in N : d <= e
      BY <1>6, <2>1, Least
    <2> DEFINE i == L - d
    <2>3. i \in 1 .. L
      BY <1>1
    <2>4. ASSUME NEW j \in i + 1 .. L
          PROVE  C[j] = F[j]
      <3>1. L - j \in 0 .. Len(t) /\ L - j < d /\ L - (L - j) = j
        BY <1>1, <2>3
      <3> QED
        BY <2>2, <3>1
    <2>5. C[i] = FromStep(t, C, i) /\ F[i] = FromStep(t, F, i)
      BY <1>3, <1>4, <2>3
    <2>6. FromStep(t, C, i) = FromStep(t, F, i)
      BY <2>3, <2>4, FromStepSame
    <2> QED
      BY <2>5, <2>6
  <1>7. Len(t) \in 0 .. Len(t) /\ L - Len(t) = 1
    BY <1>1
  <1>8. C[1] = F[1]
    BY <1>6, <1>7
  <1> QED
    BY <1>5, <1>8 DEF F

LEMMA FromIs ==
    ASSUME NEW t, IsText(t), NEW i \in 1 .. Len(t) + 1
    PROVE  From(t)[i] = FromStep(t, From(t), i) /\ IsText(From(t)[i])
  BY FromExists DEF FromOn, IsText

\* What is before the first opening tag is shown.
LEMMA FromSkip ==
    ASSUME NEW t, IsText(t), NEW i \in 1 .. Len(t) + 1,
           NEW j \in i .. Len(t) + 1, NoOpen(t, i, j)
    PROVE  From(t)[i] = Cat(Part(t, i, j - 1), From(t)[j])
  <1> DEFINE F == From(t)
  <1>1. Len(t) \in Nat /\ j \in 1 .. Len(t) + 1
    BY TextIs
  <1>2. /\ OpensFrom(t, i) = OpensFrom(t, j)
        /\ FirstOpen(t, i) = FirstOpen(t, j)
    BY SkipOpens
  <1>3. F[i] = FromStep(t, F, i) /\ F[j] = FromStep(t, F, j)
    BY <1>1, FromIs
  <1>4. \A x \in 1 .. Len(t) + 1 : IsText(F[x])
    BY FromIs
  <1> HIDE DEF F
  <1>5. CASE OpensFrom(t, j) = {} \/ AfterBlock(t, FirstOpen(t, j)) = {}
    <2>1. F[i] = Part(t, i, Len(t)) /\ F[j] = Part(t, j, Len(t))
      BY <1>2, <1>3, <1>5 DEF FromStep, Part
    <2>2. j - 1 \in i - 1 .. Len(t) /\ Len(t) \in j - 1 .. Len(t)
          /\ j - 1 + 1 = j
      BY <1>1
    <2>3. Cat(Part(t, i, j - 1), Part(t, j, Len(t))) = Part(t, i, Len(t))
      BY <2>2, PartCat
    <2> QED
      BY <2>1, <2>3 DEF F
  <1>6. CASE ~(OpensFrom(t, j) = {} \/ AfterBlock(t, FirstOpen(t, j)) = {})
    <2>1. PICK q \in j .. Len(t), k \in Kinds :
                 /\ FirstOpen(t, j) = <<q, k>>
                 /\ Min(AfterBlock(t, <<q, k>>)) \in j + 1 .. Len(t) + 1
                 /\ FromStep(t, F, j)
                      = Cat(Part(t, j, q - 1),
                            F[Min(AfterBlock(t, <<q, k>>))])
      <3>1. PICK q \in j .. Len(t), k \in Kinds : HasBlock(t, F, j, q, k)
        BY <1>1, <1>6, FromStepIs
      <3> QED
        BY <3>1 DEF HasBlock
    <2> DEFINE x == Min(AfterBlock(t, <<q, k>>))
    <2>2. FromStep(t, F, i) = Cat(Part(t, i, q - 1), F[x])
      <3>1. <<q, k>>[1] = q
        OBVIOUS
      <3> QED
        BY <1>2, <1>6, <2>1, <3>1 DEF FromStep, Cat, Part
    <2>3. IsText(F[x])
      BY <1>1, <1>4, <2>1
    <2> HIDE DEF x
    <2>4. j - 1 \in i - 1 .. Len(t) /\ q - 1 \in j - 1 .. Len(t)
          /\ j - 1 + 1 = j
      BY <1>1
    <2>5. Cat(Part(t, i, j - 1), Part(t, j, q - 1)) = Part(t, i, q - 1)
      BY <2>4, PartCat
    <2>6. IsText(Part(t, i, j - 1)) /\ IsText(Part(t, j, q - 1))
      BY <1>1, <2>4, PartIs
    <2>7. Cat(Cat(Part(t, i, j - 1), Part(t, j, q - 1)), F[x])
            = Cat(Part(t, i, j - 1), Cat(Part(t, j, q - 1), F[x]))
      BY <2>3, <2>6, CatTexts
    <2>8. F[j] = Cat(Part(t, j, q - 1), F[x])
      BY <1>3, <2>1 DEF x
    <2> QED
      BY <1>3, <2>2, <2>5, <2>7, <2>8 DEF F
  <1> QED
    BY <1>5, <1>6

LEMMA FromRest ==
    ASSUME NEW t, IsText(t), NEW i \in 1 .. Len(t) + 1,
           NoOpen(t, i, Len(t) + 1)
    PROVE  From(t)[i] = Part(t, i, Len(t))
  <1>1. Len(t) \in Nat /\ Len(t) + 1 - 1 = Len(t)
    BY TextIs
  <1>2. \A q \in i .. Len(t), k \in Kinds : ~At(t, q, Open(k))
    BY <1>1 DEF NoOpen
  <1>3. OpensFrom(t, i) = {}
    BY <1>2, OpensAre
  <1> QED
    BY <1>3, FromIs DEF FromStep, Part

\* A block up to its closing tag is not.
LEMMA FromBlock ==
    ASSUME NEW t, IsText(t), NEW q \in 1 .. Len(t), NEW k \in Kinds,
           At(t, q, Open(k)), NEW c \in q + Len(k) + 2 .. Len(t),
           At(t, c, Close(k)), NoClose(t, k, q + Len(k) + 2, c)
    PROVE  From(t)[q] = From(t)[c + Len(k) + 3]
  <1> DEFINE x == c + Len(k) + 3
             A == AfterBlock(t, <<q, k>>)
  <1>1. Len(t) \in Nat /\ q \in 1 .. Len(t) + 1 /\ q \in q .. Len(t)
    BY TextIs
  <1>2. NoOpen(t, q, q)
    BY <1>1 DEF NoOpen
  <1>3. OpensFrom(t, q) # {} /\ FirstOpen(t, q) = <<q, k>>
    BY <1>1, <1>2, FirstOpenAt
  <1>4. A # {} /\ Min(A) = x
    BY AfterFirstClose
  <1>5. x \in A
    BY AfterBlockIs
  <1>6. x \in 1 .. Len(t) + 1
    BY <1>1, <1>5, AfterBlockRange
  <1> HIDE DEF x
  <1>7. <<q, k>>[1] = q
    OBVIOUS
  <1>8. FromStep(t, From(t), q) = Cat(Part(t, q, q - 1), From(t)[x])
    BY <1>3, <1>4, <1>7 DEF FromStep, Cat, Part
  <1>9. Part(t, q, q - 1) = << >>
    BY <1>1 DEF Part
  <1>10. Cat(<< >>, From(t)[x]) = From(t)[x]
    BY <1>6, FromIs, CatText
  <1> QED
    BY <1>1, <1>8, <1>9, <1>10, FromIs DEF x

\* A block that is never closed is.
LEMMA FromUnclosed ==
    ASSUME NEW t, IsText(t), NEW q \in 1 .. Len(t), NEW k \in Kinds,
           At(t, q, Open(k)), NoClose(t, k, q + Len(k) + 2, Len(t) + 1)
    PROVE  From(t)[q] = Part(t, q, Len(t))
  <1>1. Len(t) \in Nat /\ q \in 1 .. Len(t) + 1 /\ q \in q .. Len(t)
    BY TextIs
  <1>2. NoOpen(t, q, q)
    BY <1>1 DEF NoOpen
  <1>3. FirstOpen(t, q) = <<q, k>>
    BY <1>1, <1>2, FirstOpenAt
  <1>4. AfterBlock(t, <<q, k>>) = {}
    BY NoAfterBlock
  <1> QED
    BY <1>1, <1>3, <1>4, FromIs DEF FromStep, Part

-----------------------------------------------------------------------------
(* What the filter finds, and what it waits for *)

IsFilter(f) == f \in [open : Kinds \union {None}, pending : Seq(Symbol),
                      hidden : Seq(Symbol)]

NoTag(t, tags, i, j) == \A n \in i .. j - 1 : \A g \in tags : ~At(t, n, g)

LEMMA SoughtIs ==
    ASSUME NEW f, IsFilter(f)
    PROVE  /\ \A g \in Sought(f) : IsTag(g)
           /\ f.open = None => Sought(f) = {Open(k) : k \in Kinds}
           /\ f.open # None => /\ f.open \in Kinds
                               /\ Sought(f) = {Close(f.open)}
  <1>1. \A k \in Kinds : IsTag(Open(k)) /\ IsTag(Close(k))
    BY OpenIs, CloseIs
  <1>2. f.open \in Kinds \union {None}
    BY DEF IsFilter
  <1> QED
    BY <1>1, <1>2 DEF Sought

LEMMA NotFound ==
    ASSUME NEW f, IsFilter(f), Found(f) = {}
    PROVE  NoTag(f.pending, Sought(f), 1, Len(f.pending) + 1)
  <1>1. IsText(f.pending)
    BY DEF IsFilter, IsText
  <1>2. /\ Len(f.pending) \in Nat /\ DOMAIN f.pending = 1 .. Len(f.pending)
        /\ Len(f.pending) + 1 - 1 = Len(f.pending)
    BY <1>1, TextIs
  <1> QED
    BY <1>2 DEF Found, Places, NoTag

LEMMA EarliestIs ==
    ASSUME NEW f, IsFilter(f), Found(f) # {}
    PROVE  LET g == Earliest(f)
               i == FirstPlace(f, g)
           IN  /\ g \in Sought(f)
               /\ i \in 1 .. Len(f.pending) /\ At(f.pending, i, g)
               /\ NoTag(f.pending, Sought(f), 1, i)
  <1> DEFINE s == f.pending
             P(g) == FirstPlace(f, g)
             N == {P(g) : g \in Found(f)}
             e == Earliest(f)
  <1>1. IsText(s)
    BY DEF IsFilter, IsText
  <1>2. Len(s) \in Nat /\ DOMAIN s = 1 .. Len(s)
    BY <1>1, TextIs
  <1> HIDE DEF s
  <1>3. ASSUME NEW g \in Sought(f), NEW n \in 1 .. Len(s), At(s, n, g)
        PROVE  /\ g \in Found(f) /\ P(g) \in 1 .. Len(s) /\ At(s, P(g), g)
               /\ P(g) <= n
    <2>1. Places(s, g) \in SUBSET Nat
      BY <1>2 DEF Places
    <2>2. n \in Places(s, g)
      BY <1>2, <1>3 DEF Places
    <2>3. P(g) \in Places(s, g) /\ P(g) <= n
      BY <2>1, <2>2, MinLeast DEF FirstPlace, s
    <2> QED
      BY <1>2, <2>2, <2>3 DEF Places, Found, s
  <1>4. \A g \in Found(f) : \E n \in 1 .. Len(s) : At(s, n, g)
    BY <1>2 DEF Found, Places, s
  <1>5. \A g \in Found(f) : g \in Sought(f)
    BY DEF Found
  <1>6. N \in SUBSET Nat /\ N # {}
    BY <1>2, <1>3, <1>4, <1>5
  <1>7. PICK m \in N : \A n \in N : m <= n
    BY <1>6, Least
  <1>8. e \in Found(f) /\ \A g \in Found(f) : P(e) <= P(g)
    BY <1>7 DEF Earliest
  <1> HIDE DEF e
  <1>9. NoTag(s, Sought(f), 1, P(e))
    <2> SUFFICES ASSUME NEW n \in 1 .. P(e) - 1, NEW g \in Sought(f),
                        At(s, n, g)
                 PROVE  FALSE
      BY DEF NoTag
    <2>1. P(e) \in 1 .. Len(s)
      BY <1>3, <1>4, <1>5, <1>8
    <2>2. n \in 1 .. Len(s)
      BY <1>2, <2>1
    <2>3. g \in Found(f) /\ P(g) <= n /\ P(g) \in 1 .. Len(s)
      BY <1>3, <2>2
    <2>4. P(e) <= P(g)
      BY <1>8, <2>3
    <2> QED
      BY <1>2, <2>1, <2>2, <2>3, <2>4
  <1> QED
    BY <1>3, <1>4, <1>5, <1>8, <1>9 DEF e, s

\* What is kept is an end of s, and no sought tag can begin before it.
LEMMA RetainedIs ==
    ASSUME NEW s, IsText(s), NEW tags
    PROVE  \E r \in 1 .. Len(s) + 1 :
              /\ Retained(s, tags) = Part(s, r, Len(s))
              /\ Without(s, Retained(s, tags)) = Part(s, 1, r - 1)
              /\ \A i \in 1 .. r - 1 : \A g \in tags :
                    ~IsStrictPrefix(Part(s, i, Len(s)), g)
  <1> DEFINE S == {i \in DOMAIN s : \E g \in tags :
                     IsStrictPrefix(Part(s, i, Len(s)), g)}
             r == IF S = {} THEN Len(s) + 1 ELSE Min(S)
  <1>1. Len(s) \in Nat /\ DOMAIN s = 1 .. Len(s)
    BY TextIs
  <1>2. S \in SUBSET Nat
    BY <1>1
  <1>3. /\ r \in 1 .. Len(s) + 1
        /\ \A i \in S : r <= i
    <2>1. S # {} => Min(S) \in S /\ \A i \in S : Min(S) <= i
      BY <1>2, MinLeast
    <2> QED
      BY <1>1, <2>1
  <1>4. Retained(s, tags) = Part(s, r, Len(s))
    <2>1. CASE S = {}
      <3>1. Retained(s, tags) = << >>
        BY <2>1 DEF Retained, Part
      <3>2. Part(s, Len(s) + 1, Len(s)) = << >>
        BY <1>1 DEF Part
      <3> QED
        BY <2>1, <3>1, <3>2
    <2>2. CASE S # {}
      BY <2>2 DEF Retained, Part
    <2> QED
      BY <2>1, <2>2
  <1> HIDE DEF r
  <1>5. Len(s) \in r - 1 .. Len(s)
    BY <1>1, <1>3
  <1>6. Len(Part(s, r, Len(s))) = Len(s) - r + 1
    BY <1>3, <1>5, PartIs
  <1>7. Len(s) - (Len(s) - r + 1) = r - 1
    BY <1>1, <1>3
  <1>8. Without(s, Retained(s, tags)) = Part(s, 1, r - 1)
    BY <1>4, <1>6, <1>7 DEF Without, Part
  <1>9. ASSUME NEW i \in 1 .. r - 1, NEW g \in tags,
               IsStrictPrefix(Part(s, i, Len(s)), g)
        PROVE  FALSE
    <2>1. i \in 1 .. Len(s) /\ i < r
      BY <1>1, <1>3
    <2>2. i \in S
      BY <1>1, <1>9, <2>1
    <2> QED
      BY <1>3, <2>1, <2>2
  <1> QED
    BY <1>3, <1>4, <1>8, <1>9

\* A tag that ends after n begins with what is there of it.
LEMMA BeginsTag ==
    ASSUME NEW t, IsText(t), NEW p \in 1 .. Len(t) + 1,
           NEW n \in p - 1 .. Len(t), NEW i \in p .. n,
           NEW g, IsText(g), Len(g) > 0, At(t, i, g), i + Len(g) - 1 > n
    PROVE  IsStrictPrefix(Part(Part(t, p, n), i - p + 1, n - p + 1), g)
  <1> DEFINE m == n - i + 1
             u == Part(t, i, n)
             v == Part(g, 1, m)
  <1>1. Len(t) \in Nat /\ Len(g) \in Nat /\ i \in Nat /\ p \in Nat /\ n \in Nat
    BY TextIs
  <1>2. Part(Part(t, p, n), i - p + 1, n - p + 1) = u
    <2> DEFINE a == i - p + 1
               b == n - p + 1
    <2>1. /\ a \in 1 .. n - p + 2 /\ b \in a - 1 .. n - p + 1
          /\ p + a - 1 = i /\ p + b - 1 = n
      BY <1>1
    <2> HIDE DEF a, b
    <2>2. Part(Part(t, p, n), a, b) = Part(t, p + a - 1, p + b - 1)
      BY <2>1, PartOfPart
    <2> QED
      BY <2>1, <2>2 DEF a, b
  <1>3. i \in 1 .. Len(t) + 1 /\ n \in i - 1 .. Len(t)
    BY <1>1
  <1>4. IsText(u) /\ Len(u) = m /\ \A a \in 1 .. m : u[a] = t[i + a - 1]
    BY <1>3, PartIs
  <1>5. /\ m \in 1 - 1 .. Len(g) /\ 1 \in 1 .. Len(g) + 1 /\ m < Len(g)
        /\ m - 1 + 1 = m /\ \A a \in 1 .. m : 1 + a - 1 = a
        /\ 1 .. m \subseteq 1 .. Len(g)
    BY <1>1
  <1>6. IsText(v) /\ Len(v) = m /\ \A a \in 1 .. m : v[a] = g[a]
    BY <1>5, PartIs
  <1>7. Reads(t, i, g)
    BY <1>3, AtIs
  <1>8. \A a \in 1 .. m : u[a] = v[a]
    BY <1>4, <1>5, <1>6, <1>7 DEF Reads
  <1> HIDE DEF u, v, m
  <1>9. u = v
    BY <1>4, <1>6, <1>8, SameText
  <1>10. Part(u, 1, Len(u)) = u
    BY <1>4, TextIs
  <1>11. IsPrefix(u, g) /\ u # g
    BY <1>4, <1>5, <1>9, <1>10 DEF IsPrefix, Part, v
  <1> QED
    BY <1>2, <1>11 DEF IsStrictPrefix

\* So a filter that finds no tag in what is pending gives up no symbol a tag
\* can still begin with.
LEMMA NothingGiven ==
    ASSUME NEW t, IsText(t), NEW p \in 1 .. Len(t) + 1,
           NEW n \in p - 1 .. Len(t), NEW tags, \A g \in tags : IsTag(g),
           NoTag(Part(t, p, n), tags, 1, n - p + 2)
    PROVE  \E r \in p .. n + 1 :
              /\ Retained(Part(t, p, n), tags) = Part(t, r, n)
              /\ Without(Part(t, p, n), Part(t, r, n)) = Part(t, p, r - 1)
              /\ NoTag(t, tags, p, r)
              /\ NoTag(Part(t, r, n), tags, 1, n - r + 2)
  <1> DEFINE s == Part(t, p, n)
  <1>1. Len(t) \in Nat /\ p \in Nat /\ n \in Int
    BY TextIs
  <1>2. IsText(s) /\ Len(s) = n - p + 1
    BY PartIs
  <1>3. PICK a \in 1 .. Len(s) + 1 :
              /\ Retained(s, tags) = Part(s, a, Len(s))
              /\ Without(s, Retained(s, tags)) = Part(s, 1, a - 1)
              /\ \A i \in 1 .. a - 1 : \A g \in tags :
                    ~IsStrictPrefix(Part(s, i, Len(s)), g)
    BY <1>2, RetainedIs
  <1> DEFINE r == p + a - 1
  <1>4. /\ r \in p .. n + 1 /\ a \in 1 .. n - p + 2 /\ a = r - p + 1
        /\ n - p + 1 \in a - 1 .. n - p + 1 /\ a - 1 \in 1 - 1 .. n - p + 1
        /\ 1 \in 1 .. n - p + 2
        /\ p + (n - p + 1) - 1 = n /\ p + 1 - 1 = p /\ p + (a - 1) - 1 = r - 1
    BY <1>1, <1>2
  <1>5. Part(s, a, Len(s)) = Part(t, r, n)
    BY <1>2, <1>4, PartOfPart
  <1>6. Part(s, 1, a - 1) = Part(t, p, r - 1)
    BY <1>2, <1>4, PartOfPart
  <1>7. ASSUME NEW i \in p .. n, NEW g \in tags, At(t, i, g)
        PROVE  i + Len(g) - 1 > n
    <2>1. IsText(g) /\ Len(g) > 0 /\ Len(g) \in Nat
      BY TextIs DEF IsTag
    <2>2. i \in p .. n + 1 /\ i - p + 1 \in 1 .. n - p + 2 - 1
      BY <1>1
    <2>3. ~At(s, i - p + 1, g)
      BY <2>2 DEF NoTag
    <2>4. ~(i + Len(g) - 1 <= n)
      BY <1>7, <2>1, <2>2, <2>3, AtPart
    <2> QED
      BY <1>1, <2>1, <2>4
  <1>8. NoTag(t, tags, p, r)
    <2> SUFFICES ASSUME NEW i \in p .. r - 1, NEW g \in tags, At(t, i, g)
                 PROVE  FALSE
      BY DEF NoTag
    <2>1. IsText(g) /\ Len(g) > 0
      BY TextIs DEF IsTag
    <2>2. i \in p .. n /\ i - p + 1 \in 1 .. a - 1
      BY <1>1, <1>4
    <2>3. i + Len(g) - 1 > n
      BY <1>7, <2>2
    <2>4. IsStrictPrefix(Part(s, i - p + 1, n - p + 1), g)
      BY <2>1, <2>2, <2>3, BeginsTag
    <2> QED
      BY <1>2, <1>3, <2>2, <2>4
  <1>9. NoTag(Part(t, r, n), tags, 1, n - r + 2)
    <2> SUFFICES ASSUME NEW j \in 1 .. n - r + 2 - 1, NEW g \in tags,
                        At(Part(t, r, n), j, g)
                 PROVE  FALSE
      BY DEF NoTag
    <2> DEFINE i == r + j - 1
    <2>1. IsText(g) /\ Len(g) > 0
      BY TextIs DEF IsTag
    <2>2. /\ i \in p .. n /\ i \in r .. n + 1 /\ i - r + 1 = j
          /\ r \in 1 .. Len(t) + 1 /\ n \in r - 1 .. Len(t)
      BY <1>1, <1>4
    <2>3. At(Part(t, r, n), i - r + 1, g)
      BY <2>2
    <2> HIDE DEF i, r
    <2>4. i + Len(g) - 1 <= n /\ At(t, i, g)
      BY <2>1, <2>2, <2>3, AtPart
    <2>5. i + Len(g) - 1 > n
      BY <1>7, <2>2, <2>4
    <2>6. Len(g) \in Nat
      BY <2>1, TextIs
    <2> QED
      BY <1>1, <2>2, <2>4, <2>5, <2>6
  <1> QED
    BY <1>3, <1>4, <1>5, <1>6, <1>8, <1>9

-----------------------------------------------------------------------------
(* A filter that was given the first n symbols of t.  What was shown of it,  *)
(* v, and what is shown of the rest, from position p or from the opening tag *)
(* at q on, are together all that is shown of t.                             *)

Outside(t, f, v, p) ==
    /\ f.open = None /\ f.hidden = << >>
    /\ Cat(v, From(t)[p]) = From(t)[1]

Inside(t, f, v, p, q) ==
    /\ f.open \in Kinds
    /\ q + Len(f.open) + 2 <= p /\ At(t, q, Open(f.open))
    /\ f.hidden = Part(t, q, p - 1)
    /\ NoClose(t, f.open, q + Len(f.open) + 2, p)
    /\ Cat(v, From(t)[q]) = From(t)[1]

SeenAt(t, n, f, v, p) ==
    /\ IsFilter(f) /\ IsText(v) /\ p \in 1 .. n + 1
    /\ f.pending = Part(t, p, n)
    /\ Outside(t, f, v, p) \/ \E q \in 1 .. p - 1 : Inside(t, f, v, p, q)

Seen(t, n, f, v) == \E p \in 1 .. n + 1 : SeenAt(t, n, f, v, p)

\* No tag is left to be found.
Rests(f) == NoTag(f.pending, Sought(f), 1, Len(f.pending) + 1)

LEMMA Kept ==
    ASSUME NEW t, IsText(t), NEW n \in 0 .. Len(t), NEW p \in 1 .. n + 1,
           NEW f, IsFilter(f), f.pending = Part(t, p, n), Found(f) = {}
    PROVE  \E r \in p .. n + 1 :
              /\ Retained(f.pending, Sought(f)) = Part(t, r, n)
              /\ Without(f.pending, Retained(f.pending, Sought(f)))
                   = Part(t, p, r - 1)
              /\ NoTag(t, Sought(f), p, r)
              /\ NoTag(Part(t, r, n), Sought(f), 1, Len(Part(t, r, n)) + 1)
  <1>1. Len(t) \in Nat /\ n \in Nat /\ p \in 1 .. Len(t) + 1
        /\ n \in p - 1 .. Len(t)
    BY TextIs
  <1>2. Len(Part(t, p, n)) = n - p + 1 /\ Len(Part(t, p, n)) + 1 = n - p + 2
    <2>1. Len(Part(t, p, n)) = n - p + 1
      BY <1>1, PartIs
    <2> QED
      BY <1>1, <2>1
  <1>3. NoTag(Part(t, p, n), Sought(f), 1, n - p + 2)
    BY <1>2, NotFound
  <1>4. PICK r \in p .. n + 1 :
              /\ Retained(Part(t, p, n), Sought(f)) = Part(t, r, n)
              /\ Without(Part(t, p, n), Part(t, r, n)) = Part(t, p, r - 1)
              /\ NoTag(t, Sought(f), p, r)
              /\ NoTag(Part(t, r, n), Sought(f), 1, n - r + 2)
    BY <1>1, <1>3, SoughtIs, NothingGiven
  <1>5. r \in 1 .. Len(t) + 1 /\ n \in r - 1 .. Len(t)
    BY <1>1
  <1>6. Len(Part(t, r, n)) = n - r + 1
    BY <1>5, PartIs
  <1>7. Len(Part(t, r, n)) + 1 = n - r + 2
    BY <1>1, <1>6
  <1> QED
    BY <1>4, <1>7

LEMMA KeepOutside ==
    ASSUME NEW t, IsText(t), NEW n \in 0 .. Len(t), NEW p \in 1 .. n + 1,
           NEW f, NEW v, SeenAt(t, n, f, v, p), f.open = None, Found(f) = {},
           NEW keep, keep = Retained(f.pending, Sought(f)),
           NEW given, given = Without(f.pending, keep),
           NEW g, g = [f EXCEPT !.pending = keep]
    PROVE  Seen(t, n, g, Cat(v, given)) /\ IsText(given) /\ Rests(g)
  <1>1. /\ IsFilter(f) /\ IsText(v) /\ f.pending = Part(t, p, n)
        /\ Outside(t, f, v, p)
    BY MarkerAssumption DEF SeenAt, Inside
  <1>2. PICK r \in p .. n + 1 :
              /\ keep = Part(t, r, n) /\ given = Part(t, p, r - 1)
              /\ NoTag(t, Sought(f), p, r)
              /\ NoTag(keep, Sought(f), 1, Len(keep) + 1)
    BY <1>1, Kept
  <1>3. /\ Len(t) \in Nat /\ n \in Nat /\ p \in 1 .. Len(t) + 1
        /\ r \in 1 .. Len(t) + 1 /\ r \in 1 .. n + 1
        /\ n \in r - 1 .. Len(t) /\ r - 1 \in p - 1 .. Len(t)
        /\ r \in p .. Len(t) + 1
    BY TextIs
  <1>4. IsText(keep) /\ IsText(given)
    BY <1>2, <1>3, PartIs
  <1>5. /\ IsFilter(g) /\ g.open = None /\ g.hidden = << >>
        /\ g.pending = keep
    BY <1>1, <1>4 DEF IsFilter, IsText, Outside
  <1>6. Sought(f) = Sought(g) /\ Sought(f) = {Open(k) : k \in Kinds}
    BY <1>1, <1>5, SoughtIs
  <1>7. NoOpen(t, p, r)
    BY <1>2, <1>6 DEF NoTag, NoOpen
  <1>8. From(t)[p] = Cat(given, From(t)[r])
    BY <1>2, <1>3, <1>7, FromSkip
  <1>9. Cat(v, Cat(given, From(t)[r])) = Cat(Cat(v, given), From(t)[r])
    BY <1>1, <1>3, <1>4, FromIs, CatTexts
  <1>10. Outside(t, g, Cat(v, given), r)
    BY <1>1, <1>5, <1>8, <1>9 DEF Outside
  <1>11. SeenAt(t, n, g, Cat(v, given), r)
    BY <1>1, <1>2, <1>3, <1>4, <1>5, <1>10, CatText DEF SeenAt
  <1> QED
    BY <1>2, <1>3, <1>4, <1>5, <1>6, <1>11 DEF Seen, Rests

LEMMA KeepInside ==
    ASSUME NEW t, IsText(t), NEW n \in 0 .. Len(t), NEW p \in 1 .. n + 1,
           NEW f, NEW v, SeenAt(t, n, f, v, p), f.open # None, Found(f) = {},
           NEW keep, keep = Retained(f.pending, Sought(f)),
           NEW given, given = Without(f.pending, keep),
           NEW g, g = [f EXCEPT !.pending = keep, !.hidden = Cat(@, given)]
    PROVE  Seen(t, n, g, v) /\ Rests(g)
  <1>1. /\ IsFilter(f) /\ IsText(v) /\ f.pending = Part(t, p, n)
        /\ f.open \in Kinds
    BY SoughtIs DEF SeenAt
  <1>2. PICK q \in 1 .. p - 1 : Inside(t, f, v, p, q)
    BY DEF SeenAt, Outside
  <1> DEFINE k == f.open
             b == q + Len(k) + 2
  <1>3. PICK r \in p .. n + 1 :
              /\ keep = Part(t, r, n) /\ given = Part(t, p, r - 1)
              /\ NoTag(t, Sought(f), p, r)
              /\ NoTag(keep, Sought(f), 1, Len(keep) + 1)
    BY <1>1, Kept
  <1>4. /\ Len(t) \in Nat /\ n \in Nat /\ p \in 1 .. Len(t) + 1
        /\ q \in 1 .. Len(t) + 1 /\ q \in 1 .. r - 1
        /\ r \in 1 .. Len(t) + 1 /\ r \in 1 .. n + 1
        /\ n \in r - 1 .. Len(t) /\ r - 1 \in p - 1 .. Len(t)
        /\ p - 1 \in q - 1 .. Len(t) /\ r - 1 \in q - 1 .. Len(t)
        /\ p - 1 + 1 = p /\ Len(k) \in Nat
    BY <1>1, TextIs, KindIs
  <1>5. IsText(keep) /\ IsText(given)
    BY <1>3, <1>4, PartIs
  <1>6. f.hidden = Part(t, q, p - 1)
    BY <1>2 DEF Inside
  <1>7. Cat(f.hidden, given) = Part(t, q, r - 1)
    <2>1. r - 1 \in p - 1 .. Len(t)
      BY <1>4
    <2> QED
      BY <1>3, <1>4, <1>6, <2>1, PartCat
  <1>8. IsText(Part(t, q, r - 1))
    BY <1>4, PartIs
  <1>9. /\ IsFilter(g) /\ g.open = k /\ g.hidden = Part(t, q, r - 1)
        /\ g.pending = keep
    BY <1>1, <1>5, <1>7, <1>8 DEF IsFilter, IsText
  <1>10. Sought(f) = Sought(g) /\ Sought(f) = {Close(k)}
    BY <1>1, <1>9, SoughtIs
  <1>11. NoClose(t, k, b, r)
    <2>1. NoClose(t, k, b, p)
      BY <1>2 DEF Inside
    <2>2. NoClose(t, k, p, r)
      BY <1>3, <1>10 DEF NoTag, NoClose
    <2>3. \A i \in b .. r - 1 : i \in b .. p - 1 \/ i \in p .. r - 1
      BY <1>4
    <2> QED
      BY <2>1, <2>2, <2>3 DEF NoClose
  <1>12. Inside(t, g, v, r, q)
    <2>1. q + Len(k) + 2 <= p /\ p <= r
      BY <1>2, <1>4 DEF Inside
    <2> DEFINE l == Len(k)
    <2>2. l \in Nat /\ q + l + 2 <= p
      BY <1>4, <2>1
    <2> HIDE DEF l
    <2>3. q + l + 2 <= r
      BY <1>4, <2>1, <2>2
    <2> QED
      BY <1>2, <1>9, <1>11, <2>3 DEF Inside, l
  <1>13. SeenAt(t, n, g, v, r)
    BY <1>1, <1>3, <1>4, <1>9, <1>12 DEF SeenAt
  <1> QED
    BY <1>3, <1>4, <1>9, <1>10, <1>13 DEF Seen, Rests

\* The first tag of what is pending is at c.
FirstTag(t, n, p, f, tag, start, c) ==
    /\ At(t, c, tag) /\ c + Len(tag) \in p + 1 .. n + 1
    /\ NoTag(t, Sought(f), p, c)
    /\ SubSeq(f.pending, 1, start - 1) = Part(t, p, c - 1)
    /\ SubSeq(f.pending, start + Len(tag), Len(f.pending))
         = Part(t, c + Len(tag), n)

LEMMA FoundAt ==
    ASSUME NEW t, IsText(t), NEW n \in 0 .. Len(t), NEW p \in 1 .. n + 1,
           NEW f, IsFilter(f), f.pending = Part(t, p, n), Found(f) # {},
           NEW tag, tag = Earliest(f), NEW start, start = FirstPlace(f, tag)
    PROVE  /\ tag \in Sought(f) /\ IsTag(tag)
           /\ \E c \in p .. n : FirstTag(t, n, p, f, tag, start, c)
  <1> DEFINE s == Part(t, p, n)
             c == p + start - 1
             S == Sought(f)
  <1>1. /\ tag \in S /\ start \in 1 .. Len(s) /\ At(s, start, tag)
        /\ NoTag(s, S, 1, start)
    BY EarliestIs
  <1>2. \A g \in S : IsTag(g)
    BY SoughtIs
  <1>3. /\ IsText(tag) /\ Len(tag) \in Nat /\ Len(tag) > 0
    BY <1>1, <1>2, TextIs DEF IsTag
  <1>4. Len(t) \in Nat /\ n \in Nat /\ p \in 1 .. Len(t) + 1
        /\ n \in p - 1 .. Len(t)
    BY TextIs
  <1>5. Len(s) = n - p + 1
    BY <1>4, PartIs
  <1>6. c \in p .. n /\ c \in p .. n + 1 /\ c - p + 1 = start
        /\ c \in 1 .. Len(t) + 1
    BY <1>1, <1>4, <1>5
  <1> HIDE DEF c, S
  <1>7. c + Len(tag) - 1 <= n /\ At(t, c, tag)
    BY <1>1, <1>3, <1>4, <1>6, AtPart
  <1>8. NoTag(t, S, p, c)
    <2> SUFFICES ASSUME NEW i \in p .. c - 1, NEW g \in S, At(t, i, g)
                 PROVE  FALSE
      BY DEF NoTag
    <2>1. IsTag(g) /\ IsText(g) /\ Len(g) \in Nat /\ Len(g) > 0
      BY <1>2, TextIs DEF IsTag
    <2>2. i \in 1 .. Len(t) + 1 /\ i \in p .. n + 1 /\ i < c
          /\ i - p + 1 \in 1 .. start - 1
      BY <1>4, <1>6
    <2>3. i + Len(g) <= c
      BY <1>1, <1>2, <1>6, <1>7, <2>1, <2>2, NoOverlap
    <2>4. i + Len(g) - 1 <= n
      BY <1>4, <1>6, <2>1, <2>2, <2>3
    <2>5. At(s, i - p + 1, g)
      BY <1>4, <2>1, <2>2, <2>4, AtPart
    <2> QED
      BY <1>1, <2>2, <2>5 DEF NoTag
  <1>9. Part(s, 1, start - 1) = Part(t, p, c - 1)
    <2> DEFINE b == start - 1
    <2>1. 1 \in 1 .. n - p + 2 /\ b \in 1 - 1 .. n - p + 1
          /\ p + 1 - 1 = p /\ p + b - 1 = c - 1
      BY <1>1, <1>4, <1>5, <1>6
    <2> HIDE DEF b
    <2>2. Part(s, 1, b) = Part(t, p + 1 - 1, p + b - 1)
      BY <1>4, <2>1, PartOfPart
    <2> QED
      BY <2>1, <2>2 DEF b
  <1>10. Part(s, start + Len(tag), Len(s)) = Part(t, c + Len(tag), n)
    <2> DEFINE a == start + Len(tag)
               b == Len(s)
    <2>1. /\ a \in 1 .. n - p + 2 /\ b \in a - 1 .. n - p + 1
          /\ p + a - 1 = c + Len(tag) /\ p + b - 1 = n
      <3> DEFINE l == Len(tag)
      <3>1. l \in Nat /\ c + l - 1 <= n /\ a = start + l /\ b = n - p + 1
        BY <1>3, <1>5, <1>7
      <3> HIDE DEF a, b, l
      <3>2. p + a - 1 = c + l /\ p + b - 1 = n
        BY <1>1, <1>4, <1>6, <3>1
      <3>3. a \in Nat /\ a > 0 /\ a <= n - p + 2
        BY <1>1, <1>4, <1>6, <3>1
      <3>4. a \in 1 .. n - p + 2 /\ b \in a - 1 .. n - p + 1
        BY <1>4, <3>1, <3>3
      <3> QED
        BY <3>2, <3>4 DEF l
    <2> HIDE DEF a, b
    <2>2. Part(s, a, b) = Part(t, p + a - 1, p + b - 1)
      BY <1>4, <2>1, PartOfPart
    <2> QED
      BY <2>1, <2>2 DEF a, b
  <1>11. c + Len(tag) \in p + 1 .. n + 1
    BY <1>3, <1>4, <1>6, <1>7
  <1> QED
    BY <1>1, <1>2, <1>6, <1>7, <1>8, <1>9, <1>10, <1>11 DEF FirstTag, Part, S

LEMMA OpenTag ==
    ASSUME NEW t, IsText(t), NEW n \in 0 .. Len(t), NEW p \in 1 .. n + 1,
           NEW f, NEW v, SeenAt(t, n, f, v, p), f.open = None, Found(f) # {},
           NEW tag, tag = Earliest(f), NEW start, start = FirstPlace(f, tag),
           NEW given, given = SubSeq(f.pending, 1, start - 1),
           NEW g, g = [open |-> CHOOSE k \in Kinds : Open(k) = tag,
                       pending |-> SubSeq(f.pending, start + Len(tag),
                                          Len(f.pending)),
                       hidden |-> tag]
    PROVE  /\ Seen(t, n, g, Cat(v, given)) /\ IsText(given)
           /\ Len(g.pending) < Len(f.pending)
  <1>1. /\ IsFilter(f) /\ IsText(v) /\ f.pending = Part(t, p, n)
        /\ Outside(t, f, v, p)
    BY MarkerAssumption DEF SeenAt, Inside
  <1>2. /\ tag \in Sought(f) /\ IsTag(tag)
    BY <1>1, FoundAt
  <1>3. PICK c \in p .. n : FirstTag(t, n, p, f, tag, start, c)
    BY <1>1, FoundAt
  <1>4. /\ At(t, c, tag) /\ c + Len(tag) \in p + 1 .. n + 1
        /\ NoTag(t, Sought(f), p, c)
        /\ given = Part(t, p, c - 1)
        /\ g.pending = Part(t, c + Len(tag), n)
    BY <1>3 DEF FirstTag
  <1> DEFINE k == g.open
             r == c + Len(tag)
  <1>5. Sought(f) = {Open(l) : l \in Kinds}
    BY <1>1, SoughtIs
  <1>6. k \in Kinds /\ Open(k) = tag /\ g.hidden = tag
    BY <1>2, <1>5
  <1>7. Len(tag) = Len(k) + 2 /\ Len(k) \in Nat /\ IsText(tag) /\ Len(tag) > 0
    BY <1>6, KindIs, OpenIs DEF IsTag
  <1>8. /\ Len(t) \in Nat /\ n \in Nat /\ p \in 1 .. Len(t) + 1
        /\ n \in p - 1 .. Len(t)
        /\ c \in 1 .. Len(t) + 1 /\ c \in 1 .. r - 1 /\ c \in p .. Len(t) + 1
        /\ r \in 1 .. Len(t) + 1 /\ r \in 1 .. n + 1
        /\ n \in r - 1 .. Len(t) /\ c - 1 \in p - 1 .. Len(t)
        /\ r > p
    BY <1>4, <1>7, TextIs
  <1>9. IsText(given) /\ IsText(g.pending)
    BY <1>4, <1>8, PartIs
  <1>10. IsFilter(g)
    BY <1>6, <1>7, <1>9 DEF IsFilter, IsText
  <1>11. NoOpen(t, p, c)
    BY <1>4, <1>5 DEF NoTag, NoOpen
  <1>12. From(t)[p] = Cat(given, From(t)[c])
    BY <1>4, <1>8, <1>11, FromSkip
  <1>13. Cat(v, Cat(given, From(t)[c])) = Cat(Cat(v, given), From(t)[c])
    BY <1>1, <1>8, <1>9, FromIs, CatTexts
  <1>14. Cat(Cat(v, given), From(t)[c]) = From(t)[1]
    BY <1>1, <1>12, <1>13 DEF Outside
  <1>15. tag = Part(t, c, r - 1)
    BY <1>4 DEF At, Part
  <1>16. c + Len(k) + 2 = r
    BY <1>7, <1>8
  <1>17. NoClose(t, k, r, r)
    BY <1>8 DEF NoClose
  <1>18. Inside(t, g, Cat(v, given), r, c)
    BY <1>4, <1>6, <1>8, <1>14, <1>15, <1>16, <1>17 DEF Inside
  <1>19. SeenAt(t, n, g, Cat(v, given), r)
    BY <1>1, <1>4, <1>8, <1>9, <1>10, <1>18, CatText DEF SeenAt
  <1>20. Len(Part(t, r, n)) = n - r + 1 /\ Len(Part(t, p, n)) = n - p + 1
    <2> HIDE DEF r
    <2> QED
      BY <1>8, PartIs
  <1>21. Len(g.pending) < Len(f.pending)
    <2>1. Len(g.pending) = n - r + 1 /\ Len(f.pending) = n - p + 1
      BY <1>1, <1>4, <1>20
    <2> HIDE DEF r
    <2>2. n \in Int /\ p \in Int /\ r \in Int /\ p < r
      BY <1>8
    <2>3. \A x, y : x = n - r + 1 /\ y = n - p + 1 => x < y
      BY <2>2
    <2> QED
      BY <2>1, <2>3, Zenon
  <1> QED
    BY <1>8, <1>9, <1>19, <1>21 DEF Seen

LEMMA CloseTag ==
    ASSUME NEW t, IsText(t), NEW n \in 0 .. Len(t), NEW p \in 1 .. n + 1,
           NEW f, NEW v, SeenAt(t, n, f, v, p), f.open # None, Found(f) # {},
           NEW tag, tag = Earliest(f), NEW start, start = FirstPlace(f, tag),
           NEW g, g = [NewFilter EXCEPT !.pending =
                          SubSeq(f.pending, start + Len(tag), Len(f.pending))]
    PROVE  Seen(t, n, g, v) /\ Len(g.pending) < Len(f.pending)
  <1>1. /\ IsFilter(f) /\ IsText(v) /\ f.pending = Part(t, p, n)
        /\ f.open \in Kinds /\ Sought(f) = {Close(f.open)}
    BY SoughtIs DEF SeenAt
  <1>2. PICK q \in 1 .. p - 1 : Inside(t, f, v, p, q)
    BY DEF SeenAt, Outside
  <1> DEFINE k == f.open
             b == q + Len(k) + 2
  <1>3. tag = Close(k) /\ IsTag(tag)
    BY <1>1, FoundAt
  <1>4. PICK c \in p .. n : FirstTag(t, n, p, f, tag, start, c)
    BY <1>1, FoundAt
  <1>5. /\ At(t, c, tag) /\ c + Len(tag) \in p + 1 .. n + 1
        /\ NoTag(t, Sought(f), p, c)
        /\ SubSeq(f.pending, start + Len(tag), Len(f.pending))
             = Part(t, c + Len(tag), n)
    BY <1>4 DEF FirstTag
  <1> DEFINE d == c + Len(tag)
  <1>6. /\ Len(tag) = Len(k) + 3 /\ Len(k) \in Nat
    BY <1>1, <1>3, KindIs, CloseIs
  <1>7. b <= p
    BY <1>2 DEF Inside
  <1>8. /\ Len(t) \in Nat /\ n \in Nat /\ p \in 1 .. Len(t) + 1
        /\ n \in p - 1 .. Len(t) /\ q \in 1 .. Len(t)
        /\ c \in b .. Len(t)
        /\ d \in 1 .. Len(t) + 1 /\ d \in 1 .. n + 1 /\ d = c + Len(k) + 3
        /\ n \in d - 1 .. Len(t) /\ d > p
    <2>1. Len(t) \in Nat /\ n \in 0 .. Len(t) /\ p \in 1 .. n + 1
          /\ q \in 1 .. p - 1 /\ c \in p .. n /\ d \in p + 1 .. n + 1
      BY <1>5, TextIs
    <2> HIDE DEF d
    <2>2. d = c + Len(k) + 3
      BY <1>5, <1>6, <2>1 DEF d
    <2> DEFINE l == Len(k)
    <2>3. l \in Nat /\ d = c + l + 3 /\ b = q + l + 2
      BY <1>6, <2>2
    <2> HIDE DEF l, b
    <2>4. b \in Int /\ b <= p
      BY <1>7, <2>1, <2>3
    <2>5. p \in 1 .. Len(t) + 1 /\ n \in p - 1 .. Len(t) /\ q \in 1 .. Len(t)
      BY <2>1
    <2>6. c \in b .. Len(t)
      BY <2>1, <2>4
    <2>7. /\ d \in 1 .. Len(t) + 1 /\ d \in 1 .. n + 1
          /\ n \in d - 1 .. Len(t) /\ d > p
      BY <2>1
    <2> QED
      BY <2>1, <2>2, <2>5, <2>6, <2>7
  <1>9. NoClose(t, k, b, c)
    <2>1. NoClose(t, k, b, p)
      BY <1>2 DEF Inside
    <2>2. NoClose(t, k, p, c)
      BY <1>1, <1>5 DEF NoTag, NoClose
    <2>3. \A i \in b .. c - 1 : i \in b .. p - 1 \/ i \in p .. c - 1
      BY <1>6, <1>8
    <2> QED
      BY <2>1, <2>2, <2>3 DEF NoClose
  <1>10. At(t, q, Open(k)) /\ Cat(v, From(t)[q]) = From(t)[1]
    BY <1>2 DEF Inside
  <1>11. From(t)[q] = From(t)[d]
    <2> HIDE DEF b, d
    <2>1. c \in q + Len(k) + 2 .. Len(t) /\ NoClose(t, k, q + Len(k) + 2, c)
      BY <1>8, <1>9 DEF b
    <2>2. At(t, c, Close(k))
      BY <1>3, <1>5
    <2>3. From(t)[q] = From(t)[c + Len(k) + 3]
      BY <1>1, <1>8, <1>10, <2>1, <2>2, FromBlock
    <2> QED
      BY <1>8, <2>3
  <1>12. IsText(Part(t, d, n))
    BY <1>8, PartIs
  <1>13. /\ g.open = None /\ g.hidden = << >> /\ g.pending = Part(t, d, n)
         /\ IsFilter(g)
    <2>1. g = [open |-> None, pending |-> Part(t, d, n), hidden |-> << >>]
      BY <1>5 DEF NewFilter
    <2>2. << >> \in Seq(Symbol)
      OBVIOUS
    <2> DEFINE u == Part(t, d, n)
    <2>3. u \in Seq(Symbol)
      BY <1>12 DEF IsText
    <2> DEFINE h == [open |-> None, pending |-> u, hidden |-> << >>]
    <2>4. g = h
      BY <2>1
    <2> HIDE DEF u
    <2>5. h.open = None /\ h.hidden = << >> /\ h.pending = u
      OBVIOUS
    <2>6. IsFilter(h)
      BY <2>2, <2>3 DEF IsFilter
    <2> HIDE DEF h
    <2> QED
      BY <2>4, <2>5, <2>6, Zenon DEF u
  <1>14. Outside(t, g, v, d)
    BY <1>10, <1>11, <1>13 DEF Outside
  <1>15. SeenAt(t, n, g, v, d)
    BY <1>1, <1>8, <1>13, <1>14 DEF SeenAt
  <1>16. Len(Part(t, d, n)) = n - d + 1 /\ Len(Part(t, p, n)) = n - p + 1
    <2> HIDE DEF d
    <2> QED
      BY <1>8, PartIs
  <1>17. Len(g.pending) < Len(f.pending)
    <2>1. Len(g.pending) = n - d + 1 /\ Len(f.pending) = n - p + 1
      BY <1>1, <1>13, <1>16
    <2> HIDE DEF d
    <2>2. n \in Int /\ p \in Int /\ d \in Int /\ p < d
      BY <1>8
    <2>3. \A x, y : x = n - d + 1 /\ y = n - p + 1 => x < y
      BY <2>2
    <2> QED
      BY <2>1, <2>3, Zenon
  <1> QED
    BY <1>8, <1>15, <1>17 DEF Seen

-----------------------------------------------------------------------------
(* A whole chunk *)

\* The loop, with sh shown before it.
LoopInv(t, n, sh, s) ==
    /\ s = Turn(s.filter, s.out, s.over) /\ s.over \in BOOLEAN
    /\ IsText(s.out) /\ Seen(t, n, s.filter, Cat(sh, s.out))
    /\ s.over => Rests(s.filter)

LEMMA TurnKeeps ==
    ASSUME NEW t, IsText(t), NEW n \in 0 .. Len(t), NEW sh, IsText(sh),
           NEW s, LoopInv(t, n, sh, s),
           NEW z, z = FilterTurn(s)
    PROVE  /\ LoopInv(t, n, sh, z)
           /\ s.over => z = s
           /\ z.over \/ Len(z.filter.pending) < Len(s.filter.pending)
  <1> DEFINE f == s.filter
             v == Cat(sh, s.out)
             keep == Retained(f.pending, Sought(f))
             given == Without(f.pending, keep)
             tag == Earliest(f)
             start == FirstPlace(f, tag)
             before == SubSeq(f.pending, 1, start - 1)
             after == SubSeq(f.pending, start + Len(tag), Len(f.pending))
  <1>1. IsText(s.out) /\ s.over \in BOOLEAN
    BY DEF LoopInv
  <1>2. PICK p \in 1 .. n + 1 : SeenAt(t, n, f, v, p)
    BY DEF LoopInv, Seen
  <1>3. ASSUME NEW x, IsText(x)
        PROVE  Cat(sh, Cat(s.out, x)) = Cat(v, x) /\ IsText(Cat(s.out, x))
    BY <1>1, <1>3, CatTexts, CatText
  <1>4. ASSUME NEW g, NEW out, NEW over \in BOOLEAN, IsText(out),
               Seen(t, n, g, Cat(sh, out)), over => Rests(g)
        PROVE  LoopInv(t, n, sh, Turn(g, out, over))
    <2>1. /\ Turn(g, out, over).filter = g /\ Turn(g, out, over).out = out
          /\ Turn(g, out, over).over = over
      BY DEF Turn
    <2> QED
      BY <1>4, <2>1, Zenon DEF LoopInv
  <1>5. CASE s.over
    <2>1. z = s
      BY <1>5 DEF FilterTurn
    <2> QED
      BY <1>5, <2>1
  <1>6. CASE ~s.over /\ Found(f) = {} /\ f.open = None
    <2> DEFINE g == [f EXCEPT !.pending = keep]
    <2>1. z = Turn(g, Cat(s.out, given), TRUE)
      BY <1>6 DEF FilterTurn, Cat
    <2>2. Seen(t, n, g, Cat(v, given)) /\ IsText(given) /\ Rests(g)
      BY <1>2, <1>6, KeepOutside
    <2>3. LoopInv(t, n, sh, z)
      BY <1>3, <1>4, <2>1, <2>2
    <2>4. z.over
      BY <2>1 DEF Turn
    <2> QED
      BY <1>6, <2>3, <2>4
  <1>7. CASE ~s.over /\ Found(f) = {} /\ f.open # None
    <2> DEFINE g == [f EXCEPT !.pending = keep, !.hidden = Cat(@, given)]
    <2>1. z = Turn(g, s.out, TRUE)
      BY <1>7 DEF FilterTurn, Cat
    <2>2. Seen(t, n, g, v) /\ Rests(g)
      BY <1>2, <1>7, KeepInside
    <2>3. LoopInv(t, n, sh, z)
      BY <1>1, <1>4, <2>1, <2>2
    <2>4. z.over
      BY <2>1 DEF Turn
    <2> QED
      BY <1>7, <2>3, <2>4
  <1>8. CASE ~s.over /\ Found(f) # {} /\ f.open = None
    <2> DEFINE g == [open |-> CHOOSE k \in Kinds : Open(k) = tag,
                     pending |-> after, hidden |-> tag]
    <2>1. z = Turn(g, Cat(s.out, before), FALSE)
      BY <1>8 DEF FilterTurn, Cat
    <2>2. /\ Seen(t, n, g, Cat(v, before)) /\ IsText(before)
          /\ Len(g.pending) < Len(f.pending)
      BY <1>2, <1>8, OpenTag
    <2>3. LoopInv(t, n, sh, z)
      BY <1>3, <1>4, <2>1, <2>2
    <2>4. z.filter = g
      BY <2>1 DEF Turn
    <2> QED
      BY <1>8, <2>2, <2>3, <2>4
  <1>9. CASE ~s.over /\ Found(f) # {} /\ f.open # None
    <2> DEFINE g == [NewFilter EXCEPT !.pending = after]
    <2>1. z = Turn(g, s.out, FALSE)
      BY <1>9 DEF FilterTurn
    <2>2. Seen(t, n, g, v) /\ Len(g.pending) < Len(f.pending)
      BY <1>2, <1>9, CloseTag
    <2>3. LoopInv(t, n, sh, z)
      BY <1>1, <1>4, <2>1, <2>2
    <2>4. z.filter = g
      BY <2>1 DEF Turn
    <2> QED
      BY <1>9, <2>2, <2>3, <2>4
  <1> QED
    BY <1>1, <1>5, <1>6, <1>7, <1>8, <1>9

\* The recursive function of FilterLoop.
TurnAt(w, f, i) ==
    IF i = 0 THEN Turn(f, << >>, FALSE) ELSE FilterTurn(w[i - 1])

Turns(w, f, m) == w = [i \in 0 .. m |-> TurnAt(w, f, i)]

LEMMA TurnsExist ==
    ASSUME NEW f
    PROVE  \A m \in Nat : \E w : Turns(w, f, m)
  <1> DEFINE N == {m \in Nat : \E w : Turns(w, f, m)}
  <1>1. 0 \in N
    <2> DEFINE w == [i \in 0 .. 0 |-> Turn(f, << >>, FALSE)]
    <2>1. Turns(w, f, 0)
      BY DEF Turns, TurnAt
    <2> QED
      BY <2>1
  <1>2. ASSUME NEW m \in N
        PROVE  m + 1 \in N
    <2>1. PICK w : Turns(w, f, m)
      OBVIOUS
    <2> DEFINE x == [i \in 0 .. m + 1 |-> IF i <= m THEN w[i]
                                          ELSE TurnAt(w, f, i)]
    <2>2. ASSUME NEW i \in 0 .. m + 1
          PROVE  x[i] = TurnAt(x, f, i)
      <3>1. i # 0 => i - 1 \in 0 .. m /\ x[i - 1] = w[i - 1]
        OBVIOUS
      <3>2. TurnAt(x, f, i) = TurnAt(w, f, i)
        BY <3>1 DEF TurnAt
      <3>3. i <= m => w[i] = TurnAt(w, f, i)
        BY <2>1 DEF Turns
      <3> QED
        BY <3>2, <3>3
    <2>3. Turns(x, f, m + 1)
      <3> HIDE DEF x
      <3>1. x = [i \in 0 .. m + 1 |-> x[i]]
        BY DEF x
      <3> QED
        BY <2>2, <3>1 DEF Turns
    <2> QED
      BY <2>3
  <1>3. N = Nat
    <2> HIDE DEF N
    <2>1. N \in SUBSET Nat
      BY DEF N
    <2> QED
      BY <1>1, <1>2, <2>1, Induction
  <1> QED
    BY <1>3

LEMMA LoopEnds ==
    ASSUME NEW t, IsText(t), NEW n \in 0 .. Len(t), NEW sh, IsText(sh),
           NEW f, IsFilter(f), Seen(t, n, f, sh)
    PROVE  LoopInv(t, n, sh, FilterLoop(f)) /\ FilterLoop(f).over
  <1> DEFINE L == Len(f.pending)
             w == CHOOSE w : Turns(w, f, L + 1)
             Within(i) == w[i].over \/ Len(w[i].filter.pending) + i <= L
             N == {i \in Nat : i <= L + 1 =>
                                 LoopInv(t, n, sh, w[i]) /\ Within(i)}
  <1>1. L \in Nat
    BY TextIs DEF IsFilter, IsText
  <1>2. Turns(w, f, L + 1)
    <2> HIDE DEF L
    <2>1. L + 1 \in Nat
      BY <1>1
    <2>2. \E x : Turns(x, f, L + 1)
      BY <2>1, TurnsExist
    <2> QED
      BY <2>2
  <1>3. FilterLoop(f) = w[L + 1]
    BY DEF FilterLoop, Turns, TurnAt
  <1> HIDE DEF w, L
  <1>4. \A i \in 0 .. L + 1 : w[i] = TurnAt(w, f, i)
    BY <1>2 DEF Turns
  <1>5. ASSUME NEW z, LoopInv(t, n, sh, z)
        PROVE  Len(z.filter.pending) \in Nat
    <2>1. IsFilter(z.filter)
      BY <1>5 DEF LoopInv, Seen, SeenAt
    <2> QED
      BY <2>1, TextIs DEF IsFilter, IsText
  <1>6. 0 \in N
    <2>1. w[0] = Turn(f, << >>, FALSE)
      <3>1. 0 \in 0 .. L + 1
        BY <1>1
      <3> QED
        BY <1>4, <3>1 DEF TurnAt
    <2>2. w[0].filter = f /\ w[0].out = << >> /\ w[0].over = FALSE
      BY <2>1 DEF Turn
    <2>3. Cat(sh, << >>) = sh
      BY CatText
    <2>4. LoopInv(t, n, sh, w[0])
      BY <2>1, <2>2, <2>3, EmptyText DEF LoopInv
    <2>5. Within(0)
      BY <1>1, <2>2 DEF L
    <2> QED
      BY <2>4, <2>5
  <1>7. ASSUME NEW i \in N
        PROVE  i + 1 \in N
    <2> HIDE DEF Within
    <2>1. i \in Nat /\ (i <= L + 1 => LoopInv(t, n, sh, w[i]) /\ Within(i))
      BY <1>7
    <2> SUFFICES ASSUME i + 1 <= L + 1
                 PROVE  LoopInv(t, n, sh, w[i + 1]) /\ Within(i + 1)
      BY <2>1
    <2> USE DEF Within
    <2>2. i \in Nat /\ i <= L + 1 /\ i + 1 \in 0 .. L + 1 /\ i + 1 # 0
          /\ i + 1 - 1 = i
      BY <1>1, <2>1
    <2>3. w[i + 1] = FilterTurn(w[i])
      <3>1. w[i + 1] = TurnAt(w, f, i + 1)
        BY <1>4, <2>2
      <3> QED
        BY <2>2, <3>1 DEF TurnAt
    <2>4. LoopInv(t, n, sh, w[i]) /\ Within(i)
      BY <2>2, <2>1
    <2>5. /\ LoopInv(t, n, sh, w[i + 1])
          /\ w[i].over => w[i + 1] = w[i]
          /\ w[i + 1].over \/ Len(w[i + 1].filter.pending)
                                < Len(w[i].filter.pending)
      BY <2>3, <2>4, TurnKeeps
    <2>6. Len(w[i].filter.pending) \in Nat /\ Len(w[i + 1].filter.pending) \in Nat
      BY <1>5, <2>4, <2>5
    <2>7. Within(i + 1)
      <3>1. CASE w[i].over
        BY <2>5, <3>1
      <3>2. CASE Len(w[i].filter.pending) + i <= L
        <4>1. ASSUME NEW x \in Nat, NEW y \in Nat, x + i <= L, y < x
              PROVE  y + (i + 1) <= L
          BY <1>1, <2>2, <4>1
        <4> QED
          BY <2>5, <2>6, <3>2, <4>1
      <3> QED
        BY <2>4, <3>1, <3>2
    <2> QED
      BY <2>5, <2>7
  <1>8. N = Nat
    <2>1. N \in SUBSET Nat
      OBVIOUS
    <2> HIDE DEF N
    <2> QED
      BY <1>6, <1>7, <2>1, Induction
  <1>9. L + 1 \in Nat /\ L + 1 <= L + 1
    BY <1>1
  <1>10. LoopInv(t, n, sh, w[L + 1]) /\ Within(L + 1)
    BY <1>8, <1>9
  <1>11. Len(w[L + 1].filter.pending) \in Nat
    BY <1>5, <1>10
  <1>12. w[L + 1].over
    <2>1. \A x \in Nat : ~(x + (L + 1) <= L)
      BY <1>1
    <2> QED
      BY <1>10, <1>11, <2>1
  <1> QED
    BY <1>3, <1>10, <1>12

\* One chunk more: what it shows.
LEMMA ChunkSeen ==
    ASSUME NEW t, IsText(t), NEW n \in 0 .. Len(t), NEW m \in n .. Len(t),
           NEW f, NEW v, Seen(t, n, f, v),
           NEW step,
           step = FilterLoop([f EXCEPT !.pending = @ \o Part(t, n + 1, m)])
    PROVE  /\ Seen(t, m, step.filter, v \o step.out) /\ Rests(step.filter)
           /\ IsText(step.out)
  <1>1. PICK p \in 1 .. n + 1 : SeenAt(t, n, f, v, p)
    BY DEF Seen
  <1> DEFINE q == Cat(f.pending, Part(t, n + 1, m))
             g == [f EXCEPT !.pending = q]
  <1>2. IsFilter(f) /\ IsText(v) /\ f.pending = Part(t, p, n)
    BY <1>1 DEF SeenAt
  <1>3. /\ Len(t) \in Nat /\ p \in 1 .. Len(t) + 1 /\ n \in p - 1 .. Len(t)
        /\ m \in n .. Len(t) /\ p \in 1 .. m + 1 /\ m \in p - 1 .. Len(t)
        /\ m \in 0 .. Len(t)
    BY TextIs
  <1>4. q = Part(t, p, m)
    BY <1>2, <1>3, PartCat
  <1>5. IsText(q)
    BY <1>3, <1>4, PartIs
  <1> HIDE DEF q
  <1>6. IsFilter(g) /\ g.open = f.open /\ g.hidden = f.hidden /\ g.pending = q
    BY <1>2, <1>5 DEF IsFilter, IsText
  <1>7. SeenAt(t, m, g, v, p)
    BY <1>1, <1>2, <1>3, <1>4, <1>6 DEF SeenAt, Outside, Inside
  <1>8. step = FilterLoop(g)
    BY DEF q, Cat
  <1>9. Seen(t, m, g, v)
    BY <1>3, <1>7 DEF Seen
  <1> HIDE DEF g
  <1>10. LoopInv(t, m, v, step) /\ step.over
    BY <1>2, <1>3, <1>6, <1>8, <1>9, LoopEnds
  <1> QED
    BY <1>10 DEF LoopInv, Cat

\* The end: with what the filter still holds, all was shown.
LEMMA FlushSeen ==
    ASSUME NEW t, IsText(t), NEW f, NEW v, Seen(t, Len(t), f, v), Rests(f)
    PROVE  v \o Flush(f) = Visible(t)
  <1> DEFINE n == Len(t)
  <1>1. PICK p \in 1 .. n + 1 : SeenAt(t, n, f, v, p)
    BY DEF Seen
  <1>2. IsFilter(f) /\ IsText(v) /\ f.pending = Part(t, p, n)
    BY <1>1 DEF SeenAt
  <1>3. /\ n \in Nat /\ p \in 1 .. Len(t) + 1 /\ n \in p - 1 .. Len(t)
        /\ 1 \in 1 .. Len(t) + 1
    BY TextIs
  <1>4. IsText(Part(t, p, n)) /\ Len(Part(t, p, n)) = n - p + 1
    BY <1>3, PartIs
  <1>5. Visible(t) = From(t)[1]
    BY VisibleIs
  <1>6. ASSUME NEW i \in p .. n, NEW g \in Sought(f)
        PROVE  ~At(t, i, g)
    <2>1. IsTag(g) /\ IsText(g) /\ Len(g) \in Nat /\ Len(g) > 0
      <3>1. IsTag(g)
        BY <1>2, SoughtIs
      <3> QED
        BY <3>1, TextIs DEF IsTag
    <2>2. i - p + 1 \in 1 .. Len(Part(t, p, n)) + 1 - 1 /\ i \in p .. n + 1
          /\ i \in 1 .. Len(t) + 1
      <3> DEFINE l == Len(Part(t, p, n))
      <3>1. l = n - p + 1
        BY <1>4
      <3> HIDE DEF l
      <3>2. i - p + 1 \in 1 .. l + 1 - 1
        BY <1>3, <3>1
      <3>3. i \in p .. n + 1 /\ i \in 1 .. Len(t) + 1
        BY <1>3
      <3> QED
        BY <3>2, <3>3 DEF l
    <2>3. ~At(Part(t, p, n), i - p + 1, g)
      BY <1>2, <2>2 DEF Rests, NoTag
    <2>4. ~(i + Len(g) - 1 <= n /\ At(t, i, g))
      BY <1>3, <2>1, <2>2, <2>3, AtPart
    <2>5. At(t, i, g) => i + Len(g) - 1 <= n
      BY <2>1, <2>2, AtIs DEF Reads
    <2> QED
      BY <2>4, <2>5
  <1>7. CASE Outside(t, f, v, p)
    <2>1. Sought(f) = {Open(k) : k \in Kinds} /\ f.hidden = << >>
      BY <1>2, <1>7, SoughtIs DEF Outside
    <2>2. NoOpen(t, p, Len(t) + 1)
      BY <1>3, <1>6, <2>1 DEF NoOpen
    <2>3. From(t)[p] = Part(t, p, n)
      BY <1>3, <2>2, FromRest
    <2>4. Flush(f) = Cat(<< >>, Part(t, p, n))
      BY <1>2, <2>1 DEF Flush, Cat
    <2>5. Flush(f) = Part(t, p, n)
      BY <1>4, <2>4, CatText
    <2> QED
      BY <1>5, <1>7, <2>3, <2>5 DEF Outside, Cat
  <1>8. ASSUME NEW q \in 1 .. p - 1, Inside(t, f, v, p, q)
        PROVE  v \o Flush(f) = Visible(t)
    <2> DEFINE k == f.open
    <2>1. f.open \in Kinds /\ f.open # None
      BY <1>8, MarkerAssumption DEF Inside
    <2>2. Sought(f) = {Close(k)}
      BY <1>2, <2>1, SoughtIs
    <2>3. /\ q \in 1 .. Len(t) /\ q \in 1 .. Len(t) + 1
          /\ p - 1 \in q - 1 .. Len(t) /\ n \in p - 1 .. Len(t) /\ p - 1 + 1 = p
          /\ Len(k) \in Nat
      BY <1>3, <2>1, KindIs
    <2>4. NoClose(t, k, q + Len(k) + 2, Len(t) + 1)
      <3>1. NoClose(t, k, q + Len(k) + 2, p)
        BY <1>8 DEF Inside
      <3>2. \A i \in q + Len(k) + 2 .. Len(t) + 1 - 1 :
                i \in q + Len(k) + 2 .. p - 1 \/ i \in p .. n
        BY <1>3, <2>3
      <3> QED
        BY <1>6, <2>2, <3>1, <3>2 DEF NoClose
    <2>5. From(t)[q] = Part(t, q, n)
      BY <1>8, <2>1, <2>3, <2>4, FromUnclosed DEF Inside
    <2>6. Flush(f) = Cat(Part(t, q, p - 1), Part(t, p, n))
      BY <1>2, <1>8 DEF Flush, Cat, Inside
    <2>7. Flush(f) = Part(t, q, n)
      BY <1>3, <2>3, <2>6, PartCat
    <2> QED
      BY <1>5, <1>8, <2>5, <2>7 DEF Inside, Cat
  <1> QED
    BY <1>1, <1>7, <1>8 DEF SeenAt

-----------------------------------------------------------------------------
(* What a wrapper writes is a text *)

\* The recursive function of Write.
WrittenAt(w, b, s, i) ==
    IF i = 0 THEN Rendered(b, << >>) ELSE Render(w[i - 1], s[i])

Writes(w, b, s, m) == w = [i \in 0 .. m |-> WrittenAt(w, b, s, i)]

LEMMA WritesExist ==
    ASSUME NEW b, NEW s
    PROVE  \A m \in Nat : \E w : Writes(w, b, s, m)
  <1> DEFINE N == {m \in Nat : \E w : Writes(w, b, s, m)}
  <1>1. 0 \in N
    <2> DEFINE w == [i \in 0 .. 0 |-> Rendered(b, << >>)]
    <2>1. Writes(w, b, s, 0)
      BY DEF Writes, WrittenAt
    <2> QED
      BY <2>1
  <1>2. ASSUME NEW m \in N
        PROVE  m + 1 \in N
    <2>1. PICK w : Writes(w, b, s, m)
      OBVIOUS
    <2> DEFINE x == [i \in 0 .. m + 1 |-> IF i <= m THEN w[i]
                                          ELSE WrittenAt(w, b, s, i)]
    <2>2. ASSUME NEW i \in 0 .. m + 1
          PROVE  x[i] = WrittenAt(x, b, s, i)
      <3>1. i # 0 => i - 1 \in 0 .. m /\ x[i - 1] = w[i - 1]
        OBVIOUS
      <3>2. WrittenAt(x, b, s, i) = WrittenAt(w, b, s, i)
        BY <3>1 DEF WrittenAt
      <3>3. i <= m => w[i] = WrittenAt(w, b, s, i)
        BY <2>1 DEF Writes
      <3> QED
        BY <3>2, <3>3
    <2>3. Writes(x, b, s, m + 1)
      <3> HIDE DEF x
      <3>1. x = [i \in 0 .. m + 1 |-> x[i]]
        BY DEF x
      <3> QED
        BY <2>2, <3>1 DEF Writes
    <2> QED
      BY <2>3
  <1>3. N = Nat
    <2> HIDE DEF N
    <2>1. N \in SUBSET Nat
      BY DEF N
    <2> QED
      BY <1>1, <1>2, <2>1, Induction
  <1> QED
    BY <1>3

LEMMA RenderType ==
    ASSUME NEW r, IsText(r.text), NEW c \in Symbol
    PROVE  IsText(Render(r, c).text)
  <1> DEFINE a == IF r.boundary THEN <<"prefix">> ELSE << >>
             d == IF c = "<" THEN "&lt;" ELSE c
             b == <<d>>
  <1>1. "prefix" \in Symbol /\ d \in Symbol
    BY DEF Symbol
  <1>2. <<"prefix">> \in Seq(Symbol) /\ << >> \in Seq(Symbol)
    BY <1>1, OneOf, EmptyText, Zenon DEF IsText
  <1>3. a \in Seq(Symbol)
    BY <1>2
  <1> HIDE DEF d
  <1>4. b \in Seq(Symbol)
    BY <1>1, OneOf
  <1>5. Render(r, c).text = Cat(Cat(r.text, a), b)
    BY DEF Render, Rendered, Cat, d
  <1> HIDE DEF a, b
  <1> QED
    BY <1>3, <1>4, <1>5, CatType DEF IsText

LEMMA WriteType ==
    ASSUME NEW b, NEW s, IsText(s)
    PROVE  IsText(Write(b, s).text)
  <1> DEFINE L == Len(s)
             w == CHOOSE w : Writes(w, b, s, L)
             N == {i \in Nat : i <= L => IsText(w[i].text)}
  <1>1. L \in Nat /\ \A i \in 1 .. L : s[i] \in Symbol
    BY TextIs
  <1>2. Write(b, s) = w[L]
    BY DEF Write, Writes, WrittenAt
  <1>3. Writes(w, b, s, L)
    BY <1>1, WritesExist
  <1> HIDE DEF w, L
  <1>4. \A i \in 0 .. L : w[i] = WrittenAt(w, b, s, i)
    BY <1>3 DEF Writes
  <1>5. 0 \in N
    <2>1. w[0].text = << >>
      BY <1>1, <1>4 DEF WrittenAt, Rendered
    <2> QED
      BY <2>1, EmptyText
  <1>6. ASSUME NEW i \in N
        PROVE  i + 1 \in N
    <2>1. i \in Nat /\ (i <= L => IsText(w[i].text))
      BY <1>6
    <2>2. CASE ~(i + 1 <= L)
      BY <2>1, <2>2
    <2>3. CASE i + 1 <= L
      <3>1. i + 1 \in 0 .. L /\ i + 1 \in 1 .. L /\ i + 1 # 0 /\ i + 1 - 1 = i
            /\ i <= L
        BY <1>1, <2>1, <2>3
      <3>2. w[i + 1] = WrittenAt(w, b, s, i + 1)
        BY <1>4, <3>1
      <3>3. w[i + 1] = Render(w[i], s[i + 1])
        BY <3>1, <3>2 DEF WrittenAt
      <3>4. IsText(w[i + 1].text)
        BY <1>1, <2>1, <3>1, <3>3, RenderType
      <3> QED
        BY <2>1, <3>4
    <2> QED
      BY <2>2, <2>3
  <1>7. N = Nat
    <2>1. N \in SUBSET Nat
      OBVIOUS
    <2> HIDE DEF N
    <2> QED
      BY <1>5, <1>6, <2>1, Induction
  <1>8. L \in N
    BY <1>1, <1>7
  <1> QED
    BY <1>1, <1>2, <1>8

LEMMA FinishLineType ==
    ASSUME NEW r, IsText(r.text)
    PROVE  IsText(FinishLine(r))
  <1>1. "newline" \in Symbol
    BY DEF Symbol
  <1>2. Append(r.text, "newline") \in Seq(Symbol)
    BY <1>1, AppendProperties DEF IsText
  <1> QED
    BY <1>2 DEF FinishLine, IsText

-----------------------------------------------------------------------------
(* The types of the accumulator *)

Marks == {None, "tick", "tilde"}

Lines == [fence : Marks, size : Nat, boundary : BOOLEAN,
          stage : {"leading", "fence", "tail"}, spaces : Nat, mark : Marks,
          length : Nat, tail : BOOLEAN]

IsCandidate(k) ==
    /\ k \in Candidates
    /\ k.stage = "after-tag" => k.name \in Kinds

Accumulators ==
    [candidate : Candidates \union {None}, active : Kinds \union {None},
     body : Seq(Symbol), done : Results \union {None}, framed : BOOLEAN,
     tags : Nat, blocks : Nat, malformed : BOOLEAN, after : BOOLEAN,
     line : Lines]

IsAccumulator(a) ==
    /\ a \in Accumulators
    /\ a.candidate # None => IsCandidate(a.candidate)
    /\ a.blocks # 0 => a.done \in Results

LEMMA LineType ==
    ASSUME NEW l \in Lines, NEW c
    PROVE  LineStep(l, c) \in Lines
  <1>1. \A fence \in Marks, size \in Nat : LineStart(fence, size) \in Lines
    BY DEF LineStart, Lines, Marks
  <1>2. LineEnd(l) \in Lines
    <2>1. /\ LineStart(l.fence, l.size) \in Lines
          /\ LineStart(l.mark, l.length) \in Lines
          /\ LineStart(None, 0) \in Lines
      <3>1. l.fence \in Marks /\ l.mark \in Marks /\ None \in Marks
        BY DEF Lines, Marks
      <3>2. l.size \in Nat /\ l.length \in Nat
        BY DEF Lines
      <3> QED
        BY <1>1, <3>1, <3>2
    <2> QED
      BY <2>1 DEF LineEnd
  <1> DEFINE k == [l EXCEPT !.boundary = FALSE]
  <1>3. k \in Lines
    BY DEF Lines
  <1>4. CASE c = "newline"
    BY <1>2, <1>4 DEF LineStep
  <1>5. CASE c # "newline" /\ l.stage = "leading"
    <2>1. [k EXCEPT !.spaces = @ + 1] \in Lines
      <3> HIDE DEF k
      <3>1. k.spaces \in Nat
        BY <1>3 DEF Lines
      <3>2. k.spaces + 1 \in Nat
        BY <3>1
      <3>3. \A x \in Nat : [k EXCEPT !.spaces = x] \in Lines
        BY <1>3 DEF Lines
      <3> QED
        BY <3>2, <3>3
    <2>2. c \in {"tick", "tilde"} =>
            [k EXCEPT !.stage = "fence", !.mark = c, !.length = 1] \in Lines
      BY <1>3 DEF Lines, Marks
    <2>3. [k EXCEPT !.stage = "tail"] \in Lines
      BY <1>3 DEF Lines
    <2> QED
      BY <1>5, <2>1, <2>2, <2>3 DEF LineStep
  <1>6. CASE c # "newline" /\ l.stage = "fence" /\ c = k.mark
    <2>1. [k EXCEPT !.length = @ + 1] \in Lines
      <3> HIDE DEF k
      <3>1. k.length \in Nat
        BY <1>3 DEF Lines
      <3>2. k.length + 1 \in Nat
        BY <3>1
      <3>3. \A x \in Nat : [k EXCEPT !.length = x] \in Lines
        BY <1>3 DEF Lines
      <3> QED
        BY <3>2, <3>3
    <2> QED
      BY <1>6, <2>1 DEF LineStep
  <1>7. CASE /\ c # "newline" /\ l.stage # "leading"
             /\ ~(l.stage = "fence" /\ c = k.mark)
    <2>1. [k EXCEPT !.stage = "tail", !.tail = @ \/ c \notin White] \in Lines
      BY <1>3 DEF Lines
    <2> QED
      BY <1>7, <2>1 DEF LineStep
  <1> QED
    BY <1>4, <1>5, <1>6, <1>7

LEMMA NewAccumulatorType == IsAccumulator(NewAccumulator)
  <1>1. LineStart(None, 0) \in Lines
    BY DEF LineStart, Lines, Marks
  <1>2. << >> \in Seq(Symbol)
    OBVIOUS
  <1> QED
    BY <1>1, <1>2 DEF NewAccumulator, IsAccumulator, Accumulators

LEMMA CandidateType ==
    ASSUME NEW a, IsAccumulator(a)
    PROVE  IsCandidate(Candidate(a))
  <1>1. <<"<">> \in Seq(Symbol)
    BY Symbols DEF IsText
  <1>2. << >> \in Seq(Symbol)
    OBVIOUS
  <1>3. a.line.boundary \in BOOLEAN /\ Fenced(a.line) \in BOOLEAN
    BY DEF IsAccumulator, Accumulators, Lines, Fenced
  <1> QED
    BY <1>1, <1>2, <1>3 DEF Candidate, IsCandidate, Candidates

LEMMA InBodyType ==
    ASSUME NEW a, IsAccumulator(a), NEW s \in Seq(Symbol)
    PROVE  InBody(a, s) \in Seq(Symbol)
  <1>1. a.body \in Seq(Symbol)
    BY DEF IsAccumulator, Accumulators
  <1>2. Cat(a.body, s) \in Seq(Symbol)
    BY <1>1, CatType
  <1> QED
    BY <1>1, <1>2 DEF InBody, Cat

\* The changes a symbol can make to an accumulator.
LEMMA Changes ==
    ASSUME NEW a, IsAccumulator(a), NEW body \in Seq(Symbol)
    PROVE  /\ IsAccumulator([a EXCEPT !.candidate = None, !.body = body])
           /\ IsAccumulator([a EXCEPT !.candidate = None, !.malformed = TRUE,
                                      !.body = body])
           /\ IsAccumulator([a EXCEPT !.body = body])
           /\ \A k : IsCandidate(k) =>
                 /\ IsAccumulator([a EXCEPT !.candidate = k])
                 /\ IsAccumulator([a EXCEPT !.candidate = k, !.body = body])
  <1>1. a \in Accumulators
    BY DEF IsAccumulator
  <1>2. ASSUME NEW g, g = [a EXCEPT !.candidate = None, !.body = body]
        PROVE  IsAccumulator(g)
    <2>1. g \in Accumulators
      BY <1>1, <1>2 DEF Accumulators
    <2>2. g.candidate = None /\ g.blocks = a.blocks /\ g.done = a.done
      BY <1>1, <1>2 DEF Accumulators
    <2> QED
      BY <2>1, <2>2 DEF IsAccumulator
  <1>3. ASSUME NEW g, g = [a EXCEPT !.candidate = None, !.malformed = TRUE,
                                    !.body = body]
        PROVE  IsAccumulator(g)
    <2>1. g \in Accumulators
      BY <1>1, <1>3 DEF Accumulators
    <2>2. g.candidate = None /\ g.blocks = a.blocks /\ g.done = a.done
      BY <1>1, <1>3 DEF Accumulators
    <2> QED
      BY <2>1, <2>2 DEF IsAccumulator
  <1>4. ASSUME NEW g, g = [a EXCEPT !.body = body]
        PROVE  IsAccumulator(g)
    <2>1. g \in Accumulators
      BY <1>1, <1>4 DEF Accumulators
    <2>2. /\ g.candidate = a.candidate /\ g.blocks = a.blocks
          /\ g.done = a.done
      BY <1>1, <1>4 DEF Accumulators
    <2> QED
      BY <2>1, <2>2 DEF IsAccumulator
  <1>5. ASSUME NEW k, IsCandidate(k), NEW g,
               \/ g = [a EXCEPT !.candidate = k]
               \/ g = [a EXCEPT !.candidate = k, !.body = body]
        PROVE  IsAccumulator(g)
    <2>1. k \in Candidates
      BY <1>5 DEF IsCandidate
    <2>2. g \in Accumulators
      BY <1>1, <1>5, <2>1 DEF Accumulators
    <2>3. g.candidate = k /\ g.blocks = a.blocks /\ g.done = a.done
      BY <1>1, <1>5 DEF Accumulators
    <2> QED
      BY <1>5, <2>2, <2>3 DEF IsAccumulator
  <1> QED
    BY <1>2, <1>3, <1>4, <1>5, Zenon

LEMMA FailType ==
    ASSUME NEW a, IsAccumulator(a), NEW k, IsCandidate(k), NEW c
    PROVE  IsAccumulator(FailCandidate(a, k, c))
  <1>1. k.read \in Seq(Symbol)
    BY DEF IsCandidate, Candidates
  <1>2. Front(k.read) \in Seq(Symbol)
    <2>1. Len(k.read) \in Nat /\ \A i \in 1 .. Len(k.read) : k.read[i] \in Symbol
      BY <1>1, TextIs DEF IsText
    <2>2. /\ 1 \in Int /\ Len(k.read) - 1 \in Int
          /\ \A i \in 1 .. Len(k.read) - 1 : k.read[i] \in Symbol
      BY <2>1
    <2>3. SubSeq(k.read, 1, Len(k.read) - 1) \in Seq(Symbol)
      BY <1>1, <2>2, SubSeqProperties
    <2> QED
      BY <2>3 DEF Front
  <1>3. /\ InBody(a, k.read) \in Seq(Symbol)
        /\ InBody(a, Front(k.read)) \in Seq(Symbol)
    BY <1>1, <1>2, InBodyType
  <1>4. IsCandidate(Candidate(a))
    BY CandidateType
  <1> QED
    BY <1>3, <1>4, Changes DEF FailCandidate

LEMMA StripType ==
    ASSUME NEW s \in Seq(Symbol)
    PROVE  Strip(s) \in Seq(Symbol)
  <1> DEFINE S == {i \in DOMAIN s : s[i] \notin White}
  <1>1. Len(s) \in Nat /\ DOMAIN s = 1 .. Len(s)
        /\ \A i \in 1 .. Len(s) : s[i] \in Symbol
    BY TextIs DEF IsText
  <1>2. CASE S = {}
    BY <1>2, EmptyText DEF Strip, IsText
  <1>3. CASE S # {}
    <2>1. S \in SUBSET Nat
      BY <1>1
    <2>2. Min(S) \in S
      BY <1>3, <2>1, MinLeast
    <2>3. Max(S) \in S
      <3> DEFINE N == {Len(s) - i : i \in S}
      <3>1. N \in SUBSET Nat /\ N # {}
        BY <1>1, <1>3
      <3>2. PICK n \in N : \A m \in N : n <= m
        BY <3>1, Least
      <3>3. PICK i \in S : n = Len(s) - i
        OBVIOUS
      <3>4. ASSUME NEW j \in S
            PROVE  j <= i
        <4>1. Len(s) - i <= Len(s) - j
          BY <3>2, <3>3
        <4> QED
          BY <1>1, <2>1, <4>1
      <3> QED
        BY <3>4 DEF Max
    <2>4. Min(S) \in 1 .. Len(s) /\ Max(S) \in 1 .. Len(s)
      BY <1>1, <2>2, <2>3
    <2> DEFINE m == Min(S)
               n == Max(S)
    <2>5. m \in 1 .. Len(s) /\ n \in 1 .. Len(s)
      BY <2>4
    <2> HIDE DEF m, n
    <2>6. m \in Int /\ n \in Int /\ \A i \in m .. n : s[i] \in Symbol
      BY <1>1, <2>5
    <2>7. SubSeq(s, m, n) \in Seq(Symbol)
      BY <2>6, SubSeqProperties
    <2> QED
      BY <1>3, <2>7 DEF Strip, m, n
  <1> QED
    BY <1>2, <1>3

LEMMA AcceptType ==
    ASSUME NEW a, IsAccumulator(a), NEW k, IsCandidate(k), k.name \in Kinds
    PROVE  IsAccumulator(AcceptExactTag(a, k))
  <1> DEFINE b == [a EXCEPT !.candidate = None, !.tags = @ + 1]
             e == << >>
  <1>1. a \in Accumulators /\ k.read \in Seq(Symbol)
    BY DEF IsAccumulator, IsCandidate, Candidates
  <1>2. /\ a.tags + 1 \in Nat /\ a.blocks + 1 \in Nat /\ a.body \in Seq(Symbol)
        /\ a.blocks \in Nat
    BY <1>1 DEF Accumulators
  <1>3. b = [a EXCEPT !.candidate = None, !.tags = a.tags + 1]
    BY <1>1 DEF Accumulators
  <1>4. \A x \in Nat :
          [a EXCEPT !.candidate = None, !.tags = x] \in Accumulators
    BY <1>1 DEF Accumulators
  <1>5. /\ b \in Accumulators /\ b.candidate = None /\ b.done = a.done
        /\ b.blocks = a.blocks
    <2>1. b \in Accumulators
      BY <1>2, <1>3, <1>4
    <2>2. b.candidate = None /\ b.done = a.done /\ b.blocks = a.blocks
      BY <1>1 DEF Accumulators
    <2> QED
      BY <2>1, <2>2
  <1>6. InBody(a, k.read) \in Seq(Symbol)
    BY <1>1, InBodyType
  <1>7. e \in Seq(Symbol)
    OBVIOUS
  <1> HIDE DEF b, e
  <1>8. CASE k.closing /\ a.active = k.name
    <2> DEFINE r == [kind |-> k.name, body |-> Strip(a.body)]
               g == [b EXCEPT !.done = r, !.blocks = a.blocks + 1,
                              !.active = None, !.body = e]
    <2>1. r \in Results
      BY <1>2, StripType DEF Results
    <2> HIDE DEF r
    <2>2. \A x \in Nat : [b EXCEPT !.done = r, !.blocks = x, !.active = None,
                                   !.body = e] \in Accumulators
      BY <1>5, <1>7, <2>1 DEF Accumulators
    <2>3. g \in Accumulators
      BY <1>2, <2>2
    <2>4. g.candidate = None /\ g.done = r
      BY <1>5 DEF Accumulators
    <2>5. AcceptExactTag(a, k) = g
      BY <1>3, <1>5, <1>8 DEF AcceptExactTag, b, e, r, Accumulators
    <2> HIDE DEF g
    <2> QED
      BY <2>1, <2>3, <2>4, <2>5 DEF IsAccumulator
  <1>9. CASE ~(k.closing /\ a.active = k.name) /\ ~k.closing /\ a.active = None
    <2> DEFINE x == k.boundary /\ ~k.fenced
               g == [b EXCEPT !.active = k.name, !.body = e, !.framed = x]
    <2>1. x \in BOOLEAN
      BY DEF IsCandidate, Candidates
    <2>2. AcceptExactTag(a, k) = g
      BY <1>9 DEF AcceptExactTag, b, e
    <2> HIDE DEF x
    <2>3. g \in Accumulators
      BY <1>5, <1>7, <2>1 DEF Accumulators
    <2>4. g.candidate = None /\ g.done = a.done /\ g.blocks = a.blocks
      BY <1>5 DEF Accumulators
    <2> HIDE DEF g
    <2> QED
      BY <2>2, <2>3, <2>4 DEF IsAccumulator
  <1>10. CASE ~(k.closing /\ a.active = k.name) /\ ~(~k.closing /\ a.active = None)
    <2> DEFINE u == InBody(a, k.read)
               g == [b EXCEPT !.body = u]
    <2>1. AcceptExactTag(a, k) = g
      BY <1>10 DEF AcceptExactTag, b
    <2>2. u \in Seq(Symbol)
      BY <1>6
    <2> HIDE DEF u
    <2>3. g \in Accumulators
      BY <1>5, <2>2 DEF Accumulators
    <2>4. g.candidate = None /\ g.done = a.done /\ g.blocks = a.blocks
      BY <1>5 DEF Accumulators
    <2> HIDE DEF g
    <2> QED
      BY <2>1, <2>3, <2>4 DEF IsAccumulator
  <1> QED
    BY <1>8, <1>9, <1>10

LEMMA ConsumeType ==
    ASSUME NEW a, IsAccumulator(a), NEW k, IsCandidate(k), NEW c \in Symbol
    PROVE  IsAccumulator(ConsumeTag(a, k, c))
  <1> DEFINE name == Append(k.name, c)
             body == InBody(a, k.read)
  <1>1. k \in Candidates /\ k.name \in Seq(Symbol) /\ k.read \in Seq(Symbol)
    BY DEF IsCandidate, Candidates
  <1>2. name \in Seq(Symbol) /\ body \in Seq(Symbol)
    BY <1>1, AppendProperties, InBodyType
  <1>3. IsAccumulator(FailCandidate(a, k, c))
    BY FailType
  <1>4. ASSUME NEW j, IsCandidate(j)
        PROVE  IsAccumulator([a EXCEPT !.candidate = j])
    BY <1>2, <1>4, Changes
  <1>5. IsAccumulator([a EXCEPT !.candidate = None, !.malformed = TRUE,
                                !.body = body])
    BY <1>2, Changes
  <1> HIDE DEF name, body
  <1>6. CASE k.stage \in {"after-open", "after-slash"}
    <2>1. IsCandidate([k EXCEPT !.exact = FALSE])
      BY <1>1, <1>6 DEF IsCandidate, Candidates
    <2>2. IsCandidate([k EXCEPT !.closing = TRUE, !.stage = "after-slash"])
      BY <1>1 DEF IsCandidate, Candidates
    <2>3. IsCandidate([k EXCEPT !.name = name, !.stage = "tag"])
      BY <1>1, <1>2 DEF IsCandidate, Candidates
    <2> QED
      BY <1>3, <1>4, <1>6, <2>1, <2>2, <2>3 DEF ConsumeTag, name
  <1>7. CASE k.stage = "tag"
    <2> DEFINE next == IF name \in Kinds THEN "after-tag" ELSE k.stage
               j == [k EXCEPT !.name = name, !.stage = next]
    <2>1. next \in {"tag", "after-tag"} /\ (next = "after-tag" => name \in Kinds)
      BY <1>7
    <2>2. j = [k EXCEPT !.name = name,
                        !.stage = IF name \in Kinds THEN "after-tag" ELSE @]
      BY <1>1 DEF Candidates
    <2> HIDE DEF next
    <2>3. j \in Candidates
      BY <1>1, <1>2, <2>1 DEF Candidates
    <2>4. j.stage = next /\ j.name = name
      BY <1>1 DEF Candidates
    <2> HIDE DEF j
    <2>5. IsCandidate(j)
      BY <2>1, <2>3, <2>4 DEF IsCandidate
    <2> QED
      BY <1>3, <1>4, <1>7, <2>2, <2>5 DEF ConsumeTag, name
  <1>8. CASE k.stage = "after-tag"
    <2>1. k.name \in Kinds
      BY <1>8 DEF IsCandidate
    <2>2. IsAccumulator(AcceptExactTag(a, k))
      BY <2>1, AcceptType
    <2> QED
      BY <1>3, <1>5, <1>8, <2>2 DEF ConsumeTag, body
  <1> QED
    BY <1>1, <1>6, <1>7, <1>8 DEF Candidates

LEMMA FeedSymbolType ==
    ASSUME NEW acc0, IsAccumulator(acc0), NEW c \in Symbol
    PROVE  IsAccumulator(FeedSymbol(acc0, c))
  <1> DEFINE late == acc0.done # None /\ acc0.active = None /\ c \notin White
             x == acc0.after \/ late
             a == [acc0 EXCEPT !.after = @ \/ late]
             k == [a.candidate EXCEPT !.read = Append(@, c)]
             b == IF a.candidate # None THEN ConsumeTag(a, k, c)
                  ELSE IF c = "<" THEN [a EXCEPT !.candidate = Candidate(a)]
                  ELSE [a EXCEPT !.body = InBody(a, <<c>>)]
             l == LineStep(b.line, c)
             z == [b EXCEPT !.line = l]
  <1>1. acc0 \in Accumulators
    BY DEF IsAccumulator
  <1>2. x \in BOOLEAN /\ a = [acc0 EXCEPT !.after = x]
    BY <1>1 DEF Accumulators
  <1> HIDE DEF x
  <1>3. IsAccumulator(a)
    <2>1. a \in Accumulators
      BY <1>1, <1>2 DEF Accumulators
    <2>2. /\ a.candidate = acc0.candidate /\ a.blocks = acc0.blocks
          /\ a.done = acc0.done
      BY <1>1 DEF Accumulators
    <2> HIDE DEF a
    <2> QED
      BY <2>1, <2>2 DEF IsAccumulator
  <1> HIDE DEF a
  <1>4. IsAccumulator(b)
    <2>1. CASE a.candidate # None
      <3>1. IsCandidate(a.candidate)
        BY <1>3, <2>1 DEF IsAccumulator
      <3> DEFINE u == a.candidate
                 v == Append(u.read, c)
      <3>2. u \in Candidates /\ u.read \in Seq(Symbol)
        BY <3>1 DEF IsCandidate, Candidates
      <3>3. v \in Seq(Symbol)
        BY <3>2, AppendProperties
      <3>4. k = [u EXCEPT !.read = v]
        BY <3>2 DEF Candidates
      <3> HIDE DEF v
      <3>5. k \in Candidates /\ k.stage = u.stage /\ k.name = u.name
        BY <3>2, <3>3, <3>4 DEF Candidates
      <3> HIDE DEF k
      <3>6. IsCandidate(k)
        BY <3>1, <3>5 DEF IsCandidate
      <3> QED
        BY <1>3, <2>1, <3>6, ConsumeType
    <2>2. CASE ~(a.candidate # None) /\ c = "<"
      BY <1>3, <2>2, CandidateType, Changes, InBodyType, EmptyText DEF IsText
    <2>3. CASE ~(a.candidate # None) /\ c # "<"
      <3>1. <<c>> \in Seq(Symbol)
        BY OneOf
      <3>2. InBody(a, <<c>>) \in Seq(Symbol)
        BY <1>3, <3>1, InBodyType
      <3> QED
        BY <1>3, <2>3, <3>2, Changes
    <2> QED
      BY <2>1, <2>2, <2>3
  <1>5. FeedSymbol(acc0, c) = z
    <2>1. b \in Accumulators
      BY <1>4 DEF IsAccumulator
    <2>2. z = [b EXCEPT !.line = LineStep(@, c)]
      BY <2>1 DEF Accumulators
    <2> QED
      BY <2>2 DEF FeedSymbol, a
  <1> HIDE DEF b
  <1>6. b \in Accumulators /\ b.line \in Lines
    BY <1>4 DEF IsAccumulator, Accumulators
  <1>7. l \in Lines
    BY <1>6, LineType
  <1> HIDE DEF l
  <1>8. z \in Accumulators
    BY <1>6, <1>7 DEF Accumulators
  <1>9. z.candidate = b.candidate /\ z.blocks = b.blocks /\ z.done = b.done
    BY <1>6 DEF Accumulators
  <1> HIDE DEF z
  <1> QED
    BY <1>4, <1>5, <1>8, <1>9 DEF IsAccumulator

\* The recursive function of Feed.
FedAt(w, a, s, i) ==
    IF i = 0 THEN a ELSE FeedSymbol(w[i - 1], s[i])

Feeds(w, a, s, m) == w = [i \in 0 .. m |-> FedAt(w, a, s, i)]

LEMMA FeedsExist ==
    ASSUME NEW a, NEW s
    PROVE  \A m \in Nat : \E w : Feeds(w, a, s, m)
  <1> DEFINE N == {m \in Nat : \E w : Feeds(w, a, s, m)}
  <1>1. 0 \in N
    <2> DEFINE w == [i \in 0 .. 0 |-> a]
    <2>1. Feeds(w, a, s, 0)
      BY DEF Feeds, FedAt
    <2> QED
      BY <2>1
  <1>2. ASSUME NEW m \in N
        PROVE  m + 1 \in N
    <2>1. PICK w : Feeds(w, a, s, m)
      OBVIOUS
    <2> DEFINE x == [i \in 0 .. m + 1 |-> IF i <= m THEN w[i]
                                          ELSE FedAt(w, a, s, i)]
    <2>2. ASSUME NEW i \in 0 .. m + 1
          PROVE  x[i] = FedAt(x, a, s, i)
      <3>1. i # 0 => i - 1 \in 0 .. m /\ x[i - 1] = w[i - 1]
        OBVIOUS
      <3>2. FedAt(x, a, s, i) = FedAt(w, a, s, i)
        BY <3>1 DEF FedAt
      <3>3. i <= m => w[i] = FedAt(w, a, s, i)
        BY <2>1 DEF Feeds
      <3> QED
        BY <3>2, <3>3
    <2>3. Feeds(x, a, s, m + 1)
      <3> HIDE DEF x
      <3>1. x = [i \in 0 .. m + 1 |-> x[i]]
        BY DEF x
      <3> QED
        BY <2>2, <3>1 DEF Feeds
    <2> QED
      BY <2>3
  <1>3. N = Nat
    <2> HIDE DEF N
    <2>1. N \in SUBSET Nat
      BY DEF N
    <2> QED
      BY <1>1, <1>2, <2>1, Induction
  <1> QED
    BY <1>3

LEMMA FeedType ==
    ASSUME NEW a, IsAccumulator(a), NEW s, IsText(s)
    PROVE  IsAccumulator(Feed(a, s))
  <1> DEFINE L == Len(s)
             w == CHOOSE w : Feeds(w, a, s, L)
             N == {i \in Nat : i <= L => IsAccumulator(w[i])}
  <1>1. L \in Nat /\ \A i \in 1 .. L : s[i] \in Symbol
    BY TextIs
  <1>2. Feed(a, s) = w[L]
    BY DEF Feed, Feeds, FedAt
  <1>3. Feeds(w, a, s, L)
    BY <1>1, FeedsExist
  <1> HIDE DEF w, L
  <1>4. \A i \in 0 .. L : w[i] = FedAt(w, a, s, i)
    BY <1>3 DEF Feeds
  <1>5. 0 \in N
    BY <1>1, <1>4 DEF FedAt
  <1>6. ASSUME NEW i \in N
        PROVE  i + 1 \in N
    <2>1. i \in Nat /\ (i <= L => IsAccumulator(w[i]))
      BY <1>6
    <2>2. CASE ~(i + 1 <= L)
      BY <2>1, <2>2
    <2>3. CASE i + 1 <= L
      <3>1. i + 1 \in 0 .. L /\ i + 1 \in 1 .. L /\ i + 1 # 0 /\ i + 1 - 1 = i
            /\ i <= L
        BY <1>1, <2>1, <2>3
      <3>2. w[i + 1] = FedAt(w, a, s, i + 1)
        BY <1>4, <3>1
      <3>3. w[i + 1] = FeedSymbol(w[i], s[i + 1])
        BY <3>1, <3>2 DEF FedAt
      <3>4. IsAccumulator(w[i + 1])
        BY <1>1, <2>1, <3>1, <3>3, FeedSymbolType
      <3> QED
        BY <2>1, <3>4
    <2> QED
      BY <2>2, <2>3
  <1>7. N = Nat
    <2>1. N \in SUBSET Nat
      OBVIOUS
    <2> HIDE DEF N
    <2> QED
      BY <1>5, <1>6, <2>1, Induction
  <1>8. L \in N
    BY <1>1, <1>7
  <1> QED
    BY <1>1, <1>2, <1>8

LEMMA JudgeType ==
    ASSUME NEW a, IsAccumulator(a)
    PROVE  /\ Judge(a).verdict # "unread"
           /\ Judge(a).verdict = "accepted" => Judge(a).marker \in Results
  <1>1. a.blocks = 1 => a.done \in Results
    BY DEF IsAccumulator
  <1> QED
    BY <1>1 DEF Judge, Verdict

LEMMA EmissionType ==
    ASSUME NEW s, IsText(s), NEW error
    PROVE  IsText(Emission(s, error))
  <1> DEFINE v == Judge(Feed(NewAccumulator, s))
             m == v.marker
             o == Open(m.kind)
             e == Append(Close(m.kind), "newline")
  <1>1. v.verdict = "accepted" => m \in Results
    BY NewAccumulatorType, FeedType, JudgeType
  <1> HIDE DEF v
  <1>2. CASE v.verdict = "accepted" /\ ~error
    <2>1. m.kind \in Kinds /\ m.body \in Seq(Symbol)
      BY <1>1, <1>2 DEF Results
    <2>2. o \in Seq(Symbol) /\ Close(m.kind) \in Seq(Symbol)
      BY <2>1, OpenIs, CloseIs DEF IsTag, IsText
    <2>3. e \in Seq(Symbol)
      <3>1. "newline" \in Symbol
        BY DEF Symbol
      <3> QED
        BY <2>2, <3>1, AppendProperties
    <2>4. Emission(s, error) = Cat(Cat(o, m.body), e)
      BY <1>2 DEF Emission, Normalized, Cat, v
    <2> HIDE DEF o, e
    <2> QED
      BY <2>1, <2>2, <2>3, <2>4, CatType DEF IsText
  <1>3. CASE (v.verdict # "accepted" \/ error) /\ Strip(s) = << >>
    BY <1>3, EmptyText DEF Emission, v
  <1>4. CASE (v.verdict # "accepted" \/ error) /\ Strip(s) # << >>
    <2>1. Emission(s, error) = FinishLine(Write(TRUE, s))
      BY <1>4 DEF Emission, v
    <2> QED
      BY <2>1, WriteType, FinishLineType
  <1> QED
    BY <1>2, <1>3, <1>4

-----------------------------------------------------------------------------
(* The session *)

\* Until a wrapper has written all, the handler has read nothing.
Untouched ==
    /\ fed = 0 /\ filter = NewFilter /\ shown = << >> /\ result = Unread

\* The relay reads the provider's diagnostics as the handler reads its text.
Relaying ==
    /\ relayed \in 0 .. Len(live)
    /\ \E v : Seen(live, relayed, hidden, v)

ShownInv ==
    /\ IsText(text) /\ IsText(errText) /\ IsText(live) /\ IsText(final)
    /\ fed \in 0 .. Len(text) /\ IsAccumulator(acc)
    /\ IF result = Unread
       THEN Seen(text, fed, filter, shown) /\ Rests(filter)
       ELSE fed = Len(text) /\ shown = Visible(text)
    /\ stage \in {"none", "relay", "emit", "ended"}
    /\ stage \in {"relay", "emit"} => Untouched
    /\ stage = "relay" => Relaying

LEMMA NewSeen ==
    ASSUME NEW t, IsText(t)
    PROVE  Seen(t, 0, NewFilter, << >>) /\ Rests(NewFilter)
  <1>1. Len(t) \in Nat /\ 1 \in 1 .. 0 + 1 /\ 1 \in 1 .. Len(t) + 1
    BY TextIs
  <1>2. /\ NewFilter.open = None /\ NewFilter.hidden = << >>
        /\ NewFilter.pending = << >>
    BY DEF NewFilter
  <1>3. << >> \in Seq(Symbol)
    OBVIOUS
  <1>4. IsFilter(NewFilter)
    BY <1>3 DEF NewFilter, IsFilter
  <1>5. Part(t, 1, 0) = << >>
    BY <1>1 DEF Part
  <1>6. Cat(<< >>, From(t)[1]) = From(t)[1]
    BY <1>1, FromIs, CatText
  <1>7. SeenAt(t, 0, NewFilter, << >>, 1)
    BY <1>1, <1>2, <1>4, <1>5, <1>6, EmptyText DEF SeenAt, Outside
  <1>8. Rests(NewFilter)
    BY <1>2, EmptyText DEF Rests, NoTag
  <1> QED
    BY <1>1, <1>7, <1>8 DEF Seen

LEMMA GivenText ==
    ASSUME NEW S, S \subseteq Seq(STRING), NEW t \in S
    PROVE  IsText(t)
  <1>1. t \in Seq(STRING) /\ STRING \subseteq Symbol
    BY DEF Symbol
  <1> QED
    BY <1>1, SeqMonotonic DEF IsText

LEMMA ShownInit == PlainInit \/ WrappedInit => ShownInv
  <1>1. CASE PlainInit
    <2>1. text \in Texts /\ errText \in ErrTexts
      BY <1>1 DEF PlainInit, Init
    <2>2. IsText(text) /\ IsText(errText)
      BY <2>1, TextsAssumption, GivenText
    <2>3. Len(text) \in Nat
      BY <2>2, TextIs
    <2>4. Seen(text, 0, NewFilter, << >>) /\ Rests(NewFilter)
      BY <2>2, NewSeen
    <2> QED
      BY <1>1, <2>2, <2>3, <2>4, EmptyText, NewAccumulatorType
      DEF PlainInit, Init, ShownInv
  <1>2. CASE WrappedInit
    <2>1. PICK o \in Outputs : live = o[1] /\ final = o[2]
      BY <1>2 DEF WrappedInit, DiagnosticsInit
    <2>2. live \in Seq(STRING) /\ final \in Seq(STRING)
      BY <2>1, OutputsAssumption
    <2>3. IsText(live) /\ IsText(final)
      BY <2>2, GivenText
    <2>4. Len(live) \in Nat
      BY <2>3, TextIs
    <2>5. /\ Seen(<< >>, 0, NewFilter, << >>) /\ Rests(NewFilter)
          /\ Seen(live, 0, NewFilter, << >>)
      BY <2>3, NewSeen, EmptyText
    <2> QED
      BY <1>2, <2>3, <2>4, <2>5, EmptyText, NewAccumulatorType
      DEF WrappedInit, DiagnosticsInit, ShownInv, Untouched, Relaying
  <1> QED
    BY <1>1, <1>2

LEMMA ReceiveShown ==
    ASSUME ShownInv, Receive, UNCHANGED wrapper,
           stage \in {"none", "ended"}
    PROVE  ShownInv'
  <1>1. PICK size \in 1 .. Len(text) - fed :
          LET chunk == SubSeq(text, fed + 1, fed + size)
              step  == FilterLoop([filter EXCEPT !.pending = @ \o chunk])
          IN  /\ fed' = fed + size
              /\ acc' = Feed(acc, chunk)
              /\ filter' = step.filter
              /\ shown' = shown \o step.out
    BY DEF Receive
  <1> DEFINE m == fed + size
             chunk == Part(text, fed + 1, m)
             step == FilterLoop([filter EXCEPT !.pending = @ \o chunk])
  <1>2. /\ fed' = m /\ acc' = Feed(acc, chunk)
        /\ filter' = step.filter /\ shown' = shown \o step.out
    BY <1>1 DEF Part
  <1>3. IsText(text) /\ fed \in 0 .. Len(text) /\ IsAccumulator(acc)
    BY DEF ShownInv
  <1>4. /\ Len(text) \in Nat /\ m \in fed .. Len(text) /\ m \in 0 .. Len(text)
        /\ fed + 1 \in 1 .. Len(text) + 1 /\ m \in (fed + 1) - 1 .. Len(text)
    BY <1>3, TextIs
  <1> HIDE DEF m
  <1>5. IsText(chunk)
    BY <1>3, <1>4, PartIs
  <1>6. IsAccumulator(acc')
    BY <1>2, <1>3, <1>5, FeedType
  <1>7. /\ text' = text /\ errText' = errText /\ result' = result
        /\ live' = live /\ final' = final /\ stage' = stage
    BY DEF Receive, wrapper
  <1>8. ASSUME result = Unread
        PROVE  Seen(text, m, step.filter, shown \o step.out) /\ Rests(step.filter)
    <2>1. Seen(text, fed, filter, shown)
      BY <1>8 DEF ShownInv
    <2> QED
      BY <1>3, <1>4, <2>1, ChunkSeen
  <1> HIDE DEF step
  <1>9. result = Unread
    <2>1. fed < Len(text)
      BY DEF Receive
    <2> QED
      BY <1>4, <2>1 DEF ShownInv
  <1> QED
    BY <1>2, <1>4, <1>6, <1>7, <1>8, <1>9 DEF ShownInv, Unread

LEMMA FinishShown ==
    ASSUME ShownInv, Finish, UNCHANGED wrapper,
           stage \in {"none", "ended"}
    PROVE  ShownInv'
  <1>1. /\ fed = Len(text) /\ result = Unread
        /\ result' = Parse(Judge(acc), Judge(Feed(NewAccumulator, errText)))
        /\ shown' = shown \o Flush(filter)
        /\ UNCHANGED <<text, errText, fed, acc, live, final, stage>>
    BY DEF Finish, wrapper
  <1>2. result' # Unread
    <2> DEFINE out == Judge(acc)
               err == Judge(Feed(NewAccumulator, errText))
    <2>1. IsAccumulator(acc) /\ IsAccumulator(Feed(NewAccumulator, errText))
      BY NewAccumulatorType, FeedType DEF ShownInv
    <2>2. out.verdict # "unread" /\ err.verdict # "unread"
      BY <2>1, JudgeType
    <2> HIDE DEF out, err
    <2>3. Parse(out, err).verdict # "unread"
      BY <2>2 DEF Parse, Verdict
    <2>4. Unread.verdict = "unread"
      BY DEF Unread, Verdict
    <2> QED
      BY <1>1, <2>3, <2>4 DEF out, err
  <1>3. shown \o Flush(filter) = Visible(text)
    <2>1. IsText(text) /\ Seen(text, Len(text), filter, shown) /\ Rests(filter)
      BY <1>1 DEF ShownInv
    <2> QED
      BY <2>1, FlushSeen
  <1> QED
    BY <1>1, <1>2, <1>3 DEF ShownInv, Unread

\* What a wrapper writes leaves the handler as it was.
LEMMA WritesText ==
    ASSUME ShownInv, stage \in {"relay", "emit"},
           UNCHANGED <<errText, fed, acc, filter, shown, result, live, final>>,
           IsText(text'), stage' \in {"relay", "emit", "ended"},
           stage' = "relay" => Relaying'
    PROVE  ShownInv'
  <1>1. fed = 0 /\ filter = NewFilter /\ shown = << >> /\ result = Unread
    BY DEF ShownInv, Untouched
  <1>2. Seen(text', 0, NewFilter, << >>) /\ Rests(NewFilter)
    BY NewSeen
  <1>3. Len(text') \in Nat
    BY TextIs
  <1> QED
    BY <1>1, <1>2, <1>3 DEF ShownInv, Untouched, Unread

\* What the relay gives to the renderer.
Relay == FilterLoop([hidden EXCEPT !.pending = @ \o NextLine])

LEMMA LineSeen ==
    ASSUME ShownInv, RelayLine, NEW v, Seen(live, relayed, hidden, v)
    PROVE  /\ relayed' \in 0 .. Len(live) /\ IsText(Relay.out)
           /\ Seen(live, relayed', hidden', v \o Relay.out) /\ Rests(hidden')
  <1> DEFINE step == FilterLoop([hidden EXCEPT !.pending = @ \o NextLine])
             ends == {i \in relayed + 1 .. Len(live) : live[i] = "newline"}
             m == IF ends = {} THEN Len(live) ELSE Min(ends)
  <1>1. /\ stage = "relay" /\ relayed < Len(live)
        /\ relayed' = relayed + Len(NextLine) /\ hidden' = step.filter
    BY DEF RelayLine
  <1>2. IsText(live) /\ relayed \in 0 .. Len(live)
    BY <1>1 DEF ShownInv, Relaying
  <1>3. Len(live) \in Nat
    BY <1>2, TextIs
  <1>4. m \in relayed + 1 .. Len(live)
    <2>1. ends \in SUBSET Nat
      BY <1>2, <1>3
    <2>2. ends # {} => Min(ends) \in ends
      BY <2>1, MinLeast
    <2> QED
      BY <1>1, <1>2, <1>3, <2>2
  <1>5. NextLine = Part(live, relayed + 1, m)
    BY DEF NextLine, Part
  <1> HIDE DEF m
  <1>6. /\ relayed + 1 \in 1 .. Len(live) + 1
        /\ m \in (relayed + 1) - 1 .. Len(live)
        /\ m \in relayed .. Len(live) /\ m \in 0 .. Len(live)
        /\ relayed + (m - (relayed + 1) + 1) = m
    BY <1>2, <1>3, <1>4
  <1>7. Len(NextLine) = m - (relayed + 1) + 1
    BY <1>2, <1>5, <1>6, PartIs
  <1>8. relayed' = m
    BY <1>1, <1>6, <1>7
  <1>9. /\ Seen(live, m, step.filter, v \o step.out) /\ IsText(step.out)
        /\ Rests(step.filter)
    BY <1>2, <1>5, <1>6, ChunkSeen
  <1>10. step = Relay
    BY DEF Relay
  <1> HIDE DEF step
  <1> QED
    BY <1>1, <1>6, <1>8, <1>9, <1>10

LEMMA RelayLineShown ==
    ASSUME ShownInv, RelayLine,
           UNCHANGED <<errText, fed, acc, filter, shown, result>>
    PROVE  ShownInv'
  <1> DEFINE r == Write(boundary, Relay.out)
  <1>1. /\ stage = "relay" /\ text' = text \o r.text
        /\ UNCHANGED <<live, final, stage>>
    BY DEF RelayLine, Relay
  <1>2. PICK v : Seen(live, relayed, hidden, v)
    BY <1>1 DEF ShownInv, Relaying
  <1>3. /\ relayed' \in 0 .. Len(live) /\ IsText(Relay.out)
        /\ Seen(live, relayed', hidden', v \o Relay.out)
    BY <1>2, LineSeen
  <1>4. IsText(r.text)
    BY <1>3, WriteType
  <1>5. IsText(text')
    BY <1>1, <1>4, CatText DEF Cat, ShownInv
  <1>6. Relaying'
    BY <1>1, <1>3 DEF Relaying
  <1> QED
    BY <1>1, <1>5, <1>6, WritesText

LEMMA FlushType ==
    ASSUME NEW f, IsFilter(f)
    PROVE  IsText(Flush(f))
  <1>1. IsText(f.hidden) /\ IsText(f.pending)
    BY DEF IsFilter, IsText
  <1>2. Flush(f) = Cat(f.hidden, f.pending)
    BY DEF Flush, Cat
  <1> QED
    BY <1>1, <1>2, CatText

LEMMA RelayEndsShown ==
    ASSUME ShownInv, RelayEnds,
           UNCHANGED <<errText, fed, acc, filter, shown, result>>
    PROVE  ShownInv'
  <1>1. /\ stage = "relay" /\ stage' = "emit"
        /\ text' = text \o FinishLine(Write(boundary, Flush(hidden)))
        /\ UNCHANGED <<live, final>>
    BY DEF RelayEnds
  <1>2. IsFilter(hidden) /\ IsText(text)
    BY <1>1 DEF ShownInv, Relaying, Seen, SeenAt
  <1>3. IsText(FinishLine(Write(boundary, Flush(hidden))))
    BY <1>2, FlushType, WriteType, FinishLineType
  <1>4. IsText(text')
    BY <1>1, <1>2, <1>3, CatText DEF Cat
  <1> QED
    BY <1>1, <1>4, WritesText

LEMMA EmitShown ==
    ASSUME ShownInv, Emit,
           UNCHANGED <<errText, fed, acc, filter, shown, result>>
    PROVE  ShownInv'
  <1>1. /\ stage = "emit" /\ stage' = "ended"
        /\ text' = text \o Emission(final, isError)
        /\ UNCHANGED <<live, final>>
    BY DEF Emit
  <1>2. IsText(text) /\ IsText(Emission(final, isError))
    BY EmissionType DEF ShownInv
  <1>3. IsText(text')
    BY <1>1, <1>2, CatText DEF Cat
  <1> QED
    BY <1>1, <1>3, WritesText

LEMMA ShownStep ==
    ShownInv /\ [WrapperStep \/ HandlerStep]_<<vars, wrapper>> => ShownInv'
  <1> SUFFICES ASSUME ShownInv, [WrapperStep \/ HandlerStep]_<<vars, wrapper>>
               PROVE  ShownInv'
    OBVIOUS
  <1>1. CASE WrapperStep
    BY <1>1, RelayLineShown, RelayEndsShown, EmitShown
    DEF WrapperStep, DiagnosticsNext
  <1>2. CASE HandlerStep
    BY <1>2, ReceiveShown, FinishShown DEF HandlerStep, Next
  <1>3. CASE UNCHANGED <<vars, wrapper>>
    BY <1>3 DEF vars, wrapper, ShownInv, Untouched, Relaying, Unread
  <1> QED
    BY <1>1, <1>2, <1>3

\* However a session's output is cut into chunks, by whichever worker it was
\* written, what its live display has shown at the end is the whole text but
\* for its complete blocks.
THEOREM ShownWhole == WrappedSpec => []ShownIsVisible
  <1>1. ShownInv => ShownIsVisible
    BY DEF ShownInv, ShownIsVisible, Ended
  <1> QED
    BY <1>1, ShownInit, ShownStep, PTL DEF WrappedSpec
=============================================================================
