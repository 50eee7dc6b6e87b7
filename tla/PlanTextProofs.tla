--------------------------- MODULE PlanTextProofs ----------------------------
(***************************************************************************)
(* PlanText for all plans: what the scans of phases.py accept, reject and  *)
(* say, compared with the plan as a whole.                                 *)
(***************************************************************************)
EXTENDS PlanText, FilterProofs

-----------------------------------------------------------------------------
(* The recursive function of Unfenced exists *)

Start(offset) ==
    [number |-> offset, fence |-> None, opened |-> 0, open |-> {}]

PassAt(f, q, offset, n) ==
    IF n = 0 THEN Start(offset) ELSE PassLine(f[n - 1], q[n])

\* f says what the loop has after each of the first m lines of q.
Passes(f, q, offset, m) == f = [n \in 0 .. m |-> PassAt(f, q, offset, n)]

LEMMA PassesAt ==
    ASSUME NEW f, NEW q, NEW offset, NEW m, Passes(f, q, offset, m),
           NEW n \in 0 .. m
    PROVE  f[n] = PassAt(f, q, offset, n)
  BY DEF Passes

LEMMA PassesExist ==
    ASSUME NEW q, NEW offset
    PROVE  \A m \in Nat : \E f : Passes(f, q, offset, m)
  <1> DEFINE N == {m \in Nat : \E f : Passes(f, q, offset, m)}
  <1>1. 0 \in N
    <2> DEFINE f == [n \in 0 .. 0 |-> Start(offset)]
    <2>1. Passes(f, q, offset, 0)
      BY DEF Passes, PassAt
    <2> QED
      BY <2>1
  <1>2. ASSUME NEW m \in N
        PROVE  m + 1 \in N
    <2>1. PICK f : Passes(f, q, offset, m)
      OBVIOUS
    <2> DEFINE g == [n \in 0 .. m + 1 |-> IF n <= m THEN f[n]
                                          ELSE PassAt(f, q, offset, n)]
    <2>2. \A n \in 0 .. m + 1 : g[n] = PassAt(g, q, offset, n)
      <3> SUFFICES ASSUME NEW n \in 0 .. m + 1
                   PROVE  g[n] = PassAt(g, q, offset, n)
        OBVIOUS
      <3>1. n # 0 => n - 1 \in 0 .. m /\ g[n - 1] = f[n - 1]
        OBVIOUS
      <3>2. PassAt(g, q, offset, n) = PassAt(f, q, offset, n)
        BY <3>1 DEF PassAt
      <3>3. n <= m => f[n] = PassAt(f, q, offset, n)
        BY <2>1 DEF Passes
      <3> QED
        BY <3>2, <3>3
    <2>3. Passes(g, q, offset, m + 1)
      <3> HIDE DEF g
      <3>1. g = [n \in 0 .. m + 1 |-> g[n]]
        BY DEF g
      <3> QED
        BY <2>2, <3>1 DEF Passes
    <2> QED
      BY <2>3
  <1>3. N = Nat
    <2> HIDE DEF N
    <2>1. N \in SUBSET Nat
      BY DEF N
    <2> QED
      BY <1>1, <1>2, <2>1, Induction
  <1> QED
    BY <1>3

LEMMA UnfencedIs ==
    ASSUME NEW q \in Seq(LineType), NEW offset
    PROVE  \E f : /\ Passes(f, q, offset, Len(q))
                  /\ Unfenced(q, offset) = f[Len(q)]
  <1> DEFINE f == CHOOSE f : Passes(f, q, offset, Len(q))
  <1>1. Passes(f, q, offset, Len(q))
    BY PassesExist
  <1>2. Unfenced(q, offset) = f[Len(q)]
    BY DEF Unfenced, Passes, PassAt, Start
  <1> QED
    BY <1>1, <1>2

-----------------------------------------------------------------------------
(* One line *)

Scans == [number : Nat, fence : LineType \union {None}, opened : Nat,
          open : SUBSET [number : Nat, line : LineType]]

LEMMA PassLineIs ==
    ASSUME NEW a \in Scans, NEW line \in LineType
    PROVE  /\ PassLine(a, line) \in Scans
           /\ PassLine(a, line).number = a.number + 1
           /\ a.fence # None =>
                 /\ PassLine(a, line).fence =
                       IF Closes(line, a.fence) THEN None ELSE a.fence
                 /\ PassLine(a, line).opened = a.opened
                 /\ PassLine(a, line).open = a.open
           /\ a.fence = None /\ line.kind = "fence" =>
                 /\ PassLine(a, line).fence = line
                 /\ PassLine(a, line).opened = a.number + 1
                 /\ PassLine(a, line).open = a.open
           /\ a.fence = None /\ line.kind # "fence" =>
                 /\ PassLine(a, line).fence = None
                 /\ PassLine(a, line).open =
                       a.open \union {At(a.number + 1, line)}
  <1> DEFINE n == a.number + 1
             b == [a EXCEPT !.number = n,
                            !.fence = IF Closes(line, a.fence) THEN None ELSE @]
             c == [a EXCEPT !.number = n, !.fence = line, !.opened = n]
             d == [a EXCEPT !.number = n,
                            !.open = @ \union {At(n, line)}]
  <1>1. PassLine(a, line) = IF a.fence # None THEN b
                            ELSE IF line.kind = "fence" THEN c ELSE d
    BY DEF PassLine
  <1>2. n \in Nat
    BY DEF Scans
  <1>3. /\ b \in Scans /\ b.number = n /\ b.opened = a.opened
        /\ b.fence = IF Closes(line, a.fence) THEN None ELSE a.fence
        /\ b.open = a.open
    BY <1>2 DEF Scans
  <1>4. /\ c \in Scans /\ c.number = n /\ c.opened = n
        /\ c.fence = line /\ c.open = a.open
    BY <1>2 DEF Scans
  <1>5. At(n, line) \in [number : Nat, line : LineType]
    BY <1>2 DEF At
  <1>6. /\ d \in Scans /\ d.number = n /\ d.fence = a.fence
        /\ d.open = a.open \union {At(n, line)}
    BY <1>5, <1>2 DEF Scans
  <1> HIDE DEF b, c, d
  <1> QED
    BY <1>1, <1>3, <1>4, <1>6

LEMMA StartIs ==
    ASSUME NEW offset \in Nat
    PROVE  Start(offset) \in Scans
  BY DEF Start, Scans

\* A fence is a line.
LEMMA LineIsNotNone == None \notin LineType
  BY AuthorsAssumption


-----------------------------------------------------------------------------
(* The scan of a whole plan *)

IsPlan == plan \in Seq(LineType)

LEMMA PlanIs ==
    ASSUME IsPlan
    PROVE  /\ Len(plan) \in Nat /\ DOMAIN plan = 1 .. Len(plan)
           /\ \A i \in 1 .. Len(plan) : plan[i] \in LineType
           /\ Fences \in SUBSET (1 .. Len(plan))
  BY DEF IsPlan, Fences

LEMMA ClosesIs ==
    ASSUME IsPlan, NEW j \in Fences, NEW k \in DOMAIN plan, k > j
    PROVE  Closes(plan[k], plan[j]) <=> k \in Enders(j)
  BY PlanIs DEF Closes, Enders, Fences

\* Does the block that j would open end by line n?
Shut(j, n) == \E k \in Enders(j) : k <= n

\* The lines a scan f of the plan opens a block at, and those it collects.
Openers(f) == {i \in Fences : f[i - 1].fence = None}
Collected(f) == {i \in DOMAIN plan : /\ plan[i].kind # "fence"
                                     /\ f[i - 1].fence = None}

Marked(S) == {At(i, plan[i]) : i \in S}

\* After line n the scan has collected the lines so far, and is inside the one
\* block that has not ended, if there is one.
ScanInv(f, n) ==
    /\ f[n] \in Scans /\ f[n].number = n
    /\ f[n].open = Marked({i \in Collected(f) : i <= n})
    /\ f[n].fence = None => \A i \in Openers(f) : i <= n => Shut(i, n)
    /\ f[n].fence # None =>
          \E j \in Openers(f) :
             /\ j <= n /\ f[n].fence = plan[j] /\ f[n].opened = j
             /\ ~Shut(j, n)
             /\ \A i \in Openers(f) : i <= n /\ i # j => Shut(i, n)

LEMMA ScanStep ==
    ASSUME IsPlan, NEW f, Passes(f, plan, 0, Len(plan)),
           NEW n \in Nat, n + 1 <= Len(plan), ScanInv(f, n)
    PROVE  ScanInv(f, n + 1)
  <1> DEFINE line == plan[n + 1]
             O == Openers(f)
             C == Collected(f)
  <1>1. line \in LineType /\ n + 1 \in DOMAIN plan
    BY PlanIs
  <1>2. f[n + 1] = PassLine(f[n], line)
    <2>1. n + 1 \in 0 .. Len(plan)
      BY PlanIs
    <2> QED
      BY <2>1, PassesAt DEF PassAt
  <1>3. f[n] \in Scans /\ f[n].number = n /\ (n + 1) - 1 = n
    BY DEF ScanInv
  <1>4. f[n + 1] \in Scans /\ f[n + 1].number = n + 1
    BY <1>1, <1>2, <1>3, PassLineIs
  <1>5. O \in SUBSET (1 .. Len(plan)) /\ C \in SUBSET (1 .. Len(plan))
    BY PlanIs DEF Openers, Collected
  <1>6. n + 1 \in O <=> f[n].fence = None /\ line.kind = "fence"
    BY <1>1, <1>3 DEF Openers, Fences
  <1>7. n + 1 \in C <=> f[n].fence = None /\ line.kind # "fence"
    BY <1>1, <1>3 DEF Collected
  <1>8. \A i \in O : Shut(i, n) => Shut(i, n + 1)
    <2>1. \A i \in O : Enders(i) \in SUBSET (1 .. Len(plan))
      BY PlanIs DEF Enders
    <2> QED
      BY <2>1 DEF Shut
  <1>9. \A i \in O : i <= n + 1 => i <= n \/ i = n + 1
    BY <1>5
  <1>10. f[n].open = Marked({i \in C : i <= n})
    BY DEF ScanInv
  <1>11. n + 1 \notin C => {i \in C : i <= n + 1} = {i \in C : i <= n}
    <2>1. \A i \in C : i <= n + 1 <=> i <= n \/ i = n + 1
      BY <1>5
    <2> QED
      BY <2>1
  <1>12. n + 1 \in C =>
            {i \in C : i <= n + 1} = {i \in C : i <= n} \union {n + 1}
    <2>1. \A i \in C : i <= n + 1 <=> i <= n \/ i = n + 1
      BY <1>5
    <2> QED
      BY <2>1
  <1>13. CASE f[n].fence # None
    <2>1. PICK j \in O : /\ j <= n /\ f[n].fence = plan[j]
                         /\ f[n].opened = j /\ ~Shut(j, n)
                         /\ \A i \in O : i <= n /\ i # j => Shut(i, n)
      BY <1>13 DEF ScanInv
    <2>2. n + 1 \notin O /\ n + 1 \notin C
      BY <1>6, <1>7, <1>13
    <2>3. /\ f[n + 1].fence = IF Closes(line, plan[j]) THEN None ELSE plan[j]
          /\ f[n + 1].opened = j /\ f[n + 1].open = f[n].open
      BY <1>1, <1>2, <1>3, <1>13, <2>1, PassLineIs
    <2>4. f[n + 1].open = Marked({i \in C : i <= n + 1})
      BY <1>10, <1>11, <2>2, <2>3
    <2>5. j \in Fences /\ n + 1 > j /\ plan[j] # None
      <3>1. j \in Fences /\ j \in 1 .. Len(plan)
        BY <1>5 DEF Openers
      <3> QED
        BY <3>1, <2>1, PlanIs, LineIsNotNone
    <2>6. Closes(line, plan[j]) <=> n + 1 \in Enders(j)
      BY <1>1, <2>5, ClosesIs
    <2>7. \A i \in O : i <= n + 1 /\ i # j => Shut(i, n + 1)
      BY <1>8, <1>9, <2>1, <2>2
    <2>8. n + 1 \in Enders(j) <=> Shut(j, n + 1)
      <3>1. Enders(j) \in SUBSET (1 .. Len(plan))
        BY PlanIs DEF Enders
      <3>2. \A k \in Enders(j) : k <= n + 1 => k <= n \/ k = n + 1
        BY <3>1
      <3> QED
        BY <2>1, <3>2 DEF Shut
    <2>9. CASE n + 1 \in Enders(j)
      <3>1. f[n + 1].fence = None
        BY <2>3, <2>6, <2>9
      <3>2. \A i \in O : i <= n + 1 => Shut(i, n + 1)
        BY <2>7, <2>8, <2>9
      <3> HIDE DEF O, C
      <3> QED
        BY <3>1, <3>2, <2>4, <1>4 DEF ScanInv, O, C
    <2>10. CASE n + 1 \notin Enders(j)
      <3>1. f[n + 1].fence = plan[j]
        BY <2>3, <2>6, <2>10
      <3>2. ~Shut(j, n + 1) /\ j <= n + 1
        BY <2>8, <2>10, <2>1, <1>5
      <3>3. \E i \in O :
               /\ i <= n + 1 /\ f[n + 1].fence = plan[i]
               /\ f[n + 1].opened = i /\ ~Shut(i, n + 1)
               /\ \A k \in O : k <= n + 1 /\ k # i => Shut(k, n + 1)
        BY <3>1, <3>2, <2>3, <2>7
      <3> QED
        BY <3>1, <3>3, <2>4, <2>5, <1>4 DEF ScanInv
    <2> QED
      BY <2>9, <2>10
  <1>14. CASE f[n].fence = None /\ line.kind = "fence"
    <2>1. n + 1 \in O /\ n + 1 \notin C
      BY <1>6, <1>7, <1>14
    <2>2. /\ f[n + 1].fence = line /\ f[n + 1].opened = n + 1
          /\ f[n + 1].open = f[n].open
      BY <1>1, <1>2, <1>3, <1>14, PassLineIs
    <2>3. f[n + 1].open = Marked({i \in C : i <= n + 1})
      BY <1>10, <1>11, <2>1, <2>2
    <2>4. ~Shut(n + 1, n + 1)
      <3>1. \A k \in Enders(n + 1) : k \in Nat /\ k > n + 1
        BY PlanIs DEF Enders
      <3> QED
        BY <3>1 DEF Shut
    <2>5. \A i \in O : i <= n + 1 /\ i # n + 1 => Shut(i, n + 1)
      BY <1>8, <1>9, <1>14 DEF ScanInv
    <2>6. \E i \in O :
             /\ i <= n + 1 /\ f[n + 1].fence = plan[i]
             /\ f[n + 1].opened = i /\ ~Shut(i, n + 1)
             /\ \A k \in O : k <= n + 1 /\ k # i => Shut(k, n + 1)
      BY <2>1, <2>2, <2>4, <2>5
    <2>7. line # None
      BY <1>1, LineIsNotNone
    <2> QED
      BY <2>2, <2>3, <2>6, <2>7, <1>4 DEF ScanInv
  <1>15. CASE f[n].fence = None /\ line.kind # "fence"
    <2>1. n + 1 \notin O /\ n + 1 \in C
      BY <1>6, <1>7, <1>15
    <2>2. /\ f[n + 1].fence = None
          /\ f[n + 1].open = f[n].open \union {At(n + 1, line)}
      BY <1>1, <1>2, <1>3, <1>15, PassLineIs
    <2>3. f[n + 1].open = Marked({i \in C : i <= n + 1})
      <3> HIDE DEF C
      <3> QED
        BY <1>10, <1>12, <2>1, <2>2 DEF Marked
    <2>4. \A i \in O : i <= n + 1 => Shut(i, n + 1)
      BY <1>8, <1>9, <1>15, <2>1 DEF ScanInv
    <2> HIDE DEF O, C
    <2> QED
      BY <2>2, <2>3, <2>4, <1>4 DEF ScanInv, O, C
  <1> QED
    BY <1>13, <1>14, <1>15

LEMMA ScanHolds ==
    ASSUME IsPlan, NEW f, Passes(f, plan, 0, Len(plan))
    PROVE  \A n \in 0 .. Len(plan) : ScanInv(f, n)
  <1> DEFINE N == {n \in Nat : n <= Len(plan) => ScanInv(f, n)}
  <1>1. 0 \in N
    <2>1. f[0] = Start(0)
      <3>1. 0 \in 0 .. Len(plan)
        BY PlanIs
      <3> QED
        BY <3>1, PassesAt DEF PassAt
    <2>2. /\ f[0] \in Scans /\ f[0].number = 0 /\ f[0].fence = None
          /\ f[0].open = {}
      BY <2>1, StartIs DEF Start
    <2>3. \A i \in Openers(f) \union Collected(f) : ~(i <= 0)
      BY PlanIs DEF Openers, Collected
    <2> QED
      BY <2>2, <2>3 DEF ScanInv, Marked
  <1>2. ASSUME NEW n \in N
        PROVE  n + 1 \in N
    <2> SUFFICES ASSUME n + 1 <= Len(plan)
                 PROVE  ScanInv(f, n + 1)
      OBVIOUS
    <2>1. n \in Nat /\ n <= Len(plan)
      BY PlanIs
    <2> QED
      BY <2>1, ScanStep
  <1>3. N = Nat
    <2> HIDE DEF N
    <2>1. N \in SUBSET Nat
      BY DEF N
    <2> QED
      BY <1>1, <1>2, <2>1, Induction
  <1> QED
    BY <1>3, PlanIs

-----------------------------------------------------------------------------
(* The scan finds the blocks *)

LEMMA EndIs ==
    ASSUME IsPlan, NEW j \in Fences
    PROVE  /\ End(j) \in Nat /\ End(j) > j /\ End(j) <= Len(plan) + 1
           /\ \A n \in 0 .. Len(plan) : End(j) <= n <=> Shut(j, n)
  <1>1. /\ j \in 1 .. Len(plan) /\ Len(plan) \in Nat
        /\ Enders(j) \in SUBSET (1 .. Len(plan))
        /\ \A k \in Enders(j) : k > j
    BY PlanIs DEF Enders
  <1>2. CASE Enders(j) = {}
    BY <1>1, <1>2 DEF End, Shut
  <1>3. CASE Enders(j) # {}
    <2>1. Enders(j) \in SUBSET Nat
      BY <1>1
    <2>2. \E k \in Enders(j) : \A l \in Enders(j) : k <= l
      BY <1>3, <2>1, Least
    <2>3. End(j) \in Enders(j) /\ \A l \in Enders(j) : End(j) <= l
      BY <1>3, <2>2 DEF End
    <2>4. \A n \in 0 .. Len(plan) : End(j) <= n <=> Shut(j, n)
      BY <2>1, <2>3 DEF Shut
    <2> QED
      BY <1>1, <2>3, <2>4
  <1> QED
    BY <1>2, <1>3

Opens(S) == \A j \in Fences : j \in S <=> \A i \in S : i < j => End(i) < j

\* Only one set of fences opens the blocks of a plan.
LEMMA OpensOnce ==
    ASSUME IsPlan, NEW S \in SUBSET Fences, NEW T \in SUBSET Fences,
           Opens(S), Opens(T)
    PROVE  S = T
  <1> DEFINE D == {j \in Fences : ~(j \in S <=> j \in T)}
  <1> SUFFICES ASSUME D # {}
               PROVE  FALSE
    OBVIOUS
  <1>1. Fences \in SUBSET Nat
    BY PlanIs
  <1>2. PICK j \in D : \A i \in D : j <= i
    <2>1. D \in SUBSET Nat
      BY <1>1
    <2> QED
      BY <2>1, Least
  <1>3. \A i \in Fences : i < j => (i \in S <=> i \in T)
    BY <1>1, <1>2
  <1>4. (\A i \in S : i < j => End(i) < j) <=>
        (\A i \in T : i < j => End(i) < j)
    BY <1>3
  <1> QED
    BY <1>2, <1>4 DEF Opens

LEMMA OpeningIs ==
    ASSUME IsPlan, NEW f, Passes(f, plan, 0, Len(plan))
    PROVE  Opening = Openers(f)
  <1> DEFINE S == Openers(f)
  <1>1. S \in SUBSET Fences
    BY DEF Openers
  <1>2. ASSUME NEW j \in Fences
        PROVE  j \in S <=> \A i \in S : i < j => End(i) < j
    <2>1. j - 1 \in 0 .. Len(plan) /\ j \in Nat
      BY PlanIs
    <2>2. ScanInv(f, j - 1)
      BY <2>1, ScanHolds
    <2>3. ASSUME NEW i \in S
          PROVE  /\ i \in Nat /\ End(i) \in Nat
                 /\ End(i) <= j - 1 <=> Shut(i, j - 1)
      <3>1. i \in Fences /\ i \in Nat
        BY <1>1, PlanIs
      <3> HIDE DEF S
      <3> QED
        BY <2>1, <3>1, EndIs
    <2>4. CASE f[j - 1].fence = None
      <3>1. j \in S
        BY <2>4 DEF Openers
      <3>2. \A i \in S : i <= j - 1 => Shut(i, j - 1)
        BY <2>2, <2>4 DEF ScanInv
      <3>3. \A i \in S : i < j => End(i) < j
        BY <2>1, <2>3, <3>2
      <3> QED
        BY <3>1, <3>3
    <2>5. CASE f[j - 1].fence # None
      <3>1. j \notin S
        BY <2>5 DEF Openers
      <3>2. \E i \in S : i <= j - 1 /\ ~Shut(i, j - 1)
        BY <2>2, <2>5 DEF ScanInv
      <3>3. \E i \in S : i < j /\ ~(End(i) < j)
        BY <2>1, <2>3, <3>2
      <3> QED
        BY <3>1, <3>3
    <2> QED
      BY <2>4, <2>5
  <1>3. Opens(S)
    BY <1>2 DEF Opens
  <1>4. Opening \in SUBSET Fences /\ Opens(Opening)
    BY <1>1, <1>3 DEF Opening, Opens
  <1> QED
    BY <1>1, <1>3, <1>4, OpensOnce

LEMMA BlocksAre ==
    /\ \A j \in Opening : \E b \in Blocks : b[1] = j /\ b[2] = End(j)
    /\ \A b \in Blocks : b[1] \in Opening /\ b[2] = End(b[1])
  <1>1. ASSUME NEW j \in Opening
        PROVE  \E b \in Blocks : b[1] = j /\ b[2] = End(j)
    <2>1. <<j, End(j)>> \in Blocks
      BY DEF Blocks
    <2> QED
      BY <2>1
  <1> QED
    BY <1>1 DEF Blocks

LEMMA ClearIs ==
    ASSUME IsPlan, NEW f, Passes(f, plan, 0, Len(plan))
    PROVE  Clear = Collected(f)
  <1>1. ASSUME NEW i \in DOMAIN plan
        PROVE  i \in Collected(f) <=> \A b \in Blocks : i < b[1] \/ i > b[2]
    <2>1. i - 1 \in 0 .. Len(plan) /\ i \in Nat
      BY PlanIs
    <2>2. ScanInv(f, i - 1)
      BY <2>1, ScanHolds
    <2> DEFINE S == Openers(f)
    <2>3. \A j \in S : /\ j \in Nat /\ End(j) \in Nat /\ End(j) > j
                       /\ End(j) <= i - 1 <=> Shut(j, i - 1)
      BY <2>1, EndIs, PlanIs DEF Openers
    <2>4. (\A b \in Blocks : i < b[1] \/ i > b[2]) <=>
          (\A j \in S : i < j \/ i > End(j))
      <3>1. Opening = S
        BY OpeningIs
      <3> HIDE DEF S
      <3> QED
        BY <3>1, BlocksAre
    <2>5. CASE f[i - 1].fence # None
      <3>1. \E j \in S : j <= i - 1 /\ ~Shut(j, i - 1)
        BY <2>2, <2>5 DEF ScanInv
      <3>2. \E j \in S : ~(i < j \/ i > End(j))
        BY <2>1, <2>3, <3>1
      <3> QED
        BY <2>4, <2>5, <3>2 DEF Collected
    <2>6. CASE f[i - 1].fence = None /\ plan[i].kind = "fence"
      <3>1. i \in S
        BY <2>6 DEF Openers, Fences
      <3>2. \E j \in S : ~(i < j \/ i > End(j))
        BY <2>1, <2>3, <3>1
      <3> QED
        BY <2>4, <2>6, <3>2 DEF Collected
    <2>7. CASE f[i - 1].fence = None /\ plan[i].kind # "fence"
      <3>1. i \notin S /\ i \in Collected(f)
        BY <2>7 DEF Openers, Fences, Collected
      <3>2. \A j \in S : j <= i - 1 => Shut(j, i - 1)
        BY <2>2, <2>7 DEF ScanInv
      <3>3. \A j \in S : i < j \/ i > End(j)
        BY <2>1, <2>3, <3>1, <3>2
      <3> QED
        BY <2>4, <3>1, <3>3
    <2> QED
      BY <2>5, <2>6, <2>7
  <1> QED
    BY <1>1 DEF Clear, Collected

Unended == {b[1] : b \in {c \in Blocks : c[2] > Len(plan)}}

\* What is needed of the scan of the whole plan.
Whole(f) ==
    /\ Passes(f, plan, 0, Len(plan))
    /\ Unfenced(plan, 0) = f[Len(plan)]
    /\ \A n \in 0 .. Len(plan) :
          /\ f[n] \in Scans /\ f[n].number = n
          /\ f[n].open = Marked({i \in Clear : i <= n})
    /\ \A i \in Clear : f[i - 1].fence = None /\ f[i].fence = None
    /\ f[Len(plan)].fence = None => Unended = {}
    /\ f[Len(plan)].fence # None => f[Len(plan)].opened \in Unended

LEMMA WholeIs ==
    ASSUME IsPlan
    PROVE  \E f : Whole(f)
  <1>1. PICK f : /\ Passes(f, plan, 0, Len(plan))
                 /\ Unfenced(plan, 0) = f[Len(plan)]
    BY UnfencedIs DEF IsPlan
  <1> DEFINE n == Len(plan)
  <1>2. \A m \in 0 .. n : ScanInv(f, m)
    BY <1>1, ScanHolds
  <1>3. \A m \in 0 .. n : /\ f[m] \in Scans /\ f[m].number = m
                          /\ f[m].open = Marked({i \in Clear : i <= m})
    BY <1>1, <1>2, ClearIs DEF ScanInv
  <1>4. ASSUME NEW i \in Clear
        PROVE  f[i - 1].fence = None /\ f[i].fence = None
    <2>1. /\ i \in 1 .. n /\ i - 1 \in 0 .. n /\ i \in 0 .. n
          /\ plan[i] \in LineType
      BY PlanIs DEF Clear
    <2>2. f[i - 1].fence = None /\ plan[i].kind # "fence"
      BY <1>1, ClearIs DEF Collected
    <2>3. f[i] = PassLine(f[i - 1], plan[i])
      BY <1>1, <2>1, PassesAt DEF PassAt
    <2>4. f[i - 1] \in Scans
      BY <1>3, <2>1
    <2> QED
      BY <2>1, <2>2, <2>3, <2>4, PassLineIs
  <1>5. Unended = {j \in Openers(f) : End(j) > n}
    <2>1. Opening = Openers(f)
      BY <1>1, OpeningIs
    <2>2. Unended = {j \in Opening : End(j) > n}
      BY BlocksAre DEF Unended
    <2> QED
      BY <2>1, <2>2
  <1>6. n \in 0 .. n /\ ScanInv(f, n)
    BY <1>2, PlanIs
  <1>7. \A j \in Openers(f) :
           /\ j \in Nat /\ j <= n /\ End(j) \in Nat
           /\ End(j) <= n <=> Shut(j, n)
    BY <1>6, EndIs, PlanIs DEF Openers
  <1>8. f[n].fence = None => Unended = {}
    BY <1>5, <1>6, <1>7 DEF ScanInv
  <1>9. f[n].fence # None => f[n].opened \in Unended
    BY <1>5, <1>6, <1>7 DEF ScanInv
  <1> QED
    BY <1>1, <1>3, <1>4, <1>8, <1>9 DEF Whole

-----------------------------------------------------------------------------
(* Sets of numbered lines *)

LEMMA MarkedIs ==
    ASSUME NEW S
    PROVE  /\ Marked(S) = {} <=> S = {}
           /\ \A K : Of(Marked(S), K) = Marked({i \in S : plan[i].kind \in K})
           /\ \A m : /\ Marked(S) \ {At(m, plan[m])} = Marked(S \ {m})
                     /\ Marked(S) = {At(m, plan[m])} <=> S = {m}
  <1>1. \A i, x : At(i, x).number = i /\ At(i, x).line = x
    BY DEF At
  <1>2. Marked(S) = {} <=> S = {}
    BY DEF Marked
  <1>3. \A K : Of(Marked(S), K) = Marked({i \in S : plan[i].kind \in K})
    BY <1>1 DEF Of, Marked
  <1>5. \A i, j : At(i, plan[i]) = At(j, plan[j]) => i = j
    BY <1>1
  <1>6. \A m : /\ Marked(S) \ {At(m, plan[m])} = Marked(S \ {m})
               /\ Marked(S) = {At(m, plan[m])} <=> S = {m}
    BY <1>5 DEF Marked
  <1> QED
    BY <1>2, <1>3, <1>6

LEMMA BelowIs ==
    ASSUME NEW S, NEW i, NEW x
    PROVE  /\ Below(Marked(S), At(i, x)) = Marked({j \in S : j > i})
           /\ Above(Marked(S), At(i, x)) = Marked({j \in S : j < i})
  <1>1. \A j, y : At(j, y).number = j
    BY DEF At
  <1> QED
    BY <1>1 DEF Below, Above, Marked

LEMMA FirstIs ==
    ASSUME NEW S \in SUBSET Nat, S # {}
    PROVE  \E m \in S : /\ First(Marked(S)) = At(m, plan[m])
                        /\ \A k \in S : m <= k
  <1>1. PICK m \in S : \A k \in S : m <= k
    BY Least
  <1>2. \A k \in S : /\ At(k, plan[k]) \in Marked(S)
                     /\ At(k, plan[k]).number = k
    BY DEF Marked, At
  <1>3. \A l \in Marked(S) : \E k \in S : l = At(k, plan[k])
    BY DEF Marked
  <1>4. \E l \in Marked(S) : \A x \in Marked(S) : l.number <= x.number
    BY <1>1, <1>2, <1>3
  <1>5. /\ First(Marked(S)) \in Marked(S)
        /\ \A x \in Marked(S) : First(Marked(S)).number <= x.number
    BY <1>4 DEF First
  <1>6. PICK k \in S : First(Marked(S)) = At(k, plan[k])
    BY <1>3, <1>5
  <1>7. \A i \in S : k <= i
    BY <1>2, <1>5, <1>6
  <1> QED
    BY <1>6, <1>7

\* A second line, and that it comes after a first.
LEMMA SecondIs ==
    ASSUME NEW S \in SUBSET Nat, S # {}, Marked(S) # {First(Marked(S))}
    PROVE  \E m \in S : /\ Second(Marked(S)) = At(m, plan[m])
                        /\ \E k \in S : k < m
  <1>1. PICK k \in S : /\ First(Marked(S)) = At(k, plan[k])
                       /\ \A i \in S : k <= i
    BY FirstIs
  <1>2. Marked(S) \ {First(Marked(S))} = Marked(S \ {k}) /\ S # {k}
    <2>1. /\ Marked(S) \ {At(k, plan[k])} = Marked(S \ {k})
          /\ Marked(S) = {At(k, plan[k])} <=> S = {k}
      BY MarkedIs
    <2> QED
      BY <1>1, <2>1
  <1>3. PICK m \in S \ {k} : First(Marked(S \ {k})) = At(m, plan[m])
    <2>1. S \ {k} \in SUBSET Nat /\ S \ {k} # {}
      BY <1>2
    <2> QED
      BY <2>1, FirstIs
  <1>4. k < m
    BY <1>1, <1>3
  <1> QED
    BY <1>2, <1>3, <1>4 DEF Second

LEMMA LatestIs ==
    ASSUME NEW n \in Nat, NEW S \in SUBSET (1 .. n), S # {}
    PROVE  \E m \in S : /\ Latest(Marked(S)) = At(m, plan[m])
                        /\ \A k \in S : k <= m
  <1> DEFINE T == {n - k : k \in S}
  <1>1. PICK t \in T : \A u \in T : t <= u
    <2>1. T \in SUBSET Nat /\ T # {}
      <3>1. \A k \in S : n - k \in Nat
        OBVIOUS
      <3> QED
        BY <3>1
    <2> HIDE DEF T
    <2> QED
      BY <2>1, Least
  <1>2. PICK m \in S : \A k \in S : k <= m
    BY <1>1
  <1>3. \A k \in S : /\ At(k, plan[k]) \in Marked(S)
                     /\ At(k, plan[k]).number = k
    BY DEF Marked, At
  <1>4. \A l \in Marked(S) : \E k \in S : l = At(k, plan[k])
    BY DEF Marked
  <1>5. \E l \in Marked(S) : \A x \in Marked(S) : x.number <= l.number
    BY <1>2, <1>3, <1>4
  <1>6. /\ Latest(Marked(S)) \in Marked(S)
        /\ \A x \in Marked(S) : x.number <= Latest(Marked(S)).number
    BY <1>5 DEF Latest
  <1>7. PICK k \in S : Latest(Marked(S)) = At(k, plan[k])
    BY <1>4, <1>6
  <1>8. \A i \in S : i <= k
    BY <1>3, <1>6, <1>7
  <1> QED
    BY <1>7, <1>8

-----------------------------------------------------------------------------
(* The scan of a body sees what the scan of the plan sees there *)

LEMMA LinesAre ==
    ASSUME IsPlan
    PROVE  /\ Clear \in SUBSET (1 .. Len(plan)) /\ PhaseLines \in SUBSET Clear
           /\ \A K : Outside(K) \in SUBSET (1 .. Len(plan))
           /\ \A i : Extent(i) \in SUBSET (1 .. Len(plan))
  BY PlanIs DEF Clear, PhaseLines, Outside, Extent, Until

LEMMA EndLineIs ==
    ASSUME IsPlan, NEW h \in PhaseLines
    PROVE  \E e \in h .. Len(plan) :
              /\ EndLine(plan, Marked(PhaseLines), At(h, plan[h])) = e
              /\ Extent(h) = h + 1 .. e
              /\ e = Len(plan) \/ e + 1 \in PhaseLines
  <1> DEFINE n == Len(plan)
             later == {k \in PhaseLines : k > h}
  <1>1. n \in Nat /\ PhaseLines \in SUBSET (1 .. n) /\ h \in 1 .. n
    BY PlanIs, LinesAre
  <1>2. Below(Marked(PhaseLines), At(h, plan[h])) = Marked(later)
    BY BelowIs
  <1>3. Extent(h) = {j \in 1 .. n : j > h /\ \A k \in later : j < k}
    BY PlanIs DEF Extent, Until
  <1>4. CASE later = {}
    <2>1. Extent(h) = h + 1 .. n
      BY <1>1, <1>3, <1>4
    <2>2. Marked(later) = {}
      BY <1>4, MarkedIs
    <2>3. EndLine(plan, Marked(PhaseLines), At(h, plan[h])) = n
      BY <1>2, <2>2 DEF EndLine
    <2> QED
      BY <1>1, <2>1, <2>3
  <1>5. CASE later # {}
    <2>1. Marked(later) # {}
      BY <1>5, MarkedIs
    <2>2. PICK m \in later : /\ First(Marked(later)) = At(m, plan[m])
                             /\ \A k \in later : m <= k
      <3>1. later \in SUBSET Nat
        <4>1. PhaseLines \in SUBSET Nat
          BY <1>1
        <4> QED
          BY <4>1
      <3> QED
        BY <1>5, <3>1, FirstIs
    <2>3. EndLine(plan, Marked(PhaseLines), At(h, plan[h])) = m - 1
      BY <1>2, <2>1, <2>2 DEF EndLine, At
    <2>4. m \in PhaseLines /\ m > h /\ m \in 1 .. n
      BY <1>1, <2>2
    <2>5. Extent(h) = h + 1 .. m - 1
      BY <1>1, <1>3, <2>2, <2>4
    <2>6. m - 1 \in h .. n /\ (m - 1) + 1 = m
      BY <1>1, <2>4
    <2> QED
      BY <2>3, <2>4, <2>5, <2>6
  <1> QED
    BY <1>4, <1>5

\* The two scans at the same line.
Alike(f, g, h, m) ==
    /\ g[m] \in Scans /\ g[m].number = h + m
    /\ g[m].fence = f[h + m].fence
    /\ g[m].open = Marked({i \in Clear : h < i /\ i <= h + m})

LEMMA BodyStep ==
    ASSUME IsPlan, NEW f, Whole(f), NEW h \in Clear, NEW k \in Nat,
           h + k <= Len(plan), NEW body \in Seq(LineType),
           \A i \in 1 .. k : body[i] = plan[h + i],
           NEW g, Passes(g, body, h, k),
           NEW m \in Nat, m + 1 <= k, Alike(f, g, h, m)
    PROVE  Alike(f, g, h, m + 1)
  <1> DEFINE n == h + m
             line == plan[n + 1]
  <1>1. /\ h \in 1 .. Len(plan) /\ Clear \in SUBSET (1 .. Len(plan))
        /\ Len(plan) \in Nat
    BY PlanIs, LinesAre
  <1>2. /\ n \in 0 .. Len(plan) /\ n + 1 \in 0 .. Len(plan)
        /\ n + 1 \in DOMAIN plan /\ h + (m + 1) = n + 1 /\ (n + 1) - 1 = n
    BY <1>1, PlanIs
  <1>3. line \in LineType /\ body[m + 1] = line
    <2>1. m + 1 \in 1 .. k
      OBVIOUS
    <2>2. body[m + 1] = plan[h + (m + 1)]
      BY <2>1
    <2> QED
      BY <1>2, <2>2, PlanIs
  <1>4. g[m + 1] = PassLine(g[m], line)
    <2>1. m + 1 \in 0 .. k /\ (m + 1) - 1 = m /\ m + 1 # 0
      OBVIOUS
    <2>2. g[m + 1] = PassAt(g, body, h, m + 1)
      BY <2>1, PassesAt
    <2> QED
      BY <1>3, <2>1, <2>2 DEF PassAt
  <1>5. f[n + 1] = PassLine(f[n], line)
    <2>1. f[n + 1] = PassAt(f, plan, 0, n + 1)
      BY <1>2, PassesAt DEF Whole
    <2>2. n + 1 # 0
      BY <1>2
    <2> QED
      BY <1>2, <2>1, <2>2 DEF PassAt
  <1>6. /\ f[n] \in Scans /\ g[m] \in Scans /\ g[m].number = n
        /\ g[m].fence = f[n].fence
        /\ g[m].open = Marked({i \in Clear : h < i /\ i <= n})
    BY <1>2 DEF Whole, Alike
  <1>7. n + 1 \in Clear <=> g[m].fence = None /\ line.kind # "fence"
    BY <1>2, <1>6, ClearIs DEF Whole, Collected
  <1>8. /\ g[m + 1] \in Scans /\ g[m + 1].number = n + 1
        /\ g[m + 1].fence = f[n + 1].fence
    <2> HIDE DEF n, line
    <2>1. ASSUME NEW a \in Scans
          PROVE  /\ PassLine(a, line) \in Scans
                 /\ PassLine(a, line).number = a.number + 1
                 /\ PassLine(a, line).fence =
                       IF a.fence # None
                       THEN IF Closes(line, a.fence) THEN None ELSE a.fence
                       ELSE IF line.kind = "fence" THEN line ELSE None
      BY <1>3, PassLineIs
    <2> QED
      BY <1>4, <1>5, <1>6, <2>1
  <1>9. g[m + 1].open = IF n + 1 \in Clear
                        THEN g[m].open \union {At(n + 1, line)}
                        ELSE g[m].open
    <2> HIDE DEF n, line
    <2>1. /\ g[m].fence # None => PassLine(g[m], line).open = g[m].open
          /\ g[m].fence = None /\ line.kind = "fence" =>
                PassLine(g[m], line).open = g[m].open
          /\ g[m].fence = None /\ line.kind # "fence" =>
                PassLine(g[m], line).open =
                   g[m].open \union {At(g[m].number + 1, line)}
      BY <1>3, <1>6, PassLineIs
    <2> QED
      BY <1>4, <1>6, <1>7, <2>1
  <1>10. {i \in Clear : h < i /\ i <= n + 1} =
            IF n + 1 \in Clear
            THEN {i \in Clear : h < i /\ i <= n} \union {n + 1}
            ELSE {i \in Clear : h < i /\ i <= n}
    <2>1. \A i \in Clear : i <= n + 1 <=> i <= n \/ i = n + 1
      BY <1>1
    <2>2. h < n + 1
      BY <1>1
    <2> QED
      BY <2>1, <2>2
  <1>11. g[m + 1].open = Marked({i \in Clear : h < i /\ i <= n + 1})
    BY <1>6, <1>9, <1>10 DEF Marked
  <1> HIDE DEF n
  <1> QED
    BY <1>2, <1>8, <1>11 DEF Alike

LEMMA BodyIs ==
    ASSUME IsPlan, NEW f, Whole(f), f[Len(plan)].fence = None,
           NEW h \in PhaseLines
    PROVE  LET hd == At(h, plan[h])
               u == Unfenced(Body(plan, Marked(PhaseLines), hd), Offset(hd))
           IN  u.fence = None /\ u.open = Marked(Clear \intersect Extent(h))
  <1> DEFINE hd == At(h, plan[h])
             body == Body(plan, Marked(PhaseLines), hd)
  <1>1. PICK e \in h .. Len(plan) :
            /\ EndLine(plan, Marked(PhaseLines), hd) = e
            /\ Extent(h) = h + 1 .. e
            /\ e = Len(plan) \/ e + 1 \in PhaseLines
    BY EndLineIs
  <1>2. /\ h \in Clear /\ h \in 1 .. Len(plan) /\ Len(plan) \in Nat
        /\ Clear \in SUBSET (1 .. Len(plan)) /\ PhaseLines \in SUBSET Clear
    BY PlanIs, LinesAre
  <1> DEFINE k == e - h
  <1>3. /\ hd.number = h /\ Offset(hd) = h /\ body = SubSeq(plan, h + 1, e)
    BY <1>1 DEF At, Offset, Body
  <1>4. /\ body \in Seq(LineType) /\ Len(body) = k /\ k \in Nat
        /\ \A i \in 1 .. k : body[i] = plan[h + i]
    <2>1. plan \in Seq(LineType) /\ h + 1 \in 1 .. Len(plan) + 1
          /\ e \in h .. Len(plan)
      BY <1>2 DEF IsPlan
    <2> HIDE DEF body
    <2>2. \A i \in (h + 1) .. e : i \in 1 .. Len(plan)
      BY <1>2
    <2>3. /\ SubSeq(plan, h + 1, e) \in Seq(LineType)
          /\ Len(SubSeq(plan, h + 1, e)) =
                IF h + 1 <= e THEN e - (h + 1) + 1 ELSE 0
          /\ \A i \in 1 .. e - (h + 1) + 1 :
                SubSeq(plan, h + 1, e)[i] = plan[h + 1 + i - 1]
      BY <2>1, <2>2, SubSeqProperties
    <2>4. k \in Nat /\ e - (h + 1) + 1 = k
      BY <1>2
    <2>5. h + 1 <= e <=> k # 0
      BY <1>2
    <2>6. Len(body) = k
      BY <1>3, <2>3, <2>4, <2>5
    <2>7. ASSUME NEW i \in 1 .. k
          PROVE  body[i] = plan[h + i]
      <3>1. body[i] = plan[h + 1 + i - 1]
        BY <1>3, <2>3, <2>4
      <3>2. h + 1 + i - 1 = h + i
        BY <1>2, <2>4
      <3> QED
        BY <3>1, <3>2
    <2> QED
      BY <1>3, <2>3, <2>4, <2>6, <2>7
  <1> HIDE DEF body, hd
  <1>5. PICK g : Passes(g, body, h, k) /\ Unfenced(body, h) = g[k]
    BY <1>4, UnfencedIs
  <1> DEFINE N == {m \in Nat : m <= k => Alike(f, g, h, m)}
  <1>6. 0 \in N
    <2>1. 0 \in 0 .. k /\ h + 0 = h
      BY <1>2, <1>4
    <2>2. g[0] = Start(h)
      BY <1>5, <2>1, PassesAt DEF PassAt
    <2>3. f[h].fence = None
      BY <1>2 DEF Whole
    <2>4. \A i \in Clear : ~(h < i /\ i <= h)
      BY <1>2
    <2>5. /\ g[0] \in Scans /\ g[0].number = h /\ g[0].fence = None
          /\ g[0].open = {}
      BY <1>2, <2>2, StartIs DEF Start
    <2>6. Marked({i \in Clear : h < i /\ i <= h}) = {}
      BY <2>4, MarkedIs
    <2> QED
      BY <2>1, <2>3, <2>5, <2>6 DEF Alike
  <1>7. ASSUME NEW m \in N
        PROVE  m + 1 \in N
    <2> SUFFICES ASSUME m + 1 <= k
                 PROVE  Alike(f, g, h, m + 1)
      OBVIOUS
    <2>1. m \in Nat /\ m <= k /\ h + k <= Len(plan)
      BY <1>1, <1>2, <1>4
    <2> QED
      BY <1>2, <1>4, <1>5, <2>1, BodyStep
  <1>8. N = Nat
    <2> HIDE DEF N
    <2>1. N \in SUBSET Nat
      BY DEF N
    <2> QED
      BY <1>6, <1>7, <2>1, Induction
  <1>9. Alike(f, g, h, k) /\ h + k = e
    BY <1>2, <1>4, <1>8
  <1>10. f[e].fence = None
    <2>1. CASE e = Len(plan)
      BY <2>1
    <2>2. CASE e + 1 \in PhaseLines
      <3>1. e + 1 \in Clear /\ (e + 1) - 1 = e
        BY <1>2, <2>2
      <3> QED
        BY <3>1 DEF Whole
    <2> QED
      BY <1>1, <2>1, <2>2
  <1>11. {i \in Clear : h < i /\ i <= e} = Clear \intersect Extent(h)
    <2>1. \A i \in Clear : h < i /\ i <= e <=> i \in h + 1 .. e
      BY <1>2
    <2> QED
      BY <1>1, <2>1
  <1> QED
    BY <1>3, <1>5, <1>9, <1>10, <1>11 DEF Alike, body, hd

-----------------------------------------------------------------------------
(* The workspace of one phase *)

NothingGarbled == \A i \in DOMAIN plan : plan[i].kind # "garbled"

LEMMA SectionIs ==
    ASSUME IsPlan, NothingGarbled, NEW h \in PhaseLines, NEW w \in Extent(h)
    PROVE  Section(Marked(Clear \intersect Extent(h)), At(w, plan[w])) =
              Marked(Declares(w))
  <1> DEFINE B == {j \in Clear \intersect Extent(h) : j > w}
             T == {j \in B : plan[j].kind \in HeadingKinds}
             C == {j \in B : plan[j].kind # "blank" /\ \A k \in T : j < k}
  <1>1. /\ Clear \in SUBSET (1 .. Len(plan)) /\ PhaseLines \in SUBSET Clear
        /\ Len(plan) \in Nat /\ DOMAIN plan = 1 .. Len(plan)
        /\ \A i \in 1 .. Len(plan) : plan[i] \in LineType
    BY PlanIs, LinesAre
  <1>2. Below(Marked(Clear \intersect Extent(h)), At(w, plan[w])) = Marked(B)
    BY BelowIs
  <1>3. Of(Marked(B), HeadingKinds) = Marked(T)
    <2> HIDE DEF B
    <2> QED
      BY MarkedIs
  <1>4. Section(Marked(Clear \intersect Extent(h)), At(w, plan[w])) = Marked(C)
    <2> HIDE DEF B, T
    <2>1. \A j : At(j, plan[j]).number = j /\ At(j, plan[j]).line = plan[j]
      BY DEF At
    <2>2. Section(Marked(Clear \intersect Extent(h)), At(w, plan[w])) =
             {l \in Marked(B) : /\ l.line.kind # "blank"
                                /\ \A m \in Marked(T) : l.number < m.number}
      BY <1>2, <1>3 DEF Section
    <2> QED
      BY <2>1, <2>2 DEF Marked
  <1> DEFINE titles == {k \in Clear : plan[k].kind \in HeadingKinds}
  <1>5. Declares(w) =
           {j \in Clear : /\ plan[j].kind \in {"relative", "absolute"}
                          /\ j > w
                          /\ \A k \in titles : k > w => j < k}
    BY <1>1 DEF Declares, Outside, Until, HeadingKinds
  <1>6. Extent(h) = {j \in 1 .. Len(plan) :
                        j > h /\ \A k \in PhaseLines : k > h => j < k}
    BY <1>1 DEF Extent, Until
  <1>7. PhaseLines \in SUBSET titles
    BY DEF PhaseLines, Outside, HeadingKinds
  <1>8. w \in Nat /\ h \in Nat /\ w > h /\ \A k \in PhaseLines : k > h => w < k
    BY <1>1, <1>6
  <1>9. ASSUME NEW j \in Declares(w)
        PROVE  j \in C
    <2>1. j \in Clear /\ j > w /\ j \in Nat
      BY <1>1, <1>5
    <2>2. ASSUME NEW k \in PhaseLines, k > h
          PROVE  j < k
      <3>1. w < k /\ k \in titles
        BY <1>7, <1>8, <2>2
      <3> QED
        BY <1>5, <3>1
    <2>3. j \in Extent(h)
      BY <1>1, <1>6, <1>8, <2>1, <2>2
    <2>4. \A k \in T : j < k
      BY <1>5
    <2> QED
      BY <1>5, <2>1, <2>3, <2>4
  <1>10. ASSUME NEW j \in C
         PROVE  j \in Declares(w)
    <2>1. j \in Clear /\ j > w /\ j \in Extent(h) /\ plan[j].kind # "blank"
          /\ j \in Nat /\ plan[j] \in LineType
      BY <1>1
    <2>2. plan[j].kind \notin HeadingKinds
      <3> SUFFICES ASSUME plan[j].kind \in HeadingKinds
                   PROVE  FALSE
        OBVIOUS
      <3>1. j \in T
        BY <2>1
      <3>2. j < j
        BY <3>1
      <3> QED
        BY <2>1, <3>2
    <2>3. plan[j].kind # "fence"
      <3>1. PICK f : Whole(f)
        BY WholeIs
      <3> QED
        BY <2>1, <3>1, ClearIs DEF Whole, Collected
    <2>4. plan[j].kind \in {"relative", "absolute"}
      BY <1>1, <2>1, <2>2, <2>3
         DEF LineType, LineKinds, HeadingKinds, NothingGarbled
    <2>5. ASSUME NEW k \in titles, k > w
          PROVE  j < k
      <3>1. CASE k \in Extent(h)
        <4>1. k \in T
          BY <2>5, <3>1
        <4> QED
          BY <4>1
      <3>2. CASE k \notin Extent(h)
        <4>1. k \in 1 .. Len(plan) /\ k > h
          BY <1>1, <1>8, <2>5
        <4>2. PICK p \in PhaseLines : p > h /\ ~(k < p)
          BY <1>6, <3>2, <4>1
        <4>3. j < p /\ p \in Nat
          BY <1>1, <1>6, <2>1, <4>2
        <4> QED
          BY <2>1, <4>1, <4>2, <4>3
      <3> QED
        BY <3>1, <3>2
    <2> QED
      BY <1>5, <2>1, <2>4, <2>5
  <1>11. C = Declares(w)
    BY <1>9, <1>10
  <1> QED
    BY <1>4, <1>11

\* The clause of WellFormed about one phase.
Placed(h) ==
    /\ Extent(h) \intersect Outside({"workspaceish"}) = {}
    /\ \E w \in Extent(h) :
          /\ Extent(h) \intersect Outside({"workspace"}) = {w}
          /\ \E d \in DOMAIN plan : /\ Declares(w) = {d}
                                    /\ plan[d].kind = "relative"

LEMMA ErrorIs ==
    ASSUME NEW what, NEW line
    PROVE  /\ Error(what, line).error = what /\ Error(what, line).line = line
  BY DEF Error

LEMMA NotNone ==
    None \notin {"garbled", "unclosed", "no phases", "not positive",
                 "duplicate number", "not increasing", "not exact", "missing",
                 "twice", "empty", "many lines", "absolute"}
  BY AuthorsAssumption

LEMMA AtIs ==
    ASSUME NEW i, NEW x
    PROVE  At(i, x).number = i /\ At(i, x).line = x
  BY DEF At

LEMMA WorkspaceSays ==
    ASSUME IsPlan, NothingGarbled, NEW f, Whole(f), f[Len(plan)].fence = None,
           NEW h \in PhaseLines
    PROVE  LET hd == At(h, plan[h])
               p == Workspace(Body(plan, Marked(PhaseLines), hd), hd)
           IN  /\ p.error = None <=> Placed(h)
               /\ p.error = None =>
                     \E w \in Extent(h) \intersect Outside({"workspace"}) :
                        Declares(w) = {p.line}
               /\ p.error # None => p.line \in Culprits(p.error)
  <1> DEFINE hd == At(h, plan[h])
             p == Workspace(Body(plan, Marked(PhaseLines), hd), hd)
             E == Clear \intersect Extent(h)
             W == Extent(h) \intersect Outside({"workspaceish"})
             R == Extent(h) \intersect Outside({"workspace"})
             content == Section(Marked(E), First(Marked(R)))
  <1>1. /\ Of(Marked(E), {"workspaceish"}) = Marked(W)
        /\ Of(Marked(E), {"workspace"}) = Marked(R)
    <2>1. \A K : Of(Marked(E), K) = Marked({i \in E : plan[i].kind \in K})
      <3> HIDE DEF E
      <3> QED
        BY MarkedIs
    <2>2. \A K : {i \in E : plan[i].kind \in K} =
                    Extent(h) \intersect Outside(K)
      BY DEF Outside
    <2> QED
      BY <2>1, <2>2
  <1>2. p = IF Marked(W) # {} THEN Error("not exact", First(Marked(W)).number)
            ELSE IF Marked(R) = {} THEN Error("missing", h)
            ELSE IF Marked(R) # {First(Marked(R))}
            THEN Error("twice", Second(Marked(R)).number)
            ELSE IF content = {} THEN Error("empty", First(Marked(R)).number)
            ELSE IF content # {First(content)}
            THEN Error("many lines", Second(content).number)
            ELSE IF First(content).line.kind = "absolute"
            THEN Error("absolute", First(content).number)
            ELSE Error(None, First(content).number)
    <2> DEFINE u == Unfenced(Body(plan, Marked(PhaseLines), hd), Offset(hd))
    <2>1. u.fence = None /\ u.open = Marked(E)
      BY BodyIs
    <2>2. hd.number = h
      BY DEF At
    <2> HIDE DEF hd, W, R, E
    <2> QED
      BY <1>1, <2>1, <2>2 DEF Workspace
  <1> HIDE DEF p, hd
  <1>3. /\ W \in SUBSET Nat /\ R \in SUBSET Nat /\ R \in SUBSET (1 .. Len(plan))
        /\ h \in Nat /\ DOMAIN plan = 1 .. Len(plan)
        /\ \A w : Declares(w) \in SUBSET (1 .. Len(plan))
        /\ \A w : Declares(w) \in SUBSET Nat
    <2>1. \A w : Declares(w) \in SUBSET (1 .. Len(plan))
      BY LinesAre DEF Declares
    <2> QED
      BY <2>1, PlanIs, LinesAre
  <1>4. \A i, x : At(i, x).number = i /\ At(i, x).line = x
    BY DEF At
  <1>5. Placed(h) <=> /\ W = {}
                      /\ \E w \in R : /\ R = {w}
                                      /\ \E d \in DOMAIN plan :
                                            /\ Declares(w) = {d}
                                            /\ plan[d].kind = "relative"
    BY DEF Placed
  <1> DEFINE Done == /\ p.error = None <=> Placed(h)
                     /\ p.error = None => \E w \in R : Declares(w) = {p.line}
                     /\ p.error # None => p.line \in Culprits(p.error)
  <1>6. CASE W # {}
    <2>1. Marked(W) # {}
      BY <1>6, MarkedIs
    <2>2. PICK m \in W : First(Marked(W)) = At(m, plan[m])
      BY <1>3, <1>6, FirstIs
    <2>3. p.error = "not exact" /\ p.line = m
      <3>1. First(Marked(W)).number = m
        BY <2>2, AtIs
      <3>2. p = Error("not exact", m)
        BY <1>2, <2>1, <3>1
      <3> QED
        BY <3>2, ErrorIs
    <2>4. m \in Culprits("not exact")
      BY DEF Culprits
    <2> HIDE DEF W, R
    <2>5. Done
      BY <1>5, <1>6, <2>3, <2>4, NotNone
    <2> QED
      BY <2>5 DEF p, hd, R
  <1>7. CASE W = {} /\ R = {}
    <2>1. Marked(W) = {} /\ Marked(R) = {}
      BY <1>7, MarkedIs
    <2>2. p.error = "missing" /\ p.line = h
      BY <1>2, <2>1, ErrorIs
    <2>3. h \in Culprits("missing")
      BY <1>7 DEF Culprits
    <2> HIDE DEF W, R
    <2>4. Done
      BY <1>5, <1>7, <2>2, <2>3, NotNone
    <2> QED
      BY <2>4 DEF p, hd, R
  <1>8. ASSUME W = {}, R # {}
        PROVE  /\ Marked(W) = {} /\ Marked(R) # {}
               /\ \E w \in R : /\ First(Marked(R)) = At(w, plan[w])
                               /\ content = Marked(Declares(w))
    <2>1. Marked(W) = {} /\ Marked(R) # {}
      BY <1>8, MarkedIs
    <2>2. PICK w \in R : First(Marked(R)) = At(w, plan[w])
      BY <1>3, <1>8, FirstIs
    <2>3. w \in Extent(h)
      OBVIOUS
    <2>4. content = Marked(Declares(w))
      BY <2>2, <2>3, SectionIs
    <2> QED
      BY <2>1, <2>2, <2>4
  <1>9. CASE W = {} /\ R # {} /\ Marked(R) # {First(Marked(R))}
    <2>1. PICK m \in R : /\ Second(Marked(R)) = At(m, plan[m])
                         /\ \E k \in R : k < m
      BY <1>3, <1>9, SecondIs
    <2>2. p.error = "twice" /\ p.line = m
      <3>1. Second(Marked(R)).number = m
        BY <2>1, AtIs
      <3>2. p = Error("twice", m)
        BY <1>2, <1>8, <1>9, <3>1
      <3> QED
        BY <3>2, ErrorIs
    <2>3. m \in Culprits("twice")
      BY <2>1 DEF Culprits
    <2>4. ~(\E w \in R : R = {w})
      BY <1>3, <2>1
    <2> HIDE DEF W, R
    <2>5. Done
      BY <1>5, <2>2, <2>3, <2>4, NotNone
    <2> QED
      BY <2>5 DEF p, hd, R
  <1>10. CASE W = {} /\ R # {} /\ Marked(R) = {First(Marked(R))}
    <2>1. PICK w \in R : /\ First(Marked(R)) = At(w, plan[w])
                         /\ content = Marked(Declares(w))
      BY <1>8, <1>10
    <2>2. R = {w}
      <3>1. Marked(R) = {At(w, plan[w])} <=> R = {w}
        BY MarkedIs
      <3> QED
        BY <1>10, <2>1, <3>1
    <2>3. w \in Outside({"workspace"}) /\ w \in Extent(h)
      OBVIOUS
    <2> DEFINE D == Declares(w)
    <2>4. D \in SUBSET Nat /\ D \in SUBSET DOMAIN plan
      BY <1>3
    <2>5. p = IF Marked(D) = {} THEN Error("empty", w)
              ELSE IF Marked(D) # {First(Marked(D))}
              THEN Error("many lines", Second(Marked(D)).number)
              ELSE IF First(Marked(D)).line.kind = "absolute"
              THEN Error("absolute", First(Marked(D)).number)
              ELSE Error(None, First(Marked(D)).number)
      BY <1>2, <1>4, <1>8, <1>10, <2>1
    <2>6. Placed(h) <=> \E d \in DOMAIN plan :
                           D = {d} /\ plan[d].kind = "relative"
      BY <1>5, <1>10, <2>2
    <2> HIDE DEF content
    <2>7. CASE D = {}
      <3>1. Marked(D) = {}
        BY <2>7, MarkedIs
      <3>2. p.error = "empty" /\ p.line = w
        BY <2>5, <3>1, ErrorIs
      <3>3. w \in Culprits("empty")
        BY <2>3, <2>7 DEF Culprits
      <3>4. Done
        BY <2>6, <2>7, <3>2, <3>3, NotNone
      <3> QED
        BY <3>4 DEF p, hd
    <2>8. CASE D # {} /\ Marked(D) # {First(Marked(D))}
      <3>1. PICK m \in D : /\ Second(Marked(D)) = At(m, plan[m])
                           /\ \E k \in D : k < m
        BY <2>4, <2>8, SecondIs
      <3>2. Marked(D) # {}
        BY <2>8, MarkedIs
      <3>3. p.error = "many lines" /\ p.line = m
        <4>1. Second(Marked(D)).number = m
          BY <3>1, AtIs
        <4>2. p = Error("many lines", m)
          BY <2>5, <2>8, <3>2, <4>1
        <4> QED
          BY <4>2, ErrorIs
      <3>4. m \in Culprits("many lines")
        BY <2>3, <3>1 DEF Culprits
      <3>5. ~(\E d : D = {d})
        BY <2>4, <3>1
      <3>6. Done
        BY <2>6, <3>3, <3>4, <3>5, NotNone
      <3> QED
        BY <3>6 DEF p, hd
    <2>9. CASE D # {} /\ Marked(D) = {First(Marked(D))}
      <3>1. PICK d \in D : First(Marked(D)) = At(d, plan[d])
        BY <2>4, <2>9, FirstIs
      <3>2. D = {d} /\ Marked(D) # {}
        <4>1. Marked(D) = {At(d, plan[d])} <=> D = {d}
          BY MarkedIs
        <4> QED
          BY <2>9, <3>1, <4>1
      <3>3. p = IF plan[d].kind = "absolute" THEN Error("absolute", d)
                ELSE Error(None, d)
        <4>1. /\ First(Marked(D)).number = d
              /\ First(Marked(D)).line = plan[d]
          BY <3>1, AtIs
        <4> QED
          BY <2>5, <2>9, <3>2, <4>1
      <3>4. d \in DOMAIN plan /\ plan[d].kind \in {"relative", "absolute"}
        BY <2>4 DEF Declares, Outside
      <3>5. CASE plan[d].kind = "absolute"
        <4>1. p.error = "absolute" /\ p.line = d
          BY <3>3, <3>5, ErrorIs
        <4>2. d \in Culprits("absolute")
          BY <2>3, <3>5 DEF Culprits
        <4>3. ~Placed(h)
          BY <2>6, <3>2, <3>5
        <4>4. Done
          BY <4>1, <4>2, <4>3, NotNone
        <4> QED
          BY <4>4 DEF p, hd
      <3>6. CASE plan[d].kind = "relative"
        <4>1. p.error = None /\ p.line = d
          BY <3>3, <3>6, ErrorIs
        <4>2. Placed(h)
          BY <2>6, <3>2, <3>4, <3>6
        <4>3. \E x \in R : Declares(x) = {p.line}
          BY <3>2, <4>1
        <4>4. Done
          BY <4>1, <4>2, <4>3
        <4> QED
          BY <4>4 DEF p, hd
      <3> QED
        BY <3>4, <3>5, <3>6
    <2> QED
      BY <2>7, <2>8, <2>9
  <1> QED
    BY <1>6, <1>7, <1>9, <1>10

-----------------------------------------------------------------------------
(* The numbers of the headings *)

Numbering(h) == HeadingError(Marked(PhaseLines), At(h, plan[h]))

LEMMA HeadingsAre ==
    ASSUME IsPlan
    PROVE  /\ PhaseLines \in SUBSET Nat
           /\ PhaseLines \in SUBSET (1 .. Len(plan))
           /\ \A h \in PhaseLines : plan[h].n \in Nat
  <1>1. PhaseLines \in SUBSET (1 .. Len(plan))
    BY LinesAre
  <1>2. \A h \in 1 .. Len(plan) : plan[h].n \in Nat
    BY PlanIs DEF LineType
  <1>3. 1 .. Len(plan) \in SUBSET Nat
    BY PlanIs
  <1> QED
    BY <1>1, <1>2, <1>3, Zenon

LEMMA NumberingSays ==
    ASSUME IsPlan, NEW h \in PhaseLines
    PROVE  /\ Numbering(h).error # None =>
                 Numbering(h).line \in Culprits(Numbering(h).error)
           /\ Numbering(h).error = None =>
                 /\ plan[h].n > 0
                 /\ \A m \in PhaseLines :
                       /\ m < h
                       /\ \A k \in PhaseLines : k < h => k <= m
                       => plan[m].n < plan[h].n
           /\ /\ plan[h].n > 0
              /\ \A j \in PhaseLines : j < h => plan[j].n < plan[h].n
              => Numbering(h).error = None
  <1> DEFINE above == {j \in PhaseLines : j < h}
             n == plan[h].n
             p == Numbering(h)
  <1>1. /\ \A k \in PhaseLines : plan[k].n \in Nat /\ k \in Nat
        /\ PhaseLines \in SUBSET (1 .. Len(plan)) /\ Len(plan) \in Nat
    BY HeadingsAre, PlanIs
  <1>2. Above(Marked(PhaseLines), At(h, plan[h])) = Marked(above)
    BY BelowIs
  <1>3. (\E g \in Marked(above) : g.line.n = n) <=>
        \E j \in above : plan[j].n = n
    <2>1. \A j : At(j, plan[j]).line = plan[j]
      BY AtIs
    <2> HIDE DEF above
    <2> QED
      BY <2>1 DEF Marked
  <1>4. p = IF n < 1 THEN Error("not positive", h)
            ELSE IF \E j \in above : plan[j].n = n
            THEN Error("duplicate number", h)
            ELSE IF Marked(above) # {} /\ n <= Latest(Marked(above)).line.n
            THEN Error("not increasing", h)
            ELSE Error(None, h)
    <2>1. At(h, plan[h]).number = h /\ At(h, plan[h]).line.n = n
      BY AtIs
    <2> HIDE DEF above
    <2> QED
      BY <1>2, <1>3, <2>1 DEF HeadingError, Numbering
  <1>5. ASSUME above # {}
        PROVE  \E m \in above : /\ Latest(Marked(above)).line.n = plan[m].n
                                /\ \A k \in above : k <= m
    <2>1. above \in SUBSET (1 .. Len(plan))
      BY <1>1
    <2> HIDE DEF above
    <2>2. PICK m \in above : /\ Latest(Marked(above)) = At(m, plan[m])
                             /\ \A k \in above : k <= m
      BY <1>1, <1>5, <2>1, LatestIs
    <2> QED
      BY <2>2, AtIs
  <1>6. Marked(above) = {} <=> above = {}
    BY MarkedIs
  <1>7. n \in Nat
    BY <1>1
  <1> HIDE DEF p
  <1>8. CASE n < 1
    <2>1. p.error = "not positive" /\ p.line = h
      BY <1>4, <1>8, ErrorIs
    <2>2. h \in Culprits("not positive")
      BY <1>7, <1>8 DEF Culprits
    <2>3. ~(plan[h].n > 0)
      BY <1>7, <1>8
    <2> QED
      BY <2>1, <2>2, <2>3, NotNone DEF p
  <1>9. CASE ~(n < 1) /\ \E j \in above : plan[j].n = n
    <2>1. p.error = "duplicate number" /\ p.line = h
      BY <1>4, <1>9, ErrorIs
    <2>2. PICK j \in PhaseLines : j < h /\ plan[j].n = n
      BY <1>9
    <2>3. plan[j].n >= plan[h].n
      BY <1>7, <2>2
    <2>4. h \in Culprits("duplicate number")
      BY <2>2, <2>3 DEF Culprits
    <2>5. ~(plan[j].n < plan[h].n)
      BY <1>7, <2>2
    <2> QED
      BY <2>1, <2>2, <2>4, <2>5, NotNone DEF p
  <1>10. CASE /\ ~(n < 1) /\ ~(\E j \in above : plan[j].n = n)
              /\ above # {} /\ n <= Latest(Marked(above)).line.n
    <2>1. p.error = "not increasing" /\ p.line = h
      BY <1>4, <1>6, <1>10, ErrorIs
    <2>2. PICK m \in above : n <= plan[m].n
      BY <1>5, <1>10
    <2>3. m \in PhaseLines /\ m < h /\ plan[m].n >= plan[h].n
      BY <1>1, <2>2
    <2>4. h \in Culprits("not increasing")
      BY <2>3 DEF Culprits
    <2>5. ~(plan[m].n < plan[h].n)
      BY <1>1, <2>3
    <2> QED
      BY <2>1, <2>3, <2>4, <2>5, NotNone DEF p
  <1>11. CASE /\ ~(n < 1) /\ ~(\E j \in above : plan[j].n = n)
              /\ (above # {} => ~(n <= Latest(Marked(above)).line.n))
    <2>1. p.error = None
      BY <1>4, <1>6, <1>11, ErrorIs
    <2>2. ASSUME NEW m \in PhaseLines, m < h,
                 \A k \in PhaseLines : k < h => k <= m
          PROVE  plan[m].n < plan[h].n
      <3>1. m \in above
        BY <2>2
      <3>2. PICK l \in above : /\ Latest(Marked(above)).line.n = plan[l].n
                               /\ \A k \in above : k <= l
        BY <1>5, <3>1
      <3>3. l = m
        BY <1>1, <2>2, <3>1, <3>2
      <3> QED
        BY <1>1, <1>11, <3>1, <3>2, <3>3
    <2>3. plan[h].n > 0
      BY <1>7, <1>11
    <2> QED
      BY <2>1, <2>2, <2>3 DEF p
  <1> QED
    BY <1>8, <1>9, <1>10, <1>11

\* The clauses of WellFormed about the numbers.
Numbered ==
    /\ \A i \in PhaseLines : plan[i].n > 0
    /\ \A i, j \in PhaseLines : i < j => plan[i].n < plan[j].n

\* To compare each heading with the one above it is to compare all.
LEMMA NumberedIs ==
    ASSUME IsPlan
    PROVE  Numbered <=> \A h \in PhaseLines : Numbering(h).error = None
  <1>1. ASSUME Numbered
        PROVE  \A h \in PhaseLines : Numbering(h).error = None
    BY <1>1, NumberingSays DEF Numbered
  <1>2. ASSUME \A h \in PhaseLines : Numbering(h).error = None
        PROVE  Numbered
    <2> DEFINE Wrong == {j \in PhaseLines :
                           \E i \in PhaseLines :
                              i < j /\ ~(plan[i].n < plan[j].n)}
    <2>1. /\ \A k \in PhaseLines : plan[k].n \in Nat /\ k \in Nat
          /\ PhaseLines \in SUBSET (1 .. Len(plan)) /\ Len(plan) \in Nat
      BY HeadingsAre, PlanIs
    <2>2. Wrong = {}
      <3> SUFFICES ASSUME Wrong # {}
                   PROVE  FALSE
        OBVIOUS
      <3>1. Wrong \in SUBSET Nat
        BY <2>1
      <3>2. PICK j \in Wrong : \A k \in Wrong : j <= k
        <4> HIDE DEF Wrong
        <4> QED
          BY <3>1, Least
      <3>3. PICK i \in PhaseLines : i < j /\ ~(plan[i].n < plan[j].n)
        BY <3>2
      <3> DEFINE above == {k \in PhaseLines : k < j}
      <3>4. PICK m \in above : \A k \in above : k <= m
        <4>1. above \in SUBSET (1 .. Len(plan)) /\ above # {}
          BY <2>1, <3>3
        <4> HIDE DEF above
        <4> QED
          BY <2>1, <4>1, LatestIs
      <3>5. m \in PhaseLines /\ m < j /\ j \in PhaseLines
        BY <3>2
      <3>6. plan[m].n < plan[j].n
        BY <1>2, <3>4, <3>5, NumberingSays
      <3>7. i = m \/ i < m
        BY <2>1, <3>3, <3>4, <3>5
      <3>8. m \notin Wrong
        BY <2>1, <3>2, <3>5
      <3>9. i < m => plan[i].n < plan[m].n
        BY <3>3, <3>5, <3>8
      <3> QED
        BY <2>1, <3>3, <3>5, <3>6, <3>7, <3>9
    <2>3. \A i \in PhaseLines : plan[i].n > 0
      BY <1>2, NumberingSays
    <2> QED
      BY <2>2, <2>3 DEF Numbered
  <1> QED
    BY <1>1, <1>2

-----------------------------------------------------------------------------
(* The plan as a whole *)

Place(h) == LET hd == At(h, plan[h])
            IN  Workspace(Body(plan, Marked(PhaseLines), hd), hd)

Garbled == {i \in DOMAIN plan : plan[i].kind = "garbled"}
Misnumbered == {h \in PhaseLines : Numbering(h).error # None}
Misplaced == {h \in PhaseLines : Place(h).error # None}

PhaseAt(h) == [number |-> plan[h].n, start |-> h,
               end |-> EndLine(plan, Marked(PhaseLines), At(h, plan[h])),
               workspace |-> Place(h).line]

LEMMA PhaseLinesFound ==
    ASSUME IsPlan, NEW f, Whole(f)
    PROVE  Headings(Unfenced(plan, 0).open) = Marked(PhaseLines)
  <1>1. Len(plan) \in 0 .. Len(plan)
    BY PlanIs
  <1>2. Unfenced(plan, 0).open = Marked({i \in Clear : i <= Len(plan)})
    BY <1>1 DEF Whole
  <1>3. {i \in Clear : i <= Len(plan)} = Clear
    BY LinesAre
  <1>4. Of(Marked(Clear), {"phase"}) = Marked(PhaseLines)
    BY MarkedIs DEF PhaseLines, Outside
  <1> QED
    BY <1>2, <1>3, <1>4 DEF Headings

\* Parse with its LETs as operators of the headings, so that these can be
\* replaced by what they are.
Places(H) == [h \in H |-> Workspace(Body(plan, H, h), h)]
BadNumbers(H) == {h \in H : HeadingError(H, h).error # None}
BadPlaces(H) == {h \in H : Places(H)[h].error # None}
Phases(H) == {[number |-> h.line.n, start |-> h.number,
               end |-> EndLine(plan, H, h),
               workspace |-> Places(H)[h].line] : h \in H}

Verdict(garbled, whole, H) ==
    IF garbled # {} THEN Error("garbled", First(garbled).number)
    ELSE IF whole.fence # None THEN Error("unclosed", whole.opened)
    ELSE IF H = {} THEN Error("no phases", None)
    ELSE IF BadNumbers(H) # {} THEN HeadingError(H, First(BadNumbers(H)))
    ELSE IF BadPlaces(H) # {} THEN Places(H)[First(BadPlaces(H))]
    ELSE [error |-> None, line |-> None, phases |-> Phases(H)]

LEMMA ParseIsVerdict ==
    Parse(plan) = Verdict(Of(Lines(plan), {"garbled"}), Unfenced(plan, 0),
                          Headings(Unfenced(plan, 0).open))
  BY DEF Parse, Verdict, Places, BadNumbers, BadPlaces, Phases

\* Parse in terms of the numbers of lines.
LEMMA ParseIs ==
    ASSUME IsPlan, NEW f, Whole(f)
    PROVE  Parse(plan) =
              IF Marked(Garbled) # {}
              THEN Error("garbled", First(Marked(Garbled)).number)
              ELSE IF f[Len(plan)].fence # None
              THEN Error("unclosed", f[Len(plan)].opened)
              ELSE IF Marked(PhaseLines) = {} THEN Error("no phases", None)
              ELSE IF Marked(Misnumbered) # {}
              THEN HeadingError(Marked(PhaseLines), First(Marked(Misnumbered)))
              ELSE IF Marked(Misplaced) # {}
              THEN Places(Marked(PhaseLines))[First(Marked(Misplaced))]
              ELSE [error |-> None, line |-> None,
                    phases |-> {PhaseAt(h) : h \in PhaseLines}]
  <1> DEFINE H == Marked(PhaseLines)
             place == Places(H)
  <1>1. Of(Lines(plan), {"garbled"}) = Marked(Garbled)
    <2>1. Lines(plan) = Marked(DOMAIN plan)
      BY DEF Lines, Marked
    <2>2. Garbled = {i \in DOMAIN plan : plan[i].kind \in {"garbled"}}
      BY DEF Garbled
    <2> QED
      BY <2>1, <2>2, MarkedIs
  <1>2. \A h \in PhaseLines : /\ At(h, plan[h]) \in H
                              /\ place[At(h, plan[h])] = Place(h)
    BY DEF Marked, Place, Places
  <1>3. \A hd \in H : \E h \in PhaseLines : hd = At(h, plan[h])
    BY DEF Marked
  <1> HIDE DEF place
  <1>4. BadNumbers(H) = Marked(Misnumbered)
    <2> HIDE DEF H
    <2>1. \A h \in PhaseLines : HeadingError(H, At(h, plan[h])) = Numbering(h)
      BY DEF Numbering, H
    <2>2. ASSUME NEW x \in BadNumbers(H)
          PROVE  x \in Marked(Misnumbered)
      <3>1. PICK h \in PhaseLines : x = At(h, plan[h])
        BY <1>3 DEF BadNumbers
      <3>2. h \in Misnumbered
        BY <2>1, <2>2, <3>1 DEF Misnumbered, BadNumbers
      <3> QED
        BY <3>1, <3>2 DEF Marked
    <2>3. ASSUME NEW x \in Marked(Misnumbered)
          PROVE  x \in BadNumbers(H)
      <3>1. PICK h \in Misnumbered : x = At(h, plan[h])
        BY DEF Marked
      <3> QED
        BY <1>2, <2>1, <3>1 DEF Misnumbered, BadNumbers
    <2> QED
      BY <2>2, <2>3
  <1>5. BadPlaces(H) = Marked(Misplaced)
    <2> HIDE DEF H
    <2>2. ASSUME NEW x \in BadPlaces(H)
          PROVE  x \in Marked(Misplaced)
      <3>1. PICK h \in PhaseLines : x = At(h, plan[h])
        BY <1>3 DEF BadPlaces
      <3>2. h \in Misplaced
        BY <1>2, <2>2, <3>1 DEF Misplaced, BadPlaces, place
      <3> QED
        BY <3>1, <3>2 DEF Marked
    <2>3. ASSUME NEW x \in Marked(Misplaced)
          PROVE  x \in BadPlaces(H)
      <3>1. PICK h \in Misplaced : x = At(h, plan[h])
        BY DEF Marked
      <3> QED
        BY <1>2, <3>1 DEF Misplaced, BadPlaces, place
    <2> QED
      BY <2>2, <2>3
  <1>6. Phases(H) = {PhaseAt(h) : h \in PhaseLines}
    <2> DEFINE rec(h) == [number |-> h.line.n, start |-> h.number,
                          end |-> EndLine(plan, H, h),
                          workspace |-> place[h].line]
    <2>1. \A h \in PhaseLines : rec(At(h, plan[h])) = PhaseAt(h)
      BY <1>2, AtIs DEF PhaseAt
    <2> HIDE DEF H, rec
    <2>2. {rec(h) : h \in H} = {PhaseAt(h) : h \in PhaseLines}
      BY <1>2, <1>3, <2>1
    <2> QED
      BY <2>2 DEF rec, Phases, place
  <1>7. Unfenced(plan, 0) = f[Len(plan)]
    BY DEF Whole
  <1>8. Headings(Unfenced(plan, 0).open) = H
    BY PhaseLinesFound
  <1> QED
    BY <1>1, <1>4, <1>5, <1>6, <1>7, <1>8, ParseIsVerdict DEF Verdict, H

\* What the plan's parse says, by cases.
Says ==
    /\ Parse(plan).error = None <=> WellFormed
    /\ Parse(plan).error # None =>
          Parse(plan).line \in Culprits(Parse(plan).error)
    /\ Parse(plan).error = None =>
          /\ Parse(plan).phases = {PhaseAt(h) : h \in PhaseLines}
          /\ \A h \in PhaseLines :
                \E w \in Extent(h) \intersect Outside({"workspace"}) :
                   Declares(w) = {Place(h).line}

LEMMA SaysError ==
    ASSUME NEW what, what # None, NEW line,
           Parse(plan).error = what, Parse(plan).line = line,
           line \in Culprits(what), ~WellFormed
    PROVE  Says
  BY DEF Says

LEMMA WellFormedIs ==
    ASSUME IsPlan
    PROVE  WellFormed <=> /\ Garbled = {} /\ Unended = {} /\ PhaseLines # {}
                          /\ Numbered
                          /\ \A h \in PhaseLines : Placed(h)
  <1>1. Garbled = {} <=> \A i \in DOMAIN plan : plan[i].kind # "garbled"
    BY DEF Garbled
  <1>2. Unended = {} <=> \A b \in Blocks : b[2] <= Len(plan)
    <2>1. \A b \in Blocks : b[2] <= Len(plan) <=> ~(b[2] > Len(plan))
      <3>1. \A j \in Fences : End(j) \in Nat
        BY EndIs
      <3>2. Opening \in SUBSET Fences
        <4>1. PICK f : Whole(f)
          BY WholeIs
        <4>2. Opening = Openers(f)
          BY <4>1, OpeningIs DEF Whole
        <4> QED
          BY <4>2 DEF Openers
      <3>3. \A b \in Blocks : b[2] \in Nat
        BY <3>1, <3>2, BlocksAre
      <3> QED
        BY <3>3, PlanIs
    <2> QED
      BY <2>1 DEF Unended
  <1>3. (\A h \in PhaseLines : Placed(h)) <=>
        \A i \in PhaseLines :
          /\ Extent(i) \intersect Outside({"workspaceish"}) = {}
          /\ \E w \in Extent(i) :
                /\ Extent(i) \intersect Outside({"workspace"}) = {w}
                /\ \E d \in DOMAIN plan : /\ Declares(w) = {d}
                                          /\ plan[d].kind = "relative"
    BY DEF Placed
  <1> QED
    BY <1>1, <1>2, <1>3 DEF WellFormed, Numbered

LEMMA ParseSays ==
    ASSUME IsPlan
    PROVE  Says
  <1>1. PICK f : Whole(f)
    BY WholeIs
  <1> DEFINE n == Len(plan)
             H == Marked(PhaseLines)
             whole == f[n].fence
  <1>2. Parse(plan) =
           IF Marked(Garbled) # {}
           THEN Error("garbled", First(Marked(Garbled)).number)
           ELSE IF whole # None THEN Error("unclosed", f[n].opened)
           ELSE IF H = {} THEN Error("no phases", None)
           ELSE IF Marked(Misnumbered) # {}
           THEN HeadingError(H, First(Marked(Misnumbered)))
           ELSE IF Marked(Misplaced) # {}
           THEN Places(H)[First(Marked(Misplaced))]
           ELSE [error |-> None, line |-> None,
                 phases |-> {PhaseAt(h) : h \in PhaseLines}]
    BY <1>1, ParseIs
  <1>3. /\ Marked(Garbled) = {} <=> Garbled = {}
        /\ H = {} <=> PhaseLines = {}
        /\ Marked(Misnumbered) = {} <=> Misnumbered = {}
        /\ Marked(Misplaced) = {} <=> Misplaced = {}
    BY MarkedIs
  <1>4. /\ whole = None => Unended = {}
        /\ whole # None => f[n].opened \in Unended
    BY <1>1 DEF Whole
  <1>5. /\ Garbled \in SUBSET Nat /\ Misnumbered \in SUBSET Nat
        /\ Misplaced \in SUBSET Nat
    <2>1. DOMAIN plan \in SUBSET Nat /\ PhaseLines \in SUBSET Nat
      BY PlanIs, HeadingsAre
    <2> QED
      BY <2>1 DEF Garbled, Misnumbered, Misplaced
  <1> HIDE DEF H, whole
  <1>6. CASE Garbled # {}
    <2>1. PICK m \in Garbled : First(Marked(Garbled)) = At(m, plan[m])
      BY <1>5, <1>6, FirstIs
    <2>2. First(Marked(Garbled)).number = m
      BY <2>1, AtIs
    <2>3. Parse(plan) = Error("garbled", m)
      BY <1>2, <1>3, <1>6, <2>2
    <2>4. m \in Culprits("garbled")
      BY DEF Culprits, Garbled
    <2>5. ~WellFormed
      BY <1>6, WellFormedIs
    <2>6. Parse(plan).error = "garbled" /\ Parse(plan).line = m
      BY <2>3, ErrorIs
    <2>7. "garbled" # None
      BY NotNone
    <2> QED
      BY <2>4, <2>5, <2>6, <2>7, SaysError
  <1>7. CASE Garbled = {} /\ whole # None
    <2>1. Parse(plan) = Error("unclosed", f[n].opened)
      BY <1>2, <1>3, <1>7
    <2>2. f[n].opened \in Culprits("unclosed")
      BY <1>4, <1>7 DEF Culprits, Unended
    <2>3. ~WellFormed
      BY <1>4, <1>7, WellFormedIs
    <2>6. Parse(plan).error = "unclosed" /\ Parse(plan).line = f[n].opened
      BY <2>1, ErrorIs
    <2>7. "unclosed" # None
      BY NotNone
    <2> QED
      BY <2>2, <2>3, <2>6, <2>7, SaysError
  <1>8. CASE Garbled = {} /\ whole = None /\ PhaseLines = {}
    <2>1. Parse(plan) = Error("no phases", None)
      BY <1>2, <1>3, <1>8
    <2>2. None \in Culprits("no phases")
      BY DEF Culprits
    <2>3. ~WellFormed
      BY <1>8, WellFormedIs
    <2>6. Parse(plan).error = "no phases" /\ Parse(plan).line = None
      BY <2>1, ErrorIs
    <2>7. "no phases" # None
      BY NotNone
    <2> QED
      BY <2>2, <2>3, <2>6, <2>7, SaysError
  <1>9. Misnumbered = {} <=> Numbered
    BY NumberedIs DEF Misnumbered
  <1>10. CASE /\ Garbled = {} /\ whole = None /\ PhaseLines # {}
              /\ Misnumbered # {}
    <2>1. PICK m \in Misnumbered : First(Marked(Misnumbered)) = At(m, plan[m])
      BY <1>5, <1>10, FirstIs
    <2>2. Parse(plan) = Numbering(m)
      BY <1>2, <1>3, <1>10, <2>1 DEF Numbering, H
    <2>3. m \in PhaseLines /\ Numbering(m).error # None
      BY DEF Misnumbered
    <2>4. Numbering(m).line \in Culprits(Numbering(m).error)
      BY <2>3, NumberingSays
    <2>5. ~WellFormed
      BY <1>9, <1>10, WellFormedIs
    <2> QED
      BY <2>2, <2>3, <2>4, <2>5, SaysError
  <1>11. ASSUME Garbled = {}, whole = None
         PROVE  \A h \in PhaseLines :
                   /\ Place(h).error = None <=> Placed(h)
                   /\ Place(h).error = None =>
                         \E w \in Extent(h) \intersect Outside({"workspace"}) :
                            Declares(w) = {Place(h).line}
                   /\ Place(h).error # None =>
                         Place(h).line \in Culprits(Place(h).error)
    <2>1. NothingGarbled
      BY <1>11 DEF Garbled, NothingGarbled
    <2> QED
      BY <1>1, <1>11, <2>1, WorkspaceSays DEF Place, whole
  <1>12. CASE /\ Garbled = {} /\ whole = None /\ PhaseLines # {}
              /\ Misnumbered = {} /\ Misplaced # {}
    <2>1. PICK m \in Misplaced : First(Marked(Misplaced)) = At(m, plan[m])
      BY <1>5, <1>12, FirstIs
    <2>2. m \in PhaseLines /\ Place(m).error # None
      BY DEF Misplaced
    <2>3. Places(H)[At(m, plan[m])] = Place(m)
      <3>1. At(m, plan[m]) \in H
        BY <2>2 DEF H, Marked
      <3> QED
        BY <3>1 DEF Places, Place, H
    <2>4. Parse(plan) = Place(m)
      BY <1>2, <1>3, <1>12, <2>1, <2>3
    <2>5. Place(m).line \in Culprits(Place(m).error)
      BY <1>11, <1>12, <2>2
    <2>6. ~WellFormed
      BY <1>11, <1>12, <2>2, WellFormedIs
    <2> QED
      BY <2>2, <2>4, <2>5, <2>6, SaysError
  <1>13. CASE /\ Garbled = {} /\ whole = None /\ PhaseLines # {}
              /\ Misnumbered = {} /\ Misplaced = {}
    <2>1. Parse(plan) = [error |-> None, line |-> None,
                         phases |-> {PhaseAt(h) : h \in PhaseLines}]
      BY <1>2, <1>3, <1>13
    <2>2. \A h \in PhaseLines : Place(h).error = None
      BY <1>13 DEF Misplaced
    <2>3. WellFormed
      BY <1>4, <1>9, <1>11, <1>13, <2>2, WellFormedIs
    <2>4. /\ Parse(plan).error = None
          /\ Parse(plan).phases = {PhaseAt(h) : h \in PhaseLines}
      BY <2>1
    <2> QED
      BY <1>11, <1>13, <2>2, <2>3, <2>4 DEF Says
  <1> QED
    BY <1>6, <1>7, <1>8, <1>10, <1>12, <1>13

\* The lines of the phase with heading h.
LEMMA SpansAre ==
    ASSUME IsPlan, NEW h \in PhaseLines
    PROVE  /\ PhaseAt(h).start = h /\ PhaseAt(h).number = plan[h].n
           /\ PhaseAt(h).workspace = Place(h).line
           /\ \E e \in h .. Len(plan) :
                 /\ PhaseAt(h).end = e
                 /\ Extent(h) = h + 1 .. e
                 /\ e = Len(plan) \/ e + 1 \in PhaseLines
  BY EndLineIs DEF PhaseAt

\* Every line from the first heading on belongs to one phase.
LEMMA OnePhase ==
    ASSUME IsPlan, NEW i \in DOMAIN plan, \E h \in PhaseLines : h <= i
    PROVE  \E h \in PhaseLines :
              /\ i \in PhaseAt(h).start .. PhaseAt(h).end
              /\ \A k \in PhaseLines \ {h} :
                    i \notin PhaseAt(k).start .. PhaseAt(k).end
  <1> DEFINE above == {h \in PhaseLines : h <= i}
  <1>1. /\ PhaseLines \in SUBSET (1 .. Len(plan)) /\ i \in 1 .. Len(plan)
        /\ Len(plan) \in Nat
    BY PlanIs, HeadingsAre
  <1>2. PICK h \in above : \A k \in above : k <= h
    <2>1. above \in SUBSET (1 .. Len(plan)) /\ above # {}
      BY <1>1
    <2> HIDE DEF above
    <2> QED
      BY <1>1, <2>1, LatestIs
  <1>3. PICK e \in h .. Len(plan) :
            /\ PhaseAt(h).start = h /\ PhaseAt(h).end = e
            /\ e = Len(plan) \/ e + 1 \in PhaseLines
    BY SpansAre
  <1>4. i \in h .. e
    <2>1. CASE e = Len(plan)
      BY <1>1, <2>1
    <2>2. CASE e + 1 \in PhaseLines
      <3>1. e + 1 > h /\ e \in Nat
        BY <1>1
      <3>2. ~(e + 1 <= i)
        BY <1>1, <1>2, <2>2, <3>1
      <3> QED
        BY <1>1, <3>1, <3>2
    <2> QED
      BY <1>3, <2>1, <2>2
  <1>5. ASSUME NEW k \in PhaseLines \ {h}
        PROVE  i \notin PhaseAt(k).start .. PhaseAt(k).end
    <2>1. PICK d \in k .. Len(plan) :
             /\ PhaseAt(k).start = k /\ PhaseAt(k).end = d
             /\ Extent(k) = k + 1 .. d
      BY SpansAre
    <2>2. CASE k > i
      BY <1>1, <2>1, <2>2
    <2>3. CASE k <= i
      <3>1. k < h /\ k \in Nat /\ h \in Nat
        BY <1>1, <1>2, <2>3
      <3>2. h \notin Extent(k)
        BY <1>1, <3>1 DEF Extent, Until
      <3>3. d < h
        BY <1>1, <2>1, <3>1, <3>2
      <3> QED
        BY <1>1, <2>1, <3>3
    <2> QED
      BY <1>1, <2>2, <2>3
  <1> QED
    BY <1>3, <1>4, <1>5

LEMMA PhasesAre ==
    ASSUME IsPlan
    PROVE  PhasesAreThePlan
  <1> SUFFICES ASSUME Accepted
               PROVE  PhasesAreThePlan
    BY DEF PhasesAreThePlan
  <1> DEFINE phases == Parse(plan).phases
             Spans(p) == p.start .. p.end
  <1>1. /\ phases = {PhaseAt(h) : h \in PhaseLines}
        /\ \A h \in PhaseLines :
              \E w \in Extent(h) \intersect Outside({"workspace"}) :
                 Declares(w) = {Place(h).line}
    BY ParseSays DEF Says, Accepted
  <1>2. /\ \A h \in PhaseLines : PhaseAt(h) \in phases
        /\ \A p \in phases : \E h \in PhaseLines : p = PhaseAt(h)
    BY <1>1
  <1> HIDE DEF phases
  <1>3. {p.start : p \in phases} = PhaseLines
    <2>1. \A h \in PhaseLines : PhaseAt(h).start = h
      BY SpansAre
    <2> QED
      BY <1>2, <2>1
  <1>4. ASSUME NEW p \in phases
        PROVE  /\ plan[p.start].n = p.number
               /\ \E w \in Outside({"workspace"}) \intersect Spans(p) :
                     Declares(w) = {p.workspace}
    <2>1. PICK h \in PhaseLines : p = PhaseAt(h)
      BY <1>2
    <2>2. PICK e \in h .. Len(plan) : p.end = e /\ Extent(h) = h + 1 .. e
      BY <2>1, SpansAre
    <2>3. p.start = h /\ p.number = plan[h].n /\ p.workspace = Place(h).line
      BY <2>1, SpansAre
    <2>4. PICK w \in Extent(h) \intersect Outside({"workspace"}) :
             Declares(w) = {Place(h).line}
      BY <1>1
    <2>5. h \in Nat
      BY HeadingsAre
    <2>6. w \in Spans(p)
      BY <2>2, <2>3, <2>4, <2>5
    <2> QED
      BY <2>3, <2>4, <2>6
  <1>5. ASSUME NEW i \in DOMAIN plan, \E h \in PhaseLines : h <= i
        PROVE  \E p \in phases : /\ i \in Spans(p)
                                 /\ \A q \in phases \ {p} : i \notin Spans(q)
    <2>1. PICK h \in PhaseLines :
             /\ i \in Spans(PhaseAt(h))
             /\ \A k \in PhaseLines \ {h} : i \notin Spans(PhaseAt(k))
      BY <1>5, OnePhase
    <2>2. ASSUME NEW q \in phases \ {PhaseAt(h)}
          PROVE  i \notin Spans(q)
      <3>1. PICK k \in PhaseLines : q = PhaseAt(k)
        BY <1>2
      <3>2. k # h
        BY <3>1
      <3> QED
        BY <2>1, <3>1, <3>2
    <2> QED
      BY <1>2, <2>1, <2>2
  <1> QED
    BY <1>3, <1>4, <1>5 DEF PhasesAreThePlan, phases

-----------------------------------------------------------------------------
(* Every plan an author can write *)

LEMMA PlanInv == Spec => []IsPlan
  <1> DEFINE Inv == IsPlan /\ author \in Authors
  <1>1. Init => Inv
    BY DEF Init, IsPlan
  <1>2. Inv /\ [Next]_<<plan, author>> => Inv'
    <2> SUFFICES ASSUME Inv, [Next]_<<plan, author>>
                 PROVE  Inv'
      OBVIOUS
    <2>1. CASE Write
      <3>1. PICK line \in author.lines : plan' = Append(plan, line)
        BY <2>1 DEF Write
      <3>2. line \in LineType
        BY AuthorsAssumption
      <3> QED
        BY <2>1, <3>1, <3>2 DEF Write, IsPlan
    <2>2. CASE UNCHANGED <<plan, author>>
      BY <2>2 DEF IsPlan
    <2> QED
      BY <2>1, <2>2 DEF Next
  <1>3. Inv => IsPlan
    OBVIOUS
  <1> QED
    BY <1>1, <1>2, <1>3, PTL DEF Spec

\* The parser accepts exactly the well-formed plans.  It reads line after line,
\* each phase's body on its own and from its start, and compares each heading's
\* number with the one above; WellFormed looks at the whole file at once.
THEOREM PlanAcceptsWellFormed == Spec => []AcceptsWellFormed
  <1>1. IsPlan => AcceptsWellFormed
    BY ParseSays DEF Says, AcceptsWellFormed, Accepted
  <1> QED
    BY <1>1, PlanInv, PTL

\* The line that parse_plan's error names, counted in the file, is one where
\* the error it reports can be seen.
THEOREM PlanErrorsNameTheLine == Spec => []ErrorsNameTheLine
  <1>1. IsPlan => ErrorsNameTheLine
    BY ParseSays DEF Says, ErrorsNameTheLine, Accepted
  <1> QED
    BY <1>1, PlanInv, PTL

\* The phases of an accepted plan cut it, from its first heading on, into one
\* extent each, and each has the workspace that its own lines declare.
THEOREM PlanPhasesAreThePlan == Spec => []PhasesAreThePlan
  <1>1. IsPlan => PhasesAreThePlan
    BY PhasesAre
  <1> QED
    BY <1>1, PlanInv, PTL

=============================================================================
