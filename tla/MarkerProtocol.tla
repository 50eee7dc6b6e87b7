--------------------------- MODULE MarkerProtocol ----------------------------
(***************************************************************************)
(* What a worker's whole output means and shows, read off the text itself  *)
(* and not symbol by symbol: what MarkerSession and WrappedSession compare *)
(* the accumulator and the live display of Markers with.                   *)
(***************************************************************************)
EXTENDS Markers

-----------------------------------------------------------------------------
(* A valid result block *)

\* The positions of exact tags.
ExactTags(t) ==
    UNION {Places(t, Open(k)) \union Places(t, Close(k)) : k \in Kinds}

\* A tag name after "<", blanks and at most one "/" that ends there.
RecognizedAt(t, i) ==
    /\ t[i] = "<"
    /\ \E k \in Kinds, j \in i + 1 .. Len(t) :
          /\ At(t, j, k)
          /\ \A n \in i + 1 .. j - 1 : t[n] \in White \union {"/"}
          /\ \A m, n \in i + 1 .. j - 1 : t[m] = "/" /\ t[n] = "/" => m = n
          /\ j + Len(k) <= Len(t) => t[j + Len(k)] \in White \union {">", "/"}

Recognized(t) == {i \in DOMAIN t : RecognizedAt(t, i)}

\* Where the line that position i lies in or ends begins.
LineBegin(t, i) == Max({0} \union {n \in 1 .. i - 1 : t[n] = "newline"}) + 1

\* The mark a line has after at most three blanks: [mark, length, info], or
\* length zero.
FenceOf(line) ==
    LET indent == Min({i \in 1 .. Len(line) + 1 :
                         i > Len(line) \/ line[i] # "space" \/ i = 4})
        run(c) == Max({n \in 0 .. Len(line) + 1 - indent :
                         \A i \in indent .. indent + n - 1 : line[i] = c})
        c == IF run("tick") > 0 THEN "tick" ELSE "tilde"
    IN  [mark |-> c, length |-> run(c),
         info |-> Strip(SubSeq(line, indent + run(c), Len(line)))]

NoFence == [mark |-> None, length |-> 0, info |-> << >>]

\* The fence that is open after a line, if "open" was before it.
Toggle(open, line) ==
    LET f == FenceOf(line) IN
    IF f.length < 3 THEN open
    ELSE IF open.mark = None THEN f
    ELSE IF f.mark = open.mark /\ f.length >= open.length /\ f.info = << >>
    THEN NoFence ELSE open

\* Is the line that starts at i inside a fence?  open[n] is the fence after the
\* lines that end at n or before.
InFence(t, i) ==
    LET open[n \in 0 .. Len(t)] ==
            IF n = 0 THEN NoFence
            ELSE IF t[n] # "newline" THEN open[n - 1]
            ELSE Toggle(open[n - 1], SubSeq(t, LineBegin(t, n), n - 1))
    IN  open[i - 1].mark # None

\* The blocks <<kind, first, last>> a text consists of, if it is valid: its
\* only two tags, the first at a fence-free start of a line, the second the
\* last thing in the text, with something between them.
Blocks(t) ==
    {b \in Kinds \X Places(t, <<"<">>) \X Places(t, <<">">>) :
        LET kind == b[1]  first == b[2]  last == b[3]
            close == last - Len(Close(kind)) + 1
        IN  /\ At(t, first, Open(kind))
            /\ close >= first + Len(Open(kind)) /\ At(t, close, Close(kind))
            /\ Recognized(t) = {first, close}
            /\ ExactTags(t) = {first, close}
            /\ first > 1 => t[first - 1] = "newline"
            /\ ~InFence(t, first)
            /\ Strip(SubSeq(t, last + 1, Len(t))) = << >>
            /\ Strip(SubSeq(t, first + Len(Open(kind)), close - 1)) # << >>}

MarkersOf(t) ==
    {[kind |-> b[1],
      body |-> Strip(SubSeq(t, b[2] + Len(Open(b[1])),
                               b[3] - Len(Close(b[1]))))] : b \in Blocks(t)}

\* The opening tags of t at position i or later, as <<position, kind>>, the
\* first of them, and where what follows an end of its block begins.
OpensFrom(t, i) == {o \in (i .. Len(t)) \X Kinds : At(t, o[1], Open(o[2]))}

FirstOpen(t, i) ==
    CHOOSE o \in OpensFrom(t, i) : \A p \in OpensFrom(t, i) : o[1] <= p[1]

AfterBlock(t, o) ==
    {c + Len(Close(o[2])) : c \in {c \in Places(t, Close(o[2])) :
                                     c >= o[1] + Len(Open(o[2]))}}

\* A text as it is displayed: every block up to its own closing tag left out;
\* from[i] is the part from position i on.
Visible(t) ==
    LET from[i \in 1 .. Len(t) + 1] ==
            IF OpensFrom(t, i) = {} \/ AfterBlock(t, FirstOpen(t, i)) = {}
            THEN SubSeq(t, i, Len(t))
            ELSE SubSeq(t, i, FirstOpen(t, i)[1] - 1)
                   \o from[Min(AfterBlock(t, FirstOpen(t, i)))]
    IN  from[1]
=============================================================================
