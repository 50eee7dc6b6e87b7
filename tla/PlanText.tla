------------------------------ MODULE PlanText -------------------------------
(***************************************************************************)
(* phases.py: how the text of a plan becomes phases, or an error that      *)
(* names a line.                                                           *)
(*                                                                         *)
(* A plan is a sequence of lines (what splitlines yields, without its line *)
(* ending; the separators other than the newline that it also splits at    *)
(* are left out), each known by what the patterns of the module make of    *)
(* it:                                                                     *)
(*   phase n      a heading "Phase n: Title" of any level                  *)
(*   workspace    the heading "### Workspace"                              *)
(*   workspaceish another heading that starts with that word               *)
(*   heading      any other heading                                        *)
(*   fence        at least three backticks or tildes, and perhaps more text*)
(*   blank, relative, absolute, garbled (not UTF-8)                        *)
(***************************************************************************)
EXTENDS Naturals, Sequences

CONSTANTS
    Authors,  \* [lines, max]: plans of at most max lines; bounds the model
    None

LineKinds == {"phase", "workspace", "workspaceish", "heading", "fence",
              "blank", "relative", "absolute", "garbled"}

\* n: the number of a phase, the length of a fence.  mark: the character of a
\* fence.  info: does other text follow?
Line(kind) == [kind |-> kind, n |-> 0, mark |-> "", info |-> FALSE]
PhaseLine(n) == [Line("phase") EXCEPT !.n = n]
Fence(mark, length, info) ==
    [kind |-> "fence", n |-> length, mark |-> mark, info |-> info]

LineType == [kind : LineKinds, n : Nat, mark : {"", "tick", "tilde"},
             info : BOOLEAN]

ASSUME AuthorsAssumption ==
    /\ \A a \in Authors : a.lines \subseteq LineType /\ a.max \in Nat
    /\ None \notin LineType \union
          {"garbled", "unclosed", "no phases", "not positive",
           "duplicate number", "not increasing", "not exact", "missing",
           "twice", "empty", "many lines", "absolute"}

-----------------------------------------------------------------------------
(* Lines of a text, each with its number *)

At(number, line) == [number |-> number, line |-> line]
Lines(text) == {At(i, text[i]) : i \in DOMAIN text}
Of(lines, kinds) == {l \in lines : l.line.kind \in kinds}

First(lines) == CHOOSE l \in lines : \A m \in lines : l.number <= m.number
Latest(lines) == CHOOSE l \in lines : \A m \in lines : m.number <= l.number
Second(lines) == First(lines \ {First(lines)})

Above(lines, l) == {m \in lines : m.number < l.number}
Below(lines, l) == {m \in lines : m.number > l.number}

-----------------------------------------------------------------------------
(* Fences *)

\* Mutant: any fence closes.
ClosesAny(line, fence) == line.kind = "fence" /\ ~line.info

\* Mutant: a shorter fence closes.
ClosesShort(line, fence) ==
    line.kind = "fence" /\ ~line.info /\ line.mark = fence.mark

\* _is_closing_fence
Closes(line, fence) ==
    /\ line.kind = "fence" /\ ~line.info
    /\ line.mark = fence.mark /\ line.n >= fence.n

\* Mutant: a fence is not closed by the line that could have opened it.
PassLineNested(acc, line) ==
    LET number == acc.number + 1
    IN  IF line.kind = "fence"
        THEN [acc EXCEPT !.number = number, !.fence = line, !.opened = number]
        ELSE IF acc.fence # None THEN [acc EXCEPT !.number = number]
        ELSE [acc EXCEPT !.number = number,
                         !.open = @ \union {At(number, line)}]

\* One turn of the loop of _unfenced_lines.
PassLine(acc, line) ==
    LET number == acc.number + 1
    IN  IF acc.fence # None
        THEN [acc EXCEPT !.number = number,
                         !.fence = IF Closes(line, acc.fence) THEN None ELSE @]
        ELSE IF line.kind = "fence"
        THEN [acc EXCEPT !.number = number, !.fence = line, !.opened = number]
        ELSE [acc EXCEPT !.number = number,
                         !.open = @ \union {At(number, line)}]

\* _unfenced_lines: the lines outside fences, numbered from line_offset on;
\* "fence" is None unless one is unclosed, and "opened" its line then.
Unfenced(text, offset) ==
    LET pass[n \in 0 .. Len(text)] ==
            IF n = 0
            THEN [number |-> offset, fence |-> None, opened |-> 0, open |-> {}]
            ELSE PassLine(pass[n - 1], text[n])
    IN  pass[Len(text)]

-----------------------------------------------------------------------------
(* Headings *)

\* What parsing ends with: an error and its line, or phases.
Error(what, line) == [error |-> what, line |-> line, phases |-> {}]

\* _find_headings
Headings(open) == Of(open, {"phase"})

\* Mutant: only neighbours are compared, for equality.
HeadingErrorNear(headings, h) ==
    LET above == Above(headings, h)
    IN  IF h.line.n < 1 THEN Error("not positive", h.number)
        ELSE IF above # {} /\ Latest(above).line.n = h.line.n
        THEN Error("duplicate number", h.number)
        ELSE Error(None, h.number)

\* One turn of the loop of _validate_headings.
HeadingError(headings, h) ==
    LET above == Above(headings, h)
    IN  IF h.line.n < 1 THEN Error("not positive", h.number)
        ELSE IF \E g \in above : g.line.n = h.line.n
        THEN Error("duplicate number", h.number)
        ELSE IF above # {} /\ h.line.n <= Latest(above).line.n
        THEN Error("not increasing", h.number)
        ELSE Error(None, h.number)

-----------------------------------------------------------------------------
(* One phase *)

HeadingKinds == {"phase", "workspace", "workspaceish", "heading"}

\* The non-blank lines below a heading, to the next one.
Section(open, heading) ==
    LET below == Below(open, heading)
        next == Of(below, HeadingKinds)
    IN  {l \in below : /\ l.line.kind # "blank"
                       /\ \A m \in next : l.number < m.number}

\* Mutant: numbers are those of the body.
OffsetOf(heading) == 0

\* What is added to the numbers of the lines of a body.
Offset(heading) == heading.number

\* _parse_workspace
Workspace(body, heading) ==
    LET unfenced == Unfenced(body, Offset(heading))
        open == unfenced.open
        wrong == Of(open, {"workspaceish"})
        right == Of(open, {"workspace"})
        content == Section(open, First(right))
    IN  IF unfenced.fence # None THEN Error("unclosed", unfenced.opened)
        ELSE IF wrong # {} THEN Error("not exact", First(wrong).number)
        ELSE IF right = {} THEN Error("missing", heading.number)
        ELSE IF right # {First(right)} THEN Error("twice", Second(right).number)
        ELSE IF content = {} THEN Error("empty", First(right).number)
        ELSE IF content # {First(content)}
        THEN Error("many lines", Second(content).number)
        ELSE IF First(content).line.kind = "absolute"
        THEN Error("absolute", First(content).number)
        ELSE Error(None, First(content).number)

\* Mutant: a phase runs up to the next heading, inclusive.
EndLineInclusive(text, headings, h) ==
    IF Below(headings, h) = {} THEN Len(text)
    ELSE First(Below(headings, h)).number

\* The last line of the phase with heading h.
EndLine(text, headings, h) ==
    IF Below(headings, h) = {} THEN Len(text)
    ELSE First(Below(headings, h)).number - 1

Body(text, headings, h) ==
    SubSeq(text, h.number + 1, EndLine(text, headings, h))

-----------------------------------------------------------------------------
(* The plan *)

\* read_plan_snapshot and _parse_phases.  A tuple of phases is the set of them:
\* their order is that of their lines.
Parse(text) ==
    LET garbled == Of(Lines(text), {"garbled"})
        whole == Unfenced(text, 0)
        headings == Headings(whole.open)
        place == [h \in headings |-> Workspace(Body(text, headings, h), h)]
        misnumbered == {h \in headings : HeadingError(headings, h).error # None}
        misplaced == {h \in headings : place[h].error # None}
    IN  IF garbled # {} THEN Error("garbled", First(garbled).number)
        ELSE IF whole.fence # None THEN Error("unclosed", whole.opened)
        ELSE IF headings = {} THEN Error("no phases", None)
        ELSE IF misnumbered # {} THEN HeadingError(headings, First(misnumbered))
        ELSE IF misplaced # {} THEN place[First(misplaced)]
        ELSE [error |-> None, line |-> None,
              phases |-> {[number |-> h.line.n, start |-> h.number,
                           end |-> EndLine(text, headings, h),
                           workspace |-> place[h].line] : h \in headings}]

-----------------------------------------------------------------------------
(* Every plan there is: an author adds line after line *)

VARIABLES plan, author

Init == plan = << >> /\ author \in Authors

Write ==
    /\ Len(plan) < author.max
    /\ \E line \in author.lines : plan' = Append(plan, line)
    /\ UNCHANGED author

Next == Write
Spec == Init /\ [][Next]_<<plan, author>>

-----------------------------------------------------------------------------
(* Properties *)

Accepted == Parse(plan).error = None

\* A block runs from a fence that is outside all blocks to the first fence that
\* ends it: at least as long, of the same character, without text.
Fences == {i \in DOMAIN plan : plan[i].kind = "fence"}
Enders(j) == {k \in Fences : /\ k > j /\ ~plan[k].info
                             /\ plan[k].mark = plan[j].mark
                             /\ plan[k].n >= plan[j].n}
End(j) == IF Enders(j) = {} THEN Len(plan) + 1
          ELSE CHOOSE k \in Enders(j) : \A l \in Enders(j) : k <= l

\* The fences that open a block: those below the end of each that does above.
Opening == CHOOSE S \in SUBSET Fences :
               \A j \in Fences : j \in S <=> \A i \in S : i < j => End(i) < j

Blocks == {<<j, End(j)>> : j \in Opening}

\* Line numbers of the lines outside blocks, and of those of some kinds.
Clear == LET blocks == Blocks
         IN  {i \in DOMAIN plan : \A b \in blocks : i < b[1] \/ i > b[2]}
Outside(kinds) == {i \in Clear : plan[i].kind \in kinds}
PhaseLines == Outside({"phase"})

\* The lines below line i and above all of the lines "ends" that are below it.
Until(i, ends) == {j \in DOMAIN plan : j > i /\ \A k \in ends : k > i => j < k}

\* The lines of the phase that line i heads.
Extent(i) == LET heads == PhaseLines IN Until(i, heads)

\* The lines that declare a workspace below the workspace heading i.
Declares(i) ==
    LET titles == Outside({"phase", "workspace", "workspaceish", "heading"})
    IN  Outside({"relative", "absolute"}) \intersect Until(i, titles)

\* A plan as docs/plan-format.md describes it, all lines considered at once.
WellFormed ==
    /\ \A i \in DOMAIN plan : plan[i].kind # "garbled"
    /\ \A b \in Blocks : b[2] <= Len(plan)
    /\ PhaseLines # {}
    /\ \A i \in PhaseLines : plan[i].n > 0
    /\ \A i, j \in PhaseLines : i < j => plan[i].n < plan[j].n
    /\ \A i \in PhaseLines :
          /\ Extent(i) \intersect Outside({"workspaceish"}) = {}
          /\ \E w \in Extent(i) :
                /\ Extent(i) \intersect Outside({"workspace"}) = {w}
                /\ \E d \in DOMAIN plan : /\ Declares(w) = {d}
                                          /\ plan[d].kind = "relative"

\* The parser accepts exactly the well-formed plans: parsing a body on its own
\* sees the fences that the whole plan has.
AcceptsWellFormed == Accepted <=> WellFormed

\* An accepted plan's phases are its headings, each with the line that declares
\* its own workspace, and every line after the preamble belongs to exactly one.
PhasesAreThePlan ==
    Accepted =>
        LET phases == Parse(plan).phases
            Spans(p) == p.start .. p.end
        IN  /\ {p.start : p \in phases} = PhaseLines
            /\ \A p \in phases :
                  /\ plan[p.start].n = p.number
                  /\ \E w \in Outside({"workspace"}) \intersect Spans(p) :
                        Declares(w) = {p.workspace}
            /\ \A i \in DOMAIN plan : (\E h \in PhaseLines : h <= i) =>
                  \E p \in phases : /\ i \in Spans(p)
                                    /\ \A q \in phases \ {p} : i \notin Spans(q)

\* What may stand at the line an error names.
Culprits(what) ==
    CASE what = "garbled" -> {i \in DOMAIN plan : plan[i].kind = "garbled"}
      [] what = "unclosed" -> {b[1] : b \in {c \in Blocks : c[2] > Len(plan)}}
      [] what = "no phases" -> {None}
      [] what = "not positive" -> {i \in PhaseLines : plan[i].n = 0}
      [] what \in {"duplicate number", "not increasing"} ->
            {i \in PhaseLines : \E j \in PhaseLines :
                j < i /\ plan[j].n >= plan[i].n}
      [] what = "not exact" -> Outside({"workspaceish"})
      [] what = "missing" ->
            {i \in PhaseLines :
                Extent(i) \intersect Outside({"workspace"}) = {}}
      [] what = "twice" ->
            {i \in Outside({"workspace"}) : \E h \in PhaseLines :
                /\ i \in Extent(h)
                /\ \E w \in Extent(h) \intersect Outside({"workspace"}) : w < i}
      [] what = "empty" -> {i \in Outside({"workspace"}) : Declares(i) = {}}
      [] what = "many lines" ->
            UNION {{i \in Declares(w) : \E d \in Declares(w) : d < i} :
                      w \in Outside({"workspace"})}
      [] what = "absolute" ->
            UNION {{i \in Declares(w) : plan[i].kind = "absolute"} :
                      w \in Outside({"workspace"})}

\* An error names the line of the file that is wrong, and not a line of a
\* phase's body or inside a fence.
ErrorsNameTheLine ==
    ~Accepted => Parse(plan).line \in Culprits(Parse(plan).error)
=============================================================================
