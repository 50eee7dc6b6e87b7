------------------------------- MODULE Handoff -------------------------------
(***************************************************************************)
(* What a worker's prompt tells of the attempts before it (prompts.py,     *)
(* summarize_handoff_context): the summary of the last run, and an index   *)
(* of the outcomes committed earlier.                                      *)
(***************************************************************************)
EXTENDS PlanRunner, Filters

\* Mutant: the last committed outcome is left to the summary.
EarlierButLast(s) ==
    IF s.outcomes = << >> THEN << >>
    ELSE SubSeq(s.outcomes, 1, Len(s.outcomes) - 1)

\* The index.  A path names its attempt; a last run that was never linked has
\* no path, so that none is left out for it.
Earlier(s) ==
    Filter(s.outcomes, {o \in Range(s.outcomes) :
                          ~(s.last # None /\ s.last.linked
                               /\ o.attempt = s.last.attempt)})

\* Index and summary, as one sequence of attempts and how they ended.
Told(s) ==
    Earlier(s) \o
    IF s.last = None THEN << >>
    ELSE <<[attempt |-> s.last.attempt, phase |-> s.last.phase,
            status |-> s.last.status]>>

\* The prompt is rendered, from the state that claims its attempt, when the
\* attempt's artifacts are made.
Rendering(h) == pc[h] = "artifacts"

-----------------------------------------------------------------------------
(* Properties *)

\* A worker is told of every committed outcome and of no attempt twice, and no
\* attempt is presented to it as completed unless its worker succeeded
\* (docs/state-and-recovery.md: the index "keeps every earlier committed
\* outcome discoverable").
HandoffIsWhole ==
    \A h \in Handlers : Rendering(h) =>
        LET told == Told(mem[h]) IN
        /\ Range(mem[h].outcomes) \subseteq Range(told)
        /\ \A i, j \in DOMAIN told : told[i].attempt = told[j].attempt => i = j
        /\ \A i \in DOMAIN told : told[i].status = "phase-complete" =>
              LET w == worker[told[i].attempt]
              IN  w.phase = told[i].phase /\ w.result # None /\ Success(w.result)

\* The summary a worker is given is that of the newest attempt before its own:
\* one whose handler died, or whose outcome could not be recorded, is not
\* passed over for one that was.
HandoffIsOfTheNewest ==
    \A h \in Handlers : Rendering(h) =>
        \A a \in Attempts \ {Mine(h)} :
            Launched(a) => mem[h].last # None /\ a <= mem[h].last.attempt
=============================================================================
