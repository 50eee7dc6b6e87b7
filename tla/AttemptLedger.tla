---------------------------- MODULE AttemptLedger ----------------------------
(***************************************************************************)
(* What state.json promises about a plan, with the handlers, workers,      *)
(* crashes and write failures left out: at most one attempt is open, every *)
(* phase is done at most once and for good, a phase whose attempt did not  *)
(* complete it stays the plan's next one, and an attempt that was claimed  *)
(* stays open until its outcome is entered or it is given up for a new     *)
(* attempt at the same phase.                                              *)
(***************************************************************************)
EXTENDS Naturals, Sequences

CONSTANTS Phases, Status, Complete, Nobody

VARIABLES
    open,     \* the claimed attempt [id, phase], or Nobody
    parked,   \* the phase the plan stopped on, or Nobody
    done,     \* completed phases, in order
    entries   \* outcomes entered: [attempt, phase, status], in order

ledger == <<open, parked, done, entries>>

Entry == [attempt : Nat, phase : Phases, status : Status]

LInit == /\ open = Nobody
         /\ parked = Nobody
         /\ done = << >>
         /\ entries = << >>

Done(p) == \E k \in DOMAIN done : done[k] = p
Entered(id) == \E k \in DOMAIN entries : entries[k].attempt = id

\* Claim an attempt at p: nothing is open, and p is the parked phase if one is.
LOpen(p, id) ==
    /\ open = Nobody
    /\ parked \in {Nobody, p}
    /\ ~Done(p) /\ ~Entered(id)
    /\ open' = [id |-> id, phase |-> p]
    /\ parked' = Nobody
    /\ UNCHANGED <<done, entries>>

\* Give the open attempt up, its result unknown, for a new one at its phase.
LReopen(id) ==
    /\ open # Nobody
    /\ id # open.id /\ ~Entered(id)
    /\ open' = [open EXCEPT !.id = id]
    /\ UNCHANGED <<parked, done, entries>>

\* Enter the outcome of the open attempt.
LConclude(status) ==
    /\ open # Nobody
    /\ entries' = Append(entries, [attempt |-> open.id, phase |-> open.phase,
                                   status |-> status])
    /\ \/ /\ status = Complete
          /\ done' = Append(done, open.phase)
          /\ parked' = Nobody
       \/ /\ status # Complete
          /\ parked' = open.phase
          /\ UNCHANGED done
    /\ open' = Nobody

\* Identifiers come from the step itself: open'.id is any natural number.
LNext ==
    \/ \E p \in Phases : open' # Nobody /\ open'.id \in Nat /\ LOpen(p, open'.id)
    \/ open' # Nobody /\ open'.id \in Nat /\ LReopen(open'.id)
    \/ \E status \in Status : LConclude(status)

LSpec == LInit /\ [][LNext]_ledger
=============================================================================
