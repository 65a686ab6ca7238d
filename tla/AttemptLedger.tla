----------------------------- MODULE AttemptLedger -----------------------------
(***************************************************************************)
(* What the checkpointed executors of this repository promise of a unit of  *)
(* work, seen from outside: its attempts are numbered one after the other,  *)
(* each gets at most one outcome, and gets it while it is the latest.  An   *)
(* attempt whose process died may stay open for ever.                       *)
(***************************************************************************)
EXTENDS Naturals, Sequences

CONSTANT Items    \* units of work: the chunks of a plan

VARIABLE log      \* [Items -> Seq(outcome)], one entry per attempt

Outcomes == {"STAGED", "COMPLETED", "FAILED", "BLOCKED", "INTERRUPTED"}

Init == log = [i \in Items |-> <<>>]

Begin(i) == log' = [log EXCEPT ![i] = Append(@, "open")]

Settle(i) ==
    /\ log[i] # <<>> /\ log[i][Len(log[i])] = "open"
    /\ \E o \in Outcomes : log' = [log EXCEPT ![i][Len(log[i])] = o]

Next == \E i \in Items : Begin(i) \/ Settle(i)

Spec == Init /\ [][Next]_log
=============================================================================
