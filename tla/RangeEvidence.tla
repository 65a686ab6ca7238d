---------------------------- MODULE RangeEvidence ----------------------------
(***************************************************************************)
(* What the range runner of Goal 22 promises to those who read it: for each *)
(* run id the attempt number and the dates its closed manifest lists as     *)
(* COMPLETED, the attempt each daily report vouches for, and for each date  *)
(* whose generation its commit names.  Goal 23 accepts a publication when   *)
(* the three agree (_validate_goal22_daily_report and                       *)
(* _validate_goal22_commit_for_manifest of factors/real_factor_daily.py).   *)
(***************************************************************************)
EXTENDS Naturals

CONSTANTS Runs, Dates, DatesOf, None, Open,
    MaxAttempts     \* bound: attempts of one run

VARIABLES
    attempt,     \* [Runs -> Nat]
    closed,      \* [Runs -> the dates its manifest vouches for, or Open]
    attested,    \* [Runs -> [Dates -> the attempt its report vouches for, or 0]]
    published,   \* [Dates -> [run, attempt] of the commit, or None]
    damaged      \* publications whose objects were lost or changed

evidence == <<attempt, closed, attested, published, damaged>>

EvidenceInit ==
    /\ attempt = [u \in Runs |-> 0]
    /\ closed = [u \in Runs |-> Open]
    /\ attested = [u \in Runs |-> [d \in Dates |-> 0]]
    /\ published = [d \in Dates |-> None]
    /\ damaged = {}

\* A new attempt takes the trust from the manifest before it touches anything.
OpenRange(u) ==
    /\ attempt[u] < MaxAttempts
    /\ attempt' = [attempt EXCEPT ![u] = @ + 1]
    /\ closed' = [closed EXCEPT ![u] = Open]
    /\ UNCHANGED <<attested, published, damaged>>

\* An attempt is under way, or was left by its process.
Opened(u) == attempt[u] > 0 /\ closed[u] = Open

Withdraw(u, d) ==
    /\ Opened(u)
    /\ attested' = [attested EXCEPT ![u][d] = 0]
    /\ UNCHANGED <<attempt, closed, published, damaged>>

\* A commit replaces that of any other run.
Publish(u, d) ==
    /\ Opened(u)
    /\ published' = [published EXCEPT ![d] = [run |-> u, attempt |-> attempt[u]]]
    /\ UNCHANGED <<attempt, closed, attested, damaged>>

\* Only what is published, and by this run, is reported COMPLETED; None is a
\* commit lost in between.
Attest(u, d) ==
    /\ Opened(u)
    /\ published[d] # None => published[d].run = u
    /\ attested' = [attested EXCEPT ![u][d] = attempt[u]]
    /\ UNCHANGED <<attempt, closed, published, damaged>>

\* A closed manifest vouches for the dates that its own attempt completed.
CloseRange(u) ==
    /\ Opened(u)
    /\ closed' = [closed EXCEPT ![u] =
                     {d \in DatesOf[u] : attested[u][d] = attempt[u]}]
    /\ UNCHANGED <<attempt, attested, published, damaged>>

Repair(u, d) ==
    /\ Opened(u)
    /\ damaged' = damaged \ {<<u, d>>}
    /\ UNCHANGED <<attempt, closed, attested, published>>

Damage(u, d) ==
    /\ damaged' = damaged \cup {<<u, d>>}
    /\ UNCHANGED <<attempt, closed, attested, published>>

LoseCommit(d) ==
    /\ published' = [published EXCEPT ![d] = None]
    /\ UNCHANGED <<attempt, closed, attested, damaged>>

Runner(u) ==
    \/ OpenRange(u) \/ CloseRange(u)
    \/ \E d \in DatesOf[u] : Withdraw(u, d) \/ Publish(u, d) \/ Attest(u, d) \/ Repair(u, d)

Misfortune == \E d \in Dates : LoseCommit(d) \/ \E u \in Runs : Damage(u, d)

EvidenceNext == Misfortune \/ \E u \in Runs : Runner(u)

EvidenceSpec == EvidenceInit /\ [][EvidenceNext]_evidence
=============================================================================
