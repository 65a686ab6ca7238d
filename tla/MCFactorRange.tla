---------------------------- MODULE MCFactorRange ----------------------------
EXTENDS FactorRange, TLC

CONSTANTS wide, narrow, early, late, LastDate

MCDates == 1..LastDate

\* One Goal 22 run covers all dates, the other republishes the first.
MCDatesOf == [u \in Runs |-> IF u = wide THEN MCDates ELSE {1}]

\* Goal 23 is given the first, or both.
WideCatalog == [x \in FactorRuns |-> {wide}]
BothCatalogs == early :> {wide} @@ late :> {wide, narrow}
AllTargets == [x \in FactorRuns |-> MCDates]
=============================================================================
