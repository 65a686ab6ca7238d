---------------------------- MODULE MCCleanInputs ----------------------------
EXTENDS CleanInputs, TLC

CONSTANTS c1, c2, x, LastDate

MCDates == 1..LastDate

\* One audited code; the other is of the partitions only.
NarrowScope == [b \in Batches |-> {c1}]
AllDates == [b \in Batches |-> MCDates]

\* A provider answers for the partition, or misses the audited code.
MCAnswers == {c1 :> 1 @@ c2 :> 1, c1 :> 0 @@ c2 :> 1}

\* Upstream knows an interval, and may withdraw it.
MCUpstream == [ds \in Supplied |-> c1 :> 1 @@ c2 :> 0]
MCCorrections == {<<"st_history", c1, 0>>}

\* Somebody else rewrites an audited row.
MCRewrites == {<<"adj_factor", c1, 2>>}

\* Goal 13 left an adj_factor staging for the batch.
MCGoal13 == [b \in Batches |-> [rows |-> c1 :> 1 @@ c2 :> 0, proven |-> TRUE]]
=============================================================================
