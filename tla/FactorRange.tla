----------------------------- MODULE FactorRange -----------------------------
(***************************************************************************)
(* run_real_factor_daily_range of factors/real_factor_daily.py (Goal 23),   *)
(* composed with what Goal 22 promises (RangeEvidence): while a Goal 23     *)
(* process reads the manifests, reports, commits and objects of its         *)
(* history one by one, Goal 22 may rerun, fail, or publish a date under     *)
(* another run id.  Goal 23 itself runs one process at a time               *)
(* (docs/goal23_real_factor_daily.md, "Resume, status and concurrency").    *)
(*                                                                          *)
(* A target date is computed from the publications of all earlier dates of  *)
(* the catalog and of its own; its lineage stands for the input fingerprint,*)
(* which determines the factor values, and with the run id the generation.  *)
(***************************************************************************)
EXTENDS RangeEvidence

CONSTANTS
    FactorRuns,      \* Goal 23 run ids
    CatalogOf,       \* [FactorRuns -> the Goal 22 runs whose manifests it is given]
    TargetsOf,       \* [FactorRuns -> target dates]
    MaxFactorAttempts,
    MaxFree,         \* bound: processes with any flags
    MaxFaults,       \* bound: raised calls, refused inputs, crashes of Goal 23
    MaxTampers       \* bound: objects and commits of both goals lost or damaged

\* What is read of a publication, what a target rests on, and what a commit says.
Readings == [report : 0..MaxAttempts, commit : 0..MaxAttempts]
LineageEntry == [date : Dates, run : Runs, read : Readings]
Plans == [Runs -> {None} \cup [attempt : 0..MaxAttempts, closed : {Open} \cup SUBSET Dates]]
Commits == [run : FactorRuns, attempt : 1..MaxFactorAttempts, input : SUBSET LineageEntry]

ASSUME FactorAssumption ==
    /\ Dates \subseteq Nat \ {0}
    /\ DatesOf \in [Runs -> (SUBSET Dates) \ {{}}]
    /\ CatalogOf \in [FactorRuns -> (SUBSET Runs) \ {{}}]
    /\ TargetsOf \in [FactorRuns -> (SUBSET Dates) \ {{}}]
    /\ None \notin Runs \cup FactorRuns /\ None \notin Plans /\ None \notin Commits
    /\ MaxAttempts \in Nat /\ MaxFactorAttempts \in Nat /\ MaxFree \in Nat
    /\ MaxFaults \in Nat /\ MaxTampers \in Nat

VARIABLES
    fmanifest,   \* [FactorRuns -> [status, apply, attempt, plan, dates]]
    freport,     \* [FactorRuns -> [Dates -> [status, apply, attempt, input]]]
    fcommit,     \* [Dates -> [run, attempt, input] or None]
    staged,      \* factor generations in the store, <<run, date, input>>
    corrupt,     \* those of them that are damaged
    spoiled,     \* generations lost or damaged by someone else, until staged again
    job,         \* the process: [run, attempt, apply, reuse]
    pc, left, date, statuses, foutcome,
    catalog,     \* [Runs -> what was read from the manifest, None before]
    cache,       \* publication_cache: [Runs -> [Dates -> what was read, or None]]
    reading,     \* [report, commit]: the attempts that wrote those just read, or None
    stale,       \* history dates that were no longer as published when the target began
    free, faults, tampers

fstore == <<fmanifest, freport, fcommit, staged, corrupt, spoiled>>
memory == <<job, left, date, statuses, catalog, cache, reading, stale>>
bounds == <<free, faults, tampers>>
vars == <<evidence, fstore, memory, pc, foutcome, bounds>>

DateStatus == {"NONE", "PENDING", "RUNNING", "READY_FOR_APPLY", "COMPLETED", "BLOCKED", "FAILED"}
NoStatuses == [d \in Dates |-> "NONE"]
NoReport == [status |-> "NONE", apply |-> FALSE, attempt |-> 0, input |-> {}]
Unread == [u \in Runs |-> [d \in Dates |-> None]]

Init ==
    /\ EvidenceInit
    /\ fmanifest = [f \in FactorRuns |-> [status |-> "NONE", apply |-> FALSE, attempt |-> 0,
                                          plan |-> None, dates |-> NoStatuses]]
    /\ freport = [f \in FactorRuns |-> [d \in Dates |-> NoReport]]
    /\ fcommit = [d \in Dates |-> None]
    /\ staged = {} /\ corrupt = {} /\ spoiled = {}
    /\ job = [run |-> None, attempt |-> 0, apply |-> FALSE, reuse |-> FALSE]
    /\ pc = "idle" /\ left = {} /\ date = 0 /\ statuses = NoStatuses
    /\ foutcome = NoReport
    /\ catalog = [u \in Runs |-> None] /\ cache = Unread /\ reading = None /\ stale = {}
    /\ free = 0 /\ faults = 0 /\ tampers = 0

-----------------------------------------------------------------------------
(* The catalog and the history it gives a target date. *)

Catalog == CatalogOf[job.run]

\* _validate_goal22_manifest_payload: the manifest is one that --apply has closed.
Valid(u) == catalog[u].closed # Open

\* Who lists a date as COMPLETED.
Covering(h) == {u \in Catalog : Valid(u) /\ h \in catalog[u].closed}

History == {h \in Dates : h <= date /\ Covering(h) # {}}

\* An invalid manifest blocks every target that one of its dates could belong to.
Untrusted == \E u \in Catalog : ~Valid(u) /\ \E h \in DatesOf[u] : h <= date

\* Two manifests never agree: the manifest is part of the publication fingerprint.
Ambiguous == \E h \in History : \E u, v \in Covering(h) : u # v

\* Every publication a target date rests on, as its lineage identifies it.
Lineage == {[date |-> p[2], run |-> p[1], read |-> cache[p[1]][p[2]]] :
               p \in {q \in Catalog \X History : q[1] \in Covering(q[2])}}

Generation == <<job.run, date, Lineage>>
Sound(g) == g \in staged \ corrupt

\* Is a publication what the catalog said it was?
StillPublished(u, h) ==
    /\ attested[u][h] = catalog[u].attempt
    /\ published[h] # None /\ published[h].run = u
    /\ <<u, h>> \notin damaged

Evidence(status) == [status |-> status, apply |-> job.apply, attempt |-> job.attempt, input |-> {}]

\* Mutant: a word that no reader knows.
MutantConclude(status) ==
    /\ foutcome' = Evidence("UNCOMMITTED")
    /\ pc' = "report"

\* The target is over; its report is written next.
Conclude(status) ==
    /\ foutcome' = Evidence(status)
    /\ pc' = "report"

\* The report of a published date carries its input fingerprint.
Complete ==
    /\ foutcome' = [Evidence("COMPLETED") EXCEPT !.input = Lineage]
    /\ pc' = "report"

WriteManifest(status, s) ==
    fmanifest' = [fmanifest EXCEPT ![job.run] =
        [@ EXCEPT !.status = status, !.apply = job.apply, !.attempt = job.attempt, !.dates = s]]

\* _range_status
StatusOf(s) ==
    LET good == IF job.apply THEN "COMPLETED" ELSE "READY_FOR_APPLY"
        seen == {s[d] : d \in TargetsOf[job.run]}
    IN  IF seen = {good} THEN good
        ELSE IF good \in seen THEN "PARTIAL"
        ELSE IF "BLOCKED" \in seen THEN "BLOCKED" ELSE "FAILED"

NextDate(d) == d \in left /\ \A e \in left : d <= e
Fault == faults < MaxFaults /\ faults' = faults + 1

-----------------------------------------------------------------------------
(* The range. *)

StartFactorRun(f, a, r) ==
    /\ pc = "idle"
    /\ fmanifest[f].attempt < MaxFactorAttempts
    /\ \A u \in CatalogOf[f] : attempt[u] > 0
    /\ job' = [run |-> f, attempt |-> fmanifest[f].attempt + 1, apply |-> a, reuse |-> r]
    /\ catalog' = [u \in Runs |-> None]
    /\ pc' = "load"
    /\ UNCHANGED <<evidence, fstore, left, date, statuses, cache, reading, stale, foutcome,
                   faults, tampers>>

\* Every date the catalog owes the targets of a run is there, once.
Fit(f) ==
    /\ \A u \in CatalogOf[f] : closed[u] # Open
    /\ \A d \in TargetsOf[f] : \E u \in CatalogOf[f] : d \in closed[u]
    /\ \A u \in CatalogOf[f] : \A h \in closed[u] :
          /\ attested[u][h] = attempt[u] /\ published[h] # None /\ published[h].run = u
          /\ <<u, h>> \notin damaged
          /\ \A v \in CatalogOf[f] \ {u} : h \notin closed[v]

\* Any command line, at any time.
FreeRun(f) ==
    /\ free < MaxFree /\ free' = free + 1
    /\ \E a, r \in BOOLEAN : StartFactorRun(f, a, r)

\* The documented --apply, repeated as long as Goal 22 is ready for it.
ResumeRun(f) ==
    /\ Fit(f)
    /\ fmanifest[f].status # "COMPLETED"
    /\ StartFactorRun(f, TRUE, TRUE)
    /\ UNCHANGED free

\* load_goal22_manifest_catalog: one manifest after the other, once per process.
LoadManifest ==
    /\ pc = "load"
    /\ \E u \in Catalog :
          /\ catalog[u] = None
          /\ catalog' = [catalog EXCEPT ![u] = [attempt |-> attempt[u], closed |-> closed[u]]]
    /\ UNCHANGED <<evidence, fstore, job, left, date, statuses, cache, reading, stale, pc,
                   foutcome, bounds>>

Loaded == pc = "load" /\ \A u \in Catalog : catalog[u] # None

\* The plan holds the checksums of the manifests; a run id keeps its plan.
OpenFactorRange ==
    /\ Loaded
    /\ fmanifest[job.run].plan \in {None, catalog}
    /\ statuses' = [d \in Dates |-> IF d \in TargetsOf[job.run] THEN "PENDING" ELSE "NONE"]
    /\ fmanifest' = [fmanifest EXCEPT ![job.run] =
           [status |-> "RUNNING", apply |-> job.apply, attempt |-> job.attempt,
            plan |-> catalog, dates |-> statuses']]
    /\ left' = TargetsOf[job.run]
    /\ cache' = Unread
    /\ pc' = "pending"
    /\ UNCHANGED <<evidence, freport, fcommit, staged, corrupt, spoiled, job, date, catalog,
                   reading, stale, foutcome, bounds>>

\* "run_id scope does not match existing manifest": nothing is written.  Two RUNNING
\* manifests of one attempt differ in the code and not here, so an untrusted catalog
\* may always be refused.
RefusePlan ==
    /\ Loaded
    /\ fmanifest[job.run].plan # None
    /\ \/ fmanifest[job.run].plan # catalog
       \/ \E u \in Catalog : catalog[u].closed = Open
    /\ pc' = "idle"
    /\ UNCHANGED <<evidence, fstore, memory, foutcome, bounds>>

WritePending ==
    /\ pc = "pending"
    /\ \E d \in left :
          /\ NextDate(d)
          /\ freport' = [freport EXCEPT ![job.run][d] = Evidence("PENDING")]
          /\ IF left = {d} THEN pc' = "next" /\ left' = TargetsOf[job.run]
                           ELSE pc' = "pending" /\ left' = left \ {d}
    /\ UNCHANGED <<evidence, fmanifest, fcommit, staged, corrupt, spoiled, job, date, statuses,
                   catalog, cache, reading, stale, foutcome, bounds>>

BeginTarget ==
    /\ pc = "next"
    /\ \E d \in left :
          /\ NextDate(d)
          /\ date' = d
          /\ freport' = [freport EXCEPT ![job.run][d] = Evidence("RUNNING")]
          /\ statuses' = [statuses EXCEPT ![d] = "RUNNING"]
    /\ pc' = "mark"
    /\ UNCHANGED <<evidence, fmanifest, fcommit, staged, corrupt, spoiled, job, left, catalog,
                   cache, reading, stale, foutcome, bounds>>

MarkRunning ==
    /\ pc = "mark"
    /\ WriteManifest("RUNNING", statuses)
    /\ stale' = {h \in History : \A u \in Covering(h) : ~StillPublished(u, h)}
    /\ pc' = "history"
    /\ UNCHANGED <<evidence, freport, fcommit, staged, corrupt, spoiled, job, left, date,
                   statuses, catalog, cache, reading, foutcome, bounds>>

WriteReport ==
    /\ pc = "report"
    /\ freport' = [freport EXCEPT ![job.run][date] = foutcome]
    /\ statuses' = [statuses EXCEPT ![date] = foutcome.status]
    /\ pc' = "done"
    /\ UNCHANGED <<evidence, fmanifest, fcommit, staged, corrupt, spoiled, job, left, date,
                   catalog, cache, reading, stale, foutcome, bounds>>

MarkDone ==
    /\ pc = "done"
    /\ WriteManifest("RUNNING", statuses)
    /\ left' = left \ {date}
    /\ pc' = "next"
    /\ UNCHANGED <<evidence, freport, fcommit, staged, corrupt, spoiled, job, date, statuses,
                   catalog, cache, reading, stale, foutcome, bounds>>

CloseManifest ==
    /\ pc = "next" /\ left = {}
    /\ WriteManifest(StatusOf(statuses), statuses)
    /\ pc' = "idle"
    /\ UNCHANGED <<evidence, freport, fcommit, staged, corrupt, spoiled, memory, foutcome, bounds>>

-----------------------------------------------------------------------------
(* The history of a target: reports, commits and objects, oldest date first. *)

UnchangedBut == UNCHANGED <<evidence, fstore, job, left, date, statuses, catalog, bounds>>

BlockTarget ==
    /\ pc = "history"
    /\ Untrusted \/ date \notin History \/ Ambiguous
    /\ Conclude("BLOCKED")
    /\ UnchangedBut /\ UNCHANGED <<cache, reading, stale>>

\* The next publication that this process has not read before.
Unseen(u, h) ==
    /\ h \in History /\ u \in Covering(h) /\ cache[u][h] = None
    /\ \A g \in History : g < h => \A v \in Covering(g) : cache[v][g] # None

Coherent == ~Untrusted /\ date \in History /\ ~Ambiguous

\* Mutant: any completed report will do.
MutantReadReport ==
    /\ pc = "history" /\ Coherent
    /\ \E u \in Runs, h \in Dates :
          /\ Unseen(u, h)
          /\ IF attested[u][h] > 0
             THEN /\ reading' = [report |-> attested[u][h], commit |-> 0]
                  /\ pc' = "commit22" /\ UNCHANGED foutcome
             ELSE Conclude("BLOCKED") /\ UNCHANGED reading
    /\ UnchangedBut /\ UNCHANGED <<cache, stale>>

\* _validate_goal22_daily_report
ReadReport ==
    /\ pc = "history" /\ Coherent
    /\ \E u \in Runs, h \in Dates :
          /\ Unseen(u, h)
          /\ IF attested[u][h] = catalog[u].attempt
             THEN /\ reading' = [report |-> attested[u][h], commit |-> 0]
                  /\ pc' = "commit22" /\ UNCHANGED foutcome
             ELSE Conclude("BLOCKED") /\ UNCHANGED reading
    /\ UnchangedBut /\ UNCHANGED <<cache, stale>>

\* _validate_goal22_commit_for_manifest
ReadCommit ==
    /\ pc = "commit22"
    /\ \E u \in Runs, h \in Dates :
          /\ Unseen(u, h)
          /\ IF published[h] # None /\ published[h].run = u
             THEN /\ reading' = [reading EXCEPT !.commit = published[h].attempt]
                  /\ pc' = "objects22" /\ UNCHANGED foutcome
             ELSE Conclude("BLOCKED") /\ reading' = None
    /\ UnchangedBut /\ UNCHANGED <<cache, stale>>

\* The generation named by that commit, and the benchmark version of the plan.
ReadObjects ==
    /\ pc = "objects22"
    /\ \E u \in Runs, h \in Dates :
          /\ Unseen(u, h)
          /\ IF <<u, h>> \notin damaged
             THEN /\ cache' = [cache EXCEPT ![u][h] = reading]
                  /\ pc' = "history" /\ UNCHANGED foutcome
             ELSE Conclude("BLOCKED") /\ UNCHANGED cache
    /\ reading' = None
    /\ UnchangedBut /\ UNCHANGED stale

\* The whole history was read, now or for an earlier target; the factors are computed.
ComputeFactors ==
    /\ pc = "history" /\ Coherent
    /\ \A h \in History : \A u \in Covering(h) : cache[u][h] # None
    /\ IF job.apply THEN pc' = "find" /\ UNCHANGED foutcome ELSE Conclude("READY_FOR_APPLY")
    /\ UnchangedBut /\ UNCHANGED <<cache, reading, stale>>

\* A read fails, or the factors do not validate.
HistoryRefused ==
    /\ pc \in {"history", "commit22", "objects22"}
    /\ Fault
    /\ \E s \in {"BLOCKED", "FAILED"} : Conclude(s)
    /\ reading' = None
    /\ UNCHANGED <<evidence, fstore, job, left, date, statuses, catalog, cache, stale, free,
                   tampers>>

-----------------------------------------------------------------------------
(* The publication of a target. *)

\* Mutant: whoever published the date, it is complete.
MutantMatches == fcommit[date] # None /\ Sound(<<fcommit[date].run, date, fcommit[date].input>>)

\* _completed_factor_commit_matches
Matches ==
    /\ fcommit[date] # None /\ fcommit[date].run = job.run /\ fcommit[date].input = Lineage
    /\ Sound(Generation)

FindCommitted ==
    /\ pc = "find"
    /\ IF job.reuse /\ Matches THEN Complete ELSE pc' = "stage" /\ UNCHANGED foutcome
    /\ UNCHANGED <<evidence, fstore, memory, bounds>>

\* Mutant: a generation that is there is a conflict, whatever it holds.
MutantRestage ==
    /\ pc = "stage"
    /\ \/ Generation \notin staged /\ pc' = "write" /\ UNCHANGED foutcome
       \/ Generation \in staged /\ Conclude("FAILED")
    /\ UNCHANGED <<evidence, fstore, memory, bounds>>

\* Mutant: the commit does not wait for the generation.
MutantStageFactors ==
    /\ pc = "stage"
    /\ \/ Generation \notin corrupt /\ pc' = "commit" /\ UNCHANGED foutcome
       \/ Generation \in corrupt /\ Conclude("FAILED")
    /\ UNCHANGED <<evidence, fstore, memory, bounds>>

\* A generation that is there is never overwritten.
StageFactors ==
    /\ pc = "stage"
    /\ \/ Generation \notin staged /\ pc' = "write" /\ UNCHANGED foutcome
       \/ Sound(Generation) /\ pc' = "readback" /\ UNCHANGED foutcome
       \/ Generation \in corrupt /\ Conclude("FAILED")
    /\ UNCHANGED <<evidence, fstore, memory, bounds>>

PutGeneration ==
    /\ staged' = staged \cup {Generation}
    /\ corrupt' = corrupt \ {Generation}
    /\ spoiled' = spoiled \ {Generation}
    /\ UNCHANGED <<fmanifest, freport, fcommit>>

WriteFactors ==
    /\ pc = "write"
    /\ PutGeneration
    /\ pc' = "readback"
    /\ UNCHANGED <<evidence, memory, foutcome, bounds>>

ReadBack ==
    /\ pc = "readback"
    /\ IF Sound(Generation) THEN pc' = "commit" /\ UNCHANGED foutcome ELSE Conclude("FAILED")
    /\ UNCHANGED <<evidence, fstore, memory, bounds>>

PutCommit ==
    /\ fcommit' = [fcommit EXCEPT ![date] =
                      [run |-> job.run, attempt |-> job.attempt, input |-> Lineage]]
    /\ UNCHANGED <<fmanifest, freport, staged, corrupt, spoiled>>

WriteCommit ==
    /\ pc = "commit"
    /\ PutCommit
    /\ pc' = "verify"
    /\ UNCHANGED <<evidence, memory, foutcome, bounds>>

VerifyCommitted ==
    /\ pc = "verify"
    /\ IF Matches THEN Complete ELSE Conclude("FAILED")
    /\ UNCHANGED <<evidence, fstore, memory, bounds>>

\* A call to the object store raises, before or after it took effect.
StoreRaises ==
    /\ pc \in {"find", "stage", "write", "readback", "commit", "verify"}
    /\ Fault
    /\ \/ UNCHANGED fstore
       \/ pc = "write" /\ PutGeneration
       \/ pc = "commit" /\ PutCommit
    /\ Conclude("FAILED")
    /\ UNCHANGED <<evidence, memory, free, tampers>>

-----------------------------------------------------------------------------
(* Around the process. *)

\* The process dies, a control write raises, or a manifest cannot be read.
Crash ==
    /\ pc # "idle"
    /\ Fault
    /\ pc' = "idle" /\ reading' = None
    /\ UNCHANGED <<evidence, fstore, job, left, date, statuses, catalog, cache, stale, foutcome,
                   free, tampers>>

\* Goal 22 goes on.
Goal22 == (\E u \in Runs : Runner(u)) /\ UNCHANGED <<fstore, memory, pc, foutcome, bounds>>

\* Somebody else loses or damages what either goal published.
Tamper ==
    /\ tampers < MaxTampers /\ tampers' = tampers + 1
    /\ \/ Misfortune /\ UNCHANGED fstore
       \/ /\ \E g \in staged \ corrupt :
                /\ spoiled' = spoiled \cup {g}
                /\ \/ staged' = staged \ {g} /\ UNCHANGED corrupt
                   \/ corrupt' = corrupt \cup {g} /\ UNCHANGED staged
          /\ UNCHANGED <<evidence, fmanifest, freport, fcommit>>
       \/ /\ \E d \in Dates : fcommit[d] # None /\ fcommit' = [fcommit EXCEPT ![d] = None]
          /\ UNCHANGED <<evidence, fmanifest, freport, staged, corrupt, spoiled>>
    /\ UNCHANGED <<memory, pc, foutcome, free, faults>>

Process ==
    \/ LoadManifest \/ OpenFactorRange \/ RefusePlan \/ WritePending \/ BeginTarget
    \/ MarkRunning \/ BlockTarget \/ ReadReport \/ ReadCommit \/ ReadObjects \/ ComputeFactors
    \/ FindCommitted \/ StageFactors \/ WriteFactors \/ ReadBack \/ WriteCommit
    \/ VerifyCommitted \/ WriteReport \/ MarkDone \/ CloseManifest

Fails == HistoryRefused \/ StoreRaises \/ Crash

Next ==
    \/ \E f \in FactorRuns : FreeRun(f) \/ ResumeRun(f)
    \/ Process \/ Fails \/ Goal22 \/ Tamper

Spec == Init /\ [][Next]_vars

\* The process takes its steps, and every unfinished run is repeated.
FairSpec == Spec /\ WF_vars(Process) /\ \A f \in FactorRuns : SF_vars(ResumeRun(f))

-----------------------------------------------------------------------------
(* Properties. *)

Manifests == [status : DateStatus \cup {"PARTIAL"}, apply : BOOLEAN, attempt : 0..MaxFactorAttempts,
              plan : {None} \cup Plans, dates : [Dates -> DateStatus]]
Reports == [status : DateStatus, apply : BOOLEAN, attempt : 0..MaxFactorAttempts,
            input : SUBSET LineageEntry]

TypeOK ==
    /\ fmanifest \in [FactorRuns -> Manifests]
    /\ freport \in [FactorRuns -> [Dates -> Reports]]
    /\ fcommit \in [Dates -> {None} \cup Commits]
    /\ corrupt \subseteq staged
    /\ job \in [run : {None} \cup FactorRuns, attempt : 0..MaxFactorAttempts, apply : BOOLEAN,
               reuse : BOOLEAN]
    /\ catalog \in Plans
    /\ cache \in [Runs -> [Dates -> {None} \cup Readings]]
    /\ reading \in {None} \cup Readings
    /\ statuses \in [Dates -> DateStatus] /\ foutcome \in Reports
    /\ left \subseteq Dates /\ date \in {0} \cup Dates /\ stale \subseteq Dates
    /\ free \in 0..MaxFree /\ faults \in 0..MaxFaults /\ tampers \in 0..MaxTampers

\* The commit of a date names a generation that was read back before.
CommittedIsComplete ==
    \A d \in Dates : fcommit[d] # None =>
        LET g == <<fcommit[d].run, d, fcommit[d].input>> IN Sound(g) \/ g \in spoiled

\* What a published date rests on are exactly the dates that the manifests of its plan
\* list up to it, each once, and each vouched for by the very attempt that closed its
\* manifest, however often Goal 22 was repeated while the history was read.
HistoryIsOfThePlan ==
    \A d \in Dates : fcommit[d] # None =>
        LET plan == fmanifest[fcommit[d].run].plan
            listed == {p \in Dates \X Runs :
                          /\ plan[p[2]] # None /\ plan[p[2]].closed # Open
                          /\ p[1] <= d /\ p[1] \in plan[p[2]].closed}
        IN  /\ plan # None
            /\ {<<e.date, e.run>> : e \in fcommit[d].input} = listed
            /\ \A e \in fcommit[d].input : e.read.report = plan[e.run].attempt
            /\ \A e, g \in fcommit[d].input : e.date = g.date => e = g

\* "A missing, changed, uncommitted or contradictory artifact blocks the affected
\* target" (docs/goal23_real_factor_daily.md): a target is not completed from a history
\* date that was no longer as published when the target began.
ChangedHistoryBlocks ==
    pc = "report" /\ foutcome.status = "COMPLETED" => stale = {}

Settled(f) ==
    /\ fmanifest[f].plan # None
    /\ \A u \in CatalogOf[f] :
          fmanifest[f].plan[u] = [attempt |-> attempt[u], closed |-> closed[u]]

\* Repeating a run completes it, unless its input is not fit, or its plan was frozen
\* with manifests that have changed since: then only a new run id helps.
CompletesUnlessDrifted ==
    \A f \in FactorRuns :
        <>[](fmanifest[f].status = "COMPLETED" \/ ~Fit(f) \/ ~Settled(f))

\* What Goal 24 reads of this range: the attempts, the dates that a closed manifest of a
\* run that applied lists as COMPLETED, the attempts its reports vouch for, the commits.
Attempts == [f \in FactorRuns |-> fmanifest[f].attempt]
Closes(m, f) == IF m.apply /\ m.status \notin {"NONE", "RUNNING"}
                THEN {d \in TargetsOf[f] : m.dates[d] = "COMPLETED"} ELSE None
Closed == [f \in FactorRuns |-> Closes(fmanifest[f], f)]
Vouched(r) == IF r.status = "COMPLETED" THEN r.attempt ELSE 0
Attested == [f \in FactorRuns |-> [d \in Dates |-> Vouched(freport[f][d])]]
Named(c) == IF c = None THEN None ELSE [run |-> c.run, attempt |-> c.attempt]
Published == [d \in Dates |-> Named(fcommit[d])]

FactorPromise == INSTANCE RangeEvidence WITH
    Runs <- FactorRuns, DatesOf <- TargetsOf, Open <- None, MaxAttempts <- MaxFactorAttempts,
    attempt <- Attempts, closed <- Closed, attested <- Attested, published <- Published,
    damaged <- {}

\* Goal 23 keeps the same promise to Goal 24 as Goal 22 keeps to Goal 23.
ImplementsEvidence == FactorPromise!EvidenceSpec
=============================================================================
