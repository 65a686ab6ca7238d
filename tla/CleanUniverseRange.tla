-------------------------- MODULE CleanUniverseRange --------------------------
(***************************************************************************)
(* run_real_clean_universe_range of data/real_clean_universe.py (Goal 22)   *)
(* with the object and commit writers of cli.py: the runs of several run    *)
(* ids over overlapping dates, one process at a time                        *)
(* (docs/goal22_real_clean_universe.md: "serialize overlapping              *)
(* publishers").  Unlike the commit of Goal 24, the commit of a date is     *)
(* overwritten by whoever publishes it next.                                *)
(*                                                                          *)
(* The plan of a run id freezes its dates and the versions and checksums of *)
(* its inputs, so the outputs of a date, and the generation id hashed from  *)
(* them and the run id, are functions of the run id and the date.  All      *)
(* dates of a run are attempted by every process of it: their attempt       *)
(* numbers are always equal, and one number stands for them.                *)
(***************************************************************************)
EXTENDS Naturals

CONSTANTS
    Runs,            \* run ids
    LastDate,        \* trade dates are 1..LastDate
    DatesOf,         \* [Runs -> the dates of the plan]
    OutputCount,     \* output datasets of a date, staged in this order
    None,            \* no commit, no process
    MaxAttempts,     \* bound: processes of one run id
    MaxFree,         \* bound: processes started although the run is COMPLETED or in any mode
    MaxFaults,       \* bound: raised calls, refused inputs, crashes
    MaxTampers       \* bound: objects and commits lost or damaged by someone else

Dates == 1..LastDate
Outputs == 1..OutputCount

ASSUME RangeAssumption ==
    /\ LastDate \in Nat /\ OutputCount \in Nat \ {0}
    /\ DatesOf \in [Runs -> (SUBSET Dates) \ {{}}]
    /\ None \notin Runs
    /\ MaxAttempts \in Nat /\ MaxFree \in Nat /\ MaxFaults \in Nat /\ MaxTampers \in Nat

VARIABLES
    manifest,   \* [Runs -> Manifest], manifest.json of the run id
    report,     \* [Runs -> [Dates -> Report]], the daily DQ reports
    commit,     \* [Dates -> the run and attempt that wrote commit.json, or None]
    objects,    \* [Runs -> [Dates -> [Outputs -> state]]], the generations
    run, attempt, apply, reuse,    \* the process: its run id, attempt number and flags
    pc,         \* its next call
    left,       \* dates it has not finished
    date, out,  \* the date and the output it works on
    statuses,   \* date_statuses
    outcome,    \* what it is about to report on the date
    free, faults, tampers,
    spoiled     \* generations damaged by someone else

store == <<manifest, report, commit, objects>>
job == <<run, attempt, apply, reuse>>
bounds == <<free, faults, tampers>>
vars == <<store, job, pc, left, date, out, statuses, outcome, bounds, spoiled>>

DateStatus == {"NONE", "PENDING", "RUNNING", "READY_FOR_APPLY", "COMPLETED", "BLOCKED", "FAILED"}
CommitStatus == {"PENDING", "COMMITTED", "UNCOMMITTED", "NOT_REQUESTED"}
RangeStatus == {"NONE", "RUNNING", "READY_FOR_APPLY", "COMPLETED", "PARTIAL", "BLOCKED", "FAILED"}

Manifest == [status : RangeStatus, apply : BOOLEAN, attempt : 0..MaxAttempts,
             dates : [Dates -> DateStatus]]
Report == [status : DateStatus, commit : CommitStatus, apply : BOOLEAN, attempt : 0..MaxAttempts]

NoStatuses == [d \in Dates |-> "NONE"]
NoReport == [status |-> "NONE", commit |-> "PENDING", apply |-> FALSE, attempt |-> 0]

Init ==
    /\ manifest = [u \in Runs |-> [status |-> "NONE", apply |-> FALSE, attempt |-> 0,
                                   dates |-> NoStatuses]]
    /\ report = [u \in Runs |-> [d \in Dates |-> NoReport]]
    /\ commit = [d \in Dates |-> None]
    /\ objects = [u \in Runs |-> [d \in Dates |-> [o \in Outputs |-> "absent"]]]
    /\ run = None /\ attempt = 0 /\ apply = FALSE /\ reuse = FALSE
    /\ pc = "idle" /\ left = {} /\ date = 0 /\ out = 1
    /\ statuses = NoStatuses
    /\ outcome = NoReport
    /\ free = 0 /\ faults = 0 /\ tampers = 0
    /\ spoiled = {}

-----------------------------------------------------------------------------
(* Evidence. *)

WriteManifest(status, s) ==
    manifest' = [manifest EXCEPT ![run] =
        [status |-> status, apply |-> apply, attempt |-> attempt, dates |-> s]]

Evidence(status, c) == [status |-> status, commit |-> c, apply |-> apply, attempt |-> attempt]

NotYet == IF apply THEN "PENDING" ELSE "NOT_REQUESTED"
Never == IF apply THEN "UNCOMMITTED" ELSE "NOT_REQUESTED"

\* _range_status
StatusOf(s) ==
    LET good == IF apply THEN "COMPLETED" ELSE "READY_FOR_APPLY"
        seen == {s[d] : d \in DatesOf[run]}
    IN  IF seen = {good} THEN good
        ELSE IF good \in seen THEN "PARTIAL"
        ELSE IF "BLOCKED" \in seen THEN "BLOCKED" ELSE "FAILED"

\* The next date, in order.
NextDate(d) == d \in left /\ \A e \in left : d <= e

Intact(u, d) == \A o \in Outputs : objects[u][d][o] = "intact"

\* Mutant: only a commit of the same attempt is taken for a completed date.
MutantMatches == commit[date] = [run |-> run, attempt |-> attempt] /\ Intact(run, date)

\* Mutant: whoever published the date, it is complete.
MutantMatchesAny == commit[date] # None /\ Intact(commit[date].run, date)

\* _completed_commit_matches, and the committed read-back.
Matches == commit[date] # None /\ commit[date].run = run /\ Intact(run, date)

\* Mutant: the two fields are swapped.
MutantConclude(status, c) ==
    /\ outcome' = Evidence(c, status)
    /\ pc' = "report"

\* The date is over; its report is written next.
Conclude(status, c) ==
    /\ outcome' = Evidence(status, c)
    /\ pc' = "report"

Fault == faults < MaxFaults /\ faults' = faults + 1

-----------------------------------------------------------------------------
(* The range. *)

\* Mutant: the manifest of the attempt before stands until the first date is begun.
MutantStartRun(u, a, r) ==
    /\ pc = "idle"
    /\ manifest[u].attempt < MaxAttempts
    /\ run' = u /\ apply' = a /\ reuse' = r
    /\ attempt' = manifest[u].attempt + 1
    /\ statuses' = [d \in Dates |-> IF d \in DatesOf[u] THEN "PENDING" ELSE "NONE"]
    /\ left' = DatesOf[u]
    /\ pc' = "pending"
    /\ UNCHANGED <<store, date, out, outcome, faults, tampers, spoiled>>

\* The run reads its manifest for the attempt number and marks it RUNNING.
StartRun(u, a, r) ==
    /\ pc = "idle"
    /\ manifest[u].attempt < MaxAttempts
    /\ run' = u /\ apply' = a /\ reuse' = r
    /\ attempt' = manifest[u].attempt + 1
    /\ statuses' = [d \in Dates |-> IF d \in DatesOf[u] THEN "PENDING" ELSE "NONE"]
    /\ manifest' = [manifest EXCEPT ![u] =
           [status |-> "RUNNING", apply |-> a, attempt |-> attempt', dates |-> statuses']]
    /\ left' = DatesOf[u]
    /\ pc' = "pending"
    /\ UNCHANGED <<report, commit, objects, date, out, outcome, faults, tampers, spoiled>>

\* Any command line.
FreeRun(u) ==
    /\ free < MaxFree /\ free' = free + 1
    /\ \E a, r \in BOOLEAN : StartRun(u, a, r)

\* The documented --apply, repeated until the range is COMPLETED.
ResumeRun(u) ==
    /\ manifest[u].status # "COMPLETED"
    /\ StartRun(u, TRUE, TRUE)
    /\ UNCHANGED free

\* The evidence of the attempt before is reset, date by date.
WritePending ==
    /\ pc = "pending"
    /\ \E d \in left :
          /\ NextDate(d)
          /\ report' = [report EXCEPT ![run][d] = Evidence("PENDING", NotYet)]
          /\ IF left = {d} THEN pc' = "next" /\ left' = DatesOf[run]
                           ELSE pc' = "pending" /\ left' = left \ {d}
    /\ UNCHANGED <<manifest, commit, objects, job, date, out, statuses, outcome, bounds, spoiled>>

BeginDate ==
    /\ pc = "next"
    /\ \E d \in left :
          /\ NextDate(d)
          /\ date' = d
          /\ report' = [report EXCEPT ![run][d] = Evidence("RUNNING", NotYet)]
          /\ statuses' = [statuses EXCEPT ![d] = "RUNNING"]
    /\ pc' = "mark"
    /\ UNCHANGED <<manifest, commit, objects, job, left, out, outcome, bounds, spoiled>>

MarkRunning ==
    /\ pc = "mark"
    /\ WriteManifest("RUNNING", statuses)
    /\ pc' = "inputs"
    /\ UNCHANGED <<report, commit, objects, job, left, date, out, statuses, outcome, bounds,
                   spoiled>>

WriteReport ==
    /\ pc = "report"
    /\ report' = [report EXCEPT ![run][date] = outcome]
    /\ statuses' = [statuses EXCEPT ![date] = outcome.status]
    /\ pc' = "done"
    /\ UNCHANGED <<manifest, commit, objects, job, left, date, out, outcome, bounds, spoiled>>

MarkDone ==
    /\ pc = "done"
    /\ WriteManifest("RUNNING", statuses)
    /\ left' = left \ {date}
    /\ pc' = "next"
    /\ UNCHANGED <<report, commit, objects, job, date, out, statuses, outcome, bounds, spoiled>>

CloseManifest ==
    /\ pc = "next" /\ left = {}
    /\ WriteManifest(StatusOf(statuses), statuses)
    /\ pc' = "idle"
    /\ UNCHANGED <<report, commit, objects, job, left, date, out, statuses, outcome, bounds,
                   spoiled>>

-----------------------------------------------------------------------------
(* One date. *)

Unwritten == UNCHANGED <<store, spoiled>>
Memory == <<job, left, date, statuses>>

\* Mutant: --apply is not asked for.
MutantReadInputs ==
    /\ pc = "inputs"
    /\ pc' = "find" /\ UNCHANGED outcome
    /\ Unwritten /\ UNCHANGED <<Memory, out, bounds>>

\* The seven inputs are those of the plan and the pipeline succeeds.
ReadInputs ==
    /\ pc = "inputs"
    /\ IF apply THEN pc' = "find" /\ UNCHANGED outcome
                ELSE Conclude("READY_FOR_APPLY", "NOT_REQUESTED")
    /\ Unwritten /\ UNCHANGED <<Memory, out, bounds>>

\* An input is missing, is no longer the audited version, or does not validate,
\* or the pipeline fails.
InputsRefused ==
    /\ pc = "inputs"
    /\ Fault
    /\ \E s \in {"BLOCKED", "FAILED"} : Conclude(s, Never)
    /\ Unwritten /\ UNCHANGED <<Memory, out, free, tampers>>

\* Mutant: the publication of another run blocks the date.
MutantFindCommitted ==
    /\ pc = "find"
    /\ IF commit[date] # None
       THEN IF Matches THEN Conclude("COMPLETED", "COMMITTED") /\ UNCHANGED out
                       ELSE Conclude("BLOCKED", "UNCOMMITTED") /\ UNCHANGED out
       ELSE pc' = "stage" /\ out' = 1 /\ UNCHANGED outcome
    /\ Unwritten /\ UNCHANGED <<Memory, bounds>>

\* A resumed run looks whether its own publication is still there.
FindCommitted ==
    /\ pc = "find"
    /\ IF reuse /\ Matches
       THEN Conclude("COMPLETED", "COMMITTED") /\ UNCHANGED out
       ELSE pc' = "stage" /\ out' = 1 /\ UNCHANGED outcome
    /\ Unwritten /\ UNCHANGED <<Memory, bounds>>

PutObject ==
    /\ objects' = [objects EXCEPT ![run][date][out] = "intact"]
    /\ spoiled' = spoiled \ {<<run, date, out>>}
    /\ UNCHANGED <<manifest, report, commit>>

\* An output that is there already is left alone, anything else is overwritten.
StageOutput ==
    /\ pc = "stage"
    /\ PutObject
    /\ pc' = "staged"
    /\ UNCHANGED <<Memory, out, outcome, bounds>>

\* Mutant: the last output is not waited for.
MutantReadBack ==
    /\ pc = "staged"
    /\ IF objects[run][date][out] # "intact"
       THEN Conclude("FAILED", "UNCOMMITTED") /\ UNCHANGED out
       ELSE /\ UNCHANGED outcome
            /\ IF out + 1 >= OutputCount THEN pc' = "commit" /\ UNCHANGED out
                                         ELSE pc' = "stage" /\ out' = out + 1
    /\ Unwritten /\ UNCHANGED <<Memory, bounds>>

ReadBack ==
    /\ pc = "staged"
    /\ IF objects[run][date][out] # "intact"
       THEN Conclude("FAILED", "UNCOMMITTED") /\ UNCHANGED out
       ELSE /\ UNCHANGED outcome
            /\ IF out = OutputCount THEN pc' = "commit" /\ UNCHANGED out
                                    ELSE pc' = "stage" /\ out' = out + 1
    /\ Unwritten /\ UNCHANGED <<Memory, bounds>>

PutCommit ==
    /\ commit' = [commit EXCEPT ![date] = [run |-> run, attempt |-> attempt]]
    /\ UNCHANGED <<manifest, report, objects, spoiled>>

WriteCommit ==
    /\ pc = "commit"
    /\ PutCommit
    /\ pc' = "verify"
    /\ UNCHANGED <<Memory, out, outcome, bounds>>

VerifyCommitted ==
    /\ pc = "verify"
    /\ Conclude(IF Matches THEN "COMPLETED" ELSE "FAILED", "COMMITTED")
    /\ Unwritten /\ UNCHANGED <<Memory, out, bounds>>

\* A call to the object store raises, before or after it took effect.
StoreRaises ==
    /\ pc \in {"find", "stage", "staged", "commit", "verify"}
    /\ Fault
    /\ \/ Unwritten
       \/ pc = "stage" /\ PutObject
       \/ pc = "commit" /\ PutCommit
    /\ Conclude("FAILED", IF pc = "verify" THEN "COMMITTED" ELSE "UNCOMMITTED")
    /\ UNCHANGED <<Memory, out, free, tampers>>

-----------------------------------------------------------------------------
(* Around the process. *)

\* The process dies, or a control write raises and ends it.
Crash ==
    /\ pc # "idle"
    /\ Fault
    /\ pc' = "idle"
    /\ Unwritten /\ UNCHANGED <<Memory, out, outcome, free, tampers>>

\* Somebody else loses or damages an object, or loses a commit.
Tamper ==
    /\ tampers < MaxTampers /\ tampers' = tampers + 1
    /\ \/ \E u \in Runs, d \in Dates, o \in Outputs, s \in {"absent", "corrupt"} :
             /\ objects[u][d][o] = "intact"
             /\ objects' = [objects EXCEPT ![u][d][o] = s]
             /\ spoiled' = spoiled \cup {<<u, d, o>>}
             /\ UNCHANGED commit
       \/ \E d \in Dates :
             /\ commit[d] # None
             /\ commit' = [commit EXCEPT ![d] = None]
             /\ UNCHANGED <<objects, spoiled>>
    /\ UNCHANGED <<manifest, report, job, pc, left, date, out, statuses, outcome, free, faults>>

Process ==
    \/ WritePending \/ BeginDate \/ MarkRunning \/ ReadInputs
    \/ FindCommitted \/ StageOutput \/ ReadBack \/ WriteCommit \/ VerifyCommitted
    \/ WriteReport \/ MarkDone \/ CloseManifest

Fails == InputsRefused \/ StoreRaises \/ Crash

Next ==
    \/ \E u \in Runs : FreeRun(u) \/ ResumeRun(u)
    \/ Process \/ Fails \/ Tamper

Spec == Init /\ [][Next]_vars

\* The process takes its steps, and every unfinished run is repeated.
FairSpec == Spec /\ WF_vars(Process) /\ \A u \in Runs : SF_vars(ResumeRun(u))
-----------------------------------------------------------------------------
(* Properties. *)

TypeOK ==
    /\ manifest \in [Runs -> Manifest]
    /\ report \in [Runs -> [Dates -> Report]]
    /\ commit \in [Dates -> {None} \cup [run : Runs, attempt : 1..MaxAttempts]]
    /\ objects \in [Runs -> [Dates -> [Outputs -> {"absent", "intact", "corrupt"}]]]
    /\ run \in Runs \cup {None} /\ attempt \in 0..MaxAttempts
    /\ apply \in BOOLEAN /\ reuse \in BOOLEAN
    /\ pc \in {"idle", "pending", "next", "mark", "inputs", "find", "stage", "staged",
               "commit", "verify", "report", "done"}
    /\ left \subseteq Dates /\ date \in Dates \cup {0} /\ out \in Outputs
    /\ statuses \in [Dates -> DateStatus]
    /\ outcome \in Report
    /\ free \in 0..MaxFree /\ faults \in 0..MaxFaults /\ tampers \in 0..MaxTampers
    /\ spoiled \subseteq Runs \X Dates \X Outputs

\* A commit names five outputs that are all there, whatever crashed on the way and
\* whatever a later run of the same id overwrites or leaves half done.
CommittedIsComplete ==
    \A d \in Dates : commit[d] # None =>
        \A o \in Outputs :
            objects[commit[d].run][d][o] = "intact" \/ <<commit[d].run, d, o>> \in spoiled

\* A manifest that is not RUNNING agrees with every daily report it links to: a
\* rerun takes the manifest back before it resets the first report, and closes it
\* after the last.
ClosedManifestIsBacked ==
    \A u \in Runs : manifest[u].status \notin {"NONE", "RUNNING"} =>
        \A d \in DatesOf[u] :
            /\ report[u][d].status = manifest[u].dates[d]
            /\ report[u][d].attempt = manifest[u].attempt
            /\ report[u][d].apply = manifest[u].apply

\* A resumed run leaves its own publications alone: it writes a commit again only
\* after another run replaced it, or after somebody damaged it.
ResumeReplacesNothing ==
    [][\A d \in Dates :
          commit[d] # None /\ commit'[d] \notin {commit[d], None} /\ reuse /\ tampers = 0
              => commit'[d].run # commit[d].run]_vars

\* A dry run changes no published object (docs/goal22_real_clean_universe.md).
DryRunPublishesNothing ==
    [][~apply /\ tampers' = tampers => UNCHANGED <<commit, objects>>]_vars

Accepted(u, d) ==
    /\ manifest[u].apply /\ manifest[u].status \notin {"NONE", "RUNNING"}
    /\ manifest[u].dates[d] = "COMPLETED"
    /\ commit[d] # None /\ commit[d].run = u

\* Once faults stop, repeating the runs completes them all, and every date is
\* published by a run whose evidence its readers accept, unless somebody damaged it.
Converges ==
    <>[](\/ tampers > 0
         \/ /\ \A u \in Runs : manifest[u].status = "COMPLETED"
            /\ \A u \in Runs : \A d \in DatesOf[u] : \E v \in Runs : Accepted(v, d))

\* What the readers of a run make of its evidence.
Trusted(u) == manifest[u].apply /\ manifest[u].status \notin {"NONE", "RUNNING"}

Attempts == [u \in Runs |-> manifest[u].attempt]
Closed == [u \in Runs |->
    IF Trusted(u) THEN {d \in DatesOf[u] : manifest[u].dates[d] = "COMPLETED"} ELSE None]
Attested == [u \in Runs |-> [d \in Dates |->
    IF report[u][d].status = "COMPLETED" THEN report[u][d].attempt ELSE 0]]
Damaged == {p \in Runs \X Dates : \E o \in Outputs : <<p[1], p[2], o>> \in spoiled}

Promise == INSTANCE RangeEvidence WITH
    Open <- None, attempt <- Attempts, closed <- Closed, attested <- Attested,
    published <- commit, damaged <- Damaged

\* The runner keeps its promise to Goal 23: attempts only grow, trust is withdrawn
\* first and given last, and only the run's own commit is reported COMPLETED.
ImplementsEvidence == Promise!EvidenceSpec
=============================================================================
