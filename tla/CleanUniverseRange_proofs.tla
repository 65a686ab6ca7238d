----------------------- MODULE CleanUniverseRange_proofs -----------------------
(***************************************************************************)
(* Proofs, for every set of run ids and of dates, that a commit names       *)
(* complete outputs, that a closed manifest agrees with its reports, and    *)
(* that the runner of Goal 22 keeps the promise of RangeEvidence.           *)
(***************************************************************************)
EXTENDS CleanUniverseRange, TLAPS

USE RangeAssumption

DateLabels == {"mark", "inputs", "find", "stage", "staged", "commit", "verify", "report", "done"}

\* What the process knows of itself: whose dates it works on, and in which attempt.
JobInv ==
    /\ pc # "idle" => run \in Runs /\ attempt \in 1..MaxAttempts /\ left \subseteq DatesOf[run]
    /\ pc \in DateLabels => date \in DatesOf[run]

TypeInv == TypeOK /\ JobInv

-----------------------------------------------------------------------------
(* Type correctness. *)

LEMMA Bounds ==
    /\ MaxAttempts \in Nat /\ MaxFree \in Nat /\ MaxFaults \in Nat /\ MaxTampers \in Nat
    /\ OutputCount \in Nat /\ OutputCount >= 1 /\ None \notin Runs
    /\ \A u \in Runs : DatesOf[u] \subseteq Dates
  BY DEF RangeAssumption

LEMMA InitType == Init => TypeInv
<1> SUFFICES ASSUME Init PROVE TypeInv
  OBVIOUS
<1> USE Bounds DEF Init
<1>1. NoReport \in Report
  BY DEF NoReport, Report, DateStatus, CommitStatus
<1>2. report \in [Runs -> [Dates -> Report]]
  BY <1>1
<1>3. manifest \in [Runs -> Manifest]
  <2>1. NoStatuses \in [Dates -> DateStatus]
    BY DEF NoStatuses, DateStatus
  <2> QED
    BY <2>1 DEF Manifest, RangeStatus
<1>4. statuses \in [Dates -> DateStatus]
  BY DEF NoStatuses, DateStatus
<1>5. /\ commit \in [Dates -> {None} \cup [run : Runs, attempt : 1..MaxAttempts]]
      /\ objects \in [Runs -> [Dates -> [Outputs -> {"absent", "intact", "corrupt"}]]]
      /\ out \in Outputs
  BY DEF Outputs
<1>6. /\ free \in 0..MaxFree /\ faults \in 0..MaxFaults /\ tampers \in 0..MaxTampers
      /\ attempt \in 0..MaxAttempts
  OBVIOUS
<1>7. TypeOK
  BY <1>1, <1>2, <1>3, <1>4, <1>5, <1>6 DEF TypeOK
<1> QED
  BY <1>7 DEF TypeInv, JobInv, DateLabels

LEMMA EvidenceType ==
    ASSUME TypeInv, pc # "idle", NEW s \in DateStatus, NEW c \in CommitStatus
    PROVE  Evidence(s, c) \in Report
  BY Bounds DEF TypeInv, TypeOK, JobInv, Evidence, Report

LEMMA ManifestType ==
    ASSUME TypeInv, pc # "idle", NEW s \in RangeStatus, NEW f \in [Dates -> DateStatus],
           WriteManifest(s, f)
    PROVE  manifest' \in [Runs -> Manifest]
  BY Bounds DEF TypeInv, TypeOK, JobInv, WriteManifest, Manifest

LEMMA StatusType == ASSUME NEW s PROVE StatusOf(s) \in RangeStatus
  BY DEF StatusOf, RangeStatus

LEMMA NotYetType == NotYet \in CommitStatus /\ Never \in CommitStatus
  BY DEF NotYet, Never, CommitStatus

LEMMA FaultType == ASSUME TypeOK, Fault PROVE faults' \in 0..MaxFaults
  BY Bounds DEF TypeOK, Fault

LEMMA StartType ==
    ASSUME TypeInv, NEW u \in Runs, NEW a \in BOOLEAN, NEW r \in BOOLEAN, StartRun(u, a, r),
           free' \in 0..MaxFree
    PROVE  TypeInv'
<1>1. manifest[u] \in Manifest /\ manifest[u].attempt \in 0..MaxAttempts
  BY DEF TypeInv, TypeOK, Manifest
<1>2. attempt' \in 1..MaxAttempts
  BY <1>1, Bounds DEF StartRun
<1>3. statuses' \in [Dates -> DateStatus]
  BY DEF StartRun, DateStatus
<1>4. manifest' \in [Runs -> Manifest]
  BY <1>2, <1>3, Bounds DEF TypeInv, TypeOK, StartRun, Manifest, RangeStatus
<1>5. TypeOK'
  BY <1>2, <1>3, <1>4, Bounds DEF TypeInv, TypeOK, StartRun
<1>6. JobInv'
  BY <1>2 DEF StartRun, JobInv, DateLabels
<1> QED
  BY <1>5, <1>6 DEF TypeInv

LEMMA PutObjectType ==
    ASSUME TypeInv, pc = "stage", PutObject
    PROVE  /\ objects' \in [Runs -> [Dates -> [Outputs -> {"absent", "intact", "corrupt"}]]]
           /\ spoiled' \subseteq Runs \X Dates \X Outputs
<1>1. run \in Runs /\ date \in Dates /\ out \in Outputs
  BY Bounds DEF TypeInv, TypeOK, JobInv, DateLabels
<1>2. objects[run] \in [Dates -> [Outputs -> {"absent", "intact", "corrupt"}]]
  BY <1>1 DEF TypeInv, TypeOK
<1>3. [objects[run][date] EXCEPT ![out] = "intact"] \in [Outputs -> {"absent", "intact", "corrupt"}]
  BY <1>1, <1>2
<1>4. objects' = [objects EXCEPT ![run] =
                    [objects[run] EXCEPT ![date] = [objects[run][date] EXCEPT ![out] = "intact"]]]
  BY DEF PutObject
<1>5. objects' \in [Runs -> [Dates -> [Outputs -> {"absent", "intact", "corrupt"}]]]
  BY <1>1, <1>2, <1>3, <1>4 DEF TypeInv, TypeOK
<1> QED
  BY <1>5 DEF TypeInv, TypeOK, PutObject

LEMMA DamageType ==
    ASSUME TypeInv, NEW u \in Runs, NEW d \in Dates, NEW o \in Outputs,
           NEW s \in {"absent", "intact", "corrupt"}
    PROVE  [objects EXCEPT ![u][d][o] = s]
               \in [Runs -> [Dates -> [Outputs -> {"absent", "intact", "corrupt"}]]]
<1>1. objects[u] \in [Dates -> [Outputs -> {"absent", "intact", "corrupt"}]]
  BY DEF TypeInv, TypeOK
<1>2. [objects[u][d] EXCEPT ![o] = s] \in [Outputs -> {"absent", "intact", "corrupt"}]
  BY <1>1
<1>3. [objects[u] EXCEPT ![d][o] = s] \in [Dates -> [Outputs -> {"absent", "intact", "corrupt"}]]
  BY <1>1, <1>2
<1> QED
  BY <1>3 DEF TypeInv, TypeOK

LEMMA PutCommitType ==
    ASSUME TypeInv, pc = "commit", PutCommit
    PROVE  commit' \in [Dates -> {None} \cup [run : Runs, attempt : 1..MaxAttempts]]
  BY DEF TypeInv, TypeOK, JobInv, PutCommit

LEMMA ConcludeType ==
    ASSUME TypeInv, pc # "idle", NEW s \in DateStatus, NEW c \in CommitStatus, Conclude(s, c)
    PROVE  outcome' \in Report /\ pc' = "report"
  BY EvidenceType DEF Conclude

LEMMA StepType ==
    ASSUME TypeInv, Process \/ Fails \/ Tamper
    PROVE  TypeInv'
<1> USE Bounds DEF TypeInv, Unwritten, Memory, job, store, bounds
<1>1. CASE WritePending
  <2>1. PICK d \in left : /\ report' = [report EXCEPT ![run][d] = Evidence("PENDING", NotYet)]
                          /\ IF left = {d} THEN pc' = "next" /\ left' = DatesOf[run]
                                           ELSE pc' = "pending" /\ left' = left \ {d}
    BY <1>1 DEF WritePending
  <2>2. Evidence("PENDING", NotYet) \in Report
    BY <1>1, EvidenceType, NotYetType DEF WritePending, DateStatus
  <2>3. report' \in [Runs -> [Dates -> Report]]
    BY <2>1, <2>2, <1>1 DEF WritePending, TypeOK, JobInv
  <2>4. TypeOK'
    BY <2>1, <2>3, <1>1 DEF WritePending, TypeOK, JobInv
  <2>5. JobInv'
    BY <2>1, <1>1 DEF WritePending, JobInv, DateLabels
  <2> QED
    BY <2>4, <2>5
<1>2. CASE BeginDate
  <2>1. PICK d \in left : /\ date' = d
                          /\ report' = [report EXCEPT ![run][d] = Evidence("RUNNING", NotYet)]
                          /\ statuses' = [statuses EXCEPT ![d] = "RUNNING"]
    BY <1>2 DEF BeginDate
  <2>2. Evidence("RUNNING", NotYet) \in Report
    BY <1>2, EvidenceType, NotYetType DEF BeginDate, DateStatus
  <2>3. report' \in [Runs -> [Dates -> Report]]
    BY <2>1, <2>2, <1>2 DEF BeginDate, TypeOK, JobInv
  <2>4. TypeOK'
    BY <2>1, <2>3, <1>2 DEF BeginDate, TypeOK, JobInv, DateStatus
  <2>5. JobInv'
    BY <2>1, <1>2 DEF BeginDate, JobInv, DateLabels
  <2> QED
    BY <2>4, <2>5
<1>3. CASE MarkRunning
  <2>1. manifest' \in [Runs -> Manifest]
    BY <1>3, ManifestType DEF MarkRunning, TypeOK, RangeStatus
  <2> QED
    BY <1>3, <2>1 DEF MarkRunning, TypeOK, JobInv, DateLabels
<1>4. CASE ReadInputs
  <2>1. pc' \in {"find", "report"} /\ outcome' \in Report
    BY <1>4, ConcludeType DEF ReadInputs, TypeOK, DateStatus, CommitStatus
  <2> QED
    BY <1>4, <2>1 DEF ReadInputs, TypeOK, JobInv, DateLabels
<1>5. CASE FindCommitted
  <2>1. pc' \in {"stage", "report"} /\ outcome' \in Report /\ out' \in Outputs
    BY <1>5, ConcludeType DEF FindCommitted, TypeOK, DateStatus, CommitStatus, Outputs
  <2> QED
    BY <1>5, <2>1 DEF FindCommitted, TypeOK, JobInv, DateLabels
<1>6. CASE StageOutput
  BY <1>6, PutObjectType DEF StageOutput, PutObject, TypeOK, JobInv, DateLabels
<1>7. CASE ReadBack
  <2>1. pc' \in {"stage", "commit", "report"} /\ outcome' \in Report /\ out' \in Outputs
    BY <1>7, ConcludeType DEF ReadBack, TypeOK, DateStatus, CommitStatus, Outputs
  <2> QED
    BY <1>7, <2>1 DEF ReadBack, TypeOK, JobInv, DateLabels
<1>8. CASE WriteCommit
  BY <1>8, PutCommitType DEF WriteCommit, PutCommit, TypeOK, JobInv, DateLabels
<1>9. CASE VerifyCommitted
  <2>1. pc' = "report" /\ outcome' \in Report
    BY <1>9, ConcludeType DEF VerifyCommitted, DateStatus, CommitStatus
  <2> QED
    BY <1>9, <2>1 DEF VerifyCommitted, TypeOK, JobInv, DateLabels
<1>10. CASE WriteReport
  <2>1. outcome.status \in DateStatus
    BY DEF TypeOK, Report
  <2>2. TypeOK'
    BY <1>10, <2>1 DEF WriteReport, TypeOK, JobInv, DateLabels
  <2> QED
    BY <1>10, <2>2 DEF WriteReport, JobInv, DateLabels
<1>11. CASE MarkDone
  <2>1. manifest' \in [Runs -> Manifest]
    BY <1>11, ManifestType DEF MarkDone, TypeOK, RangeStatus
  <2> QED
    BY <1>11, <2>1 DEF MarkDone, TypeOK, JobInv, DateLabels
<1>12. CASE CloseManifest
  <2>1. manifest' \in [Runs -> Manifest]
    BY <1>12, ManifestType, StatusType DEF CloseManifest, TypeOK
  <2> QED
    BY <1>12, <2>1 DEF CloseManifest, TypeOK, JobInv, DateLabels
<1>13. CASE InputsRefused
  <2>1. pc' = "report" /\ outcome' \in Report
    BY <1>13, ConcludeType, NotYetType DEF InputsRefused, DateStatus
  <2> QED
    BY <1>13, <2>1, FaultType DEF InputsRefused, TypeOK, JobInv, DateLabels
<1>14. CASE StoreRaises
  <2>1. pc' = "report" /\ outcome' \in Report
    BY <1>14, ConcludeType DEF StoreRaises, DateStatus, CommitStatus
  <2>2. /\ objects' \in [Runs -> [Dates -> [Outputs -> {"absent", "intact", "corrupt"}]]]
        /\ spoiled' \subseteq Runs \X Dates \X Outputs
        /\ commit' \in [Dates -> {None} \cup [run : Runs, attempt : 1..MaxAttempts]]
        /\ UNCHANGED <<manifest, report>>
    BY <1>14, PutObjectType, PutCommitType DEF StoreRaises, TypeOK, PutObject, PutCommit
  <2>3. TypeOK'
    BY <1>14, <2>1, <2>2, FaultType DEF StoreRaises, TypeOK
  <2> QED
    BY <1>14, <2>1, <2>3 DEF StoreRaises, JobInv, DateLabels
<1>15. CASE Crash
  BY <1>15, FaultType DEF Crash, TypeOK, JobInv, DateLabels
<1>16. CASE Tamper
  <2>1. ASSUME NEW u \in Runs, NEW d \in Dates, NEW o \in Outputs, NEW s \in {"absent", "corrupt"},
               objects' = [objects EXCEPT ![u][d][o] = s], spoiled' = spoiled \cup {<<u, d, o>>},
               UNCHANGED commit
        PROVE  TypeInv'
    BY <1>16, <2>1, DamageType DEF Tamper, TypeOK, JobInv, DateLabels
  <2>2. ASSUME NEW d \in Dates, commit' = [commit EXCEPT ![d] = None],
               UNCHANGED <<objects, spoiled>>
        PROVE  TypeInv'
    BY <1>16, <2>2 DEF Tamper, TypeOK, JobInv, DateLabels
  <2> QED
    BY <1>16, <2>1, <2>2 DEF Tamper
<1> QED
  BY <1>1, <1>2, <1>3, <1>4, <1>5, <1>6, <1>7, <1>8, <1>9, <1>10, <1>11, <1>12, <1>13, <1>14,
     <1>15, <1>16 DEF Process, Fails

LEMMA NextType == TypeInv /\ [Next]_vars => TypeInv'
<1> SUFFICES ASSUME TypeInv, [Next]_vars PROVE TypeInv'
  OBVIOUS
<1>1. ASSUME NEW u \in Runs, FreeRun(u) PROVE TypeInv'
  <2>1. PICK a \in BOOLEAN, r \in BOOLEAN : StartRun(u, a, r)
    BY <1>1 DEF FreeRun
  <2>2. free' \in 0..MaxFree
    BY <1>1, Bounds DEF FreeRun, TypeInv, TypeOK
  <2> QED
    BY <2>1, <2>2, StartType
<1>2. ASSUME NEW u \in Runs, ResumeRun(u) PROVE TypeInv'
  BY <1>2, StartType DEF ResumeRun, TypeInv, TypeOK
<1>3. CASE UNCHANGED vars
  BY <1>3 DEF vars, store, job, bounds, TypeInv, TypeOK, JobInv
<1> QED
  BY <1>1, <1>2, <1>3, StepType DEF Next

-----------------------------------------------------------------------------
(* A commit names complete outputs. *)

Settled(u, d, o) == objects[u][d][o] = "intact" \/ <<u, d, o>> \in spoiled

\* What has been read back of the generation under way.
StagedInv ==
    /\ pc = "stage" => \A o \in Outputs : o < out => Settled(run, date, o)
    /\ pc = "staged" => \A o \in Outputs : o <= out => Settled(run, date, o)
    /\ pc \in {"commit", "verify"} => \A o \in Outputs : Settled(run, date, o)

\* Whatever happens to the stores, what was settled stays so.
LEMMA SettledStays ==
    ASSUME TypeInv, [Next]_vars, NEW u \in Runs, NEW d \in Dates, NEW o \in Outputs,
           Settled(u, d, o)
    PROVE  Settled(u, d, o)'
<1> USE DEF Settled, store, Unwritten
<1>1. CASE UNCHANGED <<objects, spoiled>>
  BY <1>1
<1>2. CASE PutObject /\ pc = "stage"
  <2>1. run \in Runs /\ date \in Dates /\ out \in Outputs
    BY <1>2, Bounds DEF TypeInv, TypeOK, JobInv, DateLabels
  <2>2. CASE <<u, d, o>> = <<run, date, out>>
    <3>1. objects'[u][d][o] = "intact"
      BY <1>2, <2>1, <2>2 DEF PutObject, TypeInv, TypeOK
    <3> QED
      BY <3>1
  <2>3. CASE <<u, d, o>> # <<run, date, out>>
    <3>1. objects'[u][d][o] = objects[u][d][o]
      BY <1>2, <2>1, <2>3 DEF PutObject, TypeInv, TypeOK
    <3> QED
      BY <1>2, <2>3, <3>1 DEF PutObject
  <2> QED
    BY <2>2, <2>3
<1>3. CASE Tamper
  <2>1. ASSUME NEW v \in Runs, NEW e \in Dates, NEW q \in Outputs, NEW s \in {"absent", "corrupt"},
               objects' = [objects EXCEPT ![v][e][q] = s], spoiled' = spoiled \cup {<<v, e, q>>}
        PROVE  Settled(u, d, o)'
    <3>1. CASE <<u, d, o>> = <<v, e, q>>
      BY <2>1, <3>1
    <3>2. CASE <<u, d, o>> # <<v, e, q>>
      <4>1. objects'[u][d][o] = objects[u][d][o]
        BY <2>1, <3>2 DEF TypeInv, TypeOK
      <4> QED
        BY <2>1, <4>1
    <3> QED
      BY <3>1, <3>2
  <2> QED
    BY <1>1, <1>3, <2>1 DEF Tamper
<1>4. CASE StageOutput
  BY <1>2, <1>4 DEF StageOutput
<1>5. CASE StoreRaises
  BY <1>1, <1>2, <1>5 DEF StoreRaises, PutCommit
<1>6. CASE WriteCommit
  BY <1>1, <1>6 DEF WriteCommit, PutCommit
<1>7. CASE UNCHANGED vars
  BY <1>1, <1>7 DEF vars
<1>8. CASE \E w \in Runs : FreeRun(w) \/ ResumeRun(w)
  BY <1>1, <1>8 DEF FreeRun, ResumeRun, StartRun
<1> QED
  BY <1>1, <1>3, <1>4, <1>5, <1>6, <1>7, <1>8
     DEF Next, Process, Fails, WritePending, BeginDate, MarkRunning, ReadInputs, FindCommitted,
         ReadBack, VerifyCommitted, WriteReport, MarkDone, CloseManifest, InputsRefused, Crash

LEMMA NextStaged == TypeInv /\ StagedInv /\ [Next]_vars => StagedInv'
<1> SUFFICES ASSUME TypeInv, StagedInv, [Next]_vars PROVE StagedInv'
  OBVIOUS
<1> USE Bounds
<1>1. ASSUME NEW o \in Outputs, pc \in DateLabels, Settled(run, date, o), UNCHANGED <<run, date>>
      PROVE  Settled(run, date, o)'
  <2>1. run \in Runs /\ date \in Dates
    BY <1>1 DEF TypeInv, JobInv, DateLabels
  <2>2. Settled(run, date, o)' <=> (objects'[run][date][o] = "intact" \/ <<run, date, o>> \in spoiled')
    BY <1>1 DEF Settled
  <2> QED
    BY <1>1, <2>1, <2>2, SettledStays DEF Settled
<1>2. CASE FindCommitted
  BY <1>2 DEF FindCommitted, StagedInv, Conclude, Outputs
<1>3. CASE StageOutput
  <2>1. run \in Runs /\ date \in Dates /\ out \in Outputs
    BY <1>3 DEF StageOutput, TypeInv, TypeOK, JobInv, DateLabels
  <2>2. objects'[run][date][out] = "intact"
    BY <1>3, <2>1 DEF StageOutput, PutObject, TypeInv, TypeOK
  <2>3. Settled(run, date, out)'
    BY <1>3, <2>2 DEF StageOutput, Settled, Memory, job
  <2>4. ASSUME NEW o \in Outputs, o < out PROVE Settled(run, date, o)'
    BY <1>1, <1>3, <2>4 DEF StageOutput, StagedInv, Memory, job, DateLabels
  <2>5. ASSUME NEW o \in Outputs, o <= out PROVE o < out \/ o = out
    BY <2>1, <2>5 DEF Outputs
  <2> QED
    BY <1>3, <2>3, <2>4, <2>5 DEF StageOutput, StagedInv
<1>4. CASE ReadBack
  <2>1. ASSUME NEW o \in Outputs, o <= out PROVE Settled(run, date, o)'
    BY <1>1, <1>4, <2>1 DEF ReadBack, StagedInv, Memory, job, DateLabels
  <2>2. ASSUME NEW o \in Outputs, o < out + 1 PROVE o <= out
    BY <2>2 DEF TypeInv, TypeOK, Outputs
  <2>3. ASSUME NEW o \in Outputs, out = OutputCount PROVE o <= out
    BY <2>3 DEF Outputs
  <2> QED
    BY <1>4, <2>1, <2>2, <2>3 DEF ReadBack, StagedInv, Conclude, Memory, job
<1>5. CASE WriteCommit
  <2>1. ASSUME NEW o \in Outputs PROVE Settled(run, date, o)'
    BY <1>1, <1>5 DEF WriteCommit, StagedInv, Memory, job, DateLabels
  <2> QED
    BY <1>5, <2>1 DEF WriteCommit, StagedInv
<1>6. CASE UNCHANGED <<pc, run, date, out>>
  BY <1>1, <1>6 DEF StagedInv, DateLabels
<1>7. CASE pc' \notin {"stage", "staged", "commit", "verify"}
  BY <1>7 DEF StagedInv
<1> QED
  BY <1>2, <1>3, <1>4, <1>5, <1>6, <1>7
     DEF Next, Process, Fails, WritePending, BeginDate, MarkRunning, ReadInputs, VerifyCommitted,
         WriteReport, MarkDone, CloseManifest, InputsRefused, StoreRaises, Crash, Tamper, Conclude,
         FreeRun, ResumeRun, StartRun, vars, job

LEMMA NextComplete ==
    TypeInv /\ StagedInv /\ CommittedIsComplete /\ [Next]_vars => CommittedIsComplete'
<1> SUFFICES ASSUME TypeInv, StagedInv, CommittedIsComplete, [Next]_vars,
                    NEW d \in Dates, commit'[d] # None, NEW o \in Outputs
             PROVE  Settled(commit[d].run, d, o)'
  BY DEF CommittedIsComplete, Settled
<1>1. CASE commit'[d] = commit[d]
  <2>1. commit[d].run \in Runs
    BY <1>1 DEF TypeInv, TypeOK
  <2>2. Settled(commit[d].run, d, o)
    BY <1>1 DEF CommittedIsComplete, Settled
  <2> QED
    BY <1>1, <2>1, <2>2, SettledStays DEF Settled
<1>2. CASE PutCommit /\ pc = "commit"
  <2>1. run \in Runs /\ date \in Dates
    BY <1>2, Bounds DEF TypeInv, JobInv, DateLabels
  <2>2. CASE d = date
    <3>1. commit'[d].run = run
      BY <1>2, <2>1, <2>2 DEF PutCommit, TypeInv, TypeOK
    <3>2. Settled(run, date, o)
      BY <1>2 DEF StagedInv
    <3> QED
      BY <2>1, <2>2, <3>1, <3>2, SettledStays DEF Settled
  <2>3. CASE d # date
    BY <1>1, <1>2, <2>3 DEF PutCommit, TypeInv, TypeOK
  <2> QED
    BY <2>2, <2>3
<1>3. CASE Tamper
  BY <1>1, <1>3 DEF Tamper, TypeInv, TypeOK
<1>4. CASE WriteCommit
  BY <1>2, <1>4 DEF WriteCommit
<1>5. CASE StoreRaises
  BY <1>1, <1>2, <1>5 DEF StoreRaises, PutObject, Unwritten, store
<1> QED
  BY <1>1, <1>3, <1>4, <1>5
     DEF Next, Process, Fails, WritePending, BeginDate, MarkRunning, ReadInputs, FindCommitted,
         StageOutput, PutObject, ReadBack, VerifyCommitted, WriteReport, MarkDone, CloseManifest,
         InputsRefused, Crash, FreeRun, ResumeRun, StartRun, Unwritten, store, vars

-----------------------------------------------------------------------------
(* A closed manifest agrees with its reports. *)

\* The report of a date says what the process believes of it.
Reported(d) ==
    /\ report[run][d].status = statuses[d]
    /\ report[run][d].attempt = attempt
    /\ report[run][d].apply = apply

AuditInv ==
    /\ pc # "idle" => /\ manifest[run].status = "RUNNING"
                      /\ manifest[run].attempt = attempt
    /\ pc = "pending" => /\ \A d \in DatesOf[run] : statuses[d] = "PENDING"
                         /\ \A d \in DatesOf[run] \ left : Reported(d)
    /\ pc \notin {"idle", "pending"} => \A d \in DatesOf[run] : Reported(d)
    /\ pc = "report" => outcome.attempt = attempt /\ outcome.apply = apply

LEMMA ConcludeAudit ==
    ASSUME AuditInv, NEW s, NEW c, Conclude(s, c), pc \notin {"idle", "pending"},
           UNCHANGED <<manifest, report, run, attempt, apply, statuses>>
    PROVE  AuditInv'
  BY DEF AuditInv, Reported, Conclude, Evidence

\* A report of one date leaves the others alone.
LEMMA ReportOne ==
    ASSUME TypeInv, pc # "idle", NEW d \in DatesOf[run], NEW r,
           report' = [report EXCEPT ![run][d] = r]
    PROVE  /\ report'[run][d] = r
           /\ \A e \in DatesOf[run] \ {d} : report'[run][e] = report[run][e]
           /\ \A u \in Runs \ {run} : report'[u] = report[u]
  BY Bounds DEF TypeInv, TypeOK, JobInv

LEMMA NextAudit == TypeInv /\ AuditInv /\ [Next]_vars => AuditInv'
<1> SUFFICES ASSUME TypeInv, AuditInv, [Next]_vars PROVE AuditInv'
  OBVIOUS
<1> USE Bounds DEF Unwritten, Memory, job, store
<1>1. ASSUME NEW u \in Runs, NEW a \in BOOLEAN, NEW r \in BOOLEAN, StartRun(u, a, r)
      PROVE  AuditInv'
  BY <1>1 DEF StartRun, AuditInv, Reported, TypeInv, TypeOK
<1>2. CASE WritePending
  <2>1. PICK d \in left : /\ report' = [report EXCEPT ![run][d] = Evidence("PENDING", NotYet)]
                          /\ IF left = {d} THEN pc' = "next" /\ left' = DatesOf[run]
                                           ELSE pc' = "pending" /\ left' = left \ {d}
    BY <1>2 DEF WritePending
  <2>2. d \in DatesOf[run]
    BY <1>2 DEF WritePending, TypeInv, JobInv
  <2>3. ASSUME NEW e \in DatesOf[run], e \notin left \/ e = d PROVE Reported(e)'
    <3>1. /\ UNCHANGED <<run, attempt, apply, statuses>>
          /\ pc # "idle" /\ statuses[e] = "PENDING"
      BY <1>2, <2>3 DEF WritePending, AuditInv
    <3>2. CASE e = d
      <4>1. report'[run][e] = Evidence("PENDING", NotYet)
        BY <2>1, <2>2, <3>1, <3>2, ReportOne
      <4> QED
        BY <3>1, <4>1 DEF Reported, Evidence
    <3>3. CASE e # d
      <4>1. report'[run][e] = report[run][e]
        BY <2>1, <2>2, <2>3, <3>1, <3>3, ReportOne
      <4>2. Reported(e)
        BY <1>2, <2>3, <3>3 DEF WritePending, AuditInv
      <4> QED
        BY <3>1, <4>1, <4>2 DEF Reported
    <3> QED
      BY <3>2, <3>3
  <2>4. /\ UNCHANGED <<manifest, run, attempt, apply, statuses, outcome>>
        /\ pc = "pending" /\ pc' \in {"next", "pending"}
    BY <1>2, <2>1 DEF WritePending
  <2>5. CASE left = {d}
    <3>1. \A e \in DatesOf[run] : Reported(e)'
      BY <2>3, <2>5
    <3> QED
      BY <2>1, <2>4, <2>5, <3>1 DEF AuditInv
  <2>6. CASE left # {d}
    <3>1. \A e \in DatesOf[run] \ left' : Reported(e)'
      BY <2>1, <2>3, <2>6
    <3> QED
      BY <2>1, <2>4, <2>6, <3>1 DEF AuditInv
  <2> QED
    BY <2>5, <2>6
<1>3. CASE BeginDate
  <2>1. PICK d \in left : /\ date' = d
                          /\ report' = [report EXCEPT ![run][d] = Evidence("RUNNING", NotYet)]
                          /\ statuses' = [statuses EXCEPT ![d] = "RUNNING"]
    BY <1>3 DEF BeginDate
  <2>2. d \in DatesOf[run]
    BY <1>3 DEF BeginDate, TypeInv, JobInv
  <2>3. ASSUME NEW e \in DatesOf[run] PROVE Reported(e)'
    BY <1>3, <2>1, <2>2, <2>3, ReportOne DEF BeginDate, AuditInv, Reported, Evidence, TypeInv, TypeOK, JobInv
  <2> QED
    BY <1>3, <2>3 DEF BeginDate, AuditInv
<1>4. CASE MarkRunning
  BY <1>4 DEF MarkRunning, WriteManifest, AuditInv, Reported, TypeInv, TypeOK, JobInv
<1>5. CASE ReadInputs
  BY <1>5, ConcludeAudit DEF ReadInputs, AuditInv, Reported
<1>6. CASE FindCommitted
  BY <1>6, ConcludeAudit DEF FindCommitted, AuditInv, Reported
<1>7. CASE StageOutput
  BY <1>7 DEF StageOutput, PutObject, AuditInv, Reported
<1>8. CASE ReadBack
  BY <1>8, ConcludeAudit DEF ReadBack, AuditInv, Reported
<1>9. CASE WriteCommit
  BY <1>9 DEF WriteCommit, PutCommit, AuditInv, Reported
<1>10. CASE VerifyCommitted
  BY <1>10, ConcludeAudit DEF VerifyCommitted
<1>11. CASE WriteReport
  <2>1. ASSUME NEW e \in DatesOf[run] PROVE Reported(e)'
    BY <1>11, <2>1, ReportOne DEF WriteReport, AuditInv, Reported, TypeInv, TypeOK, JobInv, DateLabels
  <2> QED
    BY <1>11, <2>1 DEF WriteReport, AuditInv
<1>12. CASE MarkDone
  BY <1>12 DEF MarkDone, WriteManifest, AuditInv, Reported, TypeInv, TypeOK, JobInv
<1>13. CASE CloseManifest
  BY <1>13 DEF CloseManifest, AuditInv
<1>14. CASE InputsRefused
  BY <1>14, ConcludeAudit DEF InputsRefused
<1>15. CASE StoreRaises
  <2>1. UNCHANGED <<manifest, report>>
    BY <1>15 DEF StoreRaises, PutObject, PutCommit
  <2> QED
    BY <1>15, <2>1, ConcludeAudit DEF StoreRaises
<1>16. CASE Crash
  BY <1>16 DEF Crash, AuditInv
<1>17. CASE Tamper
  BY <1>17 DEF Tamper, AuditInv, Reported
<1>18. CASE UNCHANGED vars
  BY <1>18 DEF vars, AuditInv, Reported
<1> QED
  BY <1>1, <1>2, <1>3, <1>4, <1>5, <1>6, <1>7, <1>8, <1>9, <1>10, <1>11, <1>12, <1>13, <1>14,
     <1>15, <1>16, <1>17, <1>18 DEF Next, Process, Fails, FreeRun, ResumeRun

LEMMA NextBacked ==
    TypeInv /\ AuditInv /\ ClosedManifestIsBacked /\ [Next]_vars => ClosedManifestIsBacked'
<1> SUFFICES ASSUME TypeInv, AuditInv, ClosedManifestIsBacked, [Next]_vars,
                    NEW u \in Runs, manifest'[u].status \notin {"NONE", "RUNNING"},
                    NEW d \in DatesOf[u]
             PROVE  /\ report'[u][d].status = manifest'[u].dates[d]
                    /\ report'[u][d].attempt = manifest'[u].attempt
                    /\ report'[u][d].apply = manifest'[u].apply
  BY DEF ClosedManifestIsBacked
<1> USE Bounds DEF Unwritten, Memory, job, store
<1>1. CASE manifest'[u] = manifest[u] /\ report'[u] = report[u]
  BY <1>1 DEF ClosedManifestIsBacked
<1>2. CASE CloseManifest
  <2>1. CASE u = run
    <3>1. manifest'[u] = [status |-> StatusOf(statuses), apply |-> apply, attempt |-> attempt,
                          dates |-> statuses]
      BY <1>2, <2>1 DEF CloseManifest, WriteManifest, TypeInv, TypeOK
    <3> QED
      BY <1>2, <2>1, <3>1 DEF CloseManifest, AuditInv, Reported
  <2>2. CASE u # run
    BY <1>1, <1>2, <2>2 DEF CloseManifest, WriteManifest, TypeInv, TypeOK
  <2> QED
    BY <2>1, <2>2
<1>3. CASE pc # "idle" /\ u # run
           /\ \/ UNCHANGED manifest
              \/ \E s : WriteManifest("RUNNING", s)
           /\ \/ UNCHANGED report
              \/ \E e \in DatesOf[run], r \in Report : report' = [report EXCEPT ![run][e] = r]
  <2>1. manifest'[u] = manifest[u]
    BY <1>3 DEF WriteManifest, TypeInv, TypeOK
  <2>2. report'[u] = report[u]
    BY <1>3, ReportOne
  <2> QED
    BY <1>1, <2>1, <2>2
<1>4. CASE pc # "idle" /\ u = run /\ (UNCHANGED manifest \/ \E s : WriteManifest("RUNNING", s))
  <2>1. manifest[u].status = "RUNNING"
    BY <1>4 DEF AuditInv
  <2>2. manifest'[u].status = "RUNNING"
    BY <1>4, <2>1 DEF WriteManifest, TypeInv, TypeOK
  <2> QED
    BY <2>2
<1>5. CASE \E v \in Runs, a, r \in BOOLEAN : StartRun(v, a, r)
  <2>1. PICK v \in Runs, a \in BOOLEAN, r \in BOOLEAN : StartRun(v, a, r)
    BY <1>5
  <2>2. v # u
    BY <2>1 DEF StartRun, TypeInv, TypeOK
  <2>3. manifest'[u] = manifest[u] /\ report'[u] = report[u]
    BY <2>1, <2>2 DEF StartRun, TypeInv, TypeOK
  <2> QED
    BY <1>1, <2>3
<1>6. CASE WritePending \/ BeginDate
  <2>1. left \subseteq DatesOf[run]
    BY <1>6 DEF WritePending, BeginDate, TypeInv, JobInv
  <2>2. Evidence("PENDING", NotYet) \in Report /\ Evidence("RUNNING", NotYet) \in Report
    BY <1>6, EvidenceType, NotYetType DEF WritePending, BeginDate, DateStatus
  <2> QED
    BY <1>3, <1>4, <1>6, <2>1, <2>2 DEF WritePending, BeginDate
<1>7. CASE WriteReport
  BY <1>3, <1>4, <1>7 DEF WriteReport, TypeInv, TypeOK, JobInv, DateLabels
<1>8. CASE MarkRunning \/ MarkDone
  BY <1>3, <1>4, <1>8 DEF MarkRunning, MarkDone
<1>9. CASE UNCHANGED <<manifest, report>>
  BY <1>1, <1>9
<1> QED
  BY <1>2, <1>5, <1>6, <1>7, <1>8, <1>9
     DEF Next, Process, Fails, ReadInputs, FindCommitted, StageOutput, PutObject, ReadBack,
         WriteCommit, PutCommit, VerifyCommitted, InputsRefused, StoreRaises, Crash, Tamper,
         FreeRun, ResumeRun, vars

-----------------------------------------------------------------------------
(* Only a run that applies publishes, and only its own publication is COMPLETED. *)

PublishInv ==
    /\ pc \in {"find", "stage", "staged", "commit", "verify"} => apply
    /\ pc = "report" /\ outcome.status = "COMPLETED" =>
           (commit[date] # None => commit[date].run = run)

LEMMA NextPublish == TypeInv /\ PublishInv /\ [Next]_vars => PublishInv'
<1> SUFFICES ASSUME TypeInv, PublishInv, [Next]_vars PROVE PublishInv'
  OBVIOUS
<1> USE DEF Unwritten, Memory, job, store, PublishInv
<1>1. CASE \E u \in Runs : FreeRun(u) \/ ResumeRun(u)
  BY <1>1 DEF FreeRun, ResumeRun, StartRun
<1>2. CASE WritePending \/ BeginDate \/ MarkRunning \/ WriteReport \/ MarkDone \/ CloseManifest
  BY <1>2 DEF WritePending, BeginDate, MarkRunning, WriteReport, MarkDone, CloseManifest
<1>3. CASE ReadInputs
  BY <1>3 DEF ReadInputs, Conclude, Evidence
<1>4. CASE FindCommitted
  BY <1>4 DEF FindCommitted, Conclude, Evidence, Matches
<1>5. CASE StageOutput \/ WriteCommit
  BY <1>5 DEF StageOutput, PutObject, WriteCommit, PutCommit
<1>6. CASE ReadBack
  <2>1. CASE objects[run][date][out] # "intact"
    BY <1>6, <2>1 DEF ReadBack, Conclude, Evidence
  <2>2. CASE objects[run][date][out] = "intact"
    BY <1>6, <2>2 DEF ReadBack
  <2> QED
    BY <2>1, <2>2
<1>7. CASE VerifyCommitted
  BY <1>7 DEF VerifyCommitted, Conclude, Evidence, Matches
<1>8. CASE InputsRefused
  BY <1>8 DEF InputsRefused, Conclude, Evidence
<1>9. CASE StoreRaises
  BY <1>9 DEF StoreRaises, Conclude, Evidence
<1>10. CASE Crash
  BY <1>10 DEF Crash
<1>11. CASE Tamper
  <2>1. pc = "report" => commit'[date] \in {commit[date], None}
    BY <1>11, Bounds DEF Tamper, TypeInv, TypeOK, JobInv, DateLabels
  <2> QED
    BY <1>11, <2>1 DEF Tamper
<1>12. CASE UNCHANGED vars
  BY <1>12 DEF vars
<1> QED
  BY <1>1, <1>2, <1>3, <1>4, <1>5, <1>6, <1>7, <1>8, <1>9, <1>10, <1>11, <1>12
     DEF Next, Process, Fails

-----------------------------------------------------------------------------
(* The invariant and what it implies. *)

IInv ==
    /\ TypeInv /\ StagedInv /\ CommittedIsComplete
    /\ AuditInv /\ ClosedManifestIsBacked /\ PublishInv

LEMMA InitInv == Init => IInv
<1> SUFFICES ASSUME Init PROVE IInv
  OBVIOUS
<1>1. TypeInv
  BY InitType
<1>2. StagedInv /\ AuditInv /\ PublishInv
  BY DEF Init, StagedInv, AuditInv, PublishInv
<1>3. CommittedIsComplete /\ ClosedManifestIsBacked
  BY DEF Init, CommittedIsComplete, ClosedManifestIsBacked
<1> QED
  BY <1>1, <1>2, <1>3 DEF IInv

LEMMA Inductive == Spec => []IInv
<1>1. IInv /\ [Next]_vars => IInv'
  BY NextType, NextStaged, NextComplete, NextAudit, NextBacked, NextPublish DEF IInv
<1> QED
  BY InitInv, <1>1, PTL DEF Spec

\* Every variable of the range runner keeps its type, in every interleaving of
\* runs, resumptions, failed calls, crashes and damage.
THEOREM TypeCorrect == Spec => []TypeOK
<1>1. IInv => TypeOK
  BY DEF IInv, TypeInv
<1> QED
  BY Inductive, <1>1, PTL

\* commit.json is written last: whatever it names was read back before, and stays
\* unless somebody else damages it, however many runs publish the same date.
THEOREM Complete == Spec => []CommittedIsComplete
<1>1. IInv => CommittedIsComplete
  BY DEF IInv
<1> QED
  BY Inductive, <1>1, PTL

\* The manifest is opened before the first report is reset and closed after the
\* last one is written: a closed manifest agrees with every report of its dates.
THEOREM Backed == Spec => []ClosedManifestIsBacked
<1>1. IInv => ClosedManifestIsBacked
  BY DEF IInv
<1> QED
  BY Inductive, <1>1, PTL

\* A dry run leaves every published object and every commit alone, wherever it
\* stops (docs/goal22_real_clean_universe.md): only a process that was asked to
\* apply reaches the writers.
THEOREM DryRun == Spec => DryRunPublishesNothing
<1>1. TypeInv /\ PublishInv /\ [Next]_vars =>
          [~apply /\ tampers' = tampers => UNCHANGED <<commit, objects>>]_vars
  <2> SUFFICES ASSUME TypeInv, PublishInv, [Next]_vars, ~apply, tampers' = tampers
               PROVE  UNCHANGED <<commit, objects>>
    OBVIOUS
  <2>1. pc \notin {"stage", "commit"}
    BY DEF PublishInv
  <2>2. ~Tamper
    BY Bounds DEF Tamper, TypeInv, TypeOK
  <2> QED
    BY <2>1, <2>2
       DEF Next, Process, Fails, WritePending, BeginDate, MarkRunning, ReadInputs, FindCommitted,
           StageOutput, ReadBack, WriteCommit, VerifyCommitted, WriteReport, MarkDone,
           CloseManifest, InputsRefused, StoreRaises, Crash, FreeRun, ResumeRun, StartRun,
           Unwritten, store, vars
<1>2. IInv => TypeInv /\ PublishInv
  BY DEF IInv
<1> QED
  BY Inductive, <1>1, <1>2, PTL DEF Spec, DryRunPublishesNothing

-----------------------------------------------------------------------------
(* A resumed run and its own publications. *)

\* As long as nobody damages anything, a resumed run gets past the look at its commit
\* only for a date that is somebody else's, or nobody's.
ResumeInv ==
    tampers = 0 =>
        /\ spoiled = {}
        /\ reuse /\ pc \in {"stage", "staged", "commit"} =>
               commit[date] = None \/ commit[date].run # run

LEMMA NextResume == IInv /\ ResumeInv /\ [Next]_vars => ResumeInv'
<1> SUFFICES ASSUME IInv, ResumeInv, [Next]_vars, tampers' = 0 PROVE ResumeInv'
  BY DEF ResumeInv
<1> USE DEF Unwritten, Memory, job, store, bounds, ResumeInv
<1>1. tampers = 0 /\ ~Tamper
  <2>1. tampers \in Nat
    BY Bounds DEF IInv, TypeInv, TypeOK
  <2>2. Tamper => tampers' = tampers + 1
    BY DEF Tamper
  <2>3. ~Tamper => tampers' = tampers
    BY DEF Next, Process, Fails, WritePending, BeginDate, MarkRunning, ReadInputs, FindCommitted,
           StageOutput, ReadBack, WriteCommit, VerifyCommitted, WriteReport, MarkDone,
           CloseManifest, InputsRefused, StoreRaises, Crash, FreeRun, ResumeRun, StartRun, vars
  <2> QED
    BY <2>1, <2>2, <2>3
<1>2. CASE \E u \in Runs : FreeRun(u) \/ ResumeRun(u)
  BY <1>1, <1>2 DEF FreeRun, ResumeRun, StartRun
<1>3. CASE WritePending \/ BeginDate \/ MarkRunning \/ ReadInputs \/ WriteReport \/ MarkDone
           \/ CloseManifest
  BY <1>1, <1>3 DEF WritePending, BeginDate, MarkRunning, ReadInputs, WriteReport, MarkDone,
                    CloseManifest, Conclude
<1>4. CASE FindCommitted
  <2>1. CASE reuse /\ Matches
    BY <1>1, <1>4, <2>1 DEF FindCommitted, Conclude
  <2>2. CASE reuse /\ ~Matches
    <3>1. date \in Dates
      BY <1>4, Bounds DEF FindCommitted, IInv, TypeInv, JobInv, DateLabels
    <3>2. commit[date] # None => Intact(commit[date].run, date)
      BY <1>1, <3>1 DEF IInv, CommittedIsComplete, Intact
    <3>3. commit[date] = None \/ commit[date].run # run
      BY <2>2, <3>2 DEF Matches
    <3> QED
      BY <1>1, <1>4, <2>2, <3>3 DEF FindCommitted
  <2>3. CASE ~reuse
    BY <1>1, <1>4, <2>3 DEF FindCommitted
  <2> QED
    BY <2>1, <2>2, <2>3
<1>5. CASE StageOutput \/ ReadBack
  BY <1>1, <1>5 DEF StageOutput, PutObject, ReadBack, Conclude
<1>6. CASE WriteCommit \/ VerifyCommitted \/ InputsRefused \/ StoreRaises
  BY <1>1, <1>6 DEF WriteCommit, PutCommit, VerifyCommitted, InputsRefused, StoreRaises,
                    PutObject, Conclude
<1>7. CASE Crash
  BY <1>1, <1>7 DEF Crash
<1>8. CASE UNCHANGED vars
  BY <1>1, <1>8 DEF vars
<1> QED
  BY <1>1, <1>2, <1>3, <1>4, <1>5, <1>6, <1>7, <1>8 DEF Next, Process, Fails

\* A resumed run replaces nobody's publication with another of the same run: what it
\* published before, in whichever attempt, it leaves alone.
THEOREM ResumeIsIdempotent == Spec => ResumeReplacesNothing
<1>1. Init => ResumeInv
  BY DEF Init, ResumeInv
<1>2. IInv /\ ResumeInv /\ [Next]_vars =>
          [\A d \in Dates :
              commit[d] # None /\ commit'[d] \notin {commit[d], None} /\ reuse /\ tampers = 0
                  => commit'[d].run # commit[d].run]_vars
  <2> SUFFICES ASSUME IInv, ResumeInv, [Next]_vars, NEW d \in Dates, commit[d] # None,
                      commit'[d] \notin {commit[d], None}, reuse, tampers = 0
               PROVE  commit'[d].run # commit[d].run
    BY DEF vars
  <2>1. commit \in [Dates -> {None} \cup [run : Runs, attempt : 1..MaxAttempts]]
    BY DEF IInv, TypeInv, TypeOK
  <2>2. pc = "commit" /\ PutCommit
    <3>1. ~Tamper
      BY <2>1 DEF Tamper
    <3> QED
      BY <3>1
         DEF Next, Process, Fails, WritePending, BeginDate, MarkRunning, ReadInputs,
             FindCommitted, StageOutput, PutObject, ReadBack, WriteCommit, VerifyCommitted,
             WriteReport, MarkDone, CloseManifest, InputsRefused, StoreRaises, Crash, FreeRun,
             ResumeRun, StartRun, Unwritten, store, vars
  <2>3. d = date /\ commit'[d] = [run |-> run, attempt |-> attempt]
    BY <2>1, <2>2 DEF PutCommit
  <2>4. commit[date] = None \/ commit[date].run # run
    BY <2>2 DEF ResumeInv
  <2> QED
    BY <2>3, <2>4
<1> QED
  BY <1>1, <1>2, NextResume, Inductive, PTL DEF Spec, ResumeReplacesNothing

-----------------------------------------------------------------------------
(* The promise to Goal 23: each step of the runner is a step of RangeEvidence *)
(* or changes nothing its readers see.                                        *)

\* What leaves the evidence as it is.
LEMMA EvidenceStutter ==
    ASSUME UNCHANGED <<manifest, report, commit, spoiled>>
    PROVE  UNCHANGED Promise!evidence
  BY DEF Promise!evidence, Attempts, Closed, Trusted, Attested, Damaged

LEMMA StartOpens ==
    ASSUME TypeInv, NEW u \in Runs, NEW a, NEW r, StartRun(u, a, r)
    PROVE  Promise!OpenRange(u)
<1>1. manifest' = [manifest EXCEPT ![u] =
           [status |-> "RUNNING", apply |-> a, attempt |-> manifest[u].attempt + 1,
            dates |-> statuses']]
  BY DEF StartRun
<1>2. Attempts' = [Attempts EXCEPT ![u] = @ + 1]
  BY <1>1 DEF Attempts, TypeInv, TypeOK
<1>3. Closed' = [Closed EXCEPT ![u] = None]
  <2>1. ~Trusted(u)'
    BY <1>1 DEF Trusted, TypeInv, TypeOK
  <2>2. \A v \in Runs \ {u} : manifest'[v] = manifest[v]
    BY <1>1 DEF TypeInv, TypeOK
  <2> QED
    BY <2>1, <2>2 DEF Closed, Trusted
<1>4. UNCHANGED <<Attested, commit, Damaged>>
  BY DEF StartRun, Attested, Damaged
<1>5. Attempts[u] < MaxAttempts
  BY DEF StartRun, Attempts
<1> QED
  BY <1>2, <1>3, <1>4, <1>5 DEF Promise!OpenRange

\* While a process runs, its range is open.
LEMMA ProcessOpened ==
    ASSUME TypeInv, AuditInv, pc # "idle"
    PROVE  /\ run \in Runs /\ Promise!Opened(run)
           /\ Attempts[run] = attempt
  BY Bounds DEF TypeInv, JobInv, AuditInv, Promise!Opened, Attempts, Closed, Trusted

\* Marking a manifest that is RUNNING already tells its readers nothing.
LEMMA MarkStutters ==
    ASSUME TypeInv, AuditInv, pc # "idle", NEW s, WriteManifest("RUNNING", s),
           UNCHANGED <<report, commit, spoiled>>
    PROVE  UNCHANGED Promise!evidence
<1>1. /\ manifest'[run].status = "RUNNING" /\ manifest'[run].attempt = attempt
      /\ \A v \in Runs \ {run} : manifest'[v] = manifest[v]
  BY DEF TypeInv, TypeOK, JobInv, WriteManifest
<1>2. manifest[run].status = "RUNNING" /\ manifest[run].attempt = attempt
  BY DEF AuditInv
<1>3. Attempts' = Attempts
  BY <1>1, <1>2 DEF Attempts
<1>4. Closed' = Closed
  BY <1>1, <1>2 DEF Closed, Trusted
<1> QED
  BY <1>3, <1>4 DEF Promise!evidence, Attested, Damaged

\* A report of one date changes what is attested of that date only.
LEMMA ReportAttests ==
    ASSUME TypeInv, pc # "idle", NEW d \in DatesOf[run], NEW r \in Report,
           report' = [report EXCEPT ![run][d] = r]
    PROVE  Attested' = [Attested EXCEPT ![run][d] =
                           IF r.status = "COMPLETED" THEN r.attempt ELSE 0]
<1>1. /\ report'[run][d] = r
      /\ \A e \in Dates \ {d} : report'[run][e] = report[run][e]
      /\ \A u \in Runs \ {run} : report'[u] = report[u]
  BY Bounds DEF TypeInv, TypeOK, JobInv
<1>2. run \in Runs /\ d \in Dates
  BY Bounds DEF TypeInv, JobInv
<1>3. \A u \in Runs \ {run} : Attested'[u] = Attested[u]
  BY <1>1 DEF Attested
<1>4. Attested'[run] = [Attested[run] EXCEPT ![d] =
                           IF r.status = "COMPLETED" THEN r.attempt ELSE 0]
  <2>1. Attested'[run] = [e \in Dates |->
             IF report'[run][e].status = "COMPLETED" THEN report'[run][e].attempt ELSE 0]
    BY <1>2 DEF Attested
  <2>2. Attested[run] = [e \in Dates |->
             IF report[run][e].status = "COMPLETED" THEN report[run][e].attempt ELSE 0]
    BY <1>2 DEF Attested
  <2> QED
    BY <1>1, <1>2, <2>1, <2>2
<1> QED
  BY <1>2, <1>3, <1>4 DEF Attested

\* A report that does not say COMPLETED withdraws what was attested.
LEMMA ReportWithdraws ==
    ASSUME TypeInv, AuditInv, pc # "idle", NEW d \in DatesOf[run], NEW r \in Report,
           r.status # "COMPLETED", report' = [report EXCEPT ![run][d] = r],
           UNCHANGED <<manifest, commit, spoiled>>
    PROVE  Promise!Withdraw(run, d)
<1>1. UNCHANGED <<Attempts, Closed, commit, Damaged>>
  BY DEF Attempts, Closed, Trusted, Damaged
<1> QED
  BY <1>1, ReportAttests, ProcessOpened DEF Promise!Withdraw

LEMMA ReportKept ==
    ASSUME TypeInv, AuditInv, PublishInv, WriteReport
    PROVE  Promise!Withdraw(run, date) \/ Promise!Attest(run, date)
<1>1. /\ pc = "report" /\ date \in DatesOf[run] /\ outcome \in Report
      /\ report' = [report EXCEPT ![run][date] = outcome]
      /\ UNCHANGED <<manifest, commit, spoiled>>
  BY DEF WriteReport, TypeInv, TypeOK, JobInv, DateLabels
<1>2. CASE outcome.status # "COMPLETED"
  BY <1>1, <1>2, ReportWithdraws
<1>3. CASE outcome.status = "COMPLETED"
  <2>1. outcome.attempt = Attempts[run]
    BY <1>1, ProcessOpened DEF AuditInv
  <2>2. commit[date] # None => commit[date].run = run
    BY <1>1, <1>3 DEF PublishInv
  <2>3. UNCHANGED <<Attempts, Closed, commit, Damaged>>
    BY <1>1 DEF Attempts, Closed, Trusted, Damaged
  <2> QED
    BY <1>1, <1>3, <2>1, <2>2, <2>3, ReportAttests, ProcessOpened DEF Promise!Attest
<1> QED
  BY <1>2, <1>3

LEMMA CommitPublishes ==
    ASSUME TypeInv, AuditInv, pc = "commit", PutCommit
    PROVE  Promise!Publish(run, date)
<1>1. UNCHANGED <<Attempts, Closed, Attested, Damaged>>
  BY DEF PutCommit, Attempts, Closed, Trusted, Attested, Damaged
<1>2. commit' = [commit EXCEPT ![date] = [run |-> run, attempt |-> Attempts[run]]]
  BY ProcessOpened DEF PutCommit
<1> QED
  BY <1>1, <1>2, ProcessOpened DEF Promise!Publish

\* The damage of a generation is undone once its last spoiled output is put again.
LEMMA ObjectRepairs ==
    ASSUME TypeInv, AuditInv, pc = "stage", PutObject
    PROVE  Promise!Repair(run, date) \/ UNCHANGED Promise!evidence
<1>1. UNCHANGED <<Attempts, Closed, Attested, commit>>
  BY DEF PutObject, Attempts, Closed, Trusted, Attested
<1>2. Damaged' = Damaged \/ Damaged' = Damaged \ {<<run, date>>}
  <2>1. \A p \in Runs \X Dates : p # <<run, date>> => (p \in Damaged' <=> p \in Damaged)
    <3> SUFFICES ASSUME NEW p \in Runs \X Dates, p # <<run, date>>
                 PROVE  p \in Damaged' <=> p \in Damaged
      OBVIOUS
    <3>1. p[1] # run \/ p[2] # date
      OBVIOUS
    <3>2. \A o \in Outputs : <<p[1], p[2], o>> \in spoiled' <=> <<p[1], p[2], o>> \in spoiled
      BY <3>1 DEF PutObject
    <3> QED
      BY <3>2 DEF Damaged
  <2>2. <<run, date>> \in Damaged' => <<run, date>> \in Damaged
    BY DEF PutObject, Damaged
  <2>3. Damaged \subseteq Runs \X Dates /\ Damaged' \subseteq Runs \X Dates
    BY DEF Damaged
  <2> QED
    BY <2>1, <2>2, <2>3
<1> QED
  BY <1>1, <1>2, ProcessOpened DEF Promise!Repair, Promise!evidence

\* The closed manifest of a run that applied lists what its reports attest; that of
\* a dry run is trusted by nobody.
LEMMA CloseCloses ==
    ASSUME TypeInv, AuditInv, CloseManifest
    PROVE  Promise!CloseRange(run) \/ UNCHANGED Promise!evidence
<1>1. /\ pc = "next" /\ run \in Runs
      /\ manifest'[run] = [status |-> StatusOf(statuses), apply |-> apply,
                           attempt |-> attempt, dates |-> statuses]
      /\ \A v \in Runs \ {run} : manifest'[v] = manifest[v]
      /\ UNCHANGED <<report, commit, spoiled>>
  BY DEF CloseManifest, WriteManifest, TypeInv, TypeOK, JobInv
<1>2. /\ Attempts' = Attempts /\ UNCHANGED <<Attested, commit, Damaged>>
  BY <1>1, ProcessOpened DEF Attempts, Attested, Damaged
<1>3. \A v \in Runs \ {run} : Closed'[v] = Closed[v]
  BY <1>1 DEF Closed, Trusted
<1>4. CASE apply
  <2>1. Closed'[run] = {d \in DatesOf[run] : statuses[d] = "COMPLETED"}
    BY <1>1, <1>4 DEF Closed, Trusted, StatusOf
  <2>2. \A d \in DatesOf[run] : Attested[run][d] = Attempts[run] <=> statuses[d] = "COMPLETED"
    BY <1>1, ProcessOpened, Bounds DEF AuditInv, Reported, Attested, TypeInv, JobInv
  <2>3. Closed'[run] = {d \in DatesOf[run] : Attested[run][d] = Attempts[run]}
    BY <2>1, <2>2
  <2>4. Closed' = [Closed EXCEPT ![run] =
                      {d \in DatesOf[run] : Attested[run][d] = Attempts[run]}]
    BY <1>1, <1>3, <2>3, Zenon DEF Closed
  <2> QED
    BY <1>1, <1>2, <2>4, ProcessOpened DEF Promise!CloseRange
<1>5. CASE ~apply
  <2>1. Closed'[run] = None /\ Closed[run] = None
    BY <1>1, <1>5, ProcessOpened DEF Closed, Trusted, AuditInv
  <2>2. Closed' = Closed
    BY <1>1, <1>3, <2>1 DEF Closed
  <2> QED
    BY <1>2, <2>2 DEF Promise!evidence
<1> QED
  BY <1>4, <1>5

LEMMA TamperIsMisfortune == ASSUME TypeInv, Tamper PROVE Promise!Misfortune
<1>1. UNCHANGED <<Attempts, Closed, Attested>>
  BY DEF Tamper, Attempts, Closed, Trusted, Attested
<1>2. CASE \E u \in Runs, d \in Dates, o \in Outputs :
               spoiled' = spoiled \cup {<<u, d, o>>} /\ UNCHANGED commit
  <2>1. PICK u \in Runs, d \in Dates, o \in Outputs :
            spoiled' = spoiled \cup {<<u, d, o>>} /\ UNCHANGED commit
    BY <1>2
  <2>2. Damaged' = Damaged \cup {<<u, d>>}
    BY <2>1 DEF Damaged
  <2> QED
    BY <1>1, <2>1, <2>2 DEF Promise!Misfortune, Promise!Damage
<1>3. CASE \E d \in Dates : commit' = [commit EXCEPT ![d] = None] /\ UNCHANGED spoiled
  BY <1>1, <1>3 DEF Promise!Misfortune, Promise!LoseCommit, Damaged
<1> QED
  BY <1>2, <1>3 DEF Tamper

LEMMA EvidenceStep ==
    TypeInv /\ AuditInv /\ PublishInv /\ [Next]_vars => [Promise!EvidenceNext]_(Promise!evidence)
<1> SUFFICES ASSUME TypeInv, AuditInv, PublishInv, [Next]_vars
             PROVE  Promise!EvidenceNext \/ UNCHANGED Promise!evidence
  OBVIOUS
<1>1. ASSUME NEW d \in DatesOf[run], pc # "idle",
             \/ Promise!Withdraw(run, d) \/ Promise!Attest(run, d)
             \/ Promise!Publish(run, d) \/ Promise!Repair(run, d)
      PROVE  Promise!EvidenceNext
  BY <1>1, ProcessOpened DEF Promise!EvidenceNext, Promise!Runner
<1>2. ASSUME NEW u \in Runs, FreeRun(u) \/ ResumeRun(u)
      PROVE  Promise!EvidenceNext
  <2>1. Promise!OpenRange(u)
    BY <1>2, StartOpens DEF FreeRun, ResumeRun
  <2> QED
    BY <2>1 DEF Promise!EvidenceNext, Promise!Runner
<1>3. CASE WritePending \/ BeginDate
  <2>1. PICK d \in left, s \in {"PENDING", "RUNNING"} :
            report' = [report EXCEPT ![run][d] = Evidence(s, NotYet)]
    BY <1>3 DEF WritePending, BeginDate
  <2>2. pc # "idle" /\ UNCHANGED <<manifest, commit, spoiled>>
    BY <1>3 DEF WritePending, BeginDate
  <2>3. d \in DatesOf[run] /\ Evidence(s, NotYet) \in Report
    BY <2>1, <2>2, EvidenceType, NotYetType DEF TypeInv, JobInv, DateStatus
  <2>4. Evidence(s, NotYet).status # "COMPLETED"
    BY DEF Evidence
  <2> QED
    BY <1>1, <2>1, <2>2, <2>3, <2>4, ReportWithdraws
<1>4. CASE WriteReport
  BY <1>1, <1>4, ReportKept DEF WriteReport, TypeInv, JobInv, DateLabels
<1>5. CASE MarkRunning \/ MarkDone
  BY <1>5, MarkStutters DEF MarkRunning, MarkDone
<1>6. CASE CloseManifest
  <2>1. Promise!CloseRange(run) => Promise!EvidenceNext
    BY <1>6, ProcessOpened DEF CloseManifest, Promise!EvidenceNext, Promise!Runner
  <2> QED
    BY <1>6, <2>1, CloseCloses
<1>7. CASE pc = "commit" /\ PutCommit
  BY <1>1, <1>7, CommitPublishes DEF TypeInv, JobInv, DateLabels
<1>8. CASE pc = "stage" /\ PutObject
  BY <1>1, <1>8, ObjectRepairs DEF TypeInv, JobInv, DateLabels
<1>9. CASE Tamper
  BY <1>9, TamperIsMisfortune DEF Promise!EvidenceNext
<1>10. CASE UNCHANGED <<manifest, report, commit, spoiled>>
  BY <1>10, EvidenceStutter
<1> QED
  BY <1>2, <1>3, <1>4, <1>5, <1>6, <1>7, <1>8, <1>9, <1>10
     DEF Next, Process, Fails, ReadInputs, FindCommitted, StageOutput, ReadBack, WriteCommit,
         VerifyCommitted, InputsRefused, StoreRaises, Crash, Unwritten, store, vars

\* The runner keeps its promise to its readers for every set of runs and dates:
\* trust is withdrawn before anything is touched and given only to dates that the
\* closing attempt published, whatever fails, stops or is damaged on the way.
THEOREM Implements == Spec => ImplementsEvidence
<1>1. Init => Promise!EvidenceInit
  BY DEF Init, Promise!EvidenceInit, Attempts, Closed, Trusted, Attested, Damaged, NoReport
<1>2. IInv => TypeInv /\ AuditInv /\ PublishInv
  BY DEF IInv
<1> QED
  BY Inductive, <1>1, <1>2, EvidenceStep, PTL DEF Spec, ImplementsEvidence, Promise!EvidenceSpec
=============================================================================
