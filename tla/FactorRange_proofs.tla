--------------------------- MODULE FactorRange_proofs ---------------------------
(***************************************************************************)
(* Proofs, for every catalog, every set of run ids and of dates, that a     *)
(* Goal 23 commit names a generation that was read back, that it rests on    *)
(* exactly the history of the plan of its run, and that Goal 23 keeps the   *)
(* promise of RangeEvidence to Goal 24 while Goal 22 goes on underneath.    *)
(***************************************************************************)
EXTENDS FactorRange, TLAPS

USE FactorAssumption

ReadLabels == {"history", "commit22", "objects22"}
PublishLabels == {"find", "stage", "write", "readback", "commit", "verify"}
DateLabels == {"mark", "report", "done"} \cup ReadLabels \cup PublishLabels

\* What Goal 22 shows.
EvidenceOK ==
    /\ attempt \in [Runs -> 0..MaxAttempts]
    /\ closed \in [Runs -> {Open} \cup SUBSET Dates]
    /\ attested \in [Runs -> [Dates -> 0..MaxAttempts]]
    /\ published \in [Dates -> {None} \cup [run : Runs, attempt : 0..MaxAttempts]]

\* What the process knows of itself, and what it holds in each phase.
JobInv ==
    /\ pc # "idle" => job.run \in FactorRuns /\ job.attempt \in 1..MaxFactorAttempts
    /\ pc \notin {"idle", "load"} => left \subseteq TargetsOf[job.run]
    /\ pc \in DateLabels => date \in TargetsOf[job.run]
    /\ pc \in {"commit22", "objects22"} => reading \in Readings

\* Every publication that the target rests on was read.
HistoryRead == \A h \in History : \A u \in Covering(h) : cache[u][h] # None

ReadInv == pc \in PublishLabels => HistoryRead

TypeInv == TypeOK /\ EvidenceOK /\ JobInv /\ ReadInv

\* Attempts, manifests and reports of a run agree while its process is there.
Reported(d) ==
    /\ freport[job.run][d].status = statuses[d]
    /\ freport[job.run][d].attempt = job.attempt

AuditInv ==
    /\ pc = "load" => job.attempt = fmanifest[job.run].attempt + 1
    /\ pc \notin {"idle", "load"} => /\ fmanifest[job.run].status = "RUNNING"
                                     /\ fmanifest[job.run].attempt = job.attempt
    /\ pc = "pending" => /\ \A d \in TargetsOf[job.run] : statuses[d] = "PENDING"
                         /\ \A d \in TargetsOf[job.run] \ left : Reported(d)
    /\ pc \notin {"idle", "load", "pending"} => \A d \in TargetsOf[job.run] : Reported(d)
    /\ pc = "report" => foutcome.attempt = job.attempt

\* What is COMPLETED is of this run.
OutcomeInv ==
    pc = "report" /\ foutcome.status = "COMPLETED" =>
        (fcommit[date] # None => fcommit[date].run = job.run)

\* A generation that is committed was read back before.
StagedInv == pc = "commit" => Sound(Generation) \/ Generation \in spoiled

\* The process works on the plan of its run, and only on the manifests of its catalog.
PlanInv ==
    /\ pc # "idle" => \A u \in Runs \ Catalog : catalog[u] = None
    /\ pc \notin {"idle", "load"} => /\ fmanifest[job.run].plan = catalog
                                     /\ \A u \in Catalog : catalog[u] # None

\* Whatever was read was vouched for by the attempt that the plan knows; what is being
\* read is the one publication that comes next.
CacheInv ==
    /\ pc \notin {"idle", "load"} =>
           \A u \in Runs, h \in Dates : cache[u][h] # None => cache[u][h].report = catalog[u].attempt
    /\ pc \in {"commit22", "objects22"} \cup PublishLabels => Coherent
    /\ pc \in {"commit22", "objects22"} =>
           \A u \in Runs, h \in Dates : Unseen(u, h) => reading.report = catalog[u].attempt

IInv ==
    /\ TypeInv /\ AuditInv /\ OutcomeInv /\ StagedInv /\ CommittedIsComplete
    /\ PlanInv /\ CacheInv /\ HistoryIsOfThePlan

-----------------------------------------------------------------------------
(* Type correctness. *)

LEMMA Bounds ==
    /\ MaxAttempts \in Nat /\ MaxFactorAttempts \in Nat /\ MaxFree \in Nat /\ MaxFaults \in Nat
    /\ MaxTampers \in Nat /\ 0 \notin Dates
    /\ \A f \in FactorRuns : TargetsOf[f] \subseteq Dates /\ CatalogOf[f] \subseteq Runs
    /\ \A u \in Runs : DatesOf[u] \subseteq Dates
  BY DEF FactorAssumption

LEMMA RecordsOnly == None \notin Plans /\ None \notin Commits
  BY DEF FactorAssumption

LEMMA InitType == Init => TypeInv
<1> SUFFICES ASSUME Init PROVE TypeInv
  OBVIOUS
<1> USE Bounds DEF Init
<1>1. NoReport \in Reports
  BY DEF NoReport, Reports, DateStatus
<1>2. /\ fmanifest \in [FactorRuns -> Manifests]
      /\ freport \in [FactorRuns -> [Dates -> Reports]]
      /\ fcommit \in [Dates -> {None} \cup Commits]
  <2>1. NoStatuses \in [Dates -> DateStatus]
    BY DEF NoStatuses, DateStatus
  <2> QED
    BY <1>1, <2>1 DEF Manifests, DateStatus
<1>3. /\ job \in [run : {None} \cup FactorRuns, attempt : 0..MaxFactorAttempts, apply : BOOLEAN,
                  reuse : BOOLEAN]
      /\ catalog \in Plans /\ cache \in [Runs -> [Dates -> {None} \cup Readings]]
      /\ statuses \in [Dates -> DateStatus]
  BY DEF Plans, Unread, NoStatuses, DateStatus
<1>4. /\ foutcome \in Reports /\ corrupt \subseteq staged /\ reading \in {None} \cup Readings
      /\ left \subseteq Dates /\ date \in {0} \cup Dates /\ stale \subseteq Dates
      /\ free \in 0..MaxFree /\ faults \in 0..MaxFaults /\ tampers \in 0..MaxTampers
  BY <1>1
<1>5. TypeOK
  BY <1>2, <1>3, <1>4 DEF TypeOK
<1>6. EvidenceOK
  BY DEF EvidenceInit, EvidenceOK
<1> QED
  BY <1>5, <1>6 DEF TypeInv, JobInv, ReadInv, DateLabels, ReadLabels, PublishLabels

\* Whatever Goal 22 does, and whatever is lost of it, keeps its shape.
LEMMA EvidenceStepType ==
    ASSUME EvidenceOK, Misfortune \/ \E u \in Runs : Runner(u)
    PROVE  EvidenceOK'
<1> USE Bounds DEF EvidenceOK
<1>1. ASSUME NEW u \in Runs, OpenRange(u) PROVE EvidenceOK'
  BY <1>1 DEF OpenRange
<1>2. ASSUME NEW u \in Runs, CloseRange(u) PROVE EvidenceOK'
  BY <1>2 DEF CloseRange
<1>3. ASSUME NEW u \in Runs, NEW d \in DatesOf[u],
             Withdraw(u, d) \/ Publish(u, d) \/ Attest(u, d) \/ Repair(u, d)
      PROVE  EvidenceOK'
  <2>1. d \in Dates
    OBVIOUS
  <2>2. CASE Withdraw(u, d) \/ Attest(u, d)
    <3>1. PICK n \in 0..MaxAttempts : attested' = [attested EXCEPT ![u][d] = n]
      BY <2>2, SMTT(30) DEF Withdraw, Attest
    <3>2. attested[u] \in [Dates -> 0..MaxAttempts]
      OBVIOUS
    <3>3. [attested[u] EXCEPT ![d] = n] \in [Dates -> 0..MaxAttempts]
      BY <2>1, <3>2
    <3> QED
      BY <2>2, <3>1, <3>3 DEF Withdraw, Attest
  <2>3. CASE Publish(u, d)
    BY <2>1, <2>3 DEF Publish
  <2>4. CASE Repair(u, d)
    BY <2>4 DEF Repair
  <2> QED
    BY <1>3, <2>2, <2>3, <2>4
<1>4. ASSUME NEW d \in Dates, LoseCommit(d) \/ \E u \in Runs : Damage(u, d)
      PROVE  EvidenceOK'
  BY <1>4 DEF LoseCommit, Damage
<1> QED
  BY <1>1, <1>2, <1>3, <1>4 DEF Misfortune, Runner

LEMMA EvidenceOKType ==
    ASSUME TypeOK, JobInv, pc # "idle", NEW s \in DateStatus
    PROVE  Evidence(s) \in Reports
  BY Bounds DEF TypeOK, JobInv, Evidence, Reports

LEMMA ManifestType ==
    ASSUME TypeOK, JobInv, pc # "idle", NEW s \in DateStatus \cup {"PARTIAL"},
           NEW f \in [Dates -> DateStatus], WriteManifest(s, f)
    PROVE  fmanifest' \in [FactorRuns -> Manifests]
<1>1. fmanifest[job.run] \in Manifests /\ job.run \in FactorRuns
  BY DEF TypeOK, JobInv
<1>2. [fmanifest[job.run] EXCEPT !.status = s, !.apply = job.apply, !.attempt = job.attempt,
                                 !.dates = f] \in Manifests
  BY <1>1, Bounds DEF TypeOK, JobInv, Manifests
<1> QED
  BY <1>1, <1>2 DEF TypeOK, WriteManifest

LEMMA StatusType == ASSUME NEW s PROVE StatusOf(s) \in DateStatus \cup {"PARTIAL"}
  BY DEF StatusOf, DateStatus

LEMMA FaultType == ASSUME TypeOK, Fault PROVE faults' \in 0..MaxFaults
  BY Bounds DEF TypeOK, Fault

\* What a target rests on is a set of publications that were read.
LEMMA LineageType ==
    ASSUME TypeOK, JobInv, pc \in PublishLabels, HistoryRead
    PROVE  Lineage \subseteq LineageEntry
<1>1. Catalog \subseteq Runs /\ History \subseteq Dates
  BY Bounds DEF JobInv, Catalog, History, PublishLabels
<1>2. ASSUME NEW u \in Catalog, NEW h \in History, u \in Covering(h)
      PROVE  cache[u][h] \in Readings
  BY <1>1, <1>2 DEF HistoryRead, TypeOK
<1>3. ASSUME NEW e \in Lineage PROVE e \in LineageEntry
  <2>1. PICK u \in Catalog, h \in History :
            u \in Covering(h) /\ e = [date |-> h, run |-> u, read |-> cache[u][h]]
    BY <1>3 DEF Lineage
  <2> QED
    BY <1>1, <1>2, <2>1 DEF LineageEntry
<1> QED
  BY <1>3

LEMMA ConcludeType ==
    ASSUME TypeOK, JobInv, pc # "idle", NEW s \in DateStatus, Conclude(s)
    PROVE  foutcome' \in Reports /\ pc' = "report"
  BY EvidenceOKType DEF Conclude

LEMMA CompleteType ==
    ASSUME TypeOK, JobInv, pc \in PublishLabels, HistoryRead, Complete
    PROVE  foutcome' \in Reports /\ pc' = "report"
<1>1. Evidence("COMPLETED") \in Reports
  BY EvidenceOKType DEF PublishLabels, DateStatus
<1> QED
  BY <1>1, LineageType DEF Complete, Reports

LEMMA PutCommitType ==
    ASSUME TypeOK, JobInv, pc = "commit", HistoryRead, PutCommit
    PROVE  fcommit' \in [Dates -> {None} \cup Commits]
<1>1. Lineage \subseteq LineageEntry
  BY LineageType DEF PublishLabels
<1>2. [run |-> job.run, attempt |-> job.attempt, input |-> Lineage] \in Commits
  BY <1>1 DEF JobInv, Commits
<1> QED
  BY <1>2 DEF PutCommit, TypeOK

LEMMA StartType ==
    ASSUME TypeInv, NEW f \in FactorRuns, NEW a \in BOOLEAN, NEW r \in BOOLEAN,
           StartFactorRun(f, a, r), free' \in 0..MaxFree
    PROVE  TypeInv'
<1> USE Bounds DEF fstore
<1>1. fmanifest[f].attempt \in 0..MaxFactorAttempts
  BY DEF TypeInv, TypeOK, Manifests
<1>2. job' \in [run : FactorRuns, attempt : 1..MaxFactorAttempts, apply : BOOLEAN, reuse : BOOLEAN]
  BY <1>1 DEF StartFactorRun
<1>3. catalog' \in Plans
  BY DEF StartFactorRun, Plans
<1>4. TypeOK'
  BY <1>2, <1>3 DEF StartFactorRun, TypeInv, TypeOK
<1>5. EvidenceOK'
  BY DEF StartFactorRun, TypeInv, EvidenceOK, evidence
<1> QED
  BY <1>2, <1>4, <1>5
     DEF StartFactorRun, TypeInv, JobInv, ReadInv, DateLabels, ReadLabels, PublishLabels

LEMMA RangeStepType ==
    ASSUME TypeInv,
           \/ LoadManifest \/ OpenFactorRange \/ RefusePlan \/ WritePending \/ BeginTarget
           \/ MarkRunning \/ WriteReport \/ MarkDone \/ CloseManifest
    PROVE  TypeInv'
<1> USE Bounds DEF TypeInv, memory, fstore, bounds
<1>1. EvidenceOK'
  BY DEF EvidenceOK, evidence, LoadManifest, OpenFactorRange, RefusePlan, WritePending, BeginTarget,
         MarkRunning, WriteReport, MarkDone, CloseManifest
<1>2. ReadInv'
  BY DEF ReadInv, PublishLabels, LoadManifest, OpenFactorRange, RefusePlan, WritePending,
         BeginTarget, MarkRunning, WriteReport, MarkDone, CloseManifest
<1> USE DEF DateLabels, ReadLabels, PublishLabels
<1>3. CASE LoadManifest
  <2>1. PICK u \in Catalog :
            catalog' = [catalog EXCEPT ![u] = [attempt |-> attempt[u], closed |-> closed[u]]]
    BY <1>3 DEF LoadManifest
  <2>2. u \in Runs
    BY <1>3 DEF LoadManifest, Catalog, JobInv
  <2>3. catalog' \in Plans
    BY <2>1, <2>2 DEF TypeOK, EvidenceOK, Plans
  <2> QED
    BY <1>1, <1>2, <1>3, <2>3 DEF LoadManifest, TypeOK, JobInv
<1>4. CASE OpenFactorRange
  <2>1. statuses' \in [Dates -> DateStatus]
    BY <1>4 DEF OpenFactorRange, DateStatus
  <2>2. fmanifest' \in [FactorRuns -> Manifests]
    BY <1>4, <2>1 DEF OpenFactorRange, TypeOK, JobInv, Manifests, DateStatus, Loaded
  <2>3. cache' \in [Runs -> [Dates -> {None} \cup Readings]]
    BY <1>4 DEF OpenFactorRange, Unread
  <2>4. left' \subseteq Dates
    BY <1>4 DEF OpenFactorRange, Loaded, JobInv
  <2> QED
    BY <1>1, <1>2, <1>4, <2>1, <2>2, <2>3, <2>4 DEF OpenFactorRange, TypeOK, JobInv, Loaded
<1>5. CASE RefusePlan
  BY <1>1, <1>2, <1>5 DEF RefusePlan, TypeOK, JobInv
<1>6. CASE WritePending
  <2>1. PICK d \in left : /\ freport' = [freport EXCEPT ![job.run][d] = Evidence("PENDING")]
                          /\ IF left = {d} THEN pc' = "next" /\ left' = TargetsOf[job.run]
                                           ELSE pc' = "pending" /\ left' = left \ {d}
    BY <1>6 DEF WritePending
  <2>2. Evidence("PENDING") \in Reports
    BY <1>6, EvidenceOKType DEF WritePending, DateStatus
  <2>3. freport' \in [FactorRuns -> [Dates -> Reports]]
    BY <2>1, <2>2, <1>6 DEF WritePending, TypeOK, JobInv
  <2>4. left' \subseteq TargetsOf[job.run] /\ pc' \in {"next", "pending"}
    BY <1>6, <2>1 DEF WritePending, JobInv
  <2>5. TypeOK'
    BY <1>6, <2>3, <2>4 DEF WritePending, TypeOK
  <2>6. JobInv'
    BY <1>6, <2>4 DEF WritePending, JobInv
  <2> QED
    BY <1>1, <1>2, <2>5, <2>6
<1>7. CASE BeginTarget
  <2>1. PICK d \in left : /\ date' = d
                          /\ freport' = [freport EXCEPT ![job.run][d] = Evidence("RUNNING")]
                          /\ statuses' = [statuses EXCEPT ![d] = "RUNNING"]
    BY <1>7 DEF BeginTarget
  <2>2. Evidence("RUNNING") \in Reports
    BY <1>7, EvidenceOKType DEF BeginTarget, DateStatus
  <2>3. freport' \in [FactorRuns -> [Dates -> Reports]]
    BY <2>1, <2>2, <1>7 DEF BeginTarget, TypeOK, JobInv
  <2> QED
    BY <1>1, <1>2, <1>7, <2>1, <2>3 DEF BeginTarget, TypeOK, JobInv, DateStatus
<1>8. CASE MarkRunning
  <2>1. fmanifest' \in [FactorRuns -> Manifests]
    BY <1>8, ManifestType DEF MarkRunning, TypeOK, DateStatus
  <2>2. stale' \subseteq Dates
    BY <1>8 DEF MarkRunning, History
  <2> QED
    BY <1>1, <1>2, <1>8, <2>1, <2>2 DEF MarkRunning, TypeOK, JobInv
<1>9. CASE WriteReport
  <2>1. foutcome.status \in DateStatus
    BY DEF TypeOK, Reports
  <2> QED
    BY <1>1, <1>2, <1>9, <2>1 DEF WriteReport, TypeOK, JobInv
<1>10. CASE MarkDone
  <2>1. fmanifest' \in [FactorRuns -> Manifests]
    BY <1>10, ManifestType DEF MarkDone, TypeOK, DateStatus
  <2> QED
    BY <1>1, <1>2, <1>10, <2>1 DEF MarkDone, TypeOK, JobInv
<1>11. CASE CloseManifest
  <2>1. fmanifest' \in [FactorRuns -> Manifests]
    BY <1>11, ManifestType, StatusType DEF CloseManifest, TypeOK
  <2> QED
    BY <1>1, <1>2, <1>11, <2>1 DEF CloseManifest, TypeOK, JobInv
<1> QED
  BY <1>3, <1>4, <1>5, <1>6, <1>7, <1>8, <1>9, <1>10, <1>11

LEMMA HistoryStepType ==
    ASSUME TypeInv,
           BlockTarget \/ ReadReport \/ ReadCommit \/ ReadObjects \/ ComputeFactors \/ HistoryRefused
    PROVE  TypeInv'
<1> USE Bounds DEF TypeInv, UnchangedBut, fstore, bounds, DateLabels, ReadLabels
<1>1. EvidenceOK'
  BY DEF EvidenceOK, evidence, BlockTarget, ReadReport, ReadCommit, ReadObjects, ComputeFactors,
         HistoryRefused
<1>2. pc \in ReadLabels /\ pc # "idle"
  BY DEF BlockTarget, ReadReport, ReadCommit, ReadObjects, ComputeFactors, HistoryRefused
<1>3. \A s \in DateStatus : Conclude(s) => foutcome' \in Reports /\ pc' = "report"
  BY <1>2, ConcludeType
<1> USE DEF PublishLabels
<1>4. CASE BlockTarget
  BY <1>1, <1>3, <1>4 DEF BlockTarget, TypeOK, JobInv, ReadInv, DateStatus
<1>5. CASE ReadReport
  <2>1. PICK u \in Runs, h \in Dates :
            IF attested[u][h] = catalog[u].attempt
            THEN /\ reading' = [report |-> attested[u][h], commit |-> 0]
                 /\ pc' = "commit22" /\ UNCHANGED foutcome
            ELSE Conclude("BLOCKED") /\ UNCHANGED reading
    BY <1>5 DEF ReadReport
  <2>2. [report |-> attested[u][h], commit |-> 0] \in Readings
    BY DEF EvidenceOK, Readings
  <2>3. /\ reading' \in {None} \cup Readings /\ foutcome' \in Reports
        /\ (pc' = "commit22" /\ reading' \in Readings) \/ pc' = "report"
    BY <1>3, <2>1, <2>2 DEF TypeOK, DateStatus
  <2> QED
    BY <1>1, <1>5, <2>3 DEF ReadReport, TypeOK, JobInv, ReadInv
<1>6. CASE ReadCommit
  <2>1. PICK u \in Runs, h \in Dates :
            IF published[h] # None /\ published[h].run = u
            THEN /\ reading' = [reading EXCEPT !.commit = published[h].attempt]
                 /\ pc' = "objects22" /\ UNCHANGED foutcome
            ELSE Conclude("BLOCKED") /\ reading' = None
    BY <1>6 DEF ReadCommit
  <2>2. reading \in Readings
    BY <1>6 DEF ReadCommit, JobInv
  <2>3. published[h] # None => [reading EXCEPT !.commit = published[h].attempt] \in Readings
    BY <2>2 DEF EvidenceOK, Readings
  <2>4. /\ reading' \in {None} \cup Readings /\ foutcome' \in Reports
        /\ (pc' = "objects22" /\ reading' \in Readings) \/ pc' = "report"
    BY <1>3, <2>1, <2>3 DEF TypeOK, DateStatus
  <2> QED
    BY <1>1, <1>6, <2>4 DEF ReadCommit, TypeOK, JobInv, ReadInv
<1>7. CASE ReadObjects
  <2>1. PICK u \in Runs, h \in Dates :
            IF <<u, h>> \notin damaged
            THEN /\ cache' = [cache EXCEPT ![u][h] = reading]
                 /\ pc' = "history" /\ UNCHANGED foutcome
            ELSE Conclude("BLOCKED") /\ UNCHANGED cache
    BY <1>7 DEF ReadObjects
  <2>2. reading \in Readings
    BY <1>7 DEF ReadObjects, JobInv
  <2>3. [cache EXCEPT ![u][h] = reading] \in [Runs -> [Dates -> {None} \cup Readings]]
    BY <2>2 DEF TypeOK
  <2>4. /\ cache' \in [Runs -> [Dates -> {None} \cup Readings]] /\ foutcome' \in Reports
        /\ pc' \in {"history", "report"}
    BY <1>3, <2>1, <2>3 DEF TypeOK, DateStatus
  <2> QED
    BY <1>1, <1>7, <2>4 DEF ReadObjects, TypeOK, JobInv, ReadInv
<1>8. CASE ComputeFactors
  <2>1. foutcome' \in Reports /\ pc' \in {"find", "report"}
    BY <1>3, <1>8 DEF ComputeFactors, TypeOK, DateStatus
  <2>2. HistoryRead'
    BY <1>8 DEF ComputeFactors, HistoryRead, History, Covering, Catalog, Valid
  <2> QED
    BY <1>1, <1>8, <2>1, <2>2 DEF ComputeFactors, TypeOK, JobInv, ReadInv
<1>9. CASE HistoryRefused
  <2>1. foutcome' \in Reports /\ pc' = "report"
    BY <1>3, <1>9 DEF HistoryRefused, DateStatus
  <2> QED
    BY <1>1, <1>2, <1>9, <2>1, FaultType DEF HistoryRefused, TypeOK, JobInv, ReadInv
<1> QED
  BY <1>4, <1>5, <1>6, <1>7, <1>8, <1>9

\* The publication of a target leaves alone what it was computed from.
PublishStep ==
    \/ FindCommitted \/ StageFactors \/ WriteFactors \/ ReadBack \/ WriteCommit
    \/ VerifyCommitted \/ StoreRaises

LEMMA PublishKeeps ==
    ASSUME PublishStep
    PROVE  /\ pc \in PublishLabels /\ pc' \in PublishLabels \cup {"report"}
           /\ UNCHANGED <<evidence, memory, fmanifest, freport, free, tampers>>
  BY DEF PublishStep, FindCommitted, StageFactors, WriteFactors, ReadBack, WriteCommit,
         VerifyCommitted, StoreRaises, PublishLabels, Complete, Conclude, PutGeneration, PutCommit,
         fstore, bounds

\* The lineage is a function of what stays.
LEMMA LineageKept ==
    ASSUME UNCHANGED <<job, date, catalog, cache>>
    PROVE  /\ UNCHANGED <<Catalog, History, Lineage, Generation, Untrusted, Ambiguous, Coherent>>
           /\ HistoryRead' = HistoryRead
           /\ \A h : Covering(h)' = Covering(h)
  BY DEF Catalog, History, Lineage, Generation, Untrusted, Ambiguous, Coherent, HistoryRead,
         Covering, Valid

LEMMA PublishStepType == ASSUME TypeInv, PublishStep PROVE TypeInv'
<1> USE DEF TypeInv
<1>1. pc \in PublishLabels /\ HistoryRead
  BY PublishKeeps DEF ReadInv
<1>2. HistoryRead'
  BY <1>1, PublishKeeps, LineageKept DEF memory
<1>3. foutcome' \in Reports
  <2>1. \A s \in DateStatus : Conclude(s) => foutcome' \in Reports
    BY <1>1, ConcludeType DEF PublishLabels
  <2>2. Complete => foutcome' \in Reports
    BY <1>1, CompleteType
  <2> QED
    BY <2>1, <2>2 DEF PublishStep, FindCommitted, StageFactors, WriteFactors, ReadBack, WriteCommit,
          VerifyCommitted, StoreRaises, DateStatus, TypeOK
<1>4. fcommit' \in [Dates -> {None} \cup Commits]
  <2>1. (pc = "commit" /\ PutCommit) \/ UNCHANGED fcommit
    BY DEF PublishStep, FindCommitted, StageFactors, WriteFactors, ReadBack, WriteCommit,
           VerifyCommitted, StoreRaises, PutGeneration, fstore
  <2> QED
    BY <1>1, <2>1, PutCommitType DEF TypeOK
<1>5. corrupt' \subseteq staged'
  BY DEF PublishStep, FindCommitted, StageFactors, WriteFactors, ReadBack, WriteCommit,
         VerifyCommitted, StoreRaises, PutGeneration, PutCommit, fstore, TypeOK
<1>6. faults' \in 0..MaxFaults
  BY FaultType DEF PublishStep, FindCommitted, StageFactors, WriteFactors, ReadBack, WriteCommit,
         VerifyCommitted, StoreRaises, bounds, TypeOK
<1>7. TypeOK'
  BY <1>3, <1>4, <1>5, <1>6, PublishKeeps DEF TypeOK, memory
<1>8. EvidenceOK'
  BY PublishKeeps DEF EvidenceOK, evidence
<1>9. JobInv'
  BY PublishKeeps DEF JobInv, memory, PublishLabels, DateLabels, ReadLabels
<1> QED
  BY <1>2, <1>7, <1>8, <1>9 DEF ReadInv

LEMMA OthersType == ASSUME TypeInv, Crash \/ Goal22 \/ Tamper PROVE TypeInv'
<1> USE Bounds DEF TypeInv, memory, fstore, bounds, DateLabels, ReadLabels
<1>1. CASE Crash
  <2>1. EvidenceOK'
    BY <1>1 DEF Crash, EvidenceOK, evidence
  <2> QED
    BY <1>1, <2>1, FaultType DEF Crash, TypeOK, JobInv, ReadInv, PublishLabels
<1>2. CASE Goal22 \/ Tamper
  <2>1. EvidenceOK'
    <3>1. CASE UNCHANGED evidence
      BY <3>1 DEF EvidenceOK, evidence
    <3> QED
      BY <1>2, <3>1, EvidenceStepType DEF Goal22, Tamper
  <2>2. UNCHANGED <<memory, pc, foutcome, fmanifest, freport, free, faults>>
    BY <1>2 DEF Goal22, Tamper
  <2>3. TypeOK'
    <3>1. fcommit' \in [Dates -> {None} \cup Commits]
      BY <1>2 DEF Goal22, Tamper, TypeOK
    <3>2. corrupt' \subseteq staged' /\ tampers' \in 0..MaxTampers
      BY <1>2 DEF Goal22, Tamper, TypeOK
    <3> QED
      BY <2>2, <3>1, <3>2 DEF TypeOK
  <2>4. JobInv'
    BY <2>2 DEF JobInv
  <2>5. ReadInv'
    BY <2>2, LineageKept DEF ReadInv
  <2> QED
    BY <2>1, <2>3, <2>4, <2>5
<1> QED
  BY <1>1, <1>2

\* What a step may be.
LEMMA Steps ==
    ASSUME [Next]_vars
    PROVE  \/ \E f \in FactorRuns : FreeRun(f) \/ ResumeRun(f)
           \/ \/ LoadManifest \/ OpenFactorRange \/ RefusePlan \/ WritePending \/ BeginTarget
              \/ MarkRunning \/ WriteReport \/ MarkDone \/ CloseManifest
           \/ \/ BlockTarget \/ ReadReport \/ ReadCommit \/ ReadObjects \/ ComputeFactors
              \/ HistoryRefused
           \/ PublishStep
           \/ Crash \/ Goal22 \/ Tamper
           \/ UNCHANGED vars
  BY DEF Next, Process, Fails, PublishStep

LEMMA NextType == TypeInv /\ [Next]_vars => TypeInv'
<1> SUFFICES ASSUME TypeInv, [Next]_vars PROVE TypeInv'
  OBVIOUS
<1>1. ASSUME NEW f \in FactorRuns, FreeRun(f) PROVE TypeInv'
  <2>1. PICK a \in BOOLEAN, r \in BOOLEAN : StartFactorRun(f, a, r)
    BY <1>1 DEF FreeRun
  <2>2. free' \in 0..MaxFree
    BY <1>1, Bounds DEF FreeRun, TypeInv, TypeOK
  <2> QED
    BY <2>1, <2>2, StartType
<1>2. ASSUME NEW f \in FactorRuns, ResumeRun(f) PROVE TypeInv'
  BY <1>2, StartType DEF ResumeRun, TypeInv, TypeOK
<1>3. CASE UNCHANGED vars
  <2>1. HistoryRead' = HistoryRead
    BY <1>3, LineageKept DEF vars, memory
  <2> QED
    BY <1>3, <2>1 DEF vars, evidence, memory, fstore, bounds, TypeInv, TypeOK, EvidenceOK, JobInv, ReadInv
<1> QED
  BY <1>1, <1>2, <1>3, Steps, RangeStepType, HistoryStepType, PublishStepType, OthersType

-----------------------------------------------------------------------------
(* A commit names a generation that was read back. *)

\* Sound generations become unsound only by being spoiled.
Accounted(g) == Sound(g) \/ g \in spoiled

LEMMA AccountedStays ==
    ASSUME [Next]_vars, NEW g, Accounted(g) PROVE Accounted(g)'
<1> USE DEF Accounted, Sound
<1>1. CASE UNCHANGED <<staged, corrupt, spoiled>>
  BY <1>1
<1>2. CASE PutGeneration
  BY <1>2 DEF PutGeneration
<1>3. CASE Tamper
  BY <1>1, <1>3 DEF Tamper, fstore
<1> QED
  BY <1>1, <1>2, <1>3, Steps
     DEF FreeRun, ResumeRun, StartFactorRun, LoadManifest, OpenFactorRange, RefusePlan, WritePending,
         BeginTarget, MarkRunning, WriteReport, MarkDone, CloseManifest, BlockTarget, ReadReport,
         ReadCommit, ReadObjects, ComputeFactors, HistoryRefused, UnchangedBut, PublishStep,
         FindCommitted, StageFactors, WriteFactors, ReadBack, WriteCommit, VerifyCommitted,
         StoreRaises, PutCommit, Crash, Goal22, fstore, vars

LEMMA NextStaged == StagedInv /\ [Next]_vars => StagedInv'
<1> SUFFICES ASSUME StagedInv, [Next]_vars, pc' = "commit" PROVE Accounted(Generation)'
  BY DEF StagedInv, Accounted
<1>1. UNCHANGED <<job, date, catalog, cache>> /\ Accounted(Generation)
  <2>1. CASE ReadBack
    BY <2>1 DEF ReadBack, Conclude, Accounted, memory
  <2>2. CASE pc = "commit" /\ UNCHANGED memory
    BY <2>2 DEF StagedInv, Accounted, memory
  <2> QED
    BY <2>1, <2>2, Steps
       DEF FreeRun, ResumeRun, StartFactorRun, LoadManifest, OpenFactorRange, RefusePlan,
           WritePending, BeginTarget, MarkRunning, WriteReport, MarkDone, CloseManifest,
           BlockTarget, ReadReport, ReadCommit, ReadObjects, ComputeFactors, HistoryRefused,
           Conclude, PublishStep, FindCommitted, StageFactors, WriteFactors, WriteCommit,
           VerifyCommitted, Complete, StoreRaises, Crash, Goal22, Tamper, vars
<1>2. Generation' = Generation
  BY <1>1, LineageKept
<1> QED
  BY <1>1, <1>2, AccountedStays DEF Accounted, Sound

\* The commits change by one of these.
LEMMA CommitSteps ==
    ASSUME [Next]_vars
    PROVE  \/ UNCHANGED fcommit
           \/ pc = "commit" /\ PutCommit /\ UNCHANGED <<memory, evidence>>
           \/ \E d \in Dates : fcommit' = [fcommit EXCEPT ![d] = None]
  BY Steps
     DEF FreeRun, ResumeRun, StartFactorRun, LoadManifest, OpenFactorRange, RefusePlan,
         WritePending, BeginTarget, MarkRunning, WriteReport, MarkDone, CloseManifest,
         BlockTarget, ReadReport, ReadCommit, ReadObjects, ComputeFactors, HistoryRefused,
         UnchangedBut, PublishStep, FindCommitted, StageFactors, WriteFactors, ReadBack,
         PutGeneration, WriteCommit, VerifyCommitted, StoreRaises, Crash, Goal22, Tamper, fstore,
         vars

LEMMA NextComplete ==
    TypeInv /\ StagedInv /\ CommittedIsComplete /\ [Next]_vars => CommittedIsComplete'
<1> SUFFICES ASSUME TypeInv, StagedInv, CommittedIsComplete, [Next]_vars,
                    NEW d \in Dates, fcommit'[d] # None
             PROVE  Accounted(<<fcommit[d].run, d, fcommit[d].input>>)'
  BY DEF CommittedIsComplete, Accounted
<1> DEFINE g == <<fcommit'[d].run, d, fcommit'[d].input>>
<1> SUFFICES Accounted(g)
  BY AccountedStays DEF Accounted, Sound
<1>1. CASE fcommit'[d] = fcommit[d]
  BY <1>1 DEF CommittedIsComplete, Accounted
<1>2. CASE pc = "commit" /\ PutCommit /\ d = date
  <2>1. fcommit'[d] = [run |-> job.run, attempt |-> job.attempt, input |-> Lineage]
    BY <1>2 DEF PutCommit, TypeInv, TypeOK
  <2>2. g = Generation
    BY <1>2, <2>1 DEF Generation
  <2> QED
    BY <1>2, <2>2 DEF StagedInv, Accounted
<1> QED
  BY <1>1, <1>2, CommitSteps DEF PutCommit, TypeInv, TypeOK

-----------------------------------------------------------------------------
(* A commit rests on the history of the plan of its run. *)

\* A run keeps its plan.
LEMMA PlanKept ==
    ASSUME TypeInv, [Next]_vars, NEW f \in FactorRuns, fmanifest[f].plan # None
    PROVE  fmanifest'[f].plan = fmanifest[f].plan
<1> USE DEF TypeInv
<1>1. CASE UNCHANGED fmanifest
  BY <1>1
<1>2. CASE OpenFactorRange
  BY <1>2 DEF OpenFactorRange, Loaded, JobInv, TypeOK
<1>3. CASE pc # "idle" /\ \E s, t : WriteManifest(s, t)
  <2>1. PICK s, t : fmanifest' = [fmanifest EXCEPT ![job.run] =
            [fmanifest[job.run] EXCEPT !.status = s, !.apply = job.apply, !.attempt = job.attempt,
                                       !.dates = t]]
    BY <1>3 DEF WriteManifest
  <2>2. fmanifest[job.run] \in Manifests
    BY <1>3 DEF JobInv, TypeOK
  <2> QED
    BY <2>1, <2>2 DEF TypeOK, Manifests
<1> QED
  BY <1>1, <1>2, <1>3, Steps, PublishKeeps
     DEF FreeRun, ResumeRun, StartFactorRun, LoadManifest, RefusePlan, WritePending,
         BeginTarget, MarkRunning, WriteReport, MarkDone, CloseManifest,
         BlockTarget, ReadReport, ReadCommit, ReadObjects, ComputeFactors, HistoryRefused,
         UnchangedBut, Crash, Goal22, Tamper, fstore, vars

\* The process and its catalog change only where one starts.
LEMMA CatalogKept ==
    ASSUME [Next]_vars, pc' \notin {"idle", "load"}
    PROVE  /\ pc # "idle" /\ UNCHANGED <<job, catalog>>
           /\ pc = "load" => OpenFactorRange
  BY Steps, PublishKeeps
     DEF FreeRun, ResumeRun, StartFactorRun, LoadManifest, OpenFactorRange, Loaded, RefusePlan,
         WritePending, BeginTarget, MarkRunning, WriteReport, MarkDone, CloseManifest,
         BlockTarget, ReadReport, ReadCommit, ReadObjects, ComputeFactors, HistoryRefused,
         UnchangedBut, Crash, Goal22, Tamper, memory, vars, PublishLabels

LEMMA NextPlan == TypeInv /\ PlanInv /\ [Next]_vars => PlanInv'
<1> SUFFICES ASSUME TypeInv, PlanInv, [Next]_vars PROVE PlanInv'
  OBVIOUS
<1>1. CASE pc' \notin {"idle", "load"}
  <2>1. pc # "idle" /\ UNCHANGED <<job, catalog>> /\ (pc = "load" => OpenFactorRange)
    BY <1>1, CatalogKept
  <2>2. fmanifest'[job.run].plan = catalog /\ \A u \in Catalog : catalog[u] # None
    <3>1. CASE OpenFactorRange
      BY <3>1 DEF OpenFactorRange, Loaded, TypeInv, JobInv, TypeOK
    <3>2. CASE pc # "load"
      <4>1. job.run \in FactorRuns /\ fmanifest[job.run].plan # None
        BY <2>1, <3>2, RecordsOnly DEF PlanInv, TypeInv, JobInv, TypeOK
      <4> QED
        BY <2>1, <3>2, <4>1, PlanKept DEF PlanInv
    <3> QED
      BY <2>1, <3>1, <3>2
  <2> QED
    BY <1>1, <2>1, <2>2 DEF PlanInv, Catalog
<1>2. CASE pc' = "load"
  <2>1. CASE pc = "load" /\ UNCHANGED <<job, catalog>>
    BY <1>2, <2>1 DEF PlanInv, Catalog
  <2>2. CASE LoadManifest
    BY <1>2, <2>2 DEF LoadManifest, PlanInv, Catalog, TypeInv, TypeOK
  <2>3. CASE \E f \in FactorRuns : FreeRun(f) \/ ResumeRun(f)
    BY <1>2, <2>3 DEF FreeRun, ResumeRun, StartFactorRun, PlanInv, Catalog
  <2> QED
    BY <1>2, <2>1, <2>2, <2>3, Steps, PublishKeeps
       DEF OpenFactorRange, RefusePlan, WritePending, BeginTarget, MarkRunning, WriteReport,
           MarkDone, CloseManifest, BlockTarget, ReadReport, ReadCommit, ReadObjects,
           ComputeFactors, HistoryRefused, Conclude, Crash, Goal22, Tamper, memory, vars,
           PublishLabels
<1>3. CASE pc' = "idle"
  BY <1>3 DEF PlanInv
<1> QED
  BY <1>1, <1>2, <1>3

\* Two publications cannot come next at once.
LEMMA UnseenOnce ==
    ASSUME TypeInv, Coherent, NEW u \in Runs, NEW h \in Dates, Unseen(u, h),
           NEW v \in Runs, NEW g \in Dates, Unseen(v, g)
    PROVE  u = v /\ h = g
<1>1. h \in Nat /\ g \in Nat
  BY DEF FactorAssumption
<1>2. ~(g < h) /\ ~(h < g)
  BY DEF Unseen
<1>3. h = g
  BY <1>1, <1>2
<1> QED
  BY <1>3 DEF Coherent, Ambiguous, Unseen

\* Nothing that is read changes outside the history phases.
LEMMA CacheSteps ==
    ASSUME [Next]_vars, pc' \notin {"idle", "load"}
    PROVE  \/ OpenFactorRange \/ ReadReport \/ ReadObjects
           \/ UNCHANGED <<cache>> /\ pc # "load"
              /\ \/ pc' \notin {"commit22", "objects22"} \cup PublishLabels
                 \/ ComputeFactors
                 \/ ReadCommit
                 \/ /\ pc \in {"commit22", "objects22"} \cup PublishLabels
                    /\ (pc' \in {"commit22", "objects22"} => pc' = pc)
                    /\ UNCHANGED <<date, reading>>
  BY Steps, PublishKeeps
     DEF FreeRun, ResumeRun, StartFactorRun, LoadManifest, OpenFactorRange, RefusePlan,
         WritePending, BeginTarget, MarkRunning, WriteReport, MarkDone, CloseManifest,
         BlockTarget, ReadReport, ReadCommit, ReadObjects, ComputeFactors, HistoryRefused,
         UnchangedBut, Conclude, Crash, Goal22, Tamper, memory, vars, PublishLabels

LEMMA NextCache == TypeInv /\ CacheInv /\ [Next]_vars => CacheInv'
<1> SUFFICES ASSUME TypeInv, CacheInv, [Next]_vars, pc' \notin {"idle", "load"} PROVE CacheInv'
  BY DEF CacheInv, PublishLabels
<1>1. UNCHANGED <<job, catalog>>
  BY CatalogKept
<1>2. CASE OpenFactorRange
  BY <1>2 DEF OpenFactorRange, CacheInv, Unread, PublishLabels
<1>3. CASE ReadReport
  <2>1. PICK u \in Runs, h \in Dates :
            /\ Unseen(u, h)
            /\ IF attested[u][h] = catalog[u].attempt
               THEN /\ reading' = [report |-> attested[u][h], commit |-> 0]
                    /\ pc' = "commit22" /\ UNCHANGED foutcome
               ELSE Conclude("BLOCKED") /\ UNCHANGED reading
    BY <1>3 DEF ReadReport
  <2>2. UNCHANGED <<job, date, catalog, cache>> /\ Coherent /\ pc = "history"
    BY <1>3 DEF ReadReport, UnchangedBut
  <2>3. Coherent' /\ \A v \in Runs, g \in Dates : Unseen(v, g)' = Unseen(v, g)
    BY <2>2, LineageKept DEF Unseen
  <2>4. pc' = "commit22" => reading'.report = catalog[u].attempt
    BY <2>1 DEF Conclude
  <2>5. ASSUME NEW v \in Runs, NEW g \in Dates, Unseen(v, g) PROVE v = u
    BY <2>1, <2>2, <2>5, UnseenOnce
  <2>6. pc' \in {"commit22", "report"}
    BY <2>1 DEF Conclude
  <2> QED
    BY <1>1, <2>2, <2>3, <2>4, <2>5, <2>6 DEF CacheInv, PublishLabels
<1>4. CASE ReadObjects
  <2>1. PICK u \in Runs, h \in Dates :
            /\ Unseen(u, h)
            /\ cache' \in {cache, [cache EXCEPT ![u][h] = reading]}
    BY <1>4 DEF ReadObjects
  <2>2. reading.report = catalog[u].attempt /\ pc' \in {"history", "report"} /\ pc = "objects22"
    BY <1>4, <2>1 DEF ReadObjects, CacheInv, Conclude
  <2>3. ASSUME NEW v \in Runs, NEW g \in Dates, cache'[v][g] # None
        PROVE  cache'[v][g].report = catalog[v].attempt
    <3>1. CASE cache'[v][g] = cache[v][g]
      BY <2>2, <2>3, <3>1 DEF CacheInv
    <3>2. CASE v = u /\ g = h /\ cache' = [cache EXCEPT ![u][h] = reading]
      BY <2>2, <3>2 DEF TypeInv, TypeOK
    <3> QED
      BY <2>1, <3>1, <3>2 DEF TypeInv, TypeOK
  <2> QED
    BY <1>1, <2>2, <2>3 DEF CacheInv, PublishLabels
<1>5. CASE UNCHANGED cache /\ pc # "load" /\ pc' \notin {"commit22", "objects22"} \cup PublishLabels
  BY <1>1, <1>5, CatalogKept DEF CacheInv
<1>6. CASE ComputeFactors
  <2>1. UNCHANGED date /\ Coherent /\ UNCHANGED cache /\ pc' \in {"find", "report"} /\ pc = "history"
    BY <1>6 DEF ComputeFactors, UnchangedBut, Conclude
  <2> QED
    BY <1>1, <2>1, LineageKept DEF CacheInv, PublishLabels
<1>7. CASE ReadCommit
  <2>1. /\ UNCHANGED <<date, cache>> /\ pc = "commit22"
        /\ pc' = "objects22" => \E n : reading' = [reading EXCEPT !.commit = n]
        /\ pc' \in {"objects22", "report"}
    BY <1>7 DEF ReadCommit, UnchangedBut, Conclude
  <2>2. reading \in Readings
    BY <2>1 DEF TypeInv, JobInv
  <2>3. pc' = "objects22" => reading'.report = reading.report
    BY <2>1, <2>2 DEF Readings
  <2>4. \A v \in Runs, g \in Dates : Unseen(v, g)' = Unseen(v, g)
    BY <1>1, <2>1, LineageKept DEF Unseen
  <2> QED
    BY <1>1, <2>1, <2>3, <2>4, LineageKept DEF CacheInv, PublishLabels
<1>8. CASE /\ UNCHANGED <<cache, date, reading>> /\ pc # "load"
           /\ pc \in {"commit22", "objects22"} \cup PublishLabels
           /\ (pc' \in {"commit22", "objects22"} => pc' = pc)
  <2>1. \A v \in Runs, g \in Dates : Unseen(v, g)' = Unseen(v, g)
    BY <1>1, <1>8, LineageKept DEF Unseen
  <2> QED
    BY <1>1, <1>8, <2>1, CatalogKept, LineageKept DEF CacheInv, PublishLabels
<1> QED
  BY <1>2, <1>3, <1>4, <1>5, <1>6, <1>7, <1>8, CacheSteps

\* What a target rests on is what its plan lists.
Listed(plan, d) ==
    {p \in Dates \X Runs : /\ plan[p[2]] # None /\ plan[p[2]].closed # Open
                           /\ p[1] <= d /\ p[1] \in plan[p[2]].closed}

LEMMA LineageIsListed ==
    ASSUME TypeInv, PlanInv, CacheInv, pc \in PublishLabels
    PROVE  /\ {<<e.date, e.run>> : e \in Lineage} = Listed(catalog, date)
           /\ \A e \in Lineage : e.read.report = catalog[e.run].attempt
           /\ \A e, g \in Lineage : e.date = g.date => e = g
<1>1. /\ Catalog \subseteq Runs /\ History \subseteq Dates /\ Coherent /\ HistoryRead
      /\ \A u \in Runs : u \in Catalog <=> catalog[u] # None
  BY Bounds DEF TypeInv, JobInv, ReadInv, Catalog, History, PublishLabels, PlanInv, CacheInv
<1> DEFINE Entry(h, u) == [date |-> h, run |-> u, read |-> cache[u][h]]
<1>2. ASSUME NEW e \in Lineage
      PROVE  \E h \in History : \E u \in Covering(h) : e = Entry(h, u)
  <2>1. PICK p \in {q \in Catalog \X History : q[1] \in Covering(q[2])} : e = Entry(p[2], p[1])
    BY <1>2 DEF Lineage
  <2>2. p[2] \in History /\ p[1] \in Covering(p[2])
    BY <2>1
  <2> QED
    BY <2>1, <2>2
<1>3. ASSUME NEW h \in History, NEW u \in Covering(h) PROVE Entry(h, u) \in Lineage
  <2>1. u \in Catalog
    BY DEF Covering
  <2>2. <<u, h>> \in {q \in Catalog \X History : q[1] \in Covering(q[2])}
    BY <2>1
  <2> QED
    BY <2>2 DEF Lineage
<1>4. {<<e.date, e.run>> : e \in Lineage} = Listed(catalog, date)
  <2>1. \A h \in Dates, u \in Runs :
            (/\ catalog[u] # None /\ catalog[u].closed # Open
             /\ h <= date /\ h \in catalog[u].closed) <=> h \in History /\ u \in Covering(h)
    BY <1>1 DEF History, Covering, Valid
  <2>2. ASSUME NEW e \in Lineage PROVE <<e.date, e.run>> \in Listed(catalog, date)
    <3>1. PICK h \in History : \E u \in Covering(h) : e = Entry(h, u)
      BY <1>2
    <3>2. PICK u \in Covering(h) : e = Entry(h, u)
      BY <3>1
    <3>3. u \in Runs /\ h \in Dates
      BY <1>1 DEF Covering
    <3>4. e.date = h /\ e.run = u
      BY <3>2
    <3> QED
      BY <2>1, <3>3, <3>4 DEF Listed
  <2>3. ASSUME NEW p \in Listed(catalog, date) PROVE \E e \in Lineage : p = <<e.date, e.run>>
    <3>1. p[1] \in Dates /\ p[2] \in Runs /\ p = <<p[1], p[2]>>
      BY DEF Listed
    <3>2. p[1] \in History /\ p[2] \in Covering(p[1])
      BY <2>1, <3>1 DEF Listed
    <3>3. Entry(p[1], p[2]) \in Lineage
      BY <1>3, <3>2
    <3>4. Entry(p[1], p[2]).date = p[1] /\ Entry(p[1], p[2]).run = p[2]
      OBVIOUS
    <3> QED
      BY <3>1, <3>3, <3>4
  <2> QED
    BY <2>2, <2>3
<1>5. ASSUME NEW e \in Lineage PROVE e.read.report = catalog[e.run].attempt
  <2>1. PICK h \in History, u \in Runs : u \in Covering(h) /\ e = Entry(h, u)
    BY <1>1, <1>2 DEF Covering
  <2>2. h \in Dates /\ cache[u][h] # None
    BY <1>1, <2>1 DEF HistoryRead
  <2> QED
    BY <2>1, <2>2 DEF CacheInv, PublishLabels
<1>6. ASSUME NEW e \in Lineage, NEW g \in Lineage, e.date = g.date PROVE e = g
  <2>1. PICK h \in History, u \in Runs : u \in Covering(h) /\ e = Entry(h, u)
    BY <1>1, <1>2 DEF Covering
  <2>2. PICK k \in History, v \in Runs : v \in Covering(k) /\ g = Entry(k, v)
    BY <1>1, <1>2 DEF Covering
  <2>3. h = k /\ u = v
    BY <1>1, <1>6, <2>1, <2>2 DEF Coherent, Ambiguous
  <2> QED
    BY <2>1, <2>2, <2>3
<1> QED
  BY <1>4, <1>5, <1>6

OfThePlan(plan, c, d) ==
    /\ plan # None
    /\ {<<e.date, e.run>> : e \in c.input} = Listed(plan, d)
    /\ \A e \in c.input : e.read.report = plan[e.run].attempt
    /\ \A e, g \in c.input : e.date = g.date => e = g

LEMMA NextHistory ==
    TypeInv /\ PlanInv /\ CacheInv /\ HistoryIsOfThePlan /\ [Next]_vars => HistoryIsOfThePlan'
<1>1. HistoryIsOfThePlan <=>
          \A d \in Dates : fcommit[d] # None => OfThePlan(fmanifest[fcommit[d].run].plan, fcommit[d], d)
  BY DEF HistoryIsOfThePlan, OfThePlan, Listed
<1>2. HistoryIsOfThePlan' <=>
          \A d \in Dates : fcommit'[d] # None =>
              OfThePlan(fmanifest'[fcommit'[d].run].plan, fcommit'[d], d)
  BY DEF HistoryIsOfThePlan, OfThePlan, Listed
<1> SUFFICES ASSUME TypeInv, PlanInv, CacheInv, HistoryIsOfThePlan, [Next]_vars,
                    NEW d \in Dates, fcommit'[d] # None
             PROVE  OfThePlan(fmanifest'[fcommit'[d].run].plan, fcommit'[d], d)
  BY <1>2
<1>3. CASE fcommit'[d] = fcommit[d]
  <2>1. OfThePlan(fmanifest[fcommit[d].run].plan, fcommit[d], d) /\ fcommit[d].run \in FactorRuns
    BY <1>1, <1>3 DEF TypeInv, TypeOK, Commits
  <2>2. fmanifest'[fcommit[d].run].plan = fmanifest[fcommit[d].run].plan
    BY <2>1, PlanKept DEF OfThePlan
  <2> QED
    BY <1>3, <2>1, <2>2
<1>4. CASE pc = "commit" /\ PutCommit /\ d = date
  <2>1. fcommit'[d] = [run |-> job.run, attempt |-> job.attempt, input |-> Lineage]
    BY <1>4 DEF PutCommit, TypeInv, TypeOK
  <2>2. fmanifest'[job.run].plan = catalog /\ catalog # None
    BY <1>4, RecordsOnly DEF PutCommit, PlanInv, TypeInv, TypeOK
  <2> QED
    BY <1>4, <2>1, <2>2, LineageIsListed DEF OfThePlan, PublishLabels
<1> QED
  BY <1>3, <1>4, CommitSteps DEF PutCommit, TypeInv, TypeOK

-----------------------------------------------------------------------------
(* Attempts, manifests and reports agree. *)

\* A report of one date leaves the others alone.
LEMMA ReportOne ==
    ASSUME TypeInv, pc # "idle", NEW d \in TargetsOf[job.run], NEW r,
           freport' = [freport EXCEPT ![job.run][d] = r]
    PROVE  /\ freport'[job.run][d] = r
           /\ \A e \in TargetsOf[job.run] \ {d} : freport'[job.run][e] = freport[job.run][e]
           /\ \A f \in FactorRuns \ {job.run} : freport'[f] = freport[f]
  BY Bounds DEF TypeInv, TypeOK, JobInv

\* Writing the manifest of a run that is RUNNING.
LEMMA ManifestOne ==
    ASSUME TypeInv, pc # "idle", NEW s, NEW t, WriteManifest(s, t)
    PROVE  /\ fmanifest'[job.run].status = s /\ fmanifest'[job.run].attempt = job.attempt
           /\ fmanifest'[job.run].apply = job.apply /\ fmanifest'[job.run].dates = t
           /\ \A f \in FactorRuns \ {job.run} : fmanifest'[f] = fmanifest[f]
<1>1. fmanifest[job.run] \in Manifests /\ job.run \in FactorRuns
  BY DEF TypeInv, TypeOK, JobInv
<1>2. fmanifest' = [fmanifest EXCEPT ![job.run] =
          [fmanifest[job.run] EXCEPT !.status = s, !.apply = job.apply, !.attempt = job.attempt,
                                     !.dates = t]]
  BY DEF WriteManifest
<1> QED
  BY <1>1, <1>2 DEF TypeInv, TypeOK, Manifests

LEMMA ConcludeAudit ==
    ASSUME AuditInv, \/ Complete \/ \E s : Conclude(s), pc \notin {"idle", "load", "pending"},
           UNCHANGED <<fmanifest, freport, job, statuses>>
    PROVE  AuditInv'
  BY DEF AuditInv, Reported, Conclude, Complete, Evidence

LEMMA NextAudit == TypeInv /\ AuditInv /\ [Next]_vars => AuditInv'
<1> SUFFICES ASSUME TypeInv, AuditInv, [Next]_vars PROVE AuditInv'
  OBVIOUS
<1> USE Bounds DEF memory, fstore
<1>1. ASSUME NEW f \in FactorRuns, NEW a \in BOOLEAN, NEW r \in BOOLEAN, StartFactorRun(f, a, r)
      PROVE  AuditInv'
  BY <1>1 DEF StartFactorRun, AuditInv
<1>2. CASE LoadManifest \/ RefusePlan \/ Crash \/ CloseManifest
  BY <1>2 DEF LoadManifest, RefusePlan, Crash, CloseManifest, AuditInv
<1>3. CASE OpenFactorRange
  <2>1. job.run \in FactorRuns /\ UNCHANGED <<job, freport>> /\ pc' = "pending"
    BY <1>3 DEF OpenFactorRange, Loaded, TypeInv, JobInv
  <2>2. fmanifest'[job.run].status = "RUNNING" /\ fmanifest'[job.run].attempt = job.attempt
    BY <1>3, <2>1 DEF OpenFactorRange, TypeInv, TypeOK
  <2>3. \A d \in TargetsOf[job.run] : statuses'[d] = "PENDING"
    BY <1>3, <2>1 DEF OpenFactorRange
  <2>4. TargetsOf[job.run] \ left' = {}
    BY <1>3 DEF OpenFactorRange
  <2> QED
    BY <2>1, <2>2, <2>3, <2>4 DEF AuditInv
<1>4. CASE WritePending
  <2>1. PICK d \in left : /\ freport' = [freport EXCEPT ![job.run][d] = Evidence("PENDING")]
                          /\ IF left = {d} THEN pc' = "next" /\ left' = TargetsOf[job.run]
                                           ELSE pc' = "pending" /\ left' = left \ {d}
    BY <1>4 DEF WritePending
  <2>2. d \in TargetsOf[job.run]
    BY <1>4 DEF WritePending, TypeInv, JobInv
  <2>3. /\ UNCHANGED <<fmanifest, job, statuses, foutcome>>
        /\ pc = "pending" /\ pc' \in {"next", "pending"}
    BY <1>4, <2>1 DEF WritePending
  <2>4. ASSUME NEW e \in TargetsOf[job.run], e \notin left \/ e = d PROVE Reported(e)'
    <3>1. CASE e = d
      <4>1. freport'[job.run][e] = Evidence("PENDING")
        BY <2>1, <2>2, <2>3, <3>1, ReportOne
      <4> QED
        BY <2>3, <4>1 DEF AuditInv, Reported, Evidence
    <3>2. CASE e # d
      <4>1. freport'[job.run][e] = freport[job.run][e]
        BY <2>1, <2>2, <2>3, <3>2, ReportOne
      <4>2. Reported(e)
        BY <2>3, <2>4, <3>2 DEF AuditInv
      <4> QED
        BY <2>3, <4>1, <4>2 DEF Reported
    <3> QED
      BY <3>1, <3>2
  <2>5. CASE left = {d}
    <3>1. \A e \in TargetsOf[job.run] : Reported(e)'
      BY <2>4, <2>5
    <3> QED
      BY <2>1, <2>3, <2>5, <3>1 DEF AuditInv
  <2>6. CASE left # {d}
    <3>1. \A e \in TargetsOf[job.run] \ left' : Reported(e)'
      BY <2>1, <2>4, <2>6
    <3> QED
      BY <2>1, <2>3, <2>6, <3>1 DEF AuditInv
  <2> QED
    BY <2>5, <2>6
<1>5. CASE BeginTarget
  <2>1. PICK d \in left : /\ date' = d
                          /\ freport' = [freport EXCEPT ![job.run][d] = Evidence("RUNNING")]
                          /\ statuses' = [statuses EXCEPT ![d] = "RUNNING"]
    BY <1>5 DEF BeginTarget
  <2>2. d \in TargetsOf[job.run] /\ pc = "next" /\ pc' = "mark" /\ UNCHANGED <<job, fmanifest>>
    BY <1>5 DEF BeginTarget, TypeInv, JobInv
  <2>3. ASSUME NEW e \in TargetsOf[job.run] PROVE Reported(e)'
    <3>1. CASE e = d
      <4>1. freport'[job.run][e] = Evidence("RUNNING") /\ statuses'[e] = "RUNNING"
        BY <2>1, <2>2, <3>1, ReportOne DEF TypeInv, TypeOK, JobInv
      <4> QED
        BY <2>2, <4>1 DEF Reported, Evidence
    <3>2. CASE e # d
      <4>1. freport'[job.run][e] = freport[job.run][e] /\ statuses'[e] = statuses[e]
        BY <2>1, <2>2, <3>2, ReportOne DEF TypeInv, TypeOK, JobInv
      <4> QED
        BY <2>2, <4>1 DEF AuditInv, Reported
    <3> QED
      BY <3>1, <3>2
  <2> QED
    BY <2>2, <2>3 DEF AuditInv
<1>6. CASE MarkRunning \/ MarkDone
  <2>1. /\ fmanifest'[job.run].status = "RUNNING" /\ fmanifest'[job.run].attempt = job.attempt
        /\ UNCHANGED <<job, freport, statuses>> /\ pc \in {"mark", "done"} /\ pc' \in {"history", "next"}
    BY <1>6, ManifestOne DEF MarkRunning, MarkDone
  <2> QED
    BY <2>1 DEF AuditInv, Reported
<1>7. CASE WriteReport
  <2>1. /\ freport' = [freport EXCEPT ![job.run][date] = foutcome]
        /\ statuses' = [statuses EXCEPT ![date] = foutcome.status]
        /\ date \in TargetsOf[job.run] /\ pc = "report" /\ pc' = "done"
        /\ UNCHANGED <<job, fmanifest>>
    BY <1>7 DEF WriteReport, TypeInv, JobInv, DateLabels
  <2>2. ASSUME NEW e \in TargetsOf[job.run] PROVE Reported(e)'
    <3>1. CASE e = date
      <4>1. freport'[job.run][e] = foutcome /\ statuses'[e] = foutcome.status
        BY <2>1, <3>1, ReportOne DEF TypeInv, TypeOK, JobInv
      <4> QED
        BY <2>1, <4>1 DEF AuditInv, Reported
    <3>2. CASE e # date
      <4>1. freport'[job.run][e] = freport[job.run][e] /\ statuses'[e] = statuses[e]
        BY <2>1, <3>2, ReportOne DEF TypeInv, TypeOK, JobInv
      <4> QED
        BY <2>1, <4>1 DEF AuditInv, Reported
    <3> QED
      BY <3>1, <3>2
  <2> QED
    BY <2>1, <2>2 DEF AuditInv
<1>8. CASE /\ pc \notin {"idle", "load", "pending"}
           /\ UNCHANGED <<fmanifest, freport, job, statuses>>
           /\ \/ Complete \/ \E s : Conclude(s)
              \/ pc' \notin {"idle", "load", "pending", "report"}
  <2>1. CASE pc' \notin {"idle", "load", "pending", "report"}
    BY <1>8, <2>1 DEF AuditInv, Reported
  <2> QED
    BY <1>8, <2>1, ConcludeAudit
<1>9. CASE UNCHANGED <<fmanifest, freport, job, statuses, left, pc, foutcome>>
  BY <1>9 DEF AuditInv, Reported
<1>10. CASE BlockTarget \/ ReadReport \/ ReadCommit \/ ReadObjects \/ ComputeFactors \/ HistoryRefused
  BY <1>8, <1>10
     DEF BlockTarget, ReadReport, ReadCommit, ReadObjects, ComputeFactors, HistoryRefused,
         UnchangedBut
<1>11. CASE PublishStep
  <2>1. Complete \/ (\E s : Conclude(s)) \/ pc' \in PublishLabels
    BY <1>11 DEF PublishStep, FindCommitted, StageFactors, WriteFactors, ReadBack, WriteCommit,
           VerifyCommitted, StoreRaises, PublishLabels
  <2> QED
    BY <1>8, <1>11, <2>1, PublishKeeps DEF PublishLabels
<1>12. CASE Goal22 \/ Tamper
  BY <1>9, <1>12 DEF Goal22, Tamper
<1>13. CASE UNCHANGED vars
  BY <1>9, <1>13 DEF vars
<1> QED
  BY <1>1, <1>2, <1>3, <1>4, <1>5, <1>6, <1>7, <1>10, <1>11, <1>12, <1>13, Steps
     DEF FreeRun, ResumeRun

LEMMA NextOutcome == TypeInv /\ OutcomeInv /\ [Next]_vars => OutcomeInv'
<1> SUFFICES ASSUME TypeInv, OutcomeInv, [Next]_vars, pc' = "report",
                    foutcome'.status = "COMPLETED", fcommit'[date'] # None
             PROVE  fcommit'[date'].run = job'.run
  BY DEF OutcomeInv
<1>1. CASE \E s \in DateStatus \ {"COMPLETED"} : Conclude(s)
  BY <1>1 DEF Conclude, Evidence
<1>2. CASE Matches /\ UNCHANGED <<fcommit, memory>>
  BY <1>2 DEF Matches, memory
<1>3. CASE pc = "report" /\ UNCHANGED <<fcommit, date, job, foutcome>>
  BY <1>3 DEF OutcomeInv
<1>4. CASE Tamper
  <2>1. pc = "report" /\ UNCHANGED <<date, job, foutcome>> /\ date \in Dates
    BY <1>4, Bounds DEF Tamper, memory, TypeInv, JobInv, DateLabels
  <2>2. fcommit'[date] = fcommit[date]
    BY <1>4, <2>1 DEF Tamper, fstore, TypeInv, TypeOK
  <2> QED
    BY <2>1, <2>2 DEF OutcomeInv
<1> QED
  BY <1>1, <1>2, <1>3, <1>4, Steps
     DEF FreeRun, ResumeRun, StartFactorRun, LoadManifest, OpenFactorRange, RefusePlan,
         WritePending, BeginTarget, MarkRunning, WriteReport, MarkDone, CloseManifest,
         BlockTarget, ReadReport, ReadCommit, ReadObjects, ComputeFactors, HistoryRefused,
         PublishStep, FindCommitted, StageFactors, WriteFactors, ReadBack,
         WriteCommit, VerifyCommitted, StoreRaises, Crash, Goal22, DateStatus, fstore, memory, vars

-----------------------------------------------------------------------------
(* The invariant and what it implies. *)

LEMMA InitInv == Init => IInv
<1> SUFFICES ASSUME Init PROVE IInv
  OBVIOUS
<1>1. TypeInv
  BY InitType
<1>2. AuditInv /\ OutcomeInv /\ StagedInv /\ PlanInv /\ CacheInv
  BY DEF Init, AuditInv, OutcomeInv, StagedInv, PlanInv, CacheInv, PublishLabels
<1>3. CommittedIsComplete /\ HistoryIsOfThePlan
  BY DEF Init, CommittedIsComplete, HistoryIsOfThePlan
<1> QED
  BY <1>1, <1>2, <1>3 DEF IInv

LEMMA Inductive == Spec => []IInv
<1>1. IInv /\ [Next]_vars => IInv'
  BY NextType, NextAudit, NextOutcome, NextStaged, NextComplete, NextPlan, NextCache, NextHistory
     DEF IInv
<1> QED
  BY InitInv, <1>1, PTL DEF Spec

\* Every variable of Goal 23 keeps its type, whatever catalogs and flags its commands
\* are given, wherever they stop and whatever Goal 22 does meanwhile.
THEOREM TypeCorrect == Spec => []TypeOK
<1>1. IInv => TypeOK
  BY DEF IInv, TypeInv
<1> QED
  BY Inductive, <1>1, PTL

\* The factor commit is written last: the generation it names was read back before,
\* and stays unless somebody else damages it.
THEOREM Committed == Spec => []CommittedIsComplete
<1>1. IInv => CommittedIsComplete
  BY DEF IInv
<1> QED
  BY Inductive, <1>1, PTL

\* What a published date rests on are exactly the dates that the manifests of its plan
\* list up to it, each vouched for by the attempt that closed its manifest, although the
\* manifests, reports, commits and objects were read one by one while Goal 22 went on.
THEOREM HistoryOfThePlan == Spec => []HistoryIsOfThePlan
<1>1. IInv => HistoryIsOfThePlan
  BY DEF IInv
<1> QED
  BY Inductive, <1>1, PTL

-----------------------------------------------------------------------------
(* The promise to Goal 24: each step is a step of RangeEvidence for the runs of *)
(* Goal 23, or changes nothing that their readers see.                          *)

LEMMA EvidenceStutter ==
    ASSUME UNCHANGED <<fmanifest, freport, fcommit>>
    PROVE  UNCHANGED FactorPromise!evidence
  BY DEF FactorPromise!evidence, Attempts, Closed, Attested, Published

\* While a process works on its targets, its range is open.
LEMMA ProcessOpened ==
    ASSUME TypeInv, AuditInv, pc \notin {"idle", "load"}
    PROVE  /\ job.run \in FactorRuns /\ Attempts[job.run] = job.attempt /\ job.attempt > 0
           /\ Attempts[job.run] > 0 /\ Closed[job.run] = None
  BY Bounds DEF TypeInv, JobInv, AuditInv, Attempts, Closed, Closes

LEMMA OpenOpens ==
    ASSUME TypeInv, AuditInv, OpenFactorRange PROVE FactorPromise!OpenRange(job.run)
<1>1. /\ job.run \in FactorRuns /\ job.attempt = fmanifest[job.run].attempt + 1
      /\ fmanifest[job.run].attempt \in Nat /\ job.attempt <= MaxFactorAttempts
  BY Bounds DEF OpenFactorRange, Loaded, TypeInv, TypeOK, JobInv, AuditInv, Manifests
<1>2. /\ fmanifest'[job.run].status = "RUNNING" /\ fmanifest'[job.run].attempt = job.attempt
      /\ \A f \in FactorRuns \ {job.run} : fmanifest'[f] = fmanifest[f]
  BY <1>1 DEF OpenFactorRange, TypeInv, TypeOK
<1>3. Attempts' = [Attempts EXCEPT ![job.run] = @ + 1]
  BY <1>1, <1>2 DEF Attempts
<1>4. Closed' = [Closed EXCEPT ![job.run] = None]
  <2>1. Closes(fmanifest'[job.run], job.run) = None
    BY <1>2 DEF Closes
  <2> QED
    BY <1>1, <1>2, <2>1 DEF Closed
<1>5. Attempts[job.run] < MaxFactorAttempts
  BY <1>1, Bounds DEF Attempts
<1>6. UNCHANGED <<Attested, Published>>
  BY DEF OpenFactorRange, Attested, Published
<1> QED
  BY <1>1, <1>3, <1>4, <1>5, <1>6 DEF FactorPromise!OpenRange

\* Marking a manifest that is RUNNING already tells its readers nothing.
LEMMA MarkStutters ==
    ASSUME TypeInv, AuditInv, pc \notin {"idle", "load"}, NEW s, WriteManifest("RUNNING", s),
           UNCHANGED <<freport, fcommit>>
    PROVE  UNCHANGED FactorPromise!evidence
<1>1. /\ fmanifest'[job.run].status = "RUNNING" /\ fmanifest'[job.run].attempt = job.attempt
      /\ \A f \in FactorRuns \ {job.run} : fmanifest'[f] = fmanifest[f]
  BY ManifestOne
<1>2. fmanifest[job.run].status = "RUNNING" /\ fmanifest[job.run].attempt = job.attempt
  BY DEF AuditInv
<1>3. \A f \in FactorRuns : /\ fmanifest'[f].attempt = fmanifest[f].attempt
                            /\ Closes(fmanifest'[f], f) = Closes(fmanifest[f], f)
  BY <1>1, <1>2 DEF Closes
<1> QED
  BY <1>3 DEF FactorPromise!evidence, Attempts, Closed, Attested, Published

\* A report of one date changes what is attested of that date only.
LEMMA ReportAttests ==
    ASSUME TypeInv, pc # "idle", NEW d \in TargetsOf[job.run], NEW r \in Reports,
           freport' = [freport EXCEPT ![job.run][d] = r]
    PROVE  Attested' = [Attested EXCEPT ![job.run][d] = Vouched(r)]
<1>1. job.run \in FactorRuns /\ d \in Dates
  BY Bounds DEF TypeInv, JobInv
<1>2. \A f \in FactorRuns, e \in Dates :
          freport'[f][e] = IF f = job.run /\ e = d THEN r ELSE freport[f][e]
  BY <1>1 DEF TypeInv, TypeOK
<1>3. \A f \in FactorRuns \ {job.run} : Attested'[f] = Attested[f]
  BY <1>2 DEF Attested
<1>4. Attested'[job.run] = [Attested[job.run] EXCEPT ![d] = Vouched(r)]
  <2>1. Attested'[job.run] = [e \in Dates |-> Vouched(freport'[job.run][e])]
    BY <1>1 DEF Attested
  <2>2. Attested[job.run] = [e \in Dates |-> Vouched(freport[job.run][e])]
    BY <1>1 DEF Attested
  <2> QED
    BY <1>1, <1>2, <2>1, <2>2
<1> QED
  BY <1>1, <1>3, <1>4 DEF Attested

LEMMA ReportWithdraws ==
    ASSUME TypeInv, AuditInv, pc \notin {"idle", "load"}, NEW d \in TargetsOf[job.run],
           NEW r \in Reports, r.status # "COMPLETED",
           freport' = [freport EXCEPT ![job.run][d] = r], UNCHANGED <<fmanifest, fcommit>>
    PROVE  FactorPromise!Withdraw(job.run, d)
<1>1. UNCHANGED <<Attempts, Closed, Published>>
  BY DEF Attempts, Closed, Published
<1>2. Attested' = [Attested EXCEPT ![job.run][d] = 0]
  BY ReportAttests DEF Vouched
<1>3. d \in Dates
  BY ProcessOpened, Bounds
<1> QED
  BY <1>1, <1>2, <1>3, ProcessOpened DEF FactorPromise!Withdraw, FactorPromise!Opened

LEMMA ReportKept ==
    ASSUME TypeInv, AuditInv, OutcomeInv, WriteReport
    PROVE  FactorPromise!Withdraw(job.run, date) \/ FactorPromise!Attest(job.run, date)
<1>1. /\ pc = "report" /\ date \in TargetsOf[job.run] /\ foutcome \in Reports
      /\ freport' = [freport EXCEPT ![job.run][date] = foutcome]
      /\ UNCHANGED <<fmanifest, fcommit>>
  BY DEF WriteReport, TypeInv, TypeOK, JobInv, DateLabels
<1>0. pc \notin {"idle", "load"}
  BY <1>1
<1>2. CASE foutcome.status # "COMPLETED"
  BY <1>0, <1>1, <1>2, ReportWithdraws, Zenon
<1>3. CASE foutcome.status = "COMPLETED"
  <2>1. UNCHANGED <<Attempts, Closed, Published>> /\ date \in Dates
    BY <1>1, ProcessOpened, Bounds DEF Attempts, Closed, Closes, Published, Named
  <2>2. Attested' = [Attested EXCEPT ![job.run][date] = Attempts[job.run]]
    <3>1. Attested' = [Attested EXCEPT ![job.run][date] = Vouched(foutcome)]
      <4>1. pc # "idle"
        BY <1>1
      <4> QED
        BY <1>1, <4>1, ReportAttests, Zenon
    <3>2. Vouched(foutcome) = Attempts[job.run]
      BY <1>1, <1>3, ProcessOpened DEF Vouched, AuditInv
    <3> QED
      BY <3>1, <3>2
  <2>3. Published[date] # None => Published[date].run = job.run
    BY <1>1, <1>3, <2>1 DEF OutcomeInv, Published, Named
  <2> QED
    BY <1>1, <2>1, <2>2, <2>3, ProcessOpened DEF FactorPromise!Attest, FactorPromise!Opened
<1> QED
  BY <1>2, <1>3

LEMMA CommitPublishes ==
    ASSUME TypeInv, AuditInv, pc = "commit", PutCommit
    PROVE  FactorPromise!Publish(job.run, date)
<1> DEFINE c == [run |-> job.run, attempt |-> job.attempt, input |-> Lineage]
<1>1. date \in Dates /\ job.run \in FactorRuns
  BY ProcessOpened, Bounds DEF TypeInv, JobInv, DateLabels, PublishLabels
<1>2. c \in Commits
  BY LineageType DEF TypeInv, JobInv, ReadInv, PublishLabels, Commits
<1>3. Named(c) = [run |-> job.run, attempt |-> Attempts[job.run]]
  BY <1>2, RecordsOnly, ProcessOpened DEF Named
<1>4. \A d \in Dates : fcommit'[d] = IF d = date THEN c ELSE fcommit[d]
  BY <1>1 DEF PutCommit, TypeInv, TypeOK
<1>5. Published' = [Published EXCEPT ![date] = [run |-> job.run, attempt |-> Attempts[job.run]]]
  BY <1>1, <1>3, <1>4 DEF Published
<1>6. UNCHANGED <<Attempts, Closed, Attested>>
  BY DEF PutCommit, Attempts, Closed, Attested
<1> QED
  BY <1>1, <1>5, <1>6, ProcessOpened DEF FactorPromise!Publish, FactorPromise!Opened

\* The closed manifest of a run that applied lists what its reports attest; that of
\* a dry run is trusted by nobody.
LEMMA CloseCloses ==
    ASSUME TypeInv, AuditInv, CloseManifest
    PROVE  FactorPromise!CloseRange(job.run) \/ UNCHANGED FactorPromise!evidence
<1>1. /\ pc = "next" /\ job.run \in FactorRuns
      /\ fmanifest'[job.run].status = StatusOf(statuses)
      /\ fmanifest'[job.run].attempt = job.attempt
      /\ fmanifest'[job.run].apply = job.apply /\ fmanifest'[job.run].dates = statuses
      /\ \A f \in FactorRuns \ {job.run} : fmanifest'[f] = fmanifest[f]
      /\ UNCHANGED <<freport, fcommit>>
  BY ManifestOne DEF CloseManifest, TypeInv, JobInv
<1>2. UNCHANGED <<Attempts, Attested, Published>>
  BY <1>1, ProcessOpened DEF Attempts, Attested, Published
<1>3. \A f \in FactorRuns \ {job.run} : Closes(fmanifest'[f], f) = Closes(fmanifest[f], f)
  BY <1>1
<1>4. CASE job.apply
  <2>1. Closes(fmanifest'[job.run], job.run) =
            {d \in TargetsOf[job.run] : statuses[d] = "COMPLETED"}
    BY <1>1, <1>4 DEF Closes, StatusOf
  <2>2. \A d \in TargetsOf[job.run] : Attested[job.run][d] = Attempts[job.run]
                                      <=> statuses[d] = "COMPLETED"
    BY <1>1, ProcessOpened, Bounds DEF AuditInv, Reported, Attested, Vouched
  <2>3. Closed' = [Closed EXCEPT ![job.run] =
                      {d \in TargetsOf[job.run] : Attested[job.run][d] = Attempts[job.run]}]
    <3>1. Closes(fmanifest'[job.run], job.run) =
              {d \in TargetsOf[job.run] : Attested[job.run][d] = Attempts[job.run]}
      BY <2>1, <2>2
    <3> QED
      BY <1>1, <1>3, <3>1, Zenon DEF Closed
  <2> QED
    BY <1>1, <1>2, <2>3, ProcessOpened DEF FactorPromise!CloseRange, FactorPromise!Opened
<1>5. CASE ~job.apply
  <2>1. Closes(fmanifest'[job.run], job.run) = None /\ Closes(fmanifest[job.run], job.run) = None
    BY <1>1, <1>5 DEF Closes, AuditInv
  <2>2. Closed' = Closed
    BY <1>1, <1>3, <2>1 DEF Closed
  <2> QED
    BY <1>2, <2>2 DEF FactorPromise!evidence
<1> QED
  BY <1>4, <1>5

LEMMA LossIsMisfortune ==
    ASSUME TypeInv, NEW d \in Dates, fcommit' = [fcommit EXCEPT ![d] = None],
           UNCHANGED <<fmanifest, freport>>
    PROVE  FactorPromise!Misfortune
<1>1. UNCHANGED <<Attempts, Closed, Attested>>
  BY DEF Attempts, Closed, Attested
<1>2. Published' = [Published EXCEPT ![d] = None]
  BY DEF Published, Named, TypeInv, TypeOK
<1> QED
  BY <1>1, <1>2 DEF FactorPromise!LoseCommit, FactorPromise!Misfortune

LEMMA EvidenceStep ==
    TypeInv /\ AuditInv /\ OutcomeInv /\ [Next]_vars =>
        [FactorPromise!EvidenceNext]_(FactorPromise!evidence)
<1> SUFFICES ASSUME TypeInv, AuditInv, OutcomeInv, [Next]_vars
             PROVE  FactorPromise!EvidenceNext \/ UNCHANGED FactorPromise!evidence
  OBVIOUS
<1>1. ASSUME NEW d \in TargetsOf[job.run], pc \notin {"idle", "load"},
             \/ FactorPromise!Withdraw(job.run, d) \/ FactorPromise!Attest(job.run, d)
             \/ FactorPromise!Publish(job.run, d)
      PROVE  FactorPromise!EvidenceNext
  BY <1>1, ProcessOpened DEF FactorPromise!EvidenceNext, FactorPromise!Runner
<1>2. CASE OpenFactorRange
  <2>1. job.run \in FactorRuns
    BY <1>2 DEF OpenFactorRange, Loaded, TypeInv, JobInv
  <2> QED
    <3>1. FactorPromise!OpenRange(job.run)
      BY <1>2, OpenOpens
    <3> QED
      BY <2>1, <3>1 DEF FactorPromise!EvidenceNext, FactorPromise!Runner
<1>3. CASE WritePending \/ BeginTarget
  <2>1. PICK d \in left, s \in {"PENDING", "RUNNING"} :
            freport' = [freport EXCEPT ![job.run][d] = Evidence(s)]
    BY <1>3 DEF WritePending, BeginTarget
  <2>2. pc \notin {"idle", "load"} /\ UNCHANGED <<fmanifest, fcommit>>
    BY <1>3 DEF WritePending, BeginTarget
  <2>3. d \in TargetsOf[job.run] /\ Evidence(s) \in Reports /\ Evidence(s).status # "COMPLETED"
    BY <2>1, <2>2, EvidenceOKType DEF TypeInv, JobInv, DateStatus, Evidence
  <2> QED
    <3>1. FactorPromise!Withdraw(job.run, d)
      BY <2>1, <2>2, <2>3, ReportWithdraws, Zenon
    <3> QED
      BY <1>1, <2>2, <2>3, <3>1
<1>4. CASE WriteReport
  <2>1. pc \notin {"idle", "load"} /\ date \in TargetsOf[job.run]
    BY <1>4 DEF WriteReport, TypeInv, JobInv, DateLabels
  <2>2. FactorPromise!Withdraw(job.run, date) \/ FactorPromise!Attest(job.run, date)
    BY <1>4, ReportKept
  <2> QED
    BY <1>1, <2>1, <2>2
<1>5. CASE MarkRunning \/ MarkDone
  BY <1>5, MarkStutters DEF MarkRunning, MarkDone
<1>6. CASE CloseManifest
  <2>1. FactorPromise!CloseRange(job.run) => FactorPromise!EvidenceNext
    BY <1>6, ProcessOpened
       DEF CloseManifest, FactorPromise!EvidenceNext, FactorPromise!Runner
  <2> QED
    BY <1>6, <2>1, CloseCloses
<1>7. CASE pc = "commit" /\ PutCommit
  <2>1. pc \notin {"idle", "load"} /\ date \in TargetsOf[job.run]
    BY <1>7 DEF TypeInv, JobInv, DateLabels, PublishLabels
  <2>2. FactorPromise!Publish(job.run, date)
    BY <1>7, CommitPublishes
  <2> QED
    BY <1>1, <2>1, <2>2
<1>8. CASE Tamper
  <2>1. UNCHANGED <<fmanifest, freport>>
    BY <1>8 DEF Tamper, fstore
  <2>2. ASSUME NEW d \in Dates, fcommit' = [fcommit EXCEPT ![d] = None]
        PROVE  FactorPromise!EvidenceNext
    BY <2>1, <2>2, LossIsMisfortune DEF FactorPromise!EvidenceNext
  <2> QED
    BY <1>8, <2>1, <2>2, EvidenceStutter DEF Tamper, fstore
<1>9. CASE UNCHANGED <<fmanifest, freport, fcommit>>
  BY <1>9, EvidenceStutter
<1>10. CASE PublishStep
  <2>1. (pc = "commit" /\ PutCommit) \/ UNCHANGED fcommit
    BY <1>10 DEF PublishStep, FindCommitted, StageFactors, WriteFactors, ReadBack, WriteCommit,
           VerifyCommitted, StoreRaises, PutGeneration, fstore
  <2> QED
    BY <1>7, <1>9, <1>10, <2>1, PublishKeeps
<1> QED
  BY <1>2, <1>3, <1>4, <1>5, <1>6, <1>8, <1>9, <1>10, Steps
     DEF FreeRun, ResumeRun, StartFactorRun, LoadManifest, RefusePlan, BlockTarget, ReadReport,
         ReadCommit, ReadObjects, ComputeFactors, HistoryRefused, UnchangedBut, Crash, Goal22,
         fstore, vars

\* Goal 23 keeps the same promise to Goal 24 as Goal 22 keeps to Goal 23, for all run ids,
\* catalogs and dates: an attempt takes the trust from its manifest before it touches a report
\* or a commit, and gives it only to dates that it published itself.
THEOREM Implements == Spec => ImplementsEvidence
<1>1. Init => FactorPromise!EvidenceInit
  <2>1. Init => /\ Attempts = [f \in FactorRuns |-> 0] /\ Closed = [f \in FactorRuns |-> None]
                /\ Attested = [f \in FactorRuns |-> [d \in Dates |-> 0]]
                /\ Published = [d \in Dates |-> None]
    BY DEF Init, Attempts, Closed, Closes, Attested, Vouched, Published, Named, NoReport
  <2> QED
    BY <2>1 DEF FactorPromise!EvidenceInit
<1>2. IInv => TypeInv /\ AuditInv /\ OutcomeInv
  BY DEF IInv
<1> QED
  BY Inductive, <1>1, <1>2, EvidenceStep, PTL
     DEF Spec, ImplementsEvidence, FactorPromise!EvidenceSpec
====
