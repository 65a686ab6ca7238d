------------------------ MODULE HistoryBackfill_proofs ------------------------
(***************************************************************************)
(* Proofs, for every plan and every bound, of the safety properties that    *)
(* the runs of HistoryBackfill check.                                       *)
(***************************************************************************)
EXTENDS HistoryBackfill, TLAPS

USE BoundsAssumption, NoneAssumption

InAttempt == {"fetch", "stage", "reuse", "apply", "checkpoint",
              "failReport", "refusedReport", "failManifest"}

(* The numbering of attempts: a chunk is PENDING exactly before its first,   *)
(* the chunks still ahead of the process have room for one more, and the     *)
(* chunk it works on has begun one.                                          *)
Numbering ==
    /\ pc \in InAttempt => manifest[cur].attempt # 0
    /\ \A c \in Chunks : manifest[c].state = "PENDING" <=> manifest[c].attempt = 0
    /\ pc = "chunk" => manifest[cur].attempt < MaxAttempts
    /\ pc \in InAttempt \cup {"chunk"} =>
          \A c \in Chunks : c > cur => manifest[c].attempt < MaxAttempts

TypeInv == TypeOK /\ Numbering

-----------------------------------------------------------------------------
(* The records the store is made of. *)

LEMMA NoEvidenceType == NoEvidence \in Evidence /\ None \in Maybe(Frames)
  BY DEF Evidence, NoEvidence, Maybe

LEMMA StagedEvidenceType ==
    ASSUME NEW a \in 0..MaxAttempts, NEW f \in Maybe(Frames)
    PROVE  [staged |-> a, sum |-> f, canon |-> None] \in Evidence
  BY DEF Evidence, Maybe

LEMMA RecordedEvidenceType ==
    ASSUME NEW e \in Evidence, NEW f \in Maybe(Frames)
    PROVE  [e EXCEPT !.canon = f] \in Evidence
  BY DEF Evidence

LEMMA PutType ==
    ASSUME TypeInv, NEW state \in Settled \cup Failures \cup {"RUNNING"},
           NEW a \in Attempts, NEW stages \in Stages, NEW e \in Evidence,
           Put(cur, state, a, stages, e)
    PROVE  /\ manifest' \in [Chunks -> Checkpoint]
           /\ \A d \in Chunks : manifest'[d].state = "PENDING" <=> manifest'[d].attempt = 0
           /\ manifest'[cur] = [state |-> state, attempt |-> a, stages |-> stages, ev |-> e]
           /\ manifest'[cur].attempt = a /\ a # 0
           /\ \A d \in Chunks : d # cur => manifest'[d] = manifest[d]
<1>1. [state |-> state, attempt |-> a, stages |-> stages, ev |-> e] \in Checkpoint
  BY DEF Checkpoint, Attempts
<1>2. a # 0 /\ state # "PENDING"
  BY DEF Attempts, Settled, Failures
<1>3. cur \in Chunks /\ manifest \in [Chunks -> Checkpoint]
      /\ \A c \in Chunks : manifest[c].state = "PENDING" <=> manifest[c].attempt = 0
  BY DEF TypeInv, TypeOK, Numbering
<1> QED
  BY <1>1, <1>2, <1>3 DEF Put

LEMMA WriteReportType ==
    ASSUME TypeInv, NEW r \in Report, WriteReport(r)
    PROVE  reports' \in [Chunks -> [Attempts -> Report]]
  BY DEF TypeInv, TypeOK, WriteReport

LEMMA VerifiedStagingType ==
    ASSUME NEW c, NEW e \in Evidence
    PROVE  VerifiedStaging(c, e) \in Maybe(Frames)
  BY DEF VerifiedStaging, Evidence, Maybe

-----------------------------------------------------------------------------
(* Type correctness. *)

LEMMA InitTypeInv == Init => TypeInv
  BY DEF Init, TypeInv, TypeOK, Numbering, Chunks, Dates, Attempts, Checkpoint, Report,
         NoCheckpoint, NoReport, Evidence, NoEvidence, Maybe, Stages, Settled, Failures, InAttempt

(* What ends a step of the process keeps its memory well-typed. *)
LEMMA ProcessTypes ==
    ASSUME TypeInv
    PROVE  /\ Exit => /\ pc' = "idle" /\ gates' \in [stages : Stages, rerun : BOOLEAN]
                      /\ cur' \in Chunks /\ frame' \in Maybe(Frames) /\ ev' \in Evidence
                      /\ date' \in 1..(NumDates + 1) /\ failure' \in Failures
           /\ Advance => /\ \/ pc' = "summary" /\ cur' = cur
                            \/ pc' = "chunk" /\ cur' = cur + 1
                         /\ gates' = gates
                         /\ cur' \in Chunks /\ frame' \in Maybe(Frames) /\ ev' \in Evidence
                         /\ date' \in 1..(NumDates + 1) /\ failure' \in Failures
<1>1. 1 \in 1..(NumDates + 1) /\ 1 \in Chunks /\ {} \in Stages /\ "FAILED" \in Failures
  BY DEF Chunks, Stages, Failures
<1>2. cur # NumChunks => cur + 1 \in Chunks
  BY DEF TypeInv, TypeOK, Chunks
<1>3. None \in Maybe(Frames)
  BY DEF Maybe
<1>4. ASSUME Exit
      PROVE  /\ pc' = "idle" /\ gates' \in [stages : Stages, rerun : BOOLEAN]
             /\ cur' \in Chunks /\ frame' \in Maybe(Frames) /\ ev' \in Evidence
             /\ date' \in 1..(NumDates + 1) /\ failure' \in Failures
  BY <1>1, <1>3, <1>4, NoEvidenceType DEF Exit, Forget
<1>5. ASSUME Advance
      PROVE  /\ \/ pc' = "summary" /\ cur' = cur
                \/ pc' = "chunk" /\ cur' = cur + 1
             /\ gates' = gates
             /\ cur' \in Chunks /\ frame' \in Maybe(Frames) /\ ev' \in Evidence
             /\ date' \in 1..(NumDates + 1) /\ failure' \in Failures
  <2>1. CASE cur = NumChunks
    BY <1>1, <1>3, <1>5, <2>1, NoEvidenceType DEF Advance, TypeInv, TypeOK
  <2>2. CASE cur # NumChunks
    BY <1>1, <1>2, <1>3, <1>5, <2>2, NoEvidenceType DEF Advance, TypeInv, TypeOK
  <2> QED
    BY <2>1, <2>2
<1> QED
  BY <1>4, <1>5

(* One object of one chunk changes behind the executor's back.              *)
LEMMA TamperedObject ==
    ASSUME Tamper
    PROVE  \E c \in Chunks :
             \/ /\ \E a \in Attempts, f \in Maybe(Frames) :
                       staging' = [staging EXCEPT ![c][a] = f]
                /\ UNCHANGED canonical
             \/ /\ \E d \in Dates, f \in Maybe(Frames \ {EmptyFrame}) :
                       canonical' = [canonical EXCEPT ![c][d] = f]
                /\ UNCHANGED staging
<1>1. PICK c \in Chunks :
          \/ /\ \E a \in Attempts, f \in Maybe(Frames) :
                    /\ staging[c][a] \notin {None, f}
                    /\ staging' = [staging EXCEPT ![c][a] = f]
             /\ UNCHANGED canonical
          \/ /\ \E d \in Dates, f \in Maybe(Frames \ {EmptyFrame}) :
                    /\ canonical[c][d] # f
                    /\ canonical' = [canonical EXCEPT ![c][d] = f]
             /\ UNCHANGED staging
  BY DEF Tamper
<1>2. CASE UNCHANGED canonical /\ \E a \in Attempts, f \in Maybe(Frames) :
              staging' = [staging EXCEPT ![c][a] = f]
  BY <1>2
<1>3. CASE UNCHANGED staging /\ \E d \in Dates, f \in Maybe(Frames \ {EmptyFrame}) :
              canonical' = [canonical EXCEPT ![c][d] = f]
  BY <1>3
<1> QED
  BY <1>1, <1>2, <1>3

(* It never fills an empty staging slot.                                     *)
LEMMA TamperKeepsFree ==
    ASSUME TypeInv, Tamper
    PROVE  \A c \in Chunks, a \in Attempts : staging[c][a] = None => staging'[c][a] = None
<1>1. PICK c \in Chunks :
          \/ \E a \in Attempts, f \in Maybe(Frames) :
                 /\ staging[c][a] \notin {None, f}
                 /\ staging' = [staging EXCEPT ![c][a] = f]
          \/ UNCHANGED staging
  BY DEF Tamper
<1>2. CASE UNCHANGED staging
  BY <1>2
<1>3. CASE \E a \in Attempts, f \in Maybe(Frames) :
              /\ staging[c][a] \notin {None, f}
              /\ staging' = [staging EXCEPT ![c][a] = f]
  BY <1>3 DEF TypeInv, TypeOK
<1> QED
  BY <1>1, <1>2, <1>3

LEMMA NextTypeInv == TypeInv /\ [Next]_vars => TypeInv'
<1> SUFFICES ASSUME TypeInv, [Next]_vars PROVE TypeInv'
  OBVIOUS
<1> USE DEF TypeInv, TypeOK, Numbering, InAttempt, store, bounds, process
<1>a. Attempt \in 0..MaxAttempts /\ manifest[cur] \in Checkpoint
      /\ manifest[cur].ev \in Evidence
  BY DEF Attempt, Checkpoint
<1>b. Unapplied(ev) \in Evidence /\ FinalEvidence \in Evidence
  BY RecordedEvidenceType DEF Unapplied, FinalEvidence, Maybe
<1>c. Fault => faults' \in 0..MaxFaults
  BY DEF Fault
<1>d. FirstDate \in 1..(NumDates + 1)
  BY DEF FirstDate
<1>1. CASE OperatorRun
  BY <1>1 DEF OperatorRun, StartRun, Stages, Chunks
<1>2. CASE ResumeRun
  BY <1>2 DEF ResumeRun, StartRun, Stages, Chunks
<1>3. CASE RecoverReady
  <2> DEFINE r == reports[cur][Attempt]
  <2>1. Attempt \in Attempts
    BY <1>3, <1>a DEF RecoverReady, HasReady, Attempt, Attempts
  <2>2. r \in Report /\ r.target \in Settled
    BY <1>3, <2>1 DEF RecoverReady, CanRecover, ReadyIsValid, Attempt
  <2>3. r.stages \in Stages /\ r.ev \in Evidence
    BY <2>2 DEF Report
  <2>4. /\ Put(cur, r.target, Attempt, r.stages, r.ev)
        /\ r.target = "COMPLETED" => Advance
        /\ r.target # "COMPLETED" => UNCHANGED process
        /\ UNCHANGED <<reports, staging, canonical, root, bounds, faults>>
    BY <1>3 DEF RecoverReady
  <2> HIDE DEF r
  <2>5. /\ manifest' \in [Chunks -> Checkpoint]
        /\ \A d \in Chunks : manifest'[d].state = "PENDING" <=> manifest'[d].attempt = 0
        /\ manifest'[cur].attempt = manifest[cur].attempt
        /\ \A d \in Chunks \ {cur} : manifest'[d] = manifest[d]
    BY <2>1, <2>2, <2>3, <2>4, PutType DEF Attempt
  <2>6. CASE r.target = "COMPLETED"
    BY <1>3, <2>4, <2>5, <2>6, ProcessTypes DEF RecoverReady, Chunks
  <2>7. CASE r.target # "COMPLETED"
    BY <1>3, <2>4, <2>5, <2>7 DEF RecoverReady, Chunks
  <2> QED
    BY <2>6, <2>7
<1>4. CASE RejectReady
  BY <1>4, ProcessTypes DEF RejectReady
<1>5. CASE SkipChunk
  BY <1>5, ProcessTypes DEF SkipChunk, Chunks
<1>6. CASE BeginAttempt
  <2> DEFINE e == IF MustFetch(cur) THEN NoEvidence ELSE manifest[cur].ev
  <2>1. e \in Evidence
    BY <1>a, NoEvidenceType
  <2>2. manifest[cur].attempt + 1 \in Attempts
    BY <1>6, <1>a DEF BeginAttempt, Attempts, Attempt, Chunks
  <2>3. Put(cur, "RUNNING", manifest[cur].attempt + 1, gates.stages, e) /\ ev' = e
    BY <1>6 DEF BeginAttempt
  <2>4. gates.stages \in Stages
    OBVIOUS
  <2> HIDE DEF e
  <2> DEFINE n == manifest[cur].attempt + 1
  <2> HIDE DEF n
  <2>5. Put(cur, "RUNNING", n, gates.stages, e) /\ n \in Attempts
    BY <2>2, <2>3 DEF n
  <2>6. /\ manifest' \in [Chunks -> Checkpoint]
        /\ \A d \in Chunks : manifest'[d].state = "PENDING" <=> manifest'[d].attempt = 0
        /\ manifest'[cur].attempt # 0
        /\ \A d \in Chunks : d # cur => manifest'[d] = manifest[d]
    BY <2>1, <2>4, <2>5, PutType
  <2> QED
    BY <1>6, <2>1, <2>3, <2>6 DEF BeginAttempt, Chunks
<1>7. CASE FetchChunk
  BY <1>7 DEF FetchChunk, Maybe
<1>8. CASE StageFrame
  <2>1. ev' \in Evidence
    BY <1>8, <1>a, StagedEvidenceType DEF StageFrame, StagedEvidence, StagingSlot
  <2> QED
    BY <1>8, <1>d, <2>1 DEF StageFrame
<1>9. CASE ReuseStaging
  BY <1>9, <1>d, VerifiedStagingType DEF ReuseStaging
<1>10. CASE ReuseRefused
  BY <1>10 DEF ReuseRefused, FailWith, Failures
<1>11. CASE ApplyUnchanged
  BY <1>11 DEF ApplyUnchanged, Dates
<1>12. CASE ApplyContradiction
  BY <1>12, <1>b DEF ApplyContradiction, FailWith, Failures
<1>13. CASE ApplyWrite
  BY <1>13 DEF ApplyWrite, Dates
<1>14. CASE WriteReady
  <2>1. ReadyReport \in Report
    BY <1>b DEF ReadyReport, Report, Target, Settled
  <2> QED
    BY <1>14, <1>b, <2>1, WriteReportType DEF WriteReady
<1>15. CASE WriteCheckpoint
  <2>1. Attempt \in Attempts /\ Target \in Settled /\ gates.stages \in Stages
    BY <1>15, <1>a DEF WriteCheckpoint, Attempt, Attempts, Target, Settled
  <2>2. Put(cur, Target, Attempt, gates.stages, ev)
    BY <1>15 DEF WriteCheckpoint
  <2>3. /\ manifest' \in [Chunks -> Checkpoint]
        /\ \A d \in Chunks : manifest'[d].state = "PENDING" <=> manifest'[d].attempt = 0
        /\ \A d \in Chunks : d # cur => manifest'[d] = manifest[d]
    BY <2>1, <2>2, PutType
  <2> QED
    BY <1>15, <2>3, ProcessTypes DEF WriteCheckpoint, Chunks
<1>16. CASE WriteFailureReport
  <2>1. FailureReport \in Report
    BY DEF FailureReport, Report
  <2> QED
    BY <1>16, <2>1, WriteReportType DEF WriteFailureReport
<1>17. CASE WriteFailureCheckpoint
  <2>1. Attempt \in Attempts /\ gates.stages \in Stages
    BY <1>17, <1>a DEF WriteFailureCheckpoint, Attempt, Attempts
  <2>2. Put(cur, failure, Attempt, gates.stages, ev)
    BY <1>17 DEF WriteFailureCheckpoint
  <2>3. /\ manifest' \in [Chunks -> Checkpoint]
        /\ \A d \in Chunks : manifest'[d].state = "PENDING" <=> manifest'[d].attempt = 0
        /\ \A d \in Chunks : d # cur => manifest'[d] = manifest[d]
    BY <2>1, <2>2, PutType
  <2> QED
    BY <1>17, <2>3, ProcessTypes DEF WriteFailureCheckpoint, Chunks
<1>18. CASE WriteSummary
  BY <1>18, ProcessTypes DEF WriteSummary
<1>19. CASE FetchRefused
  BY <1>19, <1>c DEF FetchRefused, Failures
<1>20. CASE StageFrameRaises
  <2>1. StagedEvidence \in Evidence
    BY <1>20, <1>a, StagedEvidenceType DEF StagedEvidence, StagingSlot
  <2>2. PICK k \in Failures, e \in {ev, StagedEvidence} : FailWith(k, e)
    BY <1>20 DEF StageFrameRaises
  <2>3. /\ pc = "stage" /\ Fault /\ UNCHANGED <<manifest, reports, canonical, root, bounds>>
        /\ staging' = [staging EXCEPT ![cur][StagingSlot] = frame]
    BY <1>20 DEF StageFrameRaises
  <2>4. staging' \in [Chunks -> [Attempts -> Maybe(Frames)]]
    BY <2>3
  <2>5. failure' \in Failures /\ ev' \in Evidence
    BY <2>1, <2>2 DEF FailWith
  <2>6. pc' = "failReport" /\ UNCHANGED <<gates, cur, frame, date>>
    BY <2>2 DEF FailWith
  <2>7. TypeOK'
    BY <1>c, <2>3, <2>4, <2>5, <2>6
  <2>8. Numbering'
    BY <2>3, <2>6
  <2> QED
    BY <2>7, <2>8
<1>21. CASE ApplyWriteRaises
  BY <1>21, <1>b, <1>c DEF ApplyWriteRaises, FailWith, Dates
<1>22. CASE WriteReadyRaises
  <2>1. ReadyReport \in Report
    BY <1>b DEF ReadyReport, Report, Target, Settled
  <2> QED
    BY <1>22, <1>b, <1>c, <2>1, WriteReportType DEF WriteReadyRaises, FailWith
<1>23. CASE WriteCheckpointRaises
  <2>1. Attempt \in Attempts /\ Target \in Settled /\ gates.stages \in Stages
    BY <1>23, <1>a DEF WriteCheckpointRaises, Attempt, Attempts, Target, Settled
  <2>2. Put(cur, Target, Attempt, gates.stages, ev)
    BY <1>23 DEF WriteCheckpointRaises
  <2>3. /\ manifest' \in [Chunks -> Checkpoint]
        /\ \A d \in Chunks : manifest'[d].state = "PENDING" <=> manifest'[d].attempt = 0
        /\ manifest'[cur].attempt # 0
        /\ \A d \in Chunks : d # cur => manifest'[d] = manifest[d]
    BY <2>1, <2>2, PutType
  <2> QED
    BY <1>23, <1>c, <2>3 DEF WriteCheckpointRaises, FailWith, Chunks
<1>24. CASE AttemptRaises
  BY <1>24, <1>b, <1>c DEF AttemptRaises, FailWith
<1>25. CASE FailureReportRaises
  BY <1>25, <1>c DEF FailureReportRaises
<1>26. CASE Crash
  BY <1>26, <1>c, ProcessTypes DEF Crash
<1>27. CASE Tamper
  <2>1. PICK c \in Chunks :
          \/ /\ \E a \in Attempts, f \in Maybe(Frames) :
                    staging' = [staging EXCEPT ![c][a] = f]
             /\ UNCHANGED canonical
          \/ /\ \E d \in Dates, f \in Maybe(Frames \ {EmptyFrame}) :
                    canonical' = [canonical EXCEPT ![c][d] = f]
             /\ UNCHANGED staging
    BY <1>27, TamperedObject
  <2>2. /\ staging' \in [Chunks -> [Attempts -> Maybe(Frames)]]
        /\ canonical' \in [Chunks -> [Dates -> Maybe(Frames)]]
    <3>1. Maybe(Frames \ {EmptyFrame}) \subseteq Maybe(Frames)
      BY DEF Maybe
    <3>2. CASE /\ \E a \in Attempts, f \in Maybe(Frames) :
                    staging' = [staging EXCEPT ![c][a] = f]
               /\ UNCHANGED canonical
      BY <3>2
    <3>3. CASE /\ \E d \in Dates, f \in Maybe(Frames \ {EmptyFrame}) :
                    canonical' = [canonical EXCEPT ![c][d] = f]
               /\ UNCHANGED staging
      BY <3>1, <3>3
    <3> QED
      BY <2>1, <3>2, <3>3
  <2>3. tampered' \subseteq Chunks /\ tampers' \in 0..MaxTampers
    BY <1>27 DEF Tamper
  <2>4. UNCHANGED <<manifest, reports, root, process, runs, faults>> /\ pc = "idle"
    BY <1>27 DEF Tamper
  <2> QED
    BY <2>2, <2>3, <2>4
<1>28. CASE UNCHANGED vars
  BY <1>28 DEF vars
<1> HIDE DEF TypeInv, TypeOK, Numbering, InAttempt, store, bounds, process
<1> QED
  BY <1>1, <1>2, <1>3, <1>4, <1>5, <1>6, <1>7, <1>8, <1>9, <1>10, <1>11, <1>12, <1>13,
     <1>14, <1>15, <1>16, <1>17, <1>18, <1>19, <1>20, <1>21, <1>22, <1>23, <1>24, <1>25,
     <1>26, <1>27, <1>28 DEF Next, Process, Faults

(* Every variable keeps its type, for every plan and every bound.            *)
THEOREM TypeCorrect == Spec => []TypeOK
<1>1. TypeInv => TypeOK
  BY DEF TypeInv
<1> QED
  BY InitTypeInv, NextTypeInv, <1>1, PTL DEF Spec

-----------------------------------------------------------------------------
(* What one write changes. *)

LEMMA AttemptInRange ==
    ASSUME TypeInv, pc \in InAttempt
    PROVE  Attempt \in Attempts /\ cur \in Chunks /\ Attempt = manifest[cur].attempt
  BY DEF TypeInv, TypeOK, Numbering, Checkpoint, Attempt, Attempts

LEMMA AttemptsInRange ==
    ASSUME TypeInv
    PROVE  /\ \A c \in Chunks : manifest[c].attempt \in 0..MaxAttempts
           /\ cur \in Chunks /\ Attempts \subseteq Nat
  BY DEF TypeInv, TypeOK, Checkpoint, Attempts

LEMMA WriteReportEffect ==
    ASSUME TypeInv, pc \in InAttempt, NEW r, WriteReport(r)
    PROVE  /\ reports'[cur][Attempt] = r
           /\ \A c \in Chunks, a \in Attempts :
                 c # cur \/ a # Attempt => reports'[c][a] = reports[c][a]
  BY AttemptInRange DEF WriteReport, TypeInv, TypeOK

LEMMA StageEffect ==
    ASSUME TypeInv, pc \in InAttempt,
           staging' = [staging EXCEPT ![cur][StagingSlot] = frame]
    PROVE  /\ staging'[cur][Attempt] = frame
           /\ \A c \in Chunks, a \in Attempts :
                 c # cur \/ a # Attempt => staging'[c][a] = staging[c][a]
  BY AttemptInRange DEF StagingSlot, TypeInv, TypeOK

LEMMA ApplyEffect ==
    ASSUME TypeInv, date \in Dates,
           canonical' = [canonical EXCEPT ![cur][date] = frame]
    PROVE  /\ canonical'[cur][date] = frame
           /\ \A c \in Chunks, d \in Dates :
                 c # cur \/ d # date => canonical'[c][d] = canonical[c][d]
  BY DEF TypeInv, TypeOK

(* A checkpoint of the current attempt leaves every attempt number alone.    *)
LEMMA PutEffect ==
    ASSUME TypeInv, pc \in InAttempt, NEW state, NEW stages, NEW e,
           Put(cur, state, Attempt, stages, e)
    PROVE  /\ manifest'[cur] = [state |-> state, attempt |-> Attempt,
                                stages |-> stages, ev |-> e]
           /\ \A c \in Chunks : c # cur => manifest'[c] = manifest[c]
           /\ \A c \in Chunks : manifest'[c].attempt = manifest[c].attempt
<1>1. /\ manifest'[cur] = [state |-> state, attempt |-> Attempt,
                           stages |-> stages, ev |-> e]
      /\ \A c \in Chunks : c # cur => manifest'[c] = manifest[c]
  BY AttemptInRange DEF Put, TypeInv, TypeOK
<1>2. manifest'[cur].attempt = manifest[cur].attempt
  BY <1>1, AttemptInRange
<1> QED
  BY <1>1, <1>2

LEMMA RecoverEffect ==
    ASSUME TypeInv, RecoverReady
    PROVE  LET r == reports[cur][Attempt]
           IN  /\ manifest'[cur] = [state |-> r.target, attempt |-> Attempt,
                                    stages |-> r.stages, ev |-> r.ev]
               /\ \A c \in Chunks : c # cur => manifest'[c] = manifest[c]
               /\ \A c \in Chunks : manifest'[c].attempt = manifest[c].attempt
<1>1. Put(cur, reports[cur][Attempt].target, Attempt, reports[cur][Attempt].stages,
          reports[cur][Attempt].ev)
  BY DEF RecoverReady
<1>2. /\ manifest'[cur] = [state |-> reports[cur][Attempt].target, attempt |-> Attempt,
                           stages |-> reports[cur][Attempt].stages,
                           ev |-> reports[cur][Attempt].ev]
      /\ \A c \in Chunks : c # cur => manifest'[c] = manifest[c]
  BY <1>1 DEF Put, TypeInv, TypeOK
<1>3. manifest'[cur].attempt = manifest[cur].attempt
  BY <1>2 DEF Attempt
<1> QED
  BY <1>2, <1>3

LEMMA BeginEffect ==
    ASSUME TypeInv, BeginAttempt
    PROVE  /\ manifest'[cur].attempt = manifest[cur].attempt + 1
           /\ manifest'[cur].attempt \in Attempts
           /\ manifest'[cur].state = "RUNNING"
           /\ manifest'[cur].stages = gates.stages
           /\ manifest'[cur].ev = ev'
           /\ \A c \in Chunks : c # cur => manifest'[c] = manifest[c]
<1> DEFINE e == IF MustFetch(cur) THEN NoEvidence ELSE manifest[cur].ev
<1>1. Put(cur, "RUNNING", manifest[cur].attempt + 1, gates.stages, e) /\ ev' = e
  BY DEF BeginAttempt
<1>2. manifest[cur].attempt + 1 \in Attempts
  BY DEF BeginAttempt, TypeInv, TypeOK, Numbering, Checkpoint, Attempts
<1> HIDE DEF e
<1> QED
  BY <1>1, <1>2 DEF Put, TypeInv, TypeOK

-----------------------------------------------------------------------------
(* Slots.  An attempt that has not reported yet has its report slot free, one *)
(* that has not staged yet its staging slot, and every attempt ahead both.   *)

SlotsInv ==
    /\ SlotsAheadAreFree
    /\ pc \in {"fetch", "stage", "reuse", "apply"} => SlotIsFree
    /\ pc \in {"fetch", "stage"} => staging[cur][Attempt] = None

LEMMA InitSlotsInv == Init => SlotsInv
  BY DEF Init, SlotsInv, SlotsAheadAreFree

LEMMA NextSlotsInv == TypeInv /\ SlotsInv /\ [Next]_vars => SlotsInv'
<1> SUFFICES ASSUME TypeInv, SlotsInv, [Next]_vars PROVE SlotsInv'
  OBVIOUS
<1> USE DEF SlotsInv, SlotsAheadAreFree, SlotIsFree, Attempt
<1>a. ASSUME UNCHANGED <<manifest, reports, staging>>,
             \/ pc' \notin {"fetch", "stage", "reuse", "apply"}
             \/ pc' = pc /\ cur' = cur
      PROVE  SlotsInv'
  BY <1>a
<1>b. ASSUME UNCHANGED <<reports, staging>>,
             \A c \in Chunks : manifest'[c].attempt = manifest[c].attempt,
             pc' \notin {"fetch", "stage", "reuse", "apply"}
      PROVE  SlotsInv'
  BY <1>b
<1>1. CASE OperatorRun \/ ResumeRun
  BY <1>1, <1>a DEF OperatorRun, ResumeRun, StartRun, store
<1>2. CASE RecoverReady
  <2>1. pc' \notin {"fetch", "stage", "reuse", "apply"}
    BY <1>2 DEF RecoverReady, Advance, process
  <2> QED
    BY <1>2, <1>b, <2>1, RecoverEffect DEF RecoverReady
<1>3. CASE RejectReady \/ SkipChunk
  BY <1>3, <1>a DEF RejectReady, SkipChunk, Exit, Advance, store
<1>4. CASE BeginAttempt
  <2>1. UNCHANGED <<reports, staging, cur>>
    BY <1>4 DEF BeginAttempt
  <2> QED
    BY <1>4, <2>1, BeginEffect DEF TypeInv, TypeOK, Checkpoint, Attempts
<1>5. CASE FetchChunk \/ FetchRefused
  BY <1>5 DEF FetchChunk, FetchRefused, store
<1>6. CASE StageFrame \/ StageFrameRaises
  <2>1. pc = "stage" /\ staging' = [staging EXCEPT ![cur][StagingSlot] = frame]
        /\ UNCHANGED <<manifest, reports, cur>> /\ pc' \in {"apply", "failReport"}
    BY <1>6 DEF StageFrame, StageFrameRaises, FailWith
  <2> QED
    BY <2>1, StageEffect, AttemptInRange DEF InAttempt, TypeInv, TypeOK, Checkpoint, Attempts
<1>7. CASE ReuseStaging
  BY <1>7 DEF ReuseStaging, store
<1>8. CASE ReuseRefused \/ ApplyContradiction \/ AttemptRaises \/ FailureReportRaises
           \/ Crash
  BY <1>8, <1>a DEF ReuseRefused, ApplyContradiction, AttemptRaises, FailureReportRaises,
                    Crash, FailWith, Exit, store
<1>9. CASE ApplyUnchanged \/ ApplyWrite \/ ApplyWriteRaises
  BY <1>9, <1>a DEF ApplyUnchanged, ApplyWrite, ApplyWriteRaises, FailWith, store
<1>10. CASE WriteReady \/ WriteReadyRaises
  <2>1. pc = "apply" /\ WriteReport(ReadyReport)
        /\ UNCHANGED <<manifest, staging>> /\ pc' \in {"checkpoint", "failReport"}
    BY <1>10 DEF WriteReady, WriteReadyRaises, FailWith
  <2>2. \A c \in Chunks, a \in Attempts :
           c # cur \/ a # Attempt => reports'[c][a] = reports[c][a]
    BY <2>1, WriteReportEffect DEF InAttempt
  <2> QED
    BY <2>1, <2>2, AttemptsInRange
<1>11. CASE WriteCheckpoint \/ WriteCheckpointRaises
  <2>1. pc = "checkpoint" /\ Put(cur, Target, Attempt, gates.stages, ev)
        /\ UNCHANGED <<reports, staging>>
        /\ pc' \in {"chunk", "summary", "failReport"}
    BY <1>11 DEF WriteCheckpoint, WriteCheckpointRaises, FailWith, Advance
  <2> QED
    BY <2>1, <1>b, PutEffect DEF InAttempt
<1>12. CASE WriteFailureReport
  <2>1. pc \in InAttempt /\ UNCHANGED <<manifest, staging>> /\ pc' = "failManifest"
        /\ (WriteReport(FailureReport) \/ UNCHANGED reports)
    BY <1>12 DEF WriteFailureReport, InAttempt
  <2>2. CASE UNCHANGED reports
    BY <2>1, <2>2, <1>a
  <2>3. CASE WriteReport(FailureReport)
    <3>1. \A c \in Chunks, a \in Attempts :
             c # cur \/ a # Attempt => reports'[c][a] = reports[c][a]
      BY <2>1, <2>3, WriteReportEffect
    <3> QED
      BY <2>1, <3>1, AttemptsInRange
  <2> QED
    BY <2>1, <2>2, <2>3
<1>13. CASE WriteFailureCheckpoint
  <2>1. pc = "failManifest" /\ Put(cur, failure, Attempt, gates.stages, ev)
        /\ UNCHANGED <<reports, staging>> /\ pc' \in {"idle", "chunk", "summary"}
    BY <1>13 DEF WriteFailureCheckpoint, Exit, Advance
  <2> QED
    BY <2>1, <1>b, PutEffect DEF InAttempt
<1>14. CASE WriteSummary
  BY <1>14, <1>a DEF WriteSummary, Exit
<1>15. CASE Tamper
  <2>1. pc' = "idle" /\ UNCHANGED <<manifest, reports>>
    BY <1>15 DEF Tamper, process
  <2>2. \A c \in Chunks, a \in Attempts : staging[c][a] = None => staging'[c][a] = None
    BY <1>15, TamperKeepsFree
  <2> QED
    BY <2>1, <2>2
<1>16. CASE UNCHANGED vars
  BY <1>16, <1>a DEF vars
<1> HIDE DEF SlotsInv
<1> QED
  BY <1>1, <1>2, <1>3, <1>4, <1>5, <1>6, <1>7, <1>8, <1>9, <1>10, <1>11, <1>12, <1>13,
     <1>14, <1>15, <1>16 DEF Next, Process, Faults

-----------------------------------------------------------------------------
(* The audit trail.  Between the READY report and its checkpoint the process *)
(* carries exactly what the report says.                                     *)

AuditInv ==
    /\ SettledIsReported
    /\ pc = "checkpoint" =>
          reports[cur][Attempt] = [state |-> "READY_TO_CHECKPOINT", target |-> Target,
                                   stages |-> gates.stages, ev |-> ev]

LEMMA InitAuditInv == Init => AuditInv
  BY DEF Init, AuditInv, SettledIsReported, Settled, NoCheckpoint

LEMMA NextAuditInv == TypeInv /\ AuditInv /\ [Next]_vars => AuditInv'
<1> SUFFICES ASSUME TypeInv, AuditInv, [Next]_vars PROVE AuditInv'
  OBVIOUS
<1> USE DEF AuditInv, SettledIsReported
<1>a. ASSUME UNCHANGED <<manifest, reports>>, pc' # "checkpoint"
      PROVE  AuditInv'
  BY <1>a
<1>1. CASE OperatorRun \/ ResumeRun
  BY <1>1, <1>a DEF OperatorRun, ResumeRun, StartRun, store
<1>2. CASE RecoverReady
  <2>1. pc' # "checkpoint" /\ UNCHANGED reports
        /\ reports[cur][Attempt].state = "READY_TO_CHECKPOINT"
    BY <1>2 DEF RecoverReady, Advance, process, HasReady, Attempt
  <2> QED
    BY <1>2, <2>1, RecoverEffect DEF Attempt
<1>3. CASE RejectReady \/ SkipChunk
  BY <1>3, <1>a DEF RejectReady, SkipChunk, Exit, Advance, store
<1>4. CASE BeginAttempt
  <2>1. UNCHANGED reports /\ pc' # "checkpoint"
    BY <1>4 DEF BeginAttempt
  <2> QED
    BY <1>4, <2>1, BeginEffect DEF Settled
<1>5. CASE FetchChunk \/ FetchRefused \/ StageFrame \/ StageFrameRaises \/ ReuseStaging
           \/ ReuseRefused
  BY <1>5, <1>a DEF FetchChunk, FetchRefused, StageFrame, StageFrameRaises, ReuseStaging,
                    ReuseRefused, FailWith, store
<1>6. CASE ApplyUnchanged \/ ApplyContradiction \/ ApplyWrite \/ ApplyWriteRaises
  BY <1>6, <1>a DEF ApplyUnchanged, ApplyContradiction, ApplyWrite, ApplyWriteRaises,
                    FailWith, store
<1>7. CASE AttemptRaises \/ FailureReportRaises \/ Crash \/ WriteSummary \/ Tamper
  BY <1>7, <1>a DEF AttemptRaises, FailureReportRaises, Crash, WriteSummary, Tamper, FailWith,
                    Exit, store, process
<1>8. CASE WriteReady \/ WriteReadyRaises
  <2>1. /\ pc \in InAttempt /\ WriteReport(ReadyReport) /\ SlotIsFree
        /\ UNCHANGED <<manifest, cur, gates>>
        /\ \/ pc' = "checkpoint" /\ ev' = FinalEvidence
           \/ pc' = "failReport"
    BY <1>8 DEF WriteReady, WriteReadyRaises, FailWith, InAttempt
  <2>2. /\ reports'[cur][Attempt] = ReadyReport
        /\ \A c \in Chunks, a \in Attempts :
              c # cur \/ a # Attempt => reports'[c][a] = reports[c][a]
    BY <2>1, WriteReportEffect
  <2>3. manifest[cur].state \notin Settled
    BY <2>1, AttemptsInRange DEF SlotIsFree, NoReport, Attempt
  <2>4. SettledIsReported'
    <3> SUFFICES ASSUME NEW c \in Chunks, manifest'[c].state \in Settled
                 PROVE  /\ manifest'[c].attempt \in Attempts
                        /\ reports'[c][manifest'[c].attempt] = reports[c][manifest[c].attempt]
                        /\ manifest'[c] = manifest[c]
      BY <2>1
    <3>1. c # cur /\ manifest'[c] = manifest[c]
      BY <2>1, <2>3
    <3>2. manifest[c].attempt \in Attempts
      BY <2>1, <3>1 DEF TypeInv, TypeOK, Numbering, Checkpoint, Attempts, Settled
    <3> QED
      BY <2>2, <3>1, <3>2
  <2>5. pc' = "checkpoint" =>
           reports'[cur][Attempt] = [state |-> "READY_TO_CHECKPOINT", target |-> Target,
                                     stages |-> gates.stages, ev |-> ev']
    BY <2>1, <2>2 DEF ReadyReport
  <2> QED
    BY <2>1, <2>4, <2>5 DEF Attempt, Target, Applying
<1>9. CASE WriteCheckpoint \/ WriteCheckpointRaises
  <2>1. /\ pc = "checkpoint" /\ Put(cur, Target, Attempt, gates.stages, ev)
        /\ UNCHANGED reports /\ pc' # "checkpoint"
    BY <1>9 DEF WriteCheckpoint, WriteCheckpointRaises, FailWith, Advance
  <2>2. /\ manifest'[cur] = [state |-> Target, attempt |-> Attempt,
                             stages |-> gates.stages, ev |-> ev]
        /\ \A c \in Chunks : c # cur => manifest'[c] = manifest[c]
    BY <2>1, PutEffect DEF InAttempt
  <2> QED
    BY <2>1, <2>2
<1>10. CASE WriteFailureReport
  <2>1. CASE UNCHANGED reports
    BY <1>10, <1>a, <2>1 DEF WriteFailureReport
  <2>2. CASE WriteReport(FailureReport) /\ SlotIsFree
    <3>1. pc \in InAttempt /\ UNCHANGED manifest /\ pc' # "checkpoint"
      BY <1>10 DEF WriteFailureReport, InAttempt
    <3>2. \A c \in Chunks, a \in Attempts :
             c # cur \/ a # Attempt => reports'[c][a] = reports[c][a]
      BY <2>2, <3>1, WriteReportEffect
    <3>3. manifest[cur].state \notin Settled
      BY <2>2, AttemptsInRange DEF SlotIsFree, NoReport, Attempt
    <3>4. ASSUME NEW c \in Chunks, manifest'[c].state \in Settled
          PROVE  c # cur /\ manifest[c].attempt \in Attempts
      BY <3>1, <3>3, <3>4 DEF TypeInv, TypeOK, Numbering, Checkpoint, Attempts, Settled
    <3> QED
      BY <3>1, <3>2, <3>4
  <2> QED
    BY <1>10, <2>1, <2>2 DEF WriteFailureReport
<1>11. CASE WriteFailureCheckpoint
  <2>1. /\ pc \in InAttempt /\ Put(cur, failure, Attempt, gates.stages, ev)
        /\ UNCHANGED reports /\ pc' # "checkpoint"
    BY <1>11 DEF WriteFailureCheckpoint, Exit, Advance, InAttempt
  <2>2. failure \notin Settled
    BY DEF TypeInv, TypeOK, Failures, Settled
  <2>3. /\ manifest'[cur] = [state |-> failure, attempt |-> Attempt,
                             stages |-> gates.stages, ev |-> ev]
        /\ \A c \in Chunks : c # cur => manifest'[c] = manifest[c]
    BY <2>1, PutEffect
  <2> QED
    BY <2>1, <2>2, <2>3
<1>12. CASE UNCHANGED vars
  BY <1>12 DEF vars, Attempt, Target, Applying
<1> HIDE DEF AuditInv
<1> QED
  BY <1>1, <1>2, <1>3, <1>4, <1>5, <1>6, <1>7, <1>8, <1>9, <1>10, <1>11, <1>12
     DEF Next, Process, Faults

-----------------------------------------------------------------------------
(* The work of one attempt.  What it applies is what it staged or reused, the *)
(* partitions behind it hold it, and the checkpoint that announces the work   *)
(* is durable until the final one.                                            *)

\* The frame in hand is the one the evidence and its staging object record.
Carried ==
    /\ frame # None
    /\ ev.staged \in 1..Attempt
    /\ ev.sum = frame
    /\ staging[cur][ev.staged] = frame

WorkInv ==
    /\ pc \in {"fetch", "stage", "reuse", "apply", "checkpoint"} =>
          manifest[cur].state = "RUNNING" /\ manifest[cur].stages = gates.stages
    /\ pc \in InAttempt => ev.staged <= Attempt
    /\ \A c \in Chunks : manifest[c].ev.staged <= manifest[c].attempt
    /\ pc = "stage" => frame # None
    /\ pc \in {"apply", "checkpoint"} => Carried
    /\ pc = "apply" /\ date \in Dates => Applying
    /\ pc = "apply" /\ Applying =>
          \A d \in Dates : d < date => canonical[cur][d] = Slice(frame)
    /\ pc = "checkpoint" /\ Applying => ev.canon = frame /\ ScopeIsExact(cur, frame)

LEMMA InitWorkInv == Init => WorkInv
  BY DEF Init, WorkInv, InAttempt, NoCheckpoint, NoEvidence

LEMMA NextWorkInv == TypeInv /\ WorkInv /\ [Next]_vars => WorkInv'
<1> SUFFICES ASSUME TypeInv, WorkInv, [Next]_vars PROVE WorkInv'
  OBVIOUS
<1> USE DEF WorkInv, InAttempt
<1>a. ASSUME UNCHANGED manifest, pc' \notin InAttempt
      PROVE  WorkInv'
  BY <1>a
<1>b. ASSUME UNCHANGED <<manifest, cur>>, pc' \in {"failReport", "refusedReport", "failManifest"},
             ev'.staged <= Attempt
      PROVE  WorkInv'
  BY <1>b DEF Attempt
<1>1. CASE OperatorRun \/ ResumeRun
  BY <1>1, <1>a DEF OperatorRun, ResumeRun, StartRun, store
<1>2. CASE RecoverReady
  <2>1. pc' \notin InAttempt
    BY <1>2 DEF RecoverReady, Advance, process
  <2>2. reports[cur][Attempt].ev.staged <= Attempt
    BY <1>2, AttemptsInRange DEF RecoverReady, CanRecover, ReadyIsValid, Attempt
  <2> QED
    BY <2>1, <2>2, <1>2, RecoverEffect DEF Attempt
<1>3. CASE RejectReady \/ SkipChunk \/ Crash \/ WriteSummary \/ Tamper
  BY <1>3, <1>a DEF RejectReady, SkipChunk, Crash, WriteSummary, Tamper, Exit, Advance,
                    store, process
<1>4. CASE BeginAttempt
  <2>1. /\ pc = "chunk" /\ pc' \in {"fetch", "reuse"} /\ UNCHANGED <<cur, gates>>
        /\ ev' = NoEvidence \/ ev' = manifest[cur].ev
    BY <1>4 DEF BeginAttempt
  <2>2. /\ manifest[cur].ev.staged <= manifest[cur].attempt
        /\ manifest[cur].ev.staged \in Nat /\ manifest[cur].attempt \in Nat
    BY DEF TypeInv, TypeOK, Checkpoint, Evidence
  <2>3. ev'.staged <= manifest[cur].attempt + 1
    BY <2>1, <2>2 DEF NoEvidence
  <2> QED
    BY <2>1, <2>3, <1>4, BeginEffect DEF Attempt
<1>5. CASE FetchChunk
  <2>1. frame' # None
    BY <1>5 DEF FetchChunk
  <2> QED
    BY <1>5, <2>1 DEF FetchChunk, store, Attempt
<1>6. CASE FetchRefused \/ ReuseRefused \/ ApplyContradiction \/ AttemptRaises
           \/ FailureReportRaises \/ ApplyWriteRaises
  <2>1. /\ UNCHANGED <<manifest, cur>>
        /\ pc \in InAttempt
        /\ pc' \in {"failReport", "refusedReport", "failManifest"}
        /\ ev' \in {ev, Unapplied(ev), FinalEvidence}
    BY <1>6 DEF FetchRefused, ReuseRefused, ApplyContradiction, AttemptRaises,
                FailureReportRaises, ApplyWriteRaises, FailWith, store
  <2>2. ev'.staged = ev.staged
    BY <2>1 DEF Unapplied, FinalEvidence, TypeInv, TypeOK, Evidence
  <2> QED
    BY <2>1, <2>2, <1>b
<1>7. CASE StageFrame
  <2>1. /\ pc = "stage" /\ pc' = "apply" /\ ev' = StagedEvidence /\ date' = FirstDate
        /\ staging' = [staging EXCEPT ![cur][StagingSlot] = frame]
        /\ UNCHANGED <<manifest, canonical, gates, cur, frame>>
    BY <1>7 DEF StageFrame
  <2>2. staging'[cur][Attempt] = frame /\ Attempt \in Attempts
    BY <2>1, StageEffect, AttemptInRange
  <2>3. Carried' /\ ev'.staged <= Attempt
    BY <2>1, <2>2 DEF Carried, StagedEvidence, StagingSlot, Attempt, Attempts
  <2>4. /\ date' \in Dates => Applying
        /\ Applying => date' = 1
    BY <2>1 DEF FirstDate, Dates
  <2> QED
    BY <2>1, <2>3, <2>4 DEF Attempt, Applying, Dates
<1>8. CASE StageFrameRaises
  <2>1. /\ UNCHANGED <<manifest, cur>> /\ pc' = "failReport" /\ pc \in InAttempt
        /\ ev' \in {ev, StagedEvidence}
    BY <1>8 DEF StageFrameRaises, FailWith
  <2>2. ev'.staged <= Attempt
    BY <2>1, AttemptInRange DEF StagedEvidence, StagingSlot, Attempts
  <2> QED
    BY <2>1, <2>2, <1>b
<1>9. CASE ReuseStaging
  <2>1. /\ pc = "reuse" /\ pc' = "apply" /\ date' = FirstDate
        /\ frame' = VerifiedStaging(cur, ev) /\ frame' # None
        /\ UNCHANGED <<manifest, staging, canonical, gates, cur, ev>>
    BY <1>9 DEF ReuseStaging, ReuseIsSound, store
  <2>2. ev.staged \in 0..MaxAttempts /\ Attempt \in Attempts
    BY <2>1, AttemptInRange DEF TypeInv, TypeOK, Evidence
  <2>3. Carried'
    BY <2>1, <2>2 DEF Carried, VerifiedStaging, Attempt, Attempts
  <2>4. /\ date' \in Dates => Applying
        /\ Applying => date' = 1
    BY <2>1 DEF FirstDate, Dates
  <2> QED
    BY <2>1, <2>3, <2>4 DEF Attempt, Applying, Dates
<1>10. CASE ApplyUnchanged \/ ApplyWrite
  <2>1. /\ pc = "apply" /\ pc' = "apply" /\ date \in Dates /\ date' = date + 1
        /\ UNCHANGED <<manifest, staging, gates, cur, frame, ev>>
    BY <1>10 DEF ApplyUnchanged, ApplyWrite, store
  <2>2. canonical'[cur][date] = Slice(frame)
    BY <1>10, ApplyEffect DEF ApplyUnchanged, ApplyWrite, NeedsWrite, Slice, store
  <2>3. \A d \in Dates : d # date => canonical'[cur][d] = canonical[cur][d]
    BY <1>10, ApplyEffect DEF ApplyUnchanged, ApplyWrite, store, TypeInv, TypeOK
  <2>4. Carried' /\ Applying'
    BY <2>1 DEF Carried, Attempt, Applying
  <2>5. \A d \in Dates : d < date' => d < date \/ d = date
    BY <2>1 DEF Dates
  <2> QED
    BY <2>1, <2>2, <2>3, <2>4, <2>5 DEF Attempt
<1>11. CASE WriteReady \/ WriteReadyRaises
  <2>1. /\ pc = "apply" /\ date = NumDates + 1
        /\ UNCHANGED <<manifest, staging, canonical, gates, cur, frame>>
        /\ ev' = FinalEvidence /\ pc' \in {"checkpoint", "failReport"}
    BY <1>11 DEF WriteReady, WriteReadyRaises, FailWith
  <2>2. /\ ev'.staged = ev.staged /\ ev'.sum = ev.sum
        /\ Applying => ev'.canon = frame
    BY <2>1 DEF FinalEvidence, TypeInv, TypeOK, Evidence
  <2>3. Carried'
    BY <2>1, <2>2 DEF Carried, Attempt
  <2>4. Applying => ScopeIsExact(cur, frame)
    BY <2>1 DEF ScopeIsExact, Dates
  <2> QED
    BY <2>1, <2>2, <2>3, <2>4 DEF Attempt, Applying, ScopeIsExact
<1>12. CASE WriteCheckpoint \/ WriteCheckpointRaises \/ WriteFailureCheckpoint
  <2>1. /\ pc \in InAttempt
        /\ \E state \in Settled \cup Failures : Put(cur, state, Attempt, gates.stages, ev)
        /\ \/ pc' \notin InAttempt
           \/ pc' = "failReport" /\ UNCHANGED <<cur, ev>>
    BY <1>12 DEF WriteCheckpoint, WriteCheckpointRaises, WriteFailureCheckpoint, FailWith,
                 Advance, Exit, Target, Settled, TypeInv, TypeOK
  <2>2. /\ manifest'[cur].attempt = Attempt /\ manifest'[cur].ev = ev
        /\ \A c \in Chunks : c # cur => manifest'[c] = manifest[c]
    <3>1. PICK state \in Settled \cup Failures : Put(cur, state, Attempt, gates.stages, ev)
      BY <2>1
    <3>2. /\ manifest'[cur] = [state |-> state, attempt |-> Attempt,
                               stages |-> gates.stages, ev |-> ev]
          /\ \A c \in Chunks : c # cur => manifest'[c] = manifest[c]
      BY <2>1, <3>1, PutEffect
    <3> QED
      BY <3>2
  <2> QED
    BY <2>1, <2>2 DEF Attempt
<1>13. CASE WriteFailureReport
  BY <1>13, <1>b DEF WriteFailureReport
<1>14. CASE UNCHANGED vars
  BY <1>14 DEF vars, Attempt, Applying, Carried, ScopeIsExact
<1> HIDE DEF WorkInv
<1> QED
  BY <1>1, <1>2, <1>3, <1>4, <1>5, <1>6, <1>7, <1>8, <1>9, <1>10, <1>11, <1>12, <1>13,
     <1>14 DEF Next, Process, Faults

-----------------------------------------------------------------------------
(* What a COMPLETED checkpoint promises.                                     *)

(* A step that leaves the checkpoint, the staging objects and the partitions *)
(* of a chunk alone leaves its promise alone.                                *)
Materialised(c) ==
    /\ VerifiedStaging(c, manifest[c].ev) # None
    /\ EvidenceMatches(manifest[c].ev, manifest[c].ev.sum)
    /\ ScopeIsExact(c, manifest[c].ev.sum)

LEMMA MaterialisedKept ==
    ASSUME TypeInv, NEW c \in Chunks, Materialised(c), manifest'[c] = manifest[c],
           \A a \in Attempts : staging'[c][a] = staging[c][a],
           \A d \in Dates : canonical'[c][d] = canonical[c][d]
    PROVE  Materialised(c)'
<1>1. manifest[c].ev.staged # 0 => manifest[c].ev.staged \in Attempts
  BY DEF TypeInv, TypeOK, Checkpoint, Evidence, Attempts
<1> QED
  BY <1>1 DEF Materialised, VerifiedStaging, EvidenceMatches, ScopeIsExact

LEMMA CompletedDef ==
    CompletedIsMaterialised <=>
       \A c \in Chunks \ tampered : manifest[c].state = "COMPLETED" => Materialised(c)
  BY DEF CompletedIsMaterialised, IsCompleted, Materialised

LEMMA TamperEffect ==
    ASSUME TypeInv, Tamper
    PROVE  /\ UNCHANGED manifest
           /\ \A c \in Chunks \ tampered' :
                 /\ c \notin tampered
                 /\ \A a \in Attempts : staging'[c][a] = staging[c][a]
                 /\ \A d \in Dates : canonical'[c][d] = canonical[c][d]
<1>1. PICK c \in Chunks :
          /\ tampered' = tampered \cup {c}
          /\ \/ /\ \E a \in Attempts, f \in Maybe(Frames) :
                       /\ staging[c][a] \notin {None, f}
                       /\ staging' = [staging EXCEPT ![c][a] = f]
                /\ UNCHANGED canonical
             \/ /\ \E d \in Dates, f \in Maybe(Frames \ {EmptyFrame}) :
                       /\ canonical[c][d] # f
                       /\ canonical' = [canonical EXCEPT ![c][d] = f]
                /\ UNCHANGED staging
  BY DEF Tamper
<1>2. ASSUME NEW b \in Chunks, b # c
      PROVE  /\ \A a \in Attempts : staging'[b][a] = staging[b][a]
             /\ \A d \in Dates : canonical'[b][d] = canonical[b][d]
  <2>1. CASE /\ \E a \in Attempts, f \in Maybe(Frames) :
                   staging' = [staging EXCEPT ![c][a] = f]
             /\ UNCHANGED canonical
    BY <1>2, <2>1 DEF TypeInv, TypeOK
  <2>2. CASE /\ \E d \in Dates, f \in Maybe(Frames \ {EmptyFrame}) :
                   canonical' = [canonical EXCEPT ![c][d] = f]
             /\ UNCHANGED staging
    BY <1>2, <2>2 DEF TypeInv, TypeOK
  <2>3. \/ \E a \in Attempts, f \in Maybe(Frames) :
              staging' = [staging EXCEPT ![c][a] = f] /\ UNCHANGED canonical
        \/ \E d \in Dates, f \in Maybe(Frames \ {EmptyFrame}) :
              canonical' = [canonical EXCEPT ![c][d] = f] /\ UNCHANGED staging
    BY <1>1
  <2> QED
    BY <2>1, <2>2, <2>3
<1>3. UNCHANGED manifest
  BY DEF Tamper
<1> QED
  BY <1>1, <1>2, <1>3

LEMMA NextCompleted ==
    TypeInv /\ AuditInv /\ WorkInv /\ CompletedIsMaterialised /\ [Next]_vars
       => CompletedIsMaterialised'
<1> SUFFICES ASSUME TypeInv, AuditInv, WorkInv, CompletedIsMaterialised, [Next]_vars,
                    NEW c \in Chunks \ tampered', manifest'[c].state = "COMPLETED"
             PROVE  Materialised(c)'
  BY CompletedDef DEF CompletedIsMaterialised, IsCompleted, Materialised
<1> USE DEF InAttempt
<1>a. c \notin tampered /\ manifest[c].state = "COMPLETED" => Materialised(c)
  BY CompletedDef
<1>b. ASSUME manifest'[c] = manifest[c], c \notin tampered,
             \A a \in Attempts : staging'[c][a] = staging[c][a],
             \A d \in Dates : canonical'[c][d] = canonical[c][d]
      PROVE  Materialised(c)'
  BY <1>a, <1>b, MaterialisedKept
<1>1. CASE UNCHANGED <<manifest, staging, canonical, tampered>>
  BY <1>1, <1>b
<1>2. CASE RecoverReady
  <2>1. /\ UNCHANGED <<staging, canonical, tampered>> /\ ReadyIsValid(cur)
    BY <1>2 DEF RecoverReady, CanRecover, bounds
  <2>2. CASE c # cur
    BY <1>2, <1>b, <2>1, <2>2, RecoverEffect
  <2>3. CASE c = cur
    <3> DEFINE r == reports[cur][Attempt]
    <3>1. manifest'[c].ev = r.ev /\ manifest'[c].state = r.target
      BY <1>2, <2>3, RecoverEffect
    <3>2. /\ VerifiedStaging(c, r.ev) # None
          /\ EvidenceMatches(r.ev, VerifiedStaging(c, r.ev))
          /\ ScopeIsExact(c, VerifiedStaging(c, r.ev))
      BY <2>1, <2>3, <3>1, SMTT(30) DEF ReadyIsValid, Attempt
    <3>3. VerifiedStaging(c, r.ev) = r.ev.sum
      BY <3>2 DEF VerifiedStaging
    <3> QED
      BY <2>1, <3>1, <3>2, <3>3 DEF Materialised, VerifiedStaging, EvidenceMatches, ScopeIsExact
  <2> QED
    BY <2>2, <2>3
<1>3. CASE BeginAttempt
  <2>1. UNCHANGED <<staging, canonical>> /\ tampered' = tampered \ {cur}
    BY <1>3 DEF BeginAttempt
  <2>2. c # cur
    BY <1>3, BeginEffect
  <2> QED
    BY <1>3, <1>b, <2>1, <2>2, BeginEffect
<1>4. CASE StageFrame \/ StageFrameRaises
  <2>1. /\ pc = "stage" /\ staging' = [staging EXCEPT ![cur][StagingSlot] = frame]
        /\ UNCHANGED <<manifest, canonical, tampered>>
    BY <1>4 DEF StageFrame, StageFrameRaises, bounds
  <2>2. c # cur
    BY <2>1 DEF WorkInv
  <2> QED
    BY <1>b, <2>1, <2>2, StageEffect
<1>5. CASE ApplyWrite \/ ApplyWriteRaises
  <2>1. /\ pc = "apply" /\ date \in Dates
        /\ canonical' = [canonical EXCEPT ![cur][date] = frame]
        /\ UNCHANGED <<manifest, staging, tampered>>
    BY <1>5 DEF ApplyWrite, ApplyWriteRaises, bounds
  <2>2. c # cur
    BY <2>1 DEF WorkInv
  <2> QED
    BY <1>b, <2>1, <2>2, ApplyEffect
<1>6. CASE WriteCheckpoint \/ WriteCheckpointRaises
  <2>1. /\ pc = "checkpoint" /\ Put(cur, Target, Attempt, gates.stages, ev)
        /\ UNCHANGED <<staging, canonical, tampered>>
    BY <1>6 DEF WriteCheckpoint, WriteCheckpointRaises, bounds
  <2>2. /\ manifest'[cur].state = Target /\ manifest'[cur].ev = ev
        /\ \A b \in Chunks : b # cur => manifest'[b] = manifest[b]
    <3>1. /\ manifest'[cur] = [state |-> Target, attempt |-> Attempt,
                               stages |-> gates.stages, ev |-> ev]
          /\ \A b \in Chunks : b # cur => manifest'[b] = manifest[b]
      BY <2>1, PutEffect
    <3> QED
      BY <3>1
  <2>3. CASE c # cur
    BY <1>b, <2>1, <2>2, <2>3
  <2>4. CASE c = cur
    <3>1. /\ frame # None /\ ev.staged # 0 /\ ev.sum = frame
          /\ staging[cur][ev.staged] = frame
          /\ ev.canon = frame /\ ScopeIsExact(cur, frame)
      BY <2>1, <2>2, <2>4 DEF WorkInv, Carried, Target
    <3> QED
      BY <2>1, <2>2, <2>4, <3>1 DEF Materialised, VerifiedStaging, EvidenceMatches, ScopeIsExact
  <2> QED
    BY <2>3, <2>4
<1>7. CASE WriteFailureCheckpoint
  <2>1. /\ pc = "failManifest" /\ Put(cur, failure, Attempt, gates.stages, ev)
        /\ UNCHANGED <<staging, canonical, tampered>>
    BY <1>7 DEF WriteFailureCheckpoint, bounds
  <2>2. /\ manifest'[cur].state = failure
        /\ \A b \in Chunks : b # cur => manifest'[b] = manifest[b]
    <3>1. /\ manifest'[cur] = [state |-> failure, attempt |-> Attempt,
                               stages |-> gates.stages, ev |-> ev]
          /\ \A b \in Chunks : b # cur => manifest'[b] = manifest[b]
      BY <2>1, PutEffect
    <3> QED
      BY <3>1
  <2>3. failure # "COMPLETED"
    BY DEF TypeInv, TypeOK, Failures
  <2> QED
    BY <1>b, <2>1, <2>2, <2>3
<1>8. CASE Tamper
  BY <1>8, <1>b, TamperEffect
<1>9. CASE OperatorRun \/ ResumeRun \/ RejectReady \/ SkipChunk \/ FetchChunk
           \/ FetchRefused \/ ReuseStaging \/ ReuseRefused
  BY <1>9, <1>1 DEF OperatorRun, ResumeRun, StartRun, RejectReady, SkipChunk, FetchChunk,
                    FetchRefused, ReuseStaging, ReuseRefused, store, bounds
<1>10. CASE ApplyUnchanged \/ ApplyContradiction \/ WriteReady \/ WriteReadyRaises
            \/ AttemptRaises
  BY <1>10, <1>1 DEF ApplyUnchanged, ApplyContradiction, WriteReady, WriteReadyRaises,
                     AttemptRaises, store, bounds
<1>11. CASE WriteFailureReport \/ FailureReportRaises \/ WriteSummary \/ Crash
            \/ UNCHANGED vars
  BY <1>11, <1>1 DEF WriteFailureReport, FailureReportRaises, WriteSummary, Crash, store,
                     bounds, vars
<1> QED
  BY <1>2, <1>3, <1>4, <1>5, <1>6, <1>7, <1>8, <1>9, <1>10, <1>11 DEF Next, Process, Faults

-----------------------------------------------------------------------------
(* The safety theorems.                                                      *)

IInv == TypeInv /\ SlotsInv /\ AuditInv /\ WorkInv

LEMMA Inductive == Spec => []IInv
<1>1. Init => IInv
  BY InitTypeInv, InitSlotsInv, InitAuditInv, InitWorkInv DEF IInv
<1>2. IInv /\ [Next]_vars => IInv'
  BY NextTypeInv, NextSlotsInv, NextAuditInv, NextWorkInv DEF IInv
<1> QED
  BY <1>1, <1>2, PTL DEF Spec

(* No attempt finds its report or staging slot taken.                        *)
THEOREM SlotsFree == Spec => []SlotsAheadAreFree
<1>1. IInv => SlotsAheadAreFree
  BY DEF IInv, SlotsInv
<1> QED
  BY Inductive, <1>1, PTL

(* Every settled checkpoint is backed by its immutable READY report.         *)
THEOREM Audited == Spec => []SettledIsReported
<1>1. IInv => SettledIsReported
  BY DEF IInv, AuditInv
<1> QED
  BY Inductive, <1>1, PTL

(* Every COMPLETED checkpoint is true of its staging and its partitions.     *)
THEOREM Completed == Spec => []CompletedIsMaterialised
<1>1. Init => CompletedIsMaterialised
  BY DEF Init, CompletedIsMaterialised, IsCompleted, NoCheckpoint
<1>2. IInv /\ CompletedIsMaterialised /\ [Next]_vars => CompletedIsMaterialised'
  BY NextCompleted DEF IInv
<1> QED
  BY Inductive, <1>1, <1>2, PTL DEF Spec

(* No step of the executor changes a report or a staging object.             *)
LEMMA EvidenceStep ==
    IInv /\ [Next]_vars =>
       [\A c \in Chunks, a \in Attempts :
          /\ reports[c][a] # NoReport => reports'[c][a] = reports[c][a]
          /\ pc # "idle" /\ staging[c][a] # None => staging'[c][a] = staging[c][a]]_vars
<1> SUFFICES ASSUME IInv, [Next]_vars, NEW c \in Chunks, NEW a \in Attempts
             PROVE  /\ reports[c][a] # NoReport => reports'[c][a] = reports[c][a]
                    /\ pc # "idle" /\ staging[c][a] # None => staging'[c][a] = staging[c][a]
  BY DEF vars
<1> USE DEF InAttempt
<1>1. CASE UNCHANGED <<reports, staging>>
  BY <1>1
<1>2. CASE UNCHANGED staging /\ pc \in InAttempt /\ SlotIsFree /\ \E r : WriteReport(r)
  <2>1. c # cur \/ a # Attempt => reports'[c][a] = reports[c][a]
    BY <1>2, WriteReportEffect DEF IInv
  <2> QED
    BY <1>2, <2>1 DEF SlotIsFree
<1>3. CASE UNCHANGED reports /\ pc = "stage"
           /\ staging' = [staging EXCEPT ![cur][StagingSlot] = frame]
  <2>1. c # cur \/ a # Attempt => staging'[c][a] = staging[c][a]
    BY <1>3, StageEffect DEF IInv
  <2>2. staging[cur][Attempt] = None
    BY <1>3 DEF IInv, SlotsInv
  <2> QED
    BY <1>3, <2>1, <2>2
<1>4. CASE UNCHANGED reports /\ pc = "idle"
  BY <1>4
<1>5. CASE OperatorRun \/ ResumeRun \/ Tamper
  BY <1>5, <1>4 DEF OperatorRun, ResumeRun, StartRun, Tamper, store
<1>6. CASE RecoverReady \/ RejectReady \/ SkipChunk \/ BeginAttempt \/ FetchChunk
           \/ FetchRefused \/ ReuseStaging \/ ReuseRefused
  BY <1>6, <1>1 DEF RecoverReady, RejectReady, SkipChunk, BeginAttempt, FetchChunk,
                    FetchRefused, ReuseStaging, ReuseRefused, store
<1>7. CASE StageFrame \/ StageFrameRaises
  BY <1>7, <1>3 DEF StageFrame, StageFrameRaises
<1>8. CASE ApplyUnchanged \/ ApplyContradiction \/ ApplyWrite \/ ApplyWriteRaises
           \/ WriteCheckpoint \/ WriteCheckpointRaises \/ AttemptRaises
  BY <1>8, <1>1 DEF ApplyUnchanged, ApplyContradiction, ApplyWrite, ApplyWriteRaises,
                    WriteCheckpoint, WriteCheckpointRaises, AttemptRaises, store
<1>9. CASE WriteReady \/ WriteReadyRaises
  BY <1>9, <1>2 DEF WriteReady, WriteReadyRaises
<1>10. CASE WriteFailureReport
  BY <1>10, <1>1, <1>2 DEF WriteFailureReport
<1>11. CASE FailureReportRaises \/ WriteFailureCheckpoint \/ WriteSummary \/ Crash
            \/ UNCHANGED vars
  BY <1>11, <1>1 DEF FailureReportRaises, WriteFailureCheckpoint, WriteSummary, Crash, store,
                     vars
<1> QED
  BY <1>5, <1>6, <1>7, <1>8, <1>9, <1>10, <1>11 DEF Next, Process, Faults

(* Reports and staging objects are immutable once written.                   *)
THEOREM Immutable == Spec => EvidenceIsImmutable
  BY Inductive, EvidenceStep, PTL DEF Spec, EvidenceIsImmutable

(* The only step of the executor that touches a canonical partition.         *)
LEMMA OnlyApplyWrites ==
    ASSUME [Next]_vars, pc # "idle"
    PROVE  \/ UNCHANGED canonical
           \/ /\ pc = "apply" /\ date \in Dates
              /\ canonical' = [canonical EXCEPT ![cur][date] = frame]
              /\ UNCHANGED <<manifest, staging>>
<1>1. CASE OperatorRun \/ ResumeRun \/ Tamper
  BY <1>1 DEF OperatorRun, ResumeRun, StartRun, Tamper
<1>2. CASE RecoverReady \/ RejectReady \/ SkipChunk \/ BeginAttempt \/ FetchChunk
           \/ FetchRefused \/ ReuseStaging \/ ReuseRefused
  BY <1>2 DEF RecoverReady, RejectReady, SkipChunk, BeginAttempt, FetchChunk, FetchRefused,
              ReuseStaging, ReuseRefused, store
<1>3. CASE StageFrame \/ StageFrameRaises \/ ApplyUnchanged \/ ApplyContradiction
           \/ WriteCheckpoint \/ WriteCheckpointRaises \/ AttemptRaises
  BY <1>3 DEF StageFrame, StageFrameRaises, ApplyUnchanged, ApplyContradiction,
              WriteCheckpoint, WriteCheckpointRaises, AttemptRaises, store
<1>4. CASE ApplyWrite \/ ApplyWriteRaises
  BY <1>4 DEF ApplyWrite, ApplyWriteRaises
<1>5. CASE WriteReady \/ WriteReadyRaises \/ WriteFailureReport \/ FailureReportRaises
           \/ WriteFailureCheckpoint \/ WriteSummary \/ Crash \/ UNCHANGED vars
  BY <1>5 DEF WriteReady, WriteReadyRaises, WriteFailureReport, FailureReportRaises,
              WriteFailureCheckpoint, WriteSummary, Crash, store, vars
<1> QED
  BY <1>1, <1>2, <1>3, <1>4, <1>5 DEF Next, Process, Faults

(* The executor writes a canonical partition only under a durable RUNNING    *)
(* checkpoint that has the apply stage, and only what that chunk staged.     *)
LEMMA WriteAheadStep ==
    IInv /\ [Next]_vars =>
       [pc # "idle" =>
          \A c \in Chunks :
            canonical'[c] # canonical[c] =>
              /\ manifest[c].state = "RUNNING"
              /\ "apply" \in manifest[c].stages
              /\ \E a \in 1..manifest[c].attempt : \A d \in Dates :
                    canonical'[c][d] \in {canonical[c][d], staging[c][a]}]_vars
<1> SUFFICES ASSUME IInv, [Next]_vars, pc # "idle", NEW c \in Chunks,
                    canonical'[c] # canonical[c]
             PROVE  /\ manifest[c].state = "RUNNING"
                    /\ "apply" \in manifest[c].stages
                    /\ \E a \in 1..manifest[c].attempt : \A d \in Dates :
                          canonical'[c][d] \in {canonical[c][d], staging[c][a]}
  BY DEF vars
<1>1. /\ pc = "apply" /\ date \in Dates
      /\ canonical' = [canonical EXCEPT ![cur][date] = frame]
  BY OnlyApplyWrites
<1>2. c = cur
  BY <1>1 DEF IInv, TypeInv, TypeOK
<1>3. manifest[c].state = "RUNNING" /\ "apply" \in manifest[c].stages
  BY <1>1, <1>2 DEF IInv, WorkInv, Applying
<1>4. ev.staged \in 1..manifest[c].attempt /\ staging[c][ev.staged] = frame
  BY <1>1, <1>2 DEF IInv, WorkInv, Carried, Attempt
<1>5. \A d \in Dates : canonical'[c][d] \in {canonical[c][d], frame}
  BY <1>1, <1>2, ApplyEffect DEF IInv
<1> QED
  BY <1>3, <1>4, <1>5

(* The write-ahead discipline, for every plan and every bound.               *)
THEOREM WrittenAhead == Spec => CanonicalIsWrittenAhead
  BY Inductive, WriteAheadStep, PTL DEF Spec, CanonicalIsWrittenAhead

LEMMA IdleKeepsStaging ==
    ASSUME [Next]_vars, pc = "idle", ~Tamper
    PROVE  UNCHANGED <<staging, canonical, tampers>>
<1>1. CASE OperatorRun \/ ResumeRun \/ UNCHANGED vars
  BY <1>1 DEF OperatorRun, ResumeRun, StartRun, store, vars
<1>2. ~(Process \/ Faults)
  BY DEF Process, Faults, RecoverReady, RejectReady, SkipChunk, BeginAttempt, FetchChunk,
         FetchRefused, ReuseStaging, ReuseRefused, StageFrame, StageFrameRaises,
         ApplyUnchanged, ApplyContradiction, ApplyWrite, ApplyWriteRaises, WriteCheckpoint,
         WriteCheckpointRaises, AttemptRaises, WriteReady, WriteReadyRaises,
         WriteFailureReport, FailureReportRaises, WriteFailureCheckpoint, WriteSummary, Crash
<1> QED
  BY <1>1, <1>2 DEF Next

LEMMA TampersCounted ==
    ASSUME [Next]_vars, pc # "idle" \/ ~Tamper
    PROVE  UNCHANGED tampers
<1>1. CASE pc = "idle"
  BY <1>1, IdleKeepsStaging
<1>2. CASE OperatorRun \/ ResumeRun \/ RecoverReady \/ RejectReady \/ SkipChunk
           \/ BeginAttempt \/ FetchChunk \/ FetchRefused \/ ReuseStaging \/ ReuseRefused
  BY <1>2 DEF OperatorRun, ResumeRun, StartRun, RecoverReady, RejectReady, SkipChunk,
              BeginAttempt, FetchChunk, FetchRefused, ReuseStaging, ReuseRefused, bounds
<1>3. CASE StageFrame \/ StageFrameRaises \/ ApplyUnchanged \/ ApplyContradiction
           \/ ApplyWrite \/ ApplyWriteRaises \/ WriteCheckpoint \/ WriteCheckpointRaises
           \/ AttemptRaises
  BY <1>3 DEF StageFrame, StageFrameRaises, ApplyUnchanged, ApplyContradiction, ApplyWrite,
              ApplyWriteRaises, WriteCheckpoint, WriteCheckpointRaises, AttemptRaises, bounds
<1>4. CASE WriteReady \/ WriteReadyRaises \/ WriteFailureReport \/ FailureReportRaises
           \/ WriteFailureCheckpoint \/ WriteSummary \/ Crash \/ UNCHANGED vars
  BY <1>4 DEF WriteReady, WriteReadyRaises, WriteFailureReport, FailureReportRaises,
              WriteFailureCheckpoint, WriteSummary, Crash, bounds, vars
<1>5. CASE Tamper
  BY <1>1, <1>5 DEF Tamper
<1> QED
  BY <1>1, <1>2, <1>3, <1>4, <1>5 DEF Next, Process, Faults

LEMMA EvidenceKept ==
    ASSUME IInv, [Next]_vars, pc # "idle", NEW c \in Chunks, NEW a \in Attempts,
           staging[c][a] # None
    PROVE  staging'[c][a] = staging[c][a]
  BY EvidenceStep DEF vars

LEMMA NextStaged == IInv /\ CanonicalIsStaged /\ [Next]_vars => CanonicalIsStaged'
<1> SUFFICES ASSUME IInv, CanonicalIsStaged, [Next]_vars, tampers' = 0,
                    NEW c \in Chunks, NEW d \in Dates, canonical'[c][d] # None
             PROVE  \E a \in Attempts : staging'[c][a] = canonical'[c][d]
  BY DEF CanonicalIsStaged
<1>1. tampers = 0 /\ ~Tamper
  <2>1. tampers \in Nat
    BY DEF IInv, TypeInv, TypeOK
  <2>2. ~Tamper => tampers' = tampers
    BY TampersCounted
  <2>3. Tamper => tampers' = tampers + 1
    BY DEF Tamper
  <2> QED
    BY <2>1, <2>2, <2>3
<1>2. \A a \in Attempts : staging[c][a] # None => staging'[c][a] = staging[c][a]
  BY <1>1, IdleKeepsStaging, EvidenceKept
<1>3. CASE canonical'[c][d] = canonical[c][d]
  BY <1>1, <1>2, <1>3 DEF CanonicalIsStaged
<1>4. CASE canonical'[c][d] # canonical[c][d]
  <2>1. /\ pc = "apply" /\ date \in Dates
        /\ canonical' = [canonical EXCEPT ![cur][date] = frame]
        /\ UNCHANGED <<manifest, staging>>
    BY <1>1, <1>4, IdleKeepsStaging, OnlyApplyWrites
  <2>2. c = cur /\ d = date /\ canonical'[c][d] = frame
    BY <1>4, <2>1, ApplyEffect DEF IInv
  <2>3. ev.staged \in Attempts /\ staging[cur][ev.staged] = frame
    BY <2>1, AttemptInRange DEF IInv, WorkInv, Carried, InAttempt, Attempts
  <2> QED
    BY <2>1, <2>2, <2>3
<1> QED
  BY <1>3, <1>4

(* Nothing is in a canonical partition that no staging object keeps.         *)
THEOREM Staged == Spec => []CanonicalIsStaged
<1>1. Init => CanonicalIsStaged
  BY DEF Init, CanonicalIsStaged
<1> QED
  BY <1>1, NextStaged, Inductive, PTL DEF Spec

-----------------------------------------------------------------------------
(* READY reports.  A report that announces a finished attempt keeps saying    *)
(* what the running process said when it wrote it: the stages of the durable  *)
(* RUNNING checkpoint, a staging attempt the run could have used and, until    *)
(* something else touches the chunk, the content of the store.               *)

Announced(c) ==
    /\ manifest[c].attempt # 0
    /\ reports[c][manifest[c].attempt].state = "READY_TO_CHECKPOINT"

AnnouncementIsSound(c) ==
    LET m == manifest[c]
        r == reports[c][m.attempt]
    IN  /\ r.stages = m.stages
        /\ r.target \in Settled
        /\ r.target = "STAGED" => "provider" \in r.stages
        /\ r.target = "COMPLETED" => "apply" \in r.stages
        /\ r.ev.staged \in 1..m.attempt
        /\ "provider" \notin r.stages => r.ev.staged < m.attempt
        /\ r.ev.sum # None

AnnouncementHolds(c) ==
    LET r == reports[c][manifest[c].attempt]
    IN  /\ staging[c][r.ev.staged] = r.ev.sum
        /\ r.target = "COMPLETED" => r.ev.canon = r.ev.sum /\ ScopeIsExact(c, r.ev.sum)

\* What the process knows of the attempt it is in.
GatesInv ==
    /\ pc \in InAttempt \cup {"chunk"} => gates.stages # {}
    /\ pc \in InAttempt => manifest[cur].stages = gates.stages
    /\ pc \in {"fetch", "stage"} => Fetching
    /\ pc \in InAttempt /\ ~Fetching => ev.staged < Attempt

AnnouncedInv ==
    /\ \A c \in Chunks : Announced(c) => AnnouncementIsSound(c)
    /\ \A c \in Chunks \ tampered : Announced(c) => AnnouncementHolds(c)

LEMMA InitGatesInv == Init => GatesInv
  BY DEF Init, GatesInv, InAttempt

LEMMA NextGatesInv == IInv /\ GatesInv /\ [Next]_vars => GatesInv'
<1> SUFFICES ASSUME IInv, GatesInv, [Next]_vars PROVE GatesInv'
  OBVIOUS
<1> USE DEF GatesInv, InAttempt, Fetching, Attempt
<1>t. TypeInv
  BY DEF IInv
<1>a. ASSUME pc' \notin InAttempt \cup {"chunk"}
      PROVE  GatesInv'
  BY <1>a
<1>b. ASSUME pc' = "chunk", gates' = gates, gates.stages # {}
      PROVE  GatesInv'
  BY <1>b
<1>c. ASSUME pc \in InAttempt, pc' \in InAttempt \ {"fetch", "stage"},
             UNCHANGED <<gates, cur>>, ev'.staged = ev.staged,
             manifest'[cur].stages = manifest[cur].stages,
             manifest'[cur].attempt = manifest[cur].attempt
      PROVE  GatesInv'
  BY <1>c
<1>1. CASE OperatorRun \/ ResumeRun
  BY <1>1 DEF OperatorRun, ResumeRun, StartRun
<1>2. CASE RecoverReady
  <2>1. CASE Advance
    BY <1>2, <2>1, <1>b, <1>a DEF Advance, RecoverReady
  <2>2. CASE UNCHANGED process
    BY <1>2, <2>2, <1>b DEF process, RecoverReady
  <2> QED
    BY <1>2, <2>1, <2>2 DEF RecoverReady
<1>3. CASE RejectReady \/ Crash \/ WriteSummary \/ Tamper
  BY <1>3, <1>a DEF RejectReady, Crash, WriteSummary, Tamper, Exit, process
<1>4. CASE SkipChunk
  BY <1>4, <1>a, <1>b DEF SkipChunk, Advance
<1>5. CASE BeginAttempt
  <2>1. /\ pc = "chunk" /\ UNCHANGED <<gates, cur>>
        /\ \/ pc' = "fetch" /\ MustFetch(cur)
           \/ pc' = "reuse" /\ ev' = manifest[cur].ev
        /\ ev' = NoEvidence \/ ev' = manifest[cur].ev
    BY <1>5 DEF BeginAttempt
  <2>2. /\ manifest[cur].ev.staged <= manifest[cur].attempt
        /\ manifest[cur].ev.staged \in Nat /\ manifest[cur].attempt \in Nat
    BY DEF IInv, WorkInv, TypeInv, TypeOK, Checkpoint, Evidence
  <2>3. ev'.staged < manifest[cur].attempt + 1
    BY <2>1, <2>2 DEF NoEvidence
  <2>4. manifest'[cur].attempt = manifest[cur].attempt + 1
        /\ manifest'[cur].stages = gates.stages
    BY <1>5, <1>t, BeginEffect
  <2>5. pc' = "fetch" => Fetching
    BY <2>1 DEF MustFetch
  <2> QED
    BY <2>1, <2>3, <2>4, <2>5
<1>6. CASE FetchChunk
  BY <1>6 DEF FetchChunk, store
<1>7. CASE StageFrame \/ StageFrameRaises
  BY <1>7 DEF StageFrame, StageFrameRaises, FailWith
<1>8. CASE FetchRefused \/ ReuseStaging \/ ReuseRefused \/ FailureReportRaises
           \/ ApplyUnchanged \/ ApplyWrite
  BY <1>8 DEF FetchRefused, ReuseStaging, ReuseRefused, FailureReportRaises, ApplyUnchanged,
              ApplyWrite, FailWith, store
<1>9. CASE ApplyContradiction \/ ApplyWriteRaises \/ AttemptRaises \/ WriteReady
           \/ WriteReadyRaises
  <2>1. /\ UNCHANGED <<manifest, gates, cur>> /\ pc \in InAttempt
        /\ pc' \in {"checkpoint", "failReport"}
        /\ ev' \in {ev, Unapplied(ev), FinalEvidence}
    BY <1>9 DEF ApplyContradiction, ApplyWriteRaises, AttemptRaises, WriteReady,
                WriteReadyRaises, FailWith, store
  <2>2. ev'.staged = ev.staged
    BY <2>1, <1>t DEF Unapplied, FinalEvidence, TypeInv, TypeOK, Evidence
  <2> QED
    BY <2>1, <2>2, <1>c
<1>10. CASE WriteFailureReport
  BY <1>10, <1>c DEF WriteFailureReport
<1>11. CASE WriteCheckpoint
  BY <1>11, <1>a, <1>b DEF WriteCheckpoint, Advance
<1>12. CASE WriteCheckpointRaises
  <2>1. /\ pc = "checkpoint" /\ pc' = "failReport"
        /\ UNCHANGED <<gates, cur, ev>>
        /\ Put(cur, Target, Attempt, gates.stages, ev)
    BY <1>12 DEF WriteCheckpointRaises, FailWith
  <2>2. manifest'[cur] = [state |-> Target, attempt |-> manifest[cur].attempt,
                          stages |-> gates.stages, ev |-> ev]
    BY <2>1, <1>t, PutEffect
  <2> QED
    BY <2>1, <2>2, <1>c
<1>13. CASE WriteFailureCheckpoint
  BY <1>13, <1>a, <1>b DEF WriteFailureCheckpoint, Advance, Exit
<1>14. CASE UNCHANGED vars
  BY <1>14 DEF vars
<1> HIDE DEF GatesInv
<1> QED
  BY <1>1, <1>2, <1>3, <1>4, <1>5, <1>6, <1>7, <1>8, <1>9, <1>10, <1>11, <1>12, <1>13,
     <1>14 DEF Next, Process, Faults

(* A step that leaves the attempt of a chunk and its report alone leaves what *)
(* the report says; if it leaves the objects alone too, it leaves it true.    *)
LEMMA AnnouncementKept ==
    ASSUME TypeInv, AnnouncedInv, NEW c \in Chunks, Announced(c)',
           manifest'[c].attempt = manifest[c].attempt,
           manifest'[c].stages = manifest[c].stages,
           \A a \in Attempts : reports'[c][a] = reports[c][a]
    PROVE  /\ Announced(c) /\ AnnouncementIsSound(c)'
           /\ (/\ c \notin tampered
               /\ \A a \in Attempts : staging'[c][a] = staging[c][a]
               /\ \A d \in Dates : canonical'[c][d] = canonical[c][d])
              => AnnouncementHolds(c)'
<1> DEFINE a == manifest[c].attempt
<1>1. a \in Attempts
  BY AttemptsInRange DEF Announced, Attempts
<1>2. reports'[c][a] = reports[c][a] /\ Announced(c) /\ AnnouncementIsSound(c)
  BY <1>1 DEF Announced, AnnouncedInv
<1>3. AnnouncementIsSound(c)'
  BY <1>2, SMTT(30) DEF AnnouncementIsSound
<1>4. reports[c][a].ev.staged \in Attempts
  BY <1>1, <1>2 DEF AnnouncementIsSound, Attempts
<1>5. ASSUME c \notin tampered,
             \A b \in Attempts : staging'[c][b] = staging[c][b],
             \A d \in Dates : canonical'[c][d] = canonical[c][d]
      PROVE  AnnouncementHolds(c)'
  <2>1. AnnouncementHolds(c)
    BY <1>2, <1>5 DEF AnnouncedInv
  <2> QED
    BY <1>2, <1>4, <1>5, <2>1 DEF AnnouncementHolds, ScopeIsExact
<1> QED
  BY <1>2, <1>3, <1>5

LEMMA InitAnnouncedInv == Init => AnnouncedInv
  BY DEF Init, AnnouncedInv, Announced, NoCheckpoint

LEMMA NextAnnouncedInv ==
    IInv /\ GatesInv /\ AnnouncedInv /\ [Next]_vars => AnnouncedInv'
<1> SUFFICES ASSUME IInv, GatesInv, AnnouncedInv, [Next]_vars,
                    NEW c \in Chunks, Announced(c)'
             PROVE  AnnouncementIsSound(c)' /\ (c \notin tampered' => AnnouncementHolds(c)')
  BY DEF AnnouncedInv
<1> USE DEF InAttempt
<1>t. TypeInv /\ SlotsInv /\ WorkInv
  BY DEF IInv
<1>a. ASSUME manifest'[c].attempt = manifest[c].attempt,
             manifest'[c].stages = manifest[c].stages,
             \A a \in Attempts : reports'[c][a] = reports[c][a],
             \A a \in Attempts : staging'[c][a] = staging[c][a],
             \A d \in Dates : canonical'[c][d] = canonical[c][d],
             c \in tampered => c \in tampered'
      PROVE  AnnouncementIsSound(c)' /\ (c \notin tampered' => AnnouncementHolds(c)')
  BY <1>a, <1>t, AnnouncementKept
<1>b. ASSUME UNCHANGED <<manifest, reports, staging, canonical, tampered>>
      PROVE  AnnouncementIsSound(c)' /\ (c \notin tampered' => AnnouncementHolds(c)')
  BY <1>a, <1>b
\* An attempt that has not reported announces nothing.
<1>c. ASSUME UNCHANGED <<manifest, reports>>, pc \in {"stage", "apply"}
      PROVE  c # cur
  <2>1. reports[cur][Attempt] = NoReport
    BY <1>c, <1>t DEF SlotsInv, SlotIsFree
  <2> QED
    BY <1>c, <2>1 DEF Announced, Attempt, NoReport
<1>1. CASE OperatorRun \/ ResumeRun \/ RejectReady \/ SkipChunk \/ FetchChunk
           \/ FetchRefused \/ ReuseStaging \/ ReuseRefused
  BY <1>1, <1>b DEF OperatorRun, ResumeRun, StartRun, RejectReady, SkipChunk, FetchChunk,
                    FetchRefused, ReuseStaging, ReuseRefused, store, bounds
<1>2. CASE ApplyUnchanged \/ ApplyContradiction \/ AttemptRaises \/ FailureReportRaises
           \/ WriteSummary \/ Crash \/ UNCHANGED vars
  BY <1>2, <1>b DEF ApplyUnchanged, ApplyContradiction, AttemptRaises, FailureReportRaises,
                    WriteSummary, Crash, store, bounds, vars
<1>3. CASE RecoverReady
  <2>1. UNCHANGED <<reports, staging, canonical, tampered>>
    BY <1>3 DEF RecoverReady, bounds
  <2>2. CASE c # cur
    BY <1>3, <1>a, <1>t, <2>1, <2>2, RecoverEffect
  <2>3. CASE c = cur
    <3>1. ReadyIsValid(cur)
      BY <1>3 DEF RecoverReady, CanRecover
    <3>2. manifest'[cur].stages = reports[cur][Attempt].stages
          /\ manifest'[cur].attempt = manifest[cur].attempt
      <4>1. manifest'[cur] = [state |-> reports[cur][Attempt].target, attempt |-> Attempt,
                              stages |-> reports[cur][Attempt].stages,
                              ev |-> reports[cur][Attempt].ev]
        BY <1>3, <1>t, RecoverEffect
      <4> QED
        BY <4>1 DEF Attempt
    <3>3. reports[cur][Attempt].stages = manifest[cur].stages
      BY <3>1 DEF ReadyIsValid, Attempt
    <3> QED
      BY <1>a, <2>1, <2>3, <3>2, <3>3
  <2> QED
    BY <2>2, <2>3
<1>4. CASE BeginAttempt
  <2>1. UNCHANGED <<reports, staging, canonical>> /\ tampered' = tampered \ {cur}
    BY <1>4 DEF BeginAttempt
  <2>2. c # cur
    <3>1. /\ manifest'[cur].attempt = manifest[cur].attempt + 1
          /\ manifest'[cur].attempt \in Attempts
      BY <1>4, <1>t, BeginEffect
    <3>2. reports[cur][manifest'[cur].attempt] = NoReport
      BY <1>t, <3>1, AttemptsInRange DEF SlotsInv, SlotsAheadAreFree
    <3> QED
      BY <2>1, <3>2 DEF Announced, NoReport
  <2>3. manifest'[c] = manifest[c]
    BY <1>4, <1>t, <2>2, BeginEffect
  <2> QED
    BY <1>a, <2>1, <2>2, <2>3
<1>5. CASE StageFrame \/ StageFrameRaises
  <2>1. /\ pc = "stage" /\ staging' = [staging EXCEPT ![cur][StagingSlot] = frame]
        /\ UNCHANGED <<manifest, reports, canonical, tampered>>
    BY <1>5 DEF StageFrame, StageFrameRaises, bounds
  <2>2. c # cur
    BY <1>c, <2>1
  <2>3. \A a \in Attempts : staging'[c][a] = staging[c][a]
    BY <1>t, <2>1, <2>2, StageEffect
  <2> QED
    BY <1>a, <2>1, <2>3
<1>6. CASE ApplyWrite \/ ApplyWriteRaises
  <2>1. /\ pc = "apply" /\ date \in Dates
        /\ canonical' = [canonical EXCEPT ![cur][date] = frame]
        /\ UNCHANGED <<manifest, reports, staging, tampered>>
    BY <1>6 DEF ApplyWrite, ApplyWriteRaises, bounds
  <2>2. c # cur
    BY <1>c, <2>1
  <2>3. \A d \in Dates : canonical'[c][d] = canonical[c][d]
    BY <1>t, <2>1, <2>2, ApplyEffect
  <2> QED
    BY <1>a, <2>1, <2>3
<1>7. CASE WriteReady \/ WriteReadyRaises
  <2>1. /\ pc = "apply" /\ date = NumDates + 1 /\ WriteReport(ReadyReport)
        /\ UNCHANGED <<manifest, staging, canonical, tampered>>
    BY <1>7 DEF WriteReady, WriteReadyRaises, bounds
  <2>2. /\ reports'[cur][Attempt] = ReadyReport
        /\ \A b \in Chunks, a \in Attempts :
              b # cur \/ a # Attempt => reports'[b][a] = reports[b][a]
    BY <1>t, <2>1, WriteReportEffect
  <2>3. CASE c # cur
    BY <1>a, <2>1, <2>2, <2>3
  <2>4. CASE c = cur
    <3>1. /\ Carried /\ gates.stages # {} /\ manifest[cur].stages = gates.stages
          /\ ~Fetching => ev.staged < Attempt
      BY <1>t, <2>1 DEF WorkInv, GatesInv
    <3>2. /\ FinalEvidence.staged = ev.staged /\ FinalEvidence.sum = ev.sum
          /\ Applying => FinalEvidence.canon = frame
      BY <1>t DEF FinalEvidence, TypeInv, TypeOK, Evidence
    <3>3. Applying => ScopeIsExact(cur, frame)
      BY <1>t, <2>1 DEF WorkInv, ScopeIsExact, Dates
    <3>4. /\ Target \in Settled
          /\ Target = "STAGED" => Fetching
          /\ Target = "COMPLETED" => Applying
      <4>1. gates.stages \in SUBSET {"provider", "apply"}
        BY <1>t DEF TypeInv, TypeOK, Stages
      <4>2. Fetching \/ Applying
        BY <3>1, <4>1 DEF Fetching, Applying
      <4> QED
        BY <4>2 DEF Target, Settled
    <3>5. reports'[c][manifest'[c].attempt] = ReadyReport
          /\ manifest'[c] = manifest[c] /\ manifest[c].attempt = Attempt
      BY <2>1, <2>2, <2>4 DEF Attempt
    <3>6. /\ ReadyReport.stages = gates.stages /\ ReadyReport.target = Target
          /\ ReadyReport.ev = FinalEvidence
      BY DEF ReadyReport
    <3>7. AnnouncementIsSound(c)'
      BY <2>4, <3>1, <3>2, <3>4, <3>5, <3>6 DEF AnnouncementIsSound, Carried, Fetching, Applying
    <3>8. AnnouncementHolds(c)'
      BY <2>1, <2>4, <3>1, <3>2, <3>3, <3>4, <3>5, <3>6
         DEF AnnouncementHolds, Carried, ScopeIsExact
    <3> QED
      BY <3>7, <3>8
  <2> QED
    BY <2>3, <2>4
<1>8. CASE WriteCheckpoint \/ WriteCheckpointRaises \/ WriteFailureCheckpoint
  <2>1. /\ pc \in InAttempt
        /\ \E state \in Settled \cup Failures : Put(cur, state, Attempt, gates.stages, ev)
        /\ UNCHANGED <<reports, staging, canonical, tampered>>
    BY <1>8, <1>t DEF WriteCheckpoint, WriteCheckpointRaises, WriteFailureCheckpoint,
                      Target, Settled, TypeInv, TypeOK, bounds
  <2>2. PICK state \in Settled \cup Failures : Put(cur, state, Attempt, gates.stages, ev)
    BY <2>1
  <2>3. /\ manifest'[cur] = [state |-> state, attempt |-> Attempt,
                             stages |-> gates.stages, ev |-> ev]
        /\ \A b \in Chunks : b # cur => manifest'[b] = manifest[b]
        /\ \A b \in Chunks : manifest'[b].attempt = manifest[b].attempt
    BY <1>t, <2>1, <2>2, PutEffect
  <2>4. manifest'[c].stages = manifest[c].stages
    <3>1. manifest'[cur].stages = gates.stages
      BY <2>3
    <3>2. manifest[cur].stages = gates.stages
      BY <2>1 DEF GatesInv
    <3> QED
      BY <2>3, <3>1, <3>2
  <2> QED
    BY <1>a, <2>1, <2>3, <2>4
<1>9. CASE WriteFailureReport
  <2>1. pc \in InAttempt /\ UNCHANGED <<manifest, staging, canonical, tampered>>
    BY <1>9 DEF WriteFailureReport, bounds
  <2>2. CASE UNCHANGED reports
    BY <1>b, <2>1, <2>2
  <2>3. CASE WriteReport(FailureReport)
    <3>1. /\ reports'[cur][Attempt] = FailureReport
          /\ \A b \in Chunks, a \in Attempts :
                b # cur \/ a # Attempt => reports'[b][a] = reports[b][a]
      BY <1>t, <2>1, <2>3, WriteReportEffect
    <3>2. FailureReport.state # "READY_TO_CHECKPOINT"
      BY <1>t DEF FailureReport, TypeInv, TypeOK, Failures
    <3>3. c # cur
      BY <2>1, <3>1, <3>2 DEF Announced, Attempt
    <3> QED
      BY <1>a, <2>1, <3>1, <3>3
  <2> QED
    BY <1>9, <2>2, <2>3 DEF WriteFailureReport
<1>10. CASE Tamper
  <2>1. UNCHANGED reports
    BY <1>10 DEF Tamper
  <2> QED
    BY <1>10, <1>t, <2>1, TamperEffect, AnnouncementKept
<1> QED
  BY <1>1, <1>2, <1>3, <1>4, <1>5, <1>6, <1>7, <1>8, <1>9, <1>10 DEF Next, Process, Faults

LEMMA Recoverable == Spec => [](IInv /\ GatesInv /\ AnnouncedInv)
  BY Inductive, InitGatesInv, NextGatesInv, InitAnnouncedInv, NextAnnouncedInv, PTL DEF Spec

(* A READY report left without its checkpoint passes every check a later      *)
(* resume makes of it, unless its attempt reused staging under a provider     *)
(* stage (or something else touched the chunk).                              *)
THEOREM ReadyRecoverable == Spec => []ReadyIsRecoverableUnlessRelabelled
<1>1. ASSUME TypeInv, AnnouncedInv, NEW c \in Chunks \ tampered, HasReady(c)
      PROVE  ReadyIsValid(c) <=> ~IsRelabelled(c)
  <2> DEFINE m == manifest[c]
             r == reports[c][m.attempt]
  <2>1. Announced(c)
    BY <1>1 DEF HasReady, Announced, TypeInv, Numbering
  <2>2. AnnouncementIsSound(c) /\ AnnouncementHolds(c)
    BY <1>1, <2>1 DEF AnnouncedInv
  <2>3. m.attempt \in Nat
    BY <1>1, AttemptsInRange
  <2>4. VerifiedStaging(c, r.ev) = r.ev.sum /\ r.ev.sum # None
    BY <2>2 DEF VerifiedStaging, AnnouncementIsSound, AnnouncementHolds
  <2>5. r.target = "COMPLETED" => EvidenceMatches(r.ev, r.ev.sum) /\ ScopeIsExact(c, r.ev.sum)
    BY <2>2 DEF AnnouncementHolds, EvidenceMatches
  <2>6. ("provider" \notin r.stages => r.ev.staged < m.attempt) /\ r.ev.staged \in 1..m.attempt
    BY <2>2 DEF AnnouncementIsSound
  <2>7. "provider" \notin r.stages => r.ev.staged \in 1..(m.attempt - 1)
    BY <2>3, <2>6
  <2>8. ReadyIsValid(c) <=> IF "provider" \in r.stages THEN r.ev.staged = m.attempt
                                                      ELSE r.ev.staged \in 1..(m.attempt - 1)
    BY <2>2, <2>4, <2>5 DEF ReadyIsValid, AnnouncementIsSound
  <2> QED
    BY <2>7, <2>8 DEF IsRelabelled
<1>2. TypeInv /\ AnnouncedInv => ReadyIsRecoverableUnlessRelabelled
  BY <1>1 DEF ReadyIsRecoverableUnlessRelabelled
<1> QED
  BY Recoverable, <1>2, PTL DEF IInv

-----------------------------------------------------------------------------
(* Only BeginAttempt gives a chunk a new attempt, and only two steps write a  *)
(* report: the READY report of a finished attempt, and a failure's.           *)
LEMMA AttemptsStep ==
    ASSUME IInv, [Next]_vars
    PROVE  \/ BeginAttempt
           \/ \A c \in Chunks : manifest'[c].attempt = manifest[c].attempt
<1>t. TypeInv
  BY DEF IInv
<1>1. CASE OperatorRun \/ ResumeRun \/ RejectReady \/ SkipChunk \/ FetchChunk
           \/ FetchRefused \/ ReuseStaging \/ ReuseRefused \/ Tamper
  BY <1>1 DEF OperatorRun, ResumeRun, StartRun, RejectReady, SkipChunk, FetchChunk,
              FetchRefused, ReuseStaging, ReuseRefused, Tamper, store
<1>2. CASE StageFrame \/ StageFrameRaises \/ ApplyUnchanged \/ ApplyContradiction
           \/ ApplyWrite \/ ApplyWriteRaises \/ AttemptRaises
  BY <1>2 DEF StageFrame, StageFrameRaises, ApplyUnchanged, ApplyContradiction, ApplyWrite,
              ApplyWriteRaises, AttemptRaises, store
<1>3. CASE WriteReady \/ WriteReadyRaises \/ WriteFailureReport \/ FailureReportRaises
           \/ WriteSummary \/ Crash \/ UNCHANGED vars
  BY <1>3 DEF WriteReady, WriteReadyRaises, WriteFailureReport, FailureReportRaises,
              WriteSummary, Crash, store, vars
<1>4. CASE RecoverReady
  BY <1>4, <1>t, RecoverEffect
<1>5. CASE WriteCheckpoint \/ WriteCheckpointRaises \/ WriteFailureCheckpoint
  <2>1. /\ pc \in InAttempt
        /\ \E state \in Settled \cup Failures : Put(cur, state, Attempt, gates.stages, ev)
    BY <1>5, <1>t DEF WriteCheckpoint, WriteCheckpointRaises, WriteFailureCheckpoint,
                      Target, Settled, TypeInv, TypeOK, InAttempt
  <2> QED
    BY <1>t, <2>1, PutEffect
<1> QED
  BY <1>1, <1>2, <1>3, <1>4, <1>5 DEF Next, Process, Faults

LEMMA ReportsStep ==
    ASSUME IInv, [Next]_vars
    PROVE  \/ UNCHANGED reports
           \/ /\ pc \in InAttempt /\ SlotIsFree /\ UNCHANGED manifest
              /\ WriteReport(ReadyReport) \/ WriteReport(FailureReport)
<1>1. CASE OperatorRun \/ ResumeRun \/ RecoverReady \/ RejectReady \/ SkipChunk
           \/ BeginAttempt \/ FetchChunk \/ FetchRefused \/ ReuseStaging \/ ReuseRefused
           \/ Tamper
  BY <1>1 DEF OperatorRun, ResumeRun, StartRun, RecoverReady, RejectReady, SkipChunk,
              BeginAttempt, FetchChunk, FetchRefused, ReuseStaging, ReuseRefused, Tamper, store
<1>2. CASE StageFrame \/ StageFrameRaises \/ ApplyUnchanged \/ ApplyContradiction
           \/ ApplyWrite \/ ApplyWriteRaises \/ AttemptRaises
  BY <1>2 DEF StageFrame, StageFrameRaises, ApplyUnchanged, ApplyContradiction, ApplyWrite,
              ApplyWriteRaises, AttemptRaises, store
<1>3. CASE WriteReady \/ WriteReadyRaises
  BY <1>3 DEF WriteReady, WriteReadyRaises, InAttempt
<1>4. CASE WriteFailureReport
  BY <1>4 DEF WriteFailureReport, InAttempt
<1>5. CASE WriteCheckpoint \/ WriteCheckpointRaises \/ WriteFailureCheckpoint
           \/ FailureReportRaises \/ WriteSummary \/ Crash \/ UNCHANGED vars
  BY <1>5 DEF WriteCheckpoint, WriteCheckpointRaises, WriteFailureCheckpoint,
              FailureReportRaises, WriteSummary, Crash, store, vars
<1> QED
  BY <1>1, <1>2, <1>3, <1>4, <1>5 DEF Next, Process, Faults

(* A resumed run that gives a chunk another attempt after a finished one does *)
(* so only to apply what that attempt staged.                                *)
LEMMA NotRedoneStep ==
    IInv /\ AnnouncedInv /\ [Next]_vars =>
       [\A c \in Chunks \ tampered :
          (/\ ~gates.rerun
           /\ manifest[c].attempt \in Attempts
           /\ manifest'[c].attempt # manifest[c].attempt)
          => LET r == reports[c][manifest[c].attempt]
             IN  r.state = "READY_TO_CHECKPOINT" =>
                    /\ r.target = "STAGED" /\ Applying
                    /\ manifest'[c].ev = r.ev]_vars
<1> SUFFICES ASSUME IInv, AnnouncedInv, [Next]_vars, NEW c \in Chunks \ tampered,
                    ~gates.rerun, manifest[c].attempt \in Attempts,
                    manifest'[c].attempt # manifest[c].attempt,
                    reports[c][manifest[c].attempt].state = "READY_TO_CHECKPOINT"
             PROVE  /\ reports[c][manifest[c].attempt].target = "STAGED" /\ Applying
                    /\ manifest'[c].ev = reports[c][manifest[c].attempt].ev
  BY DEF vars
<1> DEFINE m == manifest[c]
           r == reports[c][m.attempt]
<1>1. BeginAttempt /\ TypeInv
  BY AttemptsStep DEF IInv
<1>2. c = cur
  BY <1>1, BeginEffect
<1>3. ~HasReady(c) /\ ~IsDone(c)
  BY <1>1, <1>2 DEF BeginAttempt
<1>4. m.state \in Settled
  BY <1>1, <1>3 DEF HasReady, TypeInv, Numbering, Attempts
<1>5. r.target = m.state /\ r.ev = m.ev
  BY <1>4 DEF IInv, AuditInv, SettledIsReported
<1>6. AnnouncementIsSound(c) /\ AnnouncementHolds(c)
  BY DEF AnnouncedInv, Announced, Attempts
<1>7. VerifiedStaging(c, m.ev) = m.ev.sum /\ m.ev.sum # None
  BY <1>5, <1>6 DEF VerifiedStaging, AnnouncementIsSound, AnnouncementHolds
<1>8. m.state = "COMPLETED" =>
         EvidenceMatches(m.ev, m.ev.sum) /\ ScopeIsExact(c, m.ev.sum)
  BY <1>5, <1>6 DEF AnnouncementHolds, EvidenceMatches
<1>9. Applying /\ m.state = "STAGED"
  BY <1>3, <1>4, <1>7, <1>8 DEF IsDone, Settled
<1>10. ~MustFetch(c)
  BY <1>7, <1>9 DEF MustFetch
<1>11. manifest'[c].ev = m.ev
  BY <1>1, <1>2, <1>10, BeginEffect DEF BeginAttempt
<1> QED
  BY <1>5, <1>9, <1>11

(* Finished work is not repeated by a resumed run.                           *)
THEOREM NotRedone == Spec => FinishedWorkIsNotRedone
  BY Recoverable, NotRedoneStep, PTL DEF Spec, FinishedWorkIsNotRedone

-----------------------------------------------------------------------------
(* The refinement: the reports are the attempt ledger.  Beginning an attempt  *)
(* opens an entry, its report settles it, and every other step of the         *)
(* executor leaves the ledger alone.                                         *)

LEMMA LogRows ==
    /\ DOMAIN Log = Chunks
    /\ \A c \in Chunks :
          /\ DOMAIN Log[c] = 1..manifest[c].attempt
          /\ \A a \in 1..manifest[c].attempt : Log[c][a] = Outcome(c, a)
  BY DEF Log

LEMMA LogIsSeq ==
    ASSUME TypeInv, NEW c \in Chunks
    PROVE  Log[c] \in Seq({Outcome(c, a) : a \in Attempts}) /\ Len(Log[c]) = manifest[c].attempt
<1>1. manifest[c].attempt \in Nat /\ 1..manifest[c].attempt \subseteq Attempts
  BY AttemptsInRange DEF Attempts
<1>2. Log[c] \in [1..manifest[c].attempt -> {Outcome(c, a) : a \in Attempts}]
  BY <1>1 DEF Log
<1> QED
  BY <1>1, <1>2

LEMMA LedgerInit == Init => Ledger!Init
<1> SUFFICES ASSUME Init PROVE Log = [c \in Chunks |-> <<>>]
  BY DEF Ledger!Init
<1>1. \A c \in Chunks : manifest[c].attempt = 0
  BY DEF Init, NoCheckpoint
<1>2. \A c \in Chunks : [a \in 1..manifest[c].attempt |-> Outcome(c, a)] = <<>>
  BY <1>1
<1> QED
  BY <1>2 DEF Log

(* A step that leaves the attempts and the reports alone is no step at all.   *)
LEMMA LedgerStutters ==
    ASSUME UNCHANGED reports, \A c \in Chunks : manifest'[c].attempt = manifest[c].attempt
    PROVE  UNCHANGED Log
  BY DEF Log, Outcome

LEMMA LedgerBegins ==
    ASSUME IInv, BeginAttempt
    PROVE  Ledger!Begin(cur)
<1> DEFINE n == manifest[cur].attempt
<1>1. TypeInv /\ cur \in Chunks /\ n \in Nat /\ UNCHANGED reports
  BY AttemptsInRange DEF IInv, BeginAttempt
<1>2. manifest'[cur].attempt = n + 1 /\ n + 1 \in Attempts
      /\ \A c \in Chunks : c # cur => manifest'[c] = manifest[c]
  BY <1>1, BeginEffect
<1>3. Outcome(cur, n + 1) = "open"
  BY <1>1, <1>2 DEF IInv, SlotsInv, SlotsAheadAreFree, Outcome
<1>4. \A c \in Chunks, a \in Attempts : Outcome(c, a)' = Outcome(c, a)
  BY <1>1 DEF Outcome
<1>5. Len(Log[cur]) = n
  BY <1>1, LogIsSeq
<1>6. Log'[cur] = Append(Log[cur], "open")
  <2>1. Log'[cur] = [a \in 1..(n + 1) |-> Outcome(cur, a)]
    BY <1>1, <1>2 DEF Log, Outcome
  <2>2. Log[cur] = [a \in 1..n |-> Outcome(cur, a)]
    BY <1>1 DEF Log
  <2> QED
    BY <1>1, <1>3, <2>1, <2>2
<1>7. \A c \in Chunks : c # cur => Log'[c] = Log[c]
  BY <1>1, <1>2 DEF Log, Outcome
<1>8. DOMAIN Log = Chunks /\ DOMAIN Log' = Chunks
      /\ Log = [c \in Chunks |-> Log[c]] /\ Log' = [c \in Chunks |-> Log'[c]]
  BY DEF Log
<1> QED
  BY <1>1, <1>6, <1>7, <1>8 DEF Ledger!Begin

LEMMA LedgerSettles ==
    ASSUME IInv, NEW r \in Report, r.state # "ABSENT",
           r.state = "READY_TO_CHECKPOINT" => r.target \in Settled,
           pc \in InAttempt, SlotIsFree, UNCHANGED manifest, WriteReport(r),
           NEW i \in Chunks, i = cur, NEW n \in Attempts, n = Attempt
    PROVE  Ledger!Settle(i)
<1> DEFINE o == IF r.state = "READY_TO_CHECKPOINT" THEN r.target ELSE r.state
<1>1. TypeInv /\ n = manifest[i].attempt /\ n \in Nat \ {0}
  BY DEF IInv, Attempt, Attempts
<1>2. /\ reports'[i][n] = r
      /\ \A c \in Chunks, a \in Attempts :
            c # i \/ a # n => reports'[c][a] = reports[c][a]
  BY <1>1, WriteReportEffect
<1>3. Outcome(i, n) = "open"
  BY DEF SlotIsFree, Outcome
<1>4. o \in Ledger!Outcomes
  BY DEF Report, Failures, Settled, Ledger!Outcomes
<1>5. Outcome(i, n)' = o
  BY <1>2 DEF Outcome, NoReport
<1>6. \A c \in Chunks, a \in Attempts : c # i \/ a # n => Outcome(c, a)' = Outcome(c, a)
  BY <1>2 DEF Outcome
<1>7. Log[i] = [a \in 1..n |-> Outcome(i, a)] /\ Len(Log[i]) = n
  BY <1>1, LogIsSeq DEF Log
<1>8. Log'[i] = [a \in 1..n |-> Outcome(i, a)']
  BY <1>1 DEF Log, Outcome
<1> HIDE DEF o
<1>9. Log'[i] = [Log[i] EXCEPT ![n] = o]
  <2>1. \A a \in 1..n : a \in Attempts
    BY <1>1 DEF Attempts
  <2>2. DOMAIN Log[i] = 1..n /\ \A a \in 1..n : Log[i][a] = Outcome(i, a)
    BY <1>7
  <2>3. \A a \in 1..n : Outcome(i, a)' = IF a = n THEN o ELSE Log[i][a]
    BY <1>5, <1>6, <2>1, <2>2
  <2>4. Log'[i] = [a \in 1..n |-> IF a = n THEN o ELSE Log[i][a]]
    BY <1>8, <2>3, Zenon
  <2>5. [Log[i] EXCEPT ![n] = o] = [a \in 1..n |-> IF a = n THEN o ELSE Log[i][a]]
    BY <2>2
  <2> QED
    BY <2>4, <2>5
<1>10. \A c \in Chunks : c # i => Log'[c] = Log[c]
  <2> SUFFICES ASSUME NEW c \in Chunks, c # i PROVE Log'[c] = Log[c]
    OBVIOUS
  <2>1. \A a \in 1..manifest[c].attempt : a \in Attempts
    BY <1>1, AttemptsInRange DEF Attempts
  <2>2. \A a \in 1..manifest[c].attempt : Outcome(c, a)' = Outcome(c, a)
    BY <1>6, <2>1
  <2>3. Log'[c] = [a \in 1..manifest[c].attempt |-> Outcome(c, a)']
        /\ Log[c] = [a \in 1..manifest[c].attempt |-> Outcome(c, a)]
    BY DEF Log, Outcome
  <2> QED
    BY <2>2, <2>3
<1>11. Log = [c \in Chunks |-> Log[c]] /\ Log' = [c \in Chunks |-> Log'[c]]
  BY DEF Log
<1>12. Log' = [Log EXCEPT ![i][Len(Log[i])] = o]
  BY <1>7, <1>9, <1>10, <1>11
<1>13. Log[i] # <<>> /\ Log[i][Len(Log[i])] = "open"
  <2>1. n \in 1..n
    BY <1>1
  <2>2. Log[i][n] = "open"
    BY <1>3, <1>7, <2>1
  <2> QED
    BY <1>1, <1>7, <2>2
<1> QED
  BY <1>4, <1>12, <1>13 DEF Ledger!Settle

LEMMA LedgerNext == IInv /\ [Next]_vars => [Ledger!Next]_Log
<1> SUFFICES ASSUME IInv, [Next]_vars PROVE Ledger!Next \/ UNCHANGED Log
  OBVIOUS
<1>t. TypeInv /\ cur \in Chunks /\ (pc \in InAttempt => Attempt \in Attempts)
  BY AttemptInRange DEF IInv, TypeInv, TypeOK
<1>1. CASE BeginAttempt
  BY <1>1, <1>t, LedgerBegins DEF Ledger!Next
<1>2. CASE UNCHANGED reports /\ ~BeginAttempt
  BY <1>2, AttemptsStep, LedgerStutters
<1>3. CASE /\ pc \in InAttempt /\ SlotIsFree /\ UNCHANGED manifest
           /\ WriteReport(ReadyReport)
  <2>1. /\ ReadyReport \in Report /\ ReadyReport.state = "READY_TO_CHECKPOINT"
        /\ ReadyReport.target \in Settled
    <3>1. FinalEvidence \in Evidence /\ Target \in Settled
      BY <1>t, RecordedEvidenceType DEF FinalEvidence, Target, Settled, Maybe, TypeInv, TypeOK
    <3> QED
      BY <1>t, <3>1 DEF ReadyReport, Report, TypeInv, TypeOK
  <2> QED
    BY <1>3, <1>t, <2>1, LedgerSettles DEF Ledger!Next
<1>4. CASE /\ pc \in InAttempt /\ SlotIsFree /\ UNCHANGED manifest
           /\ WriteReport(FailureReport)
  <2>1. /\ FailureReport \in Report /\ FailureReport.state \in Failures
    BY <1>t DEF FailureReport, Report, TypeInv, TypeOK
  <2> QED
    BY <1>4, <1>t, <2>1, LedgerSettles DEF Ledger!Next, Failures
<1> QED
  BY <1>1, <1>2, <1>3, <1>4, ReportsStep

(* The executor implements the ledger of attempts.                           *)
THEOREM LedgerImplemented == Spec => ImplementsLedger
  BY Inductive, LedgerInit, LedgerNext, PTL DEF Spec, ImplementsLedger, Ledger!Spec
===============================================================================
