---------------------------- MODULE HistoryBackfill ----------------------------
(***************************************************************************)
(* The resumable executor of Goal 21: execute_history_backfill and         *)
(* _recover_ready_checkpoint in data/historical_backfill_executor.py, for  *)
(* chunks that carry no financial state from one to the next.              *)
(*                                                                         *)
(* A process walks the chunks of one frozen plan.  Everything it knows of  *)
(* earlier processes is in the object store: one mutable checkpoint        *)
(* (manifest) per chunk, one immutable report and one staging object per   *)
(* attempt, and the canonical partitions.  It may crash, be interrupted    *)
(* (Ctrl-C), or see any call raise, with or without its effect, at every   *)
(* step; the next process resumes from the store alone.                    *)
(*                                                                         *)
(* Abstractions: a DataFrame is a member of Frames and its checksum is     *)
(* itself; canonical[c][d] is the part of the partition of date d that     *)
(* lies in the scope of chunk c (CanonicalPartition models the rows around *)
(* it), None when it has no rows there.  --force and --no-resume differ in *)
(* nothing the executor reads, so one flag, rerun, stands for either.      *)
(***************************************************************************)
EXTENDS Naturals, Sequences

CONSTANTS
    NumChunks,    \* chunks of the plan, visited in the order 1..NumChunks
    NumDates,     \* canonical partitions every chunk projects to
    Frames,       \* what a provider may answer for a chunk
    EmptyFrame,   \* the proven empty answer (VALID_EMPTY), in Frames or not
    None,         \* an absent frame: no object, no rows, a null field
    MaxAttempts,  \* bound: attempts of one chunk
    MaxRuns,      \* bound: processes started with arbitrary options
    MaxFaults,    \* bound: raised calls, failed fetches, interrupts, crashes
    MaxTampers    \* bound: objects changed or lost behind the executor's back

ASSUME BoundsAssumption ==
    /\ NumChunks \in Nat \ {0}
    /\ NumDates \in Nat
    /\ MaxAttempts \in Nat \ {0}
    /\ MaxRuns \in Nat
    /\ MaxFaults \in Nat
    /\ MaxTampers \in Nat


Chunks   == 1..NumChunks
Dates    == 1..NumDates
Attempts == 1..MaxAttempts

Maybe(S) == S \cup {None}

Settled == {"STAGED", "COMPLETED"}
Failures == {"FAILED", "BLOCKED", "INTERRUPTED"}

\* The evidence fields a manifest and a report share (_MANIFEST_EVIDENCE_FIELDS):
\* which attempt wrote the staging object, its checksum, and the frame whose
\* projection every canonical partition was read back equal to.
Evidence == [staged : 0..MaxAttempts, sum : Maybe(Frames), canon : Maybe(Frames)]
NoEvidence == [staged |-> 0, sum |-> None, canon |-> None]

Stages == SUBSET {"provider", "apply"}

\* A chunk without a manifest is PENDING at attempt 0, as in the summary.
Checkpoint == [state : Settled \cup Failures \cup {"PENDING", "RUNNING"},
               attempt : 0..MaxAttempts, stages : Stages, ev : Evidence]
NoCheckpoint == [state |-> "PENDING", attempt |-> 0, stages |-> {}, ev |-> NoEvidence]

Report == [state : Failures \cup {"READY_TO_CHECKPOINT", "ABSENT"},
           target : Settled \cup {"NULL"}, stages : Stages, ev : Evidence]
NoReport == [state |-> "ABSENT", target |-> "NULL", stages |-> {}, ev |-> NoEvidence]

ASSUME NoneAssumption == None \notin Frames /\ None # EmptyFrame

VARIABLES
    \* The object store.
    manifest,     \* [Chunks -> Checkpoint]
    reports,      \* [Chunks -> [Attempts -> Report]]
    staging,      \* [Chunks -> [Attempts -> Maybe(Frames)]]
    canonical,    \* [Chunks -> [Dates -> Maybe(Frames)]]
    root,         \* canonical_ready of the root manifest, once there is one
    \* The process.
    pc,           \* what it does next
    gates,        \* its command line: [stages, rerun]
    cur,          \* the chunk it is at
    frame,        \* staging_frame
    ev,           \* evidence
    date,         \* the next canonical partition to apply
    failure,      \* the state the attempt fails with
    \* Bounds, and the chunks tampered with since their last RUNNING checkpoint.
    runs, faults, tampers, tampered

store == <<manifest, reports, staging, canonical, root>>
process == <<pc, gates, cur, frame, ev, date, failure>>
bounds == <<runs, tampers, tampered>>
vars == <<manifest, reports, staging, canonical, root,
          pc, gates, cur, frame, ev, date, failure,
          runs, faults, tampers, tampered>>

Init ==
    /\ manifest = [c \in Chunks |-> NoCheckpoint]
    /\ reports = [c \in Chunks |-> [a \in Attempts |-> NoReport]]
    /\ staging = [c \in Chunks |-> [a \in Attempts |-> None]]
    /\ canonical = [c \in Chunks |-> [d \in Dates |-> None]]
    /\ root = "ABSENT"
    /\ pc = "idle"
    /\ gates = [stages |-> {}, rerun |-> FALSE]
    /\ cur = 1 /\ date = 1
    /\ frame = None /\ ev = NoEvidence /\ failure = "FAILED"
    /\ runs = 0 /\ faults = 0 /\ tampers = 0 /\ tampered = {}

-----------------------------------------------------------------------------
(* What the executor reads. *)

Applying == "apply" \in gates.stages
Fetching == "provider" \in gates.stages
Target == IF Applying THEN "COMPLETED" ELSE "STAGED"

\* _canonical_scope_frame of a projected frame: an empty one leaves no row.
Slice(f) == IF f = EmptyFrame THEN None ELSE f

\* _read_verified_staging: the staging object, when its checksum still matches.
VerifiedStaging(c, e) ==
    IF e.staged # 0 /\ e.sum # None /\ staging[c][e.staged] = e.sum
    THEN e.sum ELSE None

\* _canonical_scope_is_exact
ScopeIsExact(c, f) == \A d \in Dates : canonical[c][d] = Slice(f)

\* _canonical_evidence_matches_staging
EvidenceMatches(e, f) == e.canon = f

\* _read_staging_provenance: the immutable report of the attempt that staged
\* the frame exists, had the provider stage and agrees with the manifest.
Provenance(c, e) ==
    LET r == reports[c][e.staged]
    IN  /\ r.state # "ABSENT"
        /\ "provider" \in r.stages
        /\ r.ev.staged = e.staged
        /\ r.ev.sum = e.sum

\* Mutant: only a RUNNING checkpoint is looked into.
MutantHasReady(c) ==
    /\ manifest[c].state = "RUNNING"
    /\ reports[c][manifest[c].attempt].state = "READY_TO_CHECKPOINT"

\* A READY report left behind by a process that died before its checkpoint.
HasReady(c) ==
    /\ manifest[c].state \notin Settled \cup {"PENDING"}
    /\ reports[c][manifest[c].attempt].state = "READY_TO_CHECKPOINT"

\* The checks _recover_ready_checkpoint makes before it trusts that report.
ReadyIsValid(c) ==
    LET m == manifest[c]
        r == reports[c][m.attempt]
        f == VerifiedStaging(c, r.ev)
    IN  /\ r.stages = m.stages
        /\ r.target \in Settled
        /\ r.target = "STAGED" => "provider" \in r.stages
        /\ r.target = "COMPLETED" => "apply" \in r.stages
        /\ IF "provider" \in r.stages THEN r.ev.staged = m.attempt
                                      ELSE r.ev.staged \in 1..(m.attempt - 1)
        /\ f # None
        /\ r.target = "COMPLETED" => EvidenceMatches(r.ev, f) /\ ScopeIsExact(c, f)

\* Only a run that applies can read the canonical partitions a COMPLETED target
\* has to be checked against.
CanRecover(c) ==
    /\ ReadyIsValid(c)
    /\ reports[c][manifest[c].attempt].target = "COMPLETED" => Applying

\* Mutant: a staged chunk counts as done even for a run that applies.
MutantIsDone(c) == VerifiedStaging(c, manifest[c].ev) # None /\ manifest[c].state \in Settled

\* The chunk is already where this run would bring it (resume only).
IsDone(c) ==
    LET m == manifest[c]
        f == VerifiedStaging(c, m.ev)
    IN  /\ f # None
        /\ \/ m.state \in Settled /\ ~Applying
           \/ m.state = "COMPLETED" /\ EvidenceMatches(m.ev, f) /\ ScopeIsExact(c, f)

\* do_fetch: a resumed run fetches again only what it has no verified staging
\* for, or what failed.
MustFetch(c) ==
    LET m == manifest[c]
    IN  /\ Fetching
        /\ \/ gates.rerun
           \/ m.state \in {"FAILED", "BLOCKED"}
           \/ VerifiedStaging(c, m.ev) = None

-----------------------------------------------------------------------------
(* Moves of the process that every action is built from. *)

Forget == /\ gates' = [stages |-> {}, rerun |-> FALSE]
          /\ cur' = 1 /\ date' = 1
          /\ frame' = None /\ ev' = NoEvidence /\ failure' = "FAILED"

\* The process ends; its memory is gone.
Exit == pc' = "idle" /\ Forget

\* Mutant: the last chunk is not recognised.
MutantAdvance ==
    /\ pc' = "chunk" /\ cur' = cur + 1
    /\ date' = 1 /\ frame' = None /\ ev' = NoEvidence /\ failure' = "FAILED"
    /\ UNCHANGED gates

\* Mutant: the walk starts over instead of ending.
MutantWalk ==
    /\ pc' = "chunk" /\ cur' = (cur % NumChunks) + 1
    /\ date' = 1 /\ frame' = None /\ ev' = NoEvidence /\ failure' = "FAILED"
    /\ UNCHANGED gates

\* On to the next planned chunk, or to the summary.
Advance ==
    /\ IF cur = NumChunks THEN pc' = "summary" /\ cur' = cur
                          ELSE pc' = "chunk" /\ cur' = cur + 1
    /\ date' = 1 /\ frame' = None /\ ev' = NoEvidence /\ failure' = "FAILED"
    /\ UNCHANGED gates

\* An exception inside the try block: a report, then a manifest in state k.
FailWith(k, e) ==
    /\ pc' = "failReport"
    /\ failure' = k
    /\ ev' = e
    /\ UNCHANGED <<gates, cur, frame, date>>

Fault == faults < MaxFaults /\ faults' = faults + 1

\* The checkpoint of chunk c at attempt a of this run.
Put(c, state, a, stages, e) ==
    manifest' = [manifest EXCEPT ![c] =
                    [state |-> state, attempt |-> a, stages |-> stages, ev |-> e]]

Attempt == manifest[cur].attempt

-----------------------------------------------------------------------------
(* A process starts, and walks the chunks. *)

\* Without --provider-call or --apply no chunk is touched: only the summary.
StartRun(g) ==
    /\ pc = "idle"
    /\ \A c \in Chunks : manifest[c].attempt < MaxAttempts
    /\ gates' = g
    /\ pc' = IF g.stages = {} THEN "summary" ELSE "chunk"
    /\ cur' = 1 /\ date' = 1
    /\ UNCHANGED <<store, frame, ev, failure, faults, tampers, tampered>>

OperatorRun ==
    /\ runs < MaxRuns
    /\ runs' = runs + 1
    /\ \E s \in Stages, r \in BOOLEAN : StartRun([stages |-> s, rerun |-> r])

\* The recovery documented for every failure: the same plan, --resume, both gates.
ResumeRun ==
    /\ StartRun([stages |-> {"provider", "apply"}, rerun |-> FALSE])
    /\ UNCHANGED runs

\* A READY report whose checkpoint was never written is redone as that
\* checkpoint.  A chunk recovered as STAGED is then looked at again.
RecoverReady ==
    /\ pc = "chunk" /\ ~gates.rerun
    /\ HasReady(cur) /\ CanRecover(cur)
    /\ LET r == reports[cur][Attempt]
       IN  /\ Put(cur, r.target, Attempt, r.stages, r.ev)
           /\ IF r.target = "COMPLETED" THEN Advance
                                     ELSE UNCHANGED process
    /\ UNCHANGED <<reports, staging, canonical, root, bounds, faults>>

\* INVALID_READY_REPORT: a BackfillPlanningError no handler catches.
RejectReady ==
    /\ pc = "chunk" /\ ~gates.rerun
    /\ HasReady(cur) /\ ~CanRecover(cur)
    /\ Exit
    /\ UNCHANGED <<store, bounds, faults>>

SkipChunk ==
    /\ pc = "chunk" /\ ~gates.rerun
    /\ ~HasReady(cur) /\ IsDone(cur)
    /\ Advance
    /\ UNCHANGED <<store, bounds, faults>>

\* A new attempt: its RUNNING checkpoint is durable before anything else is.
\* A fetch starts from no evidence; reuse carries the evidence of the staging.
BeginAttempt ==
    /\ pc = "chunk"
    /\ gates.rerun \/ (~HasReady(cur) /\ ~IsDone(cur))
    /\ LET m == manifest[cur]
           e == IF MustFetch(cur) THEN NoEvidence ELSE m.ev
       IN  /\ Put(cur, "RUNNING", m.attempt + 1, gates.stages, e)
           /\ ev' = e
           /\ pc' = IF MustFetch(cur) THEN "fetch" ELSE "reuse"
    /\ tampered' = tampered \ {cur}
    /\ UNCHANGED <<reports, staging, canonical, root, gates, cur, frame, date,
                   failure, runs, faults, tampers>>

-----------------------------------------------------------------------------
(* Inside the try block of one attempt. *)

MutantSlotIsFree == TRUE    \* Mutant: a report overwrites whatever is there.
SlotIsFree == reports[cur][Attempt] = NoReport    \* _assert_immutable_report_slot

\* Mutant: the fetched frame is applied without being staged.
MutantFetchChunk ==
    /\ pc = "fetch" /\ SlotIsFree
    /\ \E f \in Frames : frame' = f
    /\ pc' = "apply"
    /\ UNCHANGED <<store, gates, cur, ev, date, failure, bounds, faults>>

FetchChunk ==
    /\ pc = "fetch" /\ SlotIsFree
    /\ \E f \in Frames : frame' = f
    /\ pc' = "stage"
    /\ UNCHANGED <<store, gates, cur, ev, date, failure, bounds, faults>>

\* The provider answers with a structured failure of its own.
FetchRefused ==
    /\ pc = "fetch" /\ SlotIsFree
    /\ Fault
    /\ failure' \in {"FAILED", "BLOCKED"}
    /\ pc' = "refusedReport"
    /\ UNCHANGED <<store, gates, cur, frame, ev, date, bounds>>

MutantStagingSlot == 1                \* Mutant: one staging object per chunk.
MutantNextSlot == Attempt + 1         \* Mutant: off by one.
StagingSlot == Attempt

StagedEvidence == [staged |-> StagingSlot, sum |-> frame, canon |-> None]

MutantFirstDate == IF Applying THEN 2 ELSE NumDates + 1    \* Mutant: off by one.
MutantUngatedDate == 1                \* Mutant: the apply gate is not asked.

\* A run that does not apply has no partition left.
FirstDate == IF Applying THEN 1 ELSE NumDates + 1

StageFrame ==
    /\ pc = "stage"
    /\ staging' = [staging EXCEPT ![cur][StagingSlot] = frame]
    /\ ev' = StagedEvidence
    /\ pc' = "apply" /\ date' = FirstDate
    /\ UNCHANGED <<manifest, reports, canonical, root, gates, cur, frame, failure,
                   bounds, faults>>

\* The write raised after it took effect, or (evidence kept) its read-back failed.
StageFrameRaises ==
    /\ pc = "stage"
    /\ Fault
    /\ staging' = [staging EXCEPT ![cur][StagingSlot] = frame]
    /\ \E k \in Failures, e \in {ev, StagedEvidence} : FailWith(k, e)
    /\ UNCHANGED <<manifest, reports, canonical, root, bounds>>

\* A rerun trusts the staging checksum alone, a resumed run also its provenance.
ReuseIsSound ==
    /\ VerifiedStaging(cur, ev) # None
    /\ gates.rerun \/ Provenance(cur, ev)

ReuseStaging ==
    /\ pc = "reuse" /\ SlotIsFree
    /\ ReuseIsSound
    /\ frame' = VerifiedStaging(cur, ev)
    /\ pc' = "apply" /\ date' = FirstDate
    /\ UNCHANGED <<store, gates, cur, ev, failure, bounds, faults>>

\* CONFIGURATION_ERROR or DQ_FAILED: neither is retryable.
ReuseRefused ==
    /\ pc = "reuse" /\ SlotIsFree
    /\ ~ReuseIsSound
    /\ FailWith("BLOCKED", ev)
    /\ UNCHANGED <<store, bounds, faults>>

Unapplied(e) == [e EXCEPT !.canon = None]

\* _apply_one_partition: an exact scope is rewritten only by a rerun.
NeedsWrite ==
    /\ Slice(frame) # None
    /\ gates.rerun \/ canonical[cur][date] # frame

ApplyUnchanged ==
    /\ pc = "apply" /\ date \in Dates
    /\ canonical[cur][date] = Slice(frame) /\ ~NeedsWrite
    /\ date' = date + 1
    /\ UNCHANGED <<store, pc, gates, cur, frame, ev, failure, bounds, faults>>

\* Rows already in a scope the provider proved empty: READBACK_FAILED.
ApplyContradiction ==
    /\ pc = "apply" /\ date \in Dates
    /\ Slice(frame) = None /\ canonical[cur][date] # None
    /\ FailWith("FAILED", Unapplied(ev))
    /\ UNCHANGED <<store, bounds, faults>>

ApplyWrite ==
    /\ pc = "apply" /\ date \in Dates
    /\ NeedsWrite
    /\ canonical' = [canonical EXCEPT ![cur][date] = frame]
    /\ date' = date + 1
    /\ UNCHANGED <<manifest, reports, staging, root, pc, gates, cur, frame, ev,
                   failure, bounds, faults>>

\* The write raised after it took effect, or its read-back failed.
ApplyWriteRaises ==
    /\ pc = "apply" /\ date \in Dates
    /\ NeedsWrite
    /\ Fault
    /\ canonical' = [canonical EXCEPT ![cur][date] = frame]
    /\ \E k \in Failures : FailWith(k, Unapplied(ev))
    /\ UNCHANGED <<manifest, reports, staging, root, bounds>>

MutantFinalEvidence == Unapplied(ev)  \* Mutant: what was applied is not recorded.
FinalEvidence == [ev EXCEPT !.canon = IF Applying THEN frame ELSE None]

ReadyReport ==
    [state |-> "READY_TO_CHECKPOINT", target |-> Target,
     stages |-> gates.stages, ev |-> FinalEvidence]

WriteReport(r) == reports' = [reports EXCEPT ![cur][Attempt] = r]

WriteReady ==
    /\ pc = "apply" /\ date = NumDates + 1
    /\ SlotIsFree
    /\ WriteReport(ReadyReport)
    /\ ev' = FinalEvidence
    /\ pc' = "checkpoint"
    /\ UNCHANGED <<manifest, staging, canonical, root, gates, cur, frame, date,
                   failure, bounds, faults>>

WriteReadyRaises ==
    /\ pc = "apply" /\ date = NumDates + 1
    /\ SlotIsFree
    /\ Fault
    /\ WriteReport(ReadyReport)
    /\ \E k \in Failures : FailWith(k, FinalEvidence)
    /\ UNCHANGED <<manifest, staging, canonical, root, bounds>>

WriteCheckpoint ==
    /\ pc = "checkpoint"
    /\ Put(cur, Target, Attempt, gates.stages, ev)
    /\ Advance
    /\ UNCHANGED <<reports, staging, canonical, root, bounds, faults>>

WriteCheckpointRaises ==
    /\ pc = "checkpoint"
    /\ Fault
    /\ Put(cur, Target, Attempt, gates.stages, ev)
    /\ \E k \in Failures : FailWith(k, ev)
    /\ UNCHANGED <<reports, staging, canonical, root, bounds>>

\* Any call in the try block raises without effect, or Ctrl-C arrives.
AttemptRaises ==
    /\ pc \in {"fetch", "stage", "reuse", "apply", "checkpoint"}
    /\ Fault
    /\ \E k \in Failures :
          FailWith(k, IF pc # "apply" THEN ev
                      ELSE IF date \in Dates THEN Unapplied(ev) ELSE FinalEvidence)
    /\ UNCHANGED <<store, bounds>>

-----------------------------------------------------------------------------
(* The except blocks, the summary, and what happens around the process. *)

FailureReport ==
    [state |-> failure, target |-> "NULL", stages |-> gates.stages, ev |-> ev]

\* A taken slot (READY was written) keeps its report; the collision is ignored.
WriteFailureReport ==
    /\ pc \in {"failReport", "refusedReport"}
    /\ IF SlotIsFree THEN WriteReport(FailureReport) ELSE UNCHANGED reports
    /\ pc' = "failManifest"
    /\ UNCHANGED <<manifest, staging, canonical, root, gates, cur, frame, ev, date,
                   failure, bounds, faults>>

\* So is a report that cannot be written, except for a refused fetch.
FailureReportRaises ==
    /\ pc = "failReport"
    /\ Fault
    /\ pc' = "failManifest"
    /\ UNCHANGED <<store, gates, cur, frame, ev, date, failure, bounds>>

\* The chunk's failure is its own, but an interrupt ends the process.
WriteFailureCheckpoint ==
    /\ pc = "failManifest"
    /\ Put(cur, failure, Attempt, gates.stages, ev)
    /\ IF failure = "INTERRUPTED" THEN Exit ELSE Advance
    /\ UNCHANGED <<reports, staging, canonical, root, bounds, faults>>

IsCompleted(c) == manifest[c].state = "COMPLETED"
AllCompleted == \A c \in Chunks : IsCompleted(c)

WriteSummary ==
    /\ pc = "summary"
    /\ root' = IF AllCompleted THEN "READY" ELSE "GAPS"
    /\ Exit
    /\ UNCHANGED <<manifest, reports, staging, canonical, bounds, faults>>

\* The process dies, or a call outside the try block raises and ends it.
Crash ==
    /\ pc # "idle"
    /\ Fault
    /\ Exit
    /\ UNCHANGED <<store, bounds>>

\* Between runs: a staging object lost or replaced, canonical rows of a chunk's
\* scope rewritten by a job with another run_id.
Tamper ==
    /\ pc = "idle"
    /\ tampers < MaxTampers /\ tampers' = tampers + 1
    /\ \E c \in Chunks :
          /\ tampered' = tampered \cup {c}
          /\ \/ /\ \E a \in Attempts, f \in Maybe(Frames) :
                      /\ staging[c][a] \notin {None, f}
                      /\ staging' = [staging EXCEPT ![c][a] = f]
                /\ UNCHANGED canonical
             \/ /\ \E d \in Dates, f \in Maybe(Frames \ {EmptyFrame}) :
                      /\ canonical[c][d] # f
                      /\ canonical' = [canonical EXCEPT ![c][d] = f]
                /\ UNCHANGED staging
    /\ UNCHANGED <<manifest, reports, root, process, runs, faults>>

\* What the code does by itself once it runs.
Process ==
    \/ RecoverReady \/ RejectReady \/ SkipChunk \/ BeginAttempt
    \/ FetchChunk \/ StageFrame \/ ReuseStaging \/ ReuseRefused
    \/ ApplyUnchanged \/ ApplyContradiction \/ ApplyWrite
    \/ WriteReady \/ WriteCheckpoint
    \/ WriteFailureReport \/ WriteFailureCheckpoint \/ WriteSummary

Faults ==
    \/ FetchRefused \/ StageFrameRaises \/ ApplyWriteRaises
    \/ WriteReadyRaises \/ WriteCheckpointRaises \/ AttemptRaises
    \/ FailureReportRaises \/ Crash

Next == OperatorRun \/ ResumeRun \/ Process \/ Faults \/ Tamper

Spec == Init /\ [][Next]_vars

\* The code runs when it can, and the operator repeats the documented resume.
FairSpec == Spec /\ WF_vars(Process) /\ WF_vars(ResumeRun)

-----------------------------------------------------------------------------
(* Properties. *)

TypeOK ==
    /\ manifest \in [Chunks -> Checkpoint]
    /\ reports \in [Chunks -> [Attempts -> Report]]
    /\ staging \in [Chunks -> [Attempts -> Maybe(Frames)]]
    /\ canonical \in [Chunks -> [Dates -> Maybe(Frames)]]
    /\ root \in {"ABSENT", "READY", "GAPS"}
    /\ pc \in {"idle", "chunk", "fetch", "stage", "reuse", "apply", "checkpoint",
               "failReport", "refusedReport", "failManifest", "summary"}
    /\ gates \in [stages : Stages, rerun : BOOLEAN]
    /\ cur \in Chunks
    /\ frame \in Maybe(Frames)
    /\ ev \in Evidence
    /\ date \in 1..(NumDates + 1)
    /\ failure \in Failures
    /\ runs \in 0..MaxRuns /\ faults \in 0..MaxFaults
    /\ tampers \in 0..MaxTampers /\ tampered \subseteq Chunks

\* Whatever crashed before, a COMPLETED checkpoint means the chunk's staging
\* object and every canonical partition hold exactly the frame it records,
\* unless something outside the executor changed them since.
CompletedIsMaterialised ==
    \A c \in Chunks \ tampered :
        IsCompleted(c) =>
            LET e == manifest[c].ev
            IN  /\ VerifiedStaging(c, e) # None
                /\ EvidenceMatches(e, e.sum)
                /\ ScopeIsExact(c, e.sum)

\* The audit trail: a settled checkpoint repeats the immutable READY report of
\* its own attempt, which was written first.
SettledIsReported ==
    \A c \in Chunks :
        manifest[c].state \in Settled =>
            LET m == manifest[c]
                r == reports[c][m.attempt]
            IN  /\ r.state = "READY_TO_CHECKPOINT"
                /\ r.target = m.state
                /\ r.stages = m.stages
                /\ r.ev = m.ev

\* What the documentation says of a READY report left without its checkpoint:
\* it is fit for recovery.  The executor does not keep this; see IsRelabelled.
ReadyIsRecoverable ==
    pc = "idle" => \A c \in Chunks \ tampered : HasReady(c) => ReadyIsValid(c)

\* An attempt that reused staging although its run had the provider stage: the
\* report claims a provider stage and an older staging attempt, which
\* _recover_ready_checkpoint takes for a forgery.
IsRelabelled(c) ==
    LET r == reports[c][manifest[c].attempt]
    IN  "provider" \in r.stages /\ r.ev.staged # manifest[c].attempt

\* Every other READY report left without its checkpoint is fit for recovery: the
\* executor's own failures never make a later resume reject it.
ReadyIsRecoverableUnlessRelabelled ==
    \A c \in Chunks \ tampered :
        HasReady(c) => (ReadyIsValid(c) <=> ~IsRelabelled(c))

\* No row reaches a canonical partition that is not kept in a staging object of
\* that chunk (for stores nobody else writes).
CanonicalIsStaged ==
    tampers = 0 =>
        \A c \in Chunks, d \in Dates :
            canonical[c][d] # None => \E a \in Attempts : staging[c][a] = canonical[c][d]

\* No new attempt finds its report or staging slot taken, so no evidence of an
\* earlier attempt is overwritten and no report collides with its own.
SlotsAheadAreFree ==
    \A c \in Chunks, a \in Attempts :
        a > manifest[c].attempt =>
            reports[c][a] = NoReport /\ staging[c][a] = None

\* Reports and staging objects are immutable: no step of the executor changes one.
EvidenceIsImmutable ==
    [][\A c \in Chunks, a \in Attempts :
          /\ reports[c][a] # NoReport => reports'[c][a] = reports[c][a]
          /\ pc # "idle" /\ staging[c][a] # None => staging'[c][a] = staging[c][a]]_vars

\* A resumed run never repeats an attempt that got as far as its READY report:
\* it begins another only to apply what that attempt staged.
FinishedWorkIsNotRedone ==
    [][\A c \in Chunks \ tampered :
          (/\ ~gates.rerun
           /\ manifest[c].attempt \in Attempts
           /\ manifest'[c].attempt # manifest[c].attempt)
          => LET r == reports[c][manifest[c].attempt]
             IN  r.state = "READY_TO_CHECKPOINT" =>
                    /\ r.target = "STAGED" /\ Applying
                    /\ manifest'[c].ev = r.ev]_vars

\* Canonical partitions change only under a durable RUNNING checkpoint with the
\* apply stage, and then only to the frame its staging holds.
CanonicalIsWrittenAhead ==
    [][pc # "idle" =>
        \A c \in Chunks :
          canonical'[c] # canonical[c] =>
            /\ manifest[c].state = "RUNNING"
            /\ "apply" \in manifest[c].stages
            /\ \E a \in 1..manifest[c].attempt : \A d \in Dates :
                  canonical'[c][d] \in {canonical[c][d], staging[c][a]}]_vars

\* In a resumed apply-only run, a chunk whose staging is missing or mismatched
\* blocks that chunk, and the run goes on to the next one.  A READY report over such staging ends the run instead.
LostStagingBlocksItsChunk ==
    [][(pc = "chunk" /\ pc' = "idle" /\ faults' = faults /\ gates.stages = {"apply"})
        => IsRelabelled(cur)]_vars

\* Every run ends.
RunsEnd == (pc # "idle") ~> (pc = "idle")

\* Once faults stop, repeating the resumed run completes every chunk for good,
\* unless a relabelled READY report was left behind: every later resume rejects it.
ConvergesOrIsWedged ==
    <>[]AllCompleted \/ <>[](\E c \in Chunks : HasReady(c) /\ IsRelabelled(c))

\* What the reports say of every attempt: the ledger the manifests are a cache of.
Outcome(c, a) ==
    LET r == reports[c][a]
    IN  IF r = NoReport THEN "open"
        ELSE IF r.state = "READY_TO_CHECKPOINT" THEN r.target ELSE r.state

Log == [c \in Chunks |->
          [a \in 1..manifest[c].attempt |-> Outcome(c, a)]]

Ledger == INSTANCE AttemptLedger WITH Items <- Chunks, log <- Log

\* The executor implements the ledger.
ImplementsLedger == Ledger!Spec
=============================================================================
