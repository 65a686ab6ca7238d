--------------------------- MODULE CleanInputs_proofs ---------------------------
(***************************************************************************)
(* Proofs, for every set of codes, dates, datasets and batches and however  *)
(* often anybody runs or rewrites anything, that Goal 22 takes as the inputs *)
(* of a date only what one Goal 20 process audited for all codes.           *)
(***************************************************************************)
EXTENDS CleanInputs, TLAPS

USE CleanInputsAssumption

\* What each process holds in each phase.
LandingInv ==
    /\ lpc # "idle" => lbatch \in Batches /\ ltodo \subseteq LandedPairs(lbatch)
    /\ lpc \in {"read", "write"} => \A p \in ltodo : lrows[p[1]][p[2]] \in Frames
    /\ lpc = "write" => lexisting \in Frames

WorkInv ==
    /\ pc # "idle" => /\ batch \in Batches /\ run \in RunIds
                      /\ todo \subseteq BatchPairs(batch, Datasets)
    /\ pc = "fetch" => todo \subseteq BatchPairs(batch, Fetched)
    /\ pc \in {"cover", "trace", "write"} => existing \in Frames

GateInv ==
    /\ gpc = "report" =>
          /\ gtodo \subseteq Batches \X ({"report", "manifest"} \cup Proof)
          /\ \A item \in gtodo : IF item[2] = "report" THEN report[item[1]] # None
                                                       ELSE receipts[item[1]] # None
    /\ gpc = "input" => gtodo \subseteq Datasets \X asked

TypeInv == TypeOK /\ LandingInv /\ WorkInv /\ GateInv

\* A frame that passed the audit of a batch, and a partition that reads back to it.
Passed(b, p, f) == f \in Frames /\ (p[1] # "st_history" => Covers(f, Scope(b, p[1])))
Holds(b, p, v, f) == v \in Frames /\ Scoped(v, Scope(b, p[1])) = f

AuditInv ==
    /\ pc \in {"cover", "trace"} => \A p \in FirstBy(AuditRank, todo) :
          p[1] \in Supplied /\ FitRows(batch, p[1], existing)
    /\ pc \in {"audit", "cover", "trace"} => \A p \in BatchPairs(batch, Datasets) \ todo :
          p[1] \in refused \/ Passed(batch, p, frames[p[1]][p[2]])
    /\ pc \in {"read", "write"} => refused = {}
    /\ pc \in {"read", "write", "verify"} => \A p \in BatchPairs(batch, Datasets) :
          Passed(batch, p, frames[p[1]][p[2]])
    /\ pc = "verify" => \A p \in BatchPairs(batch, Datasets) \ todo :
          p[1] \in refused \/ Holds(batch, p, versions[p[1]][p[2]], frames[p[1]][p[2]])
    /\ (pc = "report" /\ refused = {}) => \A p \in BatchPairs(batch, Datasets) :
          /\ Passed(batch, p, frames[p[1]][p[2]])
          /\ Holds(batch, p, versions[p[1]][p[2]], frames[p[1]][p[2]])

\* A receipt that says ready names versions that read back to what its process audited.
Honest(b, r) == r.ready => \A p \in BatchPairs(b, Datasets) :
    /\ Passed(b, p, r.audited[p[1]][p[2]])
    /\ Holds(b, p, r.versions[p[1]][p[2]], r.audited[p[1]][p[2]])

ReceiptInv == \A b \in Batches :
    /\ report[b] # None => Honest(b, report[b])
    /\ receipts[b] # None => Honest(b, receipts[b])

\* The receipts that Goal 22 goes by are ready, agree, and cover its dates.
TrustInv ==
    /\ gpc = "report" => \A b \in Given : <<b, "manifest">> \in gtodo \/ receipts[b].ready
    /\ gpc = "input" => Agree /\ \A b \in Given : receipts[b].ready

\* What was read of a date that is still to be accepted are the versions of its receipt.
RowsInv == gpc = "input" => \A p \in gtodo, ds \in Datasets :
    \/ <<ds, p[2]>> \in gtodo
    \/ rows[ds][p[2]] = Scoped(receipts[Trusted(p[2])].versions[ds][p[2]],
                               Scope(Trusted(p[2]), ds))

IInv == TypeInv /\ AuditInv /\ ReceiptInv /\ TrustInv /\ RowsInv

-----------------------------------------------------------------------------
(* Frames, partitions and names. *)

LEMMA FrameOps ==
    /\ Empty \in Frames
    /\ \A f \in Frames : \A S : Scoped(f, S) \in Frames
    /\ \A f, g \in Frames : Upsert(f, g) \in Frames
  BY DEF Frames, Empty, Scoped, Upsert

\* The rows of the scope survive the cut.
LEMMA ScopedCovers ==
    ASSUME NEW f \in Frames, NEW S \in SUBSET Codes, Covers(f, S)
    PROVE  Covers(Scoped(f, S), S)
  BY DEF Frames, Covers, Scoped

LEMMA ScopeType == ASSUME NEW b \in Batches, NEW ds \in Datasets PROVE Scope(b, ds) \in SUBSET Codes
  BY DEF Scope

LEMMA FirstIsOf ==
    /\ \A rank, S : FirstBy(rank, S) \subseteq S
    /\ \A S : FirstOfDate(S) \subseteq S
  BY DEF FirstBy, FirstOfDate

LEMMA SomeSubsets ==
    /\ Fetched \subseteq Promoted /\ Promoted \subseteq Datasets /\ Audited \subseteq Datasets
    /\ Landed \subseteq Datasets /\ Supplied \subseteq Promoted
  BY DEF Fetched, Promoted, Audited, Landed, Supplied

LEMMA PairsOf ==
    ASSUME NEW b \in Batches, NEW S \in SUBSET Datasets
    PROVE  /\ BatchPairs(b, S) \subseteq BatchPairs(b, Datasets)
           /\ BatchPairs(b, S) \subseteq Pairs
           /\ \A p \in BatchPairs(b, S) : p[1] \in S /\ p[2] \in DatesOf[b] /\ p[2] \in Dates
  BY DEF BatchPairs, Pairs

LEMMA UnsetType == Unset \in Tables(Datasets, OrNone(Frames))
  BY DEF Unset, Tables, OrNone

\* There is always a name that nobody uses.
LEMMA FreshType == ASSUME TypeOK PROVE FreshRun \in RunIds
<1> DEFINE reported == [b \in Batches |-> IF report[b] # None THEN report[b].id ELSE None]
           read == [b \in Batches |-> IF receipts[b] # None THEN receipts[b].id ELSE None]
<1>1. /\ reported \in [Batches -> OrNone(RunIds)] /\ manifest \in [Batches -> OrNone(RunIds)]
      /\ read \in [Batches -> OrNone(RunIds)]
  <2>1. \A b \in Batches : /\ report[b] \in Receipts \cup {None}
                           /\ receipts[b] \in Receipts \cup {None}
    BY DEF TypeOK, StoreOK, Goal22OK, OrNone
  <2>2. \A r \in Receipts : r.id \in RunIds
    BY DEF Receipts
  <2>3. manifest \in [Batches -> OrNone(RunIds)]
    BY DEF TypeOK, StoreOK
  <2> QED
    BY <2>1, <2>2, <2>3 DEF OrNone
<1>2. PICK r \in RunIds : \A b \in Batches : r \notin {reported[b], manifest[b], read[b]}
  <2> HIDE DEF reported, read
  <2> QED
    BY <1>1, CleanInputsAssumption, Zenon
<1>3. ASSUME NEW b \in Batches
      PROVE  /\ report[b] # None => report[b].id # r
             /\ receipts[b] # None => receipts[b].id # r
             /\ manifest[b] # r
  BY <1>2
<1> QED
  BY <1>3 DEF FreshRun

\* Whatever source an input has, it is a frame.
LEMMA SourceType ==
    ASSUME TypeOK, NEW b \in Batches, NEW p \in BatchPairs(b, Datasets), NEW reu \in BOOLEAN
    PROVE  Source(b, p[1], p[2], reu) \in Frames
<1>1. p[1] \in Datasets /\ p[2] \in Dates
  BY PairsOf
<1>2. canonical[p[1]][p[2]] \in Frames
  BY <1>1 DEF TypeOK, StoreOK, Tables
<1>3. p[1] \in Promoted => staging[b][p[1]][p[2]] \in OrNone(Frames)
  BY <1>1 DEF TypeOK, StoreOK, Tables
<1>4. Goal13[b] # None => Goal13[b].rows \in Frames
  OBVIOUS
<1> QED
  BY <1>1, <1>2, <1>3, <1>4, FrameOps DEF Source, OrNone, UsesGoal13

-----------------------------------------------------------------------------
(* Types: the landing of Goal 18. *)

LEMMA LandingIdle == ASSUME EndLanding PROVE LandingInv'
  BY DEF EndLanding, LandingInv

\* A step of Goal 18 changes its own memory and the partitions.
LandingOnly == UNCHANGED <<evidence, staging, coverage, report, manifest, goal20, goal22, edits>>

LEMMA LandingKeeps ==
    ASSUME TypeInv, LandingOnly
    PROVE  Goal20OK' /\ Goal22OK' /\ WorkInv' /\ GateInv'
  BY DEF LandingOnly, TypeInv, TypeOK, Goal20OK, Goal22OK, WorkInv, GateInv, BatchPairs, goal20,
         goal22

LEMMA PairsOfLanding == \A b \in Batches : LandedPairs(b) \subseteq Pairs
  BY SomeSubsets DEF LandedPairs, Pairs

LEMMA StartLandingType ==
    ASSUME TypeInv, NEW b \in Batches, NEW v \in BOOLEAN, StartLanding(b, v) PROVE TypeInv'
<1>1. StoreOK' /\ BoundsOK'
  BY DEF StartLanding, TypeInv, TypeOK, StoreOK, BoundsOK, store
<1>2. Goal18OK' /\ LandingInv'
  BY PairsOfLanding
     DEF StartLanding, TypeInv, TypeOK, Goal18OK, LandingInv, LandedPairs, OrNone
<1>3. LandingOnly
  BY DEF StartLanding, LandingOnly, store
<1> QED
  BY <1>1, <1>2, <1>3, LandingKeeps DEF TypeInv, TypeOK

LEMMA FetchLandingType == ASSUME TypeInv, FetchLanding PROVE TypeInv'
<1>1. PICK p \in FirstBy(ReadBackRank, ltodo), f \in Answers :
         /\ rawStaging' = [rawStaging EXCEPT ![lbatch][p[1]] =
               [d \in Dates |-> IF d \in LandedDates(p[1], p[2]) THEN f ELSE @[d]]]
         /\ ltodo' \in {LandedPairs(lbatch), ltodo \ ({p[1]} \X LandedDates(p[1], p[2]))}
         /\ lpc' \in {"load", "fetch"}
  BY DEF FetchLanding
<1>2. /\ lbatch \in Batches /\ ltodo \subseteq LandedPairs(lbatch)
      /\ p \in LandedPairs(lbatch) /\ p[1] \in Landed /\ f \in Frames
  BY <1>1, FirstIsOf DEF FetchLanding, TypeInv, LandingInv, LandedPairs
<1>3. rawStaging' \in [Batches -> Tables(Landed, OrNone(Frames))]
  <2>1. rawStaging \in [Batches -> [Landed -> [Dates -> OrNone(Frames)]]]
    BY DEF TypeInv, TypeOK, StoreOK, Tables
  <2>2. [d \in Dates |-> IF d \in LandedDates(p[1], p[2]) THEN f
                         ELSE rawStaging[lbatch][p[1]][d]] \in [Dates -> OrNone(Frames)]
    BY <1>2, <2>1 DEF OrNone
  <2>3. rawStaging' \in [Batches -> [Landed -> [Dates -> OrNone(Frames)]]]
    BY <1>1, <1>2, <2>1, <2>2
  <2> QED
    BY <2>3 DEF Tables
<1>4. ltodo' \subseteq LandedPairs(lbatch)
  BY <1>1, <1>2
<1>5. StoreOK' /\ BoundsOK'
  BY <1>3 DEF FetchLanding, TypeInv, TypeOK, StoreOK, BoundsOK, bounds
<1>6. Goal18OK' /\ LandingInv'
  BY <1>1, <1>2, <1>4, PairsOfLanding
     DEF FetchLanding, TypeInv, TypeOK, Goal18OK, LandingInv, LandedPairs
<1>7. LandingOnly
  BY DEF FetchLanding, LandingOnly, bounds
<1> QED
  BY <1>5, <1>6, <1>7, LandingKeeps DEF TypeInv, TypeOK

LEMMA EndLandingType == ASSUME TypeInv, EndLanding PROVE Goal18OK' /\ LandingInv'
  BY UnsetType DEF EndLanding, Goal18OK, LandingInv, OrNone

LEMMA LoadLandingType == ASSUME TypeInv, LoadLanding PROVE TypeInv'
<1>1. StoreOK' /\ BoundsOK' /\ LandingOnly
  BY DEF LoadLanding, TypeInv, TypeOK, StoreOK, BoundsOK, LandingOnly, store, bounds
<1>2. CASE EndLanding
  BY <1>1, <1>2, EndLandingType, LandingKeeps DEF TypeInv, TypeOK
<1>3. CASE ~EndLanding
  <2>1. /\ lpc = "load" /\ lpc' = "read"
        /\ \A p \in ltodo : Landable(p[1], rawStaging[lbatch][p[1]][p[2]])
        /\ lrows' = [ds \in Datasets |-> [d \in Dates |->
              IF <<ds, d>> \in ltodo THEN Scoped(rawStaging[lbatch][ds][d], ScopeOf[lbatch])
                                     ELSE None]]
        /\ UNCHANGED <<lbatch, ltodo, lblocked, lexisting>>
    BY <1>3 DEF LoadLanding
  <2>2. ASSUME NEW ds \in Datasets, NEW d \in Dates, <<ds, d>> \in ltodo
        PROVE  Scoped(rawStaging[lbatch][ds][d], ScopeOf[lbatch]) \in Frames
    <3>1. ds \in Landed /\ lbatch \in Batches
      BY <2>1, <2>2 DEF TypeInv, LandingInv, LandedPairs
    <3>2. rawStaging[lbatch][ds][d] # None
      BY <2>1, <2>2 DEF Landable
    <3>3. rawStaging[lbatch] \in [Landed -> [Dates -> OrNone(Frames)]]
      BY <3>1 DEF TypeInv, TypeOK, StoreOK, Tables
    <3>4. rawStaging[lbatch][ds][d] \in Frames
      BY <3>1, <3>2, <3>3 DEF OrNone
    <3> QED
      BY <3>4, FrameOps
  <2>3. lrows' \in Tables(Datasets, OrNone(Frames))
    BY <2>1, <2>2 DEF OrNone, Tables
  <2>4. \A p \in ltodo : p \in Datasets \X Dates
    BY DEF TypeInv, TypeOK, Goal18OK, Pairs
  <2>5. \A p \in ltodo : lrows'[p[1]][p[2]] \in Frames
    <3> SUFFICES ASSUME NEW p \in ltodo PROVE lrows'[p[1]][p[2]] \in Frames
      OBVIOUS
    <3>1. p[1] \in Datasets /\ p[2] \in Dates /\ <<p[1], p[2]>> \in ltodo
      BY <2>4
    <3> QED
      BY <2>1, <2>2, <3>1
  <2>6. Goal18OK' /\ LandingInv'
    BY <2>1, <2>3, <2>5 DEF TypeInv, TypeOK, Goal18OK, LandingInv, LandedPairs
  <2> QED
    BY <1>1, <2>6, LandingKeeps DEF TypeInv, TypeOK
<1> QED
  BY <1>2, <1>3

\* What a partition holds, and a partition with other rows.
LEMMA CanonicalRead ==
    ASSUME TypeOK, NEW p \in Pairs
    PROVE  p[1] \in Datasets /\ p[2] \in Dates /\ canonical[p[1]][p[2]] \in Frames
  BY DEF TypeOK, StoreOK, Tables, Pairs

LEMMA CanonicalType ==
    ASSUME TypeOK, NEW p \in Pairs, NEW f \in Frames,
           canonical' = [canonical EXCEPT ![p[1]][p[2]] = f]
    PROVE  canonical' \in Tables(Datasets, Frames)
<1>1. canonical \in [Datasets -> [Dates -> Frames]]
  BY DEF TypeOK, StoreOK, Tables
<1>2. p[1] \in Datasets /\ p[2] \in Dates
  BY DEF Pairs
<1> QED
  BY <1>1, <1>2 DEF Tables

LEMMA ReadForLandingType == ASSUME TypeInv, ReadForLanding PROVE TypeInv'
<1>1. PICK p \in FirstOfDate(ltodo) : lexisting' = canonical[p[1]][p[2]]
  BY DEF ReadForLanding
<1>2. lexisting' \in Frames
  BY <1>1, FirstIsOf, CanonicalRead DEF TypeInv, TypeOK, Goal18OK
<1>3. StoreOK' /\ BoundsOK' /\ LandingOnly
  BY DEF ReadForLanding, TypeInv, TypeOK, StoreOK, BoundsOK, LandingOnly, store, bounds
<1>4. Goal18OK' /\ LandingInv'
  BY <1>2 DEF ReadForLanding, TypeInv, TypeOK, Goal18OK, LandingInv, LandedPairs, OrNone
<1> QED
  BY <1>3, <1>4, LandingKeeps DEF TypeInv, TypeOK

LEMMA WriteLandingType == ASSUME TypeInv, WriteLanding PROVE TypeInv'
<1>1. PICK p \in FirstOfDate(ltodo) :
         /\ canonical' = [canonical EXCEPT ![p[1]][p[2]] = Upsert(lexisting, lrows[p[1]][p[2]])]
         /\ \/ EndLanding
            \/ /\ ltodo' = ltodo \ {p} /\ lpc' = "read" /\ lexisting' = None
               /\ UNCHANGED <<lbatch, lblocked, lrows>>
  BY DEF WriteLanding
<1>2. p \in ltodo /\ p \in Pairs
  BY <1>1, FirstIsOf DEF TypeInv, TypeOK, Goal18OK
<1>3. canonical' \in Tables(Datasets, Frames)
  <2>1. Upsert(lexisting, lrows[p[1]][p[2]]) \in Frames
    BY <1>2, FrameOps DEF WriteLanding, TypeInv, LandingInv
  <2> QED
    BY <1>1, <1>2, <2>1, CanonicalType DEF TypeInv
<1>4. StoreOK' /\ BoundsOK' /\ LandingOnly
  BY <1>3 DEF WriteLanding, TypeInv, TypeOK, StoreOK, BoundsOK, LandingOnly, bounds
<1>5. Goal18OK' /\ LandingInv'
  <2>1. CASE EndLanding
    BY <2>1, EndLandingType
  <2>2. CASE ~EndLanding
    BY <1>1, <2>2
       DEF WriteLanding, TypeInv, TypeOK, Goal18OK, LandingInv, LandedPairs, OrNone
  <2> QED
    BY <2>1, <2>2
<1> QED
  BY <1>4, <1>5, LandingKeeps DEF TypeInv, TypeOK

LEMMA LandingEndsType == ASSUME TypeInv, LandingFetchFails \/ LandingDies PROVE TypeInv'
<1>1. StoreOK' /\ BoundsOK' /\ LandingOnly
  BY DEF LandingFetchFails, LandingDies, Fault, TypeInv, TypeOK, StoreOK, BoundsOK, LandingOnly,
         store
<1>2. CASE LandingFetchFails
  <2>1. Goal18OK' /\ LandingInv'
    BY <1>2, PairsOfLanding
       DEF LandingFetchFails, TypeInv, TypeOK, Goal18OK, LandingInv, LandedPairs
  <2> QED
    BY <1>1, <2>1, LandingKeeps DEF TypeInv, TypeOK
<1>3. CASE LandingDies
  BY <1>1, <1>3, EndLandingType, LandingKeeps DEF LandingDies, TypeInv, TypeOK
<1> QED
  BY <1>2, <1>3

-----------------------------------------------------------------------------
(* Types: the audit of Goal 20. *)

AuditOnly ==
    /\ UNCHANGED <<evidence, rawStaging, goal18, goal22, lands>>
    /\ \A b \in Batches : report[b] # None => report'[b] # None

LEMMA AuditKeeps ==
    ASSUME TypeInv, AuditOnly
    PROVE  Goal18OK' /\ Goal22OK' /\ LandingInv' /\ GateInv'
<1>1. Goal18OK' /\ Goal22OK'
  BY DEF AuditOnly, TypeInv, TypeOK, Goal18OK, Goal22OK, goal18, goal22
<1>2. LandingInv'
  BY DEF AuditOnly, TypeInv, LandingInv, LandedPairs, goal18
<1>3. GateInv'
  <2>1. gpc = "report" => \A item \in gtodo : item[1] \in Batches
    BY DEF TypeInv, GateInv
  <2> QED
    BY <2>1 DEF AuditOnly, TypeInv, GateInv, goal22
<1> QED
  BY <1>1, <1>2, <1>3

\* What a process with its batch may look at.
LEMMA Working ==
    ASSUME TypeInv, pc # "idle"
    PROVE  /\ batch \in Batches /\ run \in RunIds /\ todo \subseteq BatchPairs(batch, Datasets)
           /\ BatchPairs(batch, Datasets) \subseteq Pairs
           /\ \A p \in BatchPairs(batch, Datasets) :
                 p[1] \in Datasets /\ p[2] \in DatesOf[batch] /\ p[2] \in Dates
  BY PairsOf DEF TypeInv, WorkInv

LEMMA AdvanceType ==
    ASSUME TypeInv, pc # "idle", NEW p, NEW phase, NEW next, NEW S \in SUBSET Datasets,
           Advance(p, phase, next, S)
    PROVE  /\ todo' \subseteq BatchPairs(batch, Datasets) /\ todo' \subseteq Pairs
           /\ pc' = IF todo = {p} THEN next ELSE phase
           /\ pc' = phase /\ phase # next => todo' \subseteq todo
  BY Working, PairsOf DEF Advance

LEMMA EndAuditType == ASSUME EndAudit PROVE Goal20OK' /\ WorkInv'
  BY UnsetType DEF EndAudit, Goal20OK, WorkInv, OrNone

LEMMA StartAuditType ==
    ASSUME TypeInv, NEW b \in Batches, NEW provider \in BOOLEAN, NEW reu \in BOOLEAN,
           NEW apl \in BOOLEAN, StartAudit(b, provider, reu, apl)
    PROVE  TypeInv'
<1>1. AuditOnly /\ StoreOK'
  BY DEF StartAudit, AuditOnly, TypeInv, TypeOK, StoreOK, store
<1>2. BoundsOK'
  BY DEF StartAudit, Edit, TypeInv, TypeOK, BoundsOK
<1>3. todo' \subseteq BatchPairs(b, Datasets) /\ (provider => todo' = BatchPairs(b, Fetched))
  BY SomeSubsets, PairsOf DEF StartAudit
<1>4. run' \in RunIds
  BY FreshType DEF StartAudit, TypeInv
<1>5. Goal20OK' /\ WorkInv'
  BY <1>3, <1>4, PairsOf DEF StartAudit, TypeInv, TypeOK, Goal20OK, WorkInv, OrNone
<1> QED
  BY <1>1, <1>2, <1>5, AuditKeeps DEF TypeInv, TypeOK

LEMMA FetchStagingType == ASSUME TypeInv, FetchStaging PROVE TypeInv'
<1>1. PICK p \in FirstOfDate(todo), f \in Answers :
         /\ staging' = [staging EXCEPT ![batch][p[1]][p[2]] = Scoped(f, Scope(batch, p[1]))]
         /\ Advance(p, "fetch", "audit", Datasets)
  BY DEF FetchStaging
<1>2. batch \in Batches /\ p[1] \in Promoted /\ p[2] \in Dates /\ f \in Frames
  BY <1>1, FirstIsOf, Working, PairsOf, SomeSubsets DEF FetchStaging, TypeInv, WorkInv
<1>3. staging' \in [Batches -> Tables(Promoted, OrNone(Frames))]
  <2>1. staging \in [Batches -> [Promoted -> [Dates -> OrNone(Frames)]]]
    BY DEF TypeInv, TypeOK, StoreOK, Tables
  <2>2. Scoped(f, Scope(batch, p[1])) \in OrNone(Frames)
    BY <1>2, FrameOps DEF OrNone
  <2>3. staging' \in [Batches -> [Promoted -> [Dates -> OrNone(Frames)]]]
    BY <1>1, <1>2, <2>1, <2>2
  <2> QED
    BY <2>3 DEF Tables
<1>4. StoreOK' /\ BoundsOK' /\ AuditOnly
  BY <1>3 DEF FetchStaging, TypeInv, TypeOK, StoreOK, BoundsOK, AuditOnly, bounds
<1>5. Goal20OK' /\ WorkInv'
  <2>1. /\ todo' \subseteq BatchPairs(batch, Datasets) /\ todo' \subseteq Pairs
        /\ pc' \in {"fetch", "audit"} /\ (pc' = "fetch" => todo' \subseteq todo)
    BY <1>1, Working DEF FetchStaging, Advance
  <2> QED
    BY <2>1 DEF FetchStaging, TypeInv, TypeOK, Goal20OK, WorkInv
<1> QED
  BY <1>4, <1>5, AuditKeeps DEF TypeInv, TypeOK

LEMMA FetchFailsType == ASSUME TypeInv, FetchStagingFails PROVE TypeInv'
<1>1. PICK p \in FirstOfDate(todo) :
         refused' = refused \cup {p[1]} /\ Advance(p, "fetch", "audit", Datasets)
  BY DEF FetchStagingFails
<1>2. p[1] \in Datasets
  BY <1>1, FirstIsOf, Working DEF FetchStagingFails
<1>3. StoreOK' /\ BoundsOK' /\ AuditOnly
  BY DEF FetchStagingFails, Fault, TypeInv, TypeOK, StoreOK, BoundsOK, AuditOnly, store
<1>4. Goal20OK' /\ WorkInv'
  <2>1. /\ todo' \subseteq BatchPairs(batch, Datasets) /\ todo' \subseteq Pairs
        /\ pc' \in {"fetch", "audit"} /\ (pc' = "fetch" => todo' \subseteq todo)
    BY <1>1, Working DEF FetchStagingFails, Advance
  <2>2. Goal20OK'
    BY <1>1, <1>2, <2>1 DEF FetchStagingFails, TypeInv, TypeOK, Goal20OK
  <2> QED
    BY <2>1, <2>2 DEF FetchStagingFails, TypeInv, WorkInv
<1> QED
  BY <1>3, <1>4, AuditKeeps DEF TypeInv, TypeOK

LEMMA AuditInputType ==
    ASSUME TypeInv, AuditInput \/ AuditFails \/ ReadHistory \/ ReadCoverage \/ TraceHistory
    PROVE  TypeInv'
<1>1. /\ {pc, pc'} \subseteq {"audit", "cover", "trace"}
      /\ UNCHANGED <<store, goal18, goal22, lands, edits, batch, run, reuse, apply, versions>>
  BY DEF AuditInput, AuditFails, ReadHistory, ReadCoverage, TraceHistory, bounds
<1>2. PICK p \in FirstBy(AuditRank, todo) :
         /\ todo' \subseteq todo
         /\ refused' \in {refused, refused \cup {p[1]}}
         /\ \/ UNCHANGED frames
            \/ frames' = [frames EXCEPT ![p[1]][p[2]] =
                             Scoped(Source(batch, p[1], p[2], reuse), Scope(batch, p[1]))]
            \/ /\ pc = "trace"
               /\ frames' = [frames EXCEPT ![p[1]][p[2]] = Scoped(existing, ScopeOf[batch])]
         /\ \/ existing' = None /\ pc' = "audit"
            \/ UNCHANGED existing /\ (pc' = "audit" \/ pc = "cover")
            \/ existing' = staging[batch][p[1]][p[2]] /\ p[1] \in Supplied /\ existing' # None
  <2>1. CASE AuditInput
    BY <2>1 DEF AuditInput
  <2>2. CASE AuditFails
    BY <2>2 DEF AuditFails
  <2>3. CASE ReadHistory
    BY <2>3 DEF ReadHistory, FitRows
  <2>4. CASE ReadCoverage
    BY <2>4 DEF ReadCoverage
  <2>5. CASE TraceHistory
    BY <2>5 DEF TraceHistory
  <2> QED
    BY <2>1, <2>2, <2>3, <2>4, <2>5
<1>3. /\ p \in BatchPairs(batch, Datasets) /\ p[1] \in Datasets /\ p[2] \in Dates
      /\ batch \in Batches /\ reuse \in BOOLEAN
  BY <1>1, <1>2, FirstIsOf, Working DEF TypeInv, TypeOK, Goal20OK
<1>4. /\ Scoped(Source(batch, p[1], p[2], reuse), Scope(batch, p[1])) \in Frames
      /\ pc = "trace" => Scoped(existing, ScopeOf[batch]) \in Frames
  <2>1. pc = "trace" => existing \in Frames
    BY DEF TypeInv, WorkInv
  <2> QED
    BY <1>3, <2>1, SourceType, FrameOps DEF TypeInv
<1>5. frames' \in Tables(Datasets, OrNone(Frames))
  <2>1. frames \in [Datasets -> [Dates -> OrNone(Frames)]]
    BY DEF TypeInv, TypeOK, Goal20OK, Tables
  <2>2. frames' \in [Datasets -> [Dates -> OrNone(Frames)]]
    BY <1>2, <1>3, <1>4, <2>1 DEF OrNone
  <2> QED
    BY <2>2 DEF Tables
<1>6. existing' \in OrNone(Frames) /\ (pc' # "audit" => existing' \in Frames)
  <2>1. existing \in OrNone(Frames) /\ (pc = "cover" => existing \in Frames)
    BY DEF TypeInv, TypeOK, Goal20OK, WorkInv
  <2>2. p[1] \in Supplied => staging[batch][p[1]][p[2]] \in OrNone(Frames)
    BY <1>3, SomeSubsets DEF TypeInv, TypeOK, StoreOK, Tables
  <2> QED
    BY <1>1, <1>2, <2>1, <2>2 DEF OrNone
<1>7. StoreOK' /\ AuditOnly
  BY <1>1 DEF TypeInv, TypeOK, StoreOK, AuditOnly, store
<1>8. BoundsOK'
  BY DEF AuditInput, AuditFails, ReadHistory, ReadCoverage, TraceHistory, Fault, bounds, TypeInv,
         TypeOK, BoundsOK
<1>9. Goal20OK' /\ WorkInv'
  BY <1>1, <1>2, <1>3, <1>5, <1>6, Working DEF TypeInv, TypeOK, Goal20OK, WorkInv
<1> QED
  BY <1>7, <1>8, <1>9, AuditKeeps DEF TypeInv, TypeOK

LEMMA DecideType == ASSUME TypeInv, Decide PROVE TypeInv'
<1>1. StoreOK' /\ BoundsOK' /\ AuditOnly
  BY DEF Decide, TypeInv, TypeOK, StoreOK, BoundsOK, AuditOnly, store, bounds
<1>2. todo' \subseteq BatchPairs(batch, Datasets)
  <2>1. BatchPairs(batch, Promoted) \subseteq BatchPairs(batch, Datasets)
    BY Working, PairsOf, SomeSubsets DEF Decide
  <2> QED
    BY <2>1, Working DEF Decide
<1>3. Goal20OK' /\ WorkInv'
  BY <1>2, Working DEF Decide, TypeInv, TypeOK, Goal20OK, WorkInv
<1> QED
  BY <1>1, <1>3, AuditKeeps DEF TypeInv, TypeOK

LEMMA ReadForPromotionType == ASSUME TypeInv, ReadForPromotion PROVE TypeInv'
<1>1. PICK p \in FirstBy(ReadBackRank, todo) : existing' = canonical[p[1]][p[2]]
  BY DEF ReadForPromotion
<1>2. existing' \in Frames
  BY <1>1, FirstIsOf, CanonicalRead DEF TypeInv, TypeOK, Goal20OK
<1>3. StoreOK' /\ BoundsOK' /\ AuditOnly
  BY DEF ReadForPromotion, TypeInv, TypeOK, StoreOK, BoundsOK, AuditOnly, store, bounds
<1>4. Goal20OK' /\ WorkInv'
  BY <1>2, Working DEF ReadForPromotion, TypeInv, TypeOK, Goal20OK, WorkInv, OrNone
<1> QED
  BY <1>3, <1>4, AuditKeeps DEF TypeInv, TypeOK

LEMMA WritePromotionType == ASSUME TypeInv, AuditInv, WritePromotion PROVE TypeInv'
<1>1. PICK p \in FirstBy(ReadBackRank, todo) :
         /\ canonical' = [canonical EXCEPT ![p[1]][p[2]] = Upsert(existing, frames[p[1]][p[2]])]
         /\ Advance(p, "read", "verify", Datasets)
  BY DEF WritePromotion
<1>2. p \in Pairs /\ p \in BatchPairs(batch, Datasets)
  BY <1>1, FirstIsOf, Working DEF WritePromotion
<1>3. Upsert(existing, frames[p[1]][p[2]]) \in Frames
  BY <1>2, FrameOps DEF WritePromotion, TypeInv, WorkInv, AuditInv, Passed
<1>4. canonical' \in Tables(Datasets, Frames)
  BY <1>1, <1>2, <1>3, CanonicalType DEF TypeInv
<1>5. StoreOK' /\ BoundsOK' /\ AuditOnly
  BY <1>4 DEF WritePromotion, TypeInv, TypeOK, StoreOK, BoundsOK, AuditOnly, bounds
<1>6. todo' \subseteq BatchPairs(batch, Datasets) /\ pc' \in {"read", "verify"}
  BY <1>1, Working DEF WritePromotion, Advance
<1>7. Goal20OK' /\ WorkInv'
  BY <1>6, Working DEF WritePromotion, TypeInv, TypeOK, Goal20OK, WorkInv, OrNone
<1> QED
  BY <1>5, <1>7, AuditKeeps DEF TypeInv, TypeOK

LEMMA PromotionFailsType == ASSUME TypeInv, AuditInv, PromotionFails PROVE TypeInv'
<1>1. PICK p \in FirstBy(ReadBackRank, todo) :
         /\ refused' = {p[1]}
         /\ \/ UNCHANGED canonical
            \/ /\ pc = "write"
               /\ canonical' = [canonical EXCEPT ![p[1]][p[2]] = Upsert(existing, frames[p[1]][p[2]])]
  BY DEF PromotionFails
<1>2. p \in Pairs /\ p \in BatchPairs(batch, Datasets) /\ p[1] \in Datasets
  BY <1>1, FirstIsOf, Working DEF PromotionFails
<1>3. pc = "write" => Upsert(existing, frames[p[1]][p[2]]) \in Frames
  BY <1>2, FrameOps DEF TypeInv, WorkInv, AuditInv, Passed
<1>4. canonical' \in Tables(Datasets, Frames)
  <2>1. CASE UNCHANGED canonical
    BY <2>1 DEF TypeInv, TypeOK, StoreOK
  <2>2. CASE ~UNCHANGED canonical
    BY <1>1, <1>2, <1>3, <2>2, CanonicalType DEF TypeInv
  <2> QED
    BY <2>1, <2>2
<1>5. StoreOK' /\ BoundsOK' /\ AuditOnly
  BY <1>4 DEF PromotionFails, Fault, TypeInv, TypeOK, StoreOK, BoundsOK, AuditOnly
<1>6. Goal20OK' /\ WorkInv'
  BY <1>1, <1>2, Working DEF PromotionFails, TypeInv, TypeOK, Goal20OK, WorkInv, OrNone
<1> QED
  BY <1>5, <1>6, AuditKeeps DEF TypeInv, TypeOK

LEMMA VerifyType == ASSUME TypeInv, VerifyInput PROVE TypeInv'
<1>1. PICK p \in FirstBy(ReadBackRank, todo) :
         /\ \/ /\ versions' = [versions EXCEPT ![p[1]][p[2]] = canonical[p[1]][p[2]]]
               /\ UNCHANGED refused
            \/ refused' = refused \cup {p[1]} /\ UNCHANGED versions
         /\ Advance(p, "verify", "report", {})
  BY DEF VerifyInput
<1>2. p[1] \in Datasets /\ p[2] \in Dates /\ canonical[p[1]][p[2]] \in Frames
  BY <1>1, FirstIsOf, CanonicalRead DEF TypeInv, TypeOK, Goal20OK
<1>3. versions' \in Tables(Datasets, OrNone(Frames)) /\ refused' \subseteq Datasets
  <2>1. versions \in [Datasets -> [Dates -> OrNone(Frames)]] /\ refused \subseteq Datasets
    BY DEF TypeInv, TypeOK, Goal20OK, Tables
  <2>2. versions' \in [Datasets -> [Dates -> OrNone(Frames)]]
    BY <1>1, <1>2, <2>1 DEF OrNone
  <2> QED
    BY <1>1, <1>2, <2>1, <2>2 DEF Tables
<1>4. StoreOK' /\ BoundsOK' /\ AuditOnly
  BY DEF VerifyInput, TypeInv, TypeOK, StoreOK, BoundsOK, AuditOnly, store, bounds
<1>5. todo' \subseteq BatchPairs(batch, Datasets) /\ pc' \in {"verify", "report"}
  BY <1>1, Working DEF VerifyInput, Advance, BatchPairs
<1>6. Goal20OK' /\ WorkInv'
  BY <1>3, <1>5, Working DEF VerifyInput, TypeInv, TypeOK, Goal20OK, WorkInv
<1> QED
  BY <1>4, <1>6, AuditKeeps DEF TypeInv, TypeOK

LEMMA WriteReportType == ASSUME TypeInv, WriteReport PROVE TypeInv'
<1> DEFINE r == [id |-> run, ready |-> refused = {}, versions |-> versions, audited |-> frames]
<1>1. batch \in Batches /\ run \in RunIds
  BY Working DEF WriteReport
<1>2. r \in Receipts
  BY <1>1 DEF Receipts, TypeInv, TypeOK, Goal20OK
<1>3. report' = [report EXCEPT ![batch] = r]
  BY DEF WriteReport
<1>4. report' \in [Batches -> OrNone(Receipts)] /\ \A b \in Batches : report[b] # None => report'[b] # None
  BY <1>1, <1>2, <1>3 DEF TypeInv, TypeOK, StoreOK, OrNone
<1>5. StoreOK' /\ BoundsOK' /\ AuditOnly
  BY <1>4 DEF WriteReport, TypeInv, TypeOK, StoreOK, BoundsOK, AuditOnly, bounds
<1>6. Goal20OK' /\ WorkInv'
  BY Working DEF WriteReport, TypeInv, TypeOK, Goal20OK, WorkInv
<1> QED
  BY <1>5, <1>6, AuditKeeps DEF TypeInv, TypeOK

LEMMA AuditEndsType == ASSUME TypeInv, WriteManifest \/ AuditDies PROVE TypeInv'
<1>1. EndAudit /\ UNCHANGED <<canonical, evidence, staging, coverage, report, rawStaging>>
      /\ UNCHANGED <<goal18, goal22, lands, edits>>
  BY DEF WriteManifest, AuditDies, store, bounds
<1>2. manifest' \in [Batches -> OrNone(RunIds)]
  BY Working DEF WriteManifest, AuditDies, store, TypeInv, TypeOK, StoreOK, OrNone
<1>3. StoreOK' /\ AuditOnly
  BY <1>1, <1>2 DEF TypeInv, TypeOK, StoreOK, AuditOnly
<1>4. BoundsOK'
  BY DEF WriteManifest, AuditDies, Fault, bounds, TypeInv, TypeOK, BoundsOK
<1> QED
  BY <1>1, <1>3, <1>4, EndAuditType, AuditKeeps DEF TypeInv, TypeOK

-----------------------------------------------------------------------------
(* Types: the gate of Goal 22, and everybody else. *)

ReaderOnly == UNCHANGED <<store, goal18, goal20, lands, edits>>

LEMMA ReaderKeeps ==
    ASSUME TypeInv, ReaderOnly
    PROVE  StoreOK' /\ Goal18OK' /\ Goal20OK' /\ LandingInv' /\ WorkInv'
<1>1. StoreOK' /\ Goal18OK' /\ Goal20OK'
  BY DEF ReaderOnly, TypeInv, TypeOK, StoreOK, Goal18OK, Goal20OK, store, goal18, goal20
<1>2. LandingInv' /\ WorkInv'
  BY DEF ReaderOnly, TypeInv, LandingInv, LandedPairs, WorkInv, BatchPairs, goal18, goal20
<1> QED
  BY <1>1, <1>2

LEMMA EndReaderType ==
    ASSUME TypeInv, EndReader, accepted' \in [Dates -> OrNone([Datasets -> OrNone(Frames)])]
    PROVE  Goal22OK' /\ GateInv'
  BY UnsetType DEF EndReader, Goal22OK, GateInv, OrNone

LEMMA StartReaderType ==
    ASSUME TypeInv, NEW B \in SUBSET Batches, NEW D \in SUBSET Dates, StartReader(B, D)
    PROVE  TypeInv'
<1>1. ReaderOnly /\ BoundsOK'
  BY DEF StartReader, ReaderOnly, bounds, TypeInv, TypeOK, BoundsOK
<1>2. Goal22OK'
  BY UnsetType DEF StartReader, TypeInv, TypeOK, Goal22OK, OrNone
<1>3. GateInv'
  BY DEF StartReader, GateInv, store
<1> QED
  BY <1>1, <1>2, <1>3, ReaderKeeps DEF TypeInv, TypeOK

LEMMA TrustType == ASSUME TypeInv, Trust PROVE TypeInv'
<1>1. ReaderOnly /\ BoundsOK'
  BY DEF Trust, ReaderOnly, bounds, TypeInv, TypeOK, BoundsOK
<1>2. Goal22OK' /\ GateInv'
  <2>1. CASE EndReader
    BY <2>1, EndReaderType DEF Trust, TypeInv, TypeOK, Goal22OK
  <2>2. CASE ~EndReader
    BY <2>2 DEF Trust, TypeInv, TypeOK, Goal22OK, GateInv
  <2> QED
    BY <2>1, <2>2
<1> QED
  BY <1>1, <1>2, ReaderKeeps DEF TypeInv, TypeOK

LEMMA ReadReceiptType == ASSUME TypeInv, ReadReceipt PROVE TypeInv'
<1>1. ReaderOnly /\ BoundsOK'
  BY DEF ReadReceipt, ReaderOnly, bounds, TypeInv, TypeOK, BoundsOK
<1>2. Goal22OK' /\ GateInv'
  <2>1. CASE EndReader
    BY <2>1, EndReaderType DEF ReadReceipt, TypeInv, TypeOK, Goal22OK
  <2>2. CASE ~EndReader
    <3>1. PICK item \in gtodo :
             \/ /\ item[2] = "report"
                /\ receipts' = [receipts EXCEPT ![item[1]] = report[item[1]]]
                /\ gtodo' = (gtodo \ {item}) \cup {<<item[1], "manifest">>}
             \/ /\ item[2] \in {"manifest"} \cup Proof /\ UNCHANGED receipts
                /\ gtodo' \subseteq (gtodo \ {item}) \cup ({item[1]} \X Proof)
      BY <2>2 DEF ReadReceipt, Proof, PartAfter
    <3>2. /\ gpc = "report" /\ UNCHANGED <<gpc, asked, rows, accepted, report>>
          /\ gtodo \subseteq Batches \X ({"report", "manifest"} \cup Proof)
          /\ item[1] \in Batches
      BY <2>2 DEF ReadReceipt, TypeInv, GateInv, store
    <3>3. /\ receipts' \in [Batches -> OrNone(Receipts)]
          /\ \A b \in Batches : receipts[b] # None => receipts'[b] # None
          /\ receipts'[item[1]] # None
      <4>1. item[2] = "report" => report[item[1]] # None
        BY <3>2 DEF TypeInv, GateInv
      <4>2. report[item[1]] \in OrNone(Receipts) /\ receipts \in [Batches -> OrNone(Receipts)]
        BY <3>2 DEF TypeInv, TypeOK, StoreOK, Goal22OK
      <4>3. item[2] # "report" => receipts[item[1]] # None
        BY <3>2 DEF TypeInv, GateInv
      <4> QED
        BY <3>1, <3>2, <4>1, <4>2, <4>3 DEF Proof
    <3>4. Goal22OK'
      BY <3>2, <3>3 DEF TypeInv, TypeOK, Goal22OK
    <3>5. GateInv'
      <4>1. gtodo' \subseteq (gtodo \ {item}) \cup ({item[1]} \X ({"manifest"} \cup Proof))
        BY <3>1
      <4>2. ASSUME NEW i \in gtodo'
            PROVE  /\ i \in Batches \X ({"report", "manifest"} \cup Proof)
                   /\ IF i[2] = "report" THEN report'[i[1]] # None ELSE receipts'[i[1]] # None
        <5>1. CASE i \in gtodo
          BY <3>2, <3>3, <5>1 DEF TypeInv, GateInv
        <5>2. CASE i \in ({item[1]} \X ({"manifest"} \cup Proof))
          BY <3>2, <3>3, <5>2 DEF Proof
        <5> QED
          BY <4>1, <5>1, <5>2
      <4> QED
        BY <3>2, <4>2 DEF GateInv
    <3> QED
      BY <3>4, <3>5
  <2> QED
    BY <2>1, <2>2
<1> QED
  BY <1>1, <1>2, ReaderKeeps DEF TypeInv, TypeOK

LEMMA ReadInputType == ASSUME TypeInv, ReadInput PROVE TypeInv'
<1>1. ReaderOnly /\ BoundsOK'
  BY DEF ReadInput, ReaderOnly, bounds, TypeInv, TypeOK, BoundsOK
<1> DEFINE F(p) == Scoped(canonical[p[1]][p[2]], Scope(Trusted(p[2]), p[1]))
           left(p) == IF SameVersion(p) THEN gtodo \ {p} ELSE {q \in gtodo : q[2] # p[2]}
           whole(p) == [ds \in Datasets |-> IF ds = p[1] THEN F(p) ELSE rows[ds][p[2]]]
<1>2. PICK p \in FirstOfDate(gtodo) :
         /\ accepted' = IF SameVersion(p) /\ \A q \in left(p) : q[2] # p[2]
                        THEN [accepted EXCEPT ![p[2]] = whole(p)] ELSE accepted
         /\ IF left(p) = {} THEN EndReader
            ELSE /\ gtodo' = left(p)
                 /\ rows' = [rows EXCEPT ![p[1]][p[2]] = F(p)]
                 /\ UNCHANGED <<gpc, receipts, asked>>
  BY DEF ReadInput
<1>3. /\ gpc = "input" /\ gtodo \subseteq Datasets \X asked /\ asked \subseteq Dates
      /\ p \in gtodo /\ p \in Pairs /\ p[1] \in Datasets /\ p[2] \in Dates
  BY <1>2, FirstIsOf DEF ReadInput, TypeInv, TypeOK, Goal22OK, GateInv, Pairs
<1>4. F(p) \in Frames
  BY <1>3, CanonicalRead, FrameOps DEF TypeInv
<1>5. rows \in [Datasets -> [Dates -> OrNone(Frames)]]
  BY DEF TypeInv, TypeOK, Goal22OK, Tables
<1>6. whole(p) \in [Datasets -> OrNone(Frames)]
  <2> HIDE DEF F
  <2>1. \A ds \in Datasets : rows[ds][p[2]] \in OrNone(Frames)
    BY <1>3, <1>5
  <2>2. F(p) \in OrNone(Frames)
    BY <1>4 DEF OrNone
  <2> QED
    BY <2>1, <2>2
<1>7. accepted' \in [Dates -> OrNone([Datasets -> OrNone(Frames)])]
  <2>1. accepted \in [Dates -> OrNone([Datasets -> OrNone(Frames)])]
    BY DEF TypeInv, TypeOK, Goal22OK
  <2>2. whole(p) \in OrNone([Datasets -> OrNone(Frames)])
    BY <1>6 DEF OrNone
  <2> HIDE DEF whole
  <2> QED
    BY <1>2, <1>3, <2>1, <2>2
<1>8. CASE left(p) = {}
  BY <1>1, <1>2, <1>7, <1>8, EndReaderType, ReaderKeeps DEF TypeInv, TypeOK
<1>9. CASE left(p) # {}
  <2>1. rows' \in [Datasets -> [Dates -> OrNone(Frames)]]
    BY <1>2, <1>3, <1>4, <1>5, <1>9 DEF OrNone
  <2>2. gtodo' \subseteq gtodo /\ UNCHANGED <<gpc, receipts, asked>>
    BY <1>2, <1>9
  <2>3. Goal22OK'
    BY <1>7, <2>1, <2>2 DEF TypeInv, TypeOK, Goal22OK, Tables
  <2>4. GateInv'
    BY <1>3, <2>2 DEF GateInv
  <2> QED
    BY <1>1, <2>3, <2>4, ReaderKeeps DEF TypeInv, TypeOK
<1> QED
  BY <1>8, <1>9

LEMMA ReaderDiesType == ASSUME TypeInv, ReaderDies PROVE TypeInv'
<1>1. ReaderOnly /\ BoundsOK'
  BY DEF ReaderDies, ReaderOnly, Fault, TypeInv, TypeOK, BoundsOK
<1>2. Goal22OK' /\ GateInv'
  BY EndReaderType DEF ReaderDies, TypeInv, TypeOK, Goal22OK
<1> QED
  BY <1>1, <1>2, ReaderKeeps DEF TypeInv, TypeOK

OthersOnly == UNCHANGED <<report, manifest, rawStaging, goal18, goal20, goal22, lands, faults>>

LEMMA OthersKeep ==
    ASSUME TypeInv, OthersOnly, StoreOK', BoundsOK' PROVE TypeInv'
<1>1. Goal18OK' /\ Goal20OK' /\ Goal22OK'
  BY DEF OthersOnly, TypeInv, TypeOK, Goal18OK, Goal20OK, Goal22OK, goal18, goal20, goal22
<1>2. LandingInv' /\ WorkInv' /\ GateInv'
  BY DEF OthersOnly, TypeInv, LandingInv, LandedPairs, WorkInv, GateInv, BatchPairs, goal18,
         goal20, goal22
<1> QED
  BY <1>1, <1>2 DEF TypeInv, TypeOK

LEMMA RewriteType == ASSUME TypeInv, RewriteCanonical PROVE TypeInv'
<1>1. PICK w \in Rewrites, d \in Dates :
          canonical' = [canonical EXCEPT ![w[1]][d][w[2]] = w[3]]
  BY DEF RewriteCanonical
<1>2. w[1] \in Datasets /\ w[2] \in Codes /\ w[3] \in Vintages \cup {0}
  OBVIOUS
<1>3. canonical' \in Tables(Datasets, Frames)
  <2>1. canonical \in [Datasets -> [Dates -> [Codes -> Vintages \cup {0}]]]
    BY DEF TypeInv, TypeOK, StoreOK, Tables, Frames
  <2>2. canonical' \in [Datasets -> [Dates -> [Codes -> Vintages \cup {0}]]]
    BY <1>1, <1>2, <2>1
  <2> QED
    BY <2>2 DEF Tables, Frames
<1>4. StoreOK' /\ BoundsOK' /\ OthersOnly
  BY <1>3 DEF RewriteCanonical, Edit, TypeInv, TypeOK, StoreOK, BoundsOK, OthersOnly
<1> QED
  BY <1>4, OthersKeep

LEMMA CorrectType == ASSUME TypeInv, CorrectHistory PROVE TypeInv'
<1>1. PICK w \in Corrections, d \in Dates :
          evidence' = [evidence EXCEPT ![w[1]] = [e \in Dates |->
               IF e \in HistoryDates(w[1], d) THEN [@[e] EXCEPT ![w[2]] = w[3]] ELSE @[e]]]
  BY DEF CorrectHistory
<1>2. w[1] \in Supplied /\ w[2] \in Codes /\ w[3] \in Vintages \cup {0}
  OBVIOUS
<1>3. evidence' \in Tables(Supplied, Frames)
  <2>1. evidence \in [Supplied -> [Dates -> [Codes -> Vintages \cup {0}]]]
    BY DEF TypeInv, TypeOK, StoreOK, Tables, Frames
  <2>2. [e \in Dates |-> IF e \in HistoryDates(w[1], d)
                         THEN [evidence[w[1]][e] EXCEPT ![w[2]] = w[3]]
                         ELSE evidence[w[1]][e]] \in [Dates -> [Codes -> Vintages \cup {0}]]
    BY <1>2, <2>1
  <2>3. evidence' \in [Supplied -> [Dates -> [Codes -> Vintages \cup {0}]]]
    BY <1>1, <1>2, <2>1, <2>2
  <2> QED
    BY <2>3 DEF Tables, Frames
<1>4. StoreOK' /\ BoundsOK' /\ OthersOnly
  BY <1>3 DEF CorrectHistory, Edit, TypeInv, TypeOK, StoreOK, BoundsOK, OthersOnly
<1> QED
  BY <1>4, OthersKeep

LEMMA SupplyType == ASSUME TypeInv, NEW b \in Batches, SupplyHistory(b) PROVE TypeInv'
<1>1. PICK ds \in Supplied, d \in DatesOf[b] :
          staging' = [staging EXCEPT ![b][ds] =
               [e \in Dates |-> IF e \in HistoryDates(ds, d) \cap DatesOf[b]
                                THEN Scoped(evidence[ds][e], ScopeOf[b]) ELSE @[e]]]
  BY DEF SupplyHistory
<1>2. staging' \in [Batches -> Tables(Promoted, OrNone(Frames))]
  <2>1. staging \in [Batches -> [Promoted -> [Dates -> OrNone(Frames)]]]
    BY DEF TypeInv, TypeOK, StoreOK, Tables
  <2>2. \A e \in Dates : Scoped(evidence[ds][e], ScopeOf[b]) \in Frames
    BY FrameOps DEF TypeInv, TypeOK, StoreOK, Tables
  <2>3. [e \in Dates |-> IF e \in HistoryDates(ds, d) \cap DatesOf[b]
                         THEN Scoped(evidence[ds][e], ScopeOf[b]) ELSE staging[b][ds][e]]
        \in [Dates -> OrNone(Frames)]
    BY <2>1, <2>2, SomeSubsets DEF OrNone
  <2>4. staging' \in [Batches -> [Promoted -> [Dates -> OrNone(Frames)]]]
    BY <1>1, <2>1, <2>3, SomeSubsets
  <2> QED
    BY <2>4 DEF Tables
<1>3. StoreOK' /\ BoundsOK' /\ OthersOnly
  BY <1>2 DEF SupplyHistory, TypeInv, TypeOK, StoreOK, BoundsOK, OthersOnly, bounds
<1> QED
  BY <1>3, OthersKeep

LEMMA NextType == TypeInv /\ AuditInv /\ [Next]_vars => TypeInv'
<1> SUFFICES ASSUME TypeInv, AuditInv, [Next]_vars PROVE TypeInv'
  OBVIOUS
<1>1. CASE UNCHANGED vars
  <2>1. OthersOnly /\ StoreOK' /\ BoundsOK'
    BY <1>1 DEF vars, store, bounds, TypeInv, TypeOK, StoreOK, BoundsOK, OthersOnly
  <2> QED
    BY <2>1, OthersKeep
<1>2. CASE Next
  BY <1>2, StartLandingType, FetchLandingType, LandingEndsType, LoadLandingType,
     ReadForLandingType, WriteLandingType, StartAuditType, FetchStagingType, FetchFailsType,
     AuditInputType, DecideType, ReadForPromotionType, WritePromotionType, PromotionFailsType,
     VerifyType, WriteReportType, AuditEndsType, StartReaderType, ReadReceiptType, TrustType,
     ReadInputType, ReaderDiesType, RewriteType, CorrectType, SupplyType DEF Next
<1> QED
  BY <1>1, <1>2

-----------------------------------------------------------------------------
(* What the audit passed, and what was read back. *)

\* What FitInput lets through covers the codes of the batch, and so does a history of FitRows,
\* except an empty st_history.
LEMMA FitPasses ==
    ASSUME TypeInv, NEW b \in Batches, NEW p \in BatchPairs(b, Datasets), NEW reu \in BOOLEAN,
           p[1] \notin Supplied, FitInput(b, p[1], p[2], reu)
    PROVE  Passed(b, p, Scoped(Source(b, p[1], p[2], reu), Scope(b, p[1])))
<1>1. p[1] \in Datasets /\ Scope(b, p[1]) \in SUBSET Codes
  BY PairsOf, ScopeType
<1>2. Source(b, p[1], p[2], reu) \in Frames
  BY SourceType DEF TypeInv
<1>3. Covers(Source(b, p[1], p[2], reu), Scope(b, p[1]))
  BY DEF FitInput
<1> QED
  BY <1>1, <1>2, <1>3, FrameOps, ScopedCovers DEF Passed

LEMMA HistoryPasses ==
    ASSUME NEW b \in Batches, NEW p \in BatchPairs(b, Datasets), NEW f \in Frames,
           p[1] \in Supplied, FitRows(b, p[1], f)
    PROVE  Passed(b, p, Scoped(f, ScopeOf[b]))
<1>1. ScopeOf[b] \in SUBSET Codes /\ Scope(b, p[1]) = ScopeOf[b]
  BY DEF Scope, Supplied
<1>2. p[1] # "st_history" => Covers(f, ScopeOf[b])
  BY DEF FitRows, Supplied
<1> QED
  BY <1>1, <1>2, FrameOps, ScopedCovers DEF Passed

LEMMA AuditFrame ==
    ASSUME TypeInv, AuditInv, UNCHANGED goal20 PROVE AuditInv'
  BY DEF goal20, AuditInv, BatchPairs, Passed, Holds, FirstBy, FitRows, NeedsProof, Covers

LEMMA EndAuditInv == ASSUME EndAudit PROVE AuditInv'
  BY DEF EndAudit, AuditInv

\* One input is done with: it is refused, or what is kept of it has passed.
LEMMA AuditedInv ==
    ASSUME TypeInv, AuditInv, pc \in {"audit", "cover", "trace"}, pc' = "audit",
           UNCHANGED <<batch, versions>>,
           NEW p \in FirstBy(AuditRank, todo), todo' = todo \ {p}, NEW f,
           \/ refused' = refused \cup {p[1]} /\ UNCHANGED frames
           \/ /\ UNCHANGED refused /\ Passed(batch, p, f)
              /\ frames' = [frames EXCEPT ![p[1]][p[2]] = f]
    PROVE  AuditInv'
<1>1. /\ p \in BatchPairs(batch, Datasets) /\ p[1] \in Datasets /\ p[2] \in Dates
      /\ batch \in Batches
  BY FirstIsOf, Working DEF TypeInv, TypeOK, Goal20OK
<1>2. ASSUME NEW q \in BatchPairs(batch, Datasets), q \notin todo'
      PROVE  q[1] \in refused' \/ Passed(batch, q, frames'[q[1]][q[2]])
  <2>1. q[1] \in Datasets /\ q[2] \in Dates /\ q = <<q[1], q[2]>> /\ p = <<p[1], p[2]>>
    BY <1>1, Working DEF BatchPairs
  <2>2. frames \in [Datasets -> [Dates -> OrNone(Frames)]]
    BY DEF TypeInv, TypeOK, Goal20OK, Tables
  <2>3. CASE q # p
    <3>1. q[1] \in refused \/ Passed(batch, q, frames[q[1]][q[2]])
      BY <1>2, <2>3 DEF AuditInv
    <3>2. frames'[q[1]][q[2]] = frames[q[1]][q[2]] /\ refused \subseteq refused'
      BY <1>1, <2>1, <2>2, <2>3
    <3> QED
      BY <3>1, <3>2
  <2>4. CASE q = p
    <3>1. CASE refused' = refused \cup {p[1]}
      BY <2>4, <3>1
    <3>2. CASE ~(refused' = refused \cup {p[1]})
      <4>1. Passed(batch, p, f) /\ frames'[p[1]][p[2]] = f
        BY <1>1, <2>2, <3>2
      <4> QED
        BY <2>4, <4>1
    <3> QED
      BY <3>1, <3>2
  <2> QED
    BY <2>3, <2>4
<1> QED
  BY <1>2 DEF AuditInv, Passed, Holds, BatchPairs

\* The history that is being proven is the next one to be audited.
LEMMA HistoryReadInv ==
    ASSUME TypeInv, AuditInv, NEW p \in FirstBy(AuditRank, todo), p[1] \in Supplied,
           pc \in {"audit", "cover", "trace"}, pc' \in {"cover", "trace"},
           FitRows(batch, p[1], existing'),
           UNCHANGED <<batch, versions, todo, refused, frames>>
    PROVE  AuditInv'
<1>1. ASSUME NEW q \in FirstBy(AuditRank, todo) PROVE q[1] = p[1]
  <2>1. {p[1], q[1]} \subseteq Datasets /\ {p, q} \subseteq todo
    BY FirstIsOf, Working DEF TypeInv, TypeOK, Goal20OK
  <2>2. AuditRank[p[1]] \in Int /\ AuditRank[q[1]] \in Int
    BY <2>1 DEF AuditRank
  <2> QED
    BY <2>1, <2>2 DEF FirstBy
<1>2. \A q \in FirstBy(AuditRank, todo) : q[1] \in Supplied /\ FitRows(batch, q[1], existing')
  BY <1>1
<1>3. \A q \in BatchPairs(batch, Datasets) \ todo :
         q[1] \in refused \/ Passed(batch, q, frames[q[1]][q[2]])
  BY DEF AuditInv
<1> QED
  BY <1>2, <1>3 DEF AuditInv, BatchPairs, Passed, Holds, FirstBy, FitRows, NeedsProof, Covers

LEMMA AuditInputInv ==
    ASSUME TypeInv, AuditInv,
           AuditInput \/ AuditFails \/ ReadHistory \/ ReadCoverage \/ TraceHistory
    PROVE  AuditInv'
<1>1. /\ pc \in {"audit", "cover", "trace"} /\ UNCHANGED <<batch, versions>>
      /\ batch \in Batches /\ reuse \in BOOLEAN
  BY Working DEF AuditInput, AuditFails, ReadHistory, ReadCoverage, TraceHistory, TypeInv, TypeOK,
                 Goal20OK
<1>2. ASSUME NEW p \in FirstBy(AuditRank, todo), todo' = todo \ {p}, pc' = "audit",
             refused' = refused \cup {p[1]}, UNCHANGED frames
      PROVE  AuditInv'
  BY <1>1, <1>2, AuditedInv
<1>3. CASE AuditInput
  <2>1. PICK p \in FirstBy(AuditRank, todo) :
           /\ p[1] \notin Supplied /\ todo' = todo \ {p}
           /\ \/ /\ FitInput(batch, p[1], p[2], reuse) /\ UNCHANGED refused
                 /\ frames' = [frames EXCEPT ![p[1]][p[2]] =
                                  Scoped(Source(batch, p[1], p[2], reuse), Scope(batch, p[1]))]
              \/ refused' = refused \cup {p[1]} /\ UNCHANGED frames
    BY <1>3 DEF AuditInput
  <2>2. pc' = "audit" /\ p \in BatchPairs(batch, Datasets)
    BY <1>1, <1>3, FirstIsOf, Working DEF AuditInput
  <2>3. CASE FitInput(batch, p[1], p[2], reuse) /\ UNCHANGED refused
    <3>1. Passed(batch, p, Scoped(Source(batch, p[1], p[2], reuse), Scope(batch, p[1])))
      BY <1>1, <2>1, <2>2, <2>3, FitPasses
    <3> QED
      BY <1>1, <1>2, <2>1, <2>2, <3>1, AuditedInv
  <2> QED
    BY <1>2, <2>1, <2>2, <2>3
<1>4. CASE AuditFails
  BY <1>2, <1>4 DEF AuditFails
<1>5. CASE ReadHistory
  <2>1. PICK p \in FirstBy(AuditRank, todo) :
           \/ /\ p[1] \in Supplied /\ pc' \in {"cover", "trace"} /\ UNCHANGED <<todo, refused>>
              /\ FitRows(batch, p[1], existing')
           \/ pc' = "audit" /\ todo' = todo \ {p} /\ refused' = refused \cup {p[1]}
    BY <1>5 DEF ReadHistory
  <2>2. UNCHANGED frames
    BY <1>5 DEF ReadHistory
  <2> QED
    BY <1>1, <1>2, <2>1, <2>2, HistoryReadInv
<1>6. CASE ReadCoverage
  <2>1. PICK p \in FirstBy(AuditRank, todo) :
           \/ pc' = "trace" /\ UNCHANGED <<todo, refused, existing>>
           \/ pc' = "audit" /\ todo' = todo \ {p} /\ refused' = refused \cup {p[1]}
    BY <1>6 DEF ReadCoverage
  <2>2. /\ UNCHANGED frames
        /\ p[1] \in Supplied /\ FitRows(batch, p[1], existing)
    BY <1>6 DEF ReadCoverage, AuditInv
  <2> QED
    BY <1>1, <1>2, <2>1, <2>2, HistoryReadInv
<1>7. CASE TraceHistory
  <2>1. PICK p \in FirstBy(AuditRank, todo) :
           /\ todo' = todo \ {p}
           /\ \/ /\ UNCHANGED refused
                 /\ frames' = [frames EXCEPT ![p[1]][p[2]] = Scoped(existing, ScopeOf[batch])]
              \/ refused' = refused \cup {p[1]} /\ UNCHANGED frames
    BY <1>7 DEF TraceHistory
  <2>2. /\ pc' = "audit" /\ p \in BatchPairs(batch, Datasets) /\ existing \in Frames
        /\ p[1] \in Supplied /\ FitRows(batch, p[1], existing)
    BY <1>1, <1>7, FirstIsOf, Working DEF TraceHistory, AuditInv, TypeInv, WorkInv
  <2>3. Passed(batch, p, Scoped(existing, ScopeOf[batch]))
    BY <1>1, <2>2, HistoryPasses
  <2> QED
    BY <1>1, <1>2, <2>1, <2>2, <2>3, AuditedInv
<1> QED
  BY <1>3, <1>4, <1>5, <1>6, <1>7

LEMMA DecideInv == ASSUME TypeInv, AuditInv, Decide PROVE AuditInv'
<1>1. pc = "audit" /\ todo = {} /\ UNCHANGED <<batch, refused, frames, versions>>
  BY DEF Decide
<1>2. CASE refused # {}
  BY <1>1, <1>2 DEF Decide, AuditInv
<1>3. CASE refused = {}
  <2>1. \A p \in BatchPairs(batch, Datasets) : Passed(batch, p, frames[p[1]][p[2]])
    BY <1>1, <1>3 DEF AuditInv
  <2>2. \/ pc' = "read"
        \/ pc' = "verify" /\ todo' = BatchPairs(batch, Datasets)
    BY <1>3 DEF Decide
  <2> QED
    BY <1>1, <1>3, <2>1, <2>2 DEF AuditInv, BatchPairs, Passed, Holds
<1> QED
  BY <1>2, <1>3

LEMMA PromotionInv ==
    ASSUME TypeInv, AuditInv, ReadForPromotion \/ WritePromotion \/ PromotionFails PROVE AuditInv'
<1>1. CASE ReadForPromotion
  BY <1>1 DEF ReadForPromotion, AuditInv, BatchPairs, Passed, Holds
<1>2. CASE WritePromotion
  <2>1. \/ pc' = "read"
        \/ pc' = "verify" /\ todo' = BatchPairs(batch, Datasets)
    BY <1>2 DEF WritePromotion, Advance
  <2> QED
    BY <1>2, <2>1 DEF WritePromotion, AuditInv, BatchPairs, Passed, Holds
<1>3. CASE PromotionFails
  <2>1. refused' # {} /\ pc' = "report"
    BY <1>3 DEF PromotionFails
  <2> QED
    BY <2>1 DEF AuditInv
<1> QED
  BY <1>1, <1>2, <1>3

LEMMA VerifyInv == ASSUME TypeInv, AuditInv, VerifyInput PROVE AuditInv'
<1>1. pc = "verify" /\ UNCHANGED <<batch, frames>>
  BY DEF VerifyInput
<1>2. PICK p \in FirstBy(ReadBackRank, todo) :
         /\ \/ /\ ReadsBack(p) /\ UNCHANGED refused
               /\ versions' = [versions EXCEPT ![p[1]][p[2]] = canonical[p[1]][p[2]]]
            \/ refused' = refused \cup {p[1]} /\ UNCHANGED versions
         /\ Advance(p, "verify", "report", {})
  BY DEF VerifyInput
<1>3. /\ p \in todo /\ p[1] \in Datasets /\ p[2] \in Dates /\ canonical[p[1]][p[2]] \in Frames
      /\ p \in BatchPairs(batch, Datasets)
  BY <1>1, <1>2, FirstIsOf, CanonicalRead, Working DEF TypeInv, TypeOK, Goal20OK
<1>4. ASSUME NEW q \in BatchPairs(batch, Datasets), q \notin todo \/ q = p
      PROVE  q[1] \in refused' \/ Holds(batch, q, versions'[q[1]][q[2]], frames[q[1]][q[2]])
  <2>1. q[1] \in Datasets /\ q[2] \in Dates /\ q = <<q[1], q[2]>> /\ p = <<p[1], p[2]>>
    BY <1>1, <1>3, Working DEF BatchPairs
  <2>2. versions \in [Datasets -> [Dates -> OrNone(Frames)]]
    BY DEF TypeInv, TypeOK, Goal20OK, Tables
  <2>3. CASE q # p
    <3>1. q[1] \in refused \/ Holds(batch, q, versions[q[1]][q[2]], frames[q[1]][q[2]])
      BY <1>1, <1>4, <2>3 DEF AuditInv
    <3>2. versions'[q[1]][q[2]] = versions[q[1]][q[2]] /\ refused \subseteq refused'
      BY <1>2, <1>3, <2>1, <2>2, <2>3
    <3> QED
      BY <3>1, <3>2
  <2>4. CASE q = p
    <3>1. CASE refused' = refused \cup {p[1]}
      BY <2>4, <3>1
    <3>2. CASE ~(refused' = refused \cup {p[1]})
      <4>1. versions'[p[1]][p[2]] = canonical[p[1]][p[2]]
        BY <1>2, <1>3, <2>2, <3>2
      <4> QED
        BY <1>2, <1>3, <2>4, <3>2, <4>1 DEF ReadsBack, Holds
    <3> QED
      BY <3>1, <3>2
  <2> QED
    BY <2>3, <2>4
<1>5. \/ pc' = "verify" /\ todo' = todo \ {p}
      \/ pc' = "report" /\ todo = {p}
  BY <1>2 DEF Advance
<1>6. \A q \in BatchPairs(batch, Datasets) : Passed(batch, q, frames[q[1]][q[2]])
  BY <1>1 DEF AuditInv
<1>7. CASE pc' = "verify" /\ todo' = todo \ {p}
  BY <1>1, <1>4, <1>6, <1>7 DEF AuditInv, BatchPairs, Passed, Holds
<1>8. CASE pc' = "report" /\ todo = {p}
  BY <1>1, <1>4, <1>6, <1>8, SMTT(30) DEF AuditInv, BatchPairs, Passed, Holds
<1> QED
  BY <1>5, <1>7, <1>8

LEMMA NextAudit == TypeInv /\ AuditInv /\ [Next]_vars => AuditInv'
<1> SUFFICES ASSUME TypeInv, AuditInv, [Next]_vars PROVE AuditInv'
  OBVIOUS
<1>1. CASE UNCHANGED goal20
  BY <1>1, AuditFrame
<1>2. CASE \E b \in Batches, v, reu, apl \in BOOLEAN : StartAudit(b, v, reu, apl)
  BY <1>2, PairsOf DEF StartAudit, AuditInv, BatchPairs
<1>3. CASE FetchStaging \/ FetchStagingFails
  <2>1. \/ pc' = "fetch"
        \/ pc' = "audit" /\ todo' = BatchPairs(batch, Datasets) /\ batch' = batch
    BY <1>3 DEF FetchStaging, FetchStagingFails, Advance
  <2> QED
    BY <2>1 DEF AuditInv, BatchPairs
<1>4. CASE WriteReport
  BY <1>4 DEF WriteReport, AuditInv
<1> QED
  BY <1>1, <1>2, <1>3, <1>4, AuditInputInv, DecideInv, PromotionInv, VerifyInv, EndAuditInv
     DEF Next, vars, WriteManifest, AuditDies, StartLanding, FetchLanding, LandingFetchFails,
         LoadLanding, ReadForLanding, WriteLanding, LandingDies, StartReader, ReadReceipt, Trust,
         ReadInput, ReaderDies, RewriteCanonical, CorrectHistory, SupplyHistory

-----------------------------------------------------------------------------
(* Receipts, and what Goal 22 makes of them. *)

LEMMA ReceiptsNamed ==
    ASSUME TypeOK
    PROVE  \A b \in Batches : /\ report[b] \in Receipts \cup {None}
                              /\ receipts[b] \in Receipts \cup {None}
  BY DEF TypeOK, StoreOK, Goal22OK, OrNone

LEMMA NextReceipt == TypeInv /\ AuditInv /\ ReceiptInv /\ [Next]_vars => ReceiptInv'
<1> SUFFICES ASSUME TypeInv, AuditInv, ReceiptInv, [Next]_vars, NEW b \in Batches
             PROVE  /\ report'[b] # None => Honest(b, report'[b])
                    /\ receipts'[b] # None => Honest(b, receipts'[b])
  BY Zenon DEF ReceiptInv, Honest, BatchPairs, Passed, Holds
<1>1. report'[b] # None => Honest(b, report'[b])
  <2>1. CASE WriteReport
    <3> DEFINE r == [id |-> run, ready |-> refused = {}, versions |-> versions, audited |-> frames]
    <3>1. CASE b = batch
      <4>1. report'[b] = r
        BY <2>1, <3>1 DEF WriteReport, TypeInv, TypeOK, StoreOK
      <4>2. r.ready => \A p \in BatchPairs(b, Datasets) :
               /\ Passed(b, p, r.audited[p[1]][p[2]])
               /\ Holds(b, p, r.versions[p[1]][p[2]], r.audited[p[1]][p[2]])
        BY <2>1, <3>1 DEF WriteReport, AuditInv
      <4> QED
        BY <4>1, <4>2, Zenon DEF Honest
    <3>2. CASE b # batch
      BY <2>1, <3>2 DEF WriteReport, TypeInv, TypeOK, StoreOK, ReceiptInv
    <3> QED
      BY <3>1, <3>2
  <2>2. CASE UNCHANGED report
    BY <2>2 DEF ReceiptInv
  <2> QED
    BY <2>1, <2>2, Zenon
       DEF Next, vars, store, StartLanding, FetchLanding, LandingFetchFails, LoadLanding,
           ReadForLanding, WriteLanding, LandingDies, StartAudit, FetchStaging,
           FetchStagingFails, AuditInput, ReadHistory, ReadCoverage, TraceHistory, AuditFails,
           Decide, ReadForPromotion, WritePromotion,
           PromotionFails, VerifyInput, WriteManifest, AuditDies, StartReader, ReadReceipt,
           Trust, ReadInput, ReaderDies, RewriteCanonical, CorrectHistory, SupplyHistory
<1>2. receipts'[b] # None => Honest(b, receipts'[b])
  <2>1. \/ receipts'[b] \in {None, receipts[b]}
        \/ report[b] # None /\ receipts'[b] = report[b]
    <3>1. CASE ReadReceipt
      <4>1. \/ EndReader
            \/ UNCHANGED receipts
            \/ \E item \in gtodo : /\ item[2] = "report"
                                   /\ receipts' = [receipts EXCEPT ![item[1]] = report[item[1]]]
        BY <3>1 DEF ReadReceipt
      <4>2. CASE EndReader
        BY <4>2 DEF EndReader
      <4>3. ASSUME NEW item \in gtodo, item[2] = "report",
                   receipts' = [receipts EXCEPT ![item[1]] = report[item[1]]]
            PROVE  \/ receipts'[b] \in {None, receipts[b]}
                   \/ report[b] # None /\ receipts'[b] = report[b]
        <5>1. report[item[1]] # None
          BY <3>1, <4>3 DEF ReadReceipt, TypeInv, GateInv
        <5> QED
          BY <4>3, <5>1 DEF TypeInv, TypeOK, Goal22OK
      <4> QED
        BY <4>1, <4>2, <4>3
    <3>2. CASE UNCHANGED receipts
      BY <3>2
    <3>3. CASE EndReader \/ \E B \in SUBSET Batches, D \in SUBSET Dates : StartReader(B, D)
      BY <3>3 DEF EndReader, StartReader
    <3> QED
      BY <3>1, <3>2, <3>3, Zenon
       DEF Next, vars, goal22, StartLanding, FetchLanding, LandingFetchFails, LoadLanding,
           ReadForLanding, WriteLanding, LandingDies, StartAudit, FetchStaging,
           FetchStagingFails, AuditInput, ReadHistory, ReadCoverage, TraceHistory, AuditFails,
           Decide, ReadForPromotion, WritePromotion,
           PromotionFails, VerifyInput, WriteReport, WriteManifest, AuditDies, Trust, ReadInput,
           ReaderDies, RewriteCanonical, CorrectHistory, SupplyHistory
  <2> QED
    BY <2>1 DEF ReceiptInv
<1> QED
  BY <1>1, <1>2

LEMMA ReaderFrame ==
    ASSUME TrustInv, RowsInv, UNCHANGED goal22 PROVE TrustInv' /\ RowsInv'
<1>1. UNCHANGED <<gpc, receipts, asked, gtodo, rows>>
  BY DEF goal22
<1>2. Given' = Given /\ Agree' = Agree /\ \A d : Trusted(d)' = Trusted(d)
  BY <1>1 DEF Given, Agree, Covering, Trusted
<1>3. TrustInv'
  BY <1>1, <1>2 DEF TrustInv
<1>4. RowsInv'
  BY <1>1, <1>2 DEF RowsInv
<1> QED
  BY <1>3, <1>4

LEMMA ReaderIdle == ASSUME EndReader PROVE TrustInv' /\ RowsInv'
  BY DEF EndReader, TrustInv, RowsInv

\* A receipt is passed on only once its manifest was found to carry its name.
LEMMA ReadReceiptInv ==
    ASSUME TypeInv, TrustInv, RowsInv, ReadReceipt PROVE TrustInv' /\ RowsInv'
<1>1. CASE EndReader
  BY <1>1, ReaderIdle
<1>2. CASE ~EndReader
  <2>1. /\ gpc = "report" /\ gpc' = "report"
        /\ gtodo \subseteq Batches \X ({"report", "manifest"} \cup Proof)
    BY <1>2 DEF ReadReceipt, TypeInv, GateInv
  <2>2. PICK item \in gtodo :
           \/ /\ item[2] = "report"
              /\ receipts' = [receipts EXCEPT ![item[1]] = report[item[1]]]
              /\ gtodo' = (gtodo \ {item}) \cup {<<item[1], "manifest">>}
           \/ /\ item[2] = "manifest" /\ receipts[item[1]].ready /\ UNCHANGED receipts
              /\ gtodo \ {item} \subseteq gtodo'
           \/ item[2] \in Proof /\ UNCHANGED receipts /\ gtodo \ {item} \subseteq gtodo'
    BY <1>2 DEF ReadReceipt
  <2>3. ASSUME NEW b \in Batches, receipts'[b] # None
        PROVE  <<b, "manifest">> \in gtodo' \/ receipts'[b].ready
    <3>1. item = <<item[1], item[2]>>
      BY <2>1
    <3>2. CASE item[2] = "report"
      <4>1. CASE b = item[1]
        BY <2>2, <3>2, <4>1 DEF Proof
      <4>2. CASE b # item[1]
        <5>1. receipts'[b] = receipts[b]
          BY <2>2, <3>2, <4>2 DEF TypeInv, TypeOK, Goal22OK
        <5>2. <<b, "manifest">> \in gtodo => <<b, "manifest">> \in gtodo'
          BY <2>2, <3>1, <3>2
        <5> QED
          BY <2>1, <2>3, <5>1, <5>2 DEF TrustInv, Given
      <4> QED
        BY <4>1, <4>2
    <3>3. CASE item[2] # "report"
      <4>1. receipts'[b] = receipts[b]
        BY <2>2, <3>3
      <4>2. <<b, "manifest">> \in gtodo => <<b, "manifest">> \in gtodo' \/ receipts[b].ready
        BY <2>2, <3>1, <3>3 DEF Proof
      <4> QED
        BY <2>1, <2>3, <4>1, <4>2 DEF TrustInv, Given
    <3> QED
      BY <3>2, <3>3
  <2> QED
    BY <2>1, <2>3 DEF TrustInv, RowsInv, Given
<1> QED
  BY <1>1, <1>2

LEMMA TrustStepInv == ASSUME TypeInv, TrustInv, RowsInv, Trust PROVE TrustInv' /\ RowsInv'
<1>1. CASE EndReader
  BY <1>1, ReaderIdle
<1>2. CASE ~EndReader
  <2>1. /\ gpc = "report" /\ gtodo = {} /\ Agree /\ gpc' = "input" /\ gtodo' = Datasets \X asked
        /\ UNCHANGED <<receipts, asked, rows>>
    BY <1>2 DEF Trust
  <2>2. Agree' /\ Given' = Given
    BY <2>1 DEF Agree, Given, Covering
  <2>3. TrustInv'
    BY <2>1, <2>2 DEF TrustInv, Given
  <2>4. \A p \in gtodo', ds \in Datasets : <<ds, p[2]>> \in gtodo'
    BY <2>1
  <2> QED
    BY <2>3, <2>4 DEF RowsInv
<1> QED
  BY <1>1, <1>2

LEMMA ReadInputInv ==
    ASSUME TypeInv, TrustInv, RowsInv, ReadInput PROVE TrustInv' /\ RowsInv'
<1> DEFINE F(p) == Scoped(canonical[p[1]][p[2]], Scope(Trusted(p[2]), p[1]))
           left(p) == IF SameVersion(p) THEN gtodo \ {p} ELSE {q \in gtodo : q[2] # p[2]}
<1>1. PICK p \in FirstOfDate(gtodo) :
         IF left(p) = {} THEN EndReader
         ELSE /\ gtodo' = left(p)
              /\ rows' = [rows EXCEPT ![p[1]][p[2]] = F(p)]
              /\ UNCHANGED <<gpc, receipts, asked>>
  BY DEF ReadInput
<1>2. CASE left(p) = {}
  BY <1>1, <1>2, ReaderIdle
<1>3. CASE left(p) # {}
  <2>1. /\ gtodo' = left(p) /\ rows' = [rows EXCEPT ![p[1]][p[2]] = F(p)]
        /\ gpc = "input" /\ UNCHANGED <<gpc, receipts, asked>>
    BY <1>1, <1>3 DEF ReadInput
  <2>2. /\ p \in gtodo /\ gtodo \subseteq Datasets \X Dates
        /\ rows \in [Datasets -> [Dates -> OrNone(Frames)]]
    BY <1>1, FirstIsOf DEF TypeInv, TypeOK, Goal22OK, GateInv, ReadInput, Tables
  <2>3. TrustInv'
    BY <2>1 DEF TrustInv, Agree, Given, Covering
  <2>4. \A d : Trusted(d)' = Trusted(d)
    BY <2>1 DEF Trusted, Covering, Given
  <2>5. ASSUME NEW q \in gtodo', NEW ds \in Datasets, <<ds, q[2]>> \notin gtodo'
        PROVE  rows'[ds][q[2]] = Scoped(receipts[Trusted(q[2])].versions[ds][q[2]],
                                        Scope(Trusted(q[2]), ds))
    <3>1. q \in gtodo /\ p = <<p[1], p[2]>> /\ p[1] \in Datasets /\ p[2] \in Dates /\ q[2] \in Dates
      BY <2>1, <2>2, <2>5
    <3>2. CASE <<ds, q[2]>> = p
      <4>1. SameVersion(p)
        BY <2>1, <2>5, <3>1, <3>2
      <4>2. rows'[ds][q[2]] = F(p)
        BY <2>1, <2>2, <3>1, <3>2
      <4> QED
        BY <3>1, <3>2, <4>1, <4>2 DEF SameVersion
    <3>3. CASE <<ds, q[2]>> # p
      <4>1. <<ds, q[2]>> \notin gtodo
        BY <2>1, <2>5, <3>1, <3>3
      <4>2. rows'[ds][q[2]] = rows[ds][q[2]]
        BY <2>1, <2>2, <3>1, <3>3
      <4> QED
        BY <2>1, <3>1, <4>1, <4>2, SMTT(30) DEF RowsInv
    <3> QED
      BY <3>2, <3>3
  <2> QED
    BY <2>1, <2>3, <2>4, <2>5 DEF RowsInv
<1> QED
  BY <1>2, <1>3

LEMMA NextReader ==
    TypeInv /\ TrustInv /\ RowsInv /\ [Next]_vars => TrustInv' /\ RowsInv'
<1> SUFFICES ASSUME TypeInv, TrustInv, RowsInv, [Next]_vars PROVE TrustInv' /\ RowsInv'
  OBVIOUS
<1>1. CASE UNCHANGED goal22
  BY <1>1, ReaderFrame
<1>2. CASE \E B \in SUBSET Batches, D \in SUBSET Dates : StartReader(B, D)
  BY <1>2 DEF StartReader, TrustInv, RowsInv, Given
<1> QED
  BY <1>1, <1>2, ReadReceiptInv, TrustStepInv, ReadInputInv, ReaderIdle
     DEF Next, vars, StartLanding, FetchLanding, LandingFetchFails, LoadLanding, ReadForLanding,
         WriteLanding, LandingDies, StartAudit, FetchStaging, FetchStagingFails, AuditInput,
         ReadHistory, ReadCoverage, TraceHistory,
         AuditFails, Decide, ReadForPromotion, WritePromotion, PromotionFails, VerifyInput,
         WriteReport, WriteManifest, AuditDies, ReaderDies, RewriteCanonical, CorrectHistory,
         SupplyHistory

-----------------------------------------------------------------------------
(* The theorems. *)

LEMMA InitInv == Init => IInv
<1> SUFFICES ASSUME Init PROVE IInv
  OBVIOUS
<1>1. StoreOK
  BY FrameOps, SomeSubsets DEF Init, StoreOK, Tables, OrNone
<1>2. Goal18OK /\ Goal20OK /\ Goal22OK /\ BoundsOK
  <2>1. Goal18OK
    BY UnsetType DEF Init, Goal18OK, OrNone
  <2>2. Goal20OK
    BY UnsetType DEF Init, Goal20OK, OrNone
  <2>3. Goal22OK
    BY UnsetType DEF Init, Goal22OK, OrNone
  <2>4. BoundsOK
    <3>1. MaxLands \in Nat /\ MaxEdits \in Nat /\ MaxFaults \in Nat
      OBVIOUS
    <3> QED
      BY <3>1 DEF Init, BoundsOK
  <2> QED
    BY <2>1, <2>2, <2>3, <2>4
<1>3. LandingInv /\ WorkInv /\ GateInv
  BY DEF Init, LandingInv, WorkInv, GateInv
<1>4. AuditInv /\ ReceiptInv /\ TrustInv /\ RowsInv
  BY DEF Init, AuditInv, ReceiptInv, TrustInv, RowsInv
<1> QED
  BY <1>1, <1>2, <1>3, <1>4 DEF IInv, TypeInv, TypeOK

LEMMA Inductive == Spec => []IInv
<1>1. IInv /\ [Next]_vars => IInv'
  BY NextType, NextAudit, NextReceipt, NextReader DEF IInv
<1> QED
  BY InitInv, <1>1, PTL DEF Spec

\* Partitions, staging, receipts and the memory of the three processes stay well-formed
\* (the tables that the landing, the audit and the gate exchange), whoever else writes.
THEOREM TypeCorrect == Spec => []TypeOK
<1>1. IInv => TypeOK
  BY DEF IInv, TypeInv
<1> QED
  BY Inductive, <1>1, PTL

\* The step that completes a date completes it from the versions of one receipt.
LEMMA AcceptedStep ==
    ASSUME IInv, ReadInput, NEW d \in Dates, accepted'[d] # accepted[d]
    PROVE  \E b \in Batches :
              /\ receipts[b] # None /\ d \in DatesOf[b]
              /\ \A ds \in Datasets :
                    /\ accepted'[d][ds] = receipts[b].audited[ds][d]
                    /\ ds # "st_history" => Covers(accepted'[d][ds], Scope(b, ds))
<1> DEFINE F(p) == Scoped(canonical[p[1]][p[2]], Scope(Trusted(p[2]), p[1]))
           left(p) == IF SameVersion(p) THEN gtodo \ {p} ELSE {q \in gtodo : q[2] # p[2]}
           whole(p) == [ds \in Datasets |-> IF ds = p[1] THEN F(p) ELSE rows[ds][p[2]]]
<1>1. PICK p \in FirstOfDate(gtodo) :
         accepted' = IF SameVersion(p) /\ \A q \in left(p) : q[2] # p[2]
                     THEN [accepted EXCEPT ![p[2]] = whole(p)] ELSE accepted
  BY DEF ReadInput
<1>2. /\ gpc = "input" /\ p \in gtodo /\ p = <<p[1], p[2]>>
      /\ p[1] \in Datasets /\ p[2] \in asked /\ p[2] \in Dates
  BY <1>1, FirstIsOf DEF ReadInput, IInv, TypeInv, TypeOK, Goal22OK, GateInv
<1>3. accepted \in [Dates -> OrNone([Datasets -> OrNone(Frames)])]
  BY DEF IInv, TypeInv, TypeOK, Goal22OK
<1>4. SameVersion(p) /\ (\A q \in gtodo \ {p} : q[2] # p[2]) /\ d = p[2]
  BY <1>1, <1>3
<1>5. accepted'[d] = whole(p)
  <2> HIDE DEF whole, left
  <2>1. \A q \in left(p) : q[2] # p[2]
    BY <1>4 DEF left
  <2> QED
    BY <1>1, <1>3, <1>4, <2>1
<1> DEFINE b == Trusted(d)
<1>6. b \in Batches /\ receipts[b] # None /\ d \in DatesOf[b] /\ receipts[b].ready
  <2>1. Covering(d) # {}
    BY <1>2, <1>4 DEF IInv, TrustInv, Agree
  <2>2. b \in Covering(d)
    BY <2>1 DEF Trusted
  <2> QED
    BY <1>2, <2>2 DEF Covering, Given, IInv, TrustInv
<1> HIDE DEF b
<1>7. ASSUME NEW ds \in Datasets
      PROVE  accepted'[d][ds] = Scoped(receipts[b].versions[ds][d], Scope(b, ds))
  <2>1. CASE ds = p[1]
    <3>1. accepted'[d][ds] = F(p)
      BY <1>5, <2>1
    <3> QED
      BY <1>4, <2>1, <3>1 DEF SameVersion, b
  <2>2. CASE ds # p[1]
    <3>1. accepted'[d][ds] = rows[ds][d]
      BY <1>4, <1>5, <2>2
    <3>2. <<ds, d>> \notin gtodo
      BY <1>2, <1>4, <2>2
    <3> QED
      BY <1>2, <1>4, <3>1, <3>2 DEF IInv, RowsInv, b
  <2> QED
    BY <2>1, <2>2
<1>8. ASSUME NEW ds \in Datasets
      PROVE  /\ Scoped(receipts[b].versions[ds][d], Scope(b, ds)) = receipts[b].audited[ds][d]
             /\ ds # "st_history" => Covers(receipts[b].audited[ds][d], Scope(b, ds))
  <2>1. Honest(b, receipts[b])
    BY <1>6 DEF IInv, ReceiptInv
  <2>2. <<ds, d>> \in BatchPairs(b, Datasets)
    BY <1>6 DEF BatchPairs
  <2> QED
    BY <1>6, <2>1, <2>2 DEF Honest, Passed, Holds
<1> QED
  BY <1>6, <1>7, <1>8

\* However the partitions are rewritten between audit, promotion, read-back, receipt and the
\* reads of Goal 22, what it takes for a date is what one Goal 20 process found fit.
THEOREM AuditedOnly == Spec => AcceptedWasAudited
<1> DEFINE Taken == \A d \in Dates : accepted'[d] # accepted[d] =>
               \E b \in Batches :
                  /\ receipts[b] # None /\ d \in DatesOf[b]
                  /\ \A ds \in Datasets :
                        /\ accepted'[d][ds] = receipts[b].audited[ds][d]
                        /\ ds # "st_history" => Covers(accepted'[d][ds], Scope(b, ds))
<1>1. IInv /\ [Next]_vars => [Taken]_vars
  <2> SUFFICES ASSUME IInv, [Next]_vars PROVE Taken
    OBVIOUS
  <2>1. ReadInput \/ UNCHANGED accepted
    BY Zenon
       DEF Next, vars, goal22, StartLanding, FetchLanding, LandingFetchFails, LoadLanding,
           ReadForLanding, WriteLanding, LandingDies, StartAudit, FetchStaging,
           FetchStagingFails, AuditInput, ReadHistory, ReadCoverage, TraceHistory, AuditFails,
           Decide, ReadForPromotion, WritePromotion,
           PromotionFails, VerifyInput, WriteReport, WriteManifest, AuditDies, StartReader,
           ReadReceipt, Trust, ReaderDies, RewriteCanonical, CorrectHistory, SupplyHistory
  <2>2. CASE ReadInput
    BY <2>2, AcceptedStep
  <2>3. CASE UNCHANGED accepted
    BY <2>3
  <2> HIDE DEF Taken
  <2> QED
    BY <2>1, <2>2, <2>3
<1> QED
  BY Inductive, <1>1, PTL DEF Spec, AcceptedWasAudited
====
