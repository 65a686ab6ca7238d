------------------------ MODULE FinancialHistory_proofs ------------------------
(***************************************************************************)
(* Proofs, for every plan, every set of disclosures and every history of    *)
(* the vendor, that a landing which finds every chunk COMPLETED has left    *)
(* the history, although a process knows the chunks before the one it       *)
(* works on only by the chain it carries.                                   *)
(***************************************************************************)
EXTENDS FinancialHistory, WellFoundedInduction, TLAPS

USE FinancialHistoryAssumption

\* What was staged for a chunk is of its window.
InWindow(f, i) == f = None \/ \A k \in Keys : f[k] # 0 => DayOf[k] \in Window(i)
WindowInv ==
    /\ \A i \in Chunks : /\ InWindow(checkpoint[i].staged, i)
                         /\ ready[i] # None => InWindow(ready[i].staged, i)
    /\ InWindow(work.frame, chunk)

\* The carry of a run that applies is the history of the chunks it has passed, the seed when
\* it has been read, and their partitions hold that history.  All that is known of a chunk that
\* was passed is its checkpoint: one that failed says so.
Reached == IF pc = "end" THEN LastChunk + 1 ELSE chunk
History(n, seeded) == [k \in Keys |->
    IF DayOf[k] = 0 THEN IF seeded THEN Seed[k] ELSE 0
    ELSE IF ChunkOf(k) < n THEN checkpoint[ChunkOf(k)].staged[k] ELSE 0]
CompletedBefore(n) == \A j \in Chunks : j < n => checkpoint[j].state = "COMPLETED"
LandedBefore(n) == \A d \in Open : Slot(d) < n => canonical[d].mine = HistoryAt(d)

ChainInv ==
    (pc # "idle" /\ cmd.apply /\ CompletedBefore(Reached)) =>
        /\ work.prior = History(Reached, chain.seeded)
        /\ ~disturbed => LandedBefore(Reached)

\* What an attempt has done.
Writing == {"read", "write", "readback"}
Applied == Writing \cup {"finish", "checkpoint"}
Attempted == Applied \cup {"carry", "apply"}
AttemptInv ==
    /\ pc \in Attempted => work.frame # None
    /\ pc \in Writing \cup {"apply"} => cmd.apply
    /\ pc \in Applied \cup {"apply"} /\ cmd.apply => chain.seeded \/ DatesOf(chunk) = {}
    /\ pc \in Writing => todo # {} /\ todo \subseteq DatesOf(chunk)
    /\ pc \notin Writing => todo = {}
    /\ pc \in {"write", "readback"} => work.old \in Partitions
    /\ pc = "checkpoint" =>
          /\ ready[chunk] # None /\ ready[chunk].staged = work.frame
          /\ ready[chunk].target = IF cmd.apply THEN "COMPLETED" ELSE "STAGED"
    /\ pc \in Applied /\ cmd.apply /\ ~disturbed =>
          \A d \in DatesOf(chunk) \ todo : canonical[d].mine = Project(work.prior, work.frame, d)

IInv == TypeOK /\ WindowInv /\ ChainInv /\ AttemptInv

-----------------------------------------------------------------------------
(* Days and windows. *)

LEMMA Bounds ==
    /\ LastDay \in Nat /\ WindowDays \in Nat /\ MaxVintage \in Nat /\ MaxEdits \in Nat
    /\ MaxFaults \in Nat /\ LastDay > 0 /\ WindowDays > 0 /\ MaxVintage > 0
    /\ Open \subseteq Days /\ Days \subseteq Nat /\ \A k \in Keys : DayOf[k] \in 0..LastDay
    /\ \A v \in Vintages : v \in 0..MaxVintage /\ v # 0
  BY DEF Days, Vintages

LEMMA Least == ASSUME NEW S \in SUBSET Nat, S # {} PROVE \E d \in S : \A e \in S : d <= e
<1>1. PICK d \in S : \A e \in S : ~(<<e, d>> \in OpToRel(<, Nat))
  BY NatLessThanWellFounded, WFMin, Zenon
<1>2. \A e \in S : ~(e < d)
  BY <1>1 DEF OpToRel
<1> QED
  BY <1>2

LEMMA EarliestIsOf ==
    ASSUME NEW S \in SUBSET Days, S # {} PROVE Earliest(S) \in S
<1>1. \E d \in S : \A e \in S : d <= e
  BY Least, Bounds
<1> QED
  BY <1>1 DEF Earliest

LEMMA LatestIsOf ==
    ASSUME NEW S \in SUBSET Days, S # {}
    PROVE  Latest(S) \in S /\ \A e \in S : e <= Latest(S)
<1> DEFINE T == {LastDay - d : d \in S}
<1>1. \A d \in S : d \in Int /\ LastDay - d \in Nat /\ LastDay - d \in T
  BY Bounds DEF Days
<1>2. T \in SUBSET Nat /\ T # {}
  BY <1>1
<1>3. PICK n \in T : \A m \in T : n <= m
  <2> HIDE DEF T
  <2> QED
    BY <1>2, Least
<1>4. PICK d \in S : n = LastDay - d
  BY <1>3
<1>5. \A e \in S : e <= d
  <2> SUFFICES ASSUME NEW e \in S PROVE e <= d
    OBVIOUS
  <2>1. n <= LastDay - e
    BY <1>1, <1>3
  <2> QED
    BY <1>1, <1>4, <2>1, Bounds
<1> QED
  BY <1>5 DEF Latest

\* Windows follow one another.
LEMMA Quotient ==
    ASSUME NEW a \in Nat, NEW b \in Nat, a <= b, NEW w \in Nat, w > 0
    PROVE  a \div w \in Nat /\ b \div w \in Nat /\ a \div w <= b \div w
<1> DEFINE p == a \div w
           q == b \div w
<1>1. p \in Int /\ w * p <= a /\ a < w * (p + 1)
  OBVIOUS
<1>2. q \in Int /\ w * q <= b /\ b < w * (q + 1)
  OBVIOUS
<1> HIDE DEF p, q
<1>3. ~(p > q)
  <2> SUFFICES ASSUME p > q PROVE FALSE
    OBVIOUS
  <2>1. w * p >= w * (q + 1)
    BY <1>1, <1>2
  <2> QED
    BY <1>1, <1>2, <2>1
<1>4. p >= 0 /\ q >= 0
  BY <1>1, <1>2
<1> QED
  BY <1>1, <1>2, <1>3, <1>4 DEF p, q

LEMMA Slots ==
    /\ LastChunk \in Nat /\ LastChunk >= 1
    /\ \A d \in Days : Slot(d) \in Chunks
    /\ \A d, e \in Days : d <= e => Slot(d) <= Slot(e)
    /\ \A d \in Days : \A i : d \in Window(i) <=> Slot(d) = i
<1>1. \A d, e \in Days : d <= e => Slot(d) \in Nat /\ Slot(e) \in Nat /\ Slot(d) >= 1 /\ Slot(d) <= Slot(e)
  <2> SUFFICES ASSUME NEW d \in Days, NEW e \in Days, d <= e
               PROVE  Slot(d) \in Nat /\ Slot(e) \in Nat /\ Slot(d) >= 1 /\ Slot(d) <= Slot(e)
    OBVIOUS
  <2>1. d - 1 \in Nat /\ e - 1 \in Nat /\ d - 1 <= e - 1
    BY Bounds DEF Days
  <2>2. /\ (d - 1) \div WindowDays \in Nat /\ (e - 1) \div WindowDays \in Nat
        /\ (d - 1) \div WindowDays <= (e - 1) \div WindowDays
    BY <2>1, Bounds, Quotient
  <2> QED
    BY <2>2 DEF Slot
<1>2. LastDay \in Days /\ \A d \in Days : d <= LastDay /\ d <= d
  BY Bounds DEF Days
<1> QED
  BY <1>1, <1>2 DEF LastChunk, Chunks, Window

LEMMA DatesInChunk ==
    ASSUME NEW i \in Chunks
    PROVE  /\ DatesOf(i) \subseteq Open /\ DatesOf(i) \in SUBSET Days
           /\ \A d \in Open : d \in DatesOf(i) <=> Slot(d) = i
  BY Slots, Bounds DEF DatesOf, Window

-----------------------------------------------------------------------------
(* Frames. *)

LEMMA UpsertType ==
    ASSUME NEW old \in Frames, NEW new \in Frames PROVE Upsert(old, new) \in Frames
  BY DEF Upsert, Frames

LEMMA ProjectType ==
    ASSUME NEW prior \in Frames, NEW f \in Frames, NEW d PROVE Project(prior, f, d) \in Frames
<1>1. [k \in Keys |-> IF DayOf[k] <= d THEN f[k] ELSE 0] \in Frames
  BY Bounds DEF Frames
<1> QED
  BY <1>1, UpsertType DEF Project

LEMMA Constants ==
    Seed \in Frames /\ Empty \in Frames /\ NoAnchor \in Anchors /\ NewChain \in Chains
<1>1. Seed \in Frames /\ Empty \in Frames
  BY Bounds DEF Seed, Empty, Frames
<1>2. -1 \in -1..LastDay
  BY Bounds
<1> QED
  BY <1>1, <1>2 DEF NoAnchor, Anchors, NewChain, Chains

LEMMA NewWorkType == ASSUME NEW prior \in Frames PROVE NewWork(prior) \in Works
  BY DEF NewWork, Works, OrNone

LEMMA AnswerType ==
    ASSUME vendor \in Vintages, NEW i PROVE Answer(i) \in Frames /\ InWindow(Answer(i), i)
<1>1. Answer(i) \in Frames
  BY Bounds DEF Answer, Frames
<1>2. \A k \in Keys : Answer(i)[k] # 0 => DayOf[k] \in Window(i)
  BY DEF Answer
<1> QED
  BY <1>1, <1>2 DEF InWindow

-----------------------------------------------------------------------------
(* Types. *)

LEMMA ChainFields ==
    ASSUME NEW c \in Chains
    PROVE  /\ c.carry \in Frames /\ c.whole \in BOOLEAN /\ c.seeded \in BOOLEAN
           /\ c.failed \in BOOLEAN /\ c.last \in -1..LastDay /\ c.anchor \in Anchors
  BY DEF Chains

LEMMA WorkFields ==
    ASSUME NEW w \in Works
    PROVE  w.prior \in Frames /\ w.frame \in OrNone(Frames) /\ w.old \in OrNone(Partitions)
           /\ w.fetched \in BOOLEAN
  BY DEF Works

LEMMA Process ==
    ASSUME TypeOK, pc # "idle"
    PROVE  /\ cmd \in Commands /\ chunk \in Chunks /\ chain \in Chains /\ work \in Works
           /\ cmd.apply \in BOOLEAN /\ cmd.provider \in BOOLEAN /\ cmd.rerun \in BOOLEAN
           /\ Here \in Checkpoints /\ Evidence \in OrNone(Frames)
           /\ Here.staged \in OrNone(Frames) /\ Here.proof \in OrNone(Proofs)
<1>1. cmd \in Commands /\ chunk \in Chunks /\ chain \in Chains /\ work \in Works
  BY DEF TypeOK, ProcessOK
<1>2. Here \in Checkpoints
  BY <1>1 DEF TypeOK, CheckpointsOK, Here
<1>3. Here.staged \in OrNone(Frames) /\ Here.proof \in OrNone(Proofs)
  BY <1>2 DEF Checkpoints
<1> QED
  BY <1>1, <1>2, <1>3, WorkFields DEF Evidence, Commands

LEMMA LastNowType == ASSUME TypeOK, pc # "idle" PROVE LastNow \in -1..LastDay
<1>1. CASE DatesOf(chunk) = {}
  BY <1>1, Process, ChainFields DEF LastNow
<1>2. CASE DatesOf(chunk) # {}
  <2>1. Latest(DatesOf(chunk)) \in Days
    BY <1>2, Process, DatesInChunk, LatestIsOf
  <2> QED
    BY <1>2, <2>1, Bounds DEF LastNow, Days
<1> QED
  BY <1>1, <1>2

LEMMA AnchorNowType ==
    ASSUME TypeOK, pc # "idle", NEW f \in Frames PROVE AnchorNow(f) \in Anchors
<1>1. Project(work.prior, f, LastNow) \in Frames
  BY Process, WorkFields, ProjectType
<1> QED
  BY <1>1, LastNowType, Process, ChainFields DEF AnchorNow, Anchors

LEMMA ProofType == ASSUME TypeOK, pc # "idle", NEW f \in Frames PROVE Proof(f) \in Proofs
  BY LastNowType, AnchorNowType, Process, ChainFields, WorkFields DEF Proof, Proofs

LEMMA CarriedType == ASSUME TypeOK, pc # "idle", NEW f \in Frames PROVE Carried(f) \in Chains
<1>1. Upsert(work.prior, f) \in Frames
  BY Process, WorkFields, UpsertType
<1> QED
  BY <1>1, LastNowType, AnchorNowType, Process, ChainFields DEF Carried, Chains

LEMMA SeededType == ASSUME TypeOK, pc # "idle" PROVE SeededChain \in Chains
<1>1. [date |-> 0, frame |-> Seed] \in Anchors /\ 0 \in -1..LastDay
  BY Constants, Bounds DEF Anchors
<1> QED
  BY <1>1, Process, ChainFields DEF SeededChain, Chains

LEMMA ForgetType == ASSUME TypeOK, Forget PROVE ProcessOK'
<1>1. 1 \in Chunks
  BY Slots DEF Chunks
<1> QED
  BY <1>1, Constants, NewWorkType DEF Forget, ProcessOK, OrNone

LEMMA AdvanceType ==
    ASSUME TypeOK, pc # "idle", NEW c \in Chains, Advance(c)
    PROVE  ProcessOK' /\ pc' \in {"visit", "end"}
<1>1. chunk' \in Chunks /\ pc' \in {"visit", "end"}
  BY Process, Slots DEF Advance, Final, Chunks
<1>2. NewWork(c.carry) \in Works
  BY NewWorkType, ChainFields
<1> QED
  BY <1>1, <1>2, Process DEF Advance, ProcessOK, OrNone

LEMMA CheckpointType ==
    ASSUME TypeOK, NEW i, NEW c \in Checkpoints,
           c.state \in Settled => c.staged # None,
           c.proof # None <=> c.state = "COMPLETED",
           checkpoint' = [checkpoint EXCEPT ![i] = c]
    PROVE  CheckpointsOK'
  BY DEF TypeOK, CheckpointsOK

LEMMA FailToType ==
    ASSUME TypeOK, pc # "idle", NEW s \in OrNone(Frames), NEW v \in BOOLEAN, NEW c \in Chains,
           FailTo(s, v, c)
    PROVE  CheckpointsOK' /\ ProcessOK'
<1>1. [state |-> "FAILED", staged |-> s, proof |-> None] \in Checkpoints
  BY DEF Checkpoints, OrNone
<1>2. CheckpointsOK'
  BY <1>1, CheckpointType DEF FailTo, Settled
<1>3. [c EXCEPT !.whole = @ /\ v] \in Chains
  BY ChainFields DEF Chains
<1> QED
  BY <1>2, <1>3, AdvanceType DEF FailTo

LEMMA FaultType ==
    ASSUME TypeOK, Quiet \/ Fault, others' = others, refused' \in BOOLEAN PROVE OthersOK'
  BY Bounds DEF TypeOK, OthersOK, Quiet, Fault, others

LEMMA StartType == ASSUME TypeOK, NEW c \in Commands, Start(c) PROVE TypeOK'
<1>1. ProcessOK'
  BY DEF Start, TypeOK, ProcessOK, OrNone
<1>2. edits' \in 0..MaxEdits
  BY Bounds DEF Start, Edit, TypeOK, OthersOK
<1> QED
  BY <1>1, <1>2 DEF Start, TypeOK, CheckpointsOK, ReadyOK, CanonicalOK, OthersOK, store

LEMMA RecoverStagedType == ASSUME TypeOK, RecoverStaged PROVE TypeOK'
<1>1. pc # "idle" /\ ready[chunk] \in Reports
  BY Process DEF RecoverStaged, Recovering, TypeOK, ReadyOK, OrNone
<1>2. ready[chunk].staged \in Frames /\ ready[chunk].staged # None
  BY <1>1 DEF Reports
<1>3. [state |-> "STAGED", staged |-> ready[chunk].staged, proof |-> None] \in Checkpoints
  BY <1>2 DEF Checkpoints, OrNone, Settled
<1>4. CheckpointsOK'
  BY <1>2, <1>3, CheckpointType DEF RecoverStaged
<1>5. OthersOK'
  BY FaultType DEF RecoverStaged, TypeOK, OthersOK
<1> QED
  BY <1>4, <1>5 DEF RecoverStaged, TypeOK, ReadyOK, CanonicalOK, ProcessOK, process

LEMMA SeedVisitType == ASSUME TypeOK, SeedVisit PROVE TypeOK'
<1>1. pc # "idle"
  BY DEF SeedVisit
<1>2. chain' \in Chains
  <2>1. [chain EXCEPT !.failed = TRUE] \in Chains
    BY <1>1, Process DEF Chains
  <2> QED
    BY <1>1, <2>1, SeededType DEF SeedVisit
<1>3. work' \in Works
  <2>1. Upsert(Seed, work.prior) \in Frames
    BY <1>1, Process, WorkFields, Constants, UpsertType
  <2>2. [work EXCEPT !.prior = Upsert(Seed, @)] \in Works
    BY <1>1, <2>1, Process DEF Works
  <2> QED
    BY <1>1, <2>2, Process DEF SeedVisit
<1>4. OthersOK'
  BY FaultType DEF SeedVisit, TypeOK, OthersOK
<1> QED
  BY <1>1, <1>2, <1>3, <1>4
     DEF SeedVisit, TypeOK, CheckpointsOK, ReadyOK, CanonicalOK, ProcessOK, store

\* A report or manifest that shows a chunk COMPLETED.
LEMMA ReportFields ==
    ASSUME TypeOK, pc # "idle", ready[chunk] # None
    PROVE  /\ ready[chunk].staged \in Frames /\ ready[chunk].staged # None
           /\ ready[chunk].target \in Settled /\ ready[chunk].proof \in OrNone(Proofs)
           /\ ready[chunk].proof # None <=> ready[chunk].target = "COMPLETED"
<1>1. ready[chunk] \in Reports
  BY Process DEF TypeOK, ReadyOK, OrNone
<1> QED
  BY <1>1, Process DEF Reports, TypeOK, ReadyOK

LEMMA ReportedType ==
    ASSUME TypeOK, pc # "idle", ready[chunk] # None,
           checkpoint' = [checkpoint EXCEPT ![chunk] =
                 [state |-> ready[chunk].target, staged |-> ready[chunk].staged,
                  proof |-> ready[chunk].proof]]
    PROVE  CheckpointsOK'
<1> DEFINE c == [state |-> ready[chunk].target, staged |-> ready[chunk].staged,
                 proof |-> ready[chunk].proof]
<1>1. c \in Checkpoints
  BY ReportFields DEF Checkpoints, OrNone
<1>2. c.staged # None /\ (c.proof # None <=> c.state = "COMPLETED")
  BY ReportFields
<1> QED
  BY <1>1, <1>2, CheckpointType

LEMMA RecoverCompletedType == ASSUME TypeOK, RecoverCompleted PROVE TypeOK'
<1>1. pc # "idle" /\ ready[chunk] # None /\ ready[chunk].target = "COMPLETED"
  BY DEF RecoverCompleted, Recovering
<1>2. CheckpointsOK'
  BY <1>1, ReportedType DEF RecoverCompleted
<1>3. ProcessOK'
  <2>1. Advance(Carried(ready[chunk].staged))
    BY DEF RecoverCompleted
  <2>2. Carried(ready[chunk].staged) \in Chains
    BY <1>1, ReportFields, CarriedType
  <2> QED
    BY <1>1, <2>1, <2>2, AdvanceType
<1>4. OthersOK'
  BY FaultType DEF RecoverCompleted, TypeOK, OthersOK
<1> QED
  BY <1>2, <1>3, <1>4 DEF RecoverCompleted, TypeOK, ReadyOK, CanonicalOK

LEMMA SkipType == ASSUME TypeOK, Skip PROVE TypeOK'
<1>1. pc # "idle" /\ Here.staged \in Frames
  BY Process DEF Skip, Skippable, OrNone
<1>2. PICK c \in {Carried(Here.staged), [chain EXCEPT !.carry = Upsert(work.prior, Here.staged)]} :
         Advance(c)
  BY DEF Skip
<1>3. [chain EXCEPT !.carry = Upsert(work.prior, Here.staged)] \in Chains
  <2>1. Upsert(work.prior, Here.staged) \in Frames
    BY <1>1, Process, WorkFields, UpsertType
  <2> QED
    BY <1>1, <2>1, Process DEF Chains
<1>4. ProcessOK'
  BY <1>1, <1>2, <1>3, CarriedType, AdvanceType
<1>5. OthersOK'
  BY FaultType DEF Skip, TypeOK, OthersOK
<1> QED
  BY <1>4, <1>5 DEF Skip, TypeOK, CheckpointsOK, ReadyOK, CanonicalOK, store

LEMMA WriteCheckpointType == ASSUME TypeOK, AttemptInv, WriteCheckpoint PROVE TypeOK'
<1>1. pc # "idle" /\ ready[chunk] # None
  BY DEF WriteCheckpoint, AttemptInv
<1>2. CheckpointsOK'
  BY <1>1, ReportedType DEF WriteCheckpoint
<1>3. ProcessOK'
  <2>1. PICK c \in {Carried(ready[chunk].staged), chain} : Advance(c)
    BY DEF WriteCheckpoint
  <2> QED
    BY <1>1, <2>1, ReportFields, CarriedType, AdvanceType, Process
<1>4. OthersOK'
  BY FaultType DEF WriteCheckpoint, TypeOK, OthersOK
<1> QED
  BY <1>2, <1>3, <1>4 DEF WriteCheckpoint, TypeOK, ReadyOK, CanonicalOK

LEMMA GoneType == ASSUME TypeOK, Refuse \/ End \/ Interrupt \/ Dies PROVE TypeOK'
<1>1. Forget /\ pc # "idle" /\ UNCHANGED <<ready, canonical>>
  BY DEF Refuse, End, Interrupt, Dies, store
<1>2. ProcessOK'
  BY <1>1, ForgetType
<1>3. OthersOK'
  BY FaultType DEF Refuse, End, Interrupt, Dies, TypeOK, OthersOK
<1>4. CheckpointsOK'
  <2>1. CASE Interrupt
    <3>1. [state |-> "INTERRUPTED", staged |-> Evidence, proof |-> None] \in Checkpoints
      BY <1>1, Process DEF Checkpoints, OrNone
    <3> QED
      BY <2>1, <3>1, CheckpointType DEF Interrupt, Settled
  <2>2. CASE Refuse \/ End \/ Dies
    BY <2>2 DEF Refuse, End, Dies, store, TypeOK, CheckpointsOK
  <2> QED
    BY <2>1, <2>2
<1> QED
  BY <1>1, <1>2, <1>3, <1>4 DEF TypeOK, ReadyOK, CanonicalOK

LEMMA BeginType == ASSUME TypeOK, Begin PROVE TypeOK'
<1>1. pc # "idle" /\ pc' # "idle"
  BY DEF Begin
<1>2. CheckpointsOK'
  <2>1. [state |-> "RUNNING", staged |-> IF MustFetch THEN None ELSE Here.staged, proof |-> None]
          \in Checkpoints
    BY <1>1, Process DEF Checkpoints, OrNone
  <2>2. checkpoint' = [checkpoint EXCEPT ![chunk] =
           [state |-> "RUNNING", staged |-> IF MustFetch THEN None ELSE Here.staged, proof |-> None]]
    BY <1>1, Process DEF Begin, TypeOK, CheckpointsOK, Here
  <2> QED
    BY <2>1, <2>2, CheckpointType DEF Settled
<1>3. ReadyOK'
  BY DEF Begin, TypeOK, ReadyOK, OrNone
<1>4. OthersOK'
  BY FaultType DEF Begin, TypeOK, OthersOK
<1> QED
  BY <1>1, <1>2, <1>3, <1>4 DEF Begin, TypeOK, CanonicalOK, ProcessOK

\* _apply_one_partition works on dates of the chunk.
LEMMA DateIsOf ==
    ASSUME AttemptInv, TypeOK, pc \in Writing
    PROVE  Date \in todo /\ Date \in DatesOf(chunk) /\ Date \in Open
<1>1. todo # {} /\ todo \subseteq DatesOf(chunk) /\ pc # "idle"
  BY DEF AttemptInv, Writing
<1>2. DatesOf(chunk) \subseteq Open /\ DatesOf(chunk) \in SUBSET Days
  BY <1>1, Process, DatesInChunk
<1>3. Date \in todo
  BY <1>1, <1>2, EarliestIsOf DEF Date
<1> QED
  BY <1>1, <1>2, <1>3

LEMMA MergedType ==
    ASSUME AttemptInv, TypeOK, pc \in Writing
    PROVE  /\ Incoming \in Frames /\ canonical[Date] \in Partitions
           /\ pc # "read" => Merged \in Partitions
<1>1. pc # "idle" /\ work.frame \in Frames
  <2>1. pc # "idle" /\ pc \in Attempted
    BY DEF Writing, Attempted, Applied
  <2>2. work.frame # None
    BY <2>1 DEF AttemptInv
  <2> QED
    BY <2>1, <2>2, Process, WorkFields DEF OrNone
<1>2. Incoming \in Frames
  BY <1>1, Process, WorkFields, ProjectType DEF Incoming
<1>3. canonical[Date] \in Partitions
  BY DateIsOf DEF TypeOK, CanonicalOK
<1>4. ASSUME pc # "read" PROVE Merged \in Partitions
  <2>1. pc \in {"write", "readback"}
    BY <1>4 DEF Writing
  <2>2. work.old \in Partitions
    BY <2>1 DEF AttemptInv
  <2> QED
    BY <1>2, <2>2 DEF Merged, Partitions
<1> QED
  BY <1>2, <1>3, <1>4

WorkSteps == Fetch \/ Reuse \/ Carry \/ Apply \/ ReadPartition \/ WritePartition \/ ReadBack \/ Finish

LEMMA WorkStepsKeep ==
    ASSUME WorkSteps
    PROVE  /\ pc # "idle" /\ pc' # "idle" /\ Quiet
           /\ UNCHANGED <<checkpoint, cmd, chunk, refused, others>>
<1>1. CASE Fetch \/ Reuse \/ Carry \/ Apply
  BY <1>1 DEF Fetch, Reuse, Carry, Apply, store
<1>2. CASE ReadPartition \/ WritePartition \/ ReadBack \/ Finish
  BY <1>2 DEF ReadPartition, PartitionDone, WritePartition, ReadBack, Finish, store
<1> QED
  BY <1>1, <1>2 DEF WorkSteps

LEMMA CarryType == ASSUME TypeOK, AttemptInv, Carry PROVE chain' \in Chains /\ work' \in Works
<1> DEFINE p == IF SeedDue THEN Upsert(Seed, work.prior) ELSE work.prior
           d == IF SeedDue THEN SeededChain ELSE chain
           c == [d EXCEPT !.carry = Upsert(p, work.frame)]
<1>1. pc = "carry" /\ chain' = c /\ work' = [work EXCEPT !.prior = p]
  BY DEF Carry
<1>2. work.frame \in Frames
  BY <1>1, Process, WorkFields DEF AttemptInv, Attempted, OrNone
<1>3. p \in Frames
  BY <1>1, Process, WorkFields, Constants, UpsertType
<1>4. d \in Chains
  BY <1>1, Process, SeededType
<1> HIDE DEF d, p
<1>5. c \in Chains
  BY <1>2, <1>3, <1>4, UpsertType DEF Chains
<1>6. [work EXCEPT !.prior = p] \in Works
  BY <1>1, <1>3, Process DEF Works
<1> QED
  BY <1>1, <1>5, <1>6

LEMMA WorkStepsMemory ==
    ASSUME TypeOK, AttemptInv, WorkSteps
    PROVE  chain' \in Chains /\ work' \in Works /\ todo' \subseteq Open
<1>0. pc # "idle" /\ todo \subseteq Open
  BY WorkStepsKeep DEF TypeOK, ProcessOK
<1>1. CASE Fetch
  <2>1. Answer(chunk) \in Frames
    BY AnswerType DEF TypeOK, OthersOK
  <2>2. [work EXCEPT !.frame = Answer(chunk), !.fetched = TRUE] \in Works
    BY <1>0, <2>1, Process DEF Works, OrNone
  <2> QED
    BY <1>0, <1>1, <2>2, Process DEF Fetch
<1>2. CASE Reuse
  <2>1. [work EXCEPT !.frame = Here.staged] \in Works
    BY <1>0, Process DEF Works
  <2> QED
    BY <1>0, <1>2, <2>1, Process DEF Reuse
<1>3. CASE Carry
  BY <1>0, <1>3, CarryType DEF Carry
<1>4. CASE Apply
  <2>1. DatesOf(chunk) \subseteq Open
    BY <1>0, Process, DatesInChunk
  <2> QED
    BY <1>0, <1>4, <2>1, Process DEF Apply
<1>5. CASE ReadPartition
  <2>1. canonical[Date] \in Partitions
    BY <1>5, MergedType DEF ReadPartition, Writing
  <2>2. [work EXCEPT !.old = canonical[Date]] \in Works
    BY <1>0, <2>1, Process DEF Works, OrNone
  <2> QED
    BY <1>0, <1>5, <2>2, Process DEF ReadPartition, PartitionDone
<1>6. CASE WritePartition \/ ReadBack \/ Finish
  BY <1>0, <1>6, Process DEF WritePartition, ReadBack, PartitionDone, Finish
<1> QED
  BY <1>1, <1>2, <1>3, <1>4, <1>5, <1>6 DEF WorkSteps

LEMMA WorkStepsType == ASSUME TypeOK, AttemptInv, WorkSteps PROVE TypeOK'
<1>1. ProcessOK'
  BY WorkStepsKeep, WorkStepsMemory, Process DEF ProcessOK, OrNone
<1>2. OthersOK'
  BY WorkStepsKeep, FaultType DEF TypeOK, OthersOK
<1>3. CheckpointsOK'
  BY WorkStepsKeep DEF TypeOK, CheckpointsOK
<1>4. ReadyOK'
  <2>1. CASE Finish
    <3>1. pc = "finish" /\ ready' = [ready EXCEPT ![chunk] = ReadyReport]
      BY <2>1 DEF Finish
    <3>2. work.frame \in Frames
      BY <3>1, Process, WorkFields DEF AttemptInv, Attempted, Applied, OrNone
    <3>3. ReadyReport \in Reports /\ (ReadyReport.proof # None <=> ReadyReport.target = "COMPLETED")
      <4>1. Proof(work.frame) \in Proofs
        BY <3>1, <3>2, ProofType
      <4>2. (cmd.provider => work.fetched) \in BOOLEAN
        OBVIOUS
      <4> QED
        BY <3>2, <4>1, <4>2 DEF ReadyReport, Reports, OrNone, Settled
    <3> QED
      BY <3>1, <3>3 DEF TypeOK, ReadyOK, OrNone
  <2>2. CASE ~Finish
    <3>1. ready' = ready
      BY <2>2 DEF WorkSteps, Fetch, Reuse, Carry, Apply, ReadPartition, WritePartition, ReadBack,
                  store
    <3> QED
      BY <3>1 DEF TypeOK, ReadyOK
  <2> QED
    BY <2>1, <2>2
<1>5. CanonicalOK'
  <2>1. CASE WritePartition
    <3>1. Merged \in Partitions /\ Date \in Open
      BY <2>1, MergedType, DateIsOf DEF WritePartition, Writing
    <3> QED
      BY <2>1, <3>1 DEF WritePartition, TypeOK, CanonicalOK
  <2>2. CASE ~WritePartition
    <3>1. canonical' = canonical
      BY <2>2 DEF WorkSteps, Fetch, Reuse, Carry, Apply, ReadPartition, ReadBack, Finish, store
    <3> QED
      BY <3>1 DEF TypeOK, CanonicalOK
  <2> QED
    BY <2>1, <2>2
<1> QED
  BY <1>1, <1>2, <1>3, <1>4, <1>5 DEF TypeOK

Failures == FetchFails \/ ReuseFails \/ CarryFails \/ ApplyRefused \/ PartitionFails \/ FinishFails
            \/ CheckpointFails

\* Every failed attempt goes on to the next chunk and may leave a partition rewritten.
LEMMA FailuresAre ==
    ASSUME Failures
    PROVE  /\ pc # "idle" /\ UNCHANGED <<ready, refused, others>> /\ (Quiet \/ Fault)
           /\ \/ canonical' = canonical
              \/ pc \in Writing \ {"read"} /\ canonical' = [canonical EXCEPT ![Date] = Merged]
<1>1. CASE FetchFails
  BY <1>1 DEF FetchFails
<1>2. CASE ReuseFails
  BY <1>2 DEF ReuseFails
<1>3. CASE CarryFails
  BY <1>3 DEF CarryFails
<1>4. CASE ApplyRefused
  BY <1>4 DEF ApplyRefused
<1>5. CASE PartitionFails
  <2>1. pc \in Writing /\ pc # "idle" /\ (Quiet \/ Fault) /\ UNCHANGED <<ready, refused, others>>
    BY <1>5 DEF PartitionFails, Writing
  <2>2. \/ canonical' = canonical
        \/ pc = "write" /\ canonical' = [canonical EXCEPT ![Date] = Merged]
    BY <1>5 DEF PartitionFails
  <2> QED
    BY <2>1, <2>2
<1>6. CASE FinishFails
  BY <1>6 DEF FinishFails
<1>7. CASE CheckpointFails
  BY <1>7 DEF CheckpointFails
<1> QED
  BY <1>1, <1>2, <1>3, <1>4, <1>5, <1>6, <1>7 DEF Failures

LEMMA FailuresLeave ==
    ASSUME Failures
    PROVE  \E s \in {None, Here.staged, work.frame, Answer(chunk)} :
               FailTo(s, TRUE, chain) \/ FailTo(s, FALSE, chain)
<1>1. CASE FetchFails
  BY <1>1 DEF FetchFails
<1>2. CASE ReuseFails
  BY <1>2 DEF ReuseFails
<1>3. CASE CarryFails \/ ApplyRefused \/ PartitionFails \/ FinishFails \/ CheckpointFails
  <2>1. FailTo(Evidence, TRUE, chain) \/ FailTo(Evidence, FALSE, chain)
    BY <1>3 DEF CarryFails, ApplyRefused, PartitionFails, FinishFails, CheckpointFails
  <2>2. Evidence \in {Here.staged, work.frame}
    BY DEF Evidence
  <2> QED
    BY <2>1, <2>2
<1> QED
  BY <1>1, <1>2, <1>3 DEF Failures

LEMMA FailuresType == ASSUME TypeOK, AttemptInv, Failures PROVE TypeOK'
<1>1. pc # "idle" /\ UNCHANGED <<ready, refused, others>> /\ (Quiet \/ Fault)
  BY FailuresAre
<1>2. CheckpointsOK' /\ ProcessOK'
  <2>1. PICK s \in {None, Here.staged, work.frame, Answer(chunk)} :
           FailTo(s, TRUE, chain) \/ FailTo(s, FALSE, chain)
    BY FailuresLeave
  <2>2. Answer(chunk) \in Frames
    BY AnswerType DEF TypeOK, OthersOK
  <2>3. s \in OrNone(Frames)
    BY <1>1, <2>1, <2>2, Process, WorkFields DEF OrNone
  <2> QED
    BY <1>1, <2>1, <2>3, FailToType, Process
<1>3. CanonicalOK'
  <2>1. CASE canonical' = canonical
    BY <2>1 DEF TypeOK, CanonicalOK
  <2>2. CASE pc \in Writing \ {"read"} /\ canonical' = [canonical EXCEPT ![Date] = Merged]
    BY <2>2, MergedType, DateIsOf DEF TypeOK, CanonicalOK
  <2> QED
    BY <2>1, <2>2, FailuresAre
<1>4. OthersOK'
  BY <1>1, FaultType DEF TypeOK, OthersOK
<1> QED
  BY <1>1, <1>2, <1>3, <1>4 DEF TypeOK, ReadyOK

LEMMA OthersType == ASSUME TypeOK, Correct \/ OtherReads \/ OtherWrites PROVE TypeOK'
<1>1. OthersOK'
  <2>1. \A d \in Open : canonical[d].mine \in Frames
    BY DEF TypeOK, CanonicalOK, Partitions
  <2>2. CASE Correct
    BY <2>2, Bounds DEF Correct, TypeOK, OthersOK, Vintages
  <2>3. CASE OtherReads
    BY <2>1, <2>3 DEF OtherReads, TypeOK, OthersOK, OrNone
  <2>4. CASE OtherWrites
    BY <2>4, Bounds DEF OtherWrites, Edit, TypeOK, OthersOK, OrNone
  <2> QED
    BY <2>2, <2>3, <2>4
<1>2. CanonicalOK'
  <2>1. CASE OtherWrites
    <3>1. copy.date \in Open /\ copy.mine \in Frames
      BY <2>1 DEF OtherWrites, TypeOK, OthersOK, OrNone
    <3>2. edits' \in 0..MaxEdits
      BY <1>1 DEF OthersOK
    <3>3. [mine |-> copy.mine, other |-> edits'] \in Partitions
      BY <3>1, <3>2 DEF Partitions
    <3> QED
      BY <2>1, <3>1, <3>3 DEF OtherWrites, TypeOK, CanonicalOK
  <2>2. CASE Correct \/ OtherReads
    BY <2>2 DEF Correct, OtherReads, store, TypeOK, CanonicalOK
  <2> QED
    BY <2>1, <2>2
<1>3. UNCHANGED <<checkpoint, ready, process>>
  BY DEF Correct, OtherReads, OtherWrites, store
<1> QED
  BY <1>1, <1>2, <1>3 DEF TypeOK, CheckpointsOK, ReadyOK, ProcessOK, process

LEMMA NextCases ==
    Next => \/ \E c \in Commands : Start(c)
            \/ RecoverStaged \/ SeedVisit \/ Begin
            \/ RecoverCompleted \/ Skip \/ WriteCheckpoint
            \/ Refuse \/ End \/ Interrupt \/ Dies
            \/ WorkSteps \/ Failures
            \/ Correct \/ OtherReads \/ OtherWrites
  BY DEF Next, Step, WorkSteps, Failures

LEMMA NextType == TypeOK /\ AttemptInv /\ [Next]_vars => TypeOK'
<1> SUFFICES ASSUME TypeOK, AttemptInv, [Next]_vars PROVE TypeOK'
  OBVIOUS
<1>1. CASE UNCHANGED vars
  BY <1>1 DEF vars, store, process, TypeOK, CheckpointsOK, ReadyOK, CanonicalOK, ProcessOK, OthersOK
<1>2. CASE Next
  BY <1>2, NextCases, StartType, RecoverStagedType, SeedVisitType, BeginType, RecoverCompletedType,
     SkipType, WriteCheckpointType, GoneType, WorkStepsType, FailuresType, OthersType
<1> QED
  BY <1>1, <1>2

-----------------------------------------------------------------------------
(* Staging is of the window of its chunk. *)

LEMMA CheckpointWindow ==
    ASSUME TypeOK, WindowInv, NEW i, NEW c, InWindow(c.staged, i),
           checkpoint' = [checkpoint EXCEPT ![i] = c]
    PROVE  \A j \in Chunks : InWindow(checkpoint'[j].staged, j)
  BY DEF TypeOK, CheckpointsOK, WindowInv

LEMMA NewWorkWindow == \A prior, i : InWindow(NewWork(prior).frame, i)
  BY DEF NewWork, InWindow

LEMMA Windows ==
    ASSUME TypeOK, WindowInv, pc # "idle"
    PROVE  /\ InWindow(Here.staged, chunk) /\ InWindow(work.frame, chunk) /\ InWindow(None, chunk)
           /\ InWindow(Answer(chunk), chunk) /\ InWindow(Evidence, chunk)
           /\ ready[chunk] # None => InWindow(ready[chunk].staged, chunk)
<1>1. chunk \in Chunks
  BY Process
<1>2. InWindow(Here.staged, chunk) /\ InWindow(work.frame, chunk)
  BY <1>1 DEF WindowInv, Here
<1>3. InWindow(Answer(chunk), chunk)
  BY AnswerType DEF TypeOK, OthersOK
<1>4. ready[chunk] # None => InWindow(ready[chunk].staged, chunk)
  BY <1>1 DEF WindowInv
<1> QED
  BY <1>2, <1>3, <1>4 DEF InWindow, Evidence

\* Chunk i keeps its staging, or has one that the process got for it.
Handed(i) ==
    LET f == checkpoint'[i].staged
    IN  \/ f = checkpoint[i].staged
        \/ i = chunk /\ f \in {None, Here.staged, work.frame, Answer(chunk)}
        \/ i = chunk /\ ready[chunk] # None /\ f = ready[chunk].staged

LEMMA CheckpointsHanded ==
    ASSUME TypeOK, AttemptInv, Next, NEW i \in Chunks PROVE Handed(i)
<1>1. CASE checkpoint' = checkpoint
  BY <1>1 DEF Handed
<1>2. ASSUME NEW c, c.staged = ready[chunk].staged, ready[chunk] # None,
             checkpoint' = [checkpoint EXCEPT ![chunk] = c]
      PROVE  Handed(i)
  BY <1>2 DEF Handed, TypeOK, CheckpointsOK
<1>3. CASE RecoverStaged \/ RecoverCompleted \/ WriteCheckpoint
  <2>1. ready[chunk] # None
    BY <1>3 DEF RecoverStaged, RecoverCompleted, Recovering, WriteCheckpoint, AttemptInv
  <2>2. ASSUME NEW t, NEW p,
               checkpoint' = [checkpoint EXCEPT ![chunk] =
                   [state |-> t, staged |-> ready[chunk].staged, proof |-> p]]
        PROVE  Handed(i)
    BY <1>2, <2>1, <2>2
  <2> QED
    BY <1>3, <2>2 DEF RecoverStaged, RecoverCompleted, WriteCheckpoint
<1>4. ASSUME NEW t, NEW s \in {None, Here.staged, work.frame, Answer(chunk)},
             checkpoint' = [checkpoint EXCEPT ![chunk] = [state |-> t, staged |-> s, proof |-> None]]
      PROVE  Handed(i)
  <2>1. \/ checkpoint'[i].staged = checkpoint[i].staged
        \/ i = chunk /\ checkpoint'[i].staged = s
    BY <1>4 DEF TypeOK, CheckpointsOK
  <2> QED
    BY <2>1 DEF Handed
<1>5. CASE Begin
  <2>1. checkpoint' = [checkpoint EXCEPT ![chunk] =
           [state |-> "RUNNING", staged |-> IF MustFetch THEN None ELSE Here.staged, proof |-> None]]
    BY <1>5, Process DEF Begin, TypeOK, CheckpointsOK, Here
  <2> QED
    BY <1>4, <2>1
<1>6. CASE Interrupt
  BY <1>4, <1>6 DEF Interrupt, Evidence
<1>7. CASE Failures
  <2>1. PICK s \in {None, Here.staged, work.frame, Answer(chunk)} :
           FailTo(s, TRUE, chain) \/ FailTo(s, FALSE, chain)
    BY <1>7, FailuresLeave
  <2> QED
    BY <1>4, <2>1 DEF FailTo
<1>8. CASE WorkSteps
  BY <1>1, <1>8, WorkStepsKeep
<1>9. CASE (\E c \in Commands : Start(c)) \/ SeedVisit \/ Skip \/ Refuse \/ End \/ Dies
            \/ Correct \/ OtherReads \/ OtherWrites
  <2>1. checkpoint' = checkpoint
    BY <1>9 DEF Start, SeedVisit, Skip, Refuse, End, Dies, Correct, OtherReads, OtherWrites, store
  <2> QED
    BY <1>1, <2>1
<1> QED
  BY NextCases, <1>3, <1>4, <1>5, <1>6, <1>7, <1>8, <1>9

LEMMA NextWindow == TypeOK /\ WindowInv /\ AttemptInv /\ [Next]_vars => WindowInv'
<1> SUFFICES ASSUME TypeOK, WindowInv, AttemptInv, [Next]_vars PROVE WindowInv'
  OBVIOUS
<1>1. CASE UNCHANGED vars
  BY <1>1 DEF vars, store, process, WindowInv
<1>2. CASE Next
  <2>1. ASSUME NEW i \in Chunks PROVE InWindow(checkpoint'[i].staged, i)
    <3>1. CASE checkpoint'[i].staged = checkpoint[i].staged
      BY <3>1 DEF WindowInv
    <3>2. CASE checkpoint'[i].staged # checkpoint[i].staged
      <4>1. pc # "idle"
        <5> SUFFICES ASSUME pc = "idle" PROVE checkpoint' = checkpoint
          BY <3>2
        <5>1. (\E c \in Commands : Start(c)) \/ Correct \/ OtherReads \/ OtherWrites
          BY <1>2 DEF Next, Step, RecoverStaged, SeedVisit, RecoverCompleted, Refuse, Skip, Begin,
             Fetch, Reuse, ReuseFails, Carry, CarryFails, Apply, ApplyRefused, ReadPartition,
             WritePartition, ReadBack, PartitionFails, Finish, FinishFails, WriteCheckpoint, End,
             FetchFails, CheckpointFails, Interrupt, Dies
        <5> QED
          BY <5>1 DEF Start, Correct, OtherReads, OtherWrites, store
      <4>2. i = chunk /\ \/ checkpoint'[i].staged \in {None, Here.staged, work.frame, Answer(chunk)}
                         \/ ready[chunk] # None /\ checkpoint'[i].staged = ready[chunk].staged
        BY <1>2, <3>2, CheckpointsHanded DEF Handed
      <4> QED
        BY <4>1, <4>2, Windows
    <3> QED
      BY <3>1, <3>2
  <2>2. InWindow(work'.frame, chunk')
    <3>1. CASE work'.frame = None
      BY <3>1 DEF InWindow
    <3>2. CASE work'.frame = work.frame /\ chunk' = chunk
      BY <3>2 DEF WindowInv
    <3>3. CASE Fetch \/ Reuse
      <4>1. pc # "idle" /\ chunk' = chunk /\ work'.frame \in {Answer(chunk), Here.staged}
        BY <3>3, Process DEF Fetch, Reuse, Works
      <4> QED
        BY <4>1, Windows
    <3>4. CASE WorkSteps /\ ~(Fetch \/ Reuse)
      <4>1. chunk' = chunk /\ work \in Works
        BY <3>4, WorkStepsKeep, Process
      <4>2. work'.frame = work.frame
        BY <3>4, <4>1 DEF WorkSteps, Carry, Apply, ReadPartition, WritePartition, ReadBack, Finish, Works
      <4> QED
        BY <3>2, <4>1, <4>2
    <3>5. ASSUME NEW c, Advance(c) PROVE work'.frame = None
      BY <3>5 DEF Advance, NewWork
    <3>6. CASE RecoverCompleted \/ Skip \/ WriteCheckpoint
      <4>1. \E c : Advance(c)
        BY <3>6 DEF RecoverCompleted, Skip, WriteCheckpoint
      <4> QED
        BY <3>1, <3>5, <4>1
    <3>7. CASE Failures
      <4>1. \E c : Advance(c)
        BY <3>7, FailuresLeave DEF FailTo
      <4> QED
        BY <3>1, <3>5, <4>1
    <3>8. CASE Refuse \/ End \/ Interrupt \/ Dies
      <4>1. work'.frame = None
        BY <3>8 DEF Refuse, End, Interrupt, Dies, Forget, NewWork
      <4> QED
        BY <3>1, <4>1
    <3>9. CASE SeedVisit
      <4>1. chunk' = chunk /\ work \in Works
        BY <3>9, Process DEF SeedVisit
      <4>2. work'.frame = work.frame
        BY <3>9, <4>1 DEF SeedVisit, Works
      <4> QED
        BY <3>2, <4>1, <4>2
    <3>10. CASE (\E c \in Commands : Start(c)) \/ RecoverStaged \/ Begin
                \/ Correct \/ OtherReads \/ OtherWrites
      <4>1. UNCHANGED <<work, chunk>>
        BY <3>10 DEF Start, RecoverStaged, Begin, Correct, OtherReads, OtherWrites, process
      <4> QED
        BY <3>2, <4>1
    <3> QED
      BY <1>2, NextCases, <3>3, <3>4, <3>6, <3>7, <3>8, <3>9, <3>10
  <2>3. ASSUME NEW i \in Chunks, ready'[i] # None PROVE InWindow(ready'[i].staged, i)
    <3>1. CASE ready'[i] = ready[i]
      BY <2>3, <3>1 DEF WindowInv
    <3>2. CASE Finish
      <4>1. pc # "idle" /\ ready' = [ready EXCEPT ![chunk] = ReadyReport]
        BY <3>2 DEF Finish
      <4>2. ReadyReport.staged = work.frame
        BY DEF ReadyReport
      <4> QED
        BY <3>1, <4>1, <4>2, Windows DEF TypeOK, ReadyOK
    <3>3. CASE Begin
      <4>1. ready' = [ready EXCEPT ![chunk] = None]
        BY <3>3 DEF Begin
      <4> QED
        BY <2>3, <3>1, <4>1 DEF TypeOK, ReadyOK
    <3>4. CASE WorkSteps /\ ~Finish
      <4>1. ready' = ready
        BY <3>4 DEF WorkSteps, Fetch, Reuse, Carry, Apply, ReadPartition, WritePartition, ReadBack,
                    store
      <4> QED
        BY <3>1, <4>1
    <3>5. CASE Failures
      BY <3>1, <3>5, FailuresAre
    <3>6. CASE (\E c \in Commands : Start(c)) \/ RecoverStaged \/ SeedVisit \/ RecoverCompleted
               \/ Skip \/ WriteCheckpoint \/ Refuse \/ End \/ Interrupt \/ Dies
               \/ Correct \/ OtherReads \/ OtherWrites
      <4>1. ready' = ready
        BY <3>6 DEF Start, RecoverStaged, SeedVisit, RecoverCompleted, Skip, WriteCheckpoint, Refuse,
                    End, Interrupt, Dies, Correct, OtherReads, OtherWrites, store
      <4> QED
        BY <3>1, <4>1
    <3> QED
      BY <1>2, NextCases, <3>2, <3>3, <3>4, <3>5, <3>6
  <2> QED
    BY <2>1, <2>2, <2>3 DEF WindowInv
<1> QED
  BY <1>1, <1>2

-----------------------------------------------------------------------------
(* What an attempt has done so far. *)

LEMMA NotAttempted ==
    ASSUME pc' \notin Attempted, todo' = {} PROVE AttemptInv'
  BY DEF AttemptInv, Attempted, Applied, Writing

LEMMA OtherStepsAttempt ==
    ASSUME AttemptInv, Next, ~WorkSteps, ~(Correct \/ OtherReads \/ OtherWrites)
    PROVE  AttemptInv'
<1>1. ASSUME NEW c, Advance(c) PROVE AttemptInv'
  <2>1. pc' \in {"visit", "end"} /\ todo' = {}
    BY <1>1 DEF Advance
  <2> QED
    BY <2>1, NotAttempted DEF Attempted, Applied, Writing
<1>2. ASSUME Forget PROVE AttemptInv'
  <2>1. pc' = "idle" /\ todo' = {}
    BY <1>2 DEF Forget
  <2> QED
    BY <2>1, NotAttempted DEF Attempted, Applied, Writing
<1>3. CASE RecoverCompleted \/ Skip \/ WriteCheckpoint
  BY <1>1, <1>3 DEF RecoverCompleted, Skip, WriteCheckpoint
<1>4. CASE Failures
  BY <1>1, <1>4, FailuresLeave DEF FailTo
<1>5. CASE Refuse \/ End \/ Interrupt \/ Dies
  BY <1>2, <1>5 DEF Refuse, End, Interrupt, Dies
<1>6. CASE (\E c \in Commands : Start(c)) \/ RecoverStaged \/ SeedVisit \/ Begin
  <2>1. pc \in {"idle", "visit"} /\ todo' = todo /\ pc' \in {"visit", "fetch", "reuse"}
    BY <1>6 DEF Start, RecoverStaged, SeedVisit, Begin, process
  <2>2. todo = {}
    BY <2>1 DEF AttemptInv, Writing
  <2> QED
    BY <2>1, <2>2, NotAttempted DEF Attempted, Applied, Writing
<1> QED
  BY NextCases, <1>3, <1>4, <1>5, <1>6

LEMMA EnvironmentAttempt ==
    ASSUME AttemptInv, Correct \/ OtherReads \/ OtherWrites \/ UNCHANGED vars PROVE AttemptInv'
<1>1. UNCHANGED <<process, ready>> /\ (disturbed' \/ UNCHANGED <<canonical, disturbed>>)
  BY DEF Correct, OtherReads, OtherWrites, vars, store
<1>2. UNCHANGED <<pc, cmd, chunk, chain, work, todo, ready>>
  BY <1>1 DEF process
<1> QED
  BY <1>1, <1>2 DEF AttemptInv

LEMMA FetchAttempt == ASSUME TypeOK, AttemptInv, Fetch \/ Reuse PROVE AttemptInv'
<1>1. pc # "idle" /\ pc' = "carry" /\ todo' = todo /\ pc \notin Writing
  BY DEF Fetch, Reuse, Writing
<1>2. work'.frame # None
  <2>1. Answer(chunk) \in Frames
    BY AnswerType DEF TypeOK, OthersOK
  <2> QED
    BY <1>1, <2>1, Process DEF Fetch, Reuse, Works
<1> QED
  BY <1>1, <1>2 DEF AttemptInv, Attempted, Applied, Writing

LEMMA CarryAttempt == ASSUME TypeOK, AttemptInv, Carry PROVE AttemptInv'
<1>1. /\ pc = "carry" /\ pc' = IF cmd.apply THEN "apply" ELSE "finish"
      /\ UNCHANGED <<cmd, chunk, todo, ready, canonical>>
  BY DEF Carry, store
<1>2. work'.frame = work.frame
  BY <1>1, Process DEF Carry, Works
<1>3. cmd.apply => chain'.seeded \/ DatesOf(chunk) = {}
  <2>1. CASE SeedDue
    BY <1>1, <2>1, Process DEF Carry, SeededChain, Chains
  <2>2. CASE ~SeedDue
    BY <1>1, <2>2, Process DEF Carry, SeedDue, Chains
  <2> QED
    BY <2>1, <2>2
<1> QED
  BY <1>1, <1>2, <1>3 DEF AttemptInv, Attempted, Applied, Writing

LEMMA ApplyAttempt == ASSUME TypeOK, AttemptInv, Apply PROVE AttemptInv'
<1>1. /\ pc = "apply" /\ todo' = DatesOf(chunk) /\ pc' = IF todo' = {} THEN "finish" ELSE "read"
      /\ UNCHANGED <<cmd, chunk, chain, work, ready, canonical>>
  BY DEF Apply, store
<1> QED
  BY <1>1 DEF AttemptInv, Attempted, Applied, Writing

\* A date that is done has what the chain projects on it.
LEMMA DoneAttempt ==
    ASSUME TypeOK, AttemptInv, pc \in Writing, PartitionDone,
           canonical[Date].mine = Incoming, work'.prior = work.prior, work'.frame = work.frame,
           UNCHANGED <<cmd, chunk, chain, ready, canonical, disturbed>>
    PROVE  AttemptInv'
<1>1. todo' = todo \ {Date} /\ pc' = IF todo' = {} THEN "finish" ELSE "read"
  BY DEF PartitionDone
<1>2. ASSUME cmd.apply, ~disturbed, NEW d \in DatesOf(chunk) \ todo'
      PROVE  canonical[d].mine = Project(work.prior, work.frame, d)
  <2>1. CASE d = Date
    BY <2>1 DEF Incoming
  <2>2. CASE d # Date
    BY <1>1, <1>2, <2>2 DEF AttemptInv, Applied
  <2> QED
    BY <2>1, <2>2
<1>3. todo' \subseteq DatesOf(chunk) /\ work.frame # None /\ cmd.apply
      /\ (chain.seeded \/ DatesOf(chunk) = {})
  BY <1>1 DEF AttemptInv, Attempted, Applied
<1>4. pc' \in {"finish", "read"} /\ (pc' = "finish" <=> todo' = {})
  BY <1>1
<1> QED
  BY <1>1, <1>2, <1>3, <1>4 DEF AttemptInv, Attempted, Applied, Writing

LEMMA ReadPartitionAttempt == ASSUME TypeOK, AttemptInv, ReadPartition PROVE AttemptInv'
<1>1. /\ pc = "read" /\ pc \in Writing /\ work \in Works /\ work' = [work EXCEPT !.old = canonical[Date]]
      /\ UNCHANGED <<cmd, chunk, chain, ready, canonical, disturbed>>
  BY Process DEF ReadPartition, Writing, store, others
<1>2. work'.prior = work.prior /\ work'.frame = work.frame /\ work'.old = canonical[Date]
  BY <1>1 DEF Works
<1>3. CASE PartitionDone /\ canonical[Date].mine = Incoming
  BY <1>1, <1>2, <1>3, DoneAttempt
<1>4. CASE pc' = "write" /\ UNCHANGED todo
  <2>1. canonical[Date] \in Partitions
    BY <1>1, MergedType
  <2> QED
    BY <1>1, <1>2, <1>4, <2>1 DEF AttemptInv, Attempted, Applied, Writing
<1> QED
  BY <1>3, <1>4 DEF ReadPartition

LEMMA WritePartitionAttempt == ASSUME TypeOK, AttemptInv, WritePartition PROVE AttemptInv'
<1>1. /\ pc = "write" /\ pc \in Writing /\ pc' = "readback"
      /\ canonical' = [canonical EXCEPT ![Date] = Merged]
      /\ UNCHANGED <<cmd, chunk, chain, work, todo, ready, disturbed>>
  BY DEF WritePartition, Writing, others
<1>2. Date \in todo
  BY <1>1, DateIsOf
<1>3. \A d \in DatesOf(chunk) \ todo : canonical'[d] = canonical[d]
  BY <1>1, <1>2
<1> QED
  BY <1>1, <1>3 DEF AttemptInv, Attempted, Applied, Writing

LEMMA ReadBackAttempt == ASSUME TypeOK, AttemptInv, ReadBack PROVE AttemptInv'
<1>1. /\ pc = "readback" /\ pc \in Writing /\ canonical[Date].mine = Incoming /\ PartitionDone
      /\ UNCHANGED <<cmd, chunk, chain, work, ready, canonical, disturbed>>
  BY DEF ReadBack, Writing, Merged, store, others
<1> QED
  BY <1>1, DoneAttempt

LEMMA FinishAttempt == ASSUME TypeOK, AttemptInv, Finish PROVE AttemptInv'
<1>1. /\ pc = "finish" /\ pc' = "checkpoint" /\ ready' = [ready EXCEPT ![chunk] = ReadyReport]
      /\ UNCHANGED <<cmd, chunk, chain, work, todo, canonical, disturbed>>
  BY DEF Finish, others
<1>2. work.frame \in Frames /\ chunk \in Chunks
  BY <1>1, Process, WorkFields DEF AttemptInv, Attempted, Applied, OrNone
<1>3. ready'[chunk] = ReadyReport
  BY <1>1, <1>2 DEF TypeOK, ReadyOK
<1>4. ready'[chunk] # None
  <2>1. Proof(work.frame) \in Proofs
    BY <1>1, <1>2, ProofType
  <2>2. ReadyReport \in Reports
    BY <1>2, <2>1 DEF ReadyReport, Reports, OrNone, Settled
  <2> QED
    BY <1>3, <2>2
<1>5. /\ ready'[chunk].staged = work.frame
      /\ ready'[chunk].target = IF cmd.apply THEN "COMPLETED" ELSE "STAGED"
  BY <1>3 DEF ReadyReport
<1> QED
  BY <1>1, <1>4, <1>5 DEF AttemptInv, Attempted, Applied, Writing

LEMMA NextAttempt == TypeOK /\ AttemptInv /\ [Next]_vars => AttemptInv'
<1> SUFFICES ASSUME TypeOK, AttemptInv, [Next]_vars PROVE AttemptInv'
  OBVIOUS
<1>1. CASE WorkSteps
  BY <1>1, FetchAttempt, CarryAttempt, ApplyAttempt, ReadPartitionAttempt, WritePartitionAttempt,
     ReadBackAttempt, FinishAttempt DEF WorkSteps
<1>2. CASE ~WorkSteps
  BY <1>2, EnvironmentAttempt, OtherStepsAttempt
<1> QED
  BY <1>1, <1>2

-----------------------------------------------------------------------------
(* The chain is the history. *)

LEMMA KeySlots ==
    ASSUME NEW k \in Keys, DayOf[k] # 0
    PROVE  /\ DayOf[k] \in Days /\ ChunkOf(k) \in Chunks
           /\ \A i : DayOf[k] \in Window(i) <=> ChunkOf(k) = i
           /\ \A d \in Days : DayOf[k] <= d => ChunkOf(k) <= Slot(d)
           /\ \A d \in Days : ChunkOf(k) < Slot(d) => DayOf[k] <= d
<1>1. DayOf[k] \in Days
  BY Bounds DEF Days
<1>2. \A d \in Days : d \in Nat /\ DayOf[k] \in Nat /\ Slot(d) \in Nat /\ Slot(DayOf[k]) \in Nat
  BY <1>1, Slots, Bounds DEF Chunks
<1>3. \A d \in Days : DayOf[k] <= d \/ d <= DayOf[k]
  BY <1>2
<1> QED
  BY <1>1, <1>2, <1>3, Slots DEF ChunkOf

\* No disclosure before the plan is in the staging of a chunk.
LEMMA OutsideWindow ==
    ASSUME NEW f \in Frames, NEW i, InWindow(f, i), NEW k \in Keys, f[k] # 0
    PROVE  DayOf[k] # 0 /\ ChunkOf(k) = i
<1>1. DayOf[k] \in Window(i)
  BY DEF InWindow
<1>2. DayOf[k] # 0
  BY <1>1 DEF Window, Days
<1> QED
  BY <1>1, <1>2, KeySlots

LEMMA HistoryKept ==
    ASSUME NEW n, \A j \in Chunks : j < n => checkpoint'[j] = checkpoint[j]
    PROVE  /\ \A b : History(n, b)' = History(n, b)
           /\ CompletedBefore(n)' = CompletedBefore(n)
<1>1. \A k \in Keys : DayOf[k] # 0 /\ ChunkOf(k) < n => checkpoint'[ChunkOf(k)] = checkpoint[ChunkOf(k)]
  BY KeySlots
<1> QED
  BY <1>1 DEF History, CompletedBefore

LEMMA HistoryAtKept ==
    ASSUME NEW n \in Nat, \A j \in Chunks : j < n => checkpoint'[j] = checkpoint[j],
           NEW d \in Open, Slot(d) < n
    PROVE  HistoryAt(d)' = HistoryAt(d)
<1>1. d \in Days /\ Slot(d) \in Nat
  BY Bounds, Slots DEF Chunks
<1>2. ASSUME NEW k \in Keys, DayOf[k] # 0, DayOf[k] <= d
      PROVE  checkpoint'[ChunkOf(k)] = checkpoint[ChunkOf(k)]
  <2>1. ChunkOf(k) \in Chunks /\ ChunkOf(k) <= Slot(d)
    BY <1>1, <1>2, KeySlots
  <2> QED
    BY <1>1, <2>1 DEF Chunks
<1> QED
  BY <1>2 DEF HistoryAt

\* A chunk that is proven or attempted turns the history before it into the one after it,
LEMMA HistoryGrows ==
    ASSUME NEW i \in Chunks, NEW f \in Frames, InWindow(f, i), NEW b \in BOOLEAN,
           checkpoint'[i].staged = f,
           \A j \in Chunks : j # i => checkpoint'[j] = checkpoint[j]
    PROVE  Upsert(History(i, b), f) = History(i + 1, b)'
<1>1. i \in Nat
  BY Slots DEF Chunks
<1>2. ASSUME NEW k \in Keys PROVE Upsert(History(i, b), f)[k] = History(i + 1, b)'[k]
  <2>1. CASE DayOf[k] = 0
    <3>1. f[k] = 0
      BY <2>1, OutsideWindow
    <3> QED
      BY <2>1, <3>1 DEF Upsert, History
  <2>2. CASE DayOf[k] # 0 /\ ChunkOf(k) = i
    BY <1>1, <2>2 DEF Upsert, History
  <2>3. CASE DayOf[k] # 0 /\ ChunkOf(k) # i
    <3>1. f[k] = 0
      BY <2>3, OutsideWindow
    <3>2. ChunkOf(k) \in Chunks /\ ChunkOf(k) \in Nat
      BY <2>3, KeySlots DEF Chunks
    <3>3. checkpoint'[ChunkOf(k)] = checkpoint[ChunkOf(k)]
      BY <2>3, <3>2
    <3>4. ChunkOf(k) < i + 1 <=> ChunkOf(k) < i
      BY <1>1, <2>3, <3>2
    <3> QED
      BY <2>3, <3>1, <3>3, <3>4 DEF Upsert, History
  <2> QED
    BY <2>1, <2>2, <2>3
<1> QED
  BY <1>2 DEF Upsert, History

\* and projects on each of its dates the history as of that date.
LEMMA HistoryProjects ==
    ASSUME NEW i \in Chunks, NEW f \in Frames, InWindow(f, i),
           checkpoint'[i].staged = f,
           \A j \in Chunks : j # i => checkpoint'[j] = checkpoint[j],
           NEW d \in Open, Slot(d) = i
    PROVE  Project(History(i, TRUE), f, d) = HistoryAt(d)'
<1>1. i \in Nat /\ d \in Days /\ d \in Nat /\ d > 0
  BY Slots, Bounds DEF Chunks, Days
<1>2. ASSUME NEW k \in Keys PROVE Project(History(i, TRUE), f, d)[k] = HistoryAt(d)'[k]
  <2>1. CASE DayOf[k] = 0
    <3>1. f[k] = 0
      BY <2>1, OutsideWindow
    <3> QED
      BY <2>1, <3>1 DEF Project, Upsert, History, HistoryAt
  <2>2. CASE DayOf[k] # 0 /\ ChunkOf(k) = i
    BY <1>1, <2>2 DEF Project, Upsert, History, HistoryAt
  <2>3. CASE DayOf[k] # 0 /\ ChunkOf(k) # i
    <3>1. f[k] = 0
      BY <2>3, OutsideWindow
    <3>2. ChunkOf(k) \in Chunks /\ ChunkOf(k) \in Nat
      BY <2>3, KeySlots DEF Chunks
    <3>3. checkpoint'[ChunkOf(k)] = checkpoint[ChunkOf(k)]
      BY <2>3, <3>2
    <3>4. ChunkOf(k) < i <=> DayOf[k] <= d
      BY <1>1, <2>3, <3>2, KeySlots
    <3> QED
      BY <2>3, <3>1, <3>3, <3>4 DEF Project, Upsert, History, HistoryAt
  <2> QED
    BY <2>1, <2>2, <2>3
<1> QED
  BY <1>2 DEF Project, Upsert, HistoryAt

\* The process passes a chunk that is proven.
LEMMA ChainAdvances ==
    ASSUME TypeOK, ChainInv, pc \notin {"idle", "end"}, cmd.apply,
           NEW f \in Frames, InWindow(f, chunk), Advance(Carried(f)),
           checkpoint'[chunk].staged = f,
           \A j \in Chunks : j # chunk => checkpoint'[j] = checkpoint[j],
           UNCHANGED <<canonical, disturbed>>,
           chain.seeded \/ DatesOf(chunk) = {},
           ~disturbed => \A d \in DatesOf(chunk) : canonical[d].mine = Project(work.prior, f, d)
    PROVE  ChainInv'
<1>1. PICK n \in Chunks : n = chunk
  BY Process
<1>2. n \in Nat /\ n + 1 \in Nat
  BY <1>1 DEF Chunks
<1>3. Reached = n /\ Reached' = n + 1
  BY <1>1, Slots DEF Reached, Advance, Final
<1>4. work'.prior = Upsert(work.prior, f) /\ chain'.seeded = chain.seeded /\ chain.seeded \in BOOLEAN
  BY Process DEF Advance, Carried, NewWork, Chains
<1>5. ASSUME CompletedBefore(n + 1)'
      PROVE  work'.prior = History(n + 1, chain.seeded)' /\ (~disturbed' => LandedBefore(n + 1)')
  <2>1. \A j \in Chunks : j < n => checkpoint'[j] = checkpoint[j] /\ j < n + 1
    BY <1>1, <1>2 DEF Chunks
  <2>2. CompletedBefore(n)
    BY <1>5, <2>1 DEF CompletedBefore
  <2>3. work.prior = History(n, chain.seeded) /\ (~disturbed => LandedBefore(n))
    BY <1>3, <2>2 DEF ChainInv
  <2>4. PICK b \in BOOLEAN : b = chain.seeded
    BY <1>4
  <2>5. Upsert(History(n, b), f) = History(n + 1, b)'
    BY <1>1, HistoryGrows
  <2>6. ASSUME ~disturbed, NEW d \in Open, Slot(d) < n + 1
        PROVE  canonical[d].mine = HistoryAt(d)'
    <3>1. Slot(d) \in Nat
      BY Slots, Bounds DEF Chunks
    <3>2. CASE Slot(d) < n
      <4>1. HistoryAt(d)' = HistoryAt(d)
        BY <1>2, <2>1, <3>2, HistoryAtKept
      <4> QED
        BY <2>3, <2>6, <3>2, <4>1 DEF LandedBefore
    <3>3. CASE Slot(d) = n
      <4>1. d \in DatesOf(chunk)
        BY <1>1, <3>3, DatesInChunk
      <4>2. chain.seeded = TRUE
        BY <1>4, <4>1
      <4>3. Project(History(n, TRUE), f, d) = HistoryAt(d)'
        BY <1>1, <3>3, HistoryProjects
      <4> QED
        BY <2>3, <2>6, <4>1, <4>2, <4>3
    <3> QED
      BY <1>2, <2>6, <3>1, <3>2, <3>3
  <2>7. (~disturbed' => LandedBefore(n + 1)')
    BY <2>6 DEF LandedBefore
  <2>8. work'.prior = History(n + 1, chain.seeded)'
    BY <1>4, <2>3, <2>4, <2>5
  <2> QED
    BY <2>7, <2>8
<1> QED
  BY <1>3, <1>4, <1>5 DEF ChainInv

\* A step within a chunk leaves what is known of the chunks before.
LEMMA ChainStays ==
    ASSUME TypeOK, ChainInv, pc # "idle", pc' # "idle", Reached' = Reached, Reached \in Nat, cmd' = cmd,
           work'.prior = work.prior, chain'.seeded = chain.seeded,
           \A j \in Chunks : j < Reached => checkpoint'[j] = checkpoint[j],
           disturbed' \/ (disturbed' = disturbed
                          /\ \A d \in Open : Slot(d) < Reached => canonical'[d] = canonical[d])
    PROVE  ChainInv'
<1>1. PICK n \in Nat : n = Reached
  OBVIOUS
<1>2. ASSUME CompletedBefore(n)', cmd.apply
      PROVE  work'.prior = History(n, chain.seeded)' /\ (~disturbed' => LandedBefore(n)')
  <2>1. CompletedBefore(n) /\ \A b : History(n, b)' = History(n, b)
    BY <1>1, <1>2, HistoryKept
  <2>2. work.prior = History(n, chain.seeded) /\ (~disturbed => LandedBefore(n))
    BY <1>1, <1>2, <2>1 DEF ChainInv
  <2>3. work'.prior = History(n, chain.seeded)'
    BY <2>1, <2>2
  <2>4. ASSUME ~disturbed', NEW d \in Open, Slot(d) < n PROVE canonical'[d].mine = HistoryAt(d)'
    <3>1. canonical'[d] = canonical[d] /\ ~disturbed
      BY <1>1, <2>4
    <3>2. HistoryAt(d)' = HistoryAt(d)
      BY <1>1, <2>4, HistoryAtKept
    <3> QED
      BY <2>2, <2>4, <3>1, <3>2 DEF LandedBefore
  <2> QED
    BY <2>3, <2>4 DEF LandedBefore
<1> QED
  BY <1>1, <1>2 DEF ChainInv

\* The seed joins the history once.
LEMMA SeedJoins ==
    ASSUME TypeOK, ChainInv, pc \notin {"idle", "end"}, pc' \notin {"idle", "end"}, SeedDue,
           UNCHANGED <<checkpoint, canonical, cmd, chunk, disturbed>>,
           work'.prior = Upsert(Seed, work.prior), chain'.seeded = TRUE
    PROVE  ChainInv'
<1>1. Reached = chunk /\ Reached' = chunk
  BY DEF Reached
<1>2. chunk \in Nat /\ ~chain.seeded /\ chain.seeded \in BOOLEAN
  BY Process, ChainFields DEF SeedDue, Chunks
<1>3. ASSUME CompletedBefore(chunk), cmd.apply
      PROVE  work'.prior = History(chunk, TRUE) /\ (~disturbed => LandedBefore(chunk))
  <2>1. work.prior = History(chunk, FALSE) /\ (~disturbed => LandedBefore(chunk))
    BY <1>1, <1>2, <1>3 DEF ChainInv
  <2>2. Upsert(Seed, History(chunk, FALSE)) = History(chunk, TRUE)
    BY DEF Upsert, History, Seed
  <2> QED
    BY <2>1, <2>2
<1>4. History(chunk, TRUE)' = History(chunk, TRUE) /\ CompletedBefore(chunk)' = CompletedBefore(chunk)
      /\ LandedBefore(chunk)' = LandedBefore(chunk)
  BY DEF History, CompletedBefore, LandedBefore, HistoryAt
<1> QED
  BY <1>1, <1>3, <1>4 DEF ChainInv

LEMMA StartChain == ASSUME TypeOK, NEW c \in Commands, Start(c) PROVE ChainInv'
<1>1. chunk' = 1 /\ work'.prior = Empty /\ chain'.seeded = FALSE /\ pc' = "visit"
  BY DEF Start, TypeOK, ProcessOK, NewWork, NewChain
<1>2. Reached' = 1
  BY <1>1 DEF Reached
<1>3. \A k \in Keys : DayOf[k] # 0 => ~(ChunkOf(k) < 1)
  BY KeySlots, Slots DEF Chunks
<1>4. Empty = History(1, FALSE)'
  BY <1>3 DEF Empty, History
<1>5. \A d \in Open : ~(Slot(d) < 1)
  BY Slots, Bounds DEF Chunks
<1>6. LandedBefore(1)'
  BY <1>5 DEF LandedBefore
<1> QED
  BY <1>1, <1>2, <1>4, <1>6 DEF ChainInv

LEMMA FailuresChain == ASSUME TypeOK, Failures PROVE ChainInv'
<1>1. PICK s : FailTo(s, TRUE, chain) \/ FailTo(s, FALSE, chain)
  BY FailuresLeave
<1>2. pc # "idle" /\ chunk \in Chunks
  BY FailuresAre, Process
<1>3. checkpoint'[chunk].state = "FAILED"
  BY <1>1, <1>2 DEF FailTo, TypeOK, CheckpointsOK
<1>4. chunk < Reached'
  BY <1>1, <1>2, Slots DEF FailTo, Advance, Final, Reached, Chunks
<1>5. ~CompletedBefore(Reached)'
  BY <1>2, <1>3, <1>4 DEF CompletedBefore
<1> QED
  BY <1>5 DEF ChainInv

LEMMA GoneChain == ASSUME Refuse \/ End \/ Interrupt \/ Dies PROVE ChainInv'
  BY DEF Refuse, End, Interrupt, Dies, Forget, ChainInv

LEMMA PassChain ==
    ASSUME TypeOK, WindowInv, ChainInv, AttemptInv, RecoverCompleted \/ Skip \/ WriteCheckpoint
    PROVE  ChainInv'
<1>1. /\ pc \notin {"idle", "end"} /\ cmd' = cmd /\ chunk \in Chunks
      /\ UNCHANGED <<canonical, disturbed>>
  BY Process DEF RecoverCompleted, Skip, WriteCheckpoint, Advance, store, others
<1>2. CASE ~cmd.apply
  BY <1>1, <1>2 DEF ChainInv
<1>3. CASE cmd.apply /\ RecoverCompleted
  <2> DEFINE f == ready[chunk].staged
  <2>1. ready[chunk] # None /\ ready[chunk].target = "COMPLETED"
    BY <1>3 DEF RecoverCompleted, Recovering
  <2>2. f \in Frames /\ InWindow(f, chunk)
    BY <1>1, <2>1, ReportFields, Windows
  <2>3. /\ Advance(Carried(f)) /\ Exact(f)
        /\ checkpoint' = [checkpoint EXCEPT ![chunk] =
                 [state |-> "COMPLETED", staged |-> f, proof |-> ready[chunk].proof]]
    BY <1>3 DEF RecoverCompleted, RecoverableCompletion, Proven
  <2>4. checkpoint'[chunk].staged = f /\ \A j \in Chunks : j # chunk => checkpoint'[j] = checkpoint[j]
    BY <1>1, <2>3 DEF TypeOK, CheckpointsOK
  <2>5. chain.seeded \/ DatesOf(chunk) = {}
    BY <1>3, <2>1 DEF RecoverCompleted, SeedingVisit, SeedDue, Recovering
  <2> HIDE DEF f
  <2> QED
    BY <1>1, <1>3, <2>2, <2>3, <2>4, <2>5, ChainAdvances DEF Exact
<1>4. CASE cmd.apply /\ Skip
  <2> DEFINE f == Here.staged
  <2>1. f \in Frames /\ InWindow(f, chunk)
    BY <1>1, <1>4, Process, Windows DEF Skip, Skippable, OrNone
  <2>2. Advance(Carried(f)) /\ Exact(f) /\ checkpoint' = checkpoint
    BY <1>4 DEF Skip, Skippable, Proven, store
  <2>3. chain.seeded \/ DatesOf(chunk) = {}
    BY <1>4 DEF Skip, Skippable, SeedingVisit, SeedDue
  <2>4. checkpoint'[chunk].staged = f
    BY <2>2 DEF Here
  <2> HIDE DEF f
  <2> QED
    BY <1>1, <1>4, <2>1, <2>2, <2>3, <2>4, ChainAdvances DEF Exact
<1>5. CASE cmd.apply /\ WriteCheckpoint
  <2> DEFINE f == work.frame
  <2>1. /\ pc = "checkpoint" /\ pc \in Attempted /\ pc \in Applied /\ pc \notin Writing
    BY <1>5 DEF WriteCheckpoint, Attempted, Applied, Writing
  <2>2. f = ready[chunk].staged /\ ready[chunk] # None
    BY <2>1 DEF AttemptInv
  <2>3. f \in Frames /\ InWindow(f, chunk)
    BY <1>1, <2>2, ReportFields, Windows
  <2>4. /\ Advance(Carried(f))
        /\ checkpoint' = [checkpoint EXCEPT ![chunk] =
                 [state |-> ready[chunk].target, staged |-> f, proof |-> ready[chunk].proof]]
    BY <1>5, <2>2 DEF WriteCheckpoint
  <2>5. checkpoint'[chunk].staged = f /\ \A j \in Chunks : j # chunk => checkpoint'[j] = checkpoint[j]
    BY <1>1, <2>4 DEF TypeOK, CheckpointsOK
  <2>6. chain.seeded \/ DatesOf(chunk) = {}
    BY <1>5, <2>1 DEF AttemptInv
  <2>7. ~disturbed => \A d \in DatesOf(chunk) : canonical[d].mine = Project(work.prior, f, d)
    BY <1>5, <2>1 DEF AttemptInv
  <2> HIDE DEF f
  <2> QED
    BY <1>1, <1>5, <2>3, <2>4, <2>5, <2>6, <2>7, ChainAdvances
<1> QED
  BY <1>1, <1>2, <1>3, <1>4, <1>5, Process

LEMMA SeedChain == ASSUME TypeOK, ChainInv, SeedVisit \/ Carry PROVE ChainInv'
<1>1. /\ pc \notin {"idle", "end"} /\ pc' \notin {"idle", "end"}
      /\ UNCHANGED <<checkpoint, canonical, cmd, chunk, disturbed>>
  BY DEF SeedVisit, Carry, store, others
<1>2. work \in Works /\ chain \in Chains /\ chunk \in Nat
  BY <1>1, Process DEF Chunks
<1>3. \/ SeedDue /\ work'.prior = Upsert(Seed, work.prior) /\ chain'.seeded = TRUE
      \/ work'.prior = work.prior /\ chain'.seeded = chain.seeded
  <2>1. CASE SeedVisit
    BY <1>2, <2>1 DEF SeedVisit, SeedingVisit, SeededChain, Works, Chains
  <2>2. CASE Carry /\ SeedDue
    BY <1>2, <2>2 DEF Carry, SeededChain, Works, Chains
  <2>3. CASE Carry /\ ~SeedDue
    BY <1>2, <2>3 DEF Carry, Works, Chains
  <2> QED
    BY <2>1, <2>2, <2>3
<1>4. CASE SeedDue /\ work'.prior = Upsert(Seed, work.prior) /\ chain'.seeded = TRUE
  BY <1>1, <1>4, SeedJoins
<1>5. CASE work'.prior = work.prior /\ chain'.seeded = chain.seeded
  BY <1>1, <1>2, <1>5, ChainStays DEF Reached
<1> QED
  BY <1>3, <1>4, <1>5

LEMMA ReachedType == ASSUME TypeOK, pc # "idle" PROVE Reached \in Nat /\ chunk \in Nat
  BY Process, Slots DEF Reached, Chunks

LEMMA WithinChain ==
    ASSUME TypeOK, ChainInv, AttemptInv, WorkSteps \/ RecoverStaged \/ Begin PROVE ChainInv'
<1>1. CASE Carry
  BY <1>1, SeedChain
<1>2. CASE RecoverStaged \/ Begin
  <2>1. /\ pc \notin {"idle", "end"} /\ pc' \notin {"idle", "end"}
        /\ UNCHANGED <<canonical, cmd, chunk, chain, work, disturbed>>
    BY <1>2 DEF RecoverStaged, Begin, process, others
  <2>2. \A j \in Chunks : j # chunk => checkpoint'[j] = checkpoint[j]
    BY <1>2 DEF RecoverStaged, Begin, TypeOK, CheckpointsOK
  <2>3. Reached = chunk /\ Reached' = chunk /\ chunk \in Nat
    BY <2>1, ReachedType DEF Reached
  <2>4. \A j \in Chunks : j < Reached => checkpoint'[j] = checkpoint[j]
    BY <2>2, <2>3 DEF Chunks
  <2> QED
    BY <2>1, <2>3, <2>4, ChainStays
<1>3. CASE WorkSteps /\ ~Carry
  <2>1. pc \notin {"idle", "end"} /\ pc' \notin {"idle", "end"} /\ UNCHANGED <<checkpoint, cmd, chunk, disturbed>>
    BY <1>3, WorkStepsKeep
       DEF WorkSteps, Fetch, Reuse, Apply, ReadPartition, WritePartition, ReadBack, Finish,
           PartitionDone, others
  <2>2. Reached = chunk /\ Reached' = chunk /\ chunk \in Nat
    BY <2>1, ReachedType DEF Reached
  <2>3. work'.prior = work.prior /\ chain' = chain
    <3>1. work \in Works
      BY <2>1, Process
    <3> QED
      BY <1>3, <3>1
         DEF WorkSteps, Fetch, Reuse, Apply, ReadPartition, WritePartition, ReadBack, Finish, Works
  <2>4. \A d \in Open : Slot(d) < chunk => canonical'[d] = canonical[d]
    <3>1. CASE WritePartition
      <4>1. Date \in DatesOf(chunk) /\ canonical' = [canonical EXCEPT ![Date] = Merged] /\ chunk \in Chunks
        BY <2>1, <3>1, DateIsOf, Process DEF WritePartition, Writing
      <4>2. Date \in Open /\ Slot(Date) = chunk
        BY <4>1, DatesInChunk
      <4> QED
        BY <2>2, <4>1, <4>2
    <3>2. CASE ~WritePartition
      <4>1. canonical' = canonical
        BY <1>3, <3>2 DEF WorkSteps, Fetch, Reuse, Apply, ReadPartition, ReadBack, Finish, store
      <4> QED
        BY <4>1
    <3> QED
      BY <3>1, <3>2
  <2> QED
    BY <2>1, <2>2, <2>3, <2>4, ChainStays
<1> QED
  BY <1>1, <1>2, <1>3

LEMMA EnvironmentChain ==
    ASSUME TypeOK, ChainInv, Correct \/ OtherReads \/ OtherWrites \/ UNCHANGED vars PROVE ChainInv'
<1>1. /\ UNCHANGED <<pc, cmd, chunk, chain, work, checkpoint>>
      /\ disturbed' \/ UNCHANGED <<canonical, disturbed>>
  BY DEF Correct, OtherReads, OtherWrites, vars, store, process
<1>2. CASE pc = "idle"
  BY <1>1, <1>2 DEF ChainInv
<1>3. CASE pc # "idle"
  BY <1>1, <1>3, ReachedType, ChainStays DEF Reached
<1> QED
  BY <1>2, <1>3

LEMMA NextChain == TypeOK /\ WindowInv /\ ChainInv /\ AttemptInv /\ [Next]_vars => ChainInv'
<1> SUFFICES ASSUME TypeOK, WindowInv, ChainInv, AttemptInv, [Next]_vars PROVE ChainInv'
  OBVIOUS
<1>1. CASE Next
  BY <1>1, NextCases, StartChain, WithinChain, SeedChain, PassChain, FailuresChain, GoneChain,
     EnvironmentChain
<1>2. CASE UNCHANGED vars
  BY <1>2, EnvironmentChain
<1> QED
  BY <1>1, <1>2

-----------------------------------------------------------------------------
LEMMA InitInv == Init => IInv
<1> SUFFICES ASSUME Init PROVE IInv
  OBVIOUS
<1>1. CheckpointsOK /\ ReadyOK
  <2>1. NoCheckpoint \in Checkpoints
    BY DEF NoCheckpoint, Checkpoints, OrNone
  <2> QED
    BY <2>1 DEF Init, CheckpointsOK, ReadyOK, OrNone, NoCheckpoint, Settled
<1>2. CanonicalOK
  <2>1. [mine |-> Empty, other |-> 0] \in Partitions
    BY Constants, Bounds DEF Partitions
  <2> QED
    BY <2>1 DEF Init, CanonicalOK
<1>3. ProcessOK
  <2>1. 1 \in Chunks
    BY Slots DEF Chunks
  <2> QED
    BY <2>1, Constants, NewWorkType DEF Init, ProcessOK, OrNone
<1>4. OthersOK
  <2>1. 1 \in Vintages /\ 0 \in 0..MaxEdits /\ 0 \in 0..MaxFaults
    BY Bounds DEF Vintages
  <2> QED
    BY <2>1 DEF Init, OthersOK, OrNone
<1>5. WindowInv
  <2>1. work = NewWork(Empty) /\ \A i \in Chunks : checkpoint[i].staged = None /\ ready[i] = None
    BY DEF Init, NoCheckpoint
  <2>2. \A i : InWindow(None, i)
    BY DEF InWindow
  <2> QED
    BY <2>1, <2>2, NewWorkWindow DEF WindowInv
<1>6. ChainInv /\ AttemptInv
  BY DEF Init, ChainInv, AttemptInv, Attempted, Applied, Writing
<1> QED
  BY <1>1, <1>2, <1>3, <1>4, <1>5, <1>6 DEF IInv, TypeOK

LEMMA Inductive == IInv /\ [Next]_vars => IInv'
  BY NextType, NextWindow, NextChain, NextAttempt DEF IInv

LEMMA Invariance == Spec => []IInv
  BY InitInv, Inductive, PTL DEF Spec

\* Manifests, reports, partitions and the chain of a process keep their shape, a settled
\* manifest its staging and a COMPLETED one its financial_reducer record.
THEOREM TypeCorrect == Spec => []TypeOK
<1>1. IInv => TypeOK
  BY DEF IInv
<1> QED
  BY <1>1, Invariance, PTL

\* execute_history_backfill has landed the history when an applying run ends on COMPLETED
\* chunks only, whichever of them it skipped, recovered or redid.
THEOREM CompletedLanded == Spec => []CompletedRunLanded
<1>1. IInv => CompletedRunLanded
  <2> SUFFICES ASSUME IInv, pc = "end", cmd.apply, AllCompleted, ~disturbed PROVE Landed
    BY DEF CompletedRunLanded
  <2>1. CompletedBefore(Reached)
    BY DEF AllCompleted, CompletedBefore
  <2>2. LandedBefore(Reached)
    BY <2>1 DEF IInv, ChainInv
  <2>3. \A d \in Open : Slot(d) < Reached
    BY Slots, Bounds DEF Reached, Chunks
  <2> QED
    BY <2>2, <2>3 DEF LandedBefore, Landed
<1> QED
  BY <1>1, Invariance, PTL
====
