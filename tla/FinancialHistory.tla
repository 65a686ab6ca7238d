---------------------------- MODULE FinancialHistory ----------------------------
(***************************************************************************)
(* The financial chunks of a Goal 21 v2 plan, which HistoryBackfill leaves  *)
(* out: a partition holds everything disclosed up to its date, so chunk i   *)
(* is computed from the carry of the chunks before it and from a seed, the  *)
(* last partition before the plan.  A process rebuilds that chain from the  *)
(* staging of the chunks it skips, recovers or attempts, and a chunk may    *)
(* only be COMPLETED on top of a chain that is whole.                       *)
(*                                                                          *)
(* A frame gives each disclosure the vintage of its values, 0 is no row; a  *)
(* checksum is the frame.  Reports other than READY, attempt numbers and    *)
(* the immutable slots are in HistoryBackfill.  --force and --no-resume     *)
(* differ in nothing: rerun is either.                                      *)
(***************************************************************************)
EXTENDS Integers, FiniteSets

CONSTANTS
    LastDay, WindowDays,  \* the plan: days 1..LastDay in announcement windows
    Open,                 \* its trade dates
    Keys, DayOf,          \* disclosures and the day each is announced, 0 before the plan
    MaxVintage,           \* bound: corrections at the vendor
    Announced,            \* [vintages -> disclosures the vendor has]
    None,
    MaxEdits,             \* bound: commands other than the landing, writes of another run
    MaxFaults             \* bound: raised calls, interrupts, deaths

Days == 1..LastDay
Vintages == 1..MaxVintage
OrNone(S) == S \cup {None}

Frames == [Keys -> 0..MaxVintage]

\* The last partition that was read back exact, and its frame; date -1 is none.
Anchors == [date : -1..LastDay, frame : Frames]

\* The financial_reducer record of a manifest or report.
Proofs == [prior : Frames, seeded : BOOLEAN, last : -1..LastDay, anchor : Anchors]

Settled == {"STAGED", "COMPLETED"}
Reports == [target : Settled, staged : Frames, proof : OrNone(Proofs), legal : BOOLEAN]
Commands == [provider : BOOLEAN, apply : BOOLEAN, rerun : BOOLEAN]

ASSUME FinancialHistoryAssumption ==
    /\ {LastDay, WindowDays, MaxVintage, MaxEdits, MaxFaults} \subseteq Nat
    /\ LastDay > 0 /\ WindowDays > 0 /\ MaxVintage > 0
    /\ Open \subseteq Days /\ IsFiniteSet(Keys)
    /\ DayOf \in [Keys -> 0..LastDay] /\ \E k \in Keys : DayOf[k] = 0
    /\ Announced \in [Vintages -> SUBSET Keys]
    /\ None \notin Frames /\ None \notin Proofs /\ None \notin Reports /\ None \notin Commands

VARIABLES
    vendor,      \* the vintage it answers with
    checkpoint,  \* [Chunks -> manifest]: state, staged frame, proof of a COMPLETED one
    ready,       \* [Chunks -> the READY report of the latest attempt, or None]
    canonical,   \* [Open -> rows of this plan, writes of others]
    pc, cmd, chunk, chain, work, todo,  \* the process
    refused,     \* the last run ended on a READY report it does not accept
    copy,        \* the partition another run read and has not written back, or None
    disturbed,   \* another run wrote since this one started
    edits, faults

process == <<pc, cmd, chunk, chain, work, todo>>
store == <<checkpoint, ready, canonical>>
others == <<vendor, copy, disturbed, edits>>
vars == <<vendor, store, process, refused, copy, disturbed, edits, faults>>

-----------------------------------------------------------------------------
(* The plan and its frames. *)

\* _split_date_windows: chunk i has the i-th window, the last may be short.
Slot(d) == ((d - 1) \div WindowDays) + 1
LastChunk == Slot(LastDay)
Chunks == 1..LastChunk
Window(i) == {d \in Days : Slot(d) = i}
DatesOf(i) == Open \cap Window(i)
Latest(S) == CHOOSE d \in S : \A e \in S : e <= d
Earliest(S) == CHOOSE d \in S : \A e \in S : d <= e

Empty == [k \in Keys |-> 0]
Seed == [k \in Keys |-> IF DayOf[k] = 0 THEN 1 ELSE 0]
Answer(i) == [k \in Keys |-> IF k \in Announced[vendor] /\ DayOf[k] \in Window(i) THEN vendor ELSE 0]

\* _upsert_frame, _merge_financial_source_state
Upsert(old, new) == [k \in Keys |-> IF new[k] # 0 THEN new[k] ELSE old[k]]

\* Mutant: what is disclosed later is already in the partition.
MutantProject(prior, f, d) == Upsert(prior, f)

\* _project_partitions: the partition of d has what was announced by d.
Project(prior, f, d) == Upsert(prior, [k \in Keys |-> IF DayOf[k] <= d THEN f[k] ELSE 0])

NoAnchor == [date |-> -1, frame |-> Empty]

NewChain == [carry |-> Empty, whole |-> TRUE, seeded |-> FALSE, failed |-> FALSE,
             last |-> -1, anchor |-> NoAnchor]
NewWork(prior) == [prior |-> prior, frame |-> None, fetched |-> FALSE, old |-> None]
NoCheckpoint == [state |-> "PENDING", staged |-> None, proof |-> None]

Init ==
    /\ vendor = 1
    /\ checkpoint = [i \in Chunks |-> NoCheckpoint]
    /\ ready = [i \in Chunks |-> None]
    /\ canonical = [d \in Open |-> [mine |-> Empty, other |-> 0]]
    /\ pc = "idle" /\ cmd = None /\ chunk = 1 /\ chain = NewChain /\ work = NewWork(Empty)
    /\ todo = {} /\ refused = FALSE /\ copy = None /\ disturbed = FALSE
    /\ edits = 0 /\ faults = 0

Quiet == UNCHANGED faults
Fault == faults < MaxFaults /\ faults' = faults + 1
Edit == edits < MaxEdits /\ edits' = edits + 1

-----------------------------------------------------------------------------
(* What the process computes of a chunk that comes after its chain. *)

Here == checkpoint[chunk]
Final == chunk = LastChunk

\* _latest_financial_materialization_date, _latest_financial_anchor
LastNow == IF DatesOf(chunk) = {} THEN chain.last ELSE Latest(DatesOf(chunk))
AnchorNow(f) ==
    IF DatesOf(chunk) = {} THEN chain.anchor
    ELSE [date |-> LastNow, frame |-> Project(work.prior, f, LastNow)]

\* _financial_terminal_evidence: all that was carried is in the last partition.
Pending(carry) == \E k \in Keys : carry[k] # 0 /\ DayOf[k] > LastNow
Terminal(f) ==
    LET carry == Upsert(work.prior, f)
    IN  /\ ~Pending(carry)
        /\ LastNow >= 0 /\ AnchorNow(f) = [date |-> LastNow, frame |-> carry]

\* What such a record says of the staging f.
Proof(f) == [prior |-> work.prior, seeded |-> chain.seeded, last |-> LastNow, anchor |-> AnchorNow(f)]

\* _canonical_scope_is_exact
Exact(f) == \A d \in DatesOf(chunk) : canonical[d].mine = Project(work.prior, f, d)

\* What a COMPLETED manifest or READY report with staging f must show again.
Proven(f, proof) ==
    /\ proof = Proof(f)
    /\ Final => Terminal(f)
    /\ Exact(f)

\* Mutant: a chunk that is not attempted hands on no anchor.
MutantCarried(f) == [chain EXCEPT !.carry = Upsert(work.prior, f), !.last = LastNow]

\* The chain after a chunk that is proven.
Carried(f) ==
    [chain EXCEPT !.carry = Upsert(work.prior, f), !.last = LastNow, !.anchor = AnchorNow(f)]

\* _ensure_financial_seed: the rows of the predecessor partition come before all others.
SeedDue == cmd.apply /\ ~chain.seeded /\ DatesOf(chunk) # {}
SeededChain ==
    [chain EXCEPT !.seeded = TRUE, !.last = IF @ < 0 THEN 0 ELSE @,
                  !.anchor = IF @.date < 0 THEN [date |-> 0, frame |-> Seed] ELSE @]

\* On to the next chunk with chain c, or to the summary.
Advance(c) ==
    /\ chain' = c
    /\ work' = NewWork(c.carry) /\ todo' = {}
    /\ IF Final THEN pc' = "end" /\ chunk' = chunk ELSE pc' = "visit" /\ chunk' = chunk + 1
    /\ UNCHANGED cmd

\* Mutant: the chain of one run is there in the next.
MutantForget ==
    /\ pc' = "idle" /\ cmd' = None /\ chunk' = 1 /\ chain' = chain
    /\ work' = NewWork(Empty) /\ todo' = {}

\* The process is gone, and its chain with it.
Forget ==
    /\ pc' = "idle" /\ cmd' = None /\ chunk' = 1 /\ chain' = NewChain
    /\ work' = NewWork(Empty) /\ todo' = {}

-----------------------------------------------------------------------------
(* A run visits the chunks. *)

Landing == [provider |-> TRUE, apply |-> TRUE, rerun |-> FALSE]

Start(c) ==
    /\ pc = "idle" /\ (c.provider \/ c.apply)
    /\ IF c = Landing THEN UNCHANGED edits ELSE Edit
    /\ cmd' = c /\ pc' = "visit" /\ disturbed' = FALSE
    /\ UNCHANGED <<vendor, store, chunk, chain, work, todo, refused, copy, faults>>

\* Looked at by _recover_ready_checkpoint, which is skipped once the chain is broken.
Recovering ==
    /\ ~cmd.rerun /\ chain.whole /\ ~chain.failed
    /\ Here.state \notin Settled \cup {"PENDING"}
    /\ ready[chunk] # None

RecoverStaged ==
    /\ pc = "visit" /\ Recovering
    /\ ready[chunk].target = "STAGED" /\ ready[chunk].legal
    /\ checkpoint' = [checkpoint EXCEPT ![chunk] =
          [state |-> "STAGED", staged |-> ready[chunk].staged, proof |-> None]]
    /\ Quiet /\ UNCHANGED <<ready, canonical, process, refused, others>>

\* The seed is read on the visit of a chunk with staging, before anything is decided.
SeedingVisit ==
    /\ ~cmd.rerun /\ SeedDue /\ ~chain.failed
    /\ IF Recovering THEN ready[chunk].target = "COMPLETED" ELSE Here.staged # None

SeedVisit ==
    /\ pc = "visit" /\ SeedingVisit
    /\ \/ /\ chain' = SeededChain
          /\ work' = [work EXCEPT !.prior = Upsert(Seed, @)]
          /\ Quiet
       \/ chain' = [chain EXCEPT !.failed = TRUE] /\ work' = work /\ Fault
    /\ UNCHANGED <<store, pc, cmd, chunk, todo, refused, others>>

RecoverableCompletion ==
    LET r == ready[chunk] IN cmd.apply /\ r.legal /\ Proven(r.staged, r.proof)

RecoverCompleted ==
    /\ pc = "visit" /\ Recovering /\ ~SeedingVisit
    /\ ready[chunk].target = "COMPLETED" /\ RecoverableCompletion
    /\ LET r == ready[chunk]
       IN  /\ checkpoint' = [checkpoint EXCEPT ![chunk] =
                 [state |-> "COMPLETED", staged |-> r.staged, proof |-> r.proof]]
           /\ Advance(Carried(r.staged))
    /\ Quiet /\ UNCHANGED <<ready, canonical, refused, others>>

\* INVALID_READY_REPORT ends the run.
Refuse ==
    /\ pc = "visit" /\ Recovering /\ ~SeedingVisit
    /\ IF ready[chunk].target = "STAGED" THEN ~ready[chunk].legal ELSE ~RecoverableCompletion
    /\ Forget /\ refused' = TRUE
    /\ Quiet /\ UNCHANGED <<store, others>>

\* Without apply nothing is compared; with it a COMPLETED chunk has to be proven again.
Skippable ==
    /\ ~cmd.rerun /\ Here.staged # None /\ Here.state \in Settled
    /\ cmd.apply => /\ Here.state = "COMPLETED" /\ chain.whole /\ ~chain.failed
                    /\ Proven(Here.staged, Here.proof)

Skip ==
    /\ pc = "visit" /\ ~Recovering /\ ~SeedingVisit /\ Skippable
    /\ Advance(IF cmd.apply THEN Carried(Here.staged)
               ELSE [chain EXCEPT !.carry = Upsert(work.prior, Here.staged)])
    /\ Quiet /\ UNCHANGED <<store, refused, others>>

\* do_fetch: a resumed run keeps staging that did not fail.
MustFetch ==
    /\ cmd.provider
    /\ cmd.rerun \/ Here.staged = None
       \/ Here.state \notin Settled \cup {"RUNNING", "INTERRUPTED"}

Begin ==
    /\ pc = "visit" /\ ~Recovering /\ ~SeedingVisit /\ ~Skippable
    /\ checkpoint' = [checkpoint EXCEPT ![chunk] =
          [state |-> "RUNNING", staged |-> IF MustFetch THEN None ELSE @.staged, proof |-> None]]
    /\ ready' = [ready EXCEPT ![chunk] = None]
    /\ pc' = IF MustFetch THEN "fetch" ELSE "reuse"
    /\ Quiet /\ UNCHANGED <<canonical, cmd, chunk, chain, work, todo, refused, others>>

-----------------------------------------------------------------------------
(* One attempt. *)

Evidence == IF work.frame = None THEN Here.staged ELSE work.frame

\* A failed attempt leaves staging s; a chunk whose frame never reached the carry breaks
\* the chain c for those after it.
FailTo(s, verified, c) ==
    /\ checkpoint' = [checkpoint EXCEPT ![chunk] =
          [state |-> "FAILED", staged |-> s, proof |-> None]]
    /\ Advance([c EXCEPT !.whole = @ /\ verified])

\* HistoricalProviderRouter.fetch_chunk: the calendar, the answer, its raw landing and the
\* check of its window; then staging, written and read back.
Fetch ==
    /\ pc = "fetch"
    /\ work' = [work EXCEPT !.frame = Answer(chunk), !.fetched = TRUE]
    /\ pc' = "carry"
    /\ Quiet /\ UNCHANGED <<store, cmd, chunk, chain, todo, refused, others>>

FetchFails ==
    /\ pc = "fetch"
    /\ \E s \in {None, Answer(chunk)} : FailTo(s, FALSE, chain)
    /\ Fault /\ UNCHANGED <<ready, canonical, refused, others>>

Reuse ==
    /\ pc = "reuse" /\ Here.staged # None
    /\ work' = [work EXCEPT !.frame = Here.staged]
    /\ pc' = "carry"
    /\ Quiet /\ UNCHANGED <<store, cmd, chunk, chain, todo, refused, others>>

ReuseFails ==
    /\ pc = "reuse" /\ Here.staged = None
    /\ FailTo(None, FALSE, chain)
    /\ Quiet /\ UNCHANGED <<ready, canonical, refused, others>>

\* The frame joins the carry, after the seed if that is still to be read.
Carry ==
    /\ pc = "carry" /\ ~chain.failed
    /\ LET p == IF SeedDue THEN Upsert(Seed, work.prior) ELSE work.prior
           c == [(IF SeedDue THEN SeededChain ELSE chain) EXCEPT !.carry = Upsert(p, work.frame)]
       IN  /\ chain' = c
           /\ work' = [work EXCEPT !.prior = p]
    /\ pc' = IF cmd.apply THEN "apply" ELSE "finish"
    /\ Quiet /\ UNCHANGED <<store, cmd, chunk, todo, refused, others>>

CarryFails ==
    /\ pc = "carry"
    /\ IF chain.failed THEN Quiet ELSE SeedDue /\ Fault
    /\ FailTo(Evidence, FALSE, chain)
    /\ UNCHANGED <<ready, canonical, refused, others>>

\* Nothing is written after a broken chain, nor by a final chunk that leaves rows behind.
Appliable == chain.whole /\ ~(Final /\ Pending(chain.carry))

Apply ==
    /\ pc = "apply" /\ Appliable
    /\ todo' = DatesOf(chunk)
    /\ pc' = IF todo' = {} THEN "finish" ELSE "read"
    /\ Quiet /\ UNCHANGED <<store, cmd, chunk, chain, work, refused, others>>

ApplyRefused ==
    /\ pc = "apply" /\ ~Appliable
    /\ FailTo(Evidence, TRUE, chain)
    /\ Quiet /\ UNCHANGED <<ready, canonical, refused, others>>

\* _apply_one_partition, date by date.
Date == Earliest(todo)
Incoming == Project(work.prior, work.frame, Date)

PartitionDone ==
    /\ todo' = todo \ {Date}
    /\ pc' = IF todo' = {} THEN "finish" ELSE "read"

ReadPartition ==
    /\ pc = "read"
    /\ work' = [work EXCEPT !.old = canonical[Date]]
    /\ IF cmd.rerun \/ canonical[Date].mine # Incoming
       THEN pc' = "write" /\ UNCHANGED todo
       ELSE PartitionDone
    /\ Quiet /\ UNCHANGED <<store, cmd, chunk, chain, refused, others>>

\* The rows of others are those that were read.
Merged == [mine |-> Incoming, other |-> work.old.other]

WritePartition ==
    /\ pc = "write"
    /\ canonical' = [canonical EXCEPT ![Date] = Merged]
    /\ pc' = "readback"
    /\ Quiet /\ UNCHANGED <<checkpoint, ready, cmd, chunk, chain, work, todo, refused, others>>

ReadBack ==
    /\ pc = "readback" /\ canonical[Date] = Merged
    /\ PartitionDone
    /\ Quiet /\ UNCHANGED <<store, cmd, chunk, chain, work, refused, others>>

PartitionFails ==
    /\ pc \in {"read", "write", "readback"}
    /\ IF pc = "readback" /\ canonical[Date] # Merged THEN Quiet ELSE Fault
    /\ \/ UNCHANGED canonical
       \/ pc = "write" /\ canonical' = [canonical EXCEPT ![Date] = Merged]
    /\ FailTo(Evidence, TRUE, chain)
    /\ UNCHANGED <<ready, refused, others>>

\* A provider run that reused staging writes a report recovery will not accept.
ReadyReport ==
    [target |-> IF cmd.apply THEN "COMPLETED" ELSE "STAGED", staged |-> work.frame,
     proof |-> IF cmd.apply THEN Proof(work.frame) ELSE None,
     legal |-> cmd.provider => work.fetched]

Finished == cmd.apply /\ Final => Terminal(work.frame)

Finish ==
    /\ pc = "finish" /\ Finished
    /\ ready' = [ready EXCEPT ![chunk] = ReadyReport]
    /\ pc' = "checkpoint"
    /\ Quiet /\ UNCHANGED <<checkpoint, canonical, cmd, chunk, chain, work, todo, refused, others>>

\* A report whose write raises after it took effect is as CheckpointFails leaves it.
FinishFails ==
    /\ pc = "finish"
    /\ IF Finished THEN Fault ELSE Quiet
    /\ FailTo(Evidence, TRUE, chain)
    /\ UNCHANGED <<ready, canonical, refused, others>>

\* Only now does the chain's anchor move on.
WriteCheckpoint ==
    /\ pc = "checkpoint"
    /\ LET r == ready[chunk]
       IN  /\ checkpoint' = [checkpoint EXCEPT ![chunk] =
                 [state |-> r.target, staged |-> r.staged, proof |-> r.proof]]
           /\ Advance(IF cmd.apply THEN Carried(r.staged) ELSE chain)
    /\ Quiet /\ UNCHANGED <<ready, canonical, refused, others>>

CheckpointFails ==
    /\ pc = "checkpoint"
    /\ FailTo(Evidence, TRUE, chain)
    /\ Fault /\ UNCHANGED <<ready, canonical, refused, others>>

End ==
    /\ pc = "end"
    /\ Forget /\ refused' = FALSE
    /\ Quiet /\ UNCHANGED <<store, others>>

\* Ctrl-C inside an attempt leaves what it staged in an INTERRUPTED manifest.
Interrupt ==
    /\ pc \in {"fetch", "reuse", "carry", "apply", "read", "write", "readback", "finish", "checkpoint"}
    /\ checkpoint' = [checkpoint EXCEPT ![chunk] =
          [state |-> "INTERRUPTED", staged |-> Evidence, proof |-> None]]
    /\ Forget /\ Fault /\ UNCHANGED <<ready, canonical, refused, others>>

Dies ==
    /\ pc # "idle" /\ Forget
    /\ Fault /\ UNCHANGED <<store, refused, others>>

-----------------------------------------------------------------------------
(* The vendor, and a run of another plan over the same partitions. *)

Correct ==
    /\ vendor < MaxVintage /\ vendor' = vendor + 1
    /\ UNCHANGED <<store, process, refused, copy, disturbed, edits, faults>>

OtherReads ==
    /\ copy = None /\ edits < MaxEdits
    /\ \E d \in Open : copy' = [date |-> d, mine |-> canonical[d].mine]
    /\ UNCHANGED <<vendor, store, process, refused, disturbed, edits, faults>>

OtherWrites ==
    /\ copy # None /\ Edit
    /\ canonical' = [canonical EXCEPT ![copy.date] = [mine |-> copy.mine, other |-> edits']]
    /\ copy' = None /\ disturbed' = TRUE
    /\ UNCHANGED <<vendor, checkpoint, ready, process, refused, faults>>

Step ==
    \/ RecoverStaged \/ SeedVisit \/ RecoverCompleted \/ Refuse \/ Skip \/ Begin
    \/ Fetch \/ Reuse \/ ReuseFails \/ Carry \/ CarryFails \/ Apply \/ ApplyRefused
    \/ ReadPartition \/ WritePartition \/ ReadBack \/ PartitionFails
    \/ Finish \/ FinishFails \/ WriteCheckpoint \/ End

Next ==
    \/ \E c \in Commands : Start(c)
    \/ Step \/ FetchFails \/ CheckpointFails \/ Interrupt \/ Dies
    \/ Correct \/ OtherReads \/ OtherWrites

Spec == Init /\ [][Next]_vars

\* A process runs until it ends or dies, and the landing is repeated.  Faults are bounded.
FairSpec == Spec /\ WF_vars(Step) /\ WF_vars(Start(Landing))

-----------------------------------------------------------------------------
(* What the chain promises. *)

Checkpoints ==
    [state : Settled \cup {"PENDING", "RUNNING", "FAILED", "INTERRUPTED"},
     staged : OrNone(Frames), proof : OrNone(Proofs)]
Partitions == [mine : Frames, other : 0..MaxEdits]
Chains == [carry : Frames, whole : BOOLEAN, seeded : BOOLEAN, failed : BOOLEAN,
           last : -1..LastDay, anchor : Anchors]
Works == [prior : Frames, frame : OrNone(Frames), fetched : BOOLEAN, old : OrNone(Partitions)]

\* A settled checkpoint has its staging, a COMPLETED one or report its proof.
CheckpointsOK ==
    /\ checkpoint \in [Chunks -> Checkpoints]
    /\ \A i \in Chunks :
        /\ checkpoint[i].state \in Settled => checkpoint[i].staged # None
        /\ checkpoint[i].proof # None <=> checkpoint[i].state = "COMPLETED"

ReadyOK ==
    /\ ready \in [Chunks -> OrNone(Reports)]
    /\ \A i \in Chunks :
        ready[i] # None => (ready[i].proof # None <=> ready[i].target = "COMPLETED")

CanonicalOK == canonical \in [Open -> Partitions]

ProcessOK ==
    /\ cmd \in OrNone(Commands) /\ (pc # "idle" => cmd \in Commands)
    /\ chunk \in Chunks /\ chain \in Chains /\ work \in Works /\ todo \subseteq Open
    /\ pc = "idle" => chunk = 1 /\ chain = NewChain /\ work = NewWork(Empty)

OthersOK ==
    /\ vendor \in Vintages /\ copy \in OrNone([date : Open, mine : Frames])
    /\ refused \in BOOLEAN /\ disturbed \in BOOLEAN
    /\ edits \in 0..MaxEdits /\ faults \in 0..MaxFaults

\* Every frame, manifest, partition and memory of a process keeps its shape, a settled
\* checkpoint its staging and a COMPLETED one its proof, and a process between runs holds nothing.
TypeOK == CheckpointsOK /\ ReadyOK /\ CanonicalOK /\ ProcessOK /\ OthersOK

ChunkOf(k) == Slot(DayOf[k])
AllCompleted == \A i \in Chunks : checkpoint[i].state = "COMPLETED"

\* The history as of d, from the staging of every chunk and no chain.
HistoryAt(d) ==
    [k \in Keys |-> IF DayOf[k] = 0 THEN Seed[k]
                    ELSE IF DayOf[k] <= d THEN checkpoint[ChunkOf(k)].staged[k] ELSE 0]

Landed == AllCompleted /\ \A d \in Open : canonical[d].mine = HistoryAt(d)

\* A run that applies and finds every chunk COMPLETED has left in every partition all that
\* was disclosed by its date and nothing disclosed later, whichever chunks it skipped,
\* recovered or redid and whatever failed before; unless another run wrote meanwhile.
CompletedRunLanded ==
    pc = "end" /\ cmd.apply /\ AllCompleted /\ ~disturbed => Landed

\* Repeating the landing lands the history for good, unless a READY report is left that every
\* resumed run refuses or something is announced after the last trade date.
Completes ==
    \/ <>[]Landed \/ <>[]refused
    \/ \E v \in Vintages : \E k \in Announced[v] : \A d \in Open : d < DayOf[k]
=============================================================================
