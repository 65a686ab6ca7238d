------------------------- MODULE SelectionPublication -------------------------
(***************************************************************************)
(* The publication protocol of Goal 24: _run_one_selection_date and         *)
(* _complete_snapshot_phase in scoring/real_selection_result.py with the    *)
(* object and commit writers of cli.py, for one selection date and one      *)
(* rebalance mode.  (Every key is per date and mode, so dates and modes     *)
(* share nothing but the range manifest, which no reader of this module     *)
(* trusts.)                                                                 *)
(*                                                                          *)
(* Several runs, each under its own run_id, publish the same date at the    *)
(* same time: each stages its immutable generation, creates the commit if   *)
(* there is none, and then brings the PostgreSQL summary in line.  Nothing  *)
(* but the create-only commit keeps them apart.                             *)
(*                                                                          *)
(* The plan of a run_id freezes its manifests and configuration, so a run   *)
(* has one input fingerprint, InputOf[p]; the generation id is its hash     *)
(* with the checksum of the result, which is a function of the same input.  *)
(***************************************************************************)
EXTENDS Naturals

CONSTANTS
    Publishers,      \* run ids
    Inputs,          \* input fingerprints, and the generations built from them
    InputOf,         \* [Publishers -> Inputs]
    None,            \* no commit object, no row in PostgreSQL
    InvalidCommit,   \* a commit object that fails validation
    MaxFaults,       \* bound: raised calls, refused inputs, crashes
    MaxTampers       \* bound: objects or rows changed by someone else, false conflicts

ASSUME PublisherAssumption ==
    /\ InputOf \in [Publishers -> Inputs]
    /\ None \notin Inputs
    /\ InvalidCommit \notin Inputs \cup {None}
    /\ MaxFaults \in Nat /\ MaxTampers \in Nat

VARIABLES
    generation,    \* [Inputs -> {"absent", "intact", "corrupt"}], immutable objects
    commit,        \* what commit.json of the date names
    snapshot,      \* what the selection_snapshot row of the date names
    report,        \* [Publishers -> Outcome], the persisted daily DQ reports
    pc,            \* [Publishers -> the next call of the process]
    job,           \* [Publishers -> [reuse, compatible]]
    outcome,       \* [Publishers -> Outcome], what the process is about to report
    faults, tampers,
    spoiled        \* generations and rows changed by someone else

published == <<generation, commit, snapshot>>
vars == <<generation, commit, snapshot, report, pc, job, outcome, faults, tampers, spoiled>>

\* A report that is BLOCKED by its inputs is REFUSED here, to tell it from one
\* that is BLOCKED by another publication.
Outcome == [status : {"NONE", "RUNNING", "COMPLETED", "DATABASE_PENDING", "BLOCKED",
                      "REFUSED", "FAILED"},
            commit : {"PENDING", "COMMITTED", "UNCOMMITTED"}]

Started == [status |-> "RUNNING", commit |-> "PENDING"]

Init ==
    /\ generation = [i \in Inputs |-> "absent"]
    /\ commit = None
    /\ snapshot = None
    /\ report = [p \in Publishers |-> [status |-> "NONE", commit |-> "PENDING"]]
    /\ pc = [p \in Publishers |-> "idle"]
    /\ job = [p \in Publishers |-> [reuse |-> TRUE, compatible |-> FALSE]]
    /\ outcome = [p \in Publishers |-> Started]
    /\ faults = 0 /\ tampers = 0 /\ spoiled = {}

-----------------------------------------------------------------------------
\* Mutant: a commit of the same input is compatible whatever became of its object.
MutantCompatible(p) == commit # InvalidCommit

\* _completed_selection_commit_matches, and the published reader: the commit is
\* of this input and the generation it names is still there and intact.
Compatible(p) == commit = InputOf[p] /\ generation[InputOf[p]] = "intact"

Goto(p, label) == pc' = [pc EXCEPT ![p] = label] /\ UNCHANGED outcome

\* Mutant: the two fields are swapped.
MutantConclude(p, status, c) ==
    /\ outcome' = [outcome EXCEPT ![p] = [status |-> c, commit |-> status]]
    /\ pc' = [pc EXCEPT ![p] = "report"]

\* The date is over for this process; its report is written next.
Conclude(p, status, c) ==
    /\ outcome' = [outcome EXCEPT ![p] = [status |-> status, commit |-> c]]
    /\ pc' = [pc EXCEPT ![p] = "report"]

Fault == faults < MaxFaults /\ faults' = faults + 1

Local == <<report, tampers, spoiled>>

\* The RUNNING manifest and report are written, then the inputs are loaded.
Start(p) ==
    /\ pc[p] = "idle"
    /\ report' = [report EXCEPT ![p] = Started]
    /\ outcome' = [outcome EXCEPT ![p] = Started]
    /\ \E r \in BOOLEAN : job' = [job EXCEPT ![p] = [reuse |-> r, compatible |-> FALSE]]
    /\ pc' = [pc EXCEPT ![p] = "find"]
    /\ UNCHANGED <<published, faults, tampers, spoiled>>

\* Goal 23 or Goal 22 evidence does not hold, or a read fails.
InputsRefused(p) ==
    /\ pc[p] = "find"
    /\ Fault
    /\ \E s \in {"REFUSED", "FAILED"} : Conclude(p, s, "UNCOMMITTED")
    /\ UNCHANGED <<published, job, Local>>

-----------------------------------------------------------------------------
(* Is the date published already? *)

\* Mutant: the date is committed first and staged later.
MutantFindNothing(p) ==
    /\ pc[p] = "find" /\ commit = None
    /\ Goto(p, "precommit")
    /\ UNCHANGED <<published, job, faults, Local>>

FindNothing(p) ==
    /\ pc[p] = "find" /\ commit = None
    /\ Goto(p, "stage")
    /\ UNCHANGED <<published, job, faults, Local>>

\* Mutant: a published date is complete without a look at the database.
MutantFindCompatible(p) ==
    /\ pc[p] = "find" /\ commit # None /\ Compatible(p)
    /\ job' = [job EXCEPT ![p].compatible = TRUE]
    /\ IF job[p].reuse THEN Conclude(p, "COMPLETED", "COMMITTED") ELSE Goto(p, "stage")
    /\ UNCHANGED <<published, faults, Local>>

\* A resumed run repairs the summary only; any other recomputes first.
FindCompatible(p) ==
    /\ pc[p] = "find" /\ commit # None /\ Compatible(p)
    /\ job' = [job EXCEPT ![p].compatible = TRUE]
    /\ Goto(p, IF job[p].reuse THEN "snapshot" ELSE "stage")
    /\ UNCHANGED <<published, faults, Local>>

FindCollision(p) ==
    /\ pc[p] = "find" /\ commit # None /\ ~Compatible(p)
    /\ Conclude(p, "BLOCKED", "UNCOMMITTED")
    /\ UNCHANGED <<published, job, faults, Local>>

-----------------------------------------------------------------------------
(* The generation is staged and read back. *)

CheckGeneration(p) ==
    /\ pc[p] = "stage"
    /\ \/ generation[InputOf[p]] = "absent" /\ Goto(p, "write")
       \/ generation[InputOf[p]] = "intact" /\ Goto(p, "readback")
       \/ generation[InputOf[p]] = "corrupt" /\ Conclude(p, "FAILED", "UNCOMMITTED")
    /\ UNCHANGED <<published, job, faults, Local>>

PutGeneration(p) ==
    /\ generation' = [generation EXCEPT ![InputOf[p]] = "intact"]
    /\ spoiled' = spoiled \ {InputOf[p]}
    /\ UNCHANGED <<commit, snapshot>>

WriteGeneration(p) ==
    /\ pc[p] = "write"
    /\ PutGeneration(p)
    /\ Goto(p, "readback")
    /\ UNCHANGED <<job, report, faults, tampers>>

\* A run that found its own publication has nothing to commit.
ReadBack(p) ==
    /\ pc[p] = "readback"
    /\ IF generation[InputOf[p]] = "intact"
       THEN Goto(p, IF job[p].compatible THEN "verify" ELSE "precommit")
       ELSE Conclude(p, "FAILED", "UNCOMMITTED")
    /\ UNCHANGED <<published, job, faults, Local>>

-----------------------------------------------------------------------------
(* The commit is created, unless somebody was faster. *)

\* The last look before the write.  An invalid commit fails its reader, and that
\* error is caught as any other is.
FindConcurrent(p) ==
    /\ pc[p] = "precommit"
    /\ \/ commit = None /\ Goto(p, "commit")
       \/ commit # None /\ Compatible(p) /\ Goto(p, "verify")
       \/ commit \in Inputs /\ ~Compatible(p) /\ Conclude(p, "BLOCKED", "UNCOMMITTED")
       \/ commit = InvalidCommit /\ Conclude(p, "FAILED", "UNCOMMITTED")
    /\ UNCHANGED <<published, job, faults, Local>>

\* Mutant: an ordinary write instead of a create-only one.
MutantCreateCommit(p) ==
    /\ pc[p] = "commit"
    /\ commit' = InputOf[p]
    /\ Goto(p, "verify")
    /\ UNCHANGED <<generation, snapshot, job, faults, Local>>

\* os.link, or a conditional PUT.
CreateCommit(p) ==
    /\ pc[p] = "commit" /\ commit = None
    /\ commit' = InputOf[p]
    /\ Goto(p, "verify")
    /\ UNCHANGED <<generation, snapshot, job, faults, Local>>

\* Mutant: whoever loses the race is blocked.
MutantLoseCommit(p) ==
    /\ pc[p] = "commit" /\ commit # None
    /\ Conclude(p, "BLOCKED", "UNCOMMITTED")
    /\ UNCHANGED <<published, job, faults, Local>>

\* FileExistsError: the winner is read back and reused when it is the same.
LoseCommit(p) ==
    /\ pc[p] = "commit" /\ commit # None
    /\ IF Compatible(p) THEN Goto(p, "verify") ELSE Conclude(p, "BLOCKED", "UNCOMMITTED")
    /\ UNCHANGED <<published, job, faults, Local>>

\* The store reports a conflict although no commit is there to be read.
CommitConflict(p) ==
    /\ pc[p] = "commit" /\ commit = None
    /\ tampers < MaxTampers /\ tampers' = tampers + 1
    /\ Conclude(p, "BLOCKED", "UNCOMMITTED")
    /\ UNCHANGED <<published, job, report, faults, spoiled>>

VerifyPublished(p) ==
    /\ pc[p] = "verify"
    /\ IF Compatible(p) THEN Goto(p, "snapshot") ELSE Conclude(p, "FAILED", "COMMITTED")
    /\ UNCHANGED <<published, job, faults, Local>>

-----------------------------------------------------------------------------
(* The PostgreSQL summary. *)

ReadSnapshot(p) ==
    /\ pc[p] = "snapshot"
    /\ IF snapshot = InputOf[p] THEN Conclude(p, "COMPLETED", "COMMITTED")
                                ELSE Goto(p, "upsert")
    /\ UNCHANGED <<published, job, faults, Local>>

PutSnapshot(p) ==
    /\ snapshot' = InputOf[p]
    /\ spoiled' = spoiled \ {None}
    /\ UNCHANGED <<generation, commit>>

UpsertSnapshot(p) ==
    /\ pc[p] = "upsert"
    /\ PutSnapshot(p)
    /\ Goto(p, "confirm")
    /\ UNCHANGED <<job, report, faults, tampers>>

ConfirmSnapshot(p) ==
    /\ pc[p] = "confirm"
    /\ Conclude(p, IF snapshot = InputOf[p] THEN "COMPLETED" ELSE "DATABASE_PENDING",
                "COMMITTED")
    /\ UNCHANGED <<published, job, faults, Local>>

\* The database fails, before or after it did what it was asked.
SnapshotRaises(p) ==
    /\ pc[p] \in {"snapshot", "upsert", "confirm"}
    /\ Fault
    /\ \/ UNCHANGED <<published, spoiled>>
       \/ pc[p] = "upsert" /\ PutSnapshot(p)
    /\ Conclude(p, "DATABASE_PENDING", "COMMITTED")
    /\ UNCHANGED <<job, report, tampers>>

-----------------------------------------------------------------------------
(* Failures, the report, and what happens around the process. *)

\* A call to the object store raises, before or after it took effect.
StoreRaises(p) ==
    /\ pc[p] \in {"stage", "write", "readback", "precommit", "commit", "verify"}
    /\ Fault
    /\ \/ UNCHANGED <<published, spoiled>>
       \/ pc[p] = "write" /\ PutGeneration(p)
       \/ /\ pc[p] = "commit" /\ commit = None
          /\ commit' = InputOf[p]
          /\ UNCHANGED <<generation, snapshot, spoiled>>
    /\ Conclude(p, "FAILED", IF pc[p] = "verify" THEN "COMMITTED" ELSE "UNCOMMITTED")
    /\ UNCHANGED <<job, report, tampers>>

WriteReport(p) ==
    /\ pc[p] = "report"
    /\ report' = [report EXCEPT ![p] = outcome[p]]
    /\ pc' = [pc EXCEPT ![p] = "idle"]
    /\ UNCHANGED <<published, job, outcome, faults, tampers, spoiled>>

\* The process dies, or a control write raises and ends it: the report stays RUNNING.
Crash(p) ==
    /\ pc[p] # "idle"
    /\ Fault
    /\ pc' = [pc EXCEPT ![p] = "idle"]
    /\ UNCHANGED <<published, job, outcome, Local>>

\* Somebody else loses or damages an object, writes a commit that does not
\* validate, or deletes the row.
Tamper ==
    /\ tampers < MaxTampers /\ tampers' = tampers + 1
    /\ \/ \E i \in Inputs, g \in {"absent", "corrupt"} :
             /\ generation[i] = "intact"
             /\ generation' = [generation EXCEPT ![i] = g]
             /\ spoiled' = spoiled \cup {i}
             /\ UNCHANGED <<commit, snapshot>>
       \/ /\ commit = None /\ commit' = InvalidCommit
          /\ UNCHANGED <<generation, snapshot, spoiled>>
       \/ /\ snapshot # None /\ snapshot' = None
          /\ spoiled' = spoiled \cup {None}
          /\ UNCHANGED <<generation, commit>>
    /\ UNCHANGED <<report, pc, job, outcome, faults>>

Proceed(p) ==
    \/ FindNothing(p) \/ FindCompatible(p) \/ FindCollision(p)
    \/ CheckGeneration(p) \/ WriteGeneration(p) \/ ReadBack(p)
    \/ FindConcurrent(p) \/ CreateCommit(p) \/ LoseCommit(p) \/ VerifyPublished(p)
    \/ ReadSnapshot(p) \/ UpsertSnapshot(p) \/ ConfirmSnapshot(p)
    \/ WriteReport(p)

Fails(p) ==
    \/ InputsRefused(p) \/ StoreRaises(p) \/ CommitConflict(p)
    \/ SnapshotRaises(p) \/ Crash(p)

Next == (\E p \in Publishers : Start(p) \/ Proceed(p) \/ Fails(p)) \/ Tamper

Spec == Init /\ [][Next]_vars

\* Every process that runs gets its turns, and every run is repeated.
FairSpec == Spec /\ \A p \in Publishers : WF_vars(Start(p)) /\ WF_vars(Proceed(p))

-----------------------------------------------------------------------------
(* Properties. *)

TypeOK ==
    /\ generation \in [Inputs -> {"absent", "intact", "corrupt"}]
    /\ commit \in Inputs \cup {None, InvalidCommit}
    /\ snapshot \in Inputs \cup {None}
    /\ report \in [Publishers -> Outcome]
    /\ pc \in [Publishers -> {"idle", "find", "stage", "write", "readback", "precommit",
                              "commit", "verify", "snapshot", "upsert", "confirm", "report"}]
    /\ job \in [Publishers -> [reuse : BOOLEAN, compatible : BOOLEAN]]
    /\ outcome \in [Publishers -> Outcome]
    /\ faults \in 0..MaxFaults /\ tampers \in 0..MaxTampers
    /\ spoiled \subseteq Inputs \cup {None}

\* Publication is commit-last: whoever follows a commit finds an intact
\* generation, whatever crashed and however many runs raced to write it.
CommittedIsReadable ==
    commit \in Inputs \ spoiled => generation[commit] = "intact"

\* The summary Spring serves never names a result that lost the race or was
\* never published.
SnapshotNamesPublication ==
    snapshot # None => snapshot = commit

\* A COMPLETED date has its summary, and keeps it: no later attempt of another
\* run replaces it.
CompletedIsSummarised ==
    \A p \in Publishers :
        report[p].status = "COMPLETED" /\ None \notin spoiled => snapshot = InputOf[p]

\* Runs of the same lineage never block one another: unless the store misbehaves,
\* a date is BLOCKED only by a commit of another lineage.
OnlyOthersBlock ==
    \A p \in Publishers :
        report[p].status = "BLOCKED" =>
            commit \notin {None, InputOf[p]} \/ tampers > 0

\* Once faults stop, repeating the runs publishes the date for good and brings
\* its summary in line with it, unless a stored object was damaged.
Converges == <>(tampers > 0) \/ <>[](commit \in Inputs /\ snapshot = commit)

\* Who was told that its result is the published one.
Holders == {p \in Publishers : report[p].status \in {"COMPLETED", "DATABASE_PENDING"}}

Register == INSTANCE WriteOnceRegister WITH
    Clients <- Publishers, Proposal <- InputOf, Foreign <- InvalidCommit,
    Empty <- None, value <- commit, holders <- Holders

\* The commit is a write-once register: it never changes, and a run reports its
\* date as published (COMPLETED or DATABASE_PENDING) only if the commit is its own
\* or one of the same lineage and content.
ImplementsRegister == Register!Spec
=============================================================================
